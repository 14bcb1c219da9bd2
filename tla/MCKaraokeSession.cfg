SPECIFICATION Spec
CONSTANTS
  Lines <- TwoLines
  Grace = 1
  MaxSong = 2
  MaxCommits = 2
  MaxDrops = 1
  MaxEvictions = 1
  MaxQueue = 1
  MaxAttempts = 1
  LateSpeech = FALSE
  StrayEvents = TRUE
  LateExpiry = FALSE
INVARIANTS TypeOK   CompletedIsWhole
  

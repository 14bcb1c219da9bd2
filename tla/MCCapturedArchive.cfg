SPECIFICATION Spec
CONSTANTS
  MaxFrames = 3
  PartSize = 2
  Deleters <- Two
  MaxBatches = 2
  StopIsCalled = TRUE
  OtherAudio = TRUE
  MaxFailures = 2
INVARIANTS TypeOK OneOperation ClosedIsOver AbsentIsAbsent PartsAreLocated PublishedIsWhole
PROPERTY DeletedStaysDeleted
CHECK_DEADLOCK FALSE

SPECIFICATION Spec
CONSTANTS
  MaxFrames = 1
  PartSize = 1
  Deleters <- One
  MaxBatches = 2
  StopIsCalled = FALSE
  OtherAudio = FALSE
  MaxFailures = 0
INVARIANT CompletedIsAbsent
CHECK_DEADLOCK FALSE

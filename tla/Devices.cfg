CONSTANTS
  MaxOps = 1
  MaxFaults = 1
  MaxRuns = 2
  MaxSegments = 1
  TargetDose = 2
SPECIFICATION OthersSpec
INVARIANTS
  StoppedTargetRests
  RecordIsWhole
PROPERTIES
  TargetStopIsAnswered
  StoppedRunIsClosed
CHECK_DEADLOCK FALSE

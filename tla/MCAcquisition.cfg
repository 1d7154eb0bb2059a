CONSTANTS
  MaxRuns = 2
  MaxPulses = 1
  MaxCalls = 2
  MaxFaults = 1
SPECIFICATION AcquisitionSpec
INVARIANTS
  OneOwner
PROPERTIES
  SnapshotsAreKept
  StopEnds
  CallsAreAnswered
  RepairIsSafe
CHECK_DEADLOCK FALSE

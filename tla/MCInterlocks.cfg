CONSTANTS
  MaxOps = 1
  MaxFaults = 0
  MaxLosses = 2
SPECIFICATION FairSpec
INVARIANTS
  SampleWaitsForTarget
PROPERTIES
  ReopenIsAuthorized
  PauseEnds

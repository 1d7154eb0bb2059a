CONSTANTS
  MaxItems = 2
  MaxStarts = 1
  MaxSets = 1
  MaxRuns = 2
  MaxFaults = 1
  Contents <- MCContents
  Faults = {"early", "reorder", "settings", "refuse", "late", "lease", "other", "foreign", "load", "disk", "crash", "close"}
SPECIFICATION Spec
INVARIANTS
  StartedOnceInOrder
  NothingIsLost
  QueueIsSavedUnlessRaced
PROPERTIES
  RunsBeginUnderTheLease

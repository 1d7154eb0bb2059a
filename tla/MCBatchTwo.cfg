CONSTANTS
  b1 = b1
  b2 = b2
  s1 = s1
  s2 = s2
  Batches = {b1, b2}
  NoBatch = NoBatch
  Samples = {s1}
  Missing = Missing
  NonFinite = NonFinite
  NoRun = NoRun
  NoSample = NoSample
  DoseTolerance = 0
  TimeTolerance = 0
  MinimumDose <- MCMinimum
  MinimumRuntime <- MCMinimum
  Plans <- MCOneSample
  Outcomes <- MCFullOrAbort
  MaxRuns = 2
  MaxRevision = 1
  RepairLimit = 2
  SourceFailureLimit = 2
  Commands = {"create", "activate", "pause", "resume", "continue", "set_mode", "cancel"}
  Faults = {"crash", "save", "lease"}
SPECIFICATION Spec
PROPERTIES
  StartIsPermitted
SYMMETRY BatchSymmetry
CHECK_DEADLOCK FALSE

CONSTANTS
  b1 = b1
  b2 = b2
  s1 = s1
  s2 = s2
  Batches = {b1}
  NoBatch = NoBatch
  Samples = {s1}
  Missing = Missing
  NonFinite = NonFinite
  NoRun = NoRun
  NoSample = NoSample
  DoseTolerance = 0
  TimeTolerance = 0
  MinimumDose <- MCMinimum
  MinimumRuntime <- MCMinimum
  Plans <- MCOneSample
  Outcomes <- MCFullAbortBlank
  MaxRuns = 3
  MaxRevision = 2
  RepairLimit = 2
  SourceFailureLimit = 2
  Commands = {"create", "activate", "pause", "resume", "continue", "set_mode", "cancel", "update", "withdraw", "unwithdraw"}
  Faults = {"history", "snapshot", "repair", "start", "late", "orphan", "foreign", "crash", "shutdown"}
SPECIFICATION Spec
INVARIANTS
  RetryNeedsAcknowledgement
  FinishedBatchIsOver
PROPERTIES
  ErrorsStopStarts

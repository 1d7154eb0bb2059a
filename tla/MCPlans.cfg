CONSTANTS
  s1 = s1
  s2 = s2
  s3 = s3
  Samples = {s1, s2, s3}
  Missing = Missing
  NonFinite = NonFinite
  NoRun = NoRun
  NoSample = NoSample
  DoseTolerance = 1
  TimeTolerance = 5
  MinimumDose <- MCMinimum
  MinimumRuntime <- MCMinimum
  Plans <- MCPlannedSamples
  Outcomes <- MCOutcomes
  MaxAttempts = 2
  b1 = b1
  b2 = b2
  p1 = p1
  p2 = p2
  Batches = {b1, b2}
  PlanTexts = {p1, p2}
  LastRevision = 2
  MaxTroubles = 2
  Editors = {1, 2}
  Places = {1, 2}
  Doses = {1}
  MaxDeeds = 4
  MaxUnread = 1
  Items <- MCItems
  MaxTransfers = 3
  MaxLost = 1
SPECIFICATION PlansSpec
INVARIANTS
  OperatorCannotOverrideData
  SavesFollowWhatWasLoaded
  OneBatchIsActive
PROPERTIES
  RevisionsAreKept
  RunHasItsSettings
CHECK_DEADLOCK FALSE

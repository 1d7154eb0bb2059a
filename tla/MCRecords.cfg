CONSTANTS
  MaxRuns = 2
  MaxSessions = 3
  MaxShots = 2
  MaxFaults = 2
  Period = 2
  Windows <- MCWindows
  DisplayHorizon = 2
  SampleInterval = 2
  MaxMarkers = 1
  MaxDelay = 1
  MaxTime = 7
  MaxPulses = 4
  MaxSwitches = 1
  MaxEdits = 2
  MaxRequests = 4
  MaxTroubles = 1
  MaxRestarts = 1
  MaxTimed = 1
  MaxTurns = 3
  MaxReports = 1
  MaxOnWire = 2
SPECIFICATION RecordsSpec
INVARIANTS
  CapturingIsRecoverable
  CompleteIsWhole
  CadenceIsSound
  EventsTellTheTiming
PROPERTIES
  SnapshotsAreFiled
  LastStateIsSaved
CHECK_DEADLOCK FALSE

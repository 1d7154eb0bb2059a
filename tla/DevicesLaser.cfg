CONSTANTS
  MaxOps = 1
  MaxFaults = 1
  MaxRuns = 0
  MaxSegments = 0
  TargetDose = 1
SPECIFICATION LaserSpec
INVARIANTS
  StoppedLaserStaysOff
PROPERTIES
  StopIsAnswered

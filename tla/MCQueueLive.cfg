CONSTANTS
  MaxItems = 2
  MaxStarts = 2
  MaxSets = 1
  MaxRuns = 2
  MaxFaults = 0
  Contents <- MCAlike
  Faults = {}
SPECIFICATION FairSpec
PROPERTIES
  LeaseReturns
  RequestsAreServed

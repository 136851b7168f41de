CONSTANTS
  Clients = {"app"}
  MaxRounds = 1
  MaxKeys = 1
  MaxCalls = 1
  MaxSaves = 1
  Photos = FALSE
  MaxFaults = 1
SPECIFICATION Spec
INVARIANT ChangedMeansNewKey
CHECK_DEADLOCK FALSE

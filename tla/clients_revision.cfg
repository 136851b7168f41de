CONSTANTS
  Clients = {"web", "app"}
  MaxRounds = 2
  MaxKeys = 2
  MaxSaves = 1
  MaxCalls = 1
  Photos = FALSE
  MaxFaults = 0
SPECIFICATION Spec
INVARIANT RevisionFits
CHECK_DEADLOCK FALSE

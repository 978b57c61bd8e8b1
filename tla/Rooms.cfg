SPECIFICATION FairSpec
CONSTANTS
  None = none
  Nobody = nobody
  Nodes <- TwoNodes
  Tasks <- Timers
  Settings <- SomeSettings
  MaxSockets = 2
  MaxRaces = 1
  MaxTrouble = 1
  Allowed <- Troubles
INVARIANTS
  ElectionInv
PROPERTIES
  Agreement
  AloneHosts
CHECK_DEADLOCK FALSE

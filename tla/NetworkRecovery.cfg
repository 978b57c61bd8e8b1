SPECIFICATION FairSpec
CONSTANTS
  Radios = {"exclusive", "concurrent"}
  Intents <- EveryIntent
  Shipped <- Fresh
  None = None
  CriticalTicks = 1
  BootTicks = 2
  RestoreTicks = 1
  MaxRequests = 1
  MaxTrouble = 2
  Allowed <- Troubles
INVARIANTS
  RecoveryInv
PROPERTIES
  JoinEndsReachable
  NeverDark
  StationRestored
CHECK_DEADLOCK FALSE

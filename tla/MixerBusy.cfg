SPECIFICATION FairSpec
CONSTANTS
  None = none
  NoFile = nofile
  DefaultMixer = "software"
  Custodies = {TRUE}
  Stored <- Configured
  Targets = {"software", "hardware"}
  MaxRequests = 2
  MaxTrouble = 1
  Allowed <- AllEvents
INVARIANTS
  SettingsAgree
PROPERTIES
  MuteProtects
  OkMeansApplied
  EveryGestureEnds
CHECK_DEADLOCK FALSE

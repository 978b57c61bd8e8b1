SPECIFICATION FairSpec
CONSTANTS
  None = none
  Names = {"Music", "Vinyl"}
  Base = "Music"
  MaxCards = 6
  HandlerNames <- OneVerb
  MaxRequests = 1
  MaxTrouble = 1
  Aliases = {"Vinyl", none}
  Allowed <- Everything
INVARIANTS
  VolumeInv
PROPERTIES
  HostFollows
CHECK_DEADLOCK FALSE

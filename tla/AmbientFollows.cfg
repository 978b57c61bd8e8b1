SPECIFICATION ObserverFairSpec
CONSTANTS
  Songs = {s1, s2}
  NoSong = none
  Volumes = {50}
  ObserverLimit <- TroubleLimit
INVARIANTS
  ObserverInv
PROPERTIES
  CatchesUpUnlessDeaf
CHECK_DEADLOCK FALSE

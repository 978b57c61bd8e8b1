SPECIFICATION FairSpec
CONSTANTS
  None = none
  Open = open
  Crews <- TwoCrews
  Shares = {s1}
  Targets <- Nas
  Ladder <- TwoRungs
  Spoken = {"3.0"}
  MaxRequests = 1
  HandlerNames <- VerbNames
  MaxTrouble <- CrewTrouble
  Allowed <- CrewAllowed
INVARIANTS
  PromisesAreKept
PROPERTIES
  NoStorm
  OnlyAsRequested
  EntriesSettle
  SharesComeBack
CHECK_DEADLOCK FALSE

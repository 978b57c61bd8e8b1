SPECIFICATION FairSpec
CONSTANTS
  None = None
  Queues <- MCQueues
  Selections <- MCSelections
  Spots = {2}
  Truncation = 4
  MaxQueue = 5
  MaxVerbs = 1
  MaxTrouble = 1
  Allowed <- MCAllowed
INVARIANTS
  VerbsAreExact
  RenameKeepsTheQueue
PROPERTIES
  PruneOnlyGone
  SubjectCatchesUp
CHECK_DEADLOCK FALSE

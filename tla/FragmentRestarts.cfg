SPECIFICATION FairSpec
CONSTANTS
  Endpoints = {e1, e2, e3}
  NoEndpoint = none
  Renderable = {e1, e2}
  Mixers = {m1, m2}
  NoFile = nofile
  Limits <- FaultLimits
INVARIANTS
  TypeOK
PROPERTIES
  SkipIsSafe
  RestartBringsNews
  WorkerSettles
CHECK_DEADLOCK FALSE

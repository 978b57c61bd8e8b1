SPECIFICATION FairSpec
CONSTANTS
  c1 = c1
  c2 = c2
  s1 = s1
  s2 = s2
  none = none
  Callers = {c1, c2}
  Messages <- FewMessages
  Songs = {s1}
  NoSong = none
  Volumes = {0, 50}
  FallbackVolume = 50
  Found <- Playing
  Settings <- OneSetting
  COMMAND_CHANNEL_CAPACITY = 1
  IDLE_CHANNEL_CAPACITY = 1
  RECONNECT_MAX_ATTEMPTS = 2
  Limits <- AnswerLimits
INVARIANTS
  NoReplyLost
PROPERTIES
  NobodyWaitsForEver
CHECK_DEADLOCK FALSE

SPECIFICATION Spec
CONSTANTS
  c1 = c1
  c2 = c2
  s1 = s1
  s2 = s2
  none = none
  Callers = {c1}
  Messages <- CommandMessages
  Songs = {s1}
  NoSong = none
  Volumes = {0, 30, 50}
  FallbackVolume = 50
  Found <- Stopped
  Settings <- OneSetting
  COMMAND_CHANNEL_CAPACITY = 1
  IDLE_CHANNEL_CAPACITY = 1
  RECONNECT_MAX_ATTEMPTS = 1
  Limits <- CommandLimits
INVARIANTS
  TypeOK
  UnmuteIsAudible
  RepliesArePaired
  OkMeansExecuted
PROPERTIES
  MuteKeepsCapture
  AnswersHold
CHECK_DEADLOCK FALSE

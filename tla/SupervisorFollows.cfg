SPECIFICATION FairSpec
CONSTANTS
  c1 = c1
  c2 = c2
  s1 = s1
  s2 = s2
  none = none
  Callers = {c1}
  Messages <- FollowMessages
  Songs = {s1}
  NoSong = none
  Volumes = {0, 50}
  FallbackVolume = 50
  Found <- Playing
  Settings <- TwoSettings
  COMMAND_CHANNEL_CAPACITY = 1
  IDLE_CHANNEL_CAPACITY = 1
  RECONNECT_MAX_ATTEMPTS = 1
  Limits <- FollowLimits
PROPERTIES
  ReportCatchesUp
  SettingsConverge
CHECK_DEADLOCK FALSE

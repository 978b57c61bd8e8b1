SPECIFICATION FairSpec
CONSTANTS
  none = none
  software = software
  hardware = hardware
  gapless = gapless
  crossfade = crossfade
  Settings <- MCSettings
  None = none
  ConfigMixer = hardware
  DefaultMixer = software
  DefaultProtocol = gapless
  Restored <- MCRestored
  Capacity = 2
  Polls = 2
  Attempts = 2
  Limit <- BusyLimit
INVARIANTS
  ChannelsAreCurrent
PROPERTIES
  StartupVolumeLands
CHECK_DEADLOCK FALSE

SPECIFICATION StepSpec
CONSTANTS
  Adapters = {usb1}
  None = None
  Fallback = Fallback
  Foreign = Foreign
  SourceRouting = FALSE
  ControlsEnabled = TRUE
  HostOnly = TRUE
  Levels = {}
  Mutes = {FALSE}
  Deltas = {0, 1}
  MaxVolume = 8
  StartVolume = 4
  UserVolumes = {}
  KillIsPrompt = TRUE
  Ends = FALSE
  MaxSends = 5
  MaxAttempts = 1
  MaxUserActs = 0
PROPERTY ReconnectIsSilent
CHECK_DEADLOCK FALSE

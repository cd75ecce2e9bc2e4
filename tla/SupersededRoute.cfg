SPECIFICATION Spec
CONSTANTS
  Adapters = {usb1}
  None = None
  Fallback = Fallback
  Foreign = Foreign
  SourceRouting = FALSE
  ControlsEnabled = FALSE
  HostOnly = FALSE
  Levels = {}
  Mutes = {}
  Deltas = {}
  MaxVolume = 0
  StartVolume = 0
  UserVolumes = {}
  KillIsPrompt = TRUE
  Ends = FALSE
  MaxSends = 3
  MaxAttempts = 1
  MaxUserActs = 0
INVARIANT OutputFollowsHeadset
CHECK_DEADLOCK FALSE

SPECIFICATION FairSpec
CONSTANTS
  Adapters = {usb1}
  None = None
  Fallback = Fallback
  Foreign = Foreign
  SourceRouting = FALSE
  ControlsEnabled = TRUE
  HostOnly = TRUE
  Levels = {}
  Mutes = {FALSE}
  Deltas = {0, 1}
  MaxVolume = 3
  StartVolume = 3
  UserVolumes = {}
  KillIsPrompt = FALSE
  Ends = TRUE
  MaxSends = 3
  MaxAttempts = 2
  MaxUserActs = 0
INVARIANTS TypeOK NoNilCancel
PROPERTIES Converges NothingLeaks
CHECK_DEADLOCK FALSE

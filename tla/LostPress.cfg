SPECIFICATION StepSpec
CONSTANTS
  Adapters = {usb1}
  None = None
  Fallback = Fallback
  Foreign = Foreign
  SourceRouting = FALSE
  ControlsEnabled = TRUE
  HostOnly = TRUE
  Levels = {}
  Mutes = {FALSE}
  Deltas <- UpAndDown
  MaxVolume = 8
  StartVolume = 4
  UserVolumes = {}
  KillIsPrompt = TRUE
  Ends = FALSE
  MaxSends = 4
  MaxAttempts = 1
  MaxUserActs = 0
INVARIANT PressesConserved
CHECK_DEADLOCK FALSE

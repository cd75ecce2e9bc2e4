SPECIFICATION StepSpec
CONSTANTS
  Adapters = {usb1}
  None = None
  Fallback = Fallback
  Foreign = Foreign
  SourceRouting = FALSE
  ControlsEnabled = TRUE
  HostOnly = TRUE
  Levels = {}
  Mutes = {FALSE}
  Deltas <- UpAndDown
  MaxVolume = 2
  StartVolume = 2
  UserVolumes = {1}
  KillIsPrompt = TRUE
  Ends = FALSE
  MaxSends = 4
  MaxAttempts = 2
  MaxUserActs = 1
INVARIANT TargetExact
PROPERTY StepsLand
CHECK_DEADLOCK FALSE

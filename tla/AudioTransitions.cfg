SPECIFICATION Spec
CONSTANTS
  Adapters = {usb1, usb2}
  None = None
  Fallback = Fallback
  Foreign = Foreign
  SourceRouting = TRUE
  ControlsEnabled = TRUE
  HostOnly = FALSE
  Levels = {1}
  Mutes = {FALSE, TRUE}
  Deltas = {0}
  MaxVolume = 1
  StartVolume = 0
  UserVolumes = {}
  KillIsPrompt = TRUE
  MaxSends = 3
  Ends = FALSE
  MaxAttempts = 2
  MaxUserActs = 1
SYMMETRY AdapterSymmetry
INVARIANTS OneLiveAction DoneMeansDone
PROPERTY UserChoiceKept
CHECK_DEADLOCK FALSE

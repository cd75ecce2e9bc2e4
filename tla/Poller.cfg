SPECIFICATION FairSpec
CONSTANTS
  Adapters = {usb1, usb2}
  None = None
  Empty = Empty
  Failed = Failed
  Threshold = 2
  Interval = 5
  FastInterval = 2
  HostOnly = TRUE
  Target = 11
  Levels <- TwoLevelsOrInvalid
  InitialRetry = 3
  MaximumRetry = 5
  Ends = TRUE
  MaxSelections = 3
  MaxEvents = 3
  MaxFailures = 1
INVARIANTS TypeOK OwnAdapter SessionState OneWrite
PROPERTIES LinkSpec ConnectionFollows LevelConverges
CHECK_DEADLOCK FALSE

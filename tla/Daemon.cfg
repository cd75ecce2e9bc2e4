SPECIFICATION FairSpec
CONSTANTS
  Adapters = {usb1, usb2}
  None = None
  Empty = Empty
  MaxSelections = 3
  MaxChanges = 1
INVARIANTS TypeOK NamedUnlessMissed NoFalseAlarm AllEnded
PROPERTIES AudioFollows Ends
CHECK_DEADLOCK FALSE

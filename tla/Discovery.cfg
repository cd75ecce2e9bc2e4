SPECIFICATION FairSpec
CONSTANTS
  Paths = {1, 2}
  None = None
  Nothing = Nothing
  Gap = FALSE
  MayFail = TRUE
  MaxPlugs = 4
  MaxSpurious = 1
INVARIANTS TypeOK Informed GoneIsPending
PROPERTY Finds
CHECK_DEADLOCK FALSE

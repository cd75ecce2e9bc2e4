SPECIFICATION Spec
CONSTANTS
  None = None
  Target = 11
  Uses <- CountedUses
  MaxPresses = 5
INVARIANTS TypeOK PressesCounted NoDoubleCount
CHECK_DEADLOCK FALSE

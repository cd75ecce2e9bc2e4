SPECIFICATION FairSpec
CONSTANT MaxSends = 12
INVARIANT TypeOK
INVARIANT NeverBlocks
PROPERTY NewestDelivered
PROPERTY SlotSpec
\* the sender stops after MaxSends values
CHECK_DEADLOCK FALSE

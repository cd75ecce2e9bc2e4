SPECIFICATION FairSpec
CONSTANTS
  Ids = {1, 2, 3, 4}
  Devices <- SomeDevices
  Nodes <- SomeNodes
  Targets <- SomeTargets
  None = None
  StartGraphs <- SomeGraphs
  MaxChanges = 4
  MaxFailures = 1
INVARIANTS TypeOK OwnObject Preferred
PROPERTY Settles
CHECK_DEADLOCK FALSE

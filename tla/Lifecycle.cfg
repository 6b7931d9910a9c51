SPECIFICATION FairSpec
CONSTANTS
  Plugins = 2
  Methods = {"m1", "m2"}
  MaxHandlers = 2
  MaxStarts = 2
  MaxConns = 1
  MaxFaults = 2
  None = None
INVARIANTS TypeOK RegisteredServes EntryNamesMethods
PROPERTIES HookOrder ServeEnds StopEnds
CHECK_DEADLOCK FALSE

SPECIFICATION Spec
CONSTANTS
  ServiceCount = 2
  Space = 5
  MaxIndex = 7
  Tags = {"t1", "t2"}
  Fillers = {f1}
  Names = {1, 2, 3, 4}
  Stoppable = TRUE
  MaxFaults = 0
  Points <- MCPoints
  Slots <- MCSlotsTwice
  Uses <- MCUsesBoth
  None = None
INVARIANTS TypeOK OwnService PoolsRun PoolsCurrent
PROPERTIES ServesLastDiscovery KeysKeepClients

SPECIFICATION Spec
CONSTANTS
  ServiceCount = 2
  Space = 5
  MaxIndex = 7
  Tags = {"t1"}
  Fillers = {f1}
  Names = {1, 2, 3, 4}
  Stoppable = FALSE
  MaxFaults = 0
  Points <- MCPoints
  Slots <- MCSlots
  Uses <- MCUsesBoth
  None = None
INVARIANTS Finalized

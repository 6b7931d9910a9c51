SPECIFICATION FairSpec
CONSTANTS
  ServiceCount = 2
  Space = 5
  MaxIndex = 7
  Tags = {"t1"}
  Fillers = {f1, f2}
  Names = {1, 2, 3, 4}
  Stoppable = TRUE
  MaxFaults = 1
  Points <- MCPoints
  Slots <- MCSlots
  Uses <- MCUsesAlike
  None = None
INVARIANTS NoLeak
PROPERTIES Converges FillEnds StopEnds

SPECIFICATION Spec
CONSTANTS
  Conns = {c1}
  Calls = {k1, k2}
  Sends = {}
  Requests = {r1, r2}
  Concurrency = 2
  PendingResponses = 1
  Partial = {}
  Outcomes <- MCOutcomes
  FailingHooks = {}
  Stoppable = FALSE
  MaxStarts = 1
  MaxFaults = 1
  NoId = NoId
  Nil = Nil
SYMMETRY Symmetry
INVARIANTS SlotReclaimable
CHECK_DEADLOCK FALSE

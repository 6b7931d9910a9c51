SPECIFICATION Spec
CONSTANTS
  Calls = {k1, k2, k3, k4}
  Sends = {k4}
  Cancellable = {}
  Unencodable = {k4}
  Requests = {r1, r2, r3, r4}
  Conns = {c1, c2}
  PendingRequests = 1
  Replies = {"ok"}
  FailingHooks = {}
  Stoppable = FALSE
  MaxStarts = 1
  MaxFaults = 1
  MaxId = 3
  Nil = Nil
SYMMETRY Symmetry
INVARIANTS CountExact PendingBounded ConnectionLimit
PROPERTIES NoLateReply
CHECK_DEADLOCK FALSE

SPECIFICATION Spec
CONSTANTS
  Calls = {k1, k2}
  Sends = {}
  Cancellable = {k1}
  Unencodable = {}
  Requests = {r1, r2}
  Conns = {c1}
  PendingRequests = 1
  Replies = {"ok", "error", "errorEmpty", "undecodable"}
  FailingHooks = {}
  Stoppable = TRUE
  MaxStarts = 2
  MaxFaults = 1
  MaxId = 2
  Nil = Nil
SYMMETRY Symmetry
INVARIANTS TypeOK Inv Correlated OwnReply NoLostCall SignalOnce CountExact
CHECK_DEADLOCK FALSE

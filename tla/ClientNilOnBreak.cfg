SPECIFICATION Spec
CONSTANTS
  Calls = {k1}
  Sends = {}
  Cancellable = {}
  Unencodable = {}
  Requests = {r1}
  Conns = {c1}
  PendingRequests = 1
  Replies = {"ok"}
  FailingHooks = {}
  Stoppable = FALSE
  MaxStarts = 1
  MaxFaults = 1
  MaxId = 2
  Nil = Nil
SYMMETRY Symmetry
INVARIANTS NilMeansReplied
CHECK_DEADLOCK FALSE

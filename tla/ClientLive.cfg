SPECIFICATION FairSpec
CONSTANTS
  Calls = {k1, k2}
  Sends = {}
  Cancellable = {}
  Unencodable = {k2}
  Requests = {r1, r2}
  Conns = {c1}
  PendingRequests = 1
  Replies = {"ok", "errorEmpty"}
  FailingHooks = {"dialServer", "connected"}
  Stoppable = TRUE
  MaxStarts = 1
  MaxFaults = 1
  MaxId = 2
  Nil = Nil
PROPERTIES CallReturns TakenCallReturns StopReturns
CHECK_DEADLOCK FALSE

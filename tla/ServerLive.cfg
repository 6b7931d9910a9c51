SPECIFICATION FairSpec
CONSTANTS
  Conns = {c1}
  Calls = {k1, k2}
  Sends = {}
  Requests = {r1, r2}
  Concurrency = 1
  PendingResponses = 1
  Partial = {k2}
  Outcomes <- MCOutcomes
  FailingHooks = {"acceptConnection", "clientConnected"}
  Stoppable = TRUE
  MaxStarts = 1
  MaxFaults = 1
  NoId = NoId
  Nil = Nil
PROPERTIES EveryCallAnswered StopReturns Serves
CHECK_DEADLOCK FALSE

SPECIFICATION Spec
CONSTANTS
  Conns = {c1}
  Calls = {k1}
  Sends = {k1}
  Requests = {r1}
  Concurrency = 1
  PendingResponses = 1
  Partial = {}
  Outcomes <- MCAnyOutcome
  FailingHooks = {}
  Stoppable = FALSE
  MaxStarts = 1
  MaxFaults = 0
  NoId = NoId
  Nil = Nil
SYMMETRY Symmetry
INVARIANTS Survives
CHECK_DEADLOCK FALSE

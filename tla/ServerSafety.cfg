SPECIFICATION Spec
CONSTANTS
  Conns = {c1, c2}
  Calls = {k1, k2, k3}
  Sends = {k3}
  Requests = {r1, r2}
  Concurrency = 1
  PendingResponses = 1
  Partial = {k2}
  Outcomes <- MCOutcomes
  FailingHooks = {}
  Stoppable = TRUE
  MaxStarts = 1
  MaxFaults = 0
  NoId = NoId
  Nil = Nil
SYMMETRY Symmetry
INVARIANTS TypeOK OwnResponse ResponseTellsOutcome OneHolder SlotsExact ConcurrencyLimit AnsweredOnce
CHECK_DEADLOCK FALSE

------------------------------- MODULE Service -------------------------------
(***************************************************************************)
(* What the server promises its clients: a request is performed only after *)
(* it was sent and at most once, and a Call that has been performed may be *)
(* answered, once, on the connection it came on, with its own result and   *)
(* with what became of it.                                                 *)
(***************************************************************************)
EXTENDS Integers, Sequences

CONSTANTS
  Conns,    \* the connections
  Calls,    \* the requests
  Sends,    \* those that get no response
  Outcomes, \* per request, what may become of it
  Nil       \* not sent

VARIABLES
  sent,     \* the connection each request was sent on
  done,     \* what became of each request, "none" until it was performed
  answers   \* the responses on each connection

\* Outcomes that a response cannot tell from success.
Clean == {"ok", "errorEmpty"}

Init ==
  /\ sent = [k \in Calls |-> Nil]
  /\ done = [k \in Calls |-> "none"]
  /\ answers = [c \in Conns |-> <<>>]

Send(c, k) ==
  /\ sent[k] = Nil
  /\ sent' = [sent EXCEPT ![k] = c]
  /\ UNCHANGED <<done, answers>>

Perform(k) ==
  /\ sent[k] # Nil /\ done[k] = "none"
  /\ \E o \in Outcomes[k] : done' = [done EXCEPT ![k] = o]
  /\ UNCHANGED <<sent, answers>>

Answered(k) == \E c \in Conns : \E n \in 1 .. Len(answers[c]) : answers[c][n].id = k

\* A response without an error has all values.
Answer(c, k) ==
  /\ k \notin Sends /\ sent[k] = c /\ done[k] # "none" /\ ~Answered(k)
  /\ \E v \in IF done[k] \in Clean THEN {"all"} ELSE {"none", "some", "all"} :
       answers' = [answers EXCEPT ![c] =
                     Append(@, [id |-> k, result |-> k, values |-> v,
                                failed |-> done[k] \notin Clean])]
  /\ UNCHANGED <<sent, done>>

Next ==
  \E k \in Calls : Perform(k) \/ \E c \in Conns : Send(c, k) \/ Answer(c, k)

Spec == Init /\ [][Next]_<<sent, done, answers>>

=============================================================================

------------------------------ MODULE MCServer ------------------------------
(* Finite instances of Server.                                             *)
EXTENDS Server, TLC

CONSTANT Partial \* calls that fail

\* Calls that return next to calls that fail in every way; Sends return or panic.
MCOutcomes ==
  [k \in Calls |-> IF k \in Partial THEN {"error", "unencodable", "rejected"}
                   ELSE IF k \in Sends THEN {"ok", "panic"}
                   ELSE {"ok"}]

\* Every outcome there is.
MCAnyOutcome == [k \in Calls |-> AllOutcomes]

\* Objects, connections and the calls of one kind are interchangeable.
Symmetry == Permutations(Requests) \cup Permutations(Conns)
            \cup Permutations(Calls \ (Sends \cup Partial)) \cup Permutations(Sends)
            \cup Permutations(Partial)

=============================================================================

------------------------------ MODULE MCClient ------------------------------
(* Finite instances of Client.                                             *)
EXTENDS ClientInvariant, TLC

\* Objects and supervisors are interchangeable, and so are the calls that none of the
\* sets Sends, Cancellable and Unencodable tells apart.
Symmetry == Permutations(Requests) \cup Permutations(Conns)
            \cup Permutations(Calls \ (Sends \cup Cancellable \cup Unencodable))

=============================================================================

----------------------------- MODULE MCSelector -----------------------------
(* Finite instances of Selector.                                           *)
EXTENDS Selector

\* A ring of five points on which the services meet at 3.
MCPoints == [s \in Services |-> <<{1, 3}, {2, 3}>>[s]]

\* Every service has every tag.
MCSlots == [t \in Tags |-> Services \X {1}]

\* The first service names t1 twice.
MCSlotsTwice == [MCSlots EXCEPT !["t1"] = @ \cup {<<1, 2>>}]

\* Every tag is always asked for in the same way.
MCUsesAlike == [tag : Tags, chash : {TRUE}]

\* The pool of t1 is asked for with and without a consistent hash.
MCUsesBoth == MCUsesAlike \cup {[tag |-> "t1", chash |-> FALSE]}

=============================================================================

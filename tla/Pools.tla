-------------------------------- MODULE Pools --------------------------------
(***************************************************************************)
(* What the selector promises of its pools: a pool is always built for the *)
(* services that were discovered last.  Nothing that happens while it is   *)
(* being built may put the services of an earlier discovery in its place.  *)
(***************************************************************************)
CONSTANTS
  Services, \* the services that can be discovered
  Tags,     \* the tags pools are made for
  Slots,    \* the slots of each tag, a set of pairs of a service and a number
  None      \* no pool

VARIABLES
  known,    \* the services discovered last
  view      \* the slots of each tag's pool, or None

\* The slots of tag t at the services S.
SlotsAt(t, S) == {slot \in Slots[t] : slot[1] \in S}

Init ==
  /\ known \in SUBSET Services
  /\ view = [t \in Tags |-> None]

Discover ==
  /\ known' \in SUBSET Services
  /\ UNCHANGED view

\* A pool is built, or rebuilt.
Serve(t) ==
  /\ view' = [view EXCEPT ![t] = SlotsAt(t, known)]
  /\ UNCHANGED known

\* The selector is stopped.
Clear ==
  /\ view' = [t \in Tags |-> None]
  /\ UNCHANGED known

Next == Discover \/ Clear \/ \E t \in Tags : Serve(t)

Spec == Init /\ [][Next]_<<known, view>>

=============================================================================

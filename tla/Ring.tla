-------------------------------- MODULE Ring --------------------------------
(***************************************************************************)
(* The consistent hash of consistenthash.go: the replicas of every service *)
(* are points of a ring, and a key belongs to the service of the next      *)
(* point.  The hash function is a constant: it may put replicas of         *)
(* different services on the same point.                                   *)
(***************************************************************************)
EXTENDS Integers, FiniteSetsExt

CONSTANTS
  ServiceCount, \* the services, numbered in the order of their Ids
  Space,        \* hashes are 0 .. Space - 1, in the code 2^64 of them
  Points        \* the hashes of the replicas of each service

Services == 1 .. ServiceCount
Hashes == 0 .. Space - 1

ASSUME RingAssumption ==
  /\ ServiceCount \in Nat
  /\ Space \in Nat \ {0}
  /\ Points \in [Services -> (SUBSET Hashes) \ {{}}]

\* m.keys, without its duplicates: the first of some equal keys is found, and they
\* all have the same entry in hashMap.
keys(S) == UNION {Points[s] : s \in S}

\* m.hashMap, filled in the order of the services: the last one at a point has it.
hashMap(S, p) == Max({s \in S : p \in Points[s]})

IsEmpty(S) == keys(S) = {}

\* The key that sort.Search finds: the first that is not below h, or else the first
\* of all.
found(S, h) ==
  LET notBelow == {p \in keys(S) : p >= h} IN
  IF notBelow = {} THEN Min(keys(S)) ELSE Min(notBelow)

\* Mutant: the key is chosen by the remainder of the hash.
searchByRemainder(S, h) ==
  LET n == Cardinality(keys(S)) IN
  hashMap(S, CHOOSE p \in keys(S) : Cardinality({q \in keys(S) : q < p}) = h % n)

search(S, h) == hashMap(S, found(S, h))

-----------------------------------------------------------------------------
\* The way from hash h to point p, clockwise.
Distance(h, p) == IF p >= h THEN p - h ELSE p - h + Space

\* p is the point of S that comes first on the way clockwise from h.
IsNext(S, h, p) ==
  /\ p \in keys(S)
  /\ \A q \in keys(S) : Distance(h, p) <= Distance(h, q)

=============================================================================

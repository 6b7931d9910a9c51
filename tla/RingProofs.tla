----------------------------- MODULE RingProofs -----------------------------
(***************************************************************************)
(* Theorems about the consistent hash of Ring and the round robin of       *)
(* Tagged, for any hash function, any number of services and clients, and  *)
(* any width of the index.                                                 *)
(***************************************************************************)
EXTENDS Tagged, TLAPS, WellFoundedInduction

-----------------------------------------------------------------------------
(* Least and greatest elements.                                            *)

\* Min of a set of naturals is its least element.
LEMMA MinIsLeast ==
  ASSUME NEW X \in SUBSET Nat, X # {}
  PROVE  Min(X) \in X /\ \A y \in X : Min(X) <= y
<1>1. PICK x \in X : \A y \in X : <<y, x>> \notin OpToRel(<, Nat)
  BY NatLessThanWellFounded, WFMin, Zenon
<1>2. \A y \in X : x <= y
  <2> TAKE y \in X
  <2>1. ~(y < x) BY <1>1, Zenon DEF OpToRel
  <2> QED BY <2>1
<1> QED BY <1>2 DEF Min

\* Max of a set of services is its greatest element.
LEMMA MaxIsGreatest ==
  ASSUME NEW X \in SUBSET Services, X # {}
  PROVE  Max(X) \in X /\ \A y \in X : y <= Max(X)
<1> DEFINE Y == {ServiceCount - x : x \in X}
<1>0. ServiceCount \in Nat BY RingAssumption
<1>1. Y \in SUBSET Nat /\ Y # {} BY <1>0 DEF Services
<1>2. PICK x \in X : Min(Y) = ServiceCount - x
  <2>1. Min(Y) \in Y BY <1>1, MinIsLeast
  <2> QED BY <2>1
<1>3. \A y \in X : y <= x
  <2> TAKE y \in X
  <2>1. ServiceCount - y \in Y OBVIOUS
  <2>2. ServiceCount - x <= ServiceCount - y BY <1>1, <1>2, <2>1, MinIsLeast
  <2> QED BY <1>0, <2>2 DEF Services
<1>4. \A y \in X : x >= y BY <1>3 DEF Services
<1> HIDE DEF Y
<1> QED BY <1>4 DEF Max, Services

-----------------------------------------------------------------------------
(* The ring.                                                               *)

\* The points of services that are there are hashes.
LEMMA KeysType ==
  ASSUME NEW S \in SUBSET Services
  PROVE  keys(S) \in SUBSET Hashes /\ keys(S) \in SUBSET Nat /\ (S # {} => keys(S) # {})
BY RingAssumption DEF keys, Hashes

\* sort.Search and the wrap to index 0 find the next point clockwise.
THEOREM SearchFindsNext ==
  ASSUME NEW S \in SUBSET Services, S # {}, NEW h \in Hashes
  PROVE  IsNext(S, h, found(S, h))
<1> DEFINE notBelow == {p \in keys(S) : p >= h}
<1>0. Space \in Nat \ {0} BY RingAssumption
<1>1. keys(S) \in SUBSET Hashes /\ keys(S) \in SUBSET Nat /\ keys(S) # {} BY KeysType
<1>2. CASE notBelow = {}
  <2>1. found(S, h) = Min(keys(S)) BY <1>2 DEF found
  <2>2. found(S, h) \in keys(S) /\ \A q \in keys(S) : found(S, h) <= q
    BY <1>1, <2>1, MinIsLeast
  <2>3. \A q \in keys(S) : ~(q >= h) BY <1>2
  <2> QED BY <1>0, <1>1, <2>2, <2>3 DEF IsNext, Distance, Hashes
<1>3. CASE notBelow # {}
  <2>1. found(S, h) = Min(notBelow) BY <1>3 DEF found
  <2>2. notBelow \in SUBSET Nat BY <1>1
  <2>3. found(S, h) \in notBelow /\ \A q \in notBelow : found(S, h) <= q
    BY <1>3, <2>1, <2>2, MinIsLeast
  <2>4. found(S, h) \in keys(S) /\ found(S, h) >= h BY <2>3
  <2>5. ASSUME NEW q \in keys(S) PROVE Distance(h, found(S, h)) <= Distance(h, q)
    <3>1. CASE q >= h BY <1>1, <2>3, <2>4, <3>1 DEF Distance, Hashes
    <3>2. CASE ~(q >= h) BY <1>0, <1>1, <2>4, <3>2 DEF Distance, Hashes
    <3> QED BY <3>1, <3>2
  <2> QED BY <2>4, <2>5 DEF IsNext
<1> QED BY <1>2, <1>3

\* The service of a point is the last of those that share it.
LEMMA HashMapIsLast ==
  ASSUME NEW S \in SUBSET Services, NEW p \in keys(S)
  PROVE  /\ hashMap(S, p) \in S /\ p \in Points[hashMap(S, p)]
         /\ \A s \in S : p \in Points[s] => s <= hashMap(S, p)
<1> DEFINE X == {s \in S : p \in Points[s]}
<1>1. X \in SUBSET Services /\ X # {} BY DEF keys
<1>2. hashMap(S, p) = Max(X) BY DEF hashMap
<1>3. Max(X) \in X /\ \A s \in X : s <= Max(X) BY <1>1, MaxIsGreatest
<1> QED BY <1>2, <1>3

\* A key belongs to one of the services.
THEOREM SearchFindsService ==
  ASSUME NEW S \in SUBSET Services, S # {}, NEW h \in Hashes
  PROVE  search(S, h) \in S
BY SearchFindsNext, HashMapIsLast DEF search, IsNext

\* Between two sets of services a key keeps its service, unless that one goes or the
\* service it moves to has come: for any hash function, also where points meet.
THEOREM KeysStayPut ==
  ASSUME NEW S \in SUBSET Services, S # {}, NEW T \in SUBSET Services, T # {},
         NEW h \in Hashes, search(S, h) \in T, search(T, h) \in S
  PROVE  search(S, h) = search(T, h)
<1> DEFINE p == found(S, h)
           q == found(T, h)
           s == search(S, h)
           t == search(T, h)
<1>1. IsNext(S, h, p) /\ IsNext(T, h, q) BY SearchFindsNext
<1>2. p \in keys(S) /\ q \in keys(T) BY <1>1 DEF IsNext
<1>3. /\ p \in Points[s] /\ \A x \in S : p \in Points[x] => x <= s
      /\ q \in Points[t] /\ \A x \in T : q \in Points[x] => x <= t
  BY <1>2, HashMapIsLast DEF search
<1>4. p \in keys(T) /\ q \in keys(S) BY <1>3 DEF keys
<1>5. p = q
  <2>1. p \in Hashes /\ q \in Hashes BY <1>2, KeysType
  <2>2. Distance(h, p) <= Distance(h, q) /\ Distance(h, q) <= Distance(h, p)
    BY <1>1, <1>4 DEF IsNext
  <2>3. Space \in Nat \ {0} BY RingAssumption
  <2> HIDE DEF p, q
  <2> QED BY <2>1, <2>2, <2>3 DEF Distance, Hashes
<1>6. s <= t /\ t <= s BY <1>3, <1>5
<1>7. s \in Nat /\ t \in Nat
  <2>1. s \in Services /\ t \in Services OBVIOUS
  <2> HIDE DEF s, t
  <2> QED BY <2>1, RingAssumption DEF Services
<1> HIDE DEF s, t
<1>8. s = t BY <1>6, <1>7
<1> QED BY <1>8 DEF s, t

-----------------------------------------------------------------------------
(* Round robin.                                                            *)

\* As long as the index has not wrapped, RoundRobin uses an index of the pool.
THEOREM RoundRobinInBounds ==
  ASSUME NEW n \in Nat \ {0}, NEW i \in 1 .. MaxIndex
  PROVE  RoundRobin(i, n) \in 0 .. n - 1
<1>0. MaxIndex \in Nat BY IndexAssumption
<1>1. Wrapped(i) = i BY <1>0 DEF Wrapped
<1>2. i % n \in 0 .. n - 1 OBVIOUS
<1> QED BY <1>1, <1>2 DEF RoundRobin, Remainder

\* Two calls that use the same client are n calls apart or more: n calls in a row use
\* every client of the pool once.
THEOREM RoundRobinIsFair ==
  ASSUME NEW n \in Nat \ {0}, NEW i \in 1 .. MaxIndex, NEW j \in 1 .. MaxIndex,
         i < j, RoundRobin(i, n) = RoundRobin(j, n)
  PROVE  j - i >= n
<1>0. MaxIndex \in Nat BY IndexAssumption
<1>1. Wrapped(i) = i /\ Wrapped(j) = j BY <1>0 DEF Wrapped
<1>2. i % n = j % n BY <1>1 DEF RoundRobin, Remainder
<1> DEFINE a == i \div n
           b == j \div n
<1>3. a \in Int /\ b \in Int OBVIOUS
<1>4. i = n * a + (i % n) /\ j = n * b + (j % n) OBVIOUS
<1>5. i % n \in Int OBVIOUS
<1> HIDE DEF a, b
<1> DEFINE d == b - a
<1>6. d \in Int /\ j - i = n * d BY <1>2, <1>3, <1>4, <1>5
<1> HIDE DEF d
<1>7. d >= 1 BY <1>6
<1>8. n * d >= n BY <1>6, <1>7
<1> QED BY <1>6, <1>8

=============================================================================

------------------------------- MODULE Tagged -------------------------------
(***************************************************************************)
(* The pools of clients of tagged.go.  A pool has a client for every       *)
(* service slot; services and clients do not change, and a new pool        *)
(* replaces it when they have to.  Only the round-robin index does.        *)
(***************************************************************************)
EXTENDS Ring, Functions

CONSTANT MaxIndex \* the largest value of the index, 2^63 - 1

ASSUME IndexAssumption == MaxIndex \in Nat

\* A slot <<s, n>> is the n-th place of service s in the pool: a service has as many
\* as its tags name the pool's tag.  clients maps every slot to its client.
newTagged(clients, chash) == [clients |-> clients, chash |-> chash]

HasCHash(p) == p.chash
ServicesOf(slots) == {slot[1] : slot \in slots}
PoolServices(p) == ServicesOf(DOMAIN p.clients)

\* t.idc: the last client of a service is the one that is kept.
idc(p, s) ==
  p.clients[<<s, Max({slot[2] : slot \in {x \in DOMAIN p.clients : x[1] = s}})>>]

\* The client of a key, where there is one: ErrNotFounded without a ring or a point.
Hashed(p, key) == idc(p, search(PoolServices(p), key))

-----------------------------------------------------------------------------
(* Round robin.                                                            *)

\* int64 arithmetic, and the remainder of Go, which has the sign of the dividend.
Wrapped(i) == ((i + MaxIndex + 1) % (2 * MaxIndex + 2)) - MaxIndex - 1
Remainder(i, n) == IF i >= 0 THEN i % n ELSE -((-i) % n)

\* The index into the n clients of a pool that its i-th RoundRobin uses: the index
\* starts at 0 and is incremented before it is used.
RoundRobin(i, n) == Remainder(Wrapped(i), n)

=============================================================================

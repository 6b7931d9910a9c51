--------------------------- MODULE SelectorProofs ---------------------------
(***************************************************************************)
(* Theorems about the Selector for any services, tags, callers and ring,   *)
(* with any number of failed connections: the types, that its pools have   *)
(* what Pools promises, and that keys stay where they are.                 *)
(*                                                                         *)
(* The refinement rests on who may change what: a fill builds from the     *)
(* discovery it read because mux keeps pull from storing another, and pull *)
(* builds from the one it stored because nobody else stores any.           *)
(***************************************************************************)
EXTENDS Selector, RingProofs

-----------------------------------------------------------------------------
(* The invariant.                                                          *)

\* A caller that waits for mux or has it knows its tag; one that builds or cleans up
\* has mux.
Holders ==
  \A f \in Fillers : /\ pc[f] # "idle" => job[f] # NoJob
                     /\ pc[f] \in {"build", "clean"} => mux = f

\* A caller that builds has the slots of the discovery that is stored now.
BuildsCurrent ==
  \A f \in Fillers : pc[f] = "build" => job[f].slots = getServices(job[f].tag, discovered)

\* pull builds from the discovery that is stored now.
PullsCurrent == ticker \in {"copy", "build", "clean"} => looked = discovered

IInv == TypeOK /\ Holders /\ BuildsCurrent /\ PullsCurrent

-----------------------------------------------------------------------------
(* Pools.                                                                  *)

\* The slots of a pool are slots of its tag, and so its services are services.
LEMMA PoolShape ==
  ASSUME NEW t \in Tags, NEW p \in PoolsOf(t)
  PROVE  /\ p # None
         /\ DOMAIN p.clients \in SUBSET Slots[t]
         /\ p.clients \in [DOMAIN p.clients -> Clients(t)]
         /\ p.chash \in BOOLEAN
         /\ PoolServices(p) \in SUBSET Services
<1>1. PICK slots \in SUBSET Slots[t] : p.clients \in [slots -> Clients(t)]
  BY DEF PoolsOf
<1>2. DOMAIN p.clients \in SUBSET Slots[t] /\ p.clients \in [DOMAIN p.clients -> Clients(t)]
  BY <1>1
<1>3. Slots[t] \in SUBSET (Services \X (Nat \ {0})) BY PoolsAssumption
<1>4. PoolServices(p) \in SUBSET Services BY <1>2, <1>3 DEF PoolServices, ServicesOf
<1>5. p # None /\ p.chash \in BOOLEAN BY NoneAssumption DEF PoolsOf
<1> QED BY <1>2, <1>4, <1>5

\* getServices returns slots of the tag.
LEMMA GetServicesType ==
  ASSUME NEW t \in Tags, NEW S
  PROVE  getServices(t, S) \in SUBSET Slots[t]
BY DEF getServices

\* The loop over the old clients finds one for a service that has any.
LEMMA FirstClientIs ==
  ASSUME NEW t \in Tags, NEW old \in PoolsOf(t), NEW s \in PoolServices(old)
  PROVE  \E x \in DOMAIN old.clients : x[1] = s /\ FirstClient(old, s) = old.clients[x]
<1> DEFINE Y == {y \in DOMAIN old.clients : y[1] = s}
           X == {x[2] : x \in Y}
<1>1. DOMAIN old.clients \in SUBSET (Services \X (Nat \ {0}))
  BY PoolShape, PoolsAssumption
<1>2. Y # {} BY DEF PoolServices, ServicesOf
<1>3. X \in SUBSET Nat /\ X # {} BY <1>1, <1>2
<1>4. Min(X) \in X BY <1>3, MinIsLeast
<1>5. PICK x \in Y : Min(X) = x[2] BY <1>4
<1>6. x = <<s, Min(X)>> BY <1>1, <1>5
<1>7. FirstClient(old, s) = old.clients[<<s, Min(X)>>] BY DEF FirstClient
<1> HIDE DEF X
<1> QED BY <1>5, <1>6, <1>7

\* It is a client of the tag.
LEMMA FirstClientType ==
  ASSUME NEW t \in Tags, NEW old \in PoolsOf(t), NEW s \in PoolServices(old)
  PROVE  FirstClient(old, s) \in Clients(t)
<1>1. PICK x \in DOMAIN old.clients : FirstClient(old, s) = old.clients[x] BY FirstClientIs
<1>2. old.clients \in [DOMAIN old.clients -> Clients(t)] BY PoolShape
<1> QED BY <1>1, <1>2

\* The connections that are made are clients of the tag, each for its slot's service.
LEMMA ConnectionsType ==
  ASSUME NEW t \in Tags, NEW slots, NEW fresh \in Connections(t, slots)
  PROVE  /\ fresh \in [slots -> Clients(t)]
         /\ \A slot \in slots : fresh[slot].service = slot[1]
<1>1. \A slot \in slots : Free(t, slot) # {} BY DEF Connections
<1>2. fresh = [slot \in slots |-> CHOOSE c \in Free(t, slot) : TRUE] BY DEF Connections
<1>3. ASSUME NEW slot \in slots PROVE fresh[slot] \in Free(t, slot)
  BY <1>1, <1>2
<1> QED BY <1>2, <1>3 DEF Free

\* newTagged makes a pool of the slots it is given.
LEMMA NewPool ==
  ASSUME NEW t \in Tags, NEW old \in PoolsOf(t) \cup {None}, NEW slots \in SUBSET Slots[t],
         NEW fresh \in Connections(t, Missing(old, slots)), NEW chash \in BOOLEAN
  PROVE  /\ newTagged(NewClients(old, slots, fresh), chash) \in PoolsOf(t)
         /\ DOMAIN newTagged(NewClients(old, slots, fresh), chash).clients = slots
<1> DEFINE new == NewClients(old, slots, fresh)
<1>1. fresh \in [Missing(old, slots) -> Clients(t)] BY ConnectionsType
<1>2. ASSUME NEW slot \in slots PROVE new[slot] \in Clients(t)
  <2>1. CASE slot \in DOMAIN fresh BY <1>1, <2>1 DEF NewClients
  <2>2. CASE slot \notin DOMAIN fresh
    <3>1. slot[1] \in ServicesOf(oldSlots(old)) BY <1>1, <2>2 DEF Missing
    <3>2. old # None BY <3>1 DEF oldSlots, ServicesOf
    <3>3. slot[1] \in PoolServices(old) BY <3>1, <3>2 DEF oldSlots, PoolServices
    <3>4. FirstClient(old, slot[1]) \in Clients(t) BY <3>2, <3>3, FirstClientType
    <3> QED BY <2>2, <3>4 DEF NewClients
  <2> QED BY <2>1, <2>2
<1>3. new \in [slots -> Clients(t)] BY <1>2 DEF NewClients
<1>4. new \in UNION {[x -> Clients(t)] : x \in SUBSET Slots[t]} BY <1>3
<1>5. DOMAIN new = slots BY <1>3
<1> HIDE DEF new
<1>6. newTagged(new, chash).clients = new BY DEF newTagged
<1>7. newTagged(new, chash) \in PoolsOf(t) BY <1>4 DEF newTagged, PoolsOf
<1> QED BY <1>5, <1>6, <1>7 DEF new

\* The pool of tag t comes to have some slots, and no other pool changes.
Becomes(t, slots) == View' = [View EXCEPT ![t] = slots]

\* replaceTagged puts a pool of the slots in the table, and starts clients.
LEMMA ReplaceTagged ==
  ASSUME TypeOK, NEW t \in Tags, NEW old \in PoolsOf(t) \cup {None},
         NEW slots \in SUBSET Slots[t], NEW chash \in BOOLEAN,
         replaceTagged(t, old, slots, chash)
  PROVE  /\ Table(tagged)'
         /\ (running \subseteq UNION {Clients(u) : u \in Tags})'
         /\ Becomes(t, slots)
<1>1. PICK fresh \in Connections(t, Missing(old, slots)) :
        /\ tagged' = [tagged EXCEPT ![t] = newTagged(NewClients(old, slots, fresh), chash)]
        /\ running' = running \cup Range(fresh)
  BY DEF replaceTagged
<1> DEFINE new == newTagged(NewClients(old, slots, fresh), chash)
<1>2. new \in PoolsOf(t) /\ DOMAIN new.clients = slots BY NewPool
<1>3. new # None BY <1>2, PoolShape
<1>4. tagged' = [tagged EXCEPT ![t] = new] BY <1>1
<1> HIDE DEF new
<1>5. Table(tagged)' BY <1>2, <1>4 DEF Table, TypeOK, PoolsOf, Clients, Client
<1>6. Range(fresh) \subseteq Clients(t) BY ConnectionsType DEF Range
<1>7. (running \subseteq UNION {Clients(u) : u \in Tags})' BY <1>1, <1>6 DEF TypeOK, Clients, Client
<1>8. Becomes(t, slots)
  BY <1>2, <1>3, <1>4 DEF Becomes, View, TypeOK, Table
<1> QED BY <1>5, <1>7, <1>8

\* A connection that fails changes no pool.
LEMMA ConnectFails ==
  ASSUME TypeOK, NEW t \in Tags, NEW old, NEW slots, ConnectFailed(t, old, slots)
  PROVE  UNCHANGED <<tagged, running>> /\ faults' \in 0 .. MaxFaults
BY EnvironmentAssumption DEF ConnectFailed, Cleanup, TypeOK

\* What a caller keeps has its type.
LEMMA JobType ==
  ASSUME TypeOK, NEW f \in Fillers, job[f] # NoJob
  PROVE  /\ job[f].tag \in Tags /\ job[f].chash \in BOOLEAN
         /\ job[f].old \in PoolsOf(job[f].tag) \cup {None}
         /\ job[f].slots \in SUBSET Slots[job[f].tag]
BY DEF TypeOK, IsJob

\* The type of a pool's consistent hash.
LEMMA HasCHashType ==
  ASSUME NEW t \in Tags, NEW p \in PoolsOf(t)
  PROVE  HasCHash(p) \in BOOLEAN
BY DEF HasCHash, PoolsOf

\* What a caller puts in the table.
LEMMA FillReplaced ==
  ASSUME TypeOK, NEW f \in Fillers, job[f] # NoJob,
         replaceTagged(job[f].tag, job[f].old, job[f].slots, job[f].chash)
  PROVE  /\ Table(tagged)'
         /\ (running \subseteq UNION {Clients(u) : u \in Tags})'
         /\ Becomes(job[f].tag, job[f].slots)
<1> DEFINE t == job[f].tag
           old == job[f].old
           slots == job[f].slots
           chash == job[f].chash
<1>1. /\ t \in Tags /\ chash \in BOOLEAN
      /\ old \in PoolsOf(t) \cup {None} /\ slots \in SUBSET Slots[t]
  BY JobType
<1>2. replaceTagged(t, old, slots, chash) OBVIOUS
<1> HIDE DEF t, old, slots, chash
<1>3. /\ Table(tagged)' /\ (running \subseteq UNION {Clients(u) : u \in Tags})'
      /\ Becomes(t, slots)
  BY <1>1, <1>2, ReplaceTagged, Zenon
<1> QED BY <1>3 DEF t, slots

-----------------------------------------------------------------------------
(* The invariant holds at first.                                           *)

\* What Init makes has the invariant.
LEMMA InitIInv == Init => IInv
<1> SUFFICES ASSUME Init PROVE IInv OBVIOUS
<1>1. TypeOK
  BY EnvironmentAssumption DEF Init, TypeOK, Table, IsJob
<1>2. Holders /\ BuildsCurrent /\ PullsCurrent
  BY DEF Init, Holders, BuildsCurrent, PullsCurrent
<1> QED BY <1>1, <1>2 DEF IInv

-----------------------------------------------------------------------------
(* The steps of fill.                                                      *)

\* fill keeps the invariant.
LEMMA FillIInv ==
  ASSUME IInv, NEW f \in Fillers, Fill(f) \/ \E u \in Uses : FillMisses(f, u)
  PROVE  IInv'
<1>0. TypeOK /\ Holders /\ BuildsCurrent /\ PullsCurrent BY DEF IInv
<1>1. fillUnch
  BY DEF Fill, FillMisses, FillFinds, FillLocks, FillReplaces, FillFails, FillCleans
<1>2. PullsCurrent' BY <1>0, <1>1 DEF PullsCurrent, fillUnch, tickerVars
<1>3. ASSUME NEW u \in Uses, FillMisses(f, u) PROVE IInv'
  <2>1. u.tag \in Tags /\ u.chash \in BOOLEAN BY PoolsAssumption
  <2>2. IsJob(NewJob(u.tag, u.chash, None, {})) BY <2>1 DEF IsJob, NewJob
  <2>3. NewJob(u.tag, u.chash, None, {}) # NoJob BY <2>1, NoneAssumption DEF NewJob, NoJob
  <2>4. TypeOK' BY <1>0, <1>3, <2>2 DEF FillMisses, TypeOK, Table, fillUnch, tickerVars
  <2>5. Holders' /\ BuildsCurrent'
    BY <1>0, <1>3, <2>3 DEF FillMisses, TypeOK, Holders, BuildsCurrent, fillUnch
  <2> QED BY <1>2, <2>4, <2>5 DEF IInv
<1>4. CASE FillFinds(f)
  <2>1. TypeOK'
    BY <1>0, <1>4 DEF FillFinds, FillReturns, TypeOK, Table, IsJob, fillUnch, tickerVars
  <2>2. Holders' /\ BuildsCurrent'
    BY <1>0, <1>4 DEF FillFinds, FillReturns, TypeOK, Holders, BuildsCurrent, fillUnch
  <2> QED BY <1>2, <2>1, <2>2 DEF IInv
<1>5. CASE FillLocks(f)
  <2> DEFINE t == job[f].tag
             new == NewJob(t, KeepCHash(job[f].chash, tagged[t]), tagged[t],
                           getServices(t, discovered))
  <2>1. job[f] # NoJob BY <1>0, <1>5 DEF FillLocks, Holders
  <2>2. t \in Tags /\ job[f].chash \in BOOLEAN BY <1>0, <2>1, JobType
  <2>3. tagged[t] \in PoolsOf(t) \cup {None} BY <1>0, <2>2 DEF TypeOK, Table
  <2>4. KeepCHash(job[f].chash, tagged[t]) \in BOOLEAN BY DEF KeepCHash
  <2>5. getServices(t, discovered) \in SUBSET Slots[t] BY <2>2, GetServicesType
  <2>6. IsJob(new) /\ new # NoJob /\ new.tag = t /\ new.slots = getServices(t, discovered)
    BY <2>2, <2>3, <2>4, <2>5, NoneAssumption DEF IsJob, NewJob, NoJob
  <2>7. /\ job' = [job EXCEPT ![f] = new] /\ pc' = [pc EXCEPT ![f] = "build"]
        /\ mux = None /\ mux' = f /\ UNCHANGED <<tagged, running, faults>>
    BY <1>5 DEF FillLocks, Lock
  <2> HIDE DEF new, t
  <2>8. TypeOK' BY <1>0, <1>1, <2>6, <2>7 DEF TypeOK, Table, fillUnch, tickerVars
  <2>9. Holders' /\ BuildsCurrent'
    BY <1>0, <1>1, <2>6, <2>7, NoneAssumption DEF TypeOK, Holders, BuildsCurrent, fillUnch
  <2> QED BY <1>2, <2>8, <2>9 DEF IInv
<1>6. CASE FillReplaces(f)
  <2>1. job[f] # NoJob BY <1>0, <1>6 DEF FillReplaces, Holders
  <2>2. Table(tagged)' /\ (running \subseteq UNION {Clients(u) : u \in Tags})'
    <3>1. replaceTagged(job[f].tag, job[f].old, job[f].slots, job[f].chash)
      BY <1>6 DEF FillReplaces
    <3> QED BY <1>0, <2>1, <3>1, FillReplaced
  <2>3. TypeOK'
    BY <1>0, <1>6, <2>2 DEF FillReplaces, TypeOK, Table, fillUnch, tickerVars
  <2>4. Holders' /\ BuildsCurrent'
    BY <1>0, <1>6 DEF FillReplaces, TypeOK, Holders, BuildsCurrent, fillUnch
  <2> QED BY <1>2, <2>3, <2>4 DEF IInv
<1>7. CASE FillFails(f)
  <2>1. job[f] # NoJob BY <1>0, <1>7 DEF FillFails, Holders
  <2>2. UNCHANGED <<tagged, running>> /\ faults' \in 0 .. MaxFaults
    BY <1>0, <1>7, <2>1, JobType, ConnectFails DEF FillFails
  <2>3. TypeOK'
    BY <1>0, <1>7, <2>2
    DEF FillFails, FillReturns, Unlock, TypeOK, Table, IsJob, fillUnch, tickerVars
  <2>4. Holders' /\ BuildsCurrent'
    BY <1>0, <1>7, NoneAssumption
    DEF FillFails, FillReturns, Unlock, TypeOK, Holders, BuildsCurrent, fillUnch
  <2> QED BY <1>2, <2>3, <2>4 DEF IInv
<1>8. CASE FillCleans(f)
  <2>1. TypeOK'
    BY <1>0, <1>8
    DEF FillCleans, FillReturns, Unlock, TypeOK, Table, IsJob, fillUnch, tickerVars
  <2>2. Holders' /\ BuildsCurrent'
    BY <1>0, <1>8, NoneAssumption
    DEF FillCleans, FillReturns, Unlock, TypeOK, Holders, BuildsCurrent, fillUnch
  <2> QED BY <1>2, <2>1, <2>2 DEF IInv
<1> QED BY <1>3, <1>4, <1>5, <1>6, <1>7, <1>8 DEF Fill

-----------------------------------------------------------------------------
(* The steps of pull, Stop and the registry.                               *)

\* A pool of pull's copy.
LEMMA CopyType ==
  ASSUME TypeOK, NEW t \in Tags, tbuf[t] # None
  PROVE  tbuf[t] \in PoolsOf(t) /\ HasCHash(tbuf[t]) \in BOOLEAN
BY HasCHashType DEF TypeOK, Table

\* pull keeps the invariant.
LEMMA PullIInv ==
  ASSUME IInv, Pull
  PROVE  IInv'
<1>0. TypeOK /\ Holders /\ BuildsCurrent /\ PullsCurrent BY DEF IInv
<1>1. pullUnch
  BY DEF Pull, PullLooks, PullFindsSame, PullStores, PullCopies, PullCleans, PullEnds,
         PullSkips, PullReplaces, PullFails
<1>2. Holders' BY <1>0, <1>1 DEF Holders, pullUnch, fillVars
<1>3. CASE PullLooks
  <2>1. TypeOK'
    BY <1>0, <1>3 DEF PullLooks, TypeOK, Table, pullUnch, stillUnch, fillVars
  <2>2. BuildsCurrent' /\ PullsCurrent'
    BY <1>0, <1>3 DEF PullLooks, BuildsCurrent, PullsCurrent, pullUnch, stillUnch, fillVars
  <2> QED BY <1>2, <2>1, <2>2 DEF IInv
<1>4. CASE PullFindsSame
  <2>1. TypeOK'
    BY <1>0, <1>4 DEF PullFindsSame, TypeOK, Table, pullUnch, stillUnch, fillVars
  <2>2. BuildsCurrent' /\ PullsCurrent'
    BY <1>0, <1>4
    DEF PullFindsSame, BuildsCurrent, PullsCurrent, pullUnch, stillUnch, fillVars
  <2> QED BY <1>2, <2>1, <2>2 DEF IInv
<1>5. CASE PullStores
  <2>1. TypeOK' BY <1>0, <1>5 DEF PullStores, TypeOK, Table, pullUnch, fillVars
  <2>2. \A f \in Fillers : pc[f] # "build"
    BY <1>0, <1>5, NoneAssumption DEF PullStores, Holders
  <2>3. BuildsCurrent' BY <1>5, <2>2 DEF PullStores, BuildsCurrent, pullUnch, fillVars
  <2>4. PullsCurrent' BY <1>5 DEF PullStores, PullsCurrent
  <2> QED BY <1>2, <2>1, <2>3, <2>4 DEF IInv
<1>6. CASE PullCopies
  <2>1. TypeOK'
    BY <1>0, <1>6 DEF PullCopies, TypeOK, Table, pullUnch, stillUnch, fillVars
  <2>2. BuildsCurrent' /\ PullsCurrent'
    BY <1>0, <1>6 DEF PullCopies, BuildsCurrent, PullsCurrent, pullUnch, stillUnch, fillVars
  <2> QED BY <1>2, <2>1, <2>2 DEF IInv
<1>7. ASSUME NEW t \in Tags, PullSkips(t) PROVE IInv'
  <2>1. TypeOK'
    BY <1>0, <1>7 DEF PullSkips, TypeOK, Table, pullUnch, stillUnch, fillVars
  <2>2. BuildsCurrent' /\ PullsCurrent'
    BY <1>0, <1>7 DEF PullSkips, BuildsCurrent, PullsCurrent, pullUnch, stillUnch, fillVars
  <2> QED BY <1>2, <2>1, <2>2 DEF IInv
<1>8. ASSUME NEW t \in Tags, PullReplaces(t) PROVE IInv'
  <2>1. Table(tagged)' /\ (running \subseteq UNION {Clients(u) : u \in Tags})'
    <3>1. tbuf[t] \in PoolsOf(t) \cup {None} /\ HasCHash(tbuf[t]) \in BOOLEAN
      BY <1>0, <1>8, CopyType DEF PullReplaces
    <3>2. getServices(t, looked) \in SUBSET Slots[t] BY GetServicesType
    <3>3. replaceTagged(t, tbuf[t], getServices(t, looked), HasCHash(tbuf[t]))
      BY <1>8 DEF PullReplaces
    <3> QED BY <1>0, <3>1, <3>2, <3>3, ReplaceTagged, Zenon
  <2>2. TypeOK'
    BY <1>0, <1>8, <2>1 DEF PullReplaces, TypeOK, Table, pullUnch, fillVars
  <2>3. BuildsCurrent' /\ PullsCurrent'
    BY <1>0, <1>8 DEF PullReplaces, BuildsCurrent, PullsCurrent, pullUnch, fillVars
  <2> QED BY <1>2, <2>2, <2>3 DEF IInv
<1>9. ASSUME NEW t \in Tags, PullFails(t) PROVE IInv'
  <2>1. UNCHANGED <<tagged, running>> /\ faults' \in 0 .. MaxFaults
    BY <1>0, <1>9, ConnectFails DEF PullFails
  <2>2. TypeOK' BY <1>0, <1>9, <2>1 DEF PullFails, TypeOK, Table, pullUnch, fillVars
  <2>3. BuildsCurrent' /\ PullsCurrent'
    BY <1>0, <1>9 DEF PullFails, BuildsCurrent, PullsCurrent, pullUnch, fillVars
  <2> QED BY <1>2, <2>2, <2>3 DEF IInv
<1>10. CASE PullCleans
  <2>1. TypeOK' BY <1>0, <1>10 DEF PullCleans, TypeOK, Table, pullUnch, fillVars
  <2>2. BuildsCurrent' /\ PullsCurrent'
    BY <1>0, <1>10 DEF PullCleans, BuildsCurrent, PullsCurrent, pullUnch, fillVars
  <2> QED BY <1>2, <2>1, <2>2 DEF IInv
<1>11. CASE PullEnds
  <2>1. TypeOK'
    BY <1>0, <1>11 DEF PullEnds, TypeOK, Table, pullUnch, stillUnch, fillVars
  <2>2. BuildsCurrent' /\ PullsCurrent'
    BY <1>0, <1>11 DEF PullEnds, BuildsCurrent, PullsCurrent, pullUnch, stillUnch, fillVars
  <2> QED BY <1>2, <2>1, <2>2 DEF IInv
<1> QED BY <1>3, <1>4, <1>5, <1>6, <1>7, <1>8, <1>9, <1>10, <1>11 DEF Pull

\* Stop and the registry keep the invariant.
LEMMA OthersIInv ==
  ASSUME IInv, RegistryChanges \/ Stop \/ TickerStops \/ StopReturns \/ UNCHANGED vars
  PROVE  IInv'
<1>0. TypeOK /\ Holders /\ BuildsCurrent /\ PullsCurrent BY DEF IInv
<1>1. CASE RegistryChanges
  BY <1>0, <1>1 DEF IInv, RegistryChanges, TypeOK, Table, Holders, BuildsCurrent,
                    PullsCurrent, tickerVars, fillVars
<1>2. CASE Stop
  BY <1>0, <1>2 DEF IInv, Stop, TypeOK, Table, Holders, BuildsCurrent, PullsCurrent,
                    stillUnch, tickerVars, fillVars
<1>3. CASE TickerStops
  BY <1>0, <1>3 DEF IInv, TickerStops, TypeOK, Table, Holders, BuildsCurrent,
                    PullsCurrent, stillUnch, pullUnch, fillVars
<1>4. CASE StopReturns
  <2>1. Table(tagged)' BY <1>0, <1>4 DEF StopReturns, Table
  <2>2. TypeOK' BY <1>0, <1>4, <2>1 DEF StopReturns, TypeOK, Table, tickerVars, fillVars
  <2>3. Holders' /\ BuildsCurrent' /\ PullsCurrent'
    BY <1>0, <1>4 DEF StopReturns, Holders, BuildsCurrent, PullsCurrent, tickerVars, fillVars
  <2> QED BY <2>2, <2>3 DEF IInv
<1>5. CASE UNCHANGED vars
  BY <1>0, <1>5 DEF IInv, vars, TypeOK, Table, Holders, BuildsCurrent, PullsCurrent,
                    tickerVars, fillVars
<1> QED BY <1>1, <1>2, <1>3, <1>4, <1>5

\* The invariant holds in every state of every behaviour.
THEOREM Invariance == Spec => []IInv
<1>1. ASSUME IInv, [Next]_vars PROVE IInv'
  BY <1>1, FillIInv, PullIInv, OthersIInv DEF Next
<1> QED BY <1>1, InitIInv, PTL DEF Spec

\* Every variable has its type: pools have slots and clients of their tag, through
\* rebuilds, failed connections and Stop.
THEOREM TypeCorrect == Spec => []TypeOK
<1>1. IInv => TypeOK BY DEF IInv
<1> QED BY <1>1, Invariance, PTL

-----------------------------------------------------------------------------
(* The refinement.                                                         *)

\* The slots of Pools are those that getServices returns.
LEMMA SameSlots == \A t, S : Abstract!SlotsAt(t, S) = getServices(t, S)
BY DEF Abstract!SlotsAt, getServices

\* A rebuild for the discovery that is stored is a Serve of Pools.
LEMMA Serves ==
  ASSUME NEW t \in Tags, UNCHANGED discovered,
         Becomes(t, getServices(t, discovered))
  PROVE  Abstract!Next
<1>1. Abstract!Serve(t) BY SameSlots DEF Abstract!Serve, Becomes
<1> QED BY <1>1 DEF Abstract!Next

\* Every step of the selector is a step of Pools or changes nothing it sees.
LEMMA StepServes ==
  ASSUME IInv, [Next]_vars
  PROVE  [Abstract!Next]_<<discovered, View>>
<1>0. TypeOK /\ Holders /\ BuildsCurrent /\ PullsCurrent BY DEF IInv
<1>1. CASE UNCHANGED <<tagged, discovered>> BY <1>1 DEF View
<1>2. ASSUME NEW f \in Fillers, FillReplaces(f) PROVE Abstract!Next
  <2>1. job[f] # NoJob BY <1>0, <1>2 DEF FillReplaces, Holders
  <2>2. job[f].tag \in Tags BY <1>0, <2>1, JobType
  <2>3. replaceTagged(job[f].tag, job[f].old, job[f].slots, job[f].chash)
    BY <1>2 DEF FillReplaces
  <2>4. Becomes(job[f].tag, job[f].slots) BY <1>0, <2>1, <2>3, FillReplaced
  <2>5. job[f].slots = getServices(job[f].tag, discovered)
    BY <1>0, <1>2 DEF FillReplaces, BuildsCurrent
  <2>6. UNCHANGED discovered BY <1>2 DEF FillReplaces, fillUnch
  <2>7. Becomes(job[f].tag, getServices(job[f].tag, discovered)) BY <2>4, <2>5
  <2> QED BY <2>2, <2>6, <2>7, Serves, Zenon
<1>3. ASSUME NEW t \in Tags, PullReplaces(t) PROVE Abstract!Next
  <2>1. tbuf[t] \in PoolsOf(t) \cup {None} /\ HasCHash(tbuf[t]) \in BOOLEAN
    BY <1>0, <1>3, CopyType DEF PullReplaces
  <2>2. getServices(t, looked) \in SUBSET Slots[t] BY GetServicesType
  <2>3. replaceTagged(t, tbuf[t], getServices(t, looked), HasCHash(tbuf[t]))
    BY <1>3 DEF PullReplaces
  <2>4. Becomes(t, getServices(t, looked)) BY <1>0, <2>1, <2>2, <2>3, ReplaceTagged, Zenon
  <2>5. looked = discovered BY <1>0, <1>3 DEF PullReplaces, PullsCurrent
  <2>6. UNCHANGED discovered BY <1>3 DEF PullReplaces
  <2>7. Becomes(t, getServices(t, discovered)) BY <2>4, <2>5
  <2> QED BY <2>6, <2>7, Serves, Zenon
<1>4. CASE PullStores
  <2>1. discovered' \in SUBSET Services BY <1>0, <1>4 DEF PullStores, TypeOK
  <2>2. UNCHANGED View BY <1>4 DEF PullStores, View
  <2> QED BY <2>1, <2>2 DEF Abstract!Next, Abstract!Discover
<1>5. CASE StopReturns
  <2>1. UNCHANGED discovered BY <1>5 DEF StopReturns
  <2>2. View' = [t \in Tags |-> None] BY <1>5 DEF StopReturns, View
  <2> QED BY <2>1, <2>2 DEF Abstract!Next, Abstract!Clear
<1>6. ASSUME NEW f \in Fillers, FillFails(f) PROVE UNCHANGED <<tagged, discovered>>
  BY <1>6 DEF FillFails, ConnectFailed, fillUnch
<1>7. ASSUME NEW t \in Tags, PullFails(t) PROVE UNCHANGED <<tagged, discovered>>
  BY <1>7 DEF PullFails, ConnectFailed
<1>8. ASSUME NEW f \in Fillers, NEW u \in Uses, FillMisses(f, u)
      PROVE  UNCHANGED <<tagged, discovered>>
  BY <1>8 DEF FillMisses, fillUnch
<1>9. ASSUME NEW f \in Fillers, Fill(f), ~FillReplaces(f)
      PROVE  UNCHANGED <<tagged, discovered>>
  BY <1>6, <1>9 DEF Fill, FillFinds, FillLocks, FillCleans, fillUnch
<1>10. ASSUME Pull, ~PullStores, \A t \in Tags : ~PullReplaces(t)
       PROVE  UNCHANGED <<tagged, discovered>>
  BY <1>7, <1>10 DEF Pull, PullLooks, PullFindsSame, PullCopies, PullCleans, PullEnds,
                     PullSkips, stillUnch
<1>11. ASSUME RegistryChanges \/ Stop \/ TickerStops \/ UNCHANGED vars
       PROVE  UNCHANGED <<tagged, discovered>>
  BY <1>11 DEF RegistryChanges, Stop, TickerStops, stillUnch, vars
<1> QED BY <1>1, <1>2, <1>3, <1>4, <1>5, <1>8, <1>9, <1>10, <1>11 DEF Next

\* The selector implements Pools: a pool that is put in the table has the services of
\* the last discovery, whatever fill and pull do at the same time.
THEOREM Refinement == Spec => ServesLastDiscovery
<1>1. Init => Abstract!Init BY DEF Init, Abstract!Init, View
<1>2. IInv /\ [Next]_vars => [Abstract!Next]_<<discovered, View>> BY StepServes
<1> QED BY <1>1, <1>2, Invariance, PTL DEF Spec, ServesLastDiscovery, Abstract!Spec

-----------------------------------------------------------------------------
(* Keys.                                                                   *)

\* A pool whose ring has a point has services.
LEMMA CanHashServices ==
  ASSUME NEW t \in Tags, NEW p \in PoolsOf(t) \cup {None}, CanHash(p)
  PROVE  PoolServices(p) \in SUBSET Services /\ PoolServices(p) # {}
<1>1. PoolServices(p) \in SUBSET Services BY PoolShape DEF CanHash
<1>2. PoolServices(p) # {} BY DEF CanHash, IsEmpty, keys
<1> QED BY <1>1, <1>2

\* Whatever becomes of a pool, a key moves to another service only if its service has
\* gone or the other has come: for any hash function and any change of services.
THEOREM KeysStayInPlace == Spec => KeysStay
<1> DEFINE Stay(t) ==
      \A h \in Hashes :
         LET s == Owner(tagged[t], h)
             n == Owner(tagged'[t], h)
         IN \/ s = n
            \/ s \notin PoolServices(tagged'[t])
            \/ n \notin PoolServices(tagged[t])
<1>1. ASSUME TypeOK, TypeOK', NEW t \in Tags, CanHash(tagged[t]), CanHash(tagged'[t])
      PROVE  Stay(t)
  <2> DEFINE S == PoolServices(tagged[t])
             T == PoolServices(tagged'[t])
  <2>1. tagged[t] \in PoolsOf(t) \cup {None} /\ tagged'[t] \in PoolsOf(t) \cup {None}
    BY <1>1 DEF TypeOK, Table, PoolsOf, Clients, Client
  <2>2. /\ S \in SUBSET Services /\ S # {}
        /\ T \in SUBSET Services /\ T # {}
    BY <1>1, <2>1, CanHashServices
  <2> HIDE DEF S, T
  <2>3. \A h \in Hashes :
          search(S, h) = search(T, h) \/ search(S, h) \notin T \/ search(T, h) \notin S
    BY <2>2, KeysStayPut
  <2> QED BY <2>3 DEF Owner, S, T
<1>2. TypeOK /\ TypeOK' =>
        \A t \in Tags : CanHash(tagged[t]) /\ CanHash(tagged'[t]) => Stay(t)
  BY <1>1
<1> QED BY <1>2, TypeCorrect, PTL DEF KeysStay

=============================================================================

------------------------- MODULE SelectorLeakProofs -------------------------
(***************************************************************************)
(* Theorems about what becomes of the selector's pools: pull brings all of *)
(* them to the last discovery, no client of an orderly tag leaks, and a    *)
(* key of such a tag keeps its client as well as its service.              *)
(*                                                                         *)
(* The pools of an orderly tag are never rebuilt by two goroutines: a fill *)
(* that finds one is content with it, so fill makes only the first, and    *)
(* what pull has copied is still in the table when pull replaces it.  Each *)
(* service has one place in it, and so the client of a service that stays  *)
(* is the one that is found and carried over.                              *)
(***************************************************************************)
EXTENDS SelectorRunsProofs

-----------------------------------------------------------------------------
(* The invariants.                                                         *)

\* Before pull stores another discovery every pool is that of the last one; while it
\* builds, it still has in its copy those that are not.
PullProgress ==
  faults = 0 => \A t \in Tags :
    /\ ticker \in {"wait", "compare"} => Current(t)
    /\ ticker \in {"build", "clean"} => Current(t) \/ (tbuf[t] # None /\ tagged[t] = tbuf[t])

\* A pool of tag t will do for every caller.
SuitsAll(t) == tagged[t] # None => \A u \in Uses : u.tag = t => Suits(tagged[t], u.chash)

\* A caller asks for tag t as in Uses, and builds only where there is no pool.
FillsFirst(t) ==
  \A f \in Fillers : pc[f] # "idle" /\ job[f].tag = t =>
    /\ \E u \in Uses : u.tag = t /\ u.chash = job[f].chash
    /\ pc[f] \in {"build", "clean"} => job[f].old = None
    /\ pc[f] = "build" => tagged[t] = None

\* What pull has copied of tag t is in the table until pull replaces it.
CopyIsPool(t) ==
  tbuf[t] # None =>
    IF ticker = "clean" /\ ptag = t
    THEN tagged[t] # None /\ tagged[t].chash = tbuf[t].chash
    ELSE tagged[t] = tbuf[t]

\* Pools of an orderly tag are made by fill once, and replaced by pull alone.
AskedAlike == \A t \in Orderly : SuitsAll(t) /\ FillsFirst(t) /\ CopyIsPool(t)

\* pull or a fill is about to stop client c of tag t.
Stops(t, c) ==
  \/ ticker = "clean" /\ ptag = t /\ c \in Unneeded(tbuf[t], getServices(t, looked))
  \/ \E f \in Fillers : /\ pc[f] = "clean" /\ job[f].tag = t
                        /\ c \in Unneeded(job[f].old, job[f].slots)

\* A client that runs is in its tag's pool or about to be stopped.
Accounted(t) == \A c \in running \cap Clients(t) : c \in Held(tagged[t]) \/ Stops(t, c)

LeakInv == AskedAlike /\ \A t \in Orderly : Accounted(t)

-----------------------------------------------------------------------------
(* Pools of an orderly tag.                                                *)

\* A service has one place in the pool, where idc and the loop over the old services
\* find its client.
LEMMA OnePlace ==
  ASSUME NEW t \in Orderly, NEW p \in PoolsOf(t), NEW s \in PoolServices(p)
  PROVE  /\ <<s, 1>> \in DOMAIN p.clients
         /\ idc(p, s) = p.clients[<<s, 1>>]
         /\ FirstClient(p, s) = p.clients[<<s, 1>>]
<1> DEFINE Y == {y \in DOMAIN p.clients : y[1] = s}
           X == {x[2] : x \in Y}
<1>1. t \in Tags /\ \A slot \in Slots[t] : slot[2] = 1 BY DEF Orderly
<1>2. DOMAIN p.clients \in SUBSET Slots[t] BY <1>1, PoolShape
<1>3. DOMAIN p.clients \in SUBSET (Services \X (Nat \ {0})) BY <1>1, <1>2, PoolsAssumption
<1>4. PICK y \in DOMAIN p.clients : y[1] = s BY DEF PoolServices, ServicesOf
<1>5. y = <<s, 1>> BY <1>1, <1>2, <1>3, <1>4
<1>6. X = {1} BY <1>1, <1>2, <1>4
<1>7. Max(X) = 1 /\ Min(X) = 1 BY <1>6 DEF Max, Min
<1>8. idc(p, s) = p.clients[<<s, Max(X)>>] BY DEF idc
<1>9. FirstClient(p, s) = p.clients[<<s, Min(X)>>] BY DEF FirstClient
<1> HIDE DEF X
<1> QED BY <1>4, <1>5, <1>7, <1>8, <1>9

\* A new pool of an orderly tag has the connections that were made and the old clients
\* of the services that stay; the others are those that replaceTagged stops.
LEMMA CarriesOver ==
  ASSUME NEW t \in Orderly, NEW old \in PoolsOf(t) \cup {None}, NEW slots \in SUBSET Slots[t],
         NEW fresh \in Connections(t, Missing(old, slots)),
         NEW new, new.clients = NewClients(old, slots, fresh), new # None
  PROVE  /\ \A x \in slots \cap oldSlots(old) : new.clients[x] = old.clients[x]
         /\ Range(fresh) \subseteq Held(new)
         /\ Held(old) \subseteq Held(new) \cup Unneeded(old, slots)
<1>1. t \in Tags /\ \A slot \in Slots[t] : slot[2] = 1 BY DEF Orderly
<1>2. DOMAIN fresh = Missing(old, slots) BY <1>1, ConnectionsType
<1>3. DOMAIN new.clients = slots BY DEF NewClients
<1>4. ASSUME NEW x \in slots, x \in oldSlots(old) PROVE new.clients[x] = old.clients[x]
  <2>1. old # None /\ x \in DOMAIN old.clients BY <1>4 DEF oldSlots
  <2>2. old \in PoolsOf(t) BY <2>1
  <2>3. x[1] \in PoolServices(old) /\ x[1] \in ServicesOf(oldSlots(old))
    BY <1>4, <2>1 DEF PoolServices, ServicesOf
  <2>4. x \notin DOMAIN fresh BY <1>2, <2>3 DEF Missing
  <2>5. new.clients[x] = FirstClient(old, x[1]) BY <2>4 DEF NewClients
  <2>6. FirstClient(old, x[1]) = old.clients[<<x[1], 1>>] BY <2>2, <2>3, OnePlace
  <2>7. x = <<x[1], 1>>
    <3>1. x \in Services \X (Nat \ {0}) BY <1>1, PoolsAssumption
    <3> QED BY <1>1, <3>1
  <2> QED BY <2>5, <2>6, <2>7
<1>5. ASSUME NEW c \in Range(fresh) PROVE c \in Held(new)
  <2>1. PICK slot \in DOMAIN fresh : c = fresh[slot] BY DEF Range
  <2>2. slot \in slots BY <1>2, <2>1 DEF Missing
  <2>3. new.clients[slot] = c BY <2>1, <2>2 DEF NewClients
  <2> QED BY <1>3, <2>2, <2>3 DEF Held, Range
<1>6. ASSUME NEW c \in Held(old), c \notin Unneeded(old, slots) PROVE c \in Held(new)
  <2>1. PICK x \in DOMAIN old.clients : old # None /\ c = old.clients[x] BY <1>1, HeldType
  <2>2. x \in oldSlots(old) BY <2>1 DEF oldSlots
  <2>3. x[1] \in ServicesOf(slots) BY <1>6, <2>1, <2>2 DEF Unneeded
  <2>4. PICK y \in slots : y[1] = x[1] BY <2>3 DEF ServicesOf
  <2>5. x \in Slots[t] BY <1>1, <2>1, PoolShape
  <2>6. x = y
    <3>1. x \in Services \X (Nat \ {0}) /\ y \in Services \X (Nat \ {0})
      BY <1>1, <2>5, PoolsAssumption
    <3> QED BY <1>1, <2>4, <2>5, <3>1
  <2>7. new.clients[x] = c BY <1>4, <2>1, <2>2, <2>4, <2>6
  <2> QED BY <1>3, <2>4, <2>6, <2>7 DEF Held, Range
<1> QED BY <1>4, <1>5, <1>6

\* The pool of tag t becomes new, for which clients are started.
Renewed(t, old, slots, chash, new, clients) ==
  /\ tagged'[t] = new /\ \A u \in Tags \ {t} : tagged'[u] = tagged[u]
  /\ running' = running \cup clients
  /\ new # None /\ new.chash = chash /\ DOMAIN new.clients = slots
  /\ t \in Orderly =>
       /\ \A x \in slots \cap oldSlots(old) : new.clients[x] = old.clients[x]
       /\ clients \subseteq Held(new)
       /\ Held(old) \subseteq Held(new) \cup Unneeded(old, slots)

\* That is what replaceTagged does.
LEMMA Renews ==
  ASSUME TypeOK, NEW t \in Tags, NEW old \in PoolsOf(t) \cup {None},
         NEW slots \in SUBSET Slots[t], NEW chash \in BOOLEAN,
         replaceTagged(t, old, slots, chash)
  PROVE  \E new \in PoolsOf(t), clients \in SUBSET Clients(t) :
           Renewed(t, old, slots, chash, new, clients)
<1>1. PICK fresh \in Connections(t, Missing(old, slots)) :
        /\ tagged' = [tagged EXCEPT ![t] = newTagged(NewClients(old, slots, fresh), chash)]
        /\ running' = running \cup Range(fresh)
  BY DEF replaceTagged
<1>2. PICK new : new = newTagged(NewClients(old, slots, fresh), chash) OBVIOUS
<1>3. new \in PoolsOf(t) /\ DOMAIN new.clients = slots BY <1>2, NewPool
<1>4. new # None BY <1>3, PoolShape
<1>5. new.clients = NewClients(old, slots, fresh) /\ new.chash = chash BY <1>2 DEF newTagged
<1>6. Range(fresh) \in SUBSET Clients(t) BY ConnectionsType DEF Range
<1>7. tagged'[t] = new /\ \A u \in Tags \ {t} : tagged'[u] = tagged[u]
  BY <1>1, <1>2 DEF TypeOK, Table
<1>8. t \in Orderly =>
        /\ \A x \in slots \cap oldSlots(old) : new.clients[x] = old.clients[x]
        /\ Range(fresh) \subseteq Held(new)
        /\ Held(old) \subseteq Held(new) \cup Unneeded(old, slots)
  BY <1>4, <1>5, CarriesOver
<1>9. Renewed(t, old, slots, chash, new, Range(fresh))
  BY <1>1, <1>3, <1>4, <1>5, <1>7, <1>8 DEF Renewed
<1> QED BY <1>3, <1>6, <1>9

\* The clients of two tags are different.
LEMMA TagsApart ==
  ASSUME NEW t \in Tags, NEW u \in Tags, t # u
  PROVE  Clients(t) \cap Clients(u) = {}
BY DEF Clients, Client

-----------------------------------------------------------------------------
(* Pools come to have the last discovery.                                  *)

\* What Init makes has this invariant.
LEMMA InitProgress == Init => PullProgress
BY DEF Init, PullProgress, Current

\* Failed connections are only counted up.
LEMMA FaultsStay ==
  ASSUME TypeOK, NEW t \in Tags, NEW old, NEW slots, ConnectFailed(t, old, slots)
  PROVE  faults' # 0
BY EnvironmentAssumption DEF ConnectFailed, TypeOK

\* fill brings the pool it makes to the last discovery, and changes no other.
LEMMA FillProgress ==
  ASSUME IInv, RunInv, PullProgress, NEW f \in Fillers,
         Fill(f) \/ \E u \in Uses : FillMisses(f, u)
  PROVE  PullProgress'
<1>0. TypeOK /\ Holders /\ BuildsCurrent BY DEF IInv
<1>1. UNCHANGED <<discovered, ticker, tbuf>>
  BY DEF Fill, FillMisses, FillFinds, FillLocks, FillReplaces, FillFails, FillCleans,
         fillUnch, tickerVars
<1>2. CASE FillReplaces(f)
  <2>1. /\ pc[f] = "build" /\ job[f] # NoJob /\ UNCHANGED faults
        /\ replaceTagged(job[f].tag, job[f].old, job[f].slots, job[f].chash)
    BY <1>0, <1>2 DEF FillReplaces, Holders
  <2>2. PICK t \in Tags, old \in PoolsOf(job[f].tag) \cup {None},
             slots \in SUBSET Slots[job[f].tag], chash \in BOOLEAN :
          t = job[f].tag /\ old = job[f].old /\ slots = job[f].slots /\ chash = job[f].chash
    BY <1>0, <2>1, JobType
  <2>3. /\ slots = getServices(t, discovered) /\ replaceTagged(t, old, slots, chash)
        /\ old \in PoolsOf(t) \cup {None} /\ slots \in SUBSET Slots[t]
    BY <1>0, <2>1, <2>2 DEF BuildsCurrent
  <2>4. PICK new \in PoolsOf(t), clients \in SUBSET Clients(t) :
          Renewed(t, old, slots, chash, new, clients)
    BY <1>0, <2>3, Renews
  <2>5. Current(t)' BY <1>1, <2>3, <2>4 DEF Current, Renewed
  <2>6. \A u \in Tags \ {t} : tagged'[u] = tagged[u] /\ (Current(u) => Current(u)')
    BY <1>1, <2>4 DEF Current, Renewed
  <2> QED BY <1>1, <2>1, <2>5, <2>6 DEF PullProgress
<1>3. CASE FillFails(f)
  <2>1. job[f] # NoJob BY <1>0, <1>3 DEF FillFails, Holders
  <2>2. faults' # 0 BY <1>0, <1>3, <2>1, JobType, FaultsStay DEF FillFails
  <2> QED BY <2>2 DEF PullProgress
<1>4. CASE FillFinds(f) \/ FillLocks(f) \/ FillCleans(f) \/ \E u \in Uses : FillMisses(f, u)
  <2>1. UNCHANGED <<tagged, faults>>
    BY <1>4 DEF FillMisses, FillFinds, FillLocks, FillCleans
  <2> QED BY <1>1, <2>1 DEF PullProgress, Current
<1> QED BY <1>2, <1>3, <1>4 DEF Fill

\* pull drops no pool from its copy that is not of the last discovery.
LEMMA PullsProgress ==
  ASSUME IInv, RunInv, PullProgress, Pull
  PROVE  PullProgress'
<1>0. TypeOK /\ PullsCurrent /\ PullStage BY DEF IInv, RunInv
<1>1. CASE PullLooks \/ PullFindsSame
  <2>1. UNCHANGED <<tagged, discovered, faults>> /\ ticker' \in {"wait", "compare"}
        /\ ticker \in {"wait", "compare"}
    BY <1>1 DEF PullLooks, PullFindsSame, stillUnch
  <2> QED BY <2>1 DEF PullProgress, Current
<1>2. CASE PullStores
  BY <1>2 DEF PullStores, PullProgress
<1>3. CASE PullCopies
  BY <1>3 DEF PullCopies, stillUnch, PullProgress, Current
<1>4. ASSUME NEW t \in Tags, PullSkips(t) PROVE PullProgress'
  <2>1. /\ UNCHANGED <<tagged, discovered, faults, ticker>> /\ ticker = "build"
        /\ tbuf' = [tbuf EXCEPT ![t] = None]
        /\ DOMAIN tbuf[t].clients = getServices(t, discovered)
    BY <1>0, <1>4 DEF PullSkips, stillUnch, PullsCurrent, sameServices
  <2>2. ASSUME faults = 0 PROVE Current(t)' BY <2>1, <2>2 DEF PullProgress, Current
  <2>3. \A u \in Tags \ {t} : tbuf'[u] = tbuf[u] /\ (Current(u) => Current(u)')
    BY <1>0, <2>1 DEF Current, TypeOK, Table
  <2> QED BY <2>1, <2>2, <2>3 DEF PullProgress
<1>5. ASSUME NEW t \in Tags, PullReplaces(t) PROVE PullProgress'
  <2>1. /\ tbuf[t] \in PoolsOf(t) \cup {None} /\ HasCHash(tbuf[t]) \in BOOLEAN
        /\ getServices(t, looked) \in SUBSET Slots[t] /\ looked = discovered
    BY <1>0, <1>5, CopyType, GetServicesType DEF PullReplaces, PullsCurrent
  <2>2. /\ replaceTagged(t, tbuf[t], getServices(t, looked), HasCHash(tbuf[t]))
        /\ UNCHANGED <<discovered, tbuf, faults>> /\ ticker = "build" /\ ticker' = "clean"
    BY <1>5 DEF PullReplaces
  <2>3. PICK new \in PoolsOf(t), clients \in SUBSET Clients(t) :
          Renewed(t, tbuf[t], getServices(t, looked), HasCHash(tbuf[t]), new, clients)
    BY <1>0, <2>1, <2>2, Renews
  <2>4. Current(t)' BY <2>1, <2>2, <2>3 DEF Current, Renewed
  <2>5. \A u \in Tags \ {t} : tagged'[u] = tagged[u] /\ (Current(u) => Current(u)')
    BY <2>2, <2>3 DEF Current, Renewed
  <2> QED BY <2>2, <2>4, <2>5 DEF PullProgress
<1>6. ASSUME NEW t \in Tags, PullFails(t) PROVE PullProgress'
  <2>1. faults' # 0 BY <1>0, <1>6, FaultsStay DEF PullFails
  <2> QED BY <2>1 DEF PullProgress
<1>7. CASE PullCleans
  <2>1. /\ UNCHANGED <<tagged, discovered, faults>> /\ ticker = "clean" /\ ticker' = "build"
        /\ tbuf' = [tbuf EXCEPT ![ptag] = None]
    BY <1>7 DEF PullCleans
  <2>2. PICK t \in Tags : t = ptag /\ Current(t) BY <1>0, <2>1 DEF PullStage
  <2>3. \A u \in Tags \ {t} : tbuf'[u] = tbuf[u] /\ (Current(u) => Current(u)')
    BY <1>0, <2>1, <2>2 DEF Current, TypeOK, Table
  <2>4. Current(t)' BY <2>1, <2>2 DEF Current
  <2> QED BY <2>1, <2>3, <2>4 DEF PullProgress
<1>8. CASE PullEnds
  BY <1>8 DEF PullEnds, stillUnch, PullProgress, Current
<1> QED BY <1>1, <1>2, <1>3, <1>4, <1>5, <1>6, <1>7, <1>8 DEF Pull

\* So do the other steps.
LEMMA OthersProgress ==
  ASSUME PullProgress, RegistryChanges \/ Stop \/ TickerStops \/ StopReturns \/ UNCHANGED vars
  PROVE  PullProgress'
<1>1. CASE RegistryChanges \/ Stop \/ UNCHANGED vars
  BY <1>1 DEF RegistryChanges, Stop, vars, stillUnch, tickerVars, PullProgress, Current
<1>2. CASE TickerStops
  BY <1>2 DEF TickerStops, PullProgress
<1>3. CASE StopReturns
  BY <1>3 DEF StopReturns, tickerVars, PullProgress, Current
<1> QED BY <1>1, <1>2, <1>3

\* While pull waits and no connection has failed, all pools in the table have the
\* services that were discovered last: none is overlooked, and no fill brings back an
\* earlier discovery.
THEOREM PoolsAreCurrent == Spec => []PoolsCurrent
<1>1. ASSUME IInv, RunInv, PullProgress, [Next]_vars PROVE PullProgress'
  BY <1>1, FillProgress, PullsProgress, OthersProgress DEF Next
<1>2. PullProgress => PoolsCurrent BY DEF PullProgress, PoolsCurrent, View, Current
<1> QED BY <1>1, <1>2, InitProgress, Invariance, RunInvariance, PTL DEF Spec

-----------------------------------------------------------------------------
(* No client leaks.                                                        *)

\* What Init makes has this invariant.
LEMMA InitLeakInv == Init => LeakInv
<1> SUFFICES ASSUME Init PROVE LeakInv OBVIOUS
<1>1. \A t \in Orderly : SuitsAll(t) /\ FillsFirst(t) /\ CopyIsPool(t) /\ Accounted(t)
  BY DEF Init, Orderly, SuitsAll, FillsFirst, CopyIsPool, Accounted
<1> QED BY <1>1 DEF LeakInv, AskedAlike

\* A caller that asks, waits, finds a pool, takes mux or fails.
LEMMA FillAsks ==
  ASSUME IInv, LeakInv, NEW f \in Fillers,
         FillFinds(f) \/ FillLocks(f) \/ FillFails(f) \/ \E u \in Uses : FillMisses(f, u)
  PROVE  LeakInv'
<1>0. TypeOK /\ Holders /\ AskedAlike /\ \A t \in Orderly : Accounted(t) BY DEF IInv, LeakInv
<1>1. /\ UNCHANGED <<tagged, running, ticker, looked, tbuf, ptag>>
      /\ \A g \in Fillers \ {f} : pc'[g] = pc[g] /\ job'[g] = job[g]
      /\ pc[f] # "clean" /\ pc'[f] # "clean"
  <2>1. UNCHANGED <<tagged, running>>
    <3>1. CASE FillFails(f)
      <4>1. job[f] # NoJob BY <1>0, <3>1 DEF FillFails, Holders
      <4> QED BY <1>0, <3>1, <4>1, JobType, ConnectFails DEF FillFails
    <3> QED BY <3>1 DEF FillFinds, FillLocks, FillMisses
  <2> QED BY <1>0, <2>1 DEF FillFinds, FillLocks, FillFails, FillMisses, FillReturns, fillUnch,
                            tickerVars, TypeOK
<1>2. ASSUME NEW t \in Orderly, pc'[f] # "idle", job'[f].tag = t
      PROVE  /\ \E u \in Uses : u.tag = t /\ u.chash = job'[f].chash
             /\ pc'[f] = "build" => job'[f].old = None /\ tagged[t] = None
  <2>1. CASE FillLocks(f)
    <3>1. /\ job'[f] = NewJob(job[f].tag, KeepCHash(job[f].chash, tagged[job[f].tag]),
                              tagged[job[f].tag], getServices(job[f].tag, discovered))
          /\ pc[f] = "lock" /\ ~Suits(tagged[job[f].tag], job[f].chash)
      BY <1>0, <2>1 DEF FillLocks, TypeOK
    <3>2. job[f].tag = t BY <1>2, <3>1 DEF NewJob
    <3>3. PICK u \in Uses : u.tag = t /\ u.chash = job[f].chash
      BY <1>0, <3>1, <3>2 DEF AskedAlike, FillsFirst
    <3>4. tagged[t] = None BY <1>0, <3>1, <3>2, <3>3 DEF AskedAlike, SuitsAll
    <3>5. job[f].chash \in BOOLEAN
      <4>1. job[f] # NoJob BY <1>0, <3>1 DEF Holders
      <4> QED BY <1>0, <4>1, JobType
    <3>6. KeepCHash(job[f].chash, tagged[t]) = job[f].chash BY <3>4, <3>5 DEF KeepCHash
    <3>7. job'[f].chash = job[f].chash /\ job'[f].old = None
      <4>1. job'[f].old = None BY <3>1, <3>2, <3>4 DEF NewJob
      <4>2. job'[f].chash = KeepCHash(job[f].chash, tagged[t]) BY <3>1, <3>2 DEF NewJob
      <4>3. job'[f].chash = job[f].chash BY <3>6, <4>2
      <4> QED BY <4>1, <4>3
    <3> QED BY <3>3, <3>4, <3>7
  <2>2. ASSUME NEW u \in Uses, FillMisses(f, u)
        PROVE  pc'[f] = "lock" /\ u.tag = job'[f].tag /\ u.chash = job'[f].chash
    <3>1. pc'[f] = "lock" /\ job'[f] = NewJob(u.tag, u.chash, None, {})
      BY <1>0, <2>2 DEF FillMisses, TypeOK
    <3>2. u.chash = job'[f].chash BY <3>1 DEF NewJob
    <3>3. u.tag = job'[f].tag BY <3>1 DEF NewJob
    <3> QED BY <3>1, <3>2, <3>3
  <2>3. ~FillFinds(f) /\ ~FillFails(f)
    BY <1>0, <1>2 DEF FillFinds, FillFails, FillReturns, TypeOK
  <2> QED BY <1>2, <2>1, <2>2, <2>3
<1>3. ASSUME NEW t \in Orderly
      PROVE  SuitsAll(t)' /\ FillsFirst(t)' /\ CopyIsPool(t)' /\ Accounted(t)'
  <2>1. SuitsAll(t)' BY <1>0, <1>1 DEF AskedAlike, SuitsAll
  <2>2. FillsFirst(t)'
    <3>1. ASSUME NEW g \in Fillers, pc'[g] # "idle", job'[g].tag = t
          PROVE  /\ \E u \in Uses : u.tag = t /\ u.chash = job'[g].chash
                 /\ pc'[g] \in {"build", "clean"} => job'[g].old = None
                 /\ pc'[g] = "build" => tagged'[t] = None
      <4>1. CASE g = f BY <1>1, <1>2, <3>1, <4>1
      <4>2. CASE g # f BY <1>0, <1>1, <3>1, <4>2 DEF AskedAlike, FillsFirst
      <4> QED BY <4>1, <4>2
    <3> QED BY <3>1 DEF FillsFirst
  <2>3. CopyIsPool(t)' BY <1>0, <1>1 DEF AskedAlike, CopyIsPool
  <2>4. Accounted(t)'
    <3>1. ASSUME NEW c, Stops(t, c) PROVE Stops(t, c)' BY <1>1, <3>1 DEF Stops
    <3> QED BY <1>0, <1>1, <3>1 DEF Accounted
  <2> QED BY <2>1, <2>2, <2>3, <2>4
<1> QED BY <1>3 DEF LeakInv, AskedAlike

\* fill makes the first pool of a tag: all clients that were started are in it.
LEMMA FillMakes ==
  ASSUME IInv, LeakInv, NEW f \in Fillers, FillReplaces(f)
  PROVE  LeakInv'
<1>0. TypeOK /\ Holders /\ AskedAlike /\ \A t \in Orderly : Accounted(t) BY DEF IInv, LeakInv
<1>1. /\ pc[f] = "build" /\ job[f] # NoJob
      /\ replaceTagged(job[f].tag, job[f].old, job[f].slots, job[f].chash)
      /\ UNCHANGED <<job, ticker, looked, tbuf, ptag>>
      /\ pc' = [pc EXCEPT ![f] = "clean"]
  BY <1>0 DEF FillReplaces, Holders, fillUnch, tickerVars
<1>2. PICK t \in Tags, old \in PoolsOf(job[f].tag) \cup {None},
           slots \in SUBSET Slots[job[f].tag], chash \in BOOLEAN :
        t = job[f].tag /\ old = job[f].old /\ slots = job[f].slots /\ chash = job[f].chash
  BY <1>0, <1>1, JobType
<1>3. /\ old \in PoolsOf(t) \cup {None} /\ slots \in SUBSET Slots[t]
      /\ replaceTagged(t, old, slots, chash)
  BY <1>1, <1>2
<1>4. PICK new \in PoolsOf(t), clients \in SUBSET Clients(t) :
        Renewed(t, old, slots, chash, new, clients)
  BY <1>0, <1>3, Renews
<1>5. \A g \in Fillers : pc'[g] = IF g = f THEN "clean" ELSE pc[g] BY <1>0, <1>1 DEF TypeOK
<1>6. \A u \in Tags : \A c : Stops(u, c) => Stops(u, c)'
  <2>1. ASSUME NEW u \in Tags, NEW c, Stops(u, c) PROVE Stops(u, c)'
    BY <1>1, <1>5, <2>1 DEF Stops
  <2> QED BY <2>1
<1>7. ASSUME NEW u \in Orderly, u # t
      PROVE  SuitsAll(u)' /\ FillsFirst(u)' /\ CopyIsPool(u)' /\ Accounted(u)'
  <2>0. u \in Tags BY DEF Orderly
  <2>1. tagged'[u] = tagged[u] BY <1>4, <1>7, <2>0 DEF Renewed
  <2>2. SuitsAll(u)' BY <1>0, <2>1 DEF AskedAlike, SuitsAll
  <2>3. FillsFirst(u)' BY <1>0, <1>1, <1>2, <1>5, <1>7, <2>1 DEF AskedAlike, FillsFirst
  <2>4. CopyIsPool(u)' BY <1>0, <1>1, <2>1 DEF AskedAlike, CopyIsPool
  <2>5. Accounted(u)'
    <3>1. ASSUME NEW c \in running' \cap Clients(u) PROVE c \in running
      BY <1>4, <1>7, <2>0, TagsApart DEF Renewed
    <3> QED BY <1>0, <1>6, <2>0, <2>1, <3>1 DEF Accounted
  <2> QED BY <2>2, <2>3, <2>4, <2>5
<1>8. ASSUME t \in Orderly
      PROVE  SuitsAll(t)' /\ FillsFirst(t)' /\ CopyIsPool(t)' /\ Accounted(t)'
  <2>1. /\ \E u \in Uses : u.tag = t /\ u.chash = chash
        /\ old = None /\ tagged[t] = None
    BY <1>0, <1>1, <1>2, <1>8 DEF AskedAlike, FillsFirst
  <2>2. tagged'[t] = new /\ new # None /\ new.chash = chash BY <1>4 DEF Renewed
  <2>3. SuitsAll(t)'
    <3>1. ASSUME NEW u \in Uses, u.tag = t PROVE u.chash = chash
      BY <1>8, <2>1, <3>1 DEF Orderly
    <3>2. ASSUME NEW u \in Uses, u.tag = t, u.chash PROVE HasCHash(new)
      <4>1. chash BY <3>1, <3>2
      <4> QED BY <2>2, <4>1 DEF HasCHash
    <3> QED BY <2>2, <3>2 DEF SuitsAll, Suits
  <2>4. FillsFirst(t)'
    <3>1. ASSUME NEW g \in Fillers, g # f, job[g].tag = t PROVE pc[g] # "build"
      BY <1>0, <1>1, <3>1, NoneAssumption DEF Holders
    <3> QED BY <1>0, <1>1, <1>2, <1>5, <1>8, <2>1, <3>1 DEF AskedAlike, FillsFirst
  <2>5. tbuf[t] = None
    BY <1>0, <1>8, <2>1 DEF AskedAlike, CopyIsPool
  <2>6. CopyIsPool(t)' BY <1>1, <2>5 DEF CopyIsPool
  <2>7. Accounted(t)'
    <3>1. ASSUME NEW c \in running' \cap Clients(t) PROVE c \in Held(new) \/ Stops(t, c)
      <4>1. CASE c \in clients BY <1>4, <1>8, <4>1 DEF Renewed
      <4>2. CASE c \notin clients
        <5>1. c \in running BY <1>4, <4>2 DEF Renewed
        <5>2. c \notin Held(tagged[t]) BY <2>1 DEF Held
        <5> QED BY <1>0, <1>8, <5>1, <5>2 DEF Accounted
      <4> QED BY <4>1, <4>2
    <3> QED BY <1>6, <2>2, <3>1 DEF Accounted
  <2> QED BY <2>3, <2>4, <2>6, <2>7
<1> QED BY <1>7, <1>8 DEF LeakInv, AskedAlike

\* fill stops the clients it was about to stop.
LEMMA FillStops ==
  ASSUME IInv, LeakInv, NEW f \in Fillers, FillCleans(f)
  PROVE  LeakInv'
<1>0. TypeOK /\ AskedAlike /\ \A t \in Orderly : Accounted(t) BY DEF IInv, LeakInv
<1>1. /\ UNCHANGED <<tagged, ticker, looked, tbuf, ptag>>
      /\ running' = running \ Unneeded(job[f].old, job[f].slots)
      /\ pc'[f] = "idle" /\ \A g \in Fillers \ {f} : pc'[g] = pc[g] /\ job'[g] = job[g]
  BY <1>0 DEF FillCleans, FillReturns, fillUnch, tickerVars, TypeOK
<1>2. ASSUME NEW t \in Orderly
      PROVE  SuitsAll(t)' /\ FillsFirst(t)' /\ CopyIsPool(t)' /\ Accounted(t)'
  <2>1. SuitsAll(t)' /\ CopyIsPool(t)' BY <1>0, <1>1 DEF AskedAlike, SuitsAll, CopyIsPool
  <2>2. FillsFirst(t)' BY <1>0, <1>1 DEF AskedAlike, FillsFirst
  <2>3. ASSUME NEW c \in running', Stops(t, c) PROVE Stops(t, c)'
    BY <1>1, <2>3 DEF Stops
  <2>4. Accounted(t)' BY <1>0, <1>1, <2>3 DEF Accounted
  <2> QED BY <2>1, <2>2, <2>4
<1> QED BY <1>2 DEF LeakInv, AskedAlike

\* pull until it replaces a pool, when it drops one from its copy, and when it ends.
LEMMA PullLeaves ==
  ASSUME IInv, RunInv, LeakInv,
         \/ PullLooks \/ PullFindsSame \/ PullStores \/ PullCopies \/ PullEnds
         \/ \E t \in Tags : PullSkips(t) \/ PullFails(t)
  PROVE  LeakInv'
<1>0. TypeOK /\ PullStage /\ AskedAlike /\ \A t \in Orderly : Accounted(t)
  BY DEF IInv, RunInv, LeakInv
<1>1. /\ UNCHANGED <<tagged, running, pc, job>> /\ ticker # "clean" /\ ticker' # "clean"
      /\ \A t \in Tags : tbuf'[t] = tbuf[t] \/ tbuf'[t] = None \/ tbuf'[t] = tagged[t]
  <2>1. UNCHANGED <<tagged, running>>
    <3>1. ASSUME NEW t \in Tags, PullFails(t) PROVE UNCHANGED <<tagged, running>>
      BY <1>0, <3>1, ConnectFails DEF PullFails
    <3> QED BY <3>1 DEF PullLooks, PullFindsSame, PullStores, PullCopies, PullEnds, PullSkips,
                        stillUnch
  <2> QED BY <1>0, <2>1 DEF PullLooks, PullFindsSame, PullStores, PullCopies, PullEnds,
                            PullSkips, PullFails, pullUnch, fillVars, TypeOK, Table
<1>2. ASSUME NEW t \in Orderly
      PROVE  SuitsAll(t)' /\ FillsFirst(t)' /\ CopyIsPool(t)' /\ Accounted(t)'
  <2>0. t \in Tags BY DEF Orderly
  <2>1. SuitsAll(t)' /\ FillsFirst(t)' BY <1>0, <1>1 DEF AskedAlike, SuitsAll, FillsFirst
  <2>2. CopyIsPool(t)' BY <1>0, <1>1, <2>0 DEF AskedAlike, CopyIsPool
  <2>3. ASSUME NEW c, Stops(t, c) PROVE Stops(t, c)' BY <1>1, <2>3 DEF Stops
  <2>4. Accounted(t)' BY <1>0, <1>1, <2>3 DEF Accounted
  <2> QED BY <2>1, <2>2, <2>4
<1> QED BY <1>2 DEF LeakInv, AskedAlike

\* pull replaces the pool it has copied: the clients that are not carried over are
\* those it is about to stop.
LEMMA PullMakes ==
  ASSUME IInv, RunInv, LeakInv, NEW t \in Tags, PullReplaces(t)
  PROVE  LeakInv'
<1>0. TypeOK /\ AskedAlike /\ \A u \in Orderly : Accounted(u) BY DEF IInv, LeakInv
<1>1. /\ replaceTagged(t, tbuf[t], getServices(t, looked), HasCHash(tbuf[t]))
      /\ UNCHANGED <<looked, tbuf, pc, job>> /\ tbuf[t] # None
      /\ ticker = "build" /\ ticker' = "clean" /\ ptag' = t
  BY DEF PullReplaces, pullUnch, fillVars
<1>2. /\ tbuf[t] \in PoolsOf(t) \cup {None} /\ HasCHash(tbuf[t]) \in BOOLEAN
      /\ getServices(t, looked) \in SUBSET Slots[t]
  BY <1>0, <1>1, CopyType, GetServicesType
<1>3. PICK new \in PoolsOf(t), clients \in SUBSET Clients(t) :
        Renewed(t, tbuf[t], getServices(t, looked), HasCHash(tbuf[t]), new, clients)
  BY <1>0, <1>1, <1>2, Renews
<1>4. \A u \in Tags : \A c : Stops(u, c) => Stops(u, c)'
  <2>1. ASSUME NEW u \in Tags, NEW c, Stops(u, c) PROVE Stops(u, c)'
    BY <1>1, <2>1 DEF Stops
  <2> QED BY <2>1
<1>5. ASSUME NEW u \in Orderly, u # t
      PROVE  SuitsAll(u)' /\ FillsFirst(u)' /\ CopyIsPool(u)' /\ Accounted(u)'
  <2>0. u \in Tags BY DEF Orderly
  <2>1. tagged'[u] = tagged[u] BY <1>3, <1>5, <2>0 DEF Renewed
  <2>2. SuitsAll(u)' /\ FillsFirst(u)'
    BY <1>0, <1>1, <2>1 DEF AskedAlike, SuitsAll, FillsFirst
  <2>3. CopyIsPool(u)' BY <1>0, <1>1, <1>5, <2>1 DEF AskedAlike, CopyIsPool
  <2>4. Accounted(u)'
    <3>1. ASSUME NEW c \in running' \cap Clients(u) PROVE c \in running
      BY <1>3, <1>5, <2>0, TagsApart DEF Renewed
    <3> QED BY <1>0, <1>4, <2>0, <2>1, <3>1 DEF Accounted
  <2> QED BY <2>2, <2>3, <2>4
<1>6. ASSUME t \in Orderly
      PROVE  SuitsAll(t)' /\ FillsFirst(t)' /\ CopyIsPool(t)' /\ Accounted(t)'
  <2>1. tagged[t] = tbuf[t] BY <1>0, <1>1, <1>6 DEF AskedAlike, CopyIsPool
  <2>2. tagged'[t] = new /\ new # None BY <1>3 DEF Renewed
  <2>3. new.chash = tagged[t].chash BY <1>3, <2>1 DEF Renewed, HasCHash
  <2>4. SuitsAll(t)'
    <3>1. ASSUME NEW u \in Uses, u.tag = t PROVE Suits(new, u.chash)
      <4>1. Suits(tagged[t], u.chash)
        BY <1>0, <1>1, <1>6, <2>1, <3>1 DEF AskedAlike, SuitsAll
      <4> QED BY <2>2, <2>3, <4>1 DEF Suits, HasCHash
    <3> QED BY <2>2, <3>1 DEF SuitsAll
  <2>5. FillsFirst(t)' BY <1>0, <1>1, <1>6, <2>1 DEF AskedAlike, FillsFirst
  <2>6. CopyIsPool(t)' BY <1>1, <2>1, <2>2, <2>3 DEF CopyIsPool
  <2>7. Accounted(t)'
    <3>1. ASSUME NEW c \in running' \cap Clients(t) PROVE c \in Held(new) \/ Stops(t, c)'
      <4>1. CASE c \in clients BY <1>3, <1>6, <4>1 DEF Renewed
      <4>2. CASE c \notin clients /\ c \in Held(tagged[t])
        <5>1. c \in Held(new) \/ c \in Unneeded(tbuf[t], getServices(t, looked))
          BY <1>3, <1>6, <2>1, <4>2 DEF Renewed
        <5>2. c \in Unneeded(tbuf[t], getServices(t, looked)) => Stops(t, c)'
          BY <1>1 DEF Stops
        <5> QED BY <5>1, <5>2
      <4>3. CASE c \notin clients /\ c \notin Held(tagged[t])
        <5>1. c \in running BY <1>3, <4>3 DEF Renewed
        <5>2. Stops(t, c) BY <1>0, <1>6, <4>3, <5>1 DEF Accounted
        <5> QED BY <1>4, <5>2
      <4> QED BY <4>1, <4>2, <4>3
    <3> QED BY <2>2, <3>1 DEF Accounted
  <2> QED BY <2>4, <2>5, <2>6, <2>7
<1> QED BY <1>5, <1>6 DEF LeakInv, AskedAlike

\* pull stops the clients it was about to stop.
LEMMA PullStops ==
  ASSUME IInv, LeakInv, PullCleans
  PROVE  LeakInv'
<1>0. TypeOK /\ AskedAlike /\ \A t \in Orderly : Accounted(t) BY DEF IInv, LeakInv
<1>1. /\ UNCHANGED <<tagged, looked, pc, job>> /\ ticker = "clean" /\ ticker' = "build"
      /\ running' = running \ Unneeded(tbuf[ptag], getServices(ptag, looked))
      /\ \A t \in Tags : tbuf'[t] = IF t = ptag THEN None ELSE tbuf[t]
  BY <1>0 DEF PullCleans, pullUnch, fillVars, TypeOK, Table
<1>2. ASSUME NEW t \in Orderly
      PROVE  SuitsAll(t)' /\ FillsFirst(t)' /\ CopyIsPool(t)' /\ Accounted(t)'
  <2>0. t \in Tags BY DEF Orderly
  <2>1. SuitsAll(t)' /\ FillsFirst(t)' BY <1>0, <1>1 DEF AskedAlike, SuitsAll, FillsFirst
  <2>2. CopyIsPool(t)' BY <1>0, <1>1, <2>0 DEF AskedAlike, CopyIsPool
  <2>3. ASSUME NEW c \in running', Stops(t, c) PROVE Stops(t, c)'
    BY <1>1, <2>3 DEF Stops
  <2>4. Accounted(t)' BY <1>0, <1>1, <2>3 DEF Accounted
  <2> QED BY <2>1, <2>2, <2>4
<1> QED BY <1>2 DEF LeakInv, AskedAlike

\* The registry and Stop, which stops the clients of all pools and forgets them.
LEMMA OthersLeave ==
  ASSUME IInv, RunInv, LeakInv,
         RegistryChanges \/ Stop \/ TickerStops \/ StopReturns \/ UNCHANGED vars
  PROVE  LeakInv'
<1>0. TypeOK /\ PullStage /\ AskedAlike /\ \A t \in Orderly : Accounted(t)
  BY DEF IInv, RunInv, LeakInv
<1>1. CASE RegistryChanges \/ Stop \/ TickerStops \/ UNCHANGED vars
  <2>1. /\ UNCHANGED <<tagged, running, pc, job, looked, tbuf, ptag>>
        /\ ticker' = ticker \/ (ticker = "wait" /\ ticker' = "off")
    BY <1>1 DEF RegistryChanges, Stop, TickerStops, vars, stillUnch, pullUnch, tickerVars, fillVars
  <2>2. ASSUME NEW t \in Orderly
        PROVE  SuitsAll(t)' /\ FillsFirst(t)' /\ CopyIsPool(t)' /\ Accounted(t)'
    <3>1. SuitsAll(t)' /\ FillsFirst(t)' BY <1>0, <2>1 DEF AskedAlike, SuitsAll, FillsFirst
    <3>2. CopyIsPool(t)' BY <1>0, <2>1 DEF AskedAlike, CopyIsPool
    <3>3. ASSUME NEW c, Stops(t, c) PROVE Stops(t, c)' BY <2>1, <3>3 DEF Stops
    <3>4. Accounted(t)' BY <1>0, <2>1, <3>3 DEF Accounted
    <3> QED BY <3>1, <3>2, <3>4
  <2> QED BY <2>2 DEF LeakInv, AskedAlike
<1>2. CASE StopReturns
  <2>1. /\ running' = running \ UNION {Held(tagged[t]) : t \in Tags}
        /\ tagged' = [t \in Tags |-> None] /\ ticker = "off"
        /\ UNCHANGED <<pc, job, ticker, looked, tbuf, ptag>>
    BY <1>2 DEF StopReturns, tickerVars, fillVars
  <2>2. ASSUME NEW t \in Orderly
        PROVE  SuitsAll(t)' /\ FillsFirst(t)' /\ CopyIsPool(t)' /\ Accounted(t)'
    <3>0. t \in Tags /\ tagged'[t] = None /\ tbuf[t] = None
      BY <1>0, <2>1 DEF Orderly, PullStage
    <3>1. SuitsAll(t)' BY <3>0 DEF SuitsAll
    <3>2. FillsFirst(t)' BY <1>0, <2>1, <3>0 DEF AskedAlike, FillsFirst
    <3>3. CopyIsPool(t)' BY <2>1, <3>0 DEF CopyIsPool
    <3>4. ASSUME NEW c, Stops(t, c) PROVE Stops(t, c)' BY <2>1, <3>4 DEF Stops
    <3>5. Accounted(t)' BY <1>0, <2>1, <3>0, <3>4 DEF Accounted
    <3> QED BY <3>1, <3>2, <3>3, <3>5
  <2> QED BY <2>2 DEF LeakInv, AskedAlike
<1> QED BY <1>1, <1>2

\* Every pool of an orderly tag is known, and so is every client that runs.
THEOREM LeakInvariance == Spec => []LeakInv
<1>1. ASSUME IInv, RunInv, LeakInv, [Next]_vars PROVE LeakInv'
  BY <1>1, FillAsks, FillMakes, FillStops, PullLeaves, PullMakes, PullStops, OthersLeave
  DEF Next, Fill, Pull
<1> QED BY <1>1, InitLeakInv, Invariance, RunInvariance, PTL DEF Spec

\* No client of an orderly tag leaks: through rebuilds by fill and pull at the same
\* time, failed connections and Stop, one that runs is in its tag's pool or about to be
\* stopped.
THEOREM NothingLeaks == Spec => []NoLeak
<1>1. ASSUME LeakInv, NEW t \in Orderly, NEW c \in running \cap Clients(t)
      PROVE  c \in Held(tagged[t]) \cup BeingStopped(t)
  <2>1. c \in Held(tagged[t]) \/ Stops(t, c) BY <1>1 DEF LeakInv, Accounted
  <2>2. Stops(t, c) => c \in BeingStopped(t) BY DEF Stops, BeingStopped
  <2> QED BY <2>1, <2>2
<1>2. LeakInv => NoLeak BY <1>1 DEF NoLeak, Owned
<1> QED BY <1>2, LeakInvariance, PTL

\* Until the selector is stopped, and while nobody is about to stop clients, the clients
\* of an orderly tag that run are those of its pool: all of them, and no other.
PoolIsWhatRuns ==
  life # "stopped" /\ ticker # "clean" /\ (\A f \in Fillers : pc[f] # "clean") =>
    \A t \in Orderly : running \cap Clients(t) = Held(tagged[t])

\* The clients that run are those of the pools, between any two rebuilds.
THEOREM PoolsAreWhatRuns == Spec => []PoolIsWhatRuns
<1>1. ASSUME IInv, RunInv, LeakInv, life # "stopped", ticker # "clean",
             \A f \in Fillers : pc[f] # "clean", NEW t \in Orderly
      PROVE  running \cap Clients(t) = Held(tagged[t])
  <2>1. t \in Tags BY DEF Orderly
  <2>2. \A c : ~Stops(t, c) BY <1>1 DEF Stops
  <2>3. running \cap Clients(t) \subseteq Held(tagged[t])
    BY <1>1, <2>2 DEF LeakInv, Accounted
  <2>4. Held(tagged[t]) \subseteq running BY <1>1, <2>1 DEF RunInv, KeptRun
  <2>5. Held(tagged[t]) \subseteq Clients(t)
    <3>1. tagged[t] \in PoolsOf(t) \cup {None} BY <1>1, <2>1 DEF IInv, TypeOK, Table
    <3> QED BY <2>1, <3>1, HeldType
  <2> QED BY <2>3, <2>4, <2>5
<1>2. IInv /\ RunInv /\ LeakInv => PoolIsWhatRuns BY <1>1 DEF PoolIsWhatRuns
<1> QED BY <1>2, Invariance, RunInvariance, LeakInvariance, PTL

-----------------------------------------------------------------------------
(* mux is given back.                                                      *)

\* mux is held by a fill that rebuilds a pool or cleans up after it, and by nobody else.
MuxIsHeld == mux # None => pc[mux] \in {"build", "clean"}

\* No fill leaves mux locked, on whatever way it returns: fill and pull wait for mux
\* only while a fill that does not wait for anything has it.
THEOREM MuxIsGivenBack == Spec => []MuxIsHeld
<1>1. Init => MuxIsHeld BY DEF Init, MuxIsHeld
<1>2. ASSUME IInv, MuxIsHeld, [Next]_vars PROVE MuxIsHeld'
  <2>0. TypeOK /\ Holders BY <1>2 DEF IInv
  <2>1. ASSUME NEW f \in Fillers, FillFinds(f) \/ \E u \in Uses : FillMisses(f, u)
        PROVE  MuxIsHeld'
    <3>1. UNCHANGED mux /\ mux # f /\ \A g \in Fillers \ {f} : pc'[g] = pc[g]
      <4>1. pc[f] \in {"idle", "lock"} BY <2>1 DEF FillFinds, FillMisses
      <4>2. mux # f BY <1>2, <2>0, <4>1, NoneAssumption DEF MuxIsHeld
      <4> QED BY <2>0, <2>1, <4>2 DEF FillFinds, FillMisses, FillReturns, TypeOK
    <3> QED BY <1>2, <2>0, <3>1 DEF MuxIsHeld, TypeOK
  <2>2. ASSUME NEW f \in Fillers, FillLocks(f) \/ FillReplaces(f) PROVE MuxIsHeld'
    <3>1. mux' = f /\ pc'[f] \in {"build", "clean"}
      BY <2>0, <2>2 DEF FillLocks, Lock, FillReplaces, Holders, TypeOK
    <3> QED BY <3>1 DEF MuxIsHeld
  <2>3. ASSUME NEW f \in Fillers, FillFails(f) \/ FillCleans(f) PROVE MuxIsHeld'
    BY <2>3 DEF FillFails, FillCleans, Unlock, MuxIsHeld
  <2>4. ASSUME \/ Pull \/ RegistryChanges \/ Stop \/ TickerStops \/ StopReturns
               \/ UNCHANGED vars
        PROVE  MuxIsHeld'
    <3>1. UNCHANGED <<mux, pc>>
      BY <2>4 DEF Pull, PullLooks, PullFindsSame, PullStores, PullCopies, PullCleans, PullEnds,
                  PullSkips, PullReplaces, PullFails, RegistryChanges, Stop, TickerStops,
                  StopReturns, pullUnch, fillVars, vars
    <3> QED BY <1>2, <3>1 DEF MuxIsHeld
  <2> QED BY <1>2, <2>1, <2>2, <2>3, <2>4 DEF Next, Fill
<1> QED BY <1>1, <1>2, Invariance, PTL DEF Spec

-----------------------------------------------------------------------------
(* Keys keep their clients.                                                *)

\* A step that leaves an orderly tag a pool leaves every slot that stays its client.
LEMMA SlotsKeepClients ==
  ASSUME IInv, RunInv, LeakInv, [Next]_vars,
         NEW t \in Orderly, tagged[t] # None, tagged'[t] # None
  PROVE  \A x \in DOMAIN tagged[t].clients \cap DOMAIN tagged'[t].clients :
           tagged'[t].clients[x] = tagged[t].clients[x]
<1> DEFINE Kept == \A x \in DOMAIN tagged[t].clients \cap DOMAIN tagged'[t].clients :
                     tagged'[t].clients[x] = tagged[t].clients[x]
<1>0. TypeOK /\ Holders /\ AskedAlike /\ t \in Tags BY DEF IInv, LeakInv, Orderly
<1>1. ASSUME tagged'[t] = tagged[t] PROVE Kept BY <1>1
<1>2. ASSUME NEW f \in Fillers, FillReplaces(f) PROVE Kept
  <2>1. /\ pc[f] = "build" /\ job[f] # NoJob
        /\ replaceTagged(job[f].tag, job[f].old, job[f].slots, job[f].chash)
    BY <1>0, <1>2 DEF FillReplaces, Holders
  <2>2. job[f].tag # t BY <1>0, <2>1 DEF AskedAlike, FillsFirst
  <2>3. tagged'[t] = tagged[t] BY <1>0, <2>1, <2>2 DEF replaceTagged, TypeOK, Table
  <2> QED BY <1>1, <2>3
<1>3. ASSUME NEW u \in Tags, PullReplaces(u) PROVE Kept
  <2>1. /\ replaceTagged(u, tbuf[u], getServices(u, looked), HasCHash(tbuf[u]))
        /\ tbuf[u] # None /\ ticker = "build"
    BY <1>3 DEF PullReplaces
  <2>2. /\ tbuf[u] \in PoolsOf(u) \cup {None} /\ HasCHash(tbuf[u]) \in BOOLEAN
        /\ getServices(u, looked) \in SUBSET Slots[u]
    BY <1>0, <2>1, CopyType, GetServicesType
  <2>3. PICK new \in PoolsOf(u), clients \in SUBSET Clients(u) :
          Renewed(u, tbuf[u], getServices(u, looked), HasCHash(tbuf[u]), new, clients)
    BY <1>0, <2>1, <2>2, Renews
  <2>4. CASE u # t
    <3>1. tagged'[t] = tagged[t] BY <1>0, <2>3, <2>4 DEF Renewed
    <3> QED BY <1>1, <3>1
  <2>5. CASE u = t
    <3>1. tbuf[t] = tagged[t] BY <1>0, <2>1, <2>5 DEF AskedAlike, CopyIsPool
    <3>2. tagged'[t] = new BY <2>3, <2>5 DEF Renewed
    <3>3. DOMAIN new.clients = getServices(t, looked) BY <2>3, <2>5 DEF Renewed
    <3>4. \A x \in getServices(t, looked) \cap oldSlots(tagged[t]) :
            new.clients[x] = tagged[t].clients[x]
      BY <2>3, <2>5, <3>1 DEF Renewed
    <3>5. oldSlots(tagged[t]) = DOMAIN tagged[t].clients BY DEF oldSlots
    <3> QED BY <3>2, <3>3, <3>4, <3>5
  <2> QED BY <2>4, <2>5
<1>4. ASSUME StopReturns PROVE Kept BY <1>0, <1>4 DEF StopReturns
<1>5. ASSUME NEW f \in Fillers, FillFails(f) PROVE UNCHANGED tagged
  BY <1>5 DEF FillFails, ConnectFailed
<1>6. ASSUME NEW f \in Fillers, NEW u \in Uses, FillMisses(f, u) PROVE UNCHANGED tagged
  BY <1>6 DEF FillMisses
<1>7. ASSUME NEW f \in Fillers, Fill(f), ~FillReplaces(f) PROVE UNCHANGED tagged
  BY <1>5, <1>7 DEF Fill, FillFinds, FillLocks, FillCleans
<1>8. ASSUME NEW u \in Tags, PullFails(u) PROVE UNCHANGED tagged
  BY <1>8 DEF PullFails, ConnectFailed
<1>9. ASSUME Pull, \A u \in Tags : ~PullReplaces(u) PROVE UNCHANGED tagged
  BY <1>8, <1>9 DEF Pull, PullLooks, PullFindsSame, PullStores, PullCopies, PullCleans,
                    PullEnds, PullSkips, stillUnch
<1>10. ASSUME RegistryChanges \/ Stop \/ TickerStops \/ UNCHANGED vars PROVE UNCHANGED tagged
  BY <1>10 DEF RegistryChanges, Stop, TickerStops, stillUnch, vars
<1> HIDE DEF Kept
<1>11. UNCHANGED tagged => Kept BY <1>1
<1>12. Kept BY <1>2, <1>3, <1>4, <1>6, <1>7, <1>9, <1>10, <1>11 DEF Next
<1> QED BY <1>12 DEF Kept

\* The client of a key in a pool of an orderly tag is that of its service.
LEMMA HashedClient ==
  ASSUME NEW t \in Orderly, NEW p \in PoolsOf(t) \cup {None}, CanHash(p), Routed(p),
         NEW h \in Hashes
  PROVE  /\ Owner(p, h) \in PoolServices(p)
         /\ <<Owner(p, h), 1>> \in DOMAIN p.clients
         /\ Hashed(p, h) = p.clients[<<Owner(p, h), 1>>]
         /\ Hashed(p, h).service = Owner(p, h)
<1>1. p # None /\ p \in PoolsOf(t) /\ t \in Tags BY DEF CanHash, Orderly
<1>2. PoolServices(p) \in SUBSET Services /\ PoolServices(p) # {} BY <1>1, CanHashServices
<1>3. Owner(p, h) \in PoolServices(p) BY <1>2, SearchFindsService DEF Owner
<1>4. /\ <<Owner(p, h), 1>> \in DOMAIN p.clients
      /\ idc(p, Owner(p, h)) = p.clients[<<Owner(p, h), 1>>]
  BY <1>1, <1>3, OnePlace
<1>5. Hashed(p, h) = p.clients[<<Owner(p, h), 1>>] BY <1>4 DEF Hashed, Owner
<1>6. Hashed(p, h).service = Owner(p, h) BY <1>1, <1>4, <1>5 DEF Routed
<1> QED BY <1>3, <1>4, <1>5, <1>6

\* Whatever becomes of the pool of an orderly tag, a key moves to another client only
\* if its service has gone or the other has come: a rebuild that keeps the service of a
\* key keeps its connection as well.
THEOREM KeysKeepTheirClients == Spec => KeysKeepClients
<1> DEFINE Keep(t) ==
      \A h \in Hashes :
         LET c == Hashed(tagged[t], h)
             d == Hashed(tagged'[t], h)
         IN \/ c = d
            \/ c.service \notin PoolServices(tagged'[t])
            \/ d.service \notin PoolServices(tagged[t])
<1>1. ASSUME IInv, RunInv, LeakInv, IInv', RunInv', [Next]_vars,
             NEW t \in Orderly, CanHash(tagged[t]), CanHash(tagged'[t])
      PROVE  Keep(t)
  <2>1. PICK p \in PoolsOf(t) \cup {None}, q \in PoolsOf(t) \cup {None} :
          /\ p = tagged[t] /\ q = tagged'[t]
          /\ CanHash(p) /\ Routed(p) /\ CanHash(q) /\ Routed(q)
    <3>1. t \in Tags BY DEF Orderly
    <3>2. tagged[t] \in PoolsOf(t) \cup {None} /\ tagged'[t] \in PoolsOf(t) \cup {None}
      BY <1>1, <3>1 DEF IInv, TypeOK, Table, PoolsOf, Clients, Client
    <3>3. Routed(tagged[t]) /\ Routed(tagged'[t])
      BY <1>1, <3>1 DEF RunInv, AllRouted, Routed
    <3> QED BY <1>1, <3>2, <3>3
  <2>2. \A x \in DOMAIN p.clients \cap DOMAIN q.clients : q.clients[x] = p.clients[x]
    BY <1>1, <2>1, SlotsKeepClients DEF CanHash
  <2>3. /\ PoolServices(p) \in SUBSET Services /\ PoolServices(p) # {}
        /\ PoolServices(q) \in SUBSET Services /\ PoolServices(q) # {}
    BY <2>1, CanHashServices DEF Orderly
  <2>4. ASSUME NEW h \in Hashes, Hashed(p, h).service \in PoolServices(q),
               Hashed(q, h).service \in PoolServices(p)
        PROVE  Hashed(p, h) = Hashed(q, h)
    <3>1. /\ Hashed(p, h) = p.clients[<<Owner(p, h), 1>>]
          /\ Hashed(p, h).service = Owner(p, h) /\ <<Owner(p, h), 1>> \in DOMAIN p.clients
          /\ Hashed(q, h) = q.clients[<<Owner(q, h), 1>>]
          /\ Hashed(q, h).service = Owner(q, h) /\ <<Owner(q, h), 1>> \in DOMAIN q.clients
      BY <2>1, HashedClient
    <3>2. Owner(p, h) = Owner(q, h)
      BY <2>3, <2>4, <3>1, KeysStayPut DEF Owner
    <3> QED BY <2>2, <3>1, <3>2
  <2> QED BY <2>1, <2>4
<1>2. IInv /\ RunInv /\ LeakInv /\ IInv' /\ RunInv' /\ [Next]_vars =>
        \A t \in Orderly : CanHash(tagged[t]) /\ CanHash(tagged'[t]) => Keep(t)
  BY <1>1
<1> QED BY <1>2, Invariance, RunInvariance, LeakInvariance, PTL DEF KeysKeepClients, Spec

=============================================================================

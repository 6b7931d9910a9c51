------------------------- MODULE SelectorRunsProofs -------------------------
(***************************************************************************)
(* Theorems about the clients in the selector's pools: each is connected   *)
(* to the service it stands for, and all of them run.                      *)
(*                                                                         *)
(* Two goroutines may stop clients, and neither looks at the pools that    *)
(* the other has built meanwhile.  What keeps them from stopping a client  *)
(* that is in use is that both stop clients of services that are not in    *)
(* the last discovery, and neither puts such a client in a new pool.       *)
(***************************************************************************)
EXTENDS SelectorProofs

-----------------------------------------------------------------------------
(* The invariant.                                                          *)

\* Every client of a pool is connected to its slot's service.
Routed(p) ==
  p # None => \A slot \in DOMAIN p.clients : p.clients[slot].service = slot[1]

\* So it is in the table, in pull's copy of it and in what fill rebuilds.
AllRouted ==
  /\ \A t \in Tags : Routed(tagged[t]) /\ Routed(tbuf[t])
  /\ \A f \in Fillers : Routed(job[f].old)

\* The pool of tag t, if it has one, has the slots of the last discovery.
Current(t) ==
  tagged[t] # None => DOMAIN tagged[t].clients = getServices(t, discovered)

\* pull has pools to look at only while it builds; one that it cleans up after has the
\* slots of the last discovery.
PullStage ==
  /\ ticker \notin {"build", "clean"} => \A t \in Tags : tbuf[t] = None
  /\ ticker = "clean" => ptag \in Tags /\ Current(ptag)

\* So has the pool that a fill cleans up after.
FillStage ==
  \A f \in Fillers : pc[f] = "clean" =>
    /\ job[f].slots = getServices(job[f].tag, discovered)
    /\ Current(job[f].tag)

\* The clients of p that a rebuild for the last discovery would keep are running.
Runs(t, p) ==
  \A c \in Held(p) : c.service \in ServicesOf(getServices(t, discovered)) => c \in running

\* Clients run that are in a pool, or may be put in one.
KeptRun ==
  life # "stopped" =>
    /\ \A t \in Tags : Held(tagged[t]) \subseteq running /\ Runs(t, tbuf[t])
    /\ \A f \in Fillers : pc[f] = "build" => Runs(job[f].tag, job[f].old)

RunInv == AllRouted /\ PullStage /\ FillStage /\ KeptRun

-----------------------------------------------------------------------------
(* Pools.                                                                  *)

\* The clients of a pool are clients of its tag.
LEMMA HeldType ==
  ASSUME NEW t \in Tags, NEW p \in PoolsOf(t) \cup {None}, NEW c \in Held(p)
  PROVE  /\ c \in Clients(t) /\ c.tag = t
         /\ p # None /\ \E x \in DOMAIN p.clients : c = p.clients[x]
<1>1. p # None BY DEF Held
<1>2. PICK x \in DOMAIN p.clients : c = p.clients[x] BY <1>1 DEF Held, Range
<1>3. c \in Clients(t) BY <1>1, <1>2, PoolShape
<1> QED BY <1>1, <1>2, <1>3 DEF Clients, Client

\* The clients of a pool that has the slots of the last discovery are of its services.
LEMMA CurrentServices ==
  ASSUME NEW t \in Tags, NEW p \in PoolsOf(t), Routed(p),
         NEW slots, DOMAIN p.clients = slots, NEW c \in Held(p)
  PROVE  c.service \in ServicesOf(slots)
<1>1. PICK x \in DOMAIN p.clients : c = p.clients[x] BY HeldType
<1> QED BY <1>1, PoolShape DEF Routed, ServicesOf

\* The clients that are stopped after a rebuild are of the tag and of no slot.
LEMMA UnneededServices ==
  ASSUME NEW t \in Tags, NEW old \in PoolsOf(t) \cup {None}, Routed(old),
         NEW slots, NEW c \in Unneeded(old, slots)
  PROVE  c.tag = t /\ c.service \notin ServicesOf(slots)
<1>1. PICK x \in oldSlots(old) : c = old.clients[x] /\ x[1] \notin ServicesOf(slots)
  BY DEF Unneeded
<1>2. old # None /\ x \in DOMAIN old.clients BY <1>1 DEF oldSlots
<1>3. c \in Held(old) BY <1>1, <1>2 DEF Held, Range
<1>4. c.tag = t BY <1>3, HeldType
<1> QED BY <1>1, <1>2, <1>4 DEF Routed

\* replaceTagged makes a pool whose clients are connected to its services; they run if
\* those that it takes from the old pool do.
LEMMA Replaces ==
  ASSUME TypeOK, NEW t \in Tags, NEW old \in PoolsOf(t) \cup {None}, Routed(old),
         NEW slots, slots = getServices(t, discovered), NEW chash \in BOOLEAN,
         replaceTagged(t, old, slots, chash)
  PROVE  \E new \in PoolsOf(t) :
           /\ tagged' = [tagged EXCEPT ![t] = new]
           /\ new # None /\ Routed(new) /\ DOMAIN new.clients = slots
           /\ running \subseteq running'
           /\ Runs(t, old) => Held(new) \subseteq running'
<1>0. slots \in SUBSET Slots[t] BY GetServicesType
<1>1. PICK fresh \in Connections(t, Missing(old, slots)) :
        /\ tagged' = [tagged EXCEPT ![t] = newTagged(NewClients(old, slots, fresh), chash)]
        /\ running' = running \cup Range(fresh)
  BY DEF replaceTagged
<1> DEFINE clients == NewClients(old, slots, fresh)
           new == newTagged(clients, chash)
<1>2. new \in PoolsOf(t) /\ DOMAIN new.clients = slots BY <1>0, NewPool
<1>3. new # None BY <1>2, PoolShape
<1>4. new.clients = clients BY DEF newTagged
<1>5. ASSUME NEW slot \in slots
      PROVE  /\ clients[slot].service = slot[1]
             /\ Runs(t, old) => clients[slot] \in running'
  <2>1. CASE slot \in Missing(old, slots)
    <3>1. fresh[slot].service = slot[1] /\ slot \in DOMAIN fresh BY <2>1, ConnectionsType
    <3>2. clients[slot] = fresh[slot] BY <3>1 DEF NewClients
    <3> QED BY <1>1, <3>1, <3>2 DEF Range
  <2>2. CASE slot \notin Missing(old, slots)
    <3>1. slot \notin DOMAIN fresh BY <2>2, ConnectionsType
    <3>2. clients[slot] = FirstClient(old, slot[1]) BY <3>1 DEF NewClients
    <3>3. old # None /\ slot[1] \in PoolServices(old)
      BY <2>2 DEF Missing, oldSlots, ServicesOf, PoolServices
    <3>4. PICK x \in DOMAIN old.clients :
            x[1] = slot[1] /\ FirstClient(old, slot[1]) = old.clients[x]
      BY <3>3, FirstClientIs
    <3>5. clients[slot].service = slot[1] BY <3>2, <3>3, <3>4 DEF Routed
    <3>6. clients[slot] \in Held(old) BY <3>2, <3>3, <3>4 DEF Held, Range
    <3>7. slot[1] \in ServicesOf(getServices(t, discovered)) BY DEF ServicesOf
    <3> QED BY <1>1, <3>5, <3>6, <3>7 DEF Runs
  <2> QED BY <2>1, <2>2
<1>6. Routed(new) BY <1>2, <1>4, <1>5 DEF Routed
<1>7. Runs(t, old) => Held(new) \subseteq running' BY <1>2, <1>4, <1>5 DEF Held, Range
<1> HIDE DEF new, clients
<1> QED BY <1>1, <1>2, <1>3, <1>6, <1>7 DEF new, clients

\* Clients that are stopped after a rebuild for the last discovery are none that a
\* rebuild would keep.
LEMMA CleansUnneeded ==
  ASSUME TypeOK, NEW t \in Tags, NEW old \in PoolsOf(t) \cup {None}, Routed(old),
         running' = running \ Unneeded(old, getServices(t, discovered)),
         UNCHANGED discovered
  PROVE  /\ \A u \in Tags : \A p \in PoolsOf(u) \cup {None} :
              Runs(u, p) =>
                \A c \in Held(p) : c.service \in ServicesOf(getServices(u, discovered'))
                                     => c \in running'
         /\ \A u \in Tags : /\ Routed(tagged[u]) /\ Held(tagged[u]) \subseteq running
                            /\ u = t => Current(u)
                            => Held(tagged[u]) \subseteq running'
<1>1. ASSUME NEW u \in Tags, NEW p \in PoolsOf(u) \cup {None}, NEW c \in Held(p),
             u = t => c.service \in ServicesOf(getServices(u, discovered)), c \in running
      PROVE  c \in running'
  <2>1. c.tag = u BY <1>1, HeldType
  <2> QED BY <1>1, <2>1, UnneededServices
<1>2. ASSUME NEW u \in Tags, Routed(tagged[u]), Held(tagged[u]) \subseteq running,
             u = t => Current(u), NEW c \in Held(tagged[u])
      PROVE  c \in running'
  <2>1. tagged[u] \in PoolsOf(u) \cup {None} BY DEF TypeOK, Table
  <2>2. tagged[u] \in PoolsOf(u) /\ tagged[u] # None BY <1>2, <2>1, HeldType
  <2>3. u = t => DOMAIN tagged[u].clients = getServices(u, discovered)
    BY <1>2, <2>2 DEF Current
  <2>4. u = t => c.service \in ServicesOf(getServices(u, discovered))
    BY <1>2, <2>2, <2>3, CurrentServices
  <2> QED BY <1>1, <1>2, <2>1, <2>4
<1>3. ASSUME NEW u \in Tags, NEW p \in PoolsOf(u) \cup {None}, Runs(u, p), NEW c \in Held(p),
             c.service \in ServicesOf(getServices(u, discovered'))
      PROVE  c \in running'
  BY <1>1, <1>3 DEF Runs
<1> QED BY <1>2, <1>3

-----------------------------------------------------------------------------
(* The steps that change no pool, and stop nothing.                        *)

\* What Init makes has the invariant.
LEMMA InitRunInv == Init => RunInv
<1> SUFFICES ASSUME Init PROVE RunInv OBVIOUS
<1>1. AllRouted BY DEF Init, AllRouted, Routed, NoJob, NewJob
<1>2. PullStage /\ FillStage BY DEF Init, PullStage, FillStage
<1>3. KeptRun BY DEF Init, KeptRun, Held, Runs
<1> QED BY <1>1, <1>2, <1>3 DEF RunInv

\* A caller that asks, waits, finds a pool, takes mux or fails.
LEMMA FillQuiet ==
  ASSUME IInv, RunInv, NEW f \in Fillers,
         FillFinds(f) \/ FillLocks(f) \/ FillFails(f) \/ \E u \in Uses : FillMisses(f, u)
  PROVE  RunInv'
<1>0. TypeOK /\ Holders /\ AllRouted /\ PullStage /\ FillStage /\ KeptRun BY DEF IInv, RunInv
<1>1. /\ UNCHANGED <<tagged, running, discovered, life, ticker, tbuf, ptag>>
      /\ \A g \in Fillers \ {f} : pc'[g] = pc[g] /\ job'[g] = job[g]
      /\ pc'[f] # "clean"
  <2>1. UNCHANGED <<tagged, running>>
    <3>1. CASE FillFails(f)
      <4>1. job[f] # NoJob BY <1>0, <3>1 DEF FillFails, Holders
      <4> QED BY <1>0, <3>1, <4>1, JobType, ConnectFails DEF FillFails
    <3> QED BY <3>1 DEF FillFinds, FillLocks, FillMisses
  <2> QED BY <1>0, <2>1 DEF FillFinds, FillLocks, FillFails, FillMisses, FillReturns, fillUnch,
                            tickerVars, TypeOK
<1>2. /\ Routed(job'[f].old)
      /\ pc'[f] = "build" => job'[f].old = tagged[job'[f].tag] /\ job'[f].tag \in Tags
  <2>1. CASE FillLocks(f)
    <3>1. job[f] # NoJob BY <1>0, <2>1 DEF FillLocks, Holders
    <3>2. job[f].tag \in Tags BY <1>0, <3>1, JobType
    <3>3. job'[f].old = tagged[job[f].tag] /\ job'[f].tag = job[f].tag
      BY <1>0, <2>1 DEF FillLocks, TypeOK, NewJob
    <3> QED BY <1>0, <3>2, <3>3 DEF AllRouted
  <2>2. CASE FillFinds(f) \/ FillFails(f) \/ \E u \in Uses : FillMisses(f, u)
    <3>1. job'[f].old = None /\ pc'[f] # "build"
      BY <1>0, <2>2 DEF FillFinds, FillFails, FillMisses, FillReturns, TypeOK, NewJob, NoJob
    <3> QED BY <3>1 DEF Routed
  <2> QED BY <2>1, <2>2
<1>3. AllRouted' BY <1>0, <1>1, <1>2 DEF AllRouted
<1>4. PullStage' BY <1>0, <1>1 DEF PullStage, Current
<1>5. FillStage' BY <1>0, <1>1 DEF FillStage, Current
<1>6. KeptRun'
  <2> SUFFICES ASSUME life' # "stopped"
               PROVE  /\ \A t \in Tags : Held(tagged'[t]) \subseteq running' /\ Runs(t, tbuf[t])'
                      /\ \A g \in Fillers : pc'[g] = "build" => Runs(job[g].tag, job[g].old)'
    BY DEF KeptRun
  <2>1. ASSUME NEW t \in Tags PROVE Held(tagged'[t]) \subseteq running' /\ Runs(t, tbuf[t])'
    BY <1>0, <1>1 DEF KeptRun, Runs
  <2>2. ASSUME NEW g \in Fillers, pc'[g] = "build" PROVE Runs(job[g].tag, job[g].old)'
    <3>1. CASE g = f BY <1>0, <1>1, <1>2, <2>2, <3>1 DEF KeptRun, Runs
    <3>2. CASE g # f BY <1>0, <1>1, <2>2, <3>2 DEF KeptRun, Runs
    <3> QED BY <3>1, <3>2
  <2> QED BY <2>1, <2>2
<1> QED BY <1>3, <1>4, <1>5, <1>6 DEF RunInv

\* pull until it replaces a pool, when it drops one from its copy, and when it ends.
LEMMA PullQuiet ==
  ASSUME IInv, RunInv,
         \/ PullLooks \/ PullFindsSame \/ PullStores \/ PullCopies \/ PullEnds
         \/ \E t \in Tags : PullSkips(t) \/ PullFails(t)
  PROVE  RunInv'
<1>0. TypeOK /\ Holders /\ AllRouted /\ PullStage /\ FillStage /\ KeptRun BY DEF IInv, RunInv
<1>1. /\ UNCHANGED <<tagged, running, life, pc, job, mux>>
      /\ ticker' # "clean"
      /\ \A t \in Tags : tbuf'[t] \in {tbuf[t], None, tagged[t]}
  <2>1. UNCHANGED <<tagged, running>>
    <3>1. ASSUME NEW t \in Tags, PullFails(t) PROVE UNCHANGED <<tagged, running>>
      BY <1>0, <3>1, ConnectFails DEF PullFails
    <3> QED BY <3>1 DEF PullLooks, PullFindsSame, PullStores, PullCopies, PullEnds, PullSkips,
                        stillUnch
  <2> QED BY <1>0, <2>1 DEF PullLooks, PullFindsSame, PullStores, PullCopies, PullEnds,
                            PullSkips, PullFails, pullUnch, fillVars, TypeOK, Table
<1>2. /\ ticker' # "build" => \A t \in Tags : tbuf'[t] = None
      /\ \A t \in Tags : tbuf'[t] \in {tbuf[t], None} \/ UNCHANGED discovered
  <2>1. ASSUME NEW t \in Tags, PullSkips(t) \/ PullFails(t)
        PROVE  ticker' = "build" /\ UNCHANGED discovered
    BY <2>1 DEF PullSkips, PullFails, stillUnch
  <2> QED BY <1>0, <2>1 DEF PullLooks, PullFindsSame, PullStores, PullCopies, PullEnds,
                            PullStage, stillUnch
<1>3. AllRouted'
  <2>1. ASSUME NEW t \in Tags PROVE Routed(tbuf'[t])
    BY <1>0, <1>1 DEF AllRouted, Routed
  <2> QED BY <1>0, <1>1, <2>1 DEF AllRouted
<1>4. PullStage' BY <1>1, <1>2 DEF PullStage
<1>5. CASE UNCHANGED discovered
  <2>1. FillStage' BY <1>0, <1>1, <1>5 DEF FillStage, Current
  <2>2. KeptRun'
    <3> SUFFICES ASSUME life' # "stopped"
                 PROVE  /\ \A t \in Tags : Held(tagged'[t]) \subseteq running' /\ Runs(t, tbuf[t])'
                        /\ \A g \in Fillers : pc'[g] = "build" => Runs(job[g].tag, job[g].old)'
      BY DEF KeptRun
    <3>1. ASSUME NEW t \in Tags PROVE Held(tagged'[t]) \subseteq running' /\ Runs(t, tbuf[t])'
      <4>1. Held(tagged[t]) \subseteq running /\ Runs(t, tbuf[t]) BY <1>0, <1>1 DEF KeptRun
      <4>2. CASE tbuf'[t] = None BY <1>1, <4>1, <4>2 DEF Runs, Held
      <4>3. CASE tbuf'[t] = tbuf[t] BY <1>1, <1>5, <4>1, <4>3 DEF Runs
      <4>4. CASE tbuf'[t] = tagged[t] BY <1>1, <1>5, <4>1, <4>4 DEF Runs
      <4> QED BY <1>1, <4>2, <4>3, <4>4
    <3>2. ASSUME NEW g \in Fillers, pc'[g] = "build" PROVE Runs(job[g].tag, job[g].old)'
      BY <1>0, <1>1, <1>5, <3>2 DEF KeptRun, Runs
    <3> QED BY <3>1, <3>2
  <2> QED BY <1>3, <1>4, <2>1, <2>2 DEF RunInv
<1>6. CASE PullStores
  <2>1. mux = None /\ ticker' = "copy" BY <1>6 DEF PullStores
  <2>2. \A f \in Fillers : pc[f] \notin {"build", "clean"} BY <1>0, <2>1, NoneAssumption DEF Holders
  <2>3. \A t \in Tags : tbuf'[t] = None BY <1>2, <2>1
  <2>4. FillStage' BY <1>1, <2>2 DEF FillStage
  <2>5. KeptRun' BY <1>0, <1>1, <2>2, <2>3 DEF KeptRun, Runs, Held
  <2> QED BY <1>3, <1>4, <2>4, <2>5 DEF RunInv
<1>7. CASE ~PullStores
  BY <1>5, <1>7 DEF PullLooks, PullFindsSame, PullCopies, PullEnds, PullSkips, PullFails, stillUnch
<1> QED BY <1>6, <1>7

-----------------------------------------------------------------------------
(* The steps that replace a pool.                                          *)

\* A pool of the last discovery, made from one whose clients run, keeps the invariant.
LEMMA ReplaceKeeps ==
  ASSUME IInv, RunInv, NEW t \in Tags, NEW old \in PoolsOf(t) \cup {None}, Routed(old),
         NEW slots, slots = getServices(t, discovered), NEW chash \in BOOLEAN,
         replaceTagged(t, old, slots, chash), life # "stopped" => Runs(t, old),
         UNCHANGED <<discovered, life, tbuf, job>>
  PROVE  /\ AllRouted' /\ Current(t)'
         /\ \A u \in Tags : Current(u) => Current(u)'
         /\ life' # "stopped" =>
              /\ \A u \in Tags : Held(tagged'[u]) \subseteq running' /\ Runs(u, tbuf[u])'
              /\ \A f \in Fillers : pc[f] = "build" => Runs(job[f].tag, job[f].old)'
<1>0. TypeOK /\ AllRouted /\ KeptRun BY DEF IInv, RunInv
<1>1. PICK new \in PoolsOf(t) :
        /\ tagged' = [tagged EXCEPT ![t] = new]
        /\ new # None /\ Routed(new) /\ DOMAIN new.clients = slots
        /\ running \subseteq running'
        /\ Runs(t, old) => Held(new) \subseteq running'
  BY <1>0, Replaces
<1>2. /\ tagged'[t] = new
      /\ \A u \in Tags : u # t => tagged'[u] = tagged[u]
  BY <1>0, <1>1 DEF TypeOK, Table
<1>3. AllRouted'
  <2>1. ASSUME NEW u \in Tags PROVE Routed(tagged'[u]) /\ Routed(tbuf'[u])
    BY <1>0, <1>1, <1>2 DEF AllRouted
  <2> QED BY <1>0, <2>1 DEF AllRouted
<1>4. Current(t)' BY <1>1, <1>2 DEF Current
<1>5. ASSUME NEW u \in Tags, Current(u) PROVE Current(u)'
  BY <1>2, <1>4, <1>5 DEF Current
<1>6. ASSUME life' # "stopped"
      PROVE  /\ \A u \in Tags : Held(tagged'[u]) \subseteq running' /\ Runs(u, tbuf[u])'
             /\ \A f \in Fillers : pc[f] = "build" => Runs(job[f].tag, job[f].old)'
  <2>1. ASSUME NEW u \in Tags PROVE Held(tagged'[u]) \subseteq running' /\ Runs(u, tbuf[u])'
    BY <1>0, <1>1, <1>2, <1>6 DEF KeptRun, Runs
  <2>2. ASSUME NEW f \in Fillers, pc[f] = "build" PROVE Runs(job[f].tag, job[f].old)'
    BY <1>0, <1>1, <1>6, <2>2 DEF KeptRun, Runs
  <2> QED BY <2>1, <2>2
<1> QED BY <1>3, <1>4, <1>5, <1>6

\* fill replaces a pool.
LEMMA FillReplacesKeeps ==
  ASSUME IInv, RunInv, NEW f \in Fillers, FillReplaces(f)
  PROVE  RunInv'
<1>0. TypeOK /\ Holders /\ BuildsCurrent /\ AllRouted /\ PullStage /\ FillStage /\ KeptRun
  BY DEF IInv, RunInv
<1>1. /\ pc[f] = "build" /\ job[f] # NoJob
      /\ replaceTagged(job[f].tag, job[f].old, job[f].slots, job[f].chash)
      /\ UNCHANGED <<discovered, life, tbuf, job, ticker, ptag>>
      /\ pc' = [pc EXCEPT ![f] = "clean"]
  BY <1>0 DEF FillReplaces, Holders, fillUnch, tickerVars
<1>2. PICK t \in Tags, old \in PoolsOf(job[f].tag) \cup {None}, slots \in SUBSET Slots[job[f].tag],
           chash \in BOOLEAN :
        t = job[f].tag /\ old = job[f].old /\ slots = job[f].slots /\ chash = job[f].chash
  BY <1>0, <1>1, JobType
<1>3. /\ old \in PoolsOf(t) \cup {None} /\ Routed(old) /\ slots = getServices(t, discovered)
      /\ life # "stopped" => Runs(t, old)
      /\ replaceTagged(t, old, slots, chash)
  BY <1>0, <1>1, <1>2 DEF AllRouted, BuildsCurrent, KeptRun
<1>4. /\ AllRouted' /\ Current(t)'
      /\ \A u \in Tags : Current(u) => Current(u)'
      /\ life' # "stopped" =>
           /\ \A u \in Tags : Held(tagged'[u]) \subseteq running' /\ Runs(u, tbuf[u])'
           /\ \A g \in Fillers : pc[g] = "build" => Runs(job[g].tag, job[g].old)'
  BY <1>1, <1>3, ReplaceKeeps
<1>5. PullStage' BY <1>0, <1>1, <1>4 DEF PullStage
<1>6. FillStage'
  <2>1. ASSUME NEW g \in Fillers, pc'[g] = "clean", NEW u \in Tags, u = job[g].tag
        PROVE  job[g].slots = getServices(u, discovered) /\ Current(u)'
    <3>1. CASE g = f BY <1>2, <1>3, <1>4, <2>1, <3>1
    <3>2. CASE g # f
      <4>1. pc[g] = "clean" BY <1>0, <1>1, <2>1, <3>2 DEF TypeOK
      <4> QED BY <1>0, <1>4, <2>1, <4>1 DEF FillStage, Current
    <3> QED BY <3>1, <3>2
  <2>2. ASSUME NEW g \in Fillers, pc'[g] = "clean" PROVE job[g].tag \in Tags
    <3>1. job[g] # NoJob BY <1>0, <1>1, <2>2 DEF TypeOK, Holders
    <3> QED BY <1>0, <3>1, JobType
  <2> QED BY <1>1, <2>1, <2>2 DEF FillStage, Current
<1>7. KeptRun' BY <1>0, <1>1, <1>4 DEF KeptRun, TypeOK
<1> QED BY <1>4, <1>5, <1>6, <1>7 DEF RunInv

\* pull replaces a pool.
LEMMA PullReplacesKeeps ==
  ASSUME IInv, RunInv, NEW t \in Tags, PullReplaces(t)
  PROVE  RunInv'
<1>0. TypeOK /\ Holders /\ PullsCurrent /\ AllRouted /\ PullStage /\ FillStage /\ KeptRun
  BY DEF IInv, RunInv
<1> DEFINE old == tbuf[t]
           slots == getServices(t, looked)
           chash == HasCHash(old)
<1>1. /\ replaceTagged(t, old, slots, chash)
      /\ UNCHANGED <<discovered, life, tbuf, job, pc>>
      /\ ticker = "build" /\ ticker' = "clean" /\ ptag' = t
  BY DEF PullReplaces, pullUnch, fillVars
<1>2. /\ old \in PoolsOf(t) \cup {None} /\ chash \in BOOLEAN
      /\ Routed(old) /\ slots = getServices(t, discovered)
      /\ life # "stopped" => Runs(t, old)
  BY <1>0, <1>1, CopyType DEF PullReplaces, AllRouted, PullsCurrent, KeptRun
<1> HIDE DEF old, slots, chash
<1>3. /\ AllRouted' /\ Current(t)'
      /\ \A u \in Tags : Current(u) => Current(u)'
      /\ life' # "stopped" =>
           /\ \A u \in Tags : Held(tagged'[u]) \subseteq running' /\ Runs(u, tbuf[u])'
           /\ \A g \in Fillers : pc[g] = "build" => Runs(job[g].tag, job[g].old)'
  BY <1>1, <1>2, ReplaceKeeps
<1>4. PullStage' BY <1>1, <1>3 DEF PullStage
<1>5. FillStage'
  <2>1. ASSUME NEW g \in Fillers, pc[g] = "clean", NEW u \in Tags, u = job[g].tag
        PROVE  job[g].slots = getServices(u, discovered) /\ Current(u)'
    BY <1>0, <1>3, <2>1 DEF FillStage, Current
  <2>2. ASSUME NEW g \in Fillers, pc[g] = "clean" PROVE job[g].tag \in Tags
    BY <1>0, <2>2, JobType DEF Holders
  <2> QED BY <1>1, <2>1, <2>2 DEF FillStage, Current
<1>6. KeptRun' BY <1>1, <1>3 DEF KeptRun
<1> QED BY <1>3, <1>4, <1>5, <1>6 DEF RunInv

-----------------------------------------------------------------------------
(* The steps that stop clients.                                            *)

\* fill stops the clients it does not need.
LEMMA FillCleansKeeps ==
  ASSUME IInv, RunInv, NEW f \in Fillers, FillCleans(f)
  PROVE  RunInv'
<1>0. TypeOK /\ Holders /\ AllRouted /\ PullStage /\ FillStage /\ KeptRun BY DEF IInv, RunInv
<1> DEFINE t == job[f].tag
           old == job[f].old
<1>1. /\ pc[f] = "clean" /\ job[f] # NoJob
      /\ running' = running \ Unneeded(old, job[f].slots)
      /\ UNCHANGED <<tagged, discovered, life, tbuf, ticker, ptag>>
      /\ pc' = [pc EXCEPT ![f] = "idle"] /\ job' = [job EXCEPT ![f] = NoJob]
  BY <1>0 DEF FillCleans, FillReturns, Holders, fillUnch, tickerVars
<1>2. /\ t \in Tags /\ old \in PoolsOf(t) \cup {None}
      /\ Routed(old) /\ job[f].slots = getServices(t, discovered) /\ Current(t)
  BY <1>0, <1>1, JobType DEF AllRouted, FillStage
<1>3. running' = running \ Unneeded(old, getServices(t, discovered)) BY <1>1, <1>2
<1> HIDE DEF t, old
<1>4. /\ \A u \in Tags : \A p \in PoolsOf(u) \cup {None} :
           Runs(u, p) =>
             \A c \in Held(p) : c.service \in ServicesOf(getServices(u, discovered'))
                                  => c \in running'
      /\ \A u \in Tags : /\ Routed(tagged[u]) /\ Held(tagged[u]) \subseteq running
                         /\ u = t => Current(u)
                         => Held(tagged[u]) \subseteq running'
  BY <1>0, <1>1, <1>2, <1>3, CleansUnneeded
<1>5. AllRouted'
  <2>1. ASSUME NEW g \in Fillers PROVE Routed(job'[g].old)
    <3>1. CASE g = f BY <1>0, <1>1, <3>1 DEF TypeOK, NoJob, NewJob, Routed
    <3>2. CASE g # f BY <1>0, <1>1, <3>2 DEF TypeOK, AllRouted
    <3> QED BY <3>1, <3>2
  <2> QED BY <1>0, <1>1, <2>1 DEF AllRouted
<1>6. PullStage' BY <1>0, <1>1 DEF PullStage, Current
<1>7. FillStage' BY <1>0, <1>1 DEF FillStage, Current, TypeOK
<1>8. KeptRun'
  <2> SUFFICES ASSUME life' # "stopped"
               PROVE  /\ \A u \in Tags : Held(tagged'[u]) \subseteq running' /\ Runs(u, tbuf[u])'
                      /\ \A g \in Fillers : pc'[g] = "build" => Runs(job[g].tag, job[g].old)'
    BY DEF KeptRun
  <2>1. ASSUME NEW u \in Tags PROVE Held(tagged'[u]) \subseteq running' /\ Runs(u, tbuf[u])'
    <3>1. Held(tagged[u]) \subseteq running /\ Runs(u, tbuf[u]) BY <1>0, <1>1 DEF KeptRun
    <3>2. tbuf[u] \in PoolsOf(u) \cup {None} BY <1>0 DEF TypeOK, Table
    <3>3. Held(tagged'[u]) \subseteq running' BY <1>0, <1>1, <1>2, <1>4, <3>1 DEF AllRouted
    <3>4. Runs(u, tbuf[u])' BY <1>1, <1>4, <3>1, <3>2 DEF Runs
    <3> QED BY <3>3, <3>4
  <2>2. ASSUME NEW g \in Fillers, pc'[g] = "build" PROVE Runs(job[g].tag, job[g].old)'
    <3>1. g # f /\ pc[g] = "build" /\ job'[g] = job[g] BY <1>0, <1>1, <2>2 DEF TypeOK
    <3>2. job[g].tag \in Tags /\ job[g].old \in PoolsOf(job[g].tag) \cup {None}
      BY <1>0, <3>1, JobType DEF Holders
    <3>3. Runs(job[g].tag, job[g].old) BY <1>0, <1>1, <3>1 DEF KeptRun
    <3> QED BY <1>1, <1>4, <3>1, <3>2, <3>3 DEF Runs
  <2> QED BY <2>1, <2>2
<1> QED BY <1>5, <1>6, <1>7, <1>8 DEF RunInv

\* pull stops the clients it does not need.
LEMMA PullCleansKeeps ==
  ASSUME IInv, RunInv, PullCleans
  PROVE  RunInv'
<1>0. /\ TypeOK /\ Holders /\ PullsCurrent
      /\ AllRouted /\ PullStage /\ FillStage /\ KeptRun
  BY DEF IInv, RunInv
<1>1. /\ ticker = "clean" /\ ticker' = "build"
      /\ running' = running \ Unneeded(tbuf[ptag], getServices(ptag, looked))
      /\ UNCHANGED <<tagged, discovered, life, pc, job>>
      /\ tbuf' = [tbuf EXCEPT ![ptag] = None]
  BY DEF PullCleans, pullUnch, fillVars
<1>2. /\ ptag \in Tags /\ tbuf[ptag] \in PoolsOf(ptag) \cup {None}
      /\ Routed(tbuf[ptag]) /\ looked = discovered /\ Current(ptag)
  BY <1>0, <1>1 DEF TypeOK, Table, AllRouted, PullsCurrent, PullStage
<1>3. running' = running \ Unneeded(tbuf[ptag], getServices(ptag, discovered)) BY <1>1, <1>2
<1>4. /\ \A u \in Tags : \A p \in PoolsOf(u) \cup {None} :
           Runs(u, p) =>
             \A c \in Held(p) : c.service \in ServicesOf(getServices(u, discovered'))
                                  => c \in running'
      /\ \A u \in Tags : /\ Routed(tagged[u]) /\ Held(tagged[u]) \subseteq running
                         /\ u = ptag => Current(u)
                         => Held(tagged[u]) \subseteq running'
  BY <1>0, <1>1, <1>2, <1>3, CleansUnneeded
<1>5. \A u \in Tags : tbuf'[u] \in {tbuf[u], None} BY <1>0, <1>1 DEF TypeOK, Table
<1>6. AllRouted' BY <1>0, <1>1, <1>5 DEF AllRouted, Routed
<1>7. PullStage' BY <1>1 DEF PullStage
<1>8. FillStage' BY <1>0, <1>1 DEF FillStage, Current
<1>9. KeptRun'
  <2> SUFFICES ASSUME life' # "stopped"
               PROVE  /\ \A u \in Tags : Held(tagged'[u]) \subseteq running' /\ Runs(u, tbuf[u])'
                      /\ \A g \in Fillers : pc'[g] = "build" => Runs(job[g].tag, job[g].old)'
    BY DEF KeptRun
  <2>1. ASSUME NEW u \in Tags PROVE Held(tagged'[u]) \subseteq running' /\ Runs(u, tbuf[u])'
    <3>1. Held(tagged[u]) \subseteq running /\ Runs(u, tbuf[u]) BY <1>0, <1>1 DEF KeptRun
    <3>2. tbuf[u] \in PoolsOf(u) \cup {None} BY <1>0 DEF TypeOK, Table
    <3>3. Held(tagged'[u]) \subseteq running' BY <1>0, <1>1, <1>2, <1>4, <3>1 DEF AllRouted
    <3>4. CASE tbuf'[u] = None BY <3>3, <3>4 DEF Runs, Held
    <3>5. CASE tbuf'[u] = tbuf[u] BY <1>1, <1>4, <3>1, <3>2, <3>3, <3>5 DEF Runs
    <3> QED BY <1>5, <3>4, <3>5
  <2>2. ASSUME NEW g \in Fillers, pc'[g] = "build" PROVE Runs(job[g].tag, job[g].old)'
    <3>1. pc[g] = "build" /\ job'[g] = job[g] BY <1>1, <2>2
    <3>2. job[g].tag \in Tags /\ job[g].old \in PoolsOf(job[g].tag) \cup {None}
      BY <1>0, <3>1, JobType DEF Holders
    <3>3. Runs(job[g].tag, job[g].old) BY <1>0, <1>1, <3>1 DEF KeptRun
    <3> QED BY <1>1, <1>4, <3>1, <3>2, <3>3 DEF Runs
  <2> QED BY <2>1, <2>2
<1> QED BY <1>6, <1>7, <1>8, <1>9 DEF RunInv

-----------------------------------------------------------------------------
(* Theorems.                                                               *)

\* The registry and Stop keep the invariant.
LEMMA OthersKeep ==
  ASSUME IInv, RunInv, RegistryChanges \/ Stop \/ TickerStops \/ StopReturns \/ UNCHANGED vars
  PROVE  RunInv'
<1>0. AllRouted /\ PullStage /\ FillStage /\ KeptRun BY DEF RunInv
<1>1. CASE RegistryChanges \/ Stop \/ TickerStops \/ UNCHANGED vars
  <2>1. /\ UNCHANGED <<tagged, discovered, running, tbuf, ptag, pc, job>>
        /\ life' = "stopped" => life = "stopped"
        /\ life = "stopped" => life' = "stopped"
        /\ ticker' = ticker \/ (ticker = "wait" /\ ticker' = "off")
    BY <1>1 DEF RegistryChanges, Stop, TickerStops, vars, stillUnch, pullUnch, tickerVars, fillVars
  <2>2. AllRouted' BY <1>0, <2>1 DEF AllRouted
  <2>3. PullStage' BY <1>0, <2>1 DEF PullStage, Current
  <2>4. FillStage' BY <1>0, <2>1 DEF FillStage, Current
  <2>5. KeptRun' BY <1>0, <2>1 DEF KeptRun, Runs
  <2> QED BY <2>2, <2>3, <2>4, <2>5 DEF RunInv
<1>2. CASE StopReturns
  <2>1. /\ tagged' = [t \in Tags |-> None] /\ life' = "stopped" /\ ticker = "off"
        /\ UNCHANGED <<discovered, tbuf, ticker, ptag, pc, job>>
    BY <1>2 DEF StopReturns, tickerVars, fillVars
  <2>2. AllRouted' BY <1>0, <2>1 DEF AllRouted, Routed
  <2>3. PullStage' BY <1>0, <2>1 DEF PullStage
  <2>4. FillStage'
    <3>1. \A f \in Fillers : pc[f] = "clean" => job[f].tag \in Tags
      BY JobType DEF IInv, Holders
    <3> QED BY <1>0, <2>1, <3>1 DEF FillStage, Current
  <2>5. KeptRun' BY <2>1 DEF KeptRun
  <2> QED BY <2>2, <2>3, <2>4, <2>5 DEF RunInv
<1> QED BY <1>1, <1>2

\* Clients that run are kept running, by fill, pull and Stop at the same time.
THEOREM RunInvariance == Spec => []RunInv
<1>1. ASSUME IInv, RunInv, [Next]_vars PROVE RunInv'
  BY <1>1, FillQuiet, FillReplacesKeeps, FillCleansKeeps, PullQuiet, PullReplacesKeeps,
     PullCleansKeeps, OthersKeep DEF Next, Fill, Pull
<1> QED BY <1>1, InitRunInv, Invariance, PTL DEF Spec

\* The clients of every pool run until the selector is stopped: neither fill nor pull
\* stops one that the other has put there, or is about to.
THEOREM ClientsRun == Spec => []PoolsRun
<1>1. RunInv => PoolsRun BY DEF RunInv, KeptRun, PoolsRun
<1> QED BY <1>1, RunInvariance, PTL

\* The client that a pool has for a service is connected to that service, through any
\* number of rebuilds, also of services that have a tag more than once.
THEOREM Routing == Spec => []OwnService
<1>1. RunInv => OwnService BY DEF RunInv, AllRouted, Routed, OwnService
<1> QED BY <1>1, RunInvariance, PTL

=============================================================================

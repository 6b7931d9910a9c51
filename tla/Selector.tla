------------------------------ MODULE Selector ------------------------------
(***************************************************************************)
(* The selector of selector.go.                                            *)
(*                                                                         *)
(* A Selector keeps, for every tag it was asked for, a pool of clients of  *)
(* the services that have the tag.  Callers fill in pools that are missing *)
(* or that have no consistent hash when one is needed (fill, under mux); a *)
(* ticker looks services up in the registry and replaces the pools they    *)
(* change (pull, without mux except while it stores the services); Stop    *)
(* ends the ticker and stops the clients of all pools.  tmu protects the   *)
(* table of pools, for one access at a time.                               *)
(*                                                                         *)
(* The registry is environment: its services come and go.  A service is    *)
(* its Id, as it is for sameServices.  Clients are things that are started *)
(* and stopped.                                                            *)
(***************************************************************************)
EXTENDS Tagged


CONSTANTS
  Tags,      \* the tags
  Slots,     \* per tag, the slots of its pool when all services are there
  Fillers,   \* goroutines that use the selector
  Uses,      \* what they ask for: a tag, with or without a consistent hash
  Names,     \* names for the clients of a slot: those of stopped ones are used again
  Stoppable, \* whether Stop is ever called
  MaxFaults, \* bound: how often a client cannot be started
  None       \* no pool, no holder of mux

ASSUME PoolsAssumption ==
  /\ Slots \in [Tags -> SUBSET (Services \X (Nat \ {0}))]
  /\ Uses \subseteq [tag : Tags, chash : BOOLEAN]

ASSUME EnvironmentAssumption ==
  /\ Stoppable \in BOOLEAN
  /\ MaxFaults \in Nat

VARIABLES
  registry,   \* the services of the registry
  discovered, \* Selector.discovered
  tagged,     \* Selector.tagged
  mux,        \* the goroutine that holds mux
  life,       \* "running", "stopping" or "stopped"
  ticker,     \* where the ticker's goroutine is
  looked,     \* its discovered: the answer of the registry
  tbuf,       \* the pools it has still to look at
  ptag,       \* the tag it has just replaced the pool of
  pc,         \* where each caller is in fill
  job,        \* its tag and chash, the pool it found and the slots it will fill
  running,    \* the clients that run
  faults      \* failed starts so far

tickerVars == <<ticker, looked, tbuf, ptag>>
fillVars == <<pc, job>>
vars == <<registry, discovered, tagged, mux, life, tickerVars, fillVars, running, faults>>

-----------------------------------------------------------------------------
(* Clients and pools.                                                      *)

\* The clients that are started for the slots of tag t, with their services' addresses.
Client(t, slot, n) == [tag |-> t, service |-> slot[1], place |-> slot[2], name |-> n]
Clients(t) == {Client(t, slot, n) : slot \in Slots[t], n \in Names}

\* The pools of tag t, with clients for any of its slots.
PoolsOf(t) ==
  [clients : UNION {[slots -> Clients(t)] : slots \in SUBSET Slots[t]}, chash : BOOLEAN]

ASSUME NoneAssumption ==
  None \notin Tags \cup Fillers /\ \A t \in Tags : None \notin PoolsOf(t)

Held(p) == IF p = None THEN {} ELSE Range(p.clients)

\* The clients that the selector or a fill still refers to.
Referenced(t) ==
  Held(tagged[t]) \cup Held(tbuf[t]) \cup UNION {Held(job[f].old) : f \in Fillers}

getServices(t, services) == {slot \in Slots[t] : slot[1] \in services}

\* Mutant: only the lengths are compared.
sameServicesByLength(p, slots) == Cardinality(DOMAIN p.clients) = Cardinality(slots)

\* Both sides list the slots of one tag in the order of the Ids.
sameServices(p, slots) == DOMAIN p.clients = slots

oldSlots(old) == IF old = None THEN {} ELSE DOMAIN old.clients

\* Mutant: a pool is always built with new clients.
MissingAll(old, slots) == slots

\* The slots whose service has no client in the old pool, and must be connected.
Missing(old, slots) == {slot \in slots : slot[1] \notin ServicesOf(oldSlots(old))}

\* Mutant: the loop over the old services takes the client of the first.
FirstClientOfAny(old, s) == old.clients[CHOOSE x \in DOMAIN old.clients : TRUE]

\* The loop over the old services finds the first client of a service.
FirstClient(old, s) ==
  old.clients[<<s, Min({x[2] : x \in {y \in DOMAIN old.clients : y[1] = s}})>>]

\* newTagged of selector.go with all connections made: fresh names the new clients.
NewClients(old, slots, fresh) ==
  [slot \in slots |-> IF slot \in DOMAIN fresh THEN fresh[slot] ELSE FirstClient(old, slot[1])]

\* The clients that can be started for a slot.
Free(t, slot) ==
  {c \in Clients(t) : c.service = slot[1] /\ c.place = slot[2]} \ Referenced(t)

\* A new client for each of some slots: which of the free ones is the same.
Connections(t, slots) ==
  IF \E slot \in slots : Free(t, slot) = {} THEN {}
  ELSE {[slot \in slots |-> CHOOSE c \in Free(t, slot) : TRUE]}

\* Mutant: the old clients are not looked for in the new pool.
UnneededAll(old, slots) == {old.clients[x] : x \in oldSlots(old)}

\* The clients that replaceTagged stops: those of services that are in no new slot.
Unneeded(old, slots) ==
  {old.clients[x] : x \in {y \in oldSlots(old) : y[1] \notin ServicesOf(slots)}}

\* Mutant: the pool is stored under another tag.
replaceTaggedAnywhere(t, old, slots, chash) ==
  \E fresh \in Connections(t, Missing(old, slots)) : \E u \in Tags :
    /\ tagged' = [tagged EXCEPT ![u] = newTagged(NewClients(old, slots, fresh), chash)]
    /\ running' = running \cup Range(fresh)

\* replaceTagged up to the place where the old clients are stopped.
replaceTagged(t, old, slots, chash) ==
  \E fresh \in Connections(t, Missing(old, slots)) :
    /\ tagged' = [tagged EXCEPT ![t] = newTagged(NewClients(old, slots, fresh), chash)]
    /\ running' = running \cup Range(fresh)

\* Mutant: the connections made before one fails stay.
CleanupForgotten(t, slots) ==
  \E some \in SUBSET slots :
    \E fresh \in Connections(t, some) : running' = running \cup Range(fresh)

\* The connections made before one fails are stopped again.
Cleanup(t, slots) == UNCHANGED running

\* newTagged fails: a client could not be started.
ConnectFailed(t, old, slots) ==
  /\ Missing(old, slots) # {}
  /\ faults < MaxFaults /\ faults' = faults + 1
  /\ Cleanup(t, Missing(old, slots))
  /\ UNCHANGED tagged

-----------------------------------------------------------------------------
NewJob(t, chash, old, slots) == [tag |-> t, chash |-> chash, old |-> old, slots |-> slots]
NoJob == NewJob(None, FALSE, None, {})

\* NewSelector: the first pull is done, the ticker runs.
Init ==
  /\ registry \in SUBSET Services
  /\ discovered = registry
  /\ tagged = [t \in Tags |-> None]
  /\ mux = None /\ life = "running"
  /\ ticker = "wait" /\ looked = {}
  /\ tbuf = [t \in Tags |-> None] /\ ptag = None
  /\ pc = [f \in Fillers |-> "idle"]
  /\ job = [f \in Fillers |-> NoJob]
  /\ running = {} /\ faults = 0

\* Environment: services come and go.
RegistryChanges ==
  /\ registry' \in SUBSET Services
  /\ UNCHANGED <<discovered, tagged, mux, life, tickerVars, fillVars, running, faults>>

-----------------------------------------------------------------------------
(* fill, called by Random, Hashed, RoundRobin and All.                     *)

fillUnch == UNCHANGED <<registry, discovered, life, tickerVars>>

\* The pool there is will do.
Suits(p, chash) == p # None /\ (~chash \/ HasCHash(p))

\* The fast path fails; where it succeeds nothing changes.
FillMisses(f, u) ==
  /\ pc[f] = "idle"
  /\ ~Suits(tagged[u.tag], u.chash)
  /\ pc' = [pc EXCEPT ![f] = "lock"]
  /\ job' = [job EXCEPT ![f] = NewJob(u.tag, u.chash, None, {})]
  /\ UNCHANGED <<tagged, mux, running, faults>> /\ fillUnch

\* Mutant: mux is not kept.
LockForgotten(f) == mux = None /\ UNCHANGED mux

Lock(f) == mux = None /\ mux' = f

\* Mutant: a fill that fails keeps mux.
UnlockForgotten == UNCHANGED mux

Unlock == mux' = None

FillReturns(f) ==
  /\ pc' = [pc EXCEPT ![f] = "idle"]
  /\ job' = [job EXCEPT ![f] = NoJob]

\* mux is taken and the double check finds a pool.
FillFinds(f) ==
  /\ pc[f] = "lock" /\ mux = None
  /\ Suits(tagged[job[f].tag], job[f].chash)
  /\ FillReturns(f)
  /\ UNCHANGED <<tagged, mux, running, faults>> /\ fillUnch

\* A pool does not lose its consistent hash.
KeepCHash(chash, p) == chash \/ (p # None /\ HasCHash(p))

\* mux is taken, and the double check finds none.
FillLocks(f) ==
  LET t == job[f].tag IN
  /\ pc[f] = "lock"
  /\ Lock(f)
  /\ ~Suits(tagged[t], job[f].chash)
  /\ job' = [job EXCEPT ![f] = NewJob(t, KeepCHash(@.chash, tagged[t]), tagged[t],
                                      getServices(t, discovered))]
  /\ pc' = [pc EXCEPT ![f] = "build"]
  /\ UNCHANGED <<tagged, running, faults>> /\ fillUnch

FillReplaces(f) ==
  /\ pc[f] = "build"
  /\ replaceTagged(job[f].tag, job[f].old, job[f].slots, job[f].chash)
  /\ pc' = [pc EXCEPT ![f] = "clean"]
  /\ UNCHANGED <<mux, job, faults>> /\ fillUnch

FillFails(f) ==
  /\ pc[f] = "build"
  /\ ConnectFailed(job[f].tag, job[f].old, job[f].slots)
  /\ Unlock
  /\ FillReturns(f)
  /\ fillUnch

\* The old clients that are not needed are stopped, and mux is released.
FillCleans(f) ==
  /\ pc[f] = "clean"
  /\ running' = running \ Unneeded(job[f].old, job[f].slots)
  /\ Unlock
  /\ FillReturns(f)
  /\ UNCHANGED <<tagged, faults>> /\ fillUnch

-----------------------------------------------------------------------------
(* pull, in the ticker's goroutine.                                        *)

pullUnch == UNCHANGED <<registry, mux, life, fillVars>>
stillUnch == UNCHANGED <<discovered, tagged, running, faults>>

\* The ticker fires and the registry answers.  A lookup that fails changes nothing.
PullLooks ==
  /\ ticker = "wait"
  /\ looked' = registry
  /\ ticker' = "compare"
  /\ UNCHANGED <<tbuf, ptag>> /\ stillUnch /\ pullUnch

\* getDiscovered waits for mux as well.
PullFindsSame ==
  /\ ticker = "compare" /\ mux = None
  /\ looked = discovered
  /\ ticker' = "wait" /\ looked' = {}
  /\ UNCHANGED <<tbuf, ptag>> /\ stillUnch /\ pullUnch

\* The services are stored under mux, and the callbacks run under it.
PullStores ==
  /\ ticker = "compare" /\ mux = None
  /\ looked # discovered
  /\ discovered' = looked
  /\ ticker' = "copy"
  /\ UNCHANGED <<looked, tbuf, ptag, tagged, running, faults>> /\ pullUnch

PullCopies ==
  /\ ticker = "copy"
  /\ tbuf' = tagged
  /\ ticker' = "build"
  /\ UNCHANGED <<looked, ptag>> /\ stillUnch /\ pullUnch

PullSkips(t) ==
  /\ ticker = "build" /\ tbuf[t] # None
  /\ sameServices(tbuf[t], getServices(t, looked))
  /\ tbuf' = [tbuf EXCEPT ![t] = None]
  /\ UNCHANGED <<ticker, looked, ptag>> /\ stillUnch /\ pullUnch

PullReplaces(t) ==
  LET slots == getServices(t, looked) IN
  /\ ticker = "build" /\ tbuf[t] # None
  /\ ~sameServices(tbuf[t], slots)
  /\ replaceTagged(t, tbuf[t], slots, HasCHash(tbuf[t]))
  /\ ticker' = "clean" /\ ptag' = t
  /\ UNCHANGED <<discovered, looked, tbuf, faults>> /\ pullUnch

\* The error is logged, and the pool stays as it is.
PullFails(t) ==
  /\ ticker = "build" /\ tbuf[t] # None
  /\ ConnectFailed(t, tbuf[t], getServices(t, looked))
  /\ tbuf' = [tbuf EXCEPT ![t] = None]
  /\ UNCHANGED <<discovered, ticker, looked, ptag>> /\ pullUnch

PullCleans ==
  /\ ticker = "clean"
  /\ running' = running \ Unneeded(tbuf[ptag], getServices(ptag, looked))
  /\ tbuf' = [tbuf EXCEPT ![ptag] = None]
  /\ ticker' = "build" /\ ptag' = None
  /\ UNCHANGED <<discovered, tagged, looked, faults>> /\ pullUnch

PullEnds ==
  /\ ticker = "build" /\ \A t \in Tags : tbuf[t] = None
  /\ ticker' = "wait" /\ looked' = {}
  /\ UNCHANGED <<tbuf, ptag>> /\ stillUnch /\ pullUnch

-----------------------------------------------------------------------------
(* Stop.                                                                   *)

\* close(stopChan)
Stop ==
  /\ Stoppable /\ life = "running"
  /\ life' = "stopping"
  /\ UNCHANGED <<registry, mux, fillVars, tickerVars>> /\ stillUnch

\* The ticker's goroutine closes stopped and returns.
TickerStops ==
  /\ ticker = "wait" /\ life = "stopping"
  /\ ticker' = "off"
  /\ UNCHANGED <<looked, tbuf, ptag>> /\ stillUnch /\ pullUnch

\* <-stopped, and all clients are stopped under tmu.
StopReturns ==
  /\ life = "stopping" /\ ticker = "off"
  /\ life' = "stopped"
  /\ running' = running \ UNION {Held(tagged[t]) : t \in Tags}
  /\ tagged' = [t \in Tags |-> None]
  /\ UNCHANGED <<registry, discovered, mux, fillVars, tickerVars, faults>>

-----------------------------------------------------------------------------
Fill(f) ==
  \/ FillFinds(f) \/ FillLocks(f) \/ FillReplaces(f) \/ FillFails(f) \/ FillCleans(f)

Pull ==
  \/ PullLooks \/ PullFindsSame \/ PullStores \/ PullCopies \/ PullCleans \/ PullEnds
  \/ \E t \in Tags : PullSkips(t) \/ PullReplaces(t) \/ PullFails(t)

Next ==
  \/ RegistryChanges
  \/ \E f \in Fillers : Fill(f) \/ \E u \in Uses : FillMisses(f, u)
  \/ Pull
  \/ Stop \/ TickerStops \/ StopReturns

Spec == Init /\ [][Next]_vars

-----------------------------------------------------------------------------
(* Fairness: goroutines that can run do run, the ticker ticks, mux is      *)
(* handed to every goroutine that waits for it (a sync.RWMutex does not    *)
(* starve), and the select of the ticker's goroutine takes stopChan when   *)
(* it is ready again and again.  Nothing is assumed of the registry, of    *)
(* callers and of Stop.                                                    *)

FillRuns(f) == FillReplaces(f) \/ FillFails(f) \/ FillCleans(f)

PullRuns ==
  \/ PullLooks \/ PullCopies \/ PullCleans \/ PullEnds
  \/ \E t \in Tags : PullSkips(t) \/ PullReplaces(t) \/ PullFails(t)

Fairness ==
  /\ \A f \in Fillers : WF_vars(FillRuns(f)) /\ SF_vars(FillFinds(f) \/ FillLocks(f))
  /\ WF_vars(PullRuns) /\ SF_vars(PullFindsSame \/ PullStores)
  /\ SF_vars(TickerStops) /\ WF_vars(StopReturns)

FairSpec == Spec /\ Fairness

-----------------------------------------------------------------------------
(* Properties.                                                             *)

\* The table of pools, and pull's copy of it.
Table(T) == DOMAIN T = Tags /\ \A t \in Tags : T[t] \in PoolsOf(t) \cup {None}

\* What a caller in fill keeps: a pool and slots of the tag it asked for.
IsJob(j) ==
  \/ j = NoJob
  \/ \E t \in Tags : j \in [tag : {t}, chash : BOOLEAN, old : PoolsOf(t) \cup {None},
                            slots : SUBSET Slots[t]]

\* Every variable has its type.
TypeOK ==
  /\ registry \in SUBSET Services /\ discovered \in SUBSET Services
  /\ Table(tagged) /\ Table(tbuf)
  /\ mux \in Fillers \cup {None}
  /\ life \in {"running", "stopping", "stopped"}
  /\ ticker \in {"wait", "compare", "copy", "build", "clean", "off"}
  /\ looked \in SUBSET Services
  /\ ptag \in Tags \cup {None}
  /\ pc \in [Fillers -> {"idle", "lock", "build", "clean"}]
  /\ DOMAIN job = Fillers /\ \A f \in Fillers : IsJob(job[f])
  /\ running \subseteq UNION {Clients(t) : t \in Tags}
  /\ faults \in 0 .. MaxFaults

\* The clients of tag t that some goroutine is about to stop.
BeingStopped(t) ==
  (IF ticker = "clean" /\ ptag = t
   THEN Unneeded(tbuf[t], getServices(t, looked)) ELSE {})
  \cup UNION {Unneeded(job[f].old, job[f].slots) :
              f \in {g \in Fillers : pc[g] = "clean" /\ job[g].tag = t}}

Owned(t) == running \cap Clients(t) \subseteq Held(tagged[t]) \cup BeingStopped(t)

\* Tags that are always asked for in the same way, of services that name them once.
Orderly ==
  {t \in Tags : /\ \A u, v \in Uses : u.tag = t /\ v.tag = t => u.chash = v.chash
                /\ \A slot \in Slots[t] : slot[2] = 1}

\* No client of an orderly tag leaks: one that runs is in the tag's pool or about to
\* be stopped, through rebuilds, failed connections and Stop.
NoLeak == \A t \in Orderly : Owned(t)

\* replaceTagged finalizes the clients that are not needed, whatever the tag is asked
\* for: no client that runs is out of the selector's reach.
Finalized == \A t \in Tags : Owned(t)

\* As long as the selector is not stopped, the clients of every pool in its table
\* run: no race of fill and pull stops one that the other has put there.
PoolsRun == life # "stopped" => \A t \in Tags : Held(tagged[t]) \subseteq running

\* The slots of the pools in the table.
View == [t \in Tags |-> IF tagged[t] = None THEN None ELSE DOMAIN tagged[t].clients]

\* The client of a service is connected to that service, however often it was carried
\* over from one pool to the next.
OwnService ==
  \A t \in Tags : tagged[t] # None =>
    \A slot \in DOMAIN tagged[t].clients : tagged[t].clients[slot].service = slot[1]

\* When pull has looked at all pools and no connection has failed, every pool has the
\* services that were discovered last.
PoolsCurrent ==
  ticker = "wait" /\ faults = 0 =>
    \A t \in Tags : View[t] \in {None, getServices(t, discovered)}

Abstract == INSTANCE Pools WITH known <- discovered, view <- View

\* A pool that is put in the table has the services of the last discovery: a fill that
\* read an earlier one cannot overwrite what pull has built since, nor the other way
\* round.
ServesLastDiscovery == Abstract!Spec

Owner(p, h) == search(PoolServices(p), h)
CanHash(p) == p # None /\ HasCHash(p) /\ ~IsEmpty(PoolServices(p))

\* When a pool is replaced, a key moves to another service only if its service has
\* gone or the other has come.
KeysStay ==
  [][\A t \in Tags : CanHash(tagged[t]) /\ CanHash(tagged'[t]) =>
       \A h \in Hashes :
         LET s == Owner(tagged[t], h)
             n == Owner(tagged'[t], h)
         IN \/ s = n
            \/ s \notin PoolServices(tagged'[t])
            \/ n \notin PoolServices(tagged[t])]_tagged

\* The key of an orderly tag keeps its client as well: rebuilds carry clients over.
KeysKeepClients ==
  [][\A t \in Orderly : CanHash(tagged[t]) /\ CanHash(tagged'[t]) =>
       \A h \in Hashes :
         LET c == Hashed(tagged[t], h)
             d == Hashed(tagged'[t], h)
         IN \/ c = d
            \/ c.service \notin PoolServices(tagged'[t])
            \/ d.service \notin PoolServices(tagged[t])]_tagged

\* If the services stop changing, every pool comes to have those of the registry,
\* unless a connection failed: then nothing tries again.
Converges ==
  <>[][FALSE]_registry =>
    <>[](\/ faults > 0 \/ life # "running"
         \/ \A t \in Tags : View[t] \in {None, getServices(t, registry)})

\* Every fill returns, whatever it has to wait for.
FillEnds == \A f \in Fillers : (pc[f] # "idle") ~> (pc[f] = "idle")

\* Stop returns, in whatever state it finds pull.
StopEnds == (life = "stopping") ~> (life = "stopped")

=============================================================================

# rpcng: a TLA+ development

rpcng is an RPC library in Go: a client that multiplexes calls over a few connections, a
server that runs methods in goroutines, and a selector that keeps pools of clients for the
services of a registry. This directory models its concurrent core, checks it with TLC and
proves part of it with TLAPS. All file names below without a directory are those of `src/`.

## 1. The system

| part | state | operations | interacts through |
|---|---|---|---|
| client (`client.go`, `client_request.go`) | `requestsChan`, `requestsCount`, a pool of `clientRequest`s; per connection a pending map, a reader and a writer | `Start`, `Stop`, `Request`, `Call`, `Send` | connections; the request objects, which caller, writer, reader and supervisor share |
| server (`server.go`, `server_request.go`) | `workerChain`, a pool of `serverRequest`s; per connection a `responseChan`, a reader and a writer; a goroutine per request | `Handler`, `Start`, `Serve`, `Stop` | listener and connections; the pool |
| methods (`server_method.go`) | the table of methods, fixed before `Start` | `add`, `dispatch` | called by handlers |
| plugins (`client_plugin.go`, `server_plugin.go`, `plugin/`) | lists of hooks, fixed before `Start` | `do...` | called at start, stop, dial, accept, connect, disconnect, error |
| registry plugin (`plugin/registry`), registry (`registry/`) | the service entry | `AfterStart`, `BeforeStop`; `Register`, `Deregister`, `Services` | an external service |
| selector (`selector.go`, `tagged.go`) | `discovered`, `tagged` under two mutexes | `fill` behind `Random`, `Hashed`, `RoundRobin`, `All`; `pull` on a ticker; `Stop` | starts and stops clients; the registry |
| consistent hash (`consistenthash/`) | a sorted ring | `New`, `Get`, `GetUint64` | pure |
| codecs, loggers, transport, logging and keepalive plugins | none, or a constant | | adapters to libraries |

What is hard, and what makes each part correct:

* **Client.** Three kinds of goroutine work on one `clientRequest` without a lock: its caller,
  the writer that takes it from the queue, and the reader (or, when the connection dies, the
  supervisor) that completes it. Ids are reused, objects are pooled, calls are cancelled,
  connections break in the middle of a response, and the client is stopped and started again.
  Correct: a response completes the call it answers and no other; every call that waits is
  completed, exactly once; `requestsCount` does not drift; `Stop` returns.
* **Server.** Handlers outlive the connection they serve, and even the server's `Stop`; they
  share a pool and `workerChain` with all others. Correct: no object has two users; a
  response carries the id and the result of one call and goes to the connection that call
  came from; slots are neither leaked nor given back twice; every call is answered; `Stop`
  returns.
* **Selector.** `fill`, `pull` and `Stop` replace pools under two mutexes, from snapshots.
  Correct: the clients of the pools run and are connected to the services they stand for; a
  pool has the services of the last discovery; no client is left running and forgotten.
* **Lifecycle.** Hooks fail between the steps of `Start` and `Stop`. Correct: the registry
  names a server only while it serves; hooks come in order; `Serve` and `Stop` return.
* **Consistent hash, round robin.** Correct: a lookup finds the successor on the ring; keys
  stay with their service as others come and go; an index is within bounds.

`PROJECT.json` lists every hazard at its line, with the properties that cover it.

## 2. Modules

| module | models | holds |
|---|---|---|
| `Client` | `client.go`, `client_request.go` and the client hooks | state machine, fairness, properties, the mutants the properties are tried against |
| `ClientInvariant`, `ClientProofs` | | the inductive invariant `Inv`; theorems |
| `ClientCountProofs` | | theorems about what the client counts and limits |
| `Server` | `server.go`, `server_request.go`, the outcomes of `dispatch`, and the server hooks of connections | state machine, fairness, properties, mutants |
| `Service` | | the abstract specification that `Server` implements |
| `ServerProofs` | | the inductive invariant `IInv`; theorems |
| `Lifecycle`, `LifecycleProofs` | `Start`, `Serve`, `Stop` and `Handler` of a server, their hooks, the registry plugin | state machine, fairness, properties, mutants; theorems |
| `Ring` | `consistenthash.go` | operators |
| `Tagged` | `tagged.go`, on a `Ring` | operators |
| `RingProofs` | | theorems about both |
| `Selector` | `selector.go`, over the pools of `Tagged` | state machine, fairness, properties, mutants |
| `Pools` | | the abstract specification that `Selector` implements |
| `SelectorProofs`, `SelectorRunsProofs`, `SelectorLeakProofs` | | theorems |
| `MCClient`, `MCServer`, `MCSelector` | | symmetry and constants, for TLC |

### Client

A *call* `k` is one use of `client.Request(..)...Call(ctx)` or `Send(ctx)` by one goroutine;
an *object* `r` is a `clientRequest`. `pc[k]` is the goroutine's place in `call` or `send`,
`obj[k]` its object. `owner[r]` stands for all that `Args`, `Reply` and `Request` put in
the object: it says whose call the name, arguments and reply variables are. `err[r]` and
`done[r]` are the fields of that name, `done` being a channel of capacity 1 that is `"empty"`,
has a `"token"` or is `"closed"`. `place[r]` says who holds the object; the code has no such
field, and the actions never read it except to take an object that is `"free"` from the pool.
An object that no path puts back is `"spent"`: only `Send`s and calls that were cancelled in
the queue are recycled, the object of every completed `Call` is left to the garbage collector.

A *supervisor* `i` is one of the `Connections` goroutines of `handleConnections`. `sup[i]` is
its place: `"select"` (waiting for a dial), `"drain"` (`<-dialChan` at a stop), `"backoff"`,
`"up"` (the select of `handleConnection`), `"closing"` (joining reader and writer). Reader and
writer are `rd[i]` and `wr[i]`, with their current request `rcur[i]` and `wcur[i]`.
`pending[i]` is the map. `queue[g]` is the `requestsChan` of the g-th `Start`: a caller that
evaluated the field before a restart still sends to the old one (`chan[k]`).

Every access to a channel, to the map under its lock, to `request.err` and to the connection
is a step of its own, with these exceptions, each of them invisible to other goroutines: the
objects are filled before anyone else knows them; a read of a response has two steps, its id
and the rest; a write has one. The connection is `"open"`, `"broken"` (by the peer or the
network; writes may seem to succeed) or `"closed"` (by the client). The peer knows the
requests written to it (`sent[i]`) and answers each at most once, in any order;
`ReadUnexpected` is a faulty peer. The hooks `DialServer` and `Connected` may fail. Those of
`Start` and `Stop` are not steps: one that fails returns before anything changes, or after
everything has.

### Server

`conn[c]` is a connection some client opened, `hc[c]`, `rd[c]`, `wr[c]` its
`handleConnection`, reader and writer; `acc` is `acceptConnections` and `accept` the goroutine
in `listener.Accept()`. A request is the call `k` that a client sent on `home[k]`; reading it
puts it in an object `r` of the pool and starts the handler `hd[k]`, which goes through
`"slot"` (sending to `workerChain`), `"run"`, `"respond"` (sending to `responseChan`) and
`"release"`. `input[r]` and `output[r]` name the call whose payload and result the
buffers hold, which is what tells a response with a stale result from a good one.
`outcome[k]` is what became of the call in `dispatch`, and `Result` says how much of a result
each outcome leaves in `output` and what in `err`: a method may return values and an error, a
value may be refused by the codec after others were written, an error may have no message. `workers[g]`
is the number of slots taken of the `workerChain` of the g-th start; a handler that waits for
a slot may have evaluated the field at any start since its own (`born[k]`), and one that gives
a slot back evaluates it then. `PanicSend` ends the process: everything is off afterwards.

`Server` implements `Service`, in which a request is sent, performed at most once, and, unless
it is a send, answered at most once: on the connection it came on, with its own result, with an
error if it failed with a message, and with all values if there is no error. How many requests
of that are lost is not promised there; `EveryCallAnswered` says when none is.

### Selector

A *slot* `<<s, n>>` of a tag is the n-th place of service `s` in the tag's pool: `getServices`
lists a service once for every time it names the tag. A pool maps its slots to clients and has
a consistent hash or not. A client is told apart by its slot and a name; `NewClients` takes
the clients of services that had one in the old pool (the first that the loop finds) and a
fresh one for each other slot. `running` is the set of clients that were started and not
stopped. Names of clients that nobody refers to any more are used again, which keeps the
instances finite; which unused name is taken makes no difference, so `Connections` chooses one.

Callers `f` are in `fill` (`pc[f]`: waiting for `mux`, building, cleaning up) with what they
have read in `job[f]`. The ticker's goroutine is in `pull` (`ticker`) with the registry's
answer in `looked` and its copy of the pools in `tbuf`, which it goes through in any order, as
it has them from a map. Each access under `tmu` is a step, as is the part of `replaceTagged`
before the store, together with the store: the connections it makes are invisible to others
until then. What it stops afterwards is a step of its own. The registry changes at any time.
A fast path of `fill` that succeeds changes nothing and is no step.

`Selector` implements `Pools`, in which a pool is built for the services discovered last in a
single step: `known` is `discovered`, `view` the slots of the pools in the table.

### Lifecycle

One goroutine calls `Handler`, `Start` and `Serve`, another `Stop`. `main` and `stopper` are
their places, `next` and `stopNext` the plugin whose hook they are at, `told[p]` the last hook
of plugin `p` that succeeded. `registrar` is the position of the registry plugin among the
others; `tags` is its `service.Tags` with the number of times a name is in it, `entry` what the
registry has. A call to the registry that fails may have had its effect, or not. Connections
are only counted here; `Server` has the rest of them. `early` remembers a `Stop` that came
while `Start` was still calling `AfterStart` hooks.

### Order of the rest

`Rpc`: Client and Server over the same connections, implementing an abstract service (a call is
executed at most once and returns its own result or an error). The theorems about both ends say
what each of them contributes.

## 3. What the runs show

Runs named `Client...` use `MCClient`, `Server...` use `MCServer`, `Selector...` use
`MCSelector`. The configurations of clients, servers and the lifecycle say
`CHECK_DEADLOCK FALSE`: when all calls are made and the faults are used up, these systems may
rest, or be stopped for good. A selector's registry never rests, so its runs check deadlock.

| run | instance | shows |
|---|---|---|
| `ClientSafety` | 2 calls, one cancellable, 2 objects, 1 connection, 2 starts, 1 fault, all kinds of response | `Correlated`, `OwnReply`, `NoLostCall`, `SignalOnce`, `CountExact`, and the inductive invariant `Inv` |
| `ClientConnections` | 3 calls and a send that cannot be encoded, 4 objects, 2 connections, `PendingRequests` 1, 1 fault; no cancellations or stop | `CountExact` across connections (`Correlated` is proved for any number of them); `PendingBounded`: the map holds PendingRequests + 1 requests, and the one that trips the check; `ConnectionLimit` through tear-downs and redials; `NoLateReply` |
| `ClientLive` | 2 calls, one that cannot be encoded, stop, 1 fault, both hooks failing | `CallReturns`, `TakenCallReturns`, `StopReturns` |
| `ServerSafety` | 2 calls, one that fails in every way, and a send, 2 connections, 2 objects, 1 slot, stop, panics | `OwnResponse`, `ResponseTellsOutcome`, `OneHolder`, `SlotsExact`, `ConcurrencyLimit`, `AnsweredOnce` |
| `ServerLive` | 2 calls, one that fails in every way, 1 slot, a `responseChan` of 1, stop, 1 fault, both hooks failing | `EveryCallAnswered`, `StopReturns`; `Server` implements `Service` (`Serves`) |
| `SelectorSafety` | 2 services on a ring of 5 points, one of which they share; 2 tags, one named twice by a service and asked for with and without a consistent hash; a caller, the ticker, stop | `OwnService`, `PoolsRun`, `PoolsCurrent`, `KeysKeepClients`; `Selector` implements `Pools` (`ServesLastDiscovery`) |
| `SelectorLive` | 2 services, a tag, 2 callers, the ticker, stop, a connection that fails | `NoLeak`, `Converges`, `FillEnds`, `StopEnds` |
| `Lifecycle` | 2 plugins, the registry's first or second, 2 methods, 2 starts, 2 faults | `RegisteredServes`, `EntryNamesMethods`, `HookOrder`, `ServeEnds`, `StopEnds` |

Runs that find what a document or test contradicts:

| run | the code |
|---|---|
| `ClientNilOnBreak` | a response that is cut short or cannot be decoded completes its call with `err` nil: `readFrom` signals `done` and sets no error, so `Call` returns nil without a reply. `Stop` with calls pending, and a cancellation between the two uses of `request.err` in `call`, lead to the same |
| `ServerCrash` | a panic in the method of a `Send` is not recovered |
| `ServerStuck` | a handler that waits for the full `responseChan` of a dead connection keeps its slot for ever |
| `SelectorLeak` | a `fill` that adds a consistent hash to a pool races the `pull` that replaces it: both start clients for a new service, and those of the pool that is overwritten are never stopped |

**Bounds.** `Calls` and `Requests` (objects) are few, but each object and each id is used
more than once: ids because a request leaves the map before the next is filed, objects because
sends and cancelled calls are recycled. Two calls are what correlation and ownership relate;
a third fills a queue or a map of capacity 1 behind them. `MaxFaults` bounds failed dials,
accepts, hooks and connections, broken connections and ids that are not pending; one is enough
to tear a connection down with requests in every place, two to fail a retried `Stop` after a
failed `Start`. `MaxStarts` 2 lets callers of one start meet the next. `MaxId` exceeds the
number of requests that can be in the map at a time; ids beyond it are never needed, because
`FreeId` never skips a free one. Two services are what a key can move between, and with both
on one point the order in which they are added matters. Two services come, go and come back
any number of times, as the registry is not bounded. A pool, its copy in `tbuf`, and the one a
fill works on refer to three clients of a slot at most, so `Names` of 4 always leave one. Objects, connections, and calls of
the same kind are interchangeable in the safety runs of client and server (`Symmetry`), not in
the runs with liveness properties.

**Fairness.** A goroutine that can run runs (weak fairness of each), a dial ends (the
dialer of `transport.go` has a timeout of 10 seconds), the peer of a client answers what it was
sent. In the server, methods return, and a handler that waits for a slot or a place in
`responseChan` that becomes free again and again is served (strong fairness: Go queues the
senders on a channel in their order). In the selector, callbacks return, the ticker ticks,
`mux` is handed to everyone who waits for it (strong fairness: a Go mutex does not starve), and
a select whose two cases, the ticker and `stopChan`, are ready again and again takes each of
them (strong fairness of `TickerStops`: Go chooses at random). In the lifecycle, hooks return,
and the connections of a server that stops end (`Server`'s `StopReturns`). Nothing is assumed
of contexts, faults, clients, the registry, `Start` and `Stop`. In the client a request may wait
in the queue as long as there are others before it, which needs no more than weak fairness,
the calls being finitely many.

**Assumptions that properties need.**

* `CallReturns` stops at a `Stop`: calls in the queue then, or sent to the queue of before a
  restart, do hang.
* `NoLateReply` is about calls that are not cancelled: a late response is decoded into the
  variables of a call that was.
* `ConnectionLimit` is about `Connected` hooks that succeed: when one fails, `handleConnection`
  returns without closing its connection and the supervisor dials again at once. It is also about
  clients that are not started again after a stop: a dial that ends during a stop leaves its
  connection open, beside those of the next start.
* `SlotsExact` and `ConcurrencyLimit` are about servers that are started once: `Start` replaces
  `workerChain` under the handlers that a `Stop` does not wait for.
* `EveryCallAnswered` is about servers none of whose connections ends: one that does may take
  slots with it (`ServerStuck`), also those of handlers on other connections.
* `ResponseTellsOutcome` excepts errors with an empty message, which look like success.
* `NoLeak` and `KeysKeepClients` are about tags that are always asked for in the same way, of
  services that name them once: `SelectorLeak` shows what happens to the others, and of two
  clients of one service the first is carried over and the last is the one hashed to.
* `PoolsCurrent` and `Converges` are about runs in which every connection succeeds: a pool whose
  rebuild failed is not tried again until the services change.
* `PoolsRun` is about the table. Clients that callers got from it may be stopped under them.
* `RegisteredServes`, `EntryNamesMethods` and `HookOrder` except a `Stop` during `Start`, which
  can deregister the server before `Start` registers it. `RegisteredServes` asks for an open
  listener of the first start only: `Stop` closes it, and a server that is started again
  registers itself and accepts nothing.

## 4. What is proved

All theorems hold for any values of the constants that satisfy the assumptions of the modules:
any numbers of calls, objects, connections, services, tags, slots, callers, plugins, methods and
faults, and any hash function.

| module | theorem | states |
|---|---|---|
| `ClientProofs` | `Invariance` | `Spec => []Inv` |
| | `TypeCorrect`, `Correlation`, `RepliesAreOwn`, `CallsAreKept`, `SignalledOnce` | `TypeOK`, `Correlated`, `OwnReply`, `NoLostCall`, `SignalOnce` |
| `ClientCountProofs` | `CountIsExact`, `PendingIsBounded` | `CountExact`, `PendingBounded` |
| | `ConnectionsLimited` | `ConnectionLimit`, if `Conns` is finite, no hook fails, and a client that is stopped is not started again |
| | `NoReplyIsLate` | `NoLateReply`, if no call can be cancelled |
| | `RepliesInTime` | the reply variables of a call that cannot be cancelled are written only while it waits |
| | `PhasesHold`, `CallersAwait` | `Phases`, `CallersWait`: what the last three rest on |
| `ServerProofs` | `Invariance` | `Spec => []IInv` |
| | `TypeCorrect`, `OwnResponseHolds`, `ResponseTellsOutcomeHolds`, `AnsweredOnceHolds`, `OneHolderHolds`, `SlotsExactHolds` | `TypeOK`, `OwnResponse`, `ResponseTellsOutcome`, `AnsweredOnce`, `OneHolder`, `SlotsExact` |
| | `ConcurrencyLimitHolds` | `ConcurrencyLimit`, if the server is started once (`MaxStarts = 1`) |
| | `Refinement` | `Spec => Serves`: the server implements `Service` |
| `RingProofs` | `SearchFindsNext` | the search finds the point next to the hash, clockwise |
| | `KeysStayPut` | between two sets of services a key moves only from one that has gone or to one that has come |
| | `RoundRobinInBounds`, `RoundRobinIsFair` | every use of the index up to its largest value is in bounds; n uses in a row use n clients |
| `SelectorProofs` | `TypeCorrect` | `TypeOK` |
| | `Refinement` | `Spec => ServesLastDiscovery`: the selector implements `Pools` |
| | `KeysStayInPlace` | `Spec => KeysStay`: `KeysStayPut` holds of every pool that is replaced |
| `SelectorRunsProofs` | `ClientsRun`, `Routing` | `PoolsRun`, `OwnService` |
| `SelectorLeakProofs` | `PoolsAreCurrent`, `NothingLeaks` | `PoolsCurrent`, `NoLeak` |
| | `KeysKeepTheirClients` | `Spec => KeysKeepClients` |
| | `LeakInvariance`, `PoolsAreWhatRuns` | `LeakInv`; between two rebuilds the clients of an orderly tag that run are those of its pool |
| | `MuxIsGivenBack` | `mux` is held by a fill that rebuilds a pool or cleans up after it |
| `LifecycleProofs` | `TypeCorrect`, `Registration`, `EntryNames`, `HooksInOrder` | `TypeOK`, `RegisteredServes`, `EntryNamesMethods`, `HookOrder` |

None of the properties of the client is inductive. That the response found under an id is its
own call's needs that the object under that id was not recycled since the request was written,
which needs that whoever recycles it holds it alone. `Inv` therefore states an ownership
discipline (`Ownership`): an object is held by one of the pool, its caller, a queue, a pending
map, a reader or, for a `Send`, a writer; each container holds an object once and only objects
labelled with its name (`QueuesHold`, `PendingHold`, `ReadersHold`, `WritersHold`), and each
label tells the truth (`LabelsTrue`). An object that is held has an empty `done`
(`ObjectsClean`), a waiting caller's object is held or done (`CallersOwn`). `LifeCycle` adds
that goroutines of a connection exist only while their supervisor runs it. The proof has one
lemma for each action that moves an object from one holder to the next; all other actions
leave objects and containers alone, a fact they share (`Frame`), and `FrameInv` shows once that
such a step preserves everything. `Inv` is checked by TLC in `ClientSafety` as well.

What the client counts and limits (`ClientCountProofs`) is not inductive beside `Inv` either.
`requestsCount` counts what is filed in the pending maps as long as that is a finite set
(`Counted`), however many connections there are. That a map keeps its bound needs that the map is
empty when a writer starts, and so that whoever ends a connection has taken everything from it
(`MapsEmpty`). Connections are limited because each is opened for a supervisor that holds none:
`Phases` says at which places of `handleConnections` a supervisor has a dial under way or a
connection, and `OpenInv` counts the occupied ones. The theorem needs its hypotheses. A connection
that a `Connected` hook refuses, and one that was dialled when `Stop` came, are dropped without
being closed; the first adds one each time it happens, the second stays open beside those of the
next start. That no reply is late follows from `CallersWait`: a caller that cannot be cancelled
has no way to leave while its object is held by a queue, a map or a reader. One that can be
cancelled has, and a reader that holds its object then writes to variables the caller has again.

The server's `IInv` is of the same kind. An object is free, dropped, or of use to one request:
its handler's, in the `responseChan` of the connection the request came on, or its writer's
(`ObjectsHold`), and each of those holds what the label of the object says (`HandlersHold`,
`QueuesHold`, `WritersHold`). `OneEach` says that no two objects are of use to the same request,
so what is written bears an id that nothing else will bear again (`WireHolds`). An object that is
free has no result of an earlier use, and one on its way back has its own call's (`Ready`): from
that follows what a response tells. `HandlersHold` also bounds `born` by `gen`, so the slots that
handlers take are those of chains that exist, and as long as there is one chain `SlotsExact` is
inductive with the finiteness of `Running`. `ConcurrencyLimit` follows from it, and only for one
start: after a restart handlers of the old server run besides those of the new one. `Frame0`,
`FrameObj` and `OthersFrame` deal with all steps that move no object at once; each of the others
has a lemma.

The server's state has what `Service` speaks of in it: `home`, `outcome` and `wire` are its
`sent`, `done` and `answers`. `ClientSends` maps to `Send`, `Dispatch` and `DispatchSend` to
`Perform`, a `Write` on an open connection to `Answer`, and all other steps to stuttering. That
`Perform` is enabled needs that nothing has become of a request whose method has not been called
(`NotYet`); that `Answer` is, that an object in use is of no request that has been answered
(`WireHolds`).

The refinement of the selector rests on who may change what. A `fill` builds from the discovery
it has read, which is still the last one because `fill` holds `mux` (`Holders`,
`BuildsCurrent`) and `pull` stores under `mux`; `pull` builds from the discovery it stored,
because nobody else stores any (`PullsCurrent`). A step that stores a pool then maps to `Serve`
of `Pools`, the step that stores services to `Discover`, `StopReturns` to `Clear`, and all others
to stuttering.

That clients in the table run (`ClientsRun`) is not obvious, as `fill` and `pull` stop clients
without a look at what the other has built. What saves it is that both stop clients of services
that are not in the last discovery, and that neither puts such a client into a pool. `RunInv`
says so in its parts: every client is connected to its slot's service wherever a pool is kept
(`AllRouted`); a pool that somebody cleans up after has the slots of the last discovery
(`PullStage`, `FillStage`); and the clients that a rebuild would carry over are running, in
`pull`'s copies and in what `fill` rebuilds as well as in the table (`KeptRun`).

That all pools are of the last discovery when `pull` has ended (`PoolsAreCurrent`) holds because
`pull` drops a pool from its copy only when it has the right slots, when it has replaced it, or when
a connection has failed: until then the copy is what is in the table or a fill has brought the pool
up to date meanwhile (`PullProgress`).

No client leaks where a tag is *orderly*: all callers want its consistent hash or none does, and
each service has it once. Then a pool that is there suits everybody (`SuitsAll`), so `fill` builds
only a tag's first pool, with connections that are all new (`FillsFirst`), and what `pull` has
copied is still in the table when it replaces it (`CopyIsPool`): no two goroutines ever rebuild the
same pool, and the clients that drop out of the table are those that are about to be stopped
(`Accounted`). `CarriesOver` shows the sequential half of it, that the clients of the old pool are in
the new one or not needed. `SelectorLeak` shows that tags that are not orderly do leak. Together with
`KeptRun` the clients that run are those of the pools. That a key keeps its client is
`KeysStayPut` for its service, and for its client that the step that replaces a pool of an orderly
tag carries over every slot that stays (`SlotsKeepClients`).

The invariant of the lifecycle relates how far `Start` and `Stop` are to `stopChan` (`Phases`),
and both to the entry (`Entry`), the tags (`TagNames`) and the hooks each plugin has been told
of (`Told`), for as long as no `Stop` came during `Start`.

Every invariant and every safety action property that a passing run checks is a theorem. Only
model-checked are the liveness properties (`CallReturns`, `TakenCallReturns`, `StopReturns`,
`EveryCallAnswered`, `Converges`, `FillEnds`, `StopEnds`, `ServeEnds`): the provers have no rule for
fairness and `ENABLED`. `MuxIsGivenBack` proves the safety half of `FillEnds`.

## 5. Not modelled

* Two goroutines that call `Start` or `Stop` at a time, except one `Stop` during `Start` in
  `Lifecycle`; `Plugin`, which is called before `Start`.
* The composition of client and server, and of the selector with real clients: in each module the
  other side is environment.
* The bytes of frames: a read fails or yields a request or a response, a write fails or not. The
  reflection that makes a method of a Go value.
* Objects that the pool drops (`sync.Pool` may): an object that is never taken again is covered
  by one that stays `"free"`.
* The client's hooks of `Start` and `Stop`: one that fails returns before anything changes, or
  after everything has. The hooks `Disconnected`, `ClientDisconnected` and `ErrorHandle`, whose
  results nobody reads.
* `StartClient`, `StopClient` and `OnDiscovered` of the selector, which set callbacks;
  `Random`, which takes any client; `Get` of the consistent hash, which nothing uses.
* The keepalive plugin, a condition on a constant: its `>= 0` contradicts the comment above the
  constructor, by which a positive period turns keep alive on.
* Codecs, loggers, transport, the logging plugins and the consul client, adapters without state
  of their own. That `msgp` decodes an int16 it cannot encode is a matter of types, not of
  states.

------------------------------ MODULE Lifecycle ------------------------------
(***************************************************************************)
(* Starting and stopping a server with plugins, one of which keeps the     *)
(* server's entry in the service registry (server.go, server_plugin.go,    *)
(* server_method.go, plugin/registry/server.go).                           *)
(*                                                                         *)
(* One goroutine adds handlers and calls Start or Serve; another calls     *)
(* Stop, at any time after stopChan is made, also while the AfterStart     *)
(* hooks of Start still run.  Both may call again.  Hooks are called in    *)
(* the order of the plugins and the first that fails ends the call.  A     *)
(* plugin without some hook is one whose hook does nothing.                *)
(*                                                                         *)
(* The registry is an external service: it keeps an entry with tags, and a *)
(* call to it that fails may have had its effect.                          *)
(***************************************************************************)
EXTENDS Integers

CONSTANTS
  Plugins,     \* the number of plugins, called in the order 1, 2, ...
  Methods,     \* the names of methods
  MaxHandlers, \* bound: how often Handler is called
  MaxStarts,   \* bound: how often the server is launched
  MaxConns,    \* bound: connections at a time
  MaxFaults,   \* bound: hooks, calls to the registry and accepts that fail
  None         \* no entry

ASSUME LifecycleAssumption ==
  /\ Plugins \in Nat \ {0}
  /\ {MaxHandlers, MaxStarts, MaxConns, MaxFaults} \subseteq Nat

VARIABLES
  registrar,   \* which plugin is the registry plugin
  unspecified, \* whether the listener's address is 0.0.0.0 or ::
  names,       \* serverMethods.names, how often each name is in it
  stopChan,    \* "nil", "open" or "closed"
  listener,    \* "open" or "closed"
  accept,      \* acceptConnections: "none", "running" or "pausing"
  conns,       \* the connections of stopWg
  main,        \* where Start or Serve is
  next,        \* the plugin whose hook it calls next
  stopper,     \* where Stop is
  stopNext,    \* the plugin whose hook it calls next
  tags,        \* the registry plugin's service.Tags, how often each name is in it
  entry,       \* the entry of the server in the registry: its tags, or None
  told,        \* the hook of each plugin that succeeded last
  early,       \* whether Stop was ever called before Start returned
  handlers,    \* calls of Handler so far
  launches,    \* launches so far
  faults       \* failures so far

server == <<names, stopChan, listener, accept, conns>>
fixed == <<registrar, unspecified>>
starting == <<main, next>>
stopping == <<stopper, stopNext>>
registered == <<tags, entry>>
count == <<handlers, launches, faults>>
vars == <<fixed, server, starting, stopping, registered, told, early, count>>

-----------------------------------------------------------------------------
Init ==
  /\ registrar \in 1 .. Plugins /\ unspecified \in BOOLEAN
  /\ names = [m \in Methods |-> 0]
  /\ stopChan = "nil" /\ listener = "open" /\ accept = "none" /\ conns = 0
  /\ main = "idle" /\ next = 1 /\ stopper = "idle" /\ stopNext = 1
  /\ tags = [m \in Methods |-> 0] /\ entry = None
  /\ told = [p \in 1 .. Plugins |-> "AfterStop"]
  /\ early = FALSE
  /\ handlers = 0 /\ launches = 0 /\ faults = 0

Fault == faults < MaxFaults /\ faults' = faults + 1

\* Mutant: the loop over the hooks goes one too far.
MoreHooksThanPlugins(n) == n <= Plugins + 1

\* The loop over the hooks of one kind is at a plugin.
MoreHooks(n) == n <= Plugins

Tell(p, hook) == told' = [told EXCEPT ![p] = hook]

\* Mutant: methods can be added to a server that runs.
NotStartedForgotten == TRUE

NotStarted == stopChan = "nil"

\* Handler: the names of its methods are added, one that is known already once more.
Handler(S) ==
  /\ main = "idle" /\ NotStarted
  /\ handlers < MaxHandlers /\ handlers' = handlers + 1
  /\ names' = [m \in Methods |-> names[m] + IF m \in S THEN 1 ELSE 0]
  /\ UNCHANGED <<fixed, stopChan, listener, accept, conns, starting, stopping, registered,
                 told, early, launches, faults>>

-----------------------------------------------------------------------------
(* Start and Serve.                                                        *)

startUnch == UNCHANGED <<fixed, names, listener, conns, stopping, early>>

\* Start on a server that has been started, or has no methods, changes nothing.
StartCalled ==
  /\ main = "idle" /\ stopChan = "nil" /\ \E m \in Methods : names[m] > 0
  /\ launches < MaxStarts
  /\ main' = "BeforeStart" /\ next' = 1
  /\ UNCHANGED <<stopChan, accept, registered, told, count>> /\ startUnch

BeforeStart ==
  /\ main = "BeforeStart" /\ MoreHooks(next)
  /\ Tell(next, "BeforeStart") /\ next' = next + 1
  /\ UNCHANGED <<stopChan, accept, main, registered, count>> /\ startUnch

BeforeStartFails ==
  /\ main = "BeforeStart" /\ MoreHooks(next)
  /\ Fault
  /\ main' = "idle"
  /\ UNCHANGED <<stopChan, accept, next, registered, told, handlers, launches>> /\ startUnch

\* stopChan is made and acceptConnections started.
Launch ==
  /\ main = "BeforeStart" /\ ~MoreHooks(next)
  /\ stopChan' = "open" /\ accept' = "running"
  /\ main' = "AfterStart" /\ next' = 1
  /\ launches' = launches + 1
  /\ UNCHANGED <<registered, told, handlers, faults>> /\ startUnch

\* The registry plugin appends all methods to its tags, at every start.
Tagged == [m \in Methods |-> tags[m] + names[m]]

AfterStart ==
  /\ main = "AfterStart" /\ MoreHooks(next)
  /\ IF next = registrar
     THEN ~unspecified /\ tags' = Tagged /\ entry' = tags'
     ELSE UNCHANGED registered
  /\ Tell(next, "AfterStart") /\ next' = next + 1
  /\ UNCHANGED <<stopChan, accept, main, count>> /\ startUnch

\* Start returns the error of the hook, with the server running.
AfterStartFails ==
  /\ main = "AfterStart" /\ MoreHooks(next)
  /\ \/ next # registrar /\ Fault /\ UNCHANGED registered
     \/ next = registrar /\ unspecified /\ UNCHANGED <<registered, faults>>
     \/ next = registrar /\ ~unspecified /\ Fault
        /\ tags' = Tagged /\ entry' \in {entry, tags'}
  /\ main' = "idle"
  /\ UNCHANGED <<stopChan, accept, next, told, handlers, launches>> /\ startUnch

\* Start returns, or Serve goes on to wait.
StartReturns ==
  /\ main = "AfterStart" /\ ~MoreHooks(next)
  /\ main' \in {"idle", "serving"}
  /\ UNCHANGED <<stopChan, accept, next, registered, told, count>> /\ startUnch

\* stopWg.Wait()
Done == accept = "none" /\ conns = 0

ServeReturns ==
  /\ main = "serving" /\ Done
  /\ main' = "idle"
  /\ UNCHANGED <<stopChan, accept, next, registered, told, count>> /\ startUnch

-----------------------------------------------------------------------------
(* acceptConnections and the connections.                                  *)

acceptUnch ==
  UNCHANGED <<fixed, names, stopChan, starting, stopping, registered, told, early,
              handlers, launches>>

Accept ==
  /\ accept = "running" /\ listener = "open"
  /\ conns < MaxConns /\ conns' = conns + 1
  /\ UNCHANGED <<listener, accept, faults>> /\ acceptUnch

\* Accept fails, on a listener that is closed always, or the hook for it does.
AcceptFails ==
  /\ accept = "running"
  /\ \/ listener = "closed" /\ UNCHANGED faults
     \/ Fault
  /\ accept' = "pausing"
  /\ UNCHANGED <<listener, conns>> /\ acceptUnch

AcceptAgain ==
  /\ accept = "pausing"
  /\ accept' = "running"
  /\ UNCHANGED <<listener, conns, faults>> /\ acceptUnch

\* Mutant: stopChan is not looked at during the pause.
StopSeenOnlyInSelect ==
  /\ accept = "running" /\ listener' = "closed"
  /\ accept' = "none"

\* The first select closes the listener, the one during the pause does not.
StopSeen ==
  /\ \/ accept = "running" /\ listener' = "closed"
     \/ accept = "pausing" /\ UNCHANGED listener
  /\ accept' = "none"

AcceptStops ==
  /\ stopChan = "closed" /\ StopSeen
  /\ UNCHANGED <<conns, faults>> /\ acceptUnch

\* A connection ends, at the latest when the server stops.
ConnectionEnds ==
  /\ conns > 0 /\ conns' = conns - 1
  /\ UNCHANGED <<listener, accept, faults>> /\ acceptUnch

-----------------------------------------------------------------------------
(* Stop.                                                                   *)

stopUnch == UNCHANGED <<fixed, names, listener, accept, conns, starting, tags,
                      handlers, launches>>

\* Mutant: stopChan is closed before the BeforeStop hooks.
StopClosesFirst == stopChan' = "closed"

\* The BeforeStop hooks come first.
StopTellsFirst == UNCHANGED stopChan

StopCalled ==
  /\ stopper = "idle" /\ stopChan # "nil"
  /\ stopper' = "BeforeStop" /\ stopNext' = 1
  /\ early' = (early \/ main = "AfterStart")
  /\ StopTellsFirst
  /\ UNCHANGED <<entry, told, faults>> /\ stopUnch

BeforeStop ==
  /\ stopper = "BeforeStop" /\ MoreHooks(stopNext)
  /\ entry' = IF stopNext = registrar THEN None ELSE entry
  /\ Tell(stopNext, "BeforeStop") /\ stopNext' = stopNext + 1
  /\ UNCHANGED <<stopChan, stopper, early, faults>> /\ stopUnch

\* Mutant: the deferred reset of stopChan covers the BeforeStop hooks as well.
StaysStartedForgotten == stopChan' = "nil"

StaysStarted == UNCHANGED stopChan

\* Stop returns the error of the hook, with the server running; the registry may have
\* dropped the entry.
BeforeStopFails ==
  /\ stopper = "BeforeStop" /\ MoreHooks(stopNext)
  /\ Fault
  /\ \/ UNCHANGED entry
     \/ stopNext = registrar /\ entry' = None
  /\ stopper' = "idle"
  /\ StaysStarted
  /\ UNCHANGED <<stopNext, told, early>> /\ stopUnch

StopCloses ==
  /\ stopper = "BeforeStop" /\ ~MoreHooks(stopNext)
  /\ stopChan' = "closed"
  /\ stopper' = "waiting"
  /\ UNCHANGED <<stopNext, entry, told, early, faults>> /\ stopUnch

StopWaits ==
  /\ stopper = "waiting" /\ Done
  /\ stopper' = "AfterStop" /\ stopNext' = 1
  /\ UNCHANGED <<stopChan, entry, told, early, faults>> /\ stopUnch

AfterStop ==
  /\ stopper = "AfterStop" /\ MoreHooks(stopNext)
  /\ Tell(stopNext, "AfterStop") /\ stopNext' = stopNext + 1
  /\ UNCHANGED <<stopChan, stopper, entry, early, faults>> /\ stopUnch

\* Stop returns, with the error of a hook or without one: stopChan is nil again.
StopReturns ==
  /\ stopper = "AfterStop"
  /\ \/ MoreHooks(stopNext) /\ Fault
     \/ ~MoreHooks(stopNext) /\ UNCHANGED faults
  /\ stopper' = "idle" /\ stopChan' = "nil"
  /\ UNCHANGED <<stopNext, entry, told, early>> /\ stopUnch

-----------------------------------------------------------------------------
StartRuns ==
  BeforeStart \/ BeforeStartFails \/ Launch \/ AfterStart \/ AfterStartFails \/ StartReturns

StopRuns ==
  BeforeStop \/ BeforeStopFails \/ StopCloses \/ StopWaits \/ AfterStop \/ StopReturns

Next ==
  \/ \E S \in SUBSET Methods \ {{}} : Handler(S)
  \/ StartCalled \/ StartRuns \/ ServeReturns
  \/ Accept \/ AcceptFails \/ AcceptAgain \/ AcceptStops \/ ConnectionEnds
  \/ StopCalled \/ StopRuns

Spec == Init /\ [][Next]_vars

\* Hooks return, goroutines run, the pause and the connections of a server that stops
\* come to an end, and a select whose stopChan is closed takes it in the end.
Fairness ==
  /\ WF_vars(StartRuns) /\ WF_vars(ServeReturns) /\ WF_vars(StopRuns)
  /\ WF_vars(AcceptStops) /\ WF_vars(AcceptAgain)
  /\ WF_vars(stopChan = "closed" /\ ConnectionEnds)

FairSpec == Spec /\ Fairness

-----------------------------------------------------------------------------
(* Properties.                                                             *)

Hooks == {"BeforeStart", "AfterStart", "BeforeStop", "AfterStop"}

\* Every variable has its type.
TypeOK ==
  /\ registrar \in 1 .. Plugins /\ unspecified \in BOOLEAN
  /\ names \in [Methods -> Nat] /\ tags \in [Methods -> Nat]
  /\ entry \in [Methods -> Nat] \/ entry = None
  /\ stopChan \in {"nil", "open", "closed"} /\ listener \in {"open", "closed"}
  /\ accept \in {"none", "running", "pausing"} /\ conns \in 0 .. MaxConns
  /\ main \in {"idle", "BeforeStart", "AfterStart", "serving"} /\ next \in 1 .. Plugins + 1
  /\ stopper \in {"idle", "BeforeStop", "waiting", "AfterStop"} /\ stopNext \in 1 .. Plugins + 1
  /\ told \in [1 .. Plugins -> Hooks] /\ early \in BOOLEAN
  /\ handlers \in 0 .. MaxHandlers /\ launches \in 0 .. MaxStarts
  /\ faults \in 0 .. MaxFaults

\* Clients that find the server in the registry find it serving: through hooks that
\* fail, calls to the registry that are lost and retried Stops, an entry is there only
\* while connections are accepted.  Excepted are a Stop during Start, which can leave
\* the entry of a stopped server behind, and the listener of a server that is started
\* again, which is closed.
RegisteredServes ==
  entry # None /\ ~early =>
    /\ stopChan = "open" /\ accept # "none"
    /\ launches = 1 => listener = "open"

\* The entry of a server names all of its methods, whatever was added between two
\* starts.
EntryNamesMethods ==
  entry # None /\ ~early => \A m \in Methods : entry[m] > 0 <=> names[m] > 0

\* What may follow the last hook of a plugin that succeeded, when others may have
\* failed since.
Following ==
  [AfterStop   |-> {"BeforeStart"},
   BeforeStart |-> {"AfterStart", "BeforeStop"},
   AfterStart  |-> {"BeforeStop"},
   BeforeStop  |-> {"AfterStop", "BeforeStart"}]

\* A plugin that was started is not started again, nor told that the server has
\* stopped, before it was told to stop, unless Stop was called during Start.
HookOrder ==
  [][~early' => \A p \in 1 .. Plugins : told'[p] # told[p] => told'[p] \in Following[told[p]]]_vars

\* Serve returns once the server has been told to stop.
ServeEnds == (main = "serving" /\ stopChan = "closed") ~> (main # "serving")

\* Stop returns, also when it was called during Start.
StopEnds == (stopper # "idle") ~> (stopper = "idle")

=============================================================================

---------------------------- MODULE ServerProofs ----------------------------
(***************************************************************************)
(* Theorems about the Server, for any numbers of connections, requests,    *)
(* objects, slots, starts and faults and any outcomes of methods: its      *)
(* type, that no object has two holders, that responses are those of their *)
(* calls, say what became of them and are written once, and that slots are *)
(* neither leaked nor given back twice.                                    *)
(***************************************************************************)
EXTENDS Server, FiniteSetTheorems, TLAPS

-----------------------------------------------------------------------------
(* The invariant.                                                          *)

\* Goroutines of a connection exist only while its handleConnection is past its hooks,
\* and that is started once.
Phases ==
  /\ gen = 0 => acc = "off" /\ accept = "none" /\ \A c \in Conns : hc[c] = "off"
  /\ \A c \in Conns :
       /\ conn[c] \in {"none", "backlog"} \/ accept = c => hc[c] = "off"
       /\ accept = c => conn[c] \notin {"none", "backlog"}
       /\ hc[c] \in {"off", "start"} => rd[c] = "off" /\ wr[c] = "off"

\* Nothing is left of a process that has crashed.
Crashed ==
  life = "crashed" =>
    /\ \A c \in Conns : conn[c] = "closed" /\ hc[c] = "off"
    /\ \A k \in Calls : hd[k] = "done"
    /\ acc = "off" /\ accept = "none"

\* A request that has not been read is on its way on the connection it was sent on.
InboxHolds ==
  /\ \A k \in Calls : home[k] = Nil /\ life # "crashed" => hd[k] = "none"
  /\ \A c \in Conns : \A n \in 1 .. Len(inbox[c]) :
       /\ home[inbox[c][n]] = c
       /\ life # "crashed" => hd[inbox[c][n]] = "none"
  /\ \A c \in Conns : \A m, n \in 1 .. Len(inbox[c]) : inbox[c][m] = inbox[c][n] => m = n

\* A handler knows its connection, and has its object until it passes it on.
HandlersHold ==
  \A k \in Calls :
    /\ hd[k] \in {"slot", "run", "respond", "release"} =>
         home[k] \in Conns /\ born[k] >= 1 /\ born[k] <= gen
    /\ hd[k] \in {"slot", "run", "respond"} =>
         /\ hobj[k] \in Requests
         /\ place[hobj[k]] = "handler" /\ input[hobj[k]] = k
         /\ id[hobj[k]] = IF k \in Sends THEN NoId ELSE k

\* The object holds the response to the Call it was read for.
Ready(r) ==
  /\ input[r] \in Calls \ Sends /\ id[r] = input[r]
  /\ outcome[input[r]] \in AllOutcomes
  /\ output[r] = [of     |-> input[r],
                  values |-> Result(outcome[input[r]]).values,
                  err    |-> Result(outcome[input[r]]).err]

\* An object is what its label says: without a result of an earlier use when it is
\* free or its method has not been called, and with its call's result afterwards.
ObjectHolds(r) ==
  /\ place[r] = "free" => output[r] = Nil
  /\ place[r] = "handler" =>
       /\ input[r] \in Calls
       /\ hd[input[r]] \in {"slot", "run", "respond"} /\ hobj[input[r]] = r
       /\ hd[input[r]] \in {"slot", "run"} => output[r] = Nil
       /\ hd[input[r]] = "respond" => Ready(r)
  /\ place[r] \in {"queue", "writer"} =>
       Ready(r) /\ hd[input[r]] \in {"release", "done"} /\ home[input[r]] \in Conns
  /\ place[r] = "queue" => \E n \in 1 .. Len(resp[home[input[r]]]) : Queues(home[input[r]], n, r)
  /\ place[r] = "writer" => Writes(home[input[r]], r)

ObjectsHold == \A r \in Requests : ObjectHolds(r)

\* A responseChan has objects of its connection's requests, each of them once.
QueuesHold ==
  \A c \in Conns :
    /\ Len(resp[c]) <= PendingResponses
    /\ \A n \in 1 .. Len(resp[c]) :
         place[resp[c][n]] = "queue" /\ home[input[resp[c][n]]] = c
    /\ \A m, n \in 1 .. Len(resp[c]) : resp[c][m] = resp[c][n] => m = n

\* And so has a writer.
WritersHold ==
  \A c \in Conns : wr[c] = "write" =>
    wcur[c] \in Requests /\ place[wcur[c]] = "writer" /\ home[input[wcur[c]]] = c

InUse(r) == place[r] \in {"handler", "queue", "writer"}

\* No two objects are in use for one request.
OneEach == \A q, r \in Requests : InUse(q) /\ InUse(r) /\ input[q] = input[r] => q = r

\* What has been written is the response of a Call that is no longer worked on.
Written(c, f) ==
  /\ f.id \in Calls \ Sends /\ home[f.id] = c /\ f.result = f.id
  /\ outcome[f.id] \in AllOutcomes
  /\ f.values = Result(outcome[f.id]).values
  /\ f.failed <=> Result(outcome[f.id]).err = "message"
  /\ hd[f.id] \in {"release", "done"}
  /\ \A r \in Requests : InUse(r) => input[r] # f.id

WireHolds == \A c \in Conns : \A n \in 1 .. Len(wire[c]) : Written(c, wire[c][n])

ObjInv ==
  /\ InboxHolds /\ HandlersHold /\ ObjectsHold /\ QueuesHold /\ WritersHold
  /\ OneEach /\ WireHolds /\ AnsweredOnce

\* The slots of later starts are free; those of the first are counted.
SlotsInv ==
  /\ \A g \in Gens : g > gen => workers[g] = 0
  /\ IsFiniteSet(Running)
  /\ SlotsExact

\* What becomes of a request is settled when its method is called.
NotYet == \A k \in Calls : hd[k] \in {"none", "slot", "run"} => outcome[k] = "none"

IInv == TypeOK /\ Phases /\ Crashed /\ ObjInv /\ SlotsInv /\ NotYet


-----------------------------------------------------------------------------
(* Every step keeps the type.                                              *)

\* Sequences: what Append, Head and Tail do.
LEMMA SeqFacts ==
  ASSUME NEW S, NEW s \in Seq(S), NEW e \in S
  PROVE  /\ Append(s, e) \in Seq(S) /\ Len(Append(s, e)) = Len(s) + 1
         /\ \A n \in 1 .. Len(s) + 1 : Append(s, e)[n] = IF n <= Len(s) THEN s[n] ELSE e
         /\ s # <<>> => /\ Head(s) \in S /\ Head(s) = s[1] /\ Tail(s) \in Seq(S)
                        /\ Len(s) \in Nat \ {0} /\ Len(Tail(s)) = Len(s) - 1
                        /\ \A n \in 1 .. Len(Tail(s)) : Tail(s)[n] = s[n + 1]
OBVIOUS

\* A counter below its bound may be incremented.
LEMMA CounterType ==
  /\ \A n \in 0 .. MaxFaults : n < MaxFaults => n + 1 \in 0 .. MaxFaults
  /\ \A n \in 0 .. MaxStarts : n < MaxStarts => n + 1 \in 0 .. MaxStarts
  /\ \A n \in 0 .. Concurrency : n < Concurrency => n + 1 \in 0 .. Concurrency
  /\ \A n \in 0 .. Concurrency : n > 0 => n - 1 \in 0 .. Concurrency
  /\ \A m, n \in 0 .. MaxStarts : m >= 1 => m .. n \subseteq Gens
  /\ 0 \in 0 .. Concurrency
BY BoundsAssumption DEF Gens

\* The steps of acceptConnections and of Start and Stop.
LEMMA ListenerType == ASSUME TypeOK, Listener PROVE TypeOK'
<1> USE CounterType DEF TypeOK, accUnch, accVars, connVars, wrVars, handlerVars, objVars
<1>1. CASE Start BY <1>1 DEF Start
<1>2. CASE Stop BY <1>2 DEF Stop
<1>3. CASE StopReturn BY <1>3 DEF StopReturn
<1>4. CASE AcceptError
  <2>1. faults' \in 0 .. MaxFaults BY <1>4 DEF AcceptError
  <2> QED BY <1>4, <2>1 DEF AcceptError
<1>5. CASE AcceptStop BY <1>5 DEF AcceptStop
<1>6. CASE DrainAccept BY <1>6 DEF DrainAccept
<1>7. CASE AcceptFailed
  <2>1. faults' \in 0 .. MaxFaults BY <1>7 DEF AcceptFailed
  <2> QED BY <1>7, <2>1 DEF AcceptFailed
<1>8. CASE AcceptAgain BY <1>8 DEF AcceptAgain
<1>9. CASE BackoffStop BY <1>9 DEF BackoffStop
<1>10. ASSUME NEW c \in Conns, Accept(c) PROVE TypeOK' BY <1>10 DEF Accept
<1>11. ASSUME NEW c \in Conns, Accepted(c) PROVE TypeOK' BY <1>11 DEF Accepted
<1> QED BY <1>1, <1>2, <1>3, <1>4, <1>5, <1>6, <1>7, <1>8, <1>9, <1>10, <1>11 DEF Listener

\* The steps of handleConnection.
LEMMA ConnectionType == ASSUME TypeOK, NEW c \in Conns, Connection(c) PROVE TypeOK'
<1> USE CounterType DEF TypeOK, hcUnch, Close, accVars, connVars, wrVars, handlerVars, objVars
<1>1. CASE ClientConnectedFailed(c) BY <1>1 DEF ClientConnectedFailed
<1>2. CASE ClientConnected(c) BY <1>2 DEF ClientConnected
<1>3. CASE ReaderDone(c) BY <1>3 DEF ReaderDone
<1>4. CASE WriterDone(c) BY <1>4 DEF WriterDone
<1>5. CASE StopConnection(c) BY <1>5 DEF StopConnection
<1>6. CASE JoinReader(c) BY <1>6 DEF JoinReader
<1>7. CASE JoinWriter(c) BY <1>7 DEF JoinWriter
<1>8. CASE Disconnected(c) BY <1>8 DEF Disconnected
<1> QED BY <1>1, <1>2, <1>3, <1>4, <1>5, <1>6, <1>7, <1>8 DEF Connection

\* The steps of readers and writers.
LEMMA ReaderType == ASSUME TypeOK, NEW c \in Conns, Reader(c) PROVE TypeOK'
<1> USE DEF TypeOK, accVars, connVars, wrVars, handlerVars, objVars
<1>1. CASE ReadFail(c) BY <1>1 DEF ReadFail
<1>2. ASSUME NEW r \in Requests, ReadRequest(c, r) PROVE TypeOK'
  <2> DEFINE k == Head(inbox[c])
  <2>1. k \in Calls /\ Tail(inbox[c]) \in Seq(Calls) BY <1>2 DEF ReadRequest
  <2>2. inbox' \in [Conns -> Seq(Calls)] BY <1>2, <2>1 DEF ReadRequest
  <2> HIDE DEF k
  <2>3. id' \in [Requests -> Calls \cup {NoId}] /\ input' \in [Requests -> Calls \cup {Nil}]
    BY <1>2, <2>1 DEF ReadRequest, k
  <2>4. hd' \in [Calls -> {"none", "slot", "run", "respond", "release", "done"}]
        /\ hobj' \in [Calls -> Requests \cup {Nil}] /\ born' \in [Calls -> 0 .. MaxStarts]
    BY <1>2, <2>1 DEF ReadRequest, k
  <2>5. place' \in [Requests -> {"free", "handler", "queue", "writer", "spent"}]
    BY <1>2 DEF ReadRequest
  <2> QED BY <1>2, <2>2, <2>3, <2>4, <2>5 DEF ReadRequest
<1> QED BY <1>1, <1>2 DEF Reader

\* What dispatch leaves in an object.
LEMMA ResultType ==
  ASSUME NEW o \in AllOutcomes
  PROVE  /\ Result(o).values \in {"none", "some", "all"}
         /\ Result(o).err \in {"none", "message", "empty"}
         /\ Result(o).err = "message" <=> o \notin {"ok", "errorEmpty"}
         /\ Result(o).err # "message" => Result(o).values = "all"
BY DEF Result, AllOutcomes

\* The steps of writers.
LEMMA WriterType ==
  ASSUME TypeOK, ObjectsHold, WritersHold, NEW c \in Conns, Writer(c) PROVE TypeOK'
<1> USE DEF TypeOK, wrUnch, accVars, connVars, wrVars, handlerVars, objVars
<1>1. CASE WriteStop(c) BY <1>1 DEF WriteStop
<1>2. CASE Dequeue(c)
  <2>1. Head(resp[c]) \in Requests /\ Tail(resp[c]) \in Seq(Requests) BY <1>2 DEF Dequeue
  <2> QED BY <1>2, <2>1 DEF Dequeue
<1>3. CASE Write(c)
  <2> DEFINE r == wcur[c]
             Frames == [id : Calls \cup {NoId}, result : Calls,
                        values : {"none", "some", "all"}, failed : BOOLEAN]
  <2>1. r \in Requests /\ place[r] = "writer" BY <1>3 DEF Write, WritersHold
  <2>2. Ready(r) BY <2>1 DEF ObjectsHold, ObjectHolds
  <2>3. /\ output[r].of \in Calls /\ output[r].values \in {"none", "some", "all"}
        /\ id[r] \in Calls
    BY <2>2, ResultType DEF Ready
  <2>4. Frame(r) \in Frames BY <2>3 DEF Frame
  <2>5. wire' \in [Conns -> Seq(Frames)]
    <3> HIDE DEF Frames
    <3>1. wire \in [Conns -> Seq(Frames)] BY DEF Frames
    <3>2. CASE conn[c] = "open"
      <4>1. wire' = [wire EXCEPT ![c] = Append(@, Frame(r))] BY <1>3, <3>2 DEF Write
      <4> QED BY <2>4, <3>1, <4>1
    <3>3. CASE conn[c] # "open" BY <1>3, <3>1, <3>3 DEF Write
    <3> QED BY <3>2, <3>3
  <2>6. /\ place' \in [Requests -> {"free", "handler", "queue", "writer", "spent"}]
        /\ id' \in [Requests -> Calls \cup {NoId}] /\ input' \in [Requests -> Calls \cup {Nil}]
        /\ output' \in [Requests -> [of : Calls, values : {"none", "some", "all"},
                                     err : {"none", "message", "empty"}] \cup {Nil}]
    BY <1>3, <2>1 DEF Write, Recycle
  <2> QED BY <1>3, <2>5, <2>6 DEF Write
<1>4. CASE WriteFail(c) BY <1>4 DEF WriteFail
<1> QED BY <1>1, <1>2, <1>3, <1>4 DEF Writer

\* The steps of handlers.
LEMMA HandlerType ==
  ASSUME TypeOK, HandlersHold, ObjectsHold, NEW k \in Calls, Handler(k) PROVE TypeOK'
<1> USE DEF TypeOK, hdUnch, slotUnch, accVars, connVars, wrVars, handlerVars, objVars
<1>1. CASE Acquire(k)
  <2>1. PICK g \in born[k] .. gen :
          workers[g] < Concurrency /\ workers' = [workers EXCEPT ![g] = @ + 1]
    BY <1>1 DEF Acquire
  <2>2. g \in Gens BY <1>1, <2>1, CounterType DEF Acquire, HandlersHold
  <2>3. workers' \in [Gens -> 0 .. Concurrency] BY <2>1, <2>2, CounterType
  <2> QED BY <1>1, <2>3 DEF Acquire
<1>2. CASE Dispatch(k)
  <2> DEFINE r == hobj[k]
  <2>1. PICK o \in Outcomes[k] :
          /\ output' = [output EXCEPT ![r] = Filled(@, input[r], o)]
          /\ outcome' = [outcome EXCEPT ![k] = o]
    BY <1>2 DEF Dispatch
  <2>2. o \in AllOutcomes BY EnvironmentAssumption
  <2>3. r \in Requests /\ input[r] = k /\ output[r] = Nil
    BY <1>2 DEF Dispatch, HandlersHold, ObjectsHold, ObjectHolds
  <2>4. Filled(output[r], input[r], o)
          \in [of : Calls, values : {"none", "some", "all"}, err : {"none", "message", "empty"}]
    BY <2>2, <2>3, ResultType DEF Filled
  <2> QED BY <1>2, <2>1, <2>2, <2>3, <2>4 DEF Dispatch
<1>3. CASE DispatchSend(k)
  <2>1. PICK o \in Outcomes[k] : outcome' = [outcome EXCEPT ![k] = o]
    BY <1>3 DEF DispatchSend
  <2>2. o \in AllOutcomes BY EnvironmentAssumption
  <2>3. outcome' \in [Calls -> AllOutcomes \cup {"none"}] BY <2>1, <2>2
  <2>4. /\ place' \in [Requests -> {"free", "handler", "queue", "writer", "spent"}]
        /\ id' \in [Requests -> Calls \cup {NoId}] /\ input' \in [Requests -> Calls \cup {Nil}]
        /\ output' \in [Requests -> [of : Calls, values : {"none", "some", "all"},
                                     err : {"none", "message", "empty"}] \cup {Nil}]
    BY <1>3 DEF DispatchSend, Recycle
  <2> QED BY <1>3, <2>3, <2>4 DEF DispatchSend
<1>4. CASE PanicSend(k)
  <2>1. workers' \in [Gens -> 0 .. Concurrency] BY <1>4, CounterType DEF PanicSend
  <2>2. resp' \in [Conns -> Seq(Requests)] BY <1>4 DEF PanicSend
  <2>3. /\ conn' \in [Conns -> {"none", "backlog", "open", "broken", "closed"}]
        /\ hc' \in [Conns -> {"off", "start", "up", "closing"}]
        /\ rd' \in [Conns -> {"off", "read", "exit"}]
        /\ wr' \in [Conns -> {"off", "select", "write", "exit"}]
        /\ hd' \in [Calls -> {"none", "slot", "run", "respond", "release", "done"}]
        /\ place' \in [Requests -> {"free", "handler", "queue", "writer", "spent"}]
    BY <1>4 DEF PanicSend
  <2> QED BY <1>4, <2>1, <2>2, <2>3 DEF PanicSend
<1>5. CASE Respond(k)
  <2>1. hobj[k] \in Requests /\ home[k] \in Conns BY <1>5 DEF Respond, HandlersHold
  <2>2. resp' \in [Conns -> Seq(Requests)] BY <1>5, <2>1 DEF Respond
  <2> QED BY <1>5, <2>1, <2>2 DEF Respond
<1>6. CASE Release(k)
  <2>1. gen \in Gens BY <1>6, BoundsAssumption DEF Release, HandlersHold, Gens
  <2>2. workers' \in [Gens -> 0 .. Concurrency]
    BY <1>6, <2>1, CounterType DEF Release, GiveBack
  <2> QED BY <1>6, <2>2 DEF Release
<1> QED BY <1>1, <1>2, <1>3, <1>4, <1>5, <1>6 DEF Handler

\* The steps of clients and the network.
LEMMA EnvironmentType == ASSUME TypeOK, Environment PROVE TypeOK'
<1> USE DEF TypeOK, envUnch, accVars, connVars, wrVars, handlerVars, objVars
<1>1. ASSUME NEW c \in Conns, ClientDials(c) PROVE TypeOK' BY <1>1 DEF ClientDials
<1>2. ASSUME NEW c \in Conns, Break(c) PROVE TypeOK' BY <1>2, CounterType DEF Break
<1>3. ASSUME NEW c \in Conns, NEW k \in Calls, ClientSends(c, k) PROVE TypeOK'
  <2>1. inbox' \in [Conns -> Seq(Calls)] BY <1>3 DEF ClientSends
  <2> QED BY <1>3, <2>1 DEF ClientSends
<1> QED BY <1>1, <1>2, <1>3 DEF Environment

\* With what the objects hold, the type invariant is inductive.
LEMMA TypeStep ==
  ASSUME TypeOK, HandlersHold, ObjectsHold, WritersHold, [Next]_vars PROVE TypeOK'
<1>1. CASE UNCHANGED vars
  BY <1>1 DEF TypeOK, vars, accVars, connVars, wrVars, handlerVars, objVars
<1> QED BY <1>1, ListenerType, ConnectionType, ReaderType, WriterType, HandlerType,
           EnvironmentType DEF Next

-----------------------------------------------------------------------------
(* Every step keeps the phases.                                            *)

\* Goroutines start and end in their order, and none does after a crash.
LEMMA PhasesStep ==
  ASSUME TypeOK, Phases, Crashed, [Next]_vars PROVE Phases' /\ Crashed'
<1> USE DEF Phases, Crashed
<1>1. CASE UNCHANGED vars
  BY <1>1 DEF vars, accVars, connVars, wrVars, handlerVars
<1>2. CASE Listener
  <2> USE CallsAssumption DEF TypeOK, accUnch, accVars, wrVars, handlerVars
  <2>1. CASE Start BY <2>1 DEF Start
  <2>2. CASE Stop BY <2>2 DEF Stop
  <2>3. CASE StopReturn BY <2>3 DEF StopReturn
  <2>4. CASE AcceptError BY <2>4 DEF AcceptError
  <2>5. CASE AcceptStop BY <2>5 DEF AcceptStop
  <2>6. CASE DrainAccept BY <2>6 DEF DrainAccept
  <2>7. CASE AcceptFailed BY <2>7 DEF AcceptFailed
  <2>8. CASE AcceptAgain BY <2>8 DEF AcceptAgain
  <2>9. CASE BackoffStop BY <2>9 DEF BackoffStop
  <2>10. ASSUME NEW c \in Conns, Accept(c) PROVE Phases' /\ Crashed' BY <2>10 DEF Accept
  <2>11. ASSUME NEW c \in Conns, Accepted(c) PROVE Phases' /\ Crashed' BY <2>11 DEF Accepted
  <2> QED BY <1>2, <2>1, <2>2, <2>3, <2>4, <2>5, <2>6, <2>7, <2>8, <2>9, <2>10, <2>11
          DEF Listener
<1>3. ASSUME NEW c \in Conns, Connection(c) PROVE Phases' /\ Crashed'
  <2> USE DEF TypeOK, hcUnch, Close, accVars, handlerVars
  <2>1. CASE ClientConnectedFailed(c) BY <2>1 DEF ClientConnectedFailed
  <2>2. CASE ClientConnected(c) BY <2>2 DEF ClientConnected
  <2>3. CASE ReaderDone(c) BY <2>3 DEF ReaderDone
  <2>4. CASE WriterDone(c) BY <2>4 DEF WriterDone
  <2>5. CASE StopConnection(c) BY <2>5 DEF StopConnection
  <2>6. CASE JoinReader(c) BY <2>6 DEF JoinReader
  <2>7. CASE JoinWriter(c) BY <2>7 DEF JoinWriter
  <2>8. CASE Disconnected(c) BY <2>8 DEF Disconnected
  <2> QED BY <1>3, <2>1, <2>2, <2>3, <2>4, <2>5, <2>6, <2>7, <2>8 DEF Connection
<1>4. ASSUME NEW c \in Conns, Reader(c) PROVE Phases' /\ Crashed'
  BY <1>4 DEF Reader, ReadFail, ReadRequest, TypeOK, accVars, connVars, wrVars, handlerVars
<1>5. ASSUME NEW c \in Conns, Writer(c) PROVE Phases' /\ Crashed'
  BY <1>5 DEF Writer, WriteStop, Dequeue, Write, WriteFail, TypeOK, wrUnch, accVars, connVars,
              handlerVars
<1>6. ASSUME NEW k \in Calls, Handler(k) PROVE Phases' /\ Crashed'
  <2> USE DEF TypeOK, hdUnch, accVars, connVars, wrVars
  <2>1. CASE Acquire(k) BY <2>1 DEF Acquire
  <2>2. CASE Dispatch(k) BY <2>2 DEF Dispatch
  <2>3. CASE DispatchSend(k) BY <2>3 DEF DispatchSend
  <2>4. CASE PanicSend(k) BY <2>4 DEF PanicSend
  <2>5. CASE Respond(k) BY <2>5 DEF Respond
  <2>6. CASE Release(k) BY <2>6 DEF Release
  <2> QED BY <1>6, <2>1, <2>2, <2>3, <2>4, <2>5, <2>6 DEF Handler
<1>7. CASE Environment
  BY <1>7 DEF Environment, ClientDials, ClientSends, Break, TypeOK, envUnch, accVars, wrVars,
              handlerVars
<1> QED BY <1>1, <1>2, <1>3, <1>4, <1>5, <1>6, <1>7 DEF Next

-----------------------------------------------------------------------------
(* Steps that leave requests and objects alone.                            *)

\* What they leave alone, and what else they may do.
Frame0 ==
  /\ UNCHANGED <<inbox, home, hd, hobj, born, place, id, input, output, outcome, resp, wire, wcur>>
  /\ \A c \in Conns : wr'[c] = "write" <=> wr[c] = "write"
  /\ gen \in Nat /\ gen' \in Nat /\ gen' >= gen
  /\ life = "crashed" => life' = "crashed"

\* They keep what is said of requests and objects.
LEMMA FrameObj == ASSUME TypeOK, ObjInv, Frame0 PROVE ObjInv'
<1> USE DEF Frame0
<1>1. InboxHolds' BY DEF ObjInv, InboxHolds
<1>2. HandlersHold' BY DEF ObjInv, HandlersHold, TypeOK
<1>3. ObjectsHold'
  <2>1. \A r \in Requests : Ready(r) => Ready(r)' BY DEF Ready
  <2>2. \A c \in Conns, r \in Requests : Writes(c, r) => Writes(c, r)' BY DEF Writes
  <2> QED BY <2>1, <2>2 DEF ObjInv, ObjectsHold, ObjectHolds, Queues
<1>4. QueuesHold' BY DEF ObjInv, QueuesHold
<1>5. WritersHold' BY DEF ObjInv, WritersHold
<1>6. OneEach' BY DEF ObjInv, OneEach, InUse
<1>7. WireHolds' BY DEF ObjInv, WireHolds, Written, InUse
<1>8. AnsweredOnce' BY DEF ObjInv, AnsweredOnce
<1> QED BY <1>1, <1>2, <1>3, <1>4, <1>5, <1>6, <1>7, <1>8 DEF ObjInv

\* Those steps are all but the following.
Moves ==
  \/ \E c \in Conns : \/ \E k \in Calls : ClientSends(c, k)
                      \/ \E r \in Requests : ReadRequest(c, r)
                      \/ Dequeue(c) \/ Write(c) \/ WriteFail(c)
  \/ \E k \in Calls : Handler(k)

\* All others leave requests and objects alone.
LEMMA OthersFrame == ASSUME TypeOK, Phases, Crashed, [Next]_vars PROVE Moves \/ Frame0
<1> USE BoundsAssumption DEF Frame0, TypeOK
<1>1. CASE UNCHANGED vars
  BY <1>1 DEF vars, accVars, connVars, wrVars, handlerVars, objVars
<1>2. CASE Listener
  BY <1>2 DEF Listener, Start, Stop, StopReturn, AcceptError, AcceptStop, DrainAccept, AcceptFailed,
              AcceptAgain, BackoffStop, Accept, Accepted, accUnch, accVars, wrVars, handlerVars,
              objVars
<1>3. ASSUME NEW c \in Conns, Connection(c) PROVE Frame0
  <2> USE DEF hcUnch, Close, accVars, handlerVars, objVars
  <2>1. CASE ClientConnectedFailed(c) BY <2>1 DEF ClientConnectedFailed
  <2>2. CASE ClientConnected(c) BY <2>2 DEF ClientConnected, Phases
  <2>3. CASE ReaderDone(c) BY <2>3 DEF ReaderDone
  <2>4. CASE WriterDone(c) BY <2>4 DEF WriterDone
  <2>5. CASE StopConnection(c) BY <2>5 DEF StopConnection
  <2>6. CASE JoinReader(c) BY <2>6 DEF JoinReader
  <2>7. CASE JoinWriter(c) BY <2>7 DEF JoinWriter
  <2>8. CASE Disconnected(c) BY <2>8 DEF Disconnected
  <2> QED BY <1>3, <2>1, <2>2, <2>3, <2>4, <2>5, <2>6, <2>7, <2>8 DEF Connection
<1>4. ASSUME NEW c \in Conns, Reader(c) PROVE Moves \/ Frame0
  BY <1>4 DEF Reader, ReadFail, Moves, accVars, wrVars, handlerVars, objVars
<1>5. ASSUME NEW c \in Conns, Writer(c) PROVE Moves \/ Frame0
  BY <1>5 DEF Writer, WriteStop, Moves, wrUnch, accVars, handlerVars, objVars
<1>6. ASSUME NEW k \in Calls, Handler(k) PROVE Moves BY <1>6 DEF Moves
<1>7. CASE Environment
  BY <1>7 DEF Environment, ClientDials, Break, Moves, envUnch, accVars, wrVars, handlerVars, objVars
<1> QED BY <1>1, <1>2, <1>3, <1>4, <1>5, <1>6, <1>7 DEF Next

-----------------------------------------------------------------------------
(* Steps that move requests and objects.                                   *)

\* Steps that leave alone what is on its way, and who waits for it.
LEMMA InboxKeeps ==
  ASSUME TypeOK, InboxHolds, UNCHANGED <<life, inbox, home>>,
         \A k \in Calls : hd[k] = "none" => hd'[k] = "none"
  PROVE  InboxHolds'
<1>1. \A c \in Conns : \A n \in 1 .. Len(inbox[c]) : inbox[c][n] \in Calls BY DEF TypeOK
<1> QED BY <1>1 DEF InboxHolds

\* Steps that leave the responseChans and what is in them alone.
LEMMA QueuesKeep ==
  ASSUME TypeOK, QueuesHold, UNCHANGED <<resp, home>>,
         \A r \in Requests : place[r] = "queue" => place'[r] = "queue" /\ input'[r] = input[r]
  PROVE  QueuesHold'
<1>1. \A c \in Conns : \A n \in 1 .. Len(resp[c]) : resp[c][n] \in Requests BY DEF TypeOK
<1> QED BY <1>1 DEF QueuesHold

\* Steps that leave alone what has been written and the calls it answers.
LEMMA WireKeeps ==
  ASSUME WireHolds, UNCHANGED <<wire, home>>,
         \A j \in Calls : hd[j] \in {"release", "done"} =>
           hd'[j] \in {"release", "done"} /\ outcome'[j] = outcome[j],
         \A q \in Requests : InUse(q)' => InUse(q) /\ input'[q] = input[q]
  PROVE  WireHolds'
<1> SUFFICES ASSUME NEW c \in Conns, NEW n \in 1 .. Len(wire[c]), NEW f, f = wire[c][n]
             PROVE  Written(c, f)'
  BY DEF WireHolds, Written
<1>1. Written(c, f) BY DEF WireHolds
<1> QED BY <1>1 DEF Written

\* A handler that gets its slot keeps its object.
LEMMA AcquireObj ==
  ASSUME TypeOK, ObjInv, NEW k \in Calls, Acquire(k) PROVE ObjInv'
<1>0. /\ hd[k] = "slot" /\ hd' = [hd EXCEPT ![k] = "run"]
      /\ UNCHANGED <<life, gen, inbox, home, hobj, born, place, id, input, output, outcome, resp,
                     wire, wr, wcur>>
  BY DEF Acquire, slotUnch, hdUnch, accVars, connVars, wrVars, handlerVars, objVars
<1>1. InboxHolds'
  <2>1. \A j \in Calls : hd[j] = "none" => hd'[j] = "none" BY <1>0 DEF TypeOK
  <2> QED BY <1>0, <2>1, InboxKeeps DEF ObjInv
<1>2. HandlersHold' BY <1>0, CallsAssumption DEF ObjInv, TypeOK, HandlersHold
<1>3. ObjectsHold'
  <2>1. \A r \in Requests : Ready(r) => Ready(r)' BY <1>0 DEF Ready
  <2>2. \A r \in Requests : place[r] = "writer" => Writes(home[input[r]], r)'
    BY <1>0 DEF ObjInv, ObjectsHold, ObjectHolds, Writes
  <2> QED BY <1>0, <2>1, <2>2 DEF ObjInv, ObjectsHold, ObjectHolds, Queues, TypeOK
<1>4. QueuesHold' BY <1>0, QueuesKeep DEF ObjInv
<1>5. WritersHold' BY <1>0, CallsAssumption DEF ObjInv, TypeOK, WritersHold
<1>6. OneEach' BY <1>0, CallsAssumption DEF ObjInv, TypeOK, OneEach, InUse
<1>7. WireHolds'
  <2>1. \A j \in Calls : hd[j] \in {"release", "done"} =>
          hd'[j] \in {"release", "done"} /\ outcome'[j] = outcome[j]
    BY <1>0 DEF TypeOK
  <2>2. \A q \in Requests : InUse(q)' => InUse(q) /\ input'[q] = input[q]
    BY <1>0 DEF InUse, TypeOK
  <2> QED BY <1>0, <2>1, <2>2, WireKeeps DEF ObjInv
<1>8. AnsweredOnce' BY <1>0 DEF ObjInv, AnsweredOnce
<1> QED BY <1>1, <1>2, <1>3, <1>4, <1>5, <1>6, <1>7, <1>8 DEF ObjInv

\* A handler that gives its slot back has no object any more.
LEMMA ReleaseObj ==
  ASSUME TypeOK, ObjInv, NEW k \in Calls, Release(k) PROVE ObjInv'
<1>0. /\ hd[k] = "release" /\ hd' = [hd EXCEPT ![k] = "done"]
      /\ UNCHANGED <<life, gen, inbox, home, hobj, born, place, id, input, output, outcome, resp,
                     wire, wr, wcur>>
  BY DEF Release, slotUnch, hdUnch, accVars, connVars, wrVars, handlerVars, objVars
<1>1. InboxHolds'
  <2>1. \A j \in Calls : hd[j] = "none" => hd'[j] = "none" BY <1>0 DEF TypeOK
  <2> QED BY <1>0, <2>1, InboxKeeps DEF ObjInv
<1>2. HandlersHold' BY <1>0, CallsAssumption DEF ObjInv, TypeOK, HandlersHold
<1>3. ObjectsHold'
  <2>1. \A r \in Requests : Ready(r) => Ready(r)' BY <1>0 DEF Ready
  <2>2. \A r \in Requests : place[r] = "writer" => Writes(home[input[r]], r)'
    BY <1>0 DEF ObjInv, ObjectsHold, ObjectHolds, Writes
  <2> QED BY <1>0, <2>1, <2>2 DEF ObjInv, ObjectsHold, ObjectHolds, Queues, TypeOK
<1>4. QueuesHold' BY <1>0, QueuesKeep DEF ObjInv
<1>5. WritersHold' BY <1>0, CallsAssumption DEF ObjInv, TypeOK, WritersHold
<1>6. OneEach' BY <1>0, CallsAssumption DEF ObjInv, TypeOK, OneEach, InUse
<1>7. WireHolds'
  <2>1. \A j \in Calls : hd[j] \in {"release", "done"} =>
          hd'[j] \in {"release", "done"} /\ outcome'[j] = outcome[j]
    BY <1>0 DEF TypeOK
  <2>2. \A q \in Requests : InUse(q)' => InUse(q) /\ input'[q] = input[q]
    BY <1>0 DEF InUse, TypeOK
  <2> QED BY <1>0, <2>1, <2>2, WireKeeps DEF ObjInv
<1>8. AnsweredOnce' BY <1>0 DEF ObjInv, AnsweredOnce
<1> QED BY <1>1, <1>2, <1>3, <1>4, <1>5, <1>6, <1>7, <1>8 DEF ObjInv

\* A request that a client sends is in no other place.
LEMMA ClientSendsObj ==
  ASSUME TypeOK, ObjInv, NEW c \in Conns, NEW k \in Calls, ClientSends(c, k), Crashed PROVE ObjInv'
<1>0. /\ home[k] = Nil /\ life # "crashed" /\ hd[k] = "none"
      /\ home' = [home EXCEPT ![k] = c]
      /\ inbox' = [inbox EXCEPT ![c] = Append(@, k)]
      /\ UNCHANGED <<life, gen, hd, hobj, born, place, id, input, output, outcome, resp, wire, wr,
                     wcur>>
  BY DEF ClientSends, Crashed, ObjInv, InboxHolds, envUnch, accVars, wrVars, handlerVars, objVars
<1>1. InboxHolds'
  <2> DEFINE s == inbox[c]
             t == Append(s, k)
  <2>1. s \in Seq(Calls) BY DEF TypeOK
  <2>2. /\ Len(t) = Len(s) + 1 /\ Len(s) \in Nat
        /\ \A n \in 1 .. Len(s) + 1 : t[n] = IF n <= Len(s) THEN s[n] ELSE k
    BY <2>1, SeqFacts
  <2>3. inbox' = [inbox EXCEPT ![c] = t] BY <1>0
  <2>4. \A n \in 1 .. Len(s) : s[n] # k BY <1>0, CallsAssumption DEF ObjInv, InboxHolds
  <2> HIDE DEF t
  <2>5. \A k1 \in Calls : home'[k1] = Nil /\ life' # "crashed" => hd'[k1] = "none"
    BY <1>0 DEF ObjInv, InboxHolds, TypeOK
  <2>6. \A d \in Conns : d # c => inbox'[d] = inbox[d] BY <2>3 DEF TypeOK
  <2>7. inbox'[c] = t BY <2>3 DEF TypeOK
  <2>8. \A m, n \in 1 .. Len(t) : t[m] = t[n] => m = n
    <3> SUFFICES ASSUME NEW m \in 1 .. Len(t), NEW n \in 1 .. Len(t), t[m] = t[n] PROVE m = n
      OBVIOUS
    <3>1. CASE m <= Len(s) /\ n <= Len(s) BY <2>2, <3>1 DEF ObjInv, InboxHolds
    <3>2. CASE ~(m <= Len(s) /\ n <= Len(s)) BY <2>2, <2>4, <3>2
    <3> QED BY <3>1, <3>2
  <2>9. ASSUME NEW n \in 1 .. Len(t)
        PROVE  home'[t[n]] = c /\ (life' # "crashed" => hd'[t[n]] = "none")
    <3>1. CASE n <= Len(s)
      <4>1. t[n] = s[n] /\ n \in 1 .. Len(s) BY <2>2, <3>1
      <4>2. s[n] \in Calls /\ s[n] # k BY <2>1, <2>4, <4>1
      <4>3. home[s[n]] = c /\ (life # "crashed" => hd[s[n]] = "none")
        BY <4>1 DEF ObjInv, InboxHolds
      <4> QED BY <1>0, <4>1, <4>2, <4>3
    <3>2. CASE ~(n <= Len(s)) BY <1>0, <2>2, <3>2 DEF TypeOK
    <3> QED BY <3>1, <3>2
  <2>10. ASSUME NEW d \in Conns, d # c, NEW n \in 1 .. Len(inbox[d])
         PROVE  /\ home'[inbox[d][n]] = d
                /\ life' # "crashed" => hd'[inbox[d][n]] = "none"
    <3>1. inbox[d][n] \in Calls BY DEF TypeOK
    <3>2. home[inbox[d][n]] = d /\ (life # "crashed" => hd[inbox[d][n]] = "none")
      BY DEF ObjInv, InboxHolds
    <3>3. inbox[d][n] # k BY <1>0, <3>2, CallsAssumption
    <3>4. home'[inbox[d][n]] = home[inbox[d][n]] BY <1>0, <3>1, <3>3 DEF TypeOK
    <3> QED BY <1>0, <3>2, <3>4
  <2>11. ASSUME NEW d \in Conns
         PROVE  /\ \A n \in 1 .. Len(inbox'[d]) :
                     /\ home'[inbox'[d][n]] = d
                     /\ life' # "crashed" => hd'[inbox'[d][n]] = "none"
                /\ \A m, n \in 1 .. Len(inbox'[d]) : inbox'[d][m] = inbox'[d][n] => m = n
    <3>1. CASE d = c BY <2>7, <2>8, <2>9, <3>1
    <3>2. CASE d # c BY <2>6, <2>10, <3>2 DEF ObjInv, InboxHolds
    <3> QED BY <3>1, <3>2
  <2> QED BY <2>5, <2>11 DEF InboxHolds
<1>2. HandlersHold' BY <1>0, CallsAssumption DEF ObjInv, TypeOK, HandlersHold
<1>3. ObjectsHold'
  <2> SUFFICES ASSUME NEW q \in Requests PROVE ObjectHolds(q)'
    BY DEF ObjectsHold
  <2>1. ObjectHolds(q) BY DEF ObjInv, ObjectsHold
  <2>2. Ready(q) => Ready(q)' BY <1>0 DEF Ready
  <2>3. place[q] \in {"queue", "writer"} => home'[input[q]] = home[input[q]]
    BY <1>0, <2>1, CallsAssumption DEF ObjectHolds, Ready, TypeOK
  <2>4. place[q] = "writer" => Writes(home[input[q]], q)'
    BY <1>0, <2>1, <2>3 DEF ObjectHolds, Writes
  <2> QED BY <1>0, <2>1, <2>2, <2>3, <2>4 DEF ObjectHolds, Queues
<1>4. QueuesHold'
  <2> SUFFICES ASSUME NEW d \in Conns, NEW n \in 1 .. Len(resp[d])
               PROVE  home'[input[resp[d][n]]] = d
    BY <1>0 DEF ObjInv, QueuesHold
  <2>1. resp[d][n] \in Requests /\ home[input[resp[d][n]]] = d /\ place[resp[d][n]] = "queue"
    BY DEF ObjInv, QueuesHold, TypeOK
  <2>2. input[resp[d][n]] \in Calls /\ input[resp[d][n]] # k
    BY <1>0, <2>1, CallsAssumption DEF ObjInv, ObjectsHold, ObjectHolds, Ready
  <2> QED BY <1>0, <2>1, <2>2 DEF TypeOK
<1>5. WritersHold' BY <1>0, CallsAssumption DEF ObjInv, TypeOK, WritersHold
<1>6. OneEach' BY <1>0, CallsAssumption DEF ObjInv, TypeOK, OneEach, InUse
<1>7. WireHolds'
  <2> SUFFICES ASSUME NEW d \in Conns, NEW n \in 1 .. Len(wire[d])
               PROVE  Written(d, wire[d][n])'
    BY <1>0 DEF WireHolds
  <2>1. Written(d, wire[d][n]) BY DEF ObjInv, WireHolds
  <2>2. wire[d][n].id # k /\ wire[d][n].id \in Calls BY <1>0, <2>1 DEF Written
  <2> QED BY <1>0, <2>1, <2>2 DEF Written, InUse, TypeOK
<1>8. AnsweredOnce' BY <1>0 DEF ObjInv, AnsweredOnce
<1> QED BY <1>1, <1>2, <1>3, <1>4, <1>5, <1>6, <1>7, <1>8 DEF ObjInv

\* The object of a call gets the call's result.
LEMMA DispatchObj ==
  ASSUME TypeOK, ObjInv, NEW k \in Calls, Dispatch(k) PROVE ObjInv'
<1> DEFINE r == hobj[k]
<1>a. hd[k] = "run" /\ id[r] # NoId BY DEF Dispatch
<1>b. /\ r \in Requests /\ place[r] = "handler" /\ input[r] = k /\ output[r] = Nil
      /\ k \notin Sends /\ id[r] = k /\ home[k] \in Conns
  BY <1>a DEF ObjInv, HandlersHold, ObjectsHold, ObjectHolds
<1>c. PICK o \in Outcomes[k] :
        /\ output' = [output EXCEPT ![r] = Filled(@, input[r], o)]
        /\ outcome' = [outcome EXCEPT ![k] = o]
  BY DEF Dispatch
<1>d. o \in AllOutcomes BY EnvironmentAssumption
<1>e. output' = [output EXCEPT ![r] = [of |-> k, values |-> Result(o).values, err |-> Result(o).err]]
  BY <1>b, <1>c DEF Filled
<1>f. UNCHANGED <<life, gen, inbox, home, hobj, born, place, id, input, resp, wire, wr, wcur>>
      /\ hd' = [hd EXCEPT ![k] = "respond"]
  BY DEF Dispatch, hdUnch, accVars, connVars, wrVars
<1> HIDE DEF r
<1>0. /\ hd[k] = "run" /\ r = hobj[k]
      /\ r \in Requests /\ place[r] = "handler" /\ input[r] = k /\ output[r] = Nil
      /\ k \notin Sends /\ id[r] = k /\ o \in AllOutcomes
      /\ output' = [output EXCEPT ![r] = [of |-> k, values |-> Result(o).values, err |-> Result(o).err]]
      /\ outcome' = [outcome EXCEPT ![k] = o]
      /\ hd' = [hd EXCEPT ![k] = "respond"]
      /\ UNCHANGED <<life, gen, inbox, home, hobj, born, place, id, input, resp, wire, wr, wcur>>
  BY <1>a, <1>b, <1>c, <1>d, <1>e, <1>f DEF r
<1>1. InboxHolds'
  <2>1. \A j \in Calls : hd[j] = "none" => hd'[j] = "none" BY <1>0 DEF TypeOK
  <2> QED BY <1>0, <2>1, InboxKeeps DEF ObjInv
<1>2. HandlersHold' BY <1>0, CallsAssumption DEF ObjInv, TypeOK, HandlersHold
<1>3. ObjectsHold'
  <2> SUFFICES ASSUME NEW q \in Requests PROVE ObjectHolds(q)'
    BY DEF ObjectsHold
  <2>1. ObjectHolds(q) BY DEF ObjInv, ObjectsHold
  <2>2. Writes(home[input[q]], q) => Writes(home[input[q]], q)' BY <1>0 DEF Writes
  <2>3. CASE q = r
    <3>1. hd'[k] = "respond" /\ outcome'[k] = o BY <1>0 DEF TypeOK
    <3>2. output'[q] = [of |-> k, values |-> Result(o).values, err |-> Result(o).err]
      BY <1>0, <2>3 DEF TypeOK
    <3>3. Ready(q)' BY <1>0, <2>3, <3>1, <3>2 DEF Ready
    <3> QED BY <1>0, <2>3, <3>1, <3>3 DEF ObjectHolds
  <2>4. CASE q # r
    <3>1. output'[q] = output[q] BY <1>0, <2>4 DEF TypeOK
    <3>2. InUse(q) => input[q] # k /\ input[q] \in Calls
      BY <1>0, <2>1, <2>4 DEF ObjInv, OneEach, InUse, ObjectHolds, Ready
    <3>3. InUse(q) => hd'[input[q]] = hd[input[q]] /\ outcome'[input[q]] = outcome[input[q]]
      BY <1>0, <3>2 DEF TypeOK
    <3>4. InUse(q) /\ Ready(q) => Ready(q)' BY <1>0, <3>1, <3>3 DEF Ready
    <3> QED BY <1>0, <2>1, <2>2, <3>1, <3>2, <3>3, <3>4 DEF ObjectHolds, Queues, InUse
  <2> QED BY <2>3, <2>4
<1>4. QueuesHold' BY <1>0, QueuesKeep DEF ObjInv
<1>5. WritersHold' BY <1>0, CallsAssumption DEF ObjInv, TypeOK, WritersHold
<1>6. OneEach' BY <1>0, CallsAssumption DEF ObjInv, TypeOK, OneEach, InUse
<1>7. WireHolds'
  <2>1. \A j \in Calls : hd[j] \in {"release", "done"} =>
          hd'[j] \in {"release", "done"} /\ outcome'[j] = outcome[j]
    BY <1>0 DEF TypeOK
  <2>2. \A q \in Requests : InUse(q)' => InUse(q) /\ input'[q] = input[q]
    BY <1>0 DEF InUse, TypeOK
  <2> QED BY <1>0, <2>1, <2>2, WireKeeps DEF ObjInv
<1>8. AnsweredOnce' BY <1>0 DEF ObjInv, AnsweredOnce
<1> QED BY <1>1, <1>2, <1>3, <1>4, <1>5, <1>6, <1>7, <1>8 DEF ObjInv

\* A handler's object goes to the responseChan of its connection.
LEMMA RespondObj ==
  ASSUME TypeOK, ObjInv, NEW k \in Calls, Respond(k) PROVE ObjInv'
<1> DEFINE r == hobj[k]
           c == home[k]
           s == resp[c]
<1>a. hd[k] = "respond" /\ Len(s) < PendingResponses
      /\ resp' = [resp EXCEPT ![c] = Append(@, r)]
      /\ place' = [place EXCEPT ![r] = "queue"]
      /\ hd' = [hd EXCEPT ![k] = "release"]
      /\ UNCHANGED <<life, gen, inbox, home, hobj, born, id, input, output, outcome, wire, wr, wcur>>
  BY DEF Respond, hdUnch, accVars, connVars, wrVars
<1>b. r \in Requests /\ place[r] = "handler" /\ input[r] = k /\ c \in Conns
  BY <1>a DEF ObjInv, HandlersHold
<1>c. Ready(r) BY <1>a, <1>b DEF ObjInv, ObjectsHold, ObjectHolds
<1>d. s \in Seq(Requests) BY <1>b DEF TypeOK
<1> HIDE DEF r, c
<1>e. /\ Len(Append(s, r)) = Len(s) + 1 /\ Len(s) \in Nat
      /\ \A n \in 1 .. Len(s) + 1 : Append(s, r)[n] = IF n <= Len(s) THEN s[n] ELSE r
  BY <1>b, <1>d, SeqFacts
<1> DEFINE t == Append(s, r)
<1> HIDE DEF t
<1>0. /\ hd[k] = "respond" /\ hobj[k] = r /\ home[k] = c
      /\ r \in Requests /\ place[r] = "handler" /\ input[r] = k /\ c \in Conns /\ Ready(r)
      /\ place' = [place EXCEPT ![r] = "queue"] /\ hd' = [hd EXCEPT ![k] = "release"]
      /\ resp' = [resp EXCEPT ![c] = t]
      /\ Len(t) = Len(s) + 1 /\ Len(s) \in Nat /\ Len(t) <= PendingResponses
      /\ \A n \in 1 .. Len(s) + 1 : t[n] = IF n <= Len(s) THEN s[n] ELSE r
      /\ UNCHANGED <<life, gen, inbox, home, hobj, born, id, input, output, outcome, wire, wr, wcur>>
  BY <1>a, <1>b, <1>c, <1>e, BoundsAssumption DEF r, c, t
<1>r. resp'[c] = t /\ \A d \in Conns : d # c => resp'[d] = resp[d] BY <1>0 DEF TypeOK
<1>1. InboxHolds'
  <2>1. \A j \in Calls : hd[j] = "none" => hd'[j] = "none" BY <1>0 DEF TypeOK
  <2> QED BY <1>0, <2>1, InboxKeeps DEF ObjInv
<1>2. HandlersHold' BY <1>0, CallsAssumption DEF ObjInv, TypeOK, HandlersHold
<1>3. ObjectsHold'
  <2>1. \A q \in Requests : Ready(q) => Ready(q)' BY <1>0 DEF Ready
  <2>2. \A q \in Requests : place[q] = "writer" => Writes(home[input[q]], q)'
    BY <1>0 DEF ObjInv, ObjectsHold, ObjectHolds, Writes
  <2>3. ASSUME NEW q \in Requests, place'[q] = "queue"
        PROVE  \E n \in 1 .. Len(resp'[home[input[q]]]) : Queues(home[input[q]], n, q)'
    <3>1. CASE q = r
      <4>1. t[Len(s) + 1] = r /\ Len(s) + 1 \in 1 .. Len(t) BY <1>0
      <4> QED BY <1>0, <1>r, <3>1, <4>1 DEF Queues
    <3>2. CASE q # r
      <4>1. place[q] = "queue" BY <1>0, <2>3, <3>2 DEF TypeOK
      <4>2. PICK n \in 1 .. Len(resp[home[input[q]]]) : Queues(home[input[q]], n, q)
        BY <4>1 DEF ObjInv, ObjectsHold, ObjectHolds
      <4>3. home[input[q]] \in Conns BY <4>1 DEF ObjInv, ObjectsHold, ObjectHolds
      <4>4. CASE home[input[q]] = c
        <5>1. n \in 1 .. Len(t) /\ t[n] = q BY <1>0, <4>2, <4>4 DEF Queues
        <5> QED BY <1>0, <1>r, <4>4, <5>1 DEF Queues
      <4>5. CASE home[input[q]] # c BY <1>0, <1>r, <4>2, <4>3, <4>5 DEF Queues
      <4> QED BY <4>4, <4>5
    <3> QED BY <3>1, <3>2
  <2>4. ASSUME NEW q \in Requests
        PROVE  /\ place'[q] = "free" => output'[q] = Nil
               /\ place'[q] = "handler" =>
                    /\ input'[q] \in Calls
                    /\ hd'[input'[q]] \in {"slot", "run", "respond"} /\ hobj'[input'[q]] = q
                    /\ hd'[input'[q]] \in {"slot", "run"} => output'[q] = Nil
                    /\ hd'[input'[q]] = "respond" => Ready(q)'
    BY <1>0, <2>1 DEF ObjInv, ObjectsHold, ObjectHolds, TypeOK
  <2>5. ASSUME NEW q \in Requests, place'[q] \in {"queue", "writer"}
        PROVE  Ready(q)' /\ hd'[input'[q]] \in {"release", "done"} /\ home'[input'[q]] \in Conns
    <3>1. CASE q = r BY <1>0, <2>1, <3>1 DEF TypeOK
    <3>2. CASE q # r
      <4>1. place[q] \in {"queue", "writer"} BY <1>0, <2>5, <3>2 DEF TypeOK
      <4> QED BY <1>0, <2>1, <4>1 DEF ObjInv, ObjectsHold, ObjectHolds, TypeOK, Ready
    <3> QED BY <3>1, <3>2
  <2>6. \A q \in Requests : place'[q] = "writer" => place[q] = "writer" BY <1>0 DEF TypeOK
  <2> QED BY <1>0, <2>2, <2>3, <2>4, <2>5, <2>6 DEF ObjectsHold, ObjectHolds
<1>4. QueuesHold'
  <2>1. \A n \in 1 .. Len(s) : s[n] # r /\ place[s[n]] = "queue" /\ home[input[s[n]]] = c
    BY <1>0 DEF ObjInv, QueuesHold
  <2>2. \A n \in 1 .. Len(s) : s[n] \in Requests BY <1>d
  <2>3. \A m, n \in 1 .. Len(t) : t[m] = t[n] => m = n
    <3> SUFFICES ASSUME NEW m \in 1 .. Len(t), NEW n \in 1 .. Len(t), t[m] = t[n] PROVE m = n
      OBVIOUS
    <3>1. CASE m <= Len(s) /\ n <= Len(s) BY <1>0, <3>1 DEF ObjInv, QueuesHold
    <3>2. CASE ~(m <= Len(s) /\ n <= Len(s)) BY <1>0, <2>1, <3>2
    <3> QED BY <3>1, <3>2
  <2>4. ASSUME NEW n \in 1 .. Len(t) PROVE place'[t[n]] = "queue" /\ home'[input'[t[n]]] = c
    <3>1. CASE n <= Len(s)
      <4>1. t[n] = s[n] /\ n \in 1 .. Len(s) BY <1>0, <3>1
      <4> QED BY <1>0, <2>1, <2>2, <4>1 DEF TypeOK
    <3>2. CASE ~(n <= Len(s))
      <4>1. t[n] = r BY <1>0, <3>2
      <4> QED BY <1>0, <4>1 DEF TypeOK
    <3> QED BY <3>1, <3>2
  <2>5. ASSUME NEW d \in Conns, d # c, NEW n \in 1 .. Len(resp[d])
        PROVE  place'[resp[d][n]] = "queue" /\ home'[input'[resp[d][n]]] = d
    BY <1>0 DEF ObjInv, QueuesHold, TypeOK
  <2> QED BY <1>0, <1>r, <2>3, <2>4, <2>5 DEF ObjInv, QueuesHold
<1>5. WritersHold' BY <1>0, CallsAssumption DEF ObjInv, TypeOK, WritersHold
<1>6. OneEach' BY <1>0, CallsAssumption DEF ObjInv, TypeOK, OneEach, InUse
<1>7. WireHolds'
  <2>1. \A j \in Calls : hd[j] \in {"release", "done"} =>
          hd'[j] \in {"release", "done"} /\ outcome'[j] = outcome[j]
    BY <1>0 DEF TypeOK
  <2>2. \A q \in Requests : InUse(q)' => InUse(q) /\ input'[q] = input[q]
    BY <1>0 DEF InUse, TypeOK
  <2> QED BY <1>0, <2>1, <2>2, WireKeeps DEF ObjInv
<1>8. AnsweredOnce' BY <1>0 DEF ObjInv, AnsweredOnce
<1> QED BY <1>1, <1>2, <1>3, <1>4, <1>5, <1>6, <1>7, <1>8 DEF ObjInv

\* A writer takes the first object of its responseChan.
LEMMA DequeueObj ==
  ASSUME TypeOK, ObjInv, NEW c \in Conns, Dequeue(c) PROVE ObjInv'
<1> DEFINE s == resp[c]
           r == Head(s)
           t == Tail(s)
<1>a. s # <<>> /\ wr[c] = "select"
      /\ resp' = [resp EXCEPT ![c] = t] /\ wcur' = [wcur EXCEPT ![c] = r]
      /\ place' = [place EXCEPT ![r] = "writer"] /\ wr' = [wr EXCEPT ![c] = "write"]
      /\ UNCHANGED <<life, gen, inbox, home, hd, hobj, born, id, input, output, outcome, wire>>
  BY DEF Dequeue, wrUnch, accVars, handlerVars
<1>b. s \in Seq(Requests) BY DEF TypeOK
<1>c. /\ r \in Requests /\ r = s[1] /\ Len(s) \in Nat \ {0} /\ Len(t) = Len(s) - 1
      /\ \A n \in 1 .. Len(t) : t[n] = s[n + 1]
  BY <1>a, <1>b, SeqFacts
<1> HIDE DEF r, t
<1>d. place[r] = "queue" /\ home[input[r]] = c /\ \A n \in 2 .. Len(s) : s[n] # r
  BY <1>c DEF ObjInv, QueuesHold
<1>0. /\ wr[c] = "select" /\ resp' = [resp EXCEPT ![c] = t] /\ wcur' = [wcur EXCEPT ![c] = r]
      /\ place' = [place EXCEPT ![r] = "writer"] /\ wr' = [wr EXCEPT ![c] = "write"]
      /\ r \in Requests /\ r = s[1] /\ Len(s) \in Nat \ {0} /\ Len(t) = Len(s) - 1
      /\ \A n \in 1 .. Len(t) : t[n] = s[n + 1]
      /\ place[r] = "queue" /\ home[input[r]] = c /\ \A n \in 2 .. Len(s) : s[n] # r
      /\ UNCHANGED <<life, gen, inbox, home, hd, hobj, born, id, input, output, outcome, wire>>
  BY <1>a, <1>c, <1>d
<1>r. resp'[c] = t /\ \A d \in Conns : d # c => resp'[d] = resp[d] BY <1>0 DEF TypeOK
<1>1. InboxHolds'
  <2>1. \A j \in Calls : hd[j] = "none" => hd'[j] = "none" BY <1>0 DEF TypeOK
  <2> QED BY <1>0, <2>1, InboxKeeps DEF ObjInv
<1>2. HandlersHold' BY <1>0, CallsAssumption DEF ObjInv, TypeOK, HandlersHold
<1>3. ObjectsHold'
  <2>1. \A q \in Requests : Ready(q) => Ready(q)' BY <1>0 DEF Ready
  <2>2. ASSUME NEW q \in Requests, q # r
        PROVE  /\ place'[q] = "writer" => Writes(home[input[q]], q)'
               /\ place'[q] = "queue" =>
                    \E n \in 1 .. Len(resp'[home[input[q]]]) : Queues(home[input[q]], n, q)'
    <3>0. place'[q] = place[q] BY <1>0, <2>2 DEF TypeOK
    <3>1. ASSUME place[q] = "writer" PROVE Writes(home[input[q]], q)'
      <4>1. Writes(home[input[q]], q) /\ home[input[q]] \in Conns
        BY <3>1 DEF ObjInv, ObjectsHold, ObjectHolds
      <4>2. home[input[q]] # c BY <1>0, <4>1 DEF Writes
      <4> QED BY <1>0, <4>1, <4>2 DEF Writes, TypeOK
    <3>2. ASSUME place[q] = "queue"
          PROVE  \E n \in 1 .. Len(resp'[home[input[q]]]) : Queues(home[input[q]], n, q)'
      <4>1. home[input[q]] \in Conns BY <3>2 DEF ObjInv, ObjectsHold, ObjectHolds
      <4>2. PICK n \in 1 .. Len(resp[home[input[q]]]) : Queues(home[input[q]], n, q)
        BY <3>2 DEF ObjInv, ObjectsHold, ObjectHolds
      <4>3. CASE home[input[q]] = c
        <5>1. n # 1 /\ n \in 1 .. Len(s) BY <1>0, <2>2, <4>2, <4>3 DEF Queues
        <5>2. n - 1 \in 1 .. Len(t) /\ t[n - 1] = q BY <1>0, <4>2, <4>3, <5>1 DEF Queues
        <5> QED BY <1>0, <1>r, <4>3, <5>2 DEF Queues
      <4>4. CASE home[input[q]] # c BY <1>0, <1>r, <4>1, <4>2, <4>4 DEF Queues
      <4> QED BY <4>3, <4>4
    <3> QED BY <3>0, <3>1, <3>2
  <2>3. ASSUME NEW q \in Requests, q # r
        PROVE  /\ place'[q] = "free" => output'[q] = Nil
               /\ place'[q] = "handler" =>
                    /\ input'[q] \in Calls
                    /\ hd'[input'[q]] \in {"slot", "run", "respond"} /\ hobj'[input'[q]] = q
                    /\ hd'[input'[q]] \in {"slot", "run"} => output'[q] = Nil
                    /\ hd'[input'[q]] = "respond" => Ready(q)'
               /\ place'[q] \in {"queue", "writer"} =>
                    /\ Ready(q)' /\ hd'[input'[q]] \in {"release", "done"}
                    /\ home'[input'[q]] \in Conns
    BY <1>0, <2>1, <2>3 DEF ObjInv, ObjectsHold, ObjectHolds, TypeOK
  <2>4. Ready(r) /\ hd[input[r]] \in {"release", "done"}
    BY <1>0 DEF ObjInv, ObjectsHold, ObjectHolds
  <2>5. place'[r] = "writer" /\ wr'[c] = "write" /\ wcur'[c] = r BY <1>0 DEF TypeOK
  <2>6. hd'[input'[r]] \in {"release", "done"} /\ home'[input'[r]] = c
    BY <1>0, <2>4
  <2>7. ASSUME NEW q \in Requests
        PROVE  /\ place'[q] = "free" => output'[q] = Nil
               /\ place'[q] = "handler" =>
                    /\ input'[q] \in Calls
                    /\ hd'[input'[q]] \in {"slot", "run", "respond"} /\ hobj'[input'[q]] = q
                    /\ hd'[input'[q]] \in {"slot", "run"} => output'[q] = Nil
                    /\ hd'[input'[q]] = "respond" => Ready(q)'
               /\ place'[q] \in {"queue", "writer"} =>
                    /\ Ready(q)' /\ hd'[input'[q]] \in {"release", "done"}
                    /\ home'[input'[q]] \in Conns
               /\ place'[q] = "queue" =>
                    \E n \in 1 .. Len(resp'[home'[input'[q]]]) : Queues(home[input[q]], n, q)'
               /\ place'[q] = "writer" => Writes(home[input[q]], q)'
    <3>1. CASE q = r
      <4>1. Ready(q)' BY <2>1, <2>4, <3>1
      <4>2. Writes(home[input[q]], q)' BY <1>0, <2>5, <3>1 DEF Writes
      <4> QED BY <2>5, <2>6, <3>1, <4>1, <4>2
    <3>2. CASE q # r BY <1>0, <2>2, <2>3, <3>2
    <3> QED BY <3>1, <3>2
  <2> QED BY <2>7 DEF ObjectsHold, ObjectHolds
<1>4. QueuesHold'
  <2>1. ASSUME NEW n \in 1 .. Len(t)
        PROVE  t[n] # r /\ t[n] \in Requests /\ place[t[n]] = "queue" /\ home[input[t[n]]] = c
    <3>1. n + 1 \in 2 .. Len(s) /\ t[n] = s[n + 1] BY <1>0
    <3>2. t[n] \in Requests BY <1>b, <3>1
    <3> QED BY <1>0, <3>1, <3>2 DEF ObjInv, QueuesHold
  <2>2. \A m, n \in 1 .. Len(t) : t[m] = t[n] => m = n
    <3> SUFFICES ASSUME NEW m \in 1 .. Len(t), NEW n \in 1 .. Len(t), t[m] = t[n] PROVE m = n
      OBVIOUS
    <3>1. m + 1 \in 1 .. Len(s) /\ n + 1 \in 1 .. Len(s) /\ s[m + 1] = s[n + 1] BY <1>0
    <3>2. m + 1 = n + 1 BY <3>1 DEF ObjInv, QueuesHold
    <3> QED BY <3>2
  <2>3. ASSUME NEW d \in Conns, d # c, NEW n \in 1 .. Len(resp[d])
        PROVE  place'[resp[d][n]] = "queue" /\ home'[input'[resp[d][n]]] = d
    <3>1. place[resp[d][n]] = "queue" /\ home[input[resp[d][n]]] = d
      BY <2>3 DEF ObjInv, QueuesHold
    <3>2. resp[d][n] \in Requests /\ resp[d][n] # r BY <1>0, <2>3, <3>1 DEF TypeOK
    <3> QED BY <1>0, <3>1, <3>2 DEF TypeOK
  <2>4. Len(t) <= PendingResponses BY <1>0, BoundsAssumption DEF ObjInv, QueuesHold
  <2>5. \A n \in 1 .. Len(t) : place'[t[n]] = "queue" /\ home'[input'[t[n]]] = c
    BY <1>0, <2>1 DEF TypeOK
  <2> SUFFICES ASSUME NEW d \in Conns
               PROVE  /\ Len(resp'[d]) <= PendingResponses
                      /\ \A n \in 1 .. Len(resp'[d]) :
                           place'[resp'[d][n]] = "queue" /\ home'[input'[resp'[d][n]]] = d
                      /\ \A m, n \in 1 .. Len(resp'[d]) : resp'[d][m] = resp'[d][n] => m = n
    BY DEF QueuesHold
  <2>6. CASE d = c BY <1>r, <2>2, <2>4, <2>5, <2>6
  <2>7. CASE d # c BY <1>r, <2>3, <2>7 DEF ObjInv, QueuesHold
  <2> QED BY <2>6, <2>7
<1>5. WritersHold' BY <1>0, CallsAssumption DEF ObjInv, TypeOK, WritersHold
<1>6. OneEach' BY <1>0, CallsAssumption DEF ObjInv, TypeOK, OneEach, InUse
<1>7. WireHolds'
  <2>1. \A j \in Calls : hd[j] \in {"release", "done"} =>
          hd'[j] \in {"release", "done"} /\ outcome'[j] = outcome[j]
    BY <1>0 DEF TypeOK
  <2>2. \A q \in Requests : InUse(q)' => InUse(q) /\ input'[q] = input[q]
    BY <1>0 DEF InUse, TypeOK
  <2> QED BY <1>0, <2>1, <2>2, WireKeeps DEF ObjInv
<1>8. AnsweredOnce' BY <1>0 DEF ObjInv, AnsweredOnce
<1> QED BY <1>1, <1>2, <1>3, <1>4, <1>5, <1>6, <1>7, <1>8 DEF ObjInv

\* The object of a Send goes back to the pool.
LEMMA DispatchSendObj ==
  ASSUME TypeOK, ObjInv, NEW k \in Calls, DispatchSend(k) PROVE ObjInv'
<1>a. PICK r \in Requests : r = hobj[k] /\ place[r] = "handler" /\ input[r] = k /\ hd[k] = "run"
                            /\ id[r] = NoId /\ k \in Sends
  BY CallsAssumption DEF DispatchSend, ObjInv, HandlersHold
<1>b. PICK o \in AllOutcomes : outcome' = [outcome EXCEPT ![k] = o]
  BY EnvironmentAssumption DEF DispatchSend
<1>0. /\ r = hobj[k] /\ place[r] = "handler" /\ input[r] = k /\ hd[k] = "run" /\ k \in Sends
      /\ outcome' = [outcome EXCEPT ![k] = o] /\ hd' = [hd EXCEPT ![k] = "release"]
      /\ place' = [place EXCEPT ![r] = "free"] /\ id' = [id EXCEPT ![r] = NoId]
      /\ input' = [input EXCEPT ![r] = Nil] /\ output' = [output EXCEPT ![r] = Nil]
      /\ UNCHANGED <<life, gen, inbox, home, hobj, born, resp, wire, wr, wcur>>
  BY <1>a, <1>b DEF DispatchSend, Recycle, hdUnch, accVars, connVars, wrVars
<1>i. \A q \in Requests : q # r /\ InUse(q) => input[q] # k
  BY <1>0 DEF ObjInv, OneEach, InUse
<1>q. \A q \in Requests : q # r => /\ place'[q] = place[q] /\ input'[q] = input[q]
                                   /\ output'[q] = output[q] /\ id'[q] = id[q]
  BY <1>0 DEF TypeOK
<1>s. \A q \in Requests : InUse(q)' => q # r /\ InUse(q) BY <1>0, <1>q DEF InUse, TypeOK
<1>1. InboxHolds'
  <2>1. \A j \in Calls : hd[j] = "none" => hd'[j] = "none" BY <1>0 DEF TypeOK
  <2> QED BY <1>0, <2>1, InboxKeeps DEF ObjInv
<1>2. HandlersHold'
  <2>1. ASSUME NEW j \in Calls, j # k PROVE hd'[j] = hd[j] BY <1>0, <2>1 DEF TypeOK
  <2>2. \A j \in Calls : j # k /\ hd[j] \in {"slot", "run", "respond"} => hobj[j] # r
    BY <1>0 DEF ObjInv, HandlersHold
  <2>3. hd'[k] = "release" BY <1>0 DEF TypeOK
  <2> QED BY <1>0, <1>q, <2>1, <2>2, <2>3 DEF ObjInv, HandlersHold
<1>3. ObjectsHold'
  <2> SUFFICES ASSUME NEW q \in Requests, q # r
               PROVE  ObjectHolds(q)'
    BY <1>0 DEF ObjectsHold, ObjectHolds, TypeOK
  <2>1. ObjectHolds(q) BY DEF ObjInv, ObjectsHold
  <2>2. CASE InUse(q)
    <3>1. input[q] # k /\ input[q] \in Calls BY <1>i, <2>1, <2>2 DEF ObjectHolds, InUse, Ready
    <3>2. hd'[input[q]] = hd[input[q]] /\ outcome'[input[q]] = outcome[input[q]]
      BY <1>0, <3>1 DEF TypeOK
    <3>3. Ready(q) => Ready(q)' BY <1>q, <3>1, <3>2 DEF Ready
    <3>4. Writes(home[input[q]], q) => Writes(home[input[q]], q)' BY <1>0, <1>q DEF Writes
    <3> QED BY <1>0, <1>q, <2>1, <3>2, <3>3, <3>4 DEF ObjectHolds, Queues
  <2>3. CASE ~InUse(q) BY <1>q, <2>1, <2>3 DEF ObjectHolds, InUse, TypeOK
  <2> QED BY <2>2, <2>3
<1>4. QueuesHold'
  <2>1. \A q \in Requests : place[q] = "queue" => place'[q] = "queue" /\ input'[q] = input[q]
    BY <1>0, <1>q
  <2> QED BY <1>0, <2>1, QueuesKeep DEF ObjInv
<1>5. WritersHold' BY <1>0, <1>q DEF ObjInv, TypeOK, WritersHold
<1>6. OneEach' BY <1>q, <1>s DEF ObjInv, OneEach
<1>7. WireHolds'
  <2>1. \A j \in Calls : hd[j] \in {"release", "done"} =>
          hd'[j] \in {"release", "done"} /\ outcome'[j] = outcome[j]
    BY <1>0 DEF TypeOK
  <2>2. \A q \in Requests : InUse(q)' => InUse(q) /\ input'[q] = input[q]
    BY <1>0, <1>q, <1>s DEF InUse, TypeOK
  <2> QED BY <1>0, <2>1, <2>2, WireKeeps DEF ObjInv
<1>8. AnsweredOnce' BY <1>0 DEF ObjInv, AnsweredOnce
<1> QED BY <1>1, <1>2, <1>3, <1>4, <1>5, <1>6, <1>7, <1>8 DEF ObjInv

\* After a crash there is nothing but what has been written.
LEMMA PanicSendObj ==
  ASSUME TypeOK, ObjInv, NEW k \in Calls, PanicSend(k) PROVE ObjInv'
<1>0. /\ life' = "crashed"
      /\ \A c \in Conns : wr'[c] = "off" /\ resp'[c] = <<>>
      /\ \A j \in Calls : hd'[j] = "done"
      /\ \A r \in Requests : place'[r] = "spent"
      /\ UNCHANGED <<inbox, home, outcome, wire, input>>
  BY DEF PanicSend
<1>1. InboxHolds' BY <1>0 DEF ObjInv, InboxHolds
<1>2. HandlersHold' BY <1>0 DEF HandlersHold
<1>3. ObjectsHold' BY <1>0 DEF ObjectsHold, ObjectHolds
<1>4. QueuesHold' BY <1>0, BoundsAssumption DEF QueuesHold
<1>5. WritersHold' BY <1>0 DEF WritersHold
<1>6. OneEach' BY <1>0 DEF OneEach, InUse
<1>7. WireHolds' BY <1>0 DEF ObjInv, WireHolds, Written, InUse
<1>8. AnsweredOnce' BY <1>0 DEF ObjInv, AnsweredOnce
<1> QED BY <1>1, <1>2, <1>3, <1>4, <1>5, <1>6, <1>7, <1>8 DEF ObjInv

\* The object of a response that has been written goes back to the pool.
LEMMA WriteObj ==
  ASSUME TypeOK, ObjInv, NEW c \in Conns, Write(c) PROVE ObjInv'
<1>a. PICK r \in Requests : r = wcur[c] /\ place[r] = "writer" /\ home[input[r]] = c /\ wr[c] = "write"
  BY DEF Write, ObjInv, WritersHold
<1>b. PICK k \in Calls : k = input[r] /\ Ready(r) /\ hd[k] \in {"release", "done"}
  BY <1>a DEF ObjInv, ObjectsHold, ObjectHolds, Ready
<1>0. /\ r = wcur[c] /\ place[r] = "writer" /\ input[r] = k /\ wr[c] = "write" /\ home[k] = c
      /\ hd[k] \in {"release", "done"}
      /\ wire' = (IF conn[c] = "open" THEN [wire EXCEPT ![c] = Append(@, Frame(r))] ELSE wire)
      /\ wr' = [wr EXCEPT ![c] = "select"]
      /\ place' = [place EXCEPT ![r] = "free"] /\ id' = [id EXCEPT ![r] = NoId]
      /\ input' = [input EXCEPT ![r] = Nil] /\ output' = [output EXCEPT ![r] = Nil]
      /\ UNCHANGED <<life, gen, inbox, home, hd, hobj, born, outcome, resp, wcur>>
  BY <1>a, <1>b DEF Write, Recycle, wrUnch, accVars, handlerVars
<1>i. \A q \in Requests : q # r /\ InUse(q) => input[q] # k
  BY <1>0 DEF ObjInv, OneEach, InUse
<1>q. \A q \in Requests : q # r => /\ place'[q] = place[q] /\ input'[q] = input[q]
                                   /\ output'[q] = output[q] /\ id'[q] = id[q]
  BY <1>0 DEF TypeOK
<1>s. \A q \in Requests : InUse(q)' => q # r /\ InUse(q) BY <1>0, <1>q DEF InUse, TypeOK
<1>1. InboxHolds'
  <2>1. \A j \in Calls : hd[j] = "none" => hd'[j] = "none" BY <1>0 DEF TypeOK
  <2> QED BY <1>0, <2>1, InboxKeeps DEF ObjInv
<1>2. HandlersHold'
  <2>1. \A j \in Calls : hd[j] \in {"slot", "run", "respond"} => hobj[j] # r
    BY <1>0 DEF ObjInv, HandlersHold
  <2> QED BY <1>0, <1>q, <2>1 DEF ObjInv, HandlersHold
<1>3. ObjectsHold'
  <2>0. ObjectHolds(r)' BY <1>0 DEF ObjectHolds, TypeOK
  <2>1. ASSUME NEW q \in Requests, q # r PROVE ObjectHolds(q)'
    <3>1. ObjectHolds(q) BY DEF ObjInv, ObjectsHold
    <3>2. Ready(q) => Ready(q)' BY <1>0, <1>q, <2>1 DEF Ready
    <3>3. place[q] = "writer" => Writes(home[input[q]], q)'
      <4> SUFFICES ASSUME place[q] = "writer" PROVE Writes(home[input[q]], q)'
        OBVIOUS
      <4>1. Writes(home[input[q]], q) /\ home[input[q]] \in Conns BY <3>1 DEF ObjectHolds
      <4>2. home[input[q]] # c BY <1>0, <2>1, <4>1 DEF Writes
      <4> QED BY <1>0, <1>q, <2>1, <4>1, <4>2 DEF Writes, TypeOK
    <3> QED BY <1>0, <1>q, <2>1, <3>1, <3>2, <3>3 DEF ObjectHolds, Queues
  <2> QED BY <2>0, <2>1 DEF ObjectsHold
<1>4. QueuesHold'
  <2>1. \A q \in Requests : place[q] = "queue" => place'[q] = "queue" /\ input'[q] = input[q]
    BY <1>0, <1>q
  <2> QED BY <1>0, <2>1, QueuesKeep DEF ObjInv
<1>5. WritersHold'
  <2> SUFFICES ASSUME NEW d \in Conns, wr'[d] = "write"
               PROVE  wcur[d] \in Requests /\ place'[wcur[d]] = "writer" /\ home[input'[wcur[d]]] = d
    BY <1>0 DEF WritersHold
  <2>1. d # c /\ wr[d] = "write" BY <1>0 DEF TypeOK
  <2>2. wcur[d] \in Requests /\ place[wcur[d]] = "writer" /\ home[input[wcur[d]]] = d
    BY <2>1 DEF ObjInv, WritersHold
  <2> QED BY <1>0, <1>q, <2>1, <2>2
<1>6. OneEach' BY <1>q, <1>s DEF ObjInv, OneEach
<1>f. /\ Frame(r).id = k /\ Frame(r).result = k /\ outcome[k] \in AllOutcomes /\ k \notin Sends
      /\ Frame(r).values = Result(outcome[k]).values
      /\ Frame(r).failed <=> Result(outcome[k]).err = "message"
  <2>1. /\ id[r] = k /\ output[r].of = k /\ outcome[k] \in AllOutcomes /\ k \notin Sends
        /\ output[r].values = Result(outcome[k]).values /\ output[r].err = Result(outcome[k]).err
    BY <1>b DEF Ready
  <2>2. Frame(r).failed = (output[r].err = "message") BY DEF Frame
  <2>3. Frame(r).id = id[r] /\ Frame(r).result = output[r].of /\ Frame(r).values = output[r].values
    BY DEF Frame
  <2> QED BY <2>1, <2>2, <2>3
<1>g. \A q \in Requests : InUse(q)' => input'[q] # k BY <1>i, <1>q, <1>s
<1>w. \A d \in Conns : \A n \in 1 .. Len(wire[d]) : \A f :
        f = wire[d][n] => f.id # k /\ Written(d, f)'
  <2> SUFFICES ASSUME NEW d \in Conns, NEW n \in 1 .. Len(wire[d]), NEW f, f = wire[d][n]
               PROVE  f.id # k /\ Written(d, f)'
    OBVIOUS
  <2>1. Written(d, f) BY DEF ObjInv, WireHolds
  <2> QED BY <1>0, <1>q, <1>s, <2>1 DEF Written, InUse
<1>7. WireHolds'
  <2>1. CASE conn[c] # "open"
    <3>1. wire' = wire BY <1>0, <2>1
    <3>2. \A d \in Conns : \A n \in 1 .. Len(wire'[d]) : \A f :
            f = wire'[d][n] => Written(d, f)'
      BY <1>w, <3>1
    <3> QED BY <3>2 DEF WireHolds, Written
  <2>2. CASE conn[c] = "open"
    <3> SUFFICES ASSUME NEW d \in Conns, NEW n \in 1 .. Len(wire'[d]), NEW f, f = wire'[d][n]
                 PROVE  Written(d, f)'
      BY DEF WireHolds, Written
    <3>1. wire' = [wire EXCEPT ![c] = Append(@, Frame(r))] BY <1>0, <2>2
    <3>2. Len(wire[c]) \in Nat /\ wire'[c] = Append(wire[c], Frame(r)) BY <3>1 DEF TypeOK
    <3>3. CASE d = c /\ n = Len(wire[c]) + 1
      <4>1. f = Frame(r) BY <3>2, <3>3 DEF TypeOK
      <4>2. hd'[k] \in {"release", "done"} /\ home'[k] = c /\ outcome' = outcome BY <1>0
      <4>3. \A q \in Requests : InUse(q)' => input'[q] # f.id BY <1>f, <1>g, <4>1
      <4> QED BY <1>f, <3>3, <4>1, <4>2, <4>3 DEF Written
    <3>4. CASE ~(d = c /\ n = Len(wire[c]) + 1)
      <4>1. n \in 1 .. Len(wire[d]) /\ f = wire[d][n] BY <3>1, <3>2, <3>4 DEF TypeOK
      <4> QED BY <1>w, <4>1 DEF Written
    <3> QED BY <3>3, <3>4
  <2> QED BY <2>1, <2>2
<1>8. AnsweredOnce'
  <2>1. CASE conn[c] # "open" BY <1>0, <2>1 DEF ObjInv, AnsweredOnce
  <2>2. CASE conn[c] = "open"
    <3>1. wire' = [wire EXCEPT ![c] = Append(@, Frame(r))] BY <1>0, <2>2
    <3>2. \A d \in Conns : \A n \in 1 .. Len(wire'[d]) :
            \/ d = c /\ n = Len(wire[c]) + 1 /\ wire'[d][n].id = k
            \/ n \in 1 .. Len(wire[d]) /\ wire'[d][n] = wire[d][n]
      BY <1>f, <3>1 DEF TypeOK
    <3> SUFFICES ASSUME NEW d \in Conns, NEW e \in Conns,
                        NEW m \in 1 .. Len(wire'[d]), NEW n \in 1 .. Len(wire'[e]),
                        wire'[d][m].id = wire'[e][n].id
                 PROVE  d = e /\ m = n
      BY DEF AnsweredOnce
    <3>3. CASE m \in 1 .. Len(wire[d]) /\ wire'[d][m] = wire[d][m]
      <4>1. wire'[d][m].id # k BY <1>w, <3>3
      <4>2. n \in 1 .. Len(wire[e]) /\ wire'[e][n] = wire[e][n] BY <3>2, <4>1
      <4> QED BY <3>3, <4>2 DEF ObjInv, AnsweredOnce
    <3>4. CASE d = c /\ m = Len(wire[c]) + 1 /\ wire'[d][m].id = k
      <4>0. n \in 1 .. Len(wire[e]) => wire[e][n].id # k BY <1>w
      <4>1. e = c /\ n = Len(wire[c]) + 1 BY <3>2, <3>4, <4>0
      <4> QED BY <3>4, <4>1
    <3> QED BY <3>2, <3>3, <3>4
  <2> QED BY <2>1, <2>2
<1> QED BY <1>1, <1>2, <1>3, <1>4, <1>5, <1>6, <1>7, <1>8 DEF ObjInv

\* The object of a response that could not be written is dropped.
LEMMA WriteFailObj ==
  ASSUME TypeOK, ObjInv, NEW c \in Conns, WriteFail(c) PROVE ObjInv'
<1>a. PICK r \in Requests : r = wcur[c] /\ place[r] = "writer" /\ wr[c] = "write"
  BY DEF WriteFail, ObjInv, WritersHold
<1>0. /\ r = wcur[c] /\ place[r] = "writer" /\ wr[c] = "write"
      /\ wr' = [wr EXCEPT ![c] = "exit"] /\ place' = [place EXCEPT ![r] = "spent"]
      /\ UNCHANGED <<life, gen, inbox, home, hd, hobj, born, outcome, resp, wcur, wire, id, input,
                     output>>
  BY <1>a DEF WriteFail, wrUnch, accVars, handlerVars
<1>q. \A q \in Requests : q # r => place'[q] = place[q] BY <1>0 DEF TypeOK
<1>s. \A q \in Requests : InUse(q)' => InUse(q) BY <1>0, <1>q DEF InUse, TypeOK
<1>1. InboxHolds'
  <2>1. \A j \in Calls : hd[j] = "none" => hd'[j] = "none" BY <1>0 DEF TypeOK
  <2> QED BY <1>0, <2>1, InboxKeeps DEF ObjInv
<1>2. HandlersHold' BY <1>0, <1>q DEF ObjInv, HandlersHold
<1>3. ObjectsHold'
  <2>0. ObjectHolds(r)' BY <1>0 DEF ObjectHolds, TypeOK
  <2>1. ASSUME NEW q \in Requests, q # r PROVE ObjectHolds(q)'
    <3>1. ObjectHolds(q) BY DEF ObjInv, ObjectsHold
    <3>2. Ready(q) => Ready(q)' BY <1>0 DEF Ready
    <3>3. place[q] = "writer" => Writes(home[input[q]], q)'
      <4> SUFFICES ASSUME place[q] = "writer" PROVE Writes(home[input[q]], q)'
        OBVIOUS
      <4>1. Writes(home[input[q]], q) /\ home[input[q]] \in Conns BY <3>1 DEF ObjectHolds
      <4>2. home[input[q]] # c BY <1>0, <2>1, <4>1 DEF Writes
      <4> QED BY <1>0, <4>1, <4>2 DEF Writes, TypeOK
    <3> QED BY <1>0, <1>q, <2>1, <3>1, <3>2, <3>3 DEF ObjectHolds, Queues
  <2> QED BY <2>0, <2>1 DEF ObjectsHold
<1>4. QueuesHold'
  <2>1. \A q \in Requests : place[q] = "queue" => place'[q] = "queue" /\ input'[q] = input[q]
    BY <1>0, <1>q
  <2> QED BY <1>0, <2>1, QueuesKeep DEF ObjInv
<1>5. WritersHold'
  <2> SUFFICES ASSUME NEW d \in Conns, wr'[d] = "write"
               PROVE  wcur[d] \in Requests /\ place'[wcur[d]] = "writer" /\ home[input[wcur[d]]] = d
    BY <1>0 DEF WritersHold
  <2>1. d # c /\ wr[d] = "write" BY <1>0 DEF TypeOK
  <2>2. wcur[d] \in Requests /\ place[wcur[d]] = "writer" /\ home[input[wcur[d]]] = d
    BY <2>1 DEF ObjInv, WritersHold
  <2>3. home[input[r]] = c BY <1>0 DEF ObjInv, WritersHold
  <2> QED BY <1>q, <2>1, <2>2, <2>3
<1>6. OneEach' BY <1>0, <1>s DEF ObjInv, OneEach
<1>7. WireHolds'
  <2>1. \A j \in Calls : hd[j] \in {"release", "done"} =>
          hd'[j] \in {"release", "done"} /\ outcome'[j] = outcome[j]
    BY <1>0 DEF TypeOK
  <2>2. \A q \in Requests : InUse(q)' => InUse(q) /\ input'[q] = input[q]
    BY <1>0, <1>s DEF InUse, TypeOK
  <2> QED BY <1>0, <2>1, <2>2, WireKeeps DEF ObjInv
<1>8. AnsweredOnce' BY <1>0 DEF ObjInv, AnsweredOnce
<1> QED BY <1>1, <1>2, <1>3, <1>4, <1>5, <1>6, <1>7, <1>8 DEF ObjInv

\* A request that is read gets an object nobody holds.
LEMMA ReadRequestObj ==
  ASSUME TypeOK, Phases, Crashed, ObjInv, NEW c \in Conns, NEW r \in Requests, ReadRequest(c, r)
  PROVE  ObjInv'
<1> DEFINE s == inbox[c]
           t == Tail(s)
<1>a. s # <<>> /\ s \in Seq(Calls) /\ place[r] = "free" /\ life # "crashed"
  BY DEF ReadRequest, TypeOK, Crashed
<1>b. /\ Head(s) \in Calls /\ Head(s) = s[1] /\ t \in Seq(Calls) /\ Len(s) \in Nat \ {0}
      /\ Len(t) = Len(s) - 1 /\ \A n \in 1 .. Len(t) : t[n] = s[n + 1]
  BY <1>a, SeqFacts
<1>c. PICK k \in Calls : k = Head(s) BY <1>b
<1>d. gen >= 1 /\ gen \in Nat BY BoundsAssumption DEF ReadRequest, Phases, TypeOK
<1>e. /\ inbox' = [inbox EXCEPT ![c] = t] /\ place' = [place EXCEPT ![r] = "handler"]
      /\ id' = [id EXCEPT ![r] = IF k \in Sends THEN NoId ELSE k]
      /\ input' = [input EXCEPT ![r] = k] /\ hd' = [hd EXCEPT ![k] = "slot"]
      /\ hobj' = [hobj EXCEPT ![k] = r] /\ born' = [born EXCEPT ![k] = gen]
      /\ UNCHANGED <<life, gen, home, output, outcome, resp, wire, wr, wcur>>
  BY <1>c DEF ReadRequest, accVars, connVars, wrVars
<1>f. /\ home[k] = c /\ hd[k] = "none" /\ output[r] = Nil
      /\ \A n \in 2 .. Len(s) : s[n] # k
  BY <1>a, <1>b, <1>c DEF ObjInv, InboxHolds, ObjectsHold, ObjectHolds
<1> HIDE DEF t
<1>i. \A q \in Requests : InUse(q) => input[q] # k
  BY <1>f DEF ObjInv, ObjectsHold, ObjectHolds, InUse
<1>q. \A q \in Requests : q # r => /\ place'[q] = place[q] /\ input'[q] = input[q]
                                   /\ output'[q] = output[q] /\ id'[q] = id[q]
  BY <1>e DEF TypeOK
<1>r. /\ place'[r] = "handler" /\ input'[r] = k /\ output'[r] = Nil
      /\ id'[r] = IF k \in Sends THEN NoId ELSE k
  BY <1>e, <1>f DEF TypeOK
<1>h. /\ hd'[k] = "slot" /\ hobj'[k] = r /\ born'[k] = gen
      /\ \A j \in Calls : j # k => hd'[j] = hd[j] /\ hobj'[j] = hobj[j] /\ born'[j] = born[j]
  BY <1>e DEF TypeOK
<1>s. \A q \in Requests : InUse(q)' => q = r \/ InUse(q) BY <1>q DEF InUse
<1>1. InboxHolds'
  <2>1. inbox'[c] = t /\ \A d \in Conns : d # c => inbox'[d] = inbox[d] BY <1>e DEF TypeOK
  <2>2. ASSUME NEW n \in 1 .. Len(t) PROVE home[t[n]] = c /\ hd'[t[n]] = "none"
    <3>1. n + 1 \in 2 .. Len(s) /\ t[n] = s[n + 1] BY <1>b
    <3>2. s[n + 1] \in Calls /\ s[n + 1] # k BY <1>a, <1>f, <3>1
    <3>3. home[s[n + 1]] = c /\ hd[s[n + 1]] = "none" BY <1>a, <3>1 DEF ObjInv, InboxHolds
    <3> QED BY <1>h, <3>1, <3>2, <3>3
  <2>3. \A m, n \in 1 .. Len(t) : t[m] = t[n] => m = n
    <3> SUFFICES ASSUME NEW m \in 1 .. Len(t), NEW n \in 1 .. Len(t), t[m] = t[n] PROVE m = n
      OBVIOUS
    <3>1. m + 1 \in 1 .. Len(s) /\ n + 1 \in 1 .. Len(s) /\ s[m + 1] = s[n + 1] BY <1>b
    <3>2. m + 1 = n + 1 BY <3>1 DEF ObjInv, InboxHolds
    <3> QED BY <3>2
  <2>4. ASSUME NEW d \in Conns, d # c, NEW n \in 1 .. Len(inbox[d])
        PROVE  home[inbox[d][n]] = d /\ hd'[inbox[d][n]] = "none"
    <3>1. inbox[d][n] \in Calls BY DEF TypeOK
    <3>2. home[inbox[d][n]] = d /\ hd[inbox[d][n]] = "none" BY <1>a DEF ObjInv, InboxHolds
    <3> QED BY <1>f, <1>h, <2>4, <3>1, <3>2
  <2>5. \A j \in Calls : home[j] = Nil => hd'[j] = "none"
    BY <1>a, <1>f, <1>h, CallsAssumption DEF ObjInv, InboxHolds
  <2>6. ASSUME NEW d \in Conns
        PROVE  /\ \A n \in 1 .. Len(inbox'[d]) :
                    home[inbox'[d][n]] = d /\ hd'[inbox'[d][n]] = "none"
               /\ \A m, n \in 1 .. Len(inbox'[d]) : inbox'[d][m] = inbox'[d][n] => m = n
    <3>1. CASE d = c BY <2>1, <2>2, <2>3, <3>1
    <3>2. CASE d # c BY <2>1, <2>4, <3>2 DEF ObjInv, InboxHolds
    <3> QED BY <3>1, <3>2
  <2> QED BY <1>e, <2>5, <2>6 DEF InboxHolds
<1>2. HandlersHold'
  <2>1. \A j \in Calls : hd[j] \in {"slot", "run", "respond"} => hobj[j] # r
    BY <1>a DEF ObjInv, HandlersHold
  <2>2. ASSUME NEW j \in Calls, j # k
        PROVE  /\ hd'[j] \in {"slot", "run", "respond", "release"} =>
                    home'[j] \in Conns /\ born'[j] >= 1 /\ born'[j] <= gen'
               /\ hd'[j] \in {"slot", "run", "respond"} =>
                    /\ hobj'[j] \in Requests
                    /\ place'[hobj'[j]] = "handler" /\ input'[hobj'[j]] = j
                    /\ id'[hobj'[j]] = IF j \in Sends THEN NoId ELSE j
    BY <1>e, <1>h, <1>q, <2>1, <2>2 DEF ObjInv, HandlersHold
  <2>3. home'[k] \in Conns /\ born'[k] >= 1 /\ born'[k] <= gen' BY <1>d, <1>e, <1>f, <1>h
  <2> QED BY <1>h, <1>r, <2>2, <2>3 DEF HandlersHold
<1>3. ObjectsHold'
  <2>0. ObjectHolds(r)' BY <1>r, <1>h DEF ObjectHolds
  <2>1. ASSUME NEW q \in Requests, q # r PROVE ObjectHolds(q)'
    <3>1. ObjectHolds(q) BY DEF ObjInv, ObjectsHold
    <3>2. CASE InUse(q)
      <4>1. input[q] # k /\ input[q] \in Calls BY <1>i, <3>1, <3>2 DEF ObjectHolds, InUse, Ready
      <4>2. hd'[input[q]] = hd[input[q]] /\ hobj'[input[q]] = hobj[input[q]] BY <1>h, <4>1
      <4>3. Ready(q) => Ready(q)' BY <1>e, <1>q, <2>1 DEF Ready
      <4>4. Writes(home[input[q]], q) => Writes(home[input[q]], q)' BY <1>e, <1>q, <2>1 DEF Writes
      <4> QED BY <1>e, <1>q, <2>1, <3>1, <4>1, <4>2, <4>3, <4>4 DEF ObjectHolds, Queues
    <3>3. CASE ~InUse(q) BY <1>q, <2>1, <3>1, <3>3 DEF ObjectHolds, InUse
    <3> QED BY <3>2, <3>3
  <2> QED BY <2>0, <2>1 DEF ObjectsHold
<1>4. QueuesHold'
  <2>1. \A q \in Requests : place[q] = "queue" => place'[q] = "queue" /\ input'[q] = input[q]
    BY <1>a, <1>q
  <2> QED BY <1>e, <2>1, QueuesKeep DEF ObjInv
<1>5. WritersHold' BY <1>a, <1>e, <1>q DEF ObjInv, TypeOK, WritersHold
<1>6. OneEach' BY <1>i, <1>q, <1>r, <1>s DEF ObjInv, OneEach
<1>7. WireHolds'
  <2> SUFFICES ASSUME NEW d \in Conns, NEW n \in 1 .. Len(wire[d])
               PROVE  Written(d, wire[d][n])'
    BY <1>e DEF WireHolds
  <2>1. Written(d, wire[d][n]) BY DEF ObjInv, WireHolds
  <2>2. wire[d][n].id # k /\ wire[d][n].id \in Calls BY <1>f, <2>1 DEF Written
  <2>3. hd'[wire[d][n].id] = hd[wire[d][n].id] BY <1>h, <2>2
  <2>4. \A q \in Requests : InUse(q)' => input'[q] # wire[d][n].id
    BY <1>q, <1>r, <1>s, <2>1, <2>2 DEF Written
  <2> QED BY <1>e, <2>1, <2>3, <2>4 DEF Written
<1>8. AnsweredOnce' BY <1>e DEF ObjInv, AnsweredOnce
<1> QED BY <1>1, <1>2, <1>3, <1>4, <1>5, <1>6, <1>7, <1>8 DEF ObjInv

\* Every step keeps what is said of requests and objects.
LEMMA ObjStep ==
  ASSUME TypeOK, Phases, Crashed, ObjInv, [Next]_vars PROVE ObjInv'
<1>1. CASE Frame0 BY <1>1, FrameObj
<1>2. CASE Moves
  BY <1>2, ClientSendsObj, ReadRequestObj, DequeueObj, WriteObj, WriteFailObj, AcquireObj,
     DispatchObj, DispatchSendObj, PanicSendObj, RespondObj, ReleaseObj DEF Moves, Handler
<1> QED BY <1>1, <1>2, OthersFrame

-----------------------------------------------------------------------------
(* Every step keeps the slots.                                             *)

\* Steps that have nothing to do with slots.
SlotsFrame == UNCHANGED <<workers, gen>> /\ Running' = Running

\* Those that have start the server, take a slot, give one back, or end everything.
LEMMA OthersSlotsFrame ==
  ASSUME TypeOK, Phases, Crashed, ObjInv, [Next]_vars
  PROVE  Start \/ (\E k \in Calls : Acquire(k) \/ Release(k) \/ PanicSend(k)) \/ SlotsFrame
<1>h. ASSUME UNCHANGED <<workers, gen, hd>> PROVE SlotsFrame BY <1>h DEF SlotsFrame, Running
<1>1. CASE UNCHANGED vars BY <1>1, <1>h DEF vars, accVars, handlerVars
<1>2. CASE Listener
  BY <1>2, <1>h DEF Listener, Stop, StopReturn, AcceptError, AcceptStop, DrainAccept, AcceptFailed,
                    AcceptAgain, BackoffStop, Accept, Accepted, accUnch, accVars, handlerVars
<1>3. ASSUME NEW c \in Conns, Connection(c) PROVE SlotsFrame
  BY <1>3, <1>h DEF Connection, ClientConnectedFailed, ClientConnected, ReaderDone, WriterDone,
                    StopConnection, JoinReader, JoinWriter, Disconnected, Close, hcUnch, accVars,
                    handlerVars
<1>4. ASSUME NEW c \in Conns, Reader(c) PROVE SlotsFrame
  <2>1. CASE ReadFail(c) BY <1>h, <2>1 DEF ReadFail, accVars, handlerVars
  <2>2. ASSUME NEW r \in Requests, ReadRequest(c, r) PROVE SlotsFrame
    <3>1. inbox[c] # <<>> /\ inbox[c] \in Seq(Calls) /\ life # "crashed"
      BY <2>2 DEF ReadRequest, TypeOK, Crashed
    <3>2. PICK k \in Calls : k = Head(inbox[c]) /\ k = inbox[c][1] /\ 1 \in 1 .. Len(inbox[c])
      BY <3>1, SeqFacts
    <3>3. hd[k] = "none" /\ hd' = [hd EXCEPT ![k] = "slot"]
      BY <2>2, <3>1, <3>2 DEF ReadRequest, ObjInv, InboxHolds
    <3>4. Running' = Running BY <3>3 DEF Running, TypeOK
    <3> QED BY <2>2, <3>4 DEF SlotsFrame, ReadRequest, accVars
  <2> QED BY <1>4, <2>1, <2>2 DEF Reader
<1>5. ASSUME NEW c \in Conns, Writer(c) PROVE SlotsFrame
  BY <1>5, <1>h DEF Writer, WriteStop, Dequeue, Write, WriteFail, wrUnch, accVars, handlerVars
<1>6. ASSUME NEW k \in Calls, Handler(k)
      PROVE  Acquire(k) \/ Release(k) \/ PanicSend(k) \/ SlotsFrame
  <2>1. ASSUME Dispatch(k) \/ DispatchSend(k) \/ Respond(k) PROVE SlotsFrame
    <3>1. /\ UNCHANGED <<workers, gen>>
          /\ hd[k] \in {"run", "respond"} /\ hd' = [hd EXCEPT ![k] = hd'[k]]
          /\ hd'[k] \in {"respond", "release"}
      BY <2>1 DEF Dispatch, DispatchSend, Respond, hdUnch, accVars, TypeOK
    <3> QED BY <3>1 DEF SlotsFrame, Running, TypeOK
  <2> QED BY <1>6, <2>1 DEF Handler
<1>7. CASE Environment
  BY <1>7, <1>h DEF Environment, ClientDials, ClientSends, Break, envUnch, accVars, handlerVars
<1> QED BY <1>1, <1>2, <1>3, <1>4, <1>5, <1>6, <1>7 DEF Next

\* The slots stay exact.
LEMMA SlotsStep ==
  ASSUME TypeOK, Phases, Crashed, ObjInv, SlotsInv, [Next]_vars PROVE SlotsInv'
<1> USE BoundsAssumption DEF SlotsInv
<1>t. gen \in Nat /\ gen <= MaxStarts /\ workers \in [Gens -> Nat] BY DEF TypeOK
<1>0. gen = 0 => Running = {} BY DEF Running, ObjInv, HandlersHold, TypeOK
<1>1. CASE SlotsFrame BY <1>1 DEF SlotsFrame, SlotsExact
<1>2. CASE Start
  <2>1. gen' = gen + 1 /\ UNCHANGED <<workers, hd>> /\ gen < MaxStarts
    BY <1>2 DEF Start, accUnch, handlerVars
  <2>2. Running' = Running BY <2>1 DEF Running
  <2>3. gen = 0 => workers[1] = 0 BY <1>t, <2>1 DEF Gens
  <2>4. SlotsExact' BY <1>0, <1>t, <2>1, <2>2, <2>3, FS_EmptySet DEF SlotsExact
  <2> QED BY <1>t, <2>1, <2>2, <2>4 DEF Gens
<1>3. ASSUME NEW k \in Calls, Acquire(k) PROVE SlotsInv'
  <2>1. PICK g \in born[k] .. gen : workers' = [workers EXCEPT ![g] = @ + 1]
    BY <1>3 DEF Acquire
  <2>2. g \in Gens /\ g <= gen BY <1>3, <1>t, <2>1 DEF Acquire, ObjInv, HandlersHold, Gens, TypeOK
  <2>3. hd[k] = "slot" /\ hd' = [hd EXCEPT ![k] = "run"] /\ gen' = gen
    BY <1>3 DEF Acquire, hdUnch, accVars
  <2>4. Running' = Running \cup {k} /\ k \notin Running BY <2>3 DEF Running, TypeOK
  <2>5. IsFiniteSet(Running') /\ Cardinality(Running') = Cardinality(Running) + 1
    BY <2>4, FS_AddElement
  <2>6. SlotsExact' BY <1>t, <2>1, <2>2, <2>3, <2>5 DEF SlotsExact, Gens
  <2>7. \A h \in Gens : h > gen' => workers'[h] = 0 BY <1>t, <2>1, <2>2, <2>3 DEF Gens
  <2> QED BY <2>5, <2>6, <2>7
<1>4. ASSUME NEW k \in Calls, Release(k) PROVE SlotsInv'
  <2>1. /\ workers' = [workers EXCEPT ![gen] = @ - 1] /\ gen' = gen
        /\ hd[k] = "release" /\ hd' = [hd EXCEPT ![k] = "done"]
    BY <1>4 DEF Release, GiveBack, hdUnch, accVars
  <2>2. gen \in Gens BY <1>t, <2>1 DEF ObjInv, HandlersHold, Gens, TypeOK
  <2>3. Running' = Running \ {k} /\ k \in Running BY <2>1 DEF Running, TypeOK
  <2>4. IsFiniteSet(Running') /\ Cardinality(Running') = Cardinality(Running) - 1
    BY <2>3, FS_RemoveElement
  <2>5. SlotsExact' BY <1>t, <2>1, <2>2, <2>4 DEF SlotsExact
  <2>6. \A h \in Gens : h > gen' => workers'[h] = 0 BY <1>t, <2>1, <2>2 DEF Gens
  <2> QED BY <2>4, <2>5, <2>6
<1>5. ASSUME NEW k \in Calls, PanicSend(k) PROVE SlotsInv'
  <2>1. workers' = [g \in Gens |-> 0] /\ gen' = gen /\ \A j \in Calls : hd'[j] = "done"
    BY <1>5 DEF PanicSend
  <2>2. Running' = {} BY <2>1 DEF Running
  <2>3. gen = 1 => 1 \in Gens BY <1>t DEF Gens
  <2> QED BY <2>1, <2>2, <2>3, FS_EmptySet DEF SlotsExact
<1> QED BY <1>1, <1>2, <1>3, <1>4, <1>5, OthersSlotsFrame

\* A request that has not been performed has no outcome.
LEMMA NotYetStep ==
  ASSUME TypeOK, Phases, Crashed, ObjInv, NotYet, [Next]_vars PROVE NotYet'
<1>1. CASE UNCHANGED <<hd, outcome>> BY <1>1 DEF NotYet
<1>2. CASE Moves
  <2>1. ASSUME NEW c \in Conns, NEW r \in Requests, ReadRequest(c, r) PROVE NotYet'
    <3>1. inbox[c] # <<>> /\ inbox[c] \in Seq(Calls) /\ life # "crashed"
      BY <2>1 DEF ReadRequest, TypeOK, Crashed
    <3>2. PICK k \in Calls : k = Head(inbox[c]) /\ k = inbox[c][1] /\ 1 \in 1 .. Len(inbox[c])
      BY <3>1, SeqFacts
    <3>3. hd[k] = "none" /\ hd' = [hd EXCEPT ![k] = "slot"] /\ outcome' = outcome
      BY <2>1, <3>1, <3>2 DEF ReadRequest, ObjInv, InboxHolds
    <3> QED BY <3>3 DEF NotYet, TypeOK
  <2>2. ASSUME NEW c \in Conns, \/ \E k \in Calls : ClientSends(c, k)
                                \/ Dequeue(c) \/ Write(c) \/ WriteFail(c)
        PROVE  UNCHANGED <<hd, outcome>>
    BY <2>2 DEF ClientSends, Dequeue, Write, WriteFail, wrUnch, envUnch, handlerVars
  <2>3. ASSUME NEW k \in Calls, Handler(k) PROVE NotYet'
    <3> USE DEF NotYet, TypeOK
    <3>1. CASE Acquire(k) BY <3>1 DEF Acquire, slotUnch
    <3>2. CASE Dispatch(k) BY <3>2 DEF Dispatch
    <3>3. CASE DispatchSend(k) BY <3>3 DEF DispatchSend
    <3>4. CASE PanicSend(k) BY <3>4 DEF PanicSend
    <3>5. CASE Respond(k) BY <3>5 DEF Respond
    <3>6. CASE Release(k) BY <3>6 DEF Release, slotUnch
    <3> QED BY <2>3, <3>1, <3>2, <3>3, <3>4, <3>5, <3>6 DEF Handler
  <2> QED BY <1>1, <1>2, <2>1, <2>2, <2>3 DEF Moves
<1> QED BY <1>1, <1>2, OthersFrame DEF Frame0

-----------------------------------------------------------------------------
(* The theorems.                                                           *)

\* The invariant is inductive, and holds of every run of the server.
THEOREM Invariance == Spec => []IInv
<1>1. Init => IInv
  <2> SUFFICES ASSUME Init PROVE IInv
    OBVIOUS
  <2>1. TypeOK BY BoundsAssumption, CounterType DEF Init, TypeOK
  <2>2. Phases /\ Crashed BY CallsAssumption DEF Init, Phases, Crashed
  <2>3. InboxHolds /\ HandlersHold /\ ObjectsHold /\ WritersHold /\ OneEach /\ WireHolds
        /\ AnsweredOnce
    BY DEF Init, InboxHolds, HandlersHold, ObjectsHold, ObjectHolds, WritersHold, OneEach, InUse,
           WireHolds, AnsweredOnce
  <2>4. QueuesHold BY BoundsAssumption DEF Init, QueuesHold
  <2>5. Running = {} BY DEF Init, Running
  <2>6. SlotsInv BY <2>5, FS_EmptySet DEF Init, SlotsInv, SlotsExact
  <2>7. NotYet BY DEF Init, NotYet
  <2> QED BY <2>1, <2>2, <2>3, <2>4, <2>6, <2>7 DEF IInv, ObjInv
<1>2. IInv /\ [Next]_vars => IInv'
  <2> SUFFICES ASSUME IInv, [Next]_vars PROVE IInv'
    OBVIOUS
  <2>1. TypeOK /\ Phases /\ Crashed /\ ObjInv /\ SlotsInv /\ NotYet BY DEF IInv
  <2>2. TypeOK' BY <2>1, TypeStep DEF ObjInv
  <2>3. Phases' /\ Crashed' BY <2>1, PhasesStep
  <2>4. ObjInv' BY <2>1, ObjStep
  <2>5. SlotsInv' BY <2>1, SlotsStep
  <2>6. NotYet' BY <2>1, NotYetStep
  <2> QED BY <2>2, <2>3, <2>4, <2>5, <2>6 DEF IInv
<1> QED BY <1>1, <1>2, PTL DEF Spec

\* Every variable of the server keeps its type.
THEOREM TypeCorrect == Spec => []TypeOK
<1>1. IInv => TypeOK BY DEF IInv
<1> QED BY <1>1, Invariance, PTL

\* A response is written on the connection its call was sent on, and holds the result
\* of that call, through whatever connections its object has travelled.
THEOREM OwnResponseHolds == Spec => []OwnResponse
<1>1. IInv => OwnResponse BY DEF IInv, ObjInv, WireHolds, Written, OwnResponse
<1> QED BY <1>1, Invariance, PTL

\* A response tells what became of its call.
THEOREM ResponseTellsOutcomeHolds == Spec => []ResponseTellsOutcome
<1>1. ASSUME IInv PROVE ResponseTellsOutcome
  <2> SUFFICES ASSUME NEW c \in Conns, NEW n \in 1 .. Len(wire[c]), NEW f, f = wire[c][n]
               PROVE  /\ f.failed <=> outcome[f.id] \notin {"ok", "errorEmpty"}
                      /\ ~f.failed => f.values = "all"
    BY DEF ResponseTellsOutcome
  <2>1. Written(c, f) BY <1>1 DEF IInv, ObjInv, WireHolds
  <2> QED BY <2>1, ResultType DEF Written
<1> QED BY <1>1, Invariance, PTL

\* No call is answered twice, on one connection or on two.
THEOREM AnsweredOnceHolds == Spec => []AnsweredOnce
<1>1. IInv => AnsweredOnce BY DEF IInv, ObjInv
<1> QED BY <1>1, Invariance, PTL

\* An object in use has one holder, and any other has none.
THEOREM OneHolderHolds == Spec => []OneHolder
<1>1. ASSUME IInv PROVE OneHolder
  <2> SUFFICES ASSUME NEW r \in Requests
               PROVE  Cardinality({k \in Calls : Handles(k, r)})
                        + Cardinality({q \in Conns \X (1 .. PendingResponses) : Queues(q[1], q[2], r)})
                        + Cardinality({c \in Conns : Writes(c, r)})
                      = IF place[r] \in {"handler", "queue", "writer"} THEN 1 ELSE 0
    BY DEF OneHolder
  <2> DEFINE H == {k \in Calls : Handles(k, r)}
             Q == {q \in Conns \X (1 .. PendingResponses) : Queues(q[1], q[2], r)}
             W == {c \in Conns : Writes(c, r)}
  <2>0. /\ TypeOK /\ HandlersHold /\ ObjectHolds(r) /\ QueuesHold /\ WritersHold
    BY <1>1 DEF IInv, ObjInv, ObjectsHold
  <2>1. place[r] # "handler" => H = {} BY <2>0 DEF HandlersHold, Handles
  <2>2. place[r] # "queue" => Q = {} BY <2>0 DEF QueuesHold, Queues
  <2>3. place[r] # "writer" => W = {} BY <2>0 DEF WritersHold, Writes
  <2>4. ASSUME place[r] = "handler" PROVE H = {input[r]}
    BY <2>0, <2>4 DEF ObjectHolds, HandlersHold, Handles
  <2>5. ASSUME place[r] = "queue" PROVE \E q : Q = {q}
    <3>1. PICK n \in 1 .. Len(resp[home[input[r]]]) : Queues(home[input[r]], n, r)
      BY <2>0, <2>5 DEF ObjectHolds
    <3>2. home[input[r]] \in Conns BY <2>0, <2>5 DEF ObjectHolds
    <3>3. n \in 1 .. PendingResponses BY <2>0, <3>1, <3>2, BoundsAssumption DEF QueuesHold, TypeOK
    <3>4. <<home[input[r]], n>> \in Q BY <3>1, <3>2, <3>3
    <3>5. \A d \in Conns, m \in 1 .. PendingResponses :
            Queues(d, m, r) => d = home[input[r]] /\ m = n
      BY <2>0, <3>1, <3>2 DEF QueuesHold, Queues
    <3>6. Q = {<<home[input[r]], n>>} BY <3>4, <3>5
    <3> QED BY <3>6
  <2>6. ASSUME place[r] = "writer" PROVE W = {home[input[r]]}
    BY <2>0, <2>6 DEF ObjectHolds, WritersHold, Writes
  <2>7. Cardinality({}) = 0 /\ \A x : Cardinality({x}) = 1 BY FS_EmptySet, FS_Singleton
  <2> HIDE DEF H, Q, W
  <2>8. Cardinality(H) + Cardinality(Q) + Cardinality(W)
        = IF place[r] \in {"handler", "queue", "writer"} THEN 1 ELSE 0
    <3>1. CASE place[r] = "handler"
      <4>1. Cardinality(H) = 1 BY <2>4, <2>7, <3>1
      <4>2. Cardinality(Q) = 0 /\ Cardinality(W) = 0 BY <2>2, <2>3, <2>7, <3>1
      <4> QED BY <3>1, <4>1, <4>2
    <3>2. CASE place[r] = "queue"
      <4>1. Cardinality(Q) = 1 BY <2>5, <2>7, <3>2
      <4>2. Cardinality(H) = 0 /\ Cardinality(W) = 0 BY <2>1, <2>3, <2>7, <3>2
      <4> QED BY <3>2, <4>1, <4>2
    <3>3. CASE place[r] = "writer"
      <4>1. Cardinality(W) = 1 BY <2>6, <2>7, <3>3
      <4>2. Cardinality(H) = 0 /\ Cardinality(Q) = 0 BY <2>1, <2>2, <2>7, <3>3
      <4> QED BY <3>3, <4>1, <4>2
    <3>4. CASE place[r] \notin {"handler", "queue", "writer"} BY <2>1, <2>2, <2>3, <2>7, <3>4
    <3> QED BY <3>1, <3>2, <3>3, <3>4
  <2> QED BY <2>8 DEF H, Q, W
<1> QED BY <1>1, Invariance, PTL

\* On a server started once, a slot is neither leaked nor given back twice.
THEOREM SlotsExactHolds == Spec => []SlotsExact
<1>1. IInv => SlotsExact BY DEF IInv, SlotsInv
<1> QED BY <1>1, Invariance, PTL

\* On such a server no more than Concurrency methods run at a time.
THEOREM ConcurrencyLimitHolds == ASSUME MaxStarts = 1 PROVE Spec => []ConcurrencyLimit
<1>1. ASSUME IInv PROVE ConcurrencyLimit
  <2> DEFINE R == {k \in Calls : hd[k] = "run"}
  <2>1. R \subseteq Running /\ IsFiniteSet(Running) /\ SlotsExact /\ TypeOK
    BY <1>1 DEF IInv, SlotsInv, Running
  <2>2. IsFiniteSet(R) /\ Cardinality(R) <= Cardinality(Running) BY <2>1, FS_Subset
  <2>3. ASSUME gen = 0 PROVE R = {}
    <3>1. HandlersHold BY <1>1 DEF IInv, ObjInv
    <3>2. ASSUME NEW k \in Calls, hd[k] = "run" PROVE FALSE
      <4>1. born[k] \in 0 .. MaxStarts BY <2>1 DEF TypeOK
      <4>2. born[k] >= 1 /\ born[k] <= gen BY <3>1, <3>2 DEF HandlersHold
      <4> QED BY <2>3, <4>1, <4>2, BoundsAssumption
    <3> QED BY <3>2
  <2>4. Cardinality(R) \in Nat /\ Cardinality(Running) \in Nat
    BY <2>1, <2>2, FS_CardinalityType
  <2>5. CASE gen = 0 BY <2>3, <2>5, FS_EmptySet, BoundsAssumption DEF ConcurrencyLimit
  <2>6. CASE gen = 1
    <3>1. Cardinality(Running) = workers[1] /\ workers[1] \in 0 .. Concurrency
      BY <2>1, <2>6 DEF SlotsExact, TypeOK, Gens
    <3> HIDE DEF R
    <3>2. Cardinality(R) <= Concurrency BY <2>2, <2>4, <3>1, BoundsAssumption
    <3> QED BY <3>2 DEF ConcurrencyLimit, R
  <2>7. gen \in 0 .. 1 BY <2>1 DEF TypeOK
  <2> QED BY <2>5, <2>6, <2>7
<1> QED BY <1>1, Invariance, PTL

-----------------------------------------------------------------------------
(* The refinement.                                                         *)

\* A response that is written answers its call for the first time.
LEMMA WriteAnswers ==
  ASSUME TypeOK, ObjInv, NEW c \in Conns, Write(c), conn[c] = "open"
  PROVE  \E k \in Calls : Promise!Answer(c, k)
<1> DEFINE r == wcur[c]
<1>1. r \in Requests /\ place[r] = "writer" /\ home[input[r]] = c
  BY DEF Write, ObjInv, WritersHold
<1>2. Ready(r) BY <1>1 DEF ObjInv, ObjectsHold, ObjectHolds
<1>3. PICK k \in Calls : k = input[r] /\ k \notin Sends /\ home[k] = c /\ outcome[k] \in AllOutcomes
  BY <1>1, <1>2 DEF Ready
<1>4. PICK o \in AllOutcomes : o = outcome[k] BY <1>3
<1>5. ~Promise!Answered(k)
  <2>1. InUse(r) BY <1>1 DEF InUse
  <2> QED BY <1>1, <1>3, <2>1 DEF Promise!Answered, ObjInv, WireHolds, Written
<1>6. Frame(r).failed = (o \notin Promise!Clean)
  <2>1. Frame(r).failed = (Result(o).err = "message") BY <1>2, <1>3, <1>4 DEF Frame, Ready
  <2>2. (Result(o).err = "message") = (o \notin Promise!Clean) BY ResultType DEF Promise!Clean
  <2> QED BY <2>1, <2>2
<1>7. /\ Frame(r).id = k /\ Frame(r).result = k /\ Frame(r).values = Result(o).values
  BY <1>2, <1>3, <1>4 DEF Frame, Ready
<1>8. Frame(r) = [id |-> k, result |-> k, values |-> Result(o).values,
                  failed |-> o \notin Promise!Clean]
  BY <1>6, <1>7 DEF Frame
<1>9. Result(o).values \in IF o \in Promise!Clean THEN {"all"} ELSE {"none", "some", "all"}
  BY ResultType DEF Promise!Clean
<1>10. wire' = [wire EXCEPT ![c] = Append(@, Frame(r))] /\ UNCHANGED <<home, outcome>>
  BY DEF Write, wrUnch, handlerVars
<1>11. outcome[k] # "none" BY <1>3 DEF AllOutcomes
<1> HIDE DEF r
<1> QED BY <1>3, <1>4, <1>5, <1>8, <1>9, <1>10, <1>11 DEF Promise!Answer

\* Every step of the server is one of Service, or changes nothing of it.
LEMMA StepServes ==
  ASSUME IInv, [Next]_vars PROVE [Promise!Next]_<<home, outcome, wire>>
<1>0. TypeOK /\ Phases /\ Crashed /\ ObjInv /\ NotYet BY DEF IInv
<1>1. CASE Frame0 BY <1>1 DEF Frame0
<1>2. ASSUME NEW c \in Conns, NEW k \in Calls, ClientSends(c, k) PROVE Promise!Send(c, k)
  BY <1>2 DEF ClientSends, Promise!Send, envUnch, wrVars, handlerVars
<1>3. ASSUME NEW c \in Conns, \/ \E r \in Requests : ReadRequest(c, r)
                              \/ Dequeue(c) \/ WriteFail(c)
      PROVE  UNCHANGED <<home, outcome, wire>>
  BY <1>3 DEF ReadRequest, Dequeue, WriteFail, wrUnch, wrVars, handlerVars
<1>4. ASSUME NEW c \in Conns, Write(c) PROVE [Promise!Next]_<<home, outcome, wire>>
  <2>1. CASE conn[c] = "open" BY <1>0, <1>4, <2>1, WriteAnswers DEF Promise!Next
  <2>2. CASE conn[c] # "open" BY <1>4, <2>2 DEF Write, wrUnch, handlerVars
  <2> QED BY <2>1, <2>2
<1>5. ASSUME NEW k \in Calls, Dispatch(k) \/ DispatchSend(k) PROVE Promise!Perform(k)
  <2>1. hd[k] = "run" BY <1>5 DEF Dispatch, DispatchSend
  <2>2. home[k] # Nil /\ outcome[k] = "none"
    BY <1>0, <2>1, CallsAssumption DEF ObjInv, HandlersHold, NotYet
  <2>3. \E o \in Outcomes[k] : outcome' = [outcome EXCEPT ![k] = o]
    BY <1>5 DEF Dispatch, DispatchSend
  <2>4. UNCHANGED <<home, wire>> BY <1>5 DEF Dispatch, DispatchSend, hdUnch, wrVars
  <2> QED BY <2>2, <2>3, <2>4 DEF Promise!Perform
<1>6. ASSUME NEW k \in Calls, Acquire(k) \/ PanicSend(k) \/ Respond(k) \/ Release(k)
      PROVE  UNCHANGED <<home, outcome, wire>>
  BY <1>6 DEF Acquire, PanicSend, Respond, Release, slotUnch, hdUnch, wrVars
<1>7. CASE Moves
  <2>1. ASSUME NEW k \in Calls, Handler(k) PROVE [Promise!Next]_<<home, outcome, wire>>
    BY <2>1, <1>5, <1>6 DEF Handler, Promise!Next
  <2>2. ASSUME NEW c \in Conns, NEW k \in Calls, ClientSends(c, k) PROVE Promise!Next
    BY <2>2, <1>2 DEF Promise!Next
  <2> QED BY <1>3, <1>4, <1>7, <2>1, <2>2 DEF Moves
<1> QED BY <1>0, <1>1, <1>7, OthersFrame

\* The server implements Service: whatever breaks, a request is performed at most once,
\* and answered at most once, where it came from, with what became of it.
THEOREM Refinement == Spec => Serves
<1>1. Init => Promise!Init BY DEF Init, Promise!Init
<1>2. IInv /\ [Next]_vars => [Promise!Next]_<<home, outcome, wire>> BY StepServes
<1> QED BY <1>1, <1>2, Invariance, PTL DEF Spec, Serves, Promise!Spec

=============================================================================

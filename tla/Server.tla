------------------------------- MODULE Server -------------------------------
(***************************************************************************)
(* The RPC server of server.go and server_request.go.                      *)
(*                                                                         *)
(* acceptConnections accepts connections one at a time and starts a        *)
(* handleConnection for each.  That runs a reader, which starts a          *)
(* handleRequest goroutine for every request it reads, and a writer, which *)
(* writes the responses of the connection's responseChan.  A handler first *)
(* takes one of the Concurrency slots of workerChain, calls the method,    *)
(* queues its serverRequest on the responseChan, which blocks while that   *)
(* is full, and gives the slot back.  The serverRequest objects come from  *)
(* a pool that all connections share.                                      *)
(*                                                                         *)
(* The clients and the network are environment: a client sends requests on *)
(* its connection, reads whatever is written to it, and may go away at any *)
(* moment.  The id of a request is the call itself, or NoId for a Send.    *)
(***************************************************************************)
EXTENDS Integers, Sequences, FiniteSets

CONSTANTS
  Conns,            \* the connections clients open, each of them once
  Calls,            \* the requests clients send, each of them once
  Sends,            \* those with id 0, which get no response
  Requests,         \* the serverRequest objects
  Concurrency,      \* Server.Concurrency, the capacity of workerChain
  PendingResponses, \* Server.PendingResponses, the capacity of a responseChan
  Outcomes,         \* per request, what may become of it
  FailingHooks,     \* the plugin hooks that may return an error
  Stoppable,        \* whether Stop is ever called
  MaxStarts,        \* bound: how often the server is started
  MaxFaults,        \* bound: failed accepts and hooks, broken connections
  NoId,             \* the id 0
  Nil               \* no object, no connection

Gens == 1 .. MaxStarts

\* What dispatch does with a request: its method returns values, or an error with a
\* message, or one without; the request names no method or has arguments that cannot
\* be decoded; one of the values cannot be encoded; the method panics.
AllOutcomes == {"ok", "error", "errorEmpty", "rejected", "unencodable", "panic"}

ASSUME CallsAssumption ==
  /\ Sends \subseteq Calls
  /\ NoId \notin Calls
  /\ Nil \notin Requests \cup Conns \cup Calls
  /\ Conns \cap {"none", "pending", "err"} = {}

ASSUME EnvironmentAssumption ==
  /\ Outcomes \in [Calls -> SUBSET AllOutcomes]
  /\ FailingHooks \subseteq {"acceptConnection", "clientConnected"}
  /\ Stoppable \in BOOLEAN

ASSUME BoundsAssumption ==
  /\ Concurrency \in Nat \ {0}
  /\ PendingResponses \in Nat \ {0}
  /\ MaxStarts \in Nat
  /\ MaxFaults \in Nat

VARIABLES
  \* the Server
  life,      \* "stopped", "running", "stopping" or "crashed"
  gen,       \* number of Starts so far; each makes a new workerChain
  listener,  \* "open" or "closed"
  acc,       \* acceptConnections
  accept,    \* its goroutine in listener.Accept: "none", "pending", "err" or
             \* the accepted connection
  workers,   \* len(workerChain) of each generation
  faults,    \* faults so far
  \* per connection
  conn,      \* the connection
  hc,        \* handleConnection
  rd,        \* connectionReader
  wr, wcur,  \* connectionWriter and its request
  resp,      \* responseChan
  inbox,     \* requests on their way to the server
  wire,      \* history: the responses written to the connection
  \* per request read: its handleRequest goroutine
  home,      \* the connection the request was sent on
  hd, hobj,  \* the goroutine and its serverRequest
  born,      \* the generation it was started in
  \* per serverRequest
  place,     \* who holds the object
  id,        \* request.id
  input,     \* the call whose payload request.input was filled with
  output,    \* the call whose values request.output holds and how many of them,
             \* and what request.err is
  \* per request
  outcome    \* history: what became of it

accVars == <<gen, listener, acc, accept>>
connVars == <<conn, hc, rd>>
wrVars == <<wr, wcur, wire>>
handlerVars == <<hd, hobj, born, outcome>>
objVars == <<place, id, input, output>>
vars == <<life, accVars, workers, faults, connVars, wrVars, resp, inbox, home,
          handlerVars, objVars>>

-----------------------------------------------------------------------------
Init ==
  /\ life = "stopped" /\ gen = 0 /\ listener = "open"
  /\ acc = "off" /\ accept = "none"
  /\ workers = [g \in Gens |-> 0] /\ faults = 0
  /\ conn = [c \in Conns |-> "none"]
  /\ hc = [c \in Conns |-> "off"]
  /\ rd = [c \in Conns |-> "off"]
  /\ wr = [c \in Conns |-> "off"]
  /\ wcur = [c \in Conns |-> Nil]
  /\ resp = [c \in Conns |-> <<>>]
  /\ inbox = [c \in Conns |-> <<>>]
  /\ wire = [c \in Conns |-> <<>>]
  /\ home = [k \in Calls |-> Nil]
  /\ hd = [k \in Calls |-> "none"]
  /\ hobj = [k \in Calls |-> Nil]
  /\ born = [k \in Calls |-> 0]
  /\ place = [r \in Requests |-> "free"]
  /\ id = [r \in Requests |-> NoId]
  /\ input = [r \in Requests |-> Nil]
  /\ output = [r \in Requests |-> Nil]
  /\ outcome = [k \in Calls |-> "none"]

-----------------------------------------------------------------------------
(* The clients and the network.                                            *)

envUnch == UNCHANGED <<life, accVars, workers, hc, rd, wrVars, resp, handlerVars, objVars>>

\* A connection that is dialled waits in the listener's backlog.
ClientDials(c) ==
  /\ conn[c] = "none"
  /\ conn' = [conn EXCEPT ![c] = "backlog"]
  /\ UNCHANGED <<faults, inbox, home>> /\ envUnch

ClientSends(c, k) ==
  /\ conn[c] \in {"backlog", "open"}
  /\ home[k] = Nil
  /\ home' = [home EXCEPT ![k] = c]
  /\ inbox' = [inbox EXCEPT ![c] = Append(@, k)]
  /\ UNCHANGED <<faults, conn>> /\ envUnch

Break(c) ==
  /\ conn[c] = "open" /\ faults < MaxFaults
  /\ conn' = [conn EXCEPT ![c] = "broken"]
  /\ faults' = faults + 1
  /\ UNCHANGED <<inbox, home>> /\ envUnch

-----------------------------------------------------------------------------
(* Start, Stop and acceptConnections.                                      *)

accUnch == UNCHANGED <<workers, rd, wrVars, resp, inbox, home, handlerVars, objVars>>

Start ==
  /\ life = "stopped" /\ gen < MaxStarts
  /\ life' = "running" /\ gen' = gen + 1
  /\ acc' = "select" /\ accept' = "pending"
  /\ UNCHANGED <<listener, faults, conn, hc>> /\ accUnch

Stop ==
  /\ Stoppable /\ life = "running"
  /\ life' = "stopping"
  /\ UNCHANGED <<accVars, faults, conn, hc>> /\ accUnch

\* stopWg.Wait() returns: it counts acceptConnections and the connections it has
\* started, not the handlers.
StopReturn ==
  /\ life = "stopping"
  /\ acc = "off" /\ \A c \in Conns : hc[c] = "off"
  /\ life' = "stopped"
  /\ UNCHANGED <<accVars, faults, conn, hc>> /\ accUnch

\* The goroutine in listener.Accept ends.
Accept(c) ==
  /\ accept = "pending" /\ conn[c] = "backlog" /\ listener = "open"
  /\ accept' = c
  /\ conn' = [conn EXCEPT ![c] = "open"]
  /\ UNCHANGED <<life, gen, listener, acc, faults, hc>> /\ accUnch

AcceptError ==
  /\ accept = "pending"
  /\ \/ faults < MaxFaults /\ faults' = faults + 1
     \/ listener = "closed" /\ UNCHANGED faults
  /\ accept' = "err"
  /\ UNCHANGED <<life, gen, listener, acc, conn, hc>> /\ accUnch

\* The select chooses stopChan and closes the listener.
AcceptStop ==
  /\ acc = "select" /\ life = "stopping"
  /\ acc' = "drain" /\ listener' = "closed"
  /\ UNCHANGED <<life, gen, accept, faults, conn, hc>> /\ accUnch

\* A connection that was accepted meanwhile is dropped without being closed.
DrainAccept ==
  /\ acc = "drain" /\ accept # "pending"
  /\ acc' = "off" /\ accept' = "none"
  /\ UNCHANGED <<life, gen, listener, faults, conn, hc>> /\ accUnch

Accepted(c) ==
  /\ acc = "select" /\ accept = c
  /\ hc' = [hc EXCEPT ![c] = "start"]
  /\ accept' = "pending"
  /\ UNCHANGED <<life, gen, listener, acc, faults, conn>> /\ accUnch

\* aErr or pErr is set; a connection that a hook refuses is not closed.
AcceptFailed ==
  /\ acc = "select"
  /\ \/ accept = "err" /\ UNCHANGED faults
     \/ /\ accept \in Conns /\ "acceptConnection" \in FailingHooks
        /\ faults < MaxFaults /\ faults' = faults + 1
  /\ acc' = "backoff" /\ accept' = "none"
  /\ UNCHANGED <<life, gen, listener, conn, hc>> /\ accUnch

AcceptAgain ==
  /\ acc = "backoff"
  /\ acc' = "select" /\ accept' = "pending"
  /\ UNCHANGED <<life, gen, listener, faults, conn, hc>> /\ accUnch

\* The listener stays open.
BackoffStop ==
  /\ acc = "backoff" /\ life = "stopping"
  /\ acc' = "off"
  /\ UNCHANGED <<life, gen, listener, accept, faults, conn, hc>> /\ accUnch

-----------------------------------------------------------------------------
(* handleConnection.                                                       *)

hcUnch == UNCHANGED <<life, accVars, workers, wcur, wire, resp, inbox, home,
                      handlerVars, objVars>>

\* A ClientConnected hook fails: handleConnection returns and the connection
\* stays open.
ClientConnectedFailed(c) ==
  /\ hc[c] = "start" /\ "clientConnected" \in FailingHooks
  /\ faults < MaxFaults /\ faults' = faults + 1
  /\ hc' = [hc EXCEPT ![c] = "off"]
  /\ UNCHANGED <<conn, rd, wr>> /\ hcUnch

ClientConnected(c) ==
  /\ hc[c] = "start"
  /\ hc' = [hc EXCEPT ![c] = "up"]
  /\ rd' = [rd EXCEPT ![c] = "read"]
  /\ wr' = [wr EXCEPT ![c] = "select"]
  /\ UNCHANGED <<faults, conn>> /\ hcUnch

\* Mutant: the connection stays open.
CloseForgotten(c) ==
  /\ hc' = [hc EXCEPT ![c] = "closing"]
  /\ UNCHANGED <<conn, faults>> /\ hcUnch

\* close(stopChan); conn.Close()
Close(c) ==
  /\ hc' = [hc EXCEPT ![c] = "closing"]
  /\ conn' = [conn EXCEPT ![c] = "closed"]
  /\ UNCHANGED faults /\ hcUnch

ReaderDone(c) ==
  /\ hc[c] = "up" /\ rd[c] = "exit"
  /\ rd' = [rd EXCEPT ![c] = "off"]
  /\ Close(c) /\ UNCHANGED wr

WriterDone(c) ==
  /\ hc[c] = "up" /\ wr[c] = "exit"
  /\ wr' = [wr EXCEPT ![c] = "off"]
  /\ Close(c) /\ UNCHANGED rd

StopConnection(c) ==
  /\ hc[c] = "up" /\ life = "stopping"
  /\ Close(c) /\ UNCHANGED <<rd, wr>>

JoinReader(c) ==
  /\ hc[c] = "closing" /\ rd[c] = "exit"
  /\ rd' = [rd EXCEPT ![c] = "off"]
  /\ UNCHANGED <<faults, conn, hc, wr>> /\ hcUnch

JoinWriter(c) ==
  /\ hc[c] = "closing" /\ wr[c] = "exit"
  /\ wr' = [wr EXCEPT ![c] = "off"]
  /\ UNCHANGED <<faults, conn, hc, rd>> /\ hcUnch

\* handleConnection returns.  The responses left in responseChan are never
\* written, and nothing receives from it any more.
Disconnected(c) ==
  /\ hc[c] = "closing" /\ rd[c] = "off" /\ wr[c] = "off"
  /\ hc' = [hc EXCEPT ![c] = "off"]
  /\ UNCHANGED <<faults, conn, rd, wr>> /\ hcUnch

-----------------------------------------------------------------------------
(* connectionReader and serverRequest.readFrom.                            *)

\* The request is read into an object of the pool, or a new one, and a goroutine
\* is started for it.  (The reader holds the object from before it reads; what
\* it holds when a read fails is dropped.)
ReadRequest(c, r) ==
  LET k == Head(inbox[c]) IN
  /\ rd[c] = "read" /\ conn[c] # "closed"
  /\ inbox[c] # <<>>
  /\ place[r] = "free"
  /\ inbox' = [inbox EXCEPT ![c] = Tail(@)]
  /\ place' = [place EXCEPT ![r] = "handler"]
  /\ id' = [id EXCEPT ![r] = IF k \in Sends THEN NoId ELSE k]
  /\ input' = [input EXCEPT ![r] = k]
  /\ hd' = [hd EXCEPT ![k] = "slot"]
  /\ hobj' = [hobj EXCEPT ![k] = r]
  /\ born' = [born EXCEPT ![k] = gen]
  /\ UNCHANGED <<life, accVars, workers, faults, connVars, wrVars, resp, home, output, outcome>>

\* The connection ends before the next request is complete, or stopChan is closed,
\* which happens together with the close of the connection.
ReadFail(c) ==
  /\ rd[c] = "read" /\ conn[c] # "open"
  /\ rd' = [rd EXCEPT ![c] = "exit"]
  /\ UNCHANGED <<life, accVars, workers, faults, conn, hc, wrVars, resp, inbox, home,
                 handlerVars, objVars>>

-----------------------------------------------------------------------------
(* handleRequest.                                                          *)

hdUnch == UNCHANGED <<life, accVars, faults, connVars, wrVars, inbox, home, hobj, born>>
slotUnch == UNCHANGED <<resp, objVars, outcome>>

\* Mutant: workerChain has one place too many.
AcquireOver(k) ==
  /\ hd[k] = "slot"
  /\ \E g \in born[k] .. gen :
       /\ workers[g] <= Concurrency
       /\ workers' = [workers EXCEPT ![g] = @ + 1]
  /\ hd' = [hd EXCEPT ![k] = "run"]
  /\ slotUnch /\ hdUnch

\* s.workerChain <- struct{}{}: a goroutine that has outlived a restart may have
\* evaluated s.workerChain before it.
Acquire(k) ==
  /\ hd[k] = "slot"
  /\ \E g \in born[k] .. gen :
       /\ workers[g] < Concurrency
       /\ workers' = [workers EXCEPT ![g] = @ + 1]
  /\ hd' = [hd EXCEPT ![k] = "run"]
  /\ slotUnch /\ hdUnch

\* Mutant: the result of the last use stays in the object.
ResetOutputForgotten(r) ==
  /\ place' = [place EXCEPT ![r] = "free"]
  /\ id' = [id EXCEPT ![r] = NoId]
  /\ input' = [input EXCEPT ![r] = Nil]
  /\ UNCHANGED output

\* reset() and requestPool.Put
Recycle(r) ==
  /\ place' = [place EXCEPT ![r] = "free"]
  /\ id' = [id EXCEPT ![r] = NoId]
  /\ input' = [input EXCEPT ![r] = Nil]
  /\ output' = [output EXCEPT ![r] = Nil]

\* Mutant: an error that comes after values is not returned.
ErrorAfterValuesForgotten(o) ==
  CASE o \in {"ok", "error", "errorEmpty"} -> [values |-> "all", err |-> "none"]
    [] o = "unencodable" -> [values |-> "some", err |-> "message"]
    [] o \in {"rejected", "panic"} -> [values |-> "none", err |-> "message"]

\* What dispatch, and the recovery from a panic, leave in output and err: values come
\* before the error.
Result(o) ==
  CASE o = "ok" -> [values |-> "all", err |-> "none"]
    [] o = "error" -> [values |-> "all", err |-> "message"]
    [] o = "errorEmpty" -> [values |-> "all", err |-> "empty"]
    [] o = "unencodable" -> [values |-> "some", err |-> "message"]
    [] o \in {"rejected", "panic"} -> [values |-> "none", err |-> "message"]

\* The values of call k are added to what the buffer holds, and the error is replaced.
Filled(buffer, k, o) ==
  IF buffer = Nil THEN [of |-> k, values |-> Result(o).values, err |-> Result(o).err]
  ELSE [buffer EXCEPT !.err = Result(o).err]

\* Mutant: a method that has failed is called once more.
DispatchRetries(k) ==
  LET r == hobj[k] IN
  /\ hd[k] = "run" /\ id[r] # NoId
  /\ \E o \in Outcomes[k] :
       /\ output' = [output EXCEPT ![r] = Filled(@, input[r], o)]
       /\ outcome' = [outcome EXCEPT ![k] = o]
       /\ hd' = [hd EXCEPT ![k] = IF o = "error" THEN "run" ELSE "respond"]
  /\ UNCHANGED <<workers, resp, place, id, input>> /\ hdUnch

\* A call is dispatched: what comes of it is in the object.
Dispatch(k) ==
  LET r == hobj[k] IN
  /\ hd[k] = "run" /\ id[r] # NoId
  /\ \E o \in Outcomes[k] :
       /\ output' = [output EXCEPT ![r] = Filled(@, input[r], o)]
       /\ outcome' = [outcome EXCEPT ![k] = o]
  /\ hd' = [hd EXCEPT ![k] = "respond"]
  /\ UNCHANGED <<workers, resp, place, id, input>> /\ hdUnch

\* Mutant: a Send's object is put back, and queued all the same.
DispatchSendFallsThrough(k) ==
  LET r == hobj[k] IN
  /\ hd[k] = "run" /\ id[r] = NoId
  /\ Recycle(r)
  /\ hd' = [hd EXCEPT ![k] = "respond"]
  /\ UNCHANGED <<workers, resp, outcome>> /\ hdUnch

\* A Send is dispatched, and whatever its method returns is dropped.
DispatchSend(k) ==
  LET r == hobj[k] IN
  /\ hd[k] = "run" /\ id[r] = NoId
  /\ \E o \in Outcomes[k] \ {"panic"} : outcome' = [outcome EXCEPT ![k] = o]
  /\ Recycle(r)
  /\ hd' = [hd EXCEPT ![k] = "release"]
  /\ UNCHANGED <<workers, resp>> /\ hdUnch

\* Its method panics: the deferred function returns before it recovers, and the process
\* ends with everything in it.
PanicSend(k) ==
  /\ hd[k] = "run" /\ id[hobj[k]] = NoId
  /\ "panic" \in Outcomes[k]
  /\ life' = "crashed"
  /\ listener' = "closed" /\ acc' = "off" /\ accept' = "none"
  /\ conn' = [c \in Conns |-> "closed"]
  /\ hc' = [c \in Conns |-> "off"]
  /\ rd' = [c \in Conns |-> "off"]
  /\ wr' = [c \in Conns |-> "off"]
  /\ resp' = [c \in Conns |-> <<>>]
  /\ hd' = [j \in Calls |-> "done"]
  /\ place' = [r \in Requests |-> "spent"]
  /\ workers' = [g \in Gens |-> 0]
  /\ UNCHANGED <<gen, faults, wcur, wire, inbox, home, hobj, born, id, input, output, outcome>>

\* responseChan <- request
Respond(k) ==
  LET r == hobj[k] IN
  /\ hd[k] = "respond"
  /\ Len(resp[home[k]]) < PendingResponses
  /\ resp' = [resp EXCEPT ![home[k]] = Append(@, r)]
  /\ place' = [place EXCEPT ![r] = "queue"]
  /\ hd' = [hd EXCEPT ![k] = "release"]
  /\ UNCHANGED <<workers, id, input, output, outcome>> /\ hdUnch

\* Mutant: the handler keeps its slot.
GiveBackForgotten(k) == UNCHANGED workers

\* <-s.workerChain, the chain of this moment
GiveBack(k) == workers[gen] > 0 /\ workers' = [workers EXCEPT ![gen] = @ - 1]

\* The deferred function reads request.id, although by now the object may be another
\* request's: whatever it finds, it gives a slot back.
Release(k) ==
  /\ hd[k] = "release"
  /\ GiveBack(k)
  /\ hd' = [hd EXCEPT ![k] = "done"]
  /\ slotUnch /\ hdUnch

-----------------------------------------------------------------------------
(* connectionWriter and serverRequest.writeTo.                             *)

wrUnch == UNCHANGED <<life, accVars, workers, faults, connVars, inbox, home, handlerVars>>

WriteStop(c) ==
  /\ wr[c] = "select" /\ hc[c] = "closing"
  /\ wr' = [wr EXCEPT ![c] = "exit"]
  /\ UNCHANGED <<wcur, wire, resp, objVars>> /\ wrUnch

Dequeue(c) ==
  /\ wr[c] = "select" /\ resp[c] # <<>>
  /\ resp' = [resp EXCEPT ![c] = Tail(@)]
  /\ wcur' = [wcur EXCEPT ![c] = Head(resp[c])]
  /\ place' = [place EXCEPT ![Head(resp[c])] = "writer"]
  /\ wr' = [wr EXCEPT ![c] = "write"]
  /\ UNCHANGED <<wire, id, input, output>> /\ wrUnch

\* The frame of a response: an error is there when its message is not empty.
Frame(r) ==
  [id |-> id[r], result |-> output[r].of, values |-> output[r].values,
   failed |-> output[r].err = "message"]

\* Mutant: a response that has been written is written again.
WriteAgain(c) ==
  LET r == wcur[c] IN
  /\ wr[c] = "write" /\ conn[c] = "open"
  /\ wire' = [wire EXCEPT ![c] = Append(@, Frame(r))]
  /\ UNCHANGED <<wr, wcur, resp, objVars>> /\ wrUnch

\* What is written to a broken connection may vanish without an error.
Write(c) ==
  LET r == wcur[c] IN
  /\ wr[c] = "write" /\ conn[c] # "closed"
  /\ wire' = IF conn[c] = "open"
             THEN [wire EXCEPT ![c] = Append(@, Frame(r))]
             ELSE wire
  /\ Recycle(r)
  /\ wr' = [wr EXCEPT ![c] = "select"]
  /\ UNCHANGED <<wcur, resp>> /\ wrUnch

\* The object is dropped.
WriteFail(c) ==
  /\ wr[c] = "write" /\ conn[c] # "open"
  /\ wr' = [wr EXCEPT ![c] = "exit"]
  /\ place' = [place EXCEPT ![wcur[c]] = "spent"]
  /\ UNCHANGED <<wcur, wire, resp, id, input, output>> /\ wrUnch

-----------------------------------------------------------------------------
Listener ==
  \/ Start \/ Stop \/ StopReturn
  \/ AcceptError \/ AcceptStop \/ DrainAccept \/ AcceptFailed \/ AcceptAgain \/ BackoffStop
  \/ \E c \in Conns : Accept(c) \/ Accepted(c)

Connection(c) ==
  \/ ClientConnectedFailed(c) \/ ClientConnected(c)
  \/ ReaderDone(c) \/ WriterDone(c) \/ StopConnection(c)
  \/ JoinReader(c) \/ JoinWriter(c) \/ Disconnected(c)

Reader(c) == ReadFail(c) \/ \E r \in Requests : ReadRequest(c, r)

Writer(c) == WriteStop(c) \/ Dequeue(c) \/ Write(c) \/ WriteFail(c)

Handler(k) ==
  \/ Acquire(k) \/ Dispatch(k) \/ DispatchSend(k) \/ PanicSend(k)
  \/ Respond(k) \/ Release(k)

Environment ==
  \E c \in Conns : ClientDials(c) \/ Break(c) \/ \E k \in Calls : ClientSends(c, k)

Next ==
  \/ Listener
  \/ \E c \in Conns : Connection(c) \/ Reader(c) \/ Writer(c)
  \/ \E k \in Calls : Handler(k)
  \/ Environment

Spec == Init /\ [][Next]_vars

-----------------------------------------------------------------------------
(* Fairness: goroutines that can run do run, methods end, a slot that      *)
(* becomes free again and again is given to every handler waiting for it,  *)
(* and so is a place in a responseChan (Go serves the senders that wait on *)
(* a channel in their order).  Nothing is assumed of clients, faults,      *)
(* panics and Stop.                                                        *)

ListenerRuns ==
  \/ StopReturn \/ AcceptStop \/ DrainAccept \/ AcceptFailed \/ AcceptAgain \/ BackoffStop
  \/ listener = "closed" /\ AcceptError
  \/ \E c \in Conns : Accept(c) \/ Accepted(c)

ConnectionRuns(c) ==
  \/ ClientConnected(c) \/ ReaderDone(c) \/ WriterDone(c) \/ StopConnection(c)
  \/ JoinReader(c) \/ JoinWriter(c) \/ Disconnected(c)

HandlerRuns(k) == Dispatch(k) \/ DispatchSend(k) \/ Release(k)

Fairness ==
  /\ WF_vars(ListenerRuns)
  /\ \A c \in Conns : /\ WF_vars(ConnectionRuns(c))
                      /\ WF_vars(Reader(c))
                      /\ WF_vars(Writer(c))
  /\ \A k \in Calls : /\ WF_vars(HandlerRuns(k))
                      /\ SF_vars(Acquire(k))
                      /\ SF_vars(Respond(k))

FairSpec == Spec /\ Fairness

-----------------------------------------------------------------------------
(* Properties.                                                             *)

\* Every variable has its type.
TypeOK ==
  /\ life \in {"running", "stopping", "stopped", "crashed"}
  /\ gen \in 0 .. MaxStarts
  /\ listener \in {"open", "closed"}
  /\ acc \in {"off", "select", "drain", "backoff"}
  /\ accept \in {"none", "pending", "err"} \cup Conns
  /\ workers \in [Gens -> 0 .. Concurrency]
  /\ faults \in 0 .. MaxFaults
  /\ conn \in [Conns -> {"none", "backlog", "open", "broken", "closed"}]
  /\ hc \in [Conns -> {"off", "start", "up", "closing"}]
  /\ rd \in [Conns -> {"off", "read", "exit"}]
  /\ wr \in [Conns -> {"off", "select", "write", "exit"}]
  /\ wcur \in [Conns -> Requests \cup {Nil}]
  /\ resp \in [Conns -> Seq(Requests)]
  /\ inbox \in [Conns -> Seq(Calls)]
  /\ wire \in [Conns -> Seq([id : Calls \cup {NoId}, result : Calls,
                             values : {"none", "some", "all"}, failed : BOOLEAN])]
  /\ home \in [Calls -> Conns \cup {Nil}]
  /\ hd \in [Calls -> {"none", "slot", "run", "respond", "release", "done"}]
  /\ hobj \in [Calls -> Requests \cup {Nil}]
  /\ born \in [Calls -> 0 .. MaxStarts]
  /\ place \in [Requests -> {"free", "handler", "queue", "writer", "spent"}]
  /\ id \in [Requests -> Calls \cup {NoId}]
  /\ input \in [Requests -> Calls \cup {Nil}]
  /\ output \in [Requests -> [of : Calls, values : {"none", "some", "all"},
                               err : {"none", "message", "empty"}] \cup {Nil}]
  /\ outcome \in [Calls -> AllOutcomes \cup {"none"}]

\* A response bears the id of a Call that was sent on the same connection, and holds
\* the result of that call and of no other, although objects travel between
\* connections through the pool.
OwnResponse ==
  \A c \in Conns : \A n \in 1 .. Len(wire[c]) :
    /\ wire[c][n].id \in Calls \ Sends /\ home[wire[c][n].id] = c
    /\ wire[c][n].result = wire[c][n].id

\* A response tells what became of its call, whatever its object was used for before:
\* it bears an error when the call failed, unless the error has an empty message, and
\* one without an error carries all values.
ResponseTellsOutcome ==
  \A c \in Conns : \A n \in 1 .. Len(wire[c]) : LET f == wire[c][n] IN
    /\ f.failed <=> outcome[f.id] \notin {"ok", "errorEmpty"}
    /\ ~f.failed => f.values = "all"

Handles(k, r) == hd[k] \in {"slot", "run", "respond"} /\ hobj[k] = r
Queues(c, n, r) == n \in 1 .. Len(resp[c]) /\ resp[c][n] = r
Writes(c, r) == wr[c] = "write" /\ wcur[c] = r

\* A serverRequest in use has exactly one holder, a handler, a place in a
\* responseChan or a writer, and a pooled one has none: no goroutine can be handed
\* an object that another still works on.
OneHolder ==
  \A r \in Requests :
    Cardinality({k \in Calls : Handles(k, r)})
      + Cardinality({q \in Conns \X (1 .. PendingResponses) : Queues(q[1], q[2], r)})
      + Cardinality({c \in Conns : Writes(c, r)})
    = IF place[r] \in {"handler", "queue", "writer"} THEN 1 ELSE 0

Running == {k \in Calls : hd[k] \in {"run", "respond", "release"}}

\* On a server that is not restarted, the slots taken of workerChain are those of the
\* handlers between Acquire and Release: none is leaked or given back twice.
SlotsExact == gen = 1 => workers[1] = Cardinality(Running)

\* The server performs at most Concurrency calls at a time.
ConcurrencyLimit == Cardinality({k \in Calls : hd[k] = "run"}) <= Concurrency

\* No call is answered twice.
AnsweredOnce ==
  \A c, d \in Conns : \A m \in 1 .. Len(wire[c]), n \in 1 .. Len(wire[d]) :
    wire[c][m].id = wire[d][n].id => c = d /\ m = n

Promise == INSTANCE Service WITH sent <- home, done <- outcome, answers <- wire

\* The server keeps what Service promises, through the pool, the slots, the queues and
\* whatever breaks: above all, a request is performed at most once, and what has become
\* of it does not change between its method and its response.
Serves == Promise!Spec

\* A handler never waits for a place in the responseChan of a connection that is
\* gone: nothing receives from it any more, so the handler would keep its slot of
\* workerChain for ever.
SlotReclaimable ==
  \A k \in Calls :
    hd[k] = "respond" /\ conn[home[k]] = "closed" /\ hc[home[k]] = "off"
      => Len(resp[home[k]]) < PendingResponses

\* The server survives whatever its methods do.
Survives == life # "crashed"

\* Stop returns, although handlers may still be running or blocked.
StopReturns == (life = "stopping") ~> (life = "stopped")

Answered(k) == \E c \in Conns : \E n \in 1 .. Len(wire[c]) : wire[c][n].id = k

\* As long as no connection ends, every Call is answered: a handler gets its slot and
\* its place in the responseChan, however many wait for them.
EveryCallAnswered ==
  \A k \in Calls \ Sends :
    (hd[k] = "slot") ~> (Answered(k) \/ \E c \in Conns : conn[c] \in {"broken", "closed"})

=============================================================================

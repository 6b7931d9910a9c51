------------------------------- MODULE Client -------------------------------
(***************************************************************************)
(* The RPC client of client.go and client_request.go.                      *)
(*                                                                         *)
(* A Client owns one bounded queue (requestsChan) and Connections          *)
(* supervisors (handleConnections).  Each supervisor dials, and while the  *)
(* connection lives it runs a writer goroutine, which takes requests from  *)
(* the queue, files them in the connection's pending map under a fresh id  *)
(* and writes them, and a reader goroutine, which takes responses from the *)
(* connection and hands each to the pending request with its id.           *)
(*                                                                         *)
(* A call is one use of the API by one goroutine:                          *)
(*    client.Request(name).Args(..).Reply(..).Call(ctx)   or   .Send(ctx)  *)
(* The clientRequest object behind it comes from a sync.Pool and may have  *)
(* served another call before, so calls and objects are different things.  *)
(*                                                                         *)
(* The server and the network are environment: every request written to a  *)
(* connection is answered at most once, in any order, and a connection may *)
(* break at any moment, also in the middle of a response.                  *)
(***************************************************************************)
EXTENDS Integers, Sequences, FiniteSets

CONSTANTS
  Calls,           \* the calls made on the client, each of them once
  Sends,           \* the calls that use Send, which waits for no reply
  Cancellable,     \* the calls whose context may end; the others use
                   \* context.Background()
  Unencodable,     \* the calls whose arguments the codec refuses
  Requests,        \* the clientRequest objects
  Conns,           \* the supervisors, Client.Connections of them
  PendingRequests, \* Client.PendingRequests
  Replies,         \* the kinds of response the server may send
  FailingHooks,    \* the plugin hooks that may return an error
  Stoppable,       \* whether Stop is ever called
  MaxStarts,       \* bound: how often the client is started
  MaxFaults,       \* bound: failed dials and hooks, broken connections
  MaxId,           \* bound: the largest request id
  Nil              \* no object, no call

(***************************************************************************)
(* "ok": no error and a reply that decodes.  "error": an error and a reply *)
(* that decodes.  "errorEmpty": an error and no payload, as the server     *)
(* answers when it does not know the method, cannot decode the arguments   *)
(* or recovers from a panic.  "undecodable": no error, a reply the codec   *)
(* refuses.                                                                *)
(***************************************************************************)
ReplyKinds == {"ok", "error", "errorEmpty", "undecodable"}
Hooks == {"dialServer", "connected"}
Ids == 1 .. MaxId
Gens == 1 .. MaxStarts
Errors == {"nil", "ctx", "server", "conn"}

ASSUME CallsAssumption ==
  /\ Sends \subseteq Calls
  /\ Cancellable \subseteq Calls
  /\ Unencodable \subseteq Calls
  /\ Nil \notin Calls \cup Requests

ASSUME EnvironmentAssumption ==
  /\ Replies \subseteq ReplyKinds
  /\ FailingHooks \subseteq Hooks
  /\ Stoppable \in BOOLEAN

ASSUME BoundsAssumption ==
  /\ PendingRequests \in Nat \ {0}
  /\ MaxStarts \in Nat
  /\ MaxFaults \in Nat
  /\ MaxId \in Nat

VARIABLES
  \* the Client
  life,          \* "stopped", "running" or, once stopChan is closed, "stopping"
  gen,           \* number of Starts so far; each makes a new requestsChan
  queue,         \* the requestsChan of each generation
  requestsCount, \* Client.requestsCount
  \* the calls
  pc,            \* where the calling goroutine is
  obj,           \* its clientRequest
  chan,          \* the generation whose requestsChan its select uses
  result,        \* the error Call or Send returned
  replied,       \* history: the call whose reply was decoded into its variables
  \* the clientRequest objects
  place,         \* who holds the object
  owner,         \* the call whose name, args and reply variables it carries
  err,           \* request.err
  done,          \* request.done: a channel of capacity 1
  \* the supervisors
  sup,           \* where handleConnections or handleConnection is
  dial,          \* the dialling goroutine
  conn,          \* the connection
  supErr,        \* err of handleConnection
  openConns,     \* connections dialled and not closed
  faults,        \* faults so far
  \* per connection: the pending map, its two goroutines and the peer
  pending,       \* pendingRequests
  requestId,     \* the writer's requestId
  wr, wcur,      \* the writer and its request
  rd, rcur,      \* the reader and the request it is filling
  rfor,          \* the call the response being read answers
  sent           \* requests the peer has and has not answered

callVars == <<pc, obj, chan, result>>
objVars == <<place, owner, err, done>>
supVars == <<sup, dial, conn, supErr, openConns, faults>>
rdVars == <<rd, rcur, rfor>>
wrVars == <<wr, wcur, requestId>>
vars == <<life, gen, queue, requestsCount, callVars, replied, objVars, supVars,
          pending, wrVars, rdVars, sent>>

Skip(r) == owner[r] \in Sends
NonePending == [id \in Ids |-> Nil]
PendingIds(i) == {id \in Ids : pending[i][id] # Nil}

-----------------------------------------------------------------------------
Init ==
  /\ life = "stopped" /\ gen = 0 /\ requestsCount = 0
  /\ queue = [g \in Gens |-> <<>>]
  /\ pc = [k \in Calls |-> "idle"]
  /\ obj = [k \in Calls |-> Nil]
  /\ chan = [k \in Calls |-> 0]
  /\ result = [k \in Calls |-> "none"]
  /\ replied = [k \in Calls |-> Nil]
  /\ place = [r \in Requests |-> "free"]
  /\ owner = [r \in Requests |-> Nil]
  /\ err = [r \in Requests |-> "nil"]
  /\ done = [r \in Requests |-> "empty"]
  /\ sup = [i \in Conns |-> "off"]
  /\ dial = [i \in Conns |-> "none"]
  /\ conn = [i \in Conns |-> "none"]
  /\ supErr = [i \in Conns |-> "nil"]
  /\ openConns = 0 /\ faults = 0
  /\ pending = [i \in Conns |-> NonePending]
  /\ requestId = [i \in Conns |-> 0]
  /\ wr = [i \in Conns |-> "off"]
  /\ wcur = [i \in Conns |-> Nil]
  /\ rd = [i \in Conns |-> "off"]
  /\ rcur = [i \in Conns |-> Nil]
  /\ rfor = [i \in Conns |-> Nil]
  /\ sent = [i \in Conns |-> {}]

-----------------------------------------------------------------------------
(* Start and Stop.  A failing BeforeStart or BeforeStop hook makes them    *)
(* return before they change anything; a failing AfterStart or AfterStop   *)
(* hook changes only what they return: neither is a step of its own.       *)

Start ==
  /\ life = "stopped" /\ gen < MaxStarts
  /\ life' = "running"
  /\ gen' = gen + 1
  /\ sup' = [i \in Conns |-> "select"]
  /\ dial' = [i \in Conns |-> "pending"]
  /\ UNCHANGED <<queue, requestsCount, callVars, replied, objVars, conn, supErr,
                 openConns, faults, pending, wrVars, rdVars, sent>>

Stop ==
  /\ Stoppable /\ life = "running"
  /\ life' = "stopping"
  /\ UNCHANGED <<gen, queue, requestsCount, callVars, replied, objVars, supVars,
                 pending, wrVars, rdVars, sent>>

\* stopWg.Wait() returns and stopChan becomes nil.
StopReturn ==
  /\ life = "stopping"
  /\ \A i \in Conns : sup[i] = "off"
  /\ life' = "stopped"
  /\ UNCHANGED <<gen, queue, requestsCount, callVars, replied, objVars, supVars,
                 pending, wrVars, rdVars, sent>>

-----------------------------------------------------------------------------
(* The calling goroutines.                                                 *)

clientUnch == UNCHANGED <<life, gen, requestsCount, supVars, pending, wrVars,
                          rdVars, sent>>

\* Request takes an object from the pool, or a new one, and fills it; Call or
\* Send then enters its select on the requestsChan of this moment.
Request(k, r) ==
  /\ pc[k] = "idle" /\ gen > 0
  /\ place[r] = "free"
  /\ pc' = [pc EXCEPT ![k] = "enqueue"]
  /\ obj' = [obj EXCEPT ![k] = r]
  /\ chan' = [chan EXCEPT ![k] = gen]
  /\ place' = [place EXCEPT ![r] = "caller"]
  /\ owner' = [owner EXCEPT ![r] = k]
  /\ UNCHANGED <<queue, result, replied, err, done>> /\ clientUnch

\* The select of call and send chooses the queue: a send on a full channel
\* blocks.
Enqueue(k) ==
  /\ pc[k] = "enqueue"
  /\ Len(queue[chan[k]]) < PendingRequests
  /\ queue' = [queue EXCEPT ![chan[k]] = Append(@, obj[k])]
  /\ place' = [place EXCEPT ![obj[k]] = "queue"]
  /\ UNCHANGED <<obj, chan, replied, owner, err, done>> /\ clientUnch

call(k) ==
  /\ k \notin Sends
  /\ Enqueue(k)
  /\ pc' = [pc EXCEPT ![k] = "wait"]
  /\ UNCHANGED result

send(k) ==
  /\ k \in Sends
  /\ Enqueue(k)
  /\ pc' = [pc EXCEPT ![k] = "returned"]
  /\ result' = [result EXCEPT ![k] = "nil"]

\* The first select of call, or the one of send, chooses ctx.Done().
CancelEnqueue(k) ==
  /\ k \in Cancellable
  /\ pc[k] = "enqueue"
  /\ pc' = [pc EXCEPT ![k] = "returned"]
  /\ result' = [result EXCEPT ![k] = "ctx"]
  /\ place' = [place EXCEPT ![obj[k]] = "spent"]
  /\ UNCHANGED <<queue, obj, chan, replied, owner, err, done>> /\ clientUnch

\* The second select of call chooses ctx.Done(): the error is stored in the
\* shared object, and read back from it by CallReturn.
CancelWait(k) ==
  /\ k \in Cancellable
  /\ pc[k] = "wait"
  /\ err' = [err EXCEPT ![obj[k]] = "ctx"]
  /\ pc' = [pc EXCEPT ![k] = "return"]
  /\ UNCHANGED <<queue, obj, chan, result, replied, place, owner, done>>
  /\ clientUnch

\* Mutant: call does not wait.
CompletedAlways(r) == TRUE

\* A receive from request.done does not block.
Completed(r) == done[r] # "empty"

\* The second select of call chooses request.done.
ReceiveDone(k) ==
  /\ pc[k] = "wait"
  /\ Completed(obj[k])
  /\ done' = [done EXCEPT ![obj[k]] = IF @ = "token" THEN "empty" ELSE @]
  /\ pc' = [pc EXCEPT ![k] = "return"]
  /\ UNCHANGED <<queue, obj, chan, result, replied, place, owner, err>>
  /\ clientUnch

\* return request.err
CallReturn(k) ==
  /\ pc[k] = "return"
  /\ result' = [result EXCEPT ![k] = err[obj[k]]]
  /\ pc' = [pc EXCEPT ![k] = "returned"]
  /\ UNCHANGED <<queue, obj, chan, replied, objVars>> /\ clientUnch

-----------------------------------------------------------------------------
(* handleConnections.                                                      *)

supUnch == UNCHANGED <<life, gen, queue, callVars, replied>>
idleConnUnch == UNCHANGED <<requestsCount, objVars, supErr, pending, sent>>

\* The goroutine that runs c.Dial ends.
DialOk(i) ==
  /\ dial[i] = "pending"
  /\ dial' = [dial EXCEPT ![i] = "ok"]
  /\ openConns' = openConns + 1
  /\ UNCHANGED <<sup, conn, faults, wrVars, rdVars>> /\ supUnch /\ idleConnUnch

DialFail(i) ==
  /\ dial[i] = "pending" /\ faults < MaxFaults
  /\ dial' = [dial EXCEPT ![i] = "err"]
  /\ faults' = faults + 1
  /\ UNCHANGED <<sup, conn, openConns, wrVars, rdVars>>
  /\ supUnch /\ idleConnUnch

\* The select on the dial chooses stopChan, waits for the dial and returns;
\* a connection that was dialled is dropped without being closed.
StopDial(i) ==
  /\ sup[i] = "select" /\ life = "stopping"
  /\ sup' = [sup EXCEPT ![i] = "drain"]
  /\ UNCHANGED <<dial, conn, openConns, faults, wrVars, rdVars>>
  /\ supUnch /\ idleConnUnch

DrainDial(i) ==
  /\ sup[i] = "drain" /\ dial[i] # "pending"
  /\ sup' = [sup EXCEPT ![i] = "off"]
  /\ dial' = [dial EXCEPT ![i] = "none"]
  /\ UNCHANGED <<conn, openConns, faults, wrVars, rdVars>>
  /\ supUnch /\ idleConnUnch

Redial(i) ==
  /\ sup' = [sup EXCEPT ![i] = "select"]
  /\ dial' = [dial EXCEPT ![i] = "pending"]

\* The non-blocking select on stopChan after handleConnection.
RedialUnlessStopped(i) ==
  IF life = "stopping"
  THEN /\ sup' = [sup EXCEPT ![i] = "off"]
       /\ dial' = [dial EXCEPT ![i] = "none"]
  ELSE Redial(i)

\* dErr or pErr is set; a connection that a hook refuses is not closed.
DialServerFailed(i) ==
  /\ sup[i] = "select"
  /\ \/ dial[i] = "err" /\ UNCHANGED faults
     \/ /\ dial[i] = "ok" /\ "dialServer" \in FailingHooks
        /\ faults < MaxFaults /\ faults' = faults + 1
  /\ sup' = [sup EXCEPT ![i] = "backoff"]
  /\ dial' = [dial EXCEPT ![i] = "none"]
  /\ UNCHANGED <<conn, openConns, wrVars, rdVars>>
  /\ supUnch /\ idleConnUnch

\* After a second the timer fires and the supervisor dials again.
BackoffTimer(i) ==
  /\ sup[i] = "backoff"
  /\ Redial(i)
  /\ UNCHANGED <<conn, openConns, faults, wrVars, rdVars>>
  /\ supUnch /\ idleConnUnch

BackoffStop(i) ==
  /\ sup[i] = "backoff" /\ life = "stopping"
  /\ sup' = [sup EXCEPT ![i] = "off"]
  /\ UNCHANGED <<dial, conn, openConns, faults, wrVars, rdVars>>
  /\ supUnch /\ idleConnUnch

-----------------------------------------------------------------------------
(* handleConnection.                                                       *)

\* A Connected hook fails: handleConnection returns and the connection stays
\* open.
ConnectedFailed(i) ==
  /\ sup[i] = "select" /\ dial[i] = "ok"
  /\ "connected" \in FailingHooks
  /\ faults < MaxFaults /\ faults' = faults + 1
  /\ RedialUnlessStopped(i)
  /\ UNCHANGED <<conn, openConns, wrVars, rdVars>>
  /\ supUnch /\ idleConnUnch

Connected(i) ==
  /\ sup[i] = "select" /\ dial[i] = "ok"
  /\ sup' = [sup EXCEPT ![i] = "up"]
  /\ dial' = [dial EXCEPT ![i] = "none"]
  /\ conn' = [conn EXCEPT ![i] = "open"]
  /\ rd' = [rd EXCEPT ![i] = "read"]
  /\ wr' = [wr EXCEPT ![i] = "select"]
  /\ requestId' = [requestId EXCEPT ![i] = 0]
  /\ UNCHANGED <<openConns, faults, wcur, rcur, rfor>>
  /\ supUnch /\ idleConnUnch

\* Mutant: the connection stays open.
CloseConnForgotten(i) == UNCHANGED <<conn, openConns>>

CloseConn(i) ==
  /\ conn' = [conn EXCEPT ![i] = "closed"]
  /\ openConns' = openConns - 1

\* close(stopChan); conn.Close()
Close(i, e) ==
  /\ sup' = [sup EXCEPT ![i] = "closing"]
  /\ CloseConn(i)
  /\ supErr' = [supErr EXCEPT ![i] = e]
  /\ UNCHANGED <<dial, faults, requestsCount, objVars, pending, sent>>

ReaderDone(i) ==
  /\ sup[i] = "up" /\ rd[i] = "exit"
  /\ rd' = [rd EXCEPT ![i] = "off"]
  /\ Close(i, "conn")
  /\ UNCHANGED <<rcur, rfor, wrVars>> /\ supUnch

WriterDone(i) ==
  /\ sup[i] = "up" /\ wr[i] = "exit"
  /\ wr' = [wr EXCEPT ![i] = "off"]
  /\ Close(i, "conn")
  /\ UNCHANGED <<wcur, requestId, rdVars>> /\ supUnch

\* <-c.stopChan: err keeps its zero value.
StopConnection(i) ==
  /\ sup[i] = "up" /\ life = "stopping"
  /\ Close(i, "nil")
  /\ UNCHANGED <<rdVars, wrVars>> /\ supUnch

JoinReader(i) ==
  /\ sup[i] = "closing" /\ rd[i] = "exit"
  /\ rd' = [rd EXCEPT ![i] = "off"]
  /\ UNCHANGED <<supVars, requestsCount, objVars, pending, sent, rcur, rfor, wrVars>>
  /\ supUnch

JoinWriter(i) ==
  /\ sup[i] = "closing" /\ wr[i] = "exit"
  /\ wr' = [wr EXCEPT ![i] = "off"]
  /\ UNCHANGED <<supVars, requestsCount, objVars, pending, sent, rdVars, wcur, requestId>>
  /\ supUnch

IsPending(i, r) == \E id \in Ids : pending[i][id] = r

\* Mutants: done is not closed, the requests are not counted out.
ClosePendingForgotten(i) == UNCHANGED done
CountOutForgotten(n) == UNCHANGED requestsCount

ClosePending(i) ==
  done' = [r \in Requests |-> IF IsPending(i, r) THEN "closed" ELSE done[r]]

\* n requests have left a pending map.
CountOut(n) == requestsCount' = requestsCount - n

\* Both goroutines are gone: every pending request gets err, its done channel
\* is closed, and the supervisor dials again or returns.
FailPending(i) ==
  /\ sup[i] = "closing" /\ rd[i] = "off" /\ wr[i] = "off"
  /\ err' = [r \in Requests |-> IF IsPending(i, r) THEN supErr[i] ELSE err[r]]
  /\ ClosePending(i)
  /\ place' = [r \in Requests |-> IF IsPending(i, r) THEN "spent" ELSE place[r]]
  /\ CountOut(Cardinality(PendingIds(i)))
  /\ pending' = [pending EXCEPT ![i] = NonePending]
  /\ sent' = [sent EXCEPT ![i] = {}]
  /\ conn' = [conn EXCEPT ![i] = "none"]
  /\ RedialUnlessStopped(i)
  /\ UNCHANGED <<owner, supErr, openConns, faults, rdVars, wrVars>> /\ supUnch

\* Environment: the peer or the network ends the connection.
Break(i) ==
  /\ conn[i] = "open" /\ faults < MaxFaults
  /\ conn' = [conn EXCEPT ![i] = "broken"]
  /\ faults' = faults + 1
  /\ UNCHANGED <<sup, dial, openConns, wrVars, rdVars>> /\ supUnch /\ idleConnUnch

-----------------------------------------------------------------------------
(* connectionReader and clientRequest.readFrom.                            *)

rdUnch == UNCHANGED <<life, gen, queue, callVars, supVars, wrVars, owner>>

ReaderExit(i) == rd' = [rd EXCEPT ![i] = "exit"]

\* The read of the next id fails.  A reader that finds stopChan closed before it
\* reads leaves the same way: handleConnection closes stopChan and the connection
\* together.
ReadFail(i) ==
  /\ rd[i] = "read" /\ conn[i] # "open"
  /\ ReaderExit(i)
  /\ UNCHANGED <<requestsCount, replied, place, err, done, pending, sent, rcur, rfor>>
  /\ rdUnch

\* Mutant: the request stays in the map.
TakePendingForgotten(i, id) == UNCHANGED pending

TakePending(i, id) == pending' = [pending EXCEPT ![i][id] = Nil]

\* The id of a response is read, and its request leaves the map.
ReadId(i, m) ==
  /\ rd[i] = "read" /\ conn[i] # "closed"
  /\ m \in sent[i] /\ pending[i][m.id] # Nil
  /\ sent' = [sent EXCEPT ![i] = @ \ {m}]
  /\ TakePending(i, m.id)
  /\ CountOut(1)
  /\ place' = [place EXCEPT ![pending[i][m.id]] = "body"]
  /\ rcur' = [rcur EXCEPT ![i] = pending[i][m.id]]
  /\ rfor' = [rfor EXCEPT ![i] = m.call]
  /\ rd' = [rd EXCEPT ![i] = "body"]
  /\ UNCHANGED <<replied, err, done>> /\ rdUnch

\* An id is read that is not pending: "unexpected message".  Correlated shows that
\* only a faulty peer can cause it.
ReadUnexpected(i) ==
  /\ rd[i] = "read" /\ conn[i] # "closed"
  /\ faults < MaxFaults /\ faults' = faults + 1
  /\ ReaderExit(i)
  /\ UNCHANGED <<life, gen, queue, requestsCount, callVars, replied, objVars, sup,
                 dial, conn, supErr, openConns, pending, wrVars, rcur, rfor, sent>>

\* The deferred request.done <- struct{}{} of readFrom, which needs a free slot.
SignalDone(r) ==
  /\ done[r] = "empty"
  /\ done' = [done EXCEPT ![r] = "token"]
  /\ place' = [place EXCEPT ![r] = "spent"]

bodyUnch == UNCHANGED <<requestsCount, pending, sent, rcur, rfor>>

\* The rest of the response is read and every reply variable is decoded.
ReadReply(i) ==
  LET r == rcur[i] IN
  /\ rd[i] = "body"
  /\ \/ "ok" \in Replies /\ UNCHANGED err
     \/ "error" \in Replies /\ err' = [err EXCEPT ![r] = "server"]
  /\ replied' = [replied EXCEPT ![owner[r]] = rfor[i]]
  /\ SignalDone(r)
  /\ rd' = [rd EXCEPT ![i] = "read"]
  /\ bodyUnch /\ rdUnch

\* The response is complete but a reply variable cannot be decoded from it.
DecodeFail(i) ==
  LET r == rcur[i] IN
  /\ rd[i] = "body"
  /\ \/ "undecodable" \in Replies /\ UNCHANGED err
     \/ "errorEmpty" \in Replies /\ err' = [err EXCEPT ![r] = "server"]
  /\ SignalDone(r)
  /\ ReaderExit(i)
  /\ UNCHANGED replied /\ bodyUnch /\ rdUnch

\* The connection ends before or after the error part of the response.
ReadBodyFail(i) ==
  LET r == rcur[i] IN
  /\ rd[i] = "body" /\ conn[i] # "open"
  /\ \/ UNCHANGED err
     \/ Replies \cap {"error", "errorEmpty"} # {} /\ err' = [err EXCEPT ![r] = "server"]
  /\ SignalDone(r)
  /\ ReaderExit(i)
  /\ UNCHANGED replied /\ bodyUnch /\ rdUnch

-----------------------------------------------------------------------------
(* connectionWriter and clientRequest.writeTo.                             *)

wrUnch == UNCHANGED <<life, gen, callVars, replied, supVars, rdVars>>

\* reset() and requestPool.Put: a token left in done is drained, a closed
\* channel stays closed.
Recycle(r) ==
  /\ place' = [place EXCEPT ![r] = "free"]
  /\ owner' = [owner EXCEPT ![r] = Nil]
  /\ err' = [err EXCEPT ![r] = "nil"]
  /\ done' = [done EXCEPT ![r] = IF @ = "token" THEN "empty" ELSE @]

WriteStop(i) ==
  /\ wr[i] = "select" /\ sup[i] = "closing"
  /\ wr' = [wr EXCEPT ![i] = "exit"]
  /\ UNCHANGED <<queue, requestsCount, objVars, pending, sent, wcur, requestId>>
  /\ wrUnch

\* The select takes a request from the queue, also when stopChan is closed.
Dequeue(i) ==
  /\ wr[i] = "select"
  /\ queue[gen] # <<>>
  /\ queue' = [queue EXCEPT ![gen] = Tail(@)]

DropCancelled(i) ==
  LET r == Head(queue[gen]) IN
  /\ Dequeue(i)
  /\ err[r] # "nil"
  /\ Recycle(r)
  /\ UNCHANGED <<requestsCount, pending, sent, wrVars>> /\ wrUnch

TakeSend(i) ==
  LET r == Head(queue[gen]) IN
  /\ Dequeue(i)
  /\ err[r] = "nil" /\ Skip(r)
  /\ wr' = [wr EXCEPT ![i] = "write"]
  /\ wcur' = [wcur EXCEPT ![i] = r]
  /\ place' = [place EXCEPT ![r] = "skip"]
  /\ UNCHANGED <<requestsCount, owner, err, done, pending, sent, requestId>> /\ wrUnch

\* Mutants: the first id is 0, the id that asks for no response; the id is not
\* checked against the pending map.
FreeIdZero(i, id) ==
  IF requestId[i] = 0 THEN id = 0 ELSE id = requestId[i]

FreeIdUnchecked(i, id) == id = IF requestId[i] = 0 THEN 1 ELSE requestId[i]

\* The loop that moves requestId to the next id that is not pending.
FreeId(i, id) ==
  LET from == IF requestId[i] = 0 THEN 1 ELSE requestId[i] IN
  /\ id >= from /\ pending[i][id] = Nil
  /\ \A j \in Ids : from <= j /\ j < id => pending[i][j] # Nil

\* Mutant: off by one more.
OverflowLate(i) == Cardinality(PendingIds(i)) > PendingRequests + 1

\* The length of the map is taken before the request is added to it.
Overflow(i) == Cardinality(PendingIds(i)) > PendingRequests

Register(i, id) ==
  LET r == Head(queue[gen]) IN
  /\ Dequeue(i)
  /\ err[r] = "nil" /\ ~Skip(r)
  /\ FreeId(i, id)
  /\ requestId' = [requestId EXCEPT ![i] = id]
  /\ pending' = [pending EXCEPT ![i][id] = r]
  /\ place' = [place EXCEPT ![r] = "pending"]
  /\ requestsCount' = requestsCount + 1
  /\ wcur' = [wcur EXCEPT ![i] = r]
  /\ wr' = [wr EXCEPT ![i] = IF Overflow(i) THEN "exit" ELSE "write"]
  /\ UNCHANGED <<owner, err, done, sent>> /\ wrUnch

\* The id and the request are written.  What is written to a broken connection
\* may vanish without an error.
Write(i) ==
  LET r == wcur[i] IN
  /\ wr[i] = "write" /\ conn[i] # "closed"
  /\ owner[r] \notin Unencodable
  /\ sent' = IF conn[i] = "open" /\ ~Skip(r)
             THEN [sent EXCEPT ![i] = @ \cup {[id |-> requestId[i], call |-> owner[r]]}]
             ELSE sent
  /\ IF Skip(r) THEN Recycle(r) ELSE UNCHANGED objVars
  /\ wr' = [wr EXCEPT ![i] = "select"]
  /\ UNCHANGED <<queue, requestsCount, pending, wcur, requestId>> /\ wrUnch

\* A write fails, or the codec refuses an argument.
WriteFail(i) ==
  LET r == wcur[i] IN
  /\ wr[i] = "write"
  /\ conn[i] # "open" \/ owner[r] \in Unencodable
  /\ wr' = [wr EXCEPT ![i] = "exit"]
  /\ place' = IF Skip(r) THEN [place EXCEPT ![r] = "spent"] ELSE place
  /\ UNCHANGED <<queue, requestsCount, owner, err, done, pending, sent, wcur, requestId>>
  /\ wrUnch

-----------------------------------------------------------------------------
Caller(k) ==
  \/ \E r \in Requests : Request(k, r)
  \/ call(k)
  \/ send(k)
  \/ CancelEnqueue(k)
  \/ CancelWait(k)
  \/ ReceiveDone(k)
  \/ CallReturn(k)

Supervisor(i) ==
  \/ DialOk(i) \/ DialFail(i) \/ StopDial(i) \/ DrainDial(i)
  \/ DialServerFailed(i) \/ BackoffTimer(i) \/ BackoffStop(i)
  \/ ConnectedFailed(i) \/ Connected(i)
  \/ ReaderDone(i) \/ WriterDone(i) \/ StopConnection(i)
  \/ JoinReader(i) \/ JoinWriter(i) \/ FailPending(i)
  \/ Break(i)

Reader(i) ==
  \/ ReadFail(i)
  \/ \E m \in sent[i] : ReadId(i, m)
  \/ ReadUnexpected(i)
  \/ ReadReply(i) \/ DecodeFail(i) \/ ReadBodyFail(i)

Writer(i) ==
  \/ WriteStop(i) \/ DropCancelled(i) \/ TakeSend(i)
  \/ \E id \in 0 .. MaxId : Register(i, id)
  \/ Write(i) \/ WriteFail(i)

Next ==
  \/ Start \/ Stop \/ StopReturn
  \/ \E k \in Calls : Caller(k)
  \/ \E i \in Conns : Supervisor(i) \/ Reader(i) \/ Writer(i)

Spec == Init /\ [][Next]_vars

-----------------------------------------------------------------------------
(* Fairness: goroutines that can run do run, a dial ends (the dialer of    *)
(* transport.go has a timeout), and the peer answers what it was sent.     *)
(* Nothing is assumed of contexts, faults, Start and Stop.                 *)

CallerRuns(k) == call(k) \/ send(k) \/ ReceiveDone(k) \/ CallReturn(k)

SupervisorRuns(i) ==
  \/ DialOk(i) \/ StopDial(i) \/ DrainDial(i)
  \/ DialServerFailed(i) \/ BackoffTimer(i) \/ BackoffStop(i)
  \/ Connected(i)
  \/ ReaderDone(i) \/ WriterDone(i) \/ StopConnection(i)
  \/ JoinReader(i) \/ JoinWriter(i) \/ FailPending(i)

ReaderRuns(i) ==
  \/ ReadFail(i)
  \/ \E m \in sent[i] : ReadId(i, m)
  \/ ReadReply(i) \/ DecodeFail(i) \/ ReadBodyFail(i)

Fairness ==
  /\ WF_vars(StopReturn)
  /\ \A k \in Calls : WF_vars(CallerRuns(k))
  /\ \A i \in Conns : /\ WF_vars(SupervisorRuns(i))
                      /\ WF_vars(ReaderRuns(i))
                      /\ WF_vars(Writer(i))

FairSpec == Spec /\ Fairness

-----------------------------------------------------------------------------
(* Properties.                                                             *)

Message == [id : Ids, call : Calls]

\* Every variable has its type.
TypeOK ==
  /\ life \in {"stopped", "running", "stopping"}
  /\ gen \in 0 .. MaxStarts
  /\ queue \in [Gens -> Seq(Requests)]
  /\ requestsCount \in Int
  /\ pc \in [Calls -> {"idle", "enqueue", "wait", "return", "returned"}]
  /\ obj \in [Calls -> Requests \cup {Nil}]
  /\ chan \in [Calls -> 0 .. MaxStarts]
  /\ result \in [Calls -> Errors \cup {"none"}]
  /\ replied \in [Calls -> Calls \cup {Nil}]
  /\ place \in [Requests -> {"free", "caller", "queue", "skip", "pending", "body", "spent"}]
  /\ owner \in [Requests -> Calls \cup {Nil}]
  /\ err \in [Requests -> Errors]
  /\ done \in [Requests -> {"empty", "token", "closed"}]
  /\ sup \in [Conns -> {"off", "select", "drain", "backoff", "up", "closing"}]
  /\ dial \in [Conns -> {"none", "pending", "ok", "err"}]
  /\ conn \in [Conns -> {"none", "open", "broken", "closed"}]
  /\ supErr \in [Conns -> Errors]
  /\ openConns \in Int
  /\ faults \in 0 .. MaxFaults
  /\ pending \in [Conns -> [Ids -> Requests \cup {Nil}]]
  /\ requestId \in [Conns -> 0 .. MaxId]
  /\ wr \in [Conns -> {"off", "select", "write", "exit"}]
  /\ wcur \in [Conns -> Requests \cup {Nil}]
  /\ rd \in [Conns -> {"off", "read", "body", "exit"}]
  /\ rcur \in [Conns -> Requests \cup {Nil}]
  /\ rfor \in [Conns -> Calls \cup {Nil}]
  /\ sent \in [Conns -> SUBSET Message]

\* A response finds its own call: the id of every request the peer has not
\* answered yet is pending, and under it lies an object that still carries the
\* call the peer was sent; no id is in use twice on a connection.  So a correct
\* peer never makes connectionReader take its "unexpected message" exit, although
\* ids and objects are both reused.
Correlated ==
  \A i \in Conns : \A m \in sent[i] :
    /\ pending[i][m.id] # Nil
    /\ owner[pending[i][m.id]] = m.call
    /\ \A n \in sent[i] : n.id = m.id => n = m

\* What is decoded into a call's reply variables is the answer to that call.
OwnReply == \A k \in Calls : replied[k] \in {k, Nil}

InQueue(r) == \E g \in Gens : \E n \in 1 .. Len(queue[g]) : queue[g][n] = r
BeingRead(r) == \E i \in Conns : rd[i] = "body" /\ rcur[i] = r

\* No call is lost: while a goroutine waits in Call, its request is in a queue,
\* pending on a connection or being filled by a reader, or its done channel is
\* ready; and the object still belongs to that call.
NoLostCall ==
  \A k \in Calls : pc[k] = "wait" =>
    /\ owner[obj[k]] = k
    /\ \/ InQueue(obj[k])
       \/ \E i \in Conns : IsPending(i, obj[k])
       \/ BeingRead(obj[k])
       \/ done[obj[k]] # "empty"

\* A request is completed once: as long as it is queued, pending or being read
\* its done channel is open and empty, so the reader never blocks on it or
\* panics, and it is never closed twice.
SignalOnce ==
  \A r \in Requests :
    (InQueue(r) \/ BeingRead(r) \/ \E i \in Conns : IsPending(i, r)) => done[r] = "empty"

\* requestsCount is the number of pending requests of all connections: it
\* neither drifts nor wraps below zero, whichever goroutine removes a request.
CountExact ==
  requestsCount = Cardinality({c \in Conns \X Ids : pending[c[1]][c[2]] # Nil})

\* The overflow check of connectionWriter keeps the pending map of a connection
\* within PendingRequests + 1, and one more for the request that trips it.
PendingBounded ==
  \A i \in Conns :
    Cardinality(PendingIds(i)) <= PendingRequests + IF wr[i] \in {"select", "write"} THEN 1 ELSE 2

\* A Call that returns nil has had its reply decoded.
NilMeansReplied ==
  \A k \in Calls \ Sends :
    pc[k] = "returned" /\ result[k] = "nil" => replied[k] = k

\* The client never has more connections open than it has supervisors.
ConnectionLimit == openConns <= Cardinality(Conns)

\* A call's reply variables are not written once the call has returned.
NoLateReply ==
  [][\A k \in Calls : replied'[k] # replied[k] => pc[k] \in {"wait", "return"}]_vars

\* Every Call that uses the requestsChan of the last start returns, unless the client
\* is stopped under it: what lies in the queue then is never taken.
CallReturns ==
  \A k \in Calls :
    (pc[k] \in {"enqueue", "wait", "return"} /\ chan[k] = gen)
      ~> (pc[k] = "returned" \/ life # "running")

\* A Call whose request has reached a connection returns, also when the client
\* is being stopped.
TakenCallReturns ==
  \A k \in Calls :
    (pc[k] = "wait" /\ \E i \in Conns : IsPending(i, obj[k])) ~> pc[k] = "returned"

\* Stop returns, whatever dial, read, write or backoff it interrupts.
StopReturns == (life = "stopping") ~> (life = "stopped")

=============================================================================

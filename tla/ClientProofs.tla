---------------------------- MODULE ClientProofs ----------------------------
(***************************************************************************)
(* Inv (ClientInvariant) is an invariant of Client for every value of its  *)
(* constants.  TypeInv, LifeCycleInv and one lemma per action that hands a *)
(* clientRequest on show that a step preserves its parts; every other      *)
(* action satisfies Frame, which FrameInv deals with once.                 *)
(***************************************************************************)
EXTENDS ClientInvariant, FiniteSetTheorems, TLAPS

USE DEF callVars, objVars, supVars, rdVars, wrVars, clientUnch, supUnch,
        idleConnUnch, rdUnch, wrUnch, bodyUnch

\* Init => Inv: a client that was never started holds no request anywhere.
LEMMA InitInv == Init => Inv
<1> SUFFICES ASSUME Init PROVE Inv
  OBVIOUS
<1> USE CallsAssumption, EnvironmentAssumption, BoundsAssumption DEF Init
<1>1. TypeOK
  BY DEF TypeOK, Errors, Ids, Gens, NonePending, Message
<1>2. /\ ObjectsClean /\ CallersOwn /\ QueuesHold /\ PendingHold /\ ReadersHold
      /\ WritersHold /\ LabelsTrue /\ LifeCycle /\ Correlated /\ OwnReply
  BY DEF ObjectsClean, CallersOwn, QueuesHold, PendingHold, ReadersHold, WritersHold,
         LabelsTrue, LifeCycle, Correlated, OwnReply, Held, NonePending
<1> QED BY <1>1, <1>2 DEF Inv, Ownership

\* The pending map of a connection is finite, so that its length, which the overflow
\* check of connectionWriter and the loop of FailPending use, is a number.
LEMMA PendingFinite ==
  ASSUME NEW i \in Conns
  PROVE  Cardinality(PendingIds(i)) \in Nat
<1>1. IsFiniteSet(Ids)
  BY BoundsAssumption, FS_Interval DEF Ids
<1>2. PendingIds(i) \subseteq Ids
  BY DEF PendingIds
<1> QED BY <1>1, <1>2, FS_Subset, FS_CardinalityType

\* Taking a request from requestsChan, as connectionWriter does, keeps the type of the
\* queues and yields an object.
LEMMA DequeueType ==
  ASSUME TypeOK, LifeCycle, NEW i \in Conns, Dequeue(i)
  PROVE  /\ gen \in Gens
         /\ queue' \in [Gens -> Seq(Requests)]
         /\ Head(queue[gen]) \in Requests
<1>1. gen \in Gens
  BY DEF Dequeue, LifeCycle
<1>2. queue[gen] \in Seq(Requests) /\ queue[gen] # <<>>
  BY <1>1 DEF Dequeue, TypeOK
<1>3. Tail(queue[gen]) \in Seq(Requests) /\ Head(queue[gen]) \in Requests
  BY <1>2
<1> QED BY <1>1, <1>3 DEF Dequeue, TypeOK

\* The request that connectionWriter is writing is an object that carries a call.
LEMMA Written ==
  ASSUME TypeOK, Ownership, NEW i \in Conns, wr[i] = "write"
  PROVE  /\ wcur[i] \in Requests
         /\ place[wcur[i]] \in {"skip", "pending"}
         /\ owner[wcur[i]] \in Calls
<1>1. wcur[i] \in Requests
  BY DEF Ownership, WritersHold
<1>2. wcur[i] # Nil
  BY <1>1, CallsAssumption
<1>3. place[wcur[i]] \in {"skip", "pending"}
  BY <1>1, <1>2 DEF Ownership, WritersHold, PendingHold
<1> QED BY <1>1, <1>3 DEF Ownership, ObjectsClean, Held

\* The request that the response m answers is pending, and is the one that was sent:
\* what the map lookup of connectionReader finds.
LEMMA Awaited ==
  ASSUME TypeOK, Ownership, Correlated, NEW i \in Conns, NEW m \in sent[i]
  PROVE  /\ m.id \in Ids /\ m.call \in Calls
         /\ pending[i][m.id] \in Requests
         /\ place[pending[i][m.id]] = "pending"
         /\ owner[pending[i][m.id]] = m.call
<1>1. m.id \in Ids /\ m.call \in Calls
  BY DEF TypeOK, Message
<1> QED BY <1>1 DEF TypeOK, Ownership, Correlated, PendingHold

\* The end of the loop of handleConnections keeps the types of sup and dial.
LEMMA RedialType ==
  ASSUME TypeOK, NEW i \in Conns, RedialUnlessStopped(i)
  PROVE  /\ sup' \in [Conns -> {"off", "select", "drain", "backoff", "up", "closing"}]
         /\ dial' \in [Conns -> {"none", "pending", "ok", "err"}]
<1>1. PICK s \in {"off", "select"}, d \in {"none", "pending"} :
        sup' = [sup EXCEPT ![i] = s] /\ dial' = [dial EXCEPT ![i] = d]
  BY DEF RedialUnlessStopped, Redial
<1>2. /\ sup \in [Conns -> {"off", "select", "drain", "backoff", "up", "closing"}]
      /\ dial \in [Conns -> {"none", "pending", "ok", "err"}]
  BY DEF TypeOK
<1> QED BY <1>1, <1>2

\* Every step, of any goroutine or the network, preserves the types.
LEMMA TypeInv == Inv /\ [Next]_vars => TypeOK'
<1> SUFFICES ASSUME Inv, [Next]_vars PROVE TypeOK'
  OBVIOUS
<1> USE CallsAssumption, BoundsAssumption DEF TypeOK, Errors, Ids, Gens, Message
<1>0. TypeOK /\ ObjectsClean /\ CallersOwn /\ ReadersHold /\ WritersHold
      /\ PendingHold /\ LifeCycle /\ Ownership
  BY DEF Inv, Ownership
<1>1. CASE Start
  BY <1>0, <1>1 DEF Start
<1>2. CASE Stop
  BY <1>0, <1>2 DEF Stop
<1>3. CASE StopReturn
  BY <1>0, <1>3 DEF StopReturn
<1>4. ASSUME NEW k \in Calls, Caller(k) PROVE TypeOK'
  <2>1. CASE \E r \in Requests : Request(k, r)
    BY <1>0, <2>1 DEF Request
  <2>2. CASE call(k)
    <3>1. queue' \in [Gens -> Seq(Requests)]
      BY <1>0, <2>2 DEF call, Enqueue, CallersOwn
    <3> QED BY <1>0, <2>2, <3>1 DEF call, Enqueue
  <2>3. CASE send(k)
    <3>1. queue' \in [Gens -> Seq(Requests)]
      BY <1>0, <2>3 DEF send, Enqueue, CallersOwn
    <3> QED BY <1>0, <2>3, <3>1 DEF send, Enqueue
  <2>4. CASE CancelEnqueue(k)
    BY <1>0, <2>4 DEF CancelEnqueue
  <2>5. CASE CancelWait(k)
    BY <1>0, <2>5 DEF CancelWait
  <2>6. CASE ReceiveDone(k)
    BY <1>0, <2>6 DEF ReceiveDone
  <2>7. CASE CallReturn(k)
    BY <1>0, <2>7 DEF CallReturn, CallersOwn
  <2> QED BY <1>4, <2>1, <2>2, <2>3, <2>4, <2>5, <2>6, <2>7 DEF Caller
<1>5. ASSUME NEW i \in Conns, Supervisor(i) PROVE TypeOK'
  <2>1. CASE DialOk(i)
    BY <1>0, <2>1 DEF DialOk
  <2>2. CASE DialFail(i)
    BY <1>0, <2>2 DEF DialFail
  <2>3. CASE StopDial(i)
    BY <1>0, <2>3 DEF StopDial
  <2>4. CASE DrainDial(i)
    BY <1>0, <2>4 DEF DrainDial
  <2>5. CASE DialServerFailed(i)
    BY <1>0, <2>5 DEF DialServerFailed
  <2>6. CASE BackoffTimer(i)
    BY <1>0, <2>6 DEF BackoffTimer, Redial
  <2>7. CASE BackoffStop(i)
    BY <1>0, <2>7 DEF BackoffStop
  <2>8. CASE ConnectedFailed(i)
    BY <1>0, <2>8, RedialType DEF ConnectedFailed
  <2>9. CASE Connected(i)
    BY <1>0, <2>9 DEF Connected
  <2>10. CASE ReaderDone(i)
    BY <1>0, <2>10 DEF ReaderDone, Close, CloseConn
  <2>11. CASE WriterDone(i)
    BY <1>0, <2>11 DEF WriterDone, Close, CloseConn
  <2>12. CASE StopConnection(i)
    BY <1>0, <2>12 DEF StopConnection, Close, CloseConn
  <2>13. CASE JoinReader(i)
    BY <1>0, <2>13 DEF JoinReader
  <2>14. CASE JoinWriter(i)
    BY <1>0, <2>14 DEF JoinWriter
  <2>15. CASE FailPending(i)
    <3>1. requestsCount' \in Int
      BY <1>0, <2>15, PendingFinite DEF FailPending, CountOut
    <3>2. /\ place' \in [Requests -> {"free", "caller", "queue", "skip", "pending", "body", "spent"}]
          /\ done' \in [Requests -> {"empty", "token", "closed"}]
          /\ err' \in [Requests -> Errors]
      BY <1>0, <2>15 DEF FailPending, ClosePending
    <3>3. pending' \in [Conns -> [Ids -> Requests \cup {Nil}]]
      BY <1>0, <2>15 DEF FailPending, NonePending
    <3>4. /\ sup' \in [Conns -> {"off", "select", "drain", "backoff", "up", "closing"}]
          /\ dial' \in [Conns -> {"none", "pending", "ok", "err"}]
      BY <1>0, <2>15, RedialType DEF FailPending
    <3> QED
      BY <1>0, <2>15, <3>1, <3>2, <3>3, <3>4 DEF FailPending
  <2>16. CASE Break(i)
    BY <1>0, <2>16 DEF Break
  <2> QED BY <1>5, <2>1, <2>2, <2>3, <2>4, <2>5, <2>6, <2>7, <2>8, <2>9, <2>10, <2>11,
             <2>12, <2>13, <2>14, <2>15, <2>16 DEF Supervisor
<1>6. ASSUME NEW i \in Conns, Reader(i) PROVE TypeOK'
  <2>1. CASE ReadFail(i)
    BY <1>0, <2>1 DEF ReadFail, ReaderExit
  <2>2. ASSUME NEW m \in sent[i], ReadId(i, m) PROVE TypeOK'
    BY <1>0, <2>2 DEF ReadId, TakePending, CountOut
  <2>3. CASE ReadUnexpected(i)
    BY <1>0, <2>3 DEF ReadUnexpected, ReaderExit
  <2>4. CASE ReadReply(i)
    <3>1. rcur[i] \in Requests /\ owner[rcur[i]] \in Calls
      BY <1>0, <2>4 DEF ReadReply, ReadersHold, ObjectsClean, Held
    <3>2. err' = err \/ err' = [err EXCEPT ![rcur[i]] = "server"]
      BY <2>4 DEF ReadReply
    <3>3. err' \in [Requests -> Errors]
      <4>1. CASE err' = err
        BY <1>0, <4>1
      <4>2. CASE err' = [err EXCEPT ![rcur[i]] = "server"]
        BY <1>0, <3>1, <4>2
      <4> QED BY <3>2, <4>1, <4>2
    <3> QED BY <1>0, <2>4, <3>1, <3>3 DEF ReadReply, SignalDone
  <2>5. CASE DecodeFail(i)
    <3>1. err' = err \/ err' = [err EXCEPT ![rcur[i]] = "server"]
      BY <2>5 DEF DecodeFail
    <3>2. err' \in [Requests -> Errors]
      <4>1. rcur[i] \in Requests
        BY <1>0, <2>5 DEF DecodeFail, ReadersHold
      <4>2. CASE err' = err
        BY <1>0, <4>2
      <4>3. CASE err' = [err EXCEPT ![rcur[i]] = "server"]
        BY <1>0, <4>1, <4>3
      <4> QED BY <3>1, <4>2, <4>3
    <3> QED BY <1>0, <2>5, <3>2 DEF DecodeFail, SignalDone, ReaderExit
  <2>6. CASE ReadBodyFail(i)
    <3>1. err' = err \/ err' = [err EXCEPT ![rcur[i]] = "server"]
      BY <2>6 DEF ReadBodyFail
    <3>2. err' \in [Requests -> Errors]
      <4>1. rcur[i] \in Requests
        BY <1>0, <2>6 DEF ReadBodyFail, ReadersHold
      <4>2. CASE err' = err
        BY <1>0, <4>2
      <4>3. CASE err' = [err EXCEPT ![rcur[i]] = "server"]
        BY <1>0, <4>1, <4>3
      <4> QED BY <3>1, <4>2, <4>3
    <3> QED BY <1>0, <2>6, <3>2 DEF ReadBodyFail, SignalDone, ReaderExit
  <2> QED BY <1>6, <2>1, <2>2, <2>3, <2>4, <2>5, <2>6 DEF Reader
<1>7. ASSUME NEW i \in Conns, Writer(i) PROVE TypeOK'
  <2>1. CASE WriteStop(i)
    BY <1>0, <2>1 DEF WriteStop
  <2>2. CASE DropCancelled(i)
    <3>1. Dequeue(i)
      BY <2>2 DEF DropCancelled
    <3>2. queue' \in [Gens -> Seq(Requests)]
      BY <1>0, <3>1, DequeueType
    <3> QED BY <1>0, <2>2, <3>2 DEF DropCancelled, Recycle
  <2>3. CASE TakeSend(i)
    <3>1. Dequeue(i)
      BY <2>3 DEF TakeSend
    <3>2. queue' \in [Gens -> Seq(Requests)] /\ Head(queue[gen]) \in Requests
      BY <1>0, <3>1, DequeueType
    <3> QED BY <1>0, <2>3, <3>2 DEF TakeSend
  <2>4. ASSUME NEW id \in 0 .. MaxId, Register(i, id) PROVE TypeOK'
    <3>1. Dequeue(i)
      BY <2>4 DEF Register
    <3>2. queue' \in [Gens -> Seq(Requests)] /\ Head(queue[gen]) \in Requests
      BY <1>0, <3>1, DequeueType
    <3>3. pending' \in [Conns -> [Ids -> Requests \cup {Nil}]]
      BY <1>0, <2>4, <3>2 DEF Register
    <3>4. wr' \in [Conns -> {"off", "select", "write", "exit"}]
      <4>1. PICK w \in {"exit", "write"} : wr' = [wr EXCEPT ![i] = w]
        BY <2>4 DEF Register
      <4> QED BY <1>0, <4>1
    <3>5. requestId' \in [Conns -> 0 .. MaxId]
      BY <1>0, <2>4 DEF Register
    <3>6. place' \in [Requests -> {"free", "caller", "queue", "skip", "pending", "body", "spent"}]
      BY <1>0, <2>4, <3>2 DEF Register
    <3>7. requestsCount' \in Int /\ wcur' \in [Conns -> Requests \cup {Nil}]
      BY <1>0, <2>4, <3>2 DEF Register
    <3>8. UNCHANGED <<life, gen, callVars, replied, supVars, rdVars, owner, err, done, sent>>
      BY <2>4 DEF Register
    <3> QED BY <1>0, <3>2, <3>3, <3>4, <3>5, <3>6, <3>7, <3>8
  <2>5. CASE Write(i)
    <3>1. wcur[i] \in Requests
      BY <1>0, <2>5 DEF Write, WritersHold
    <3>2. ~Skip(wcur[i]) => requestId[i] \in Ids /\ owner[wcur[i]] \in Calls
      BY <1>0, <2>5, Written DEF Write, WritersHold
    <3>3. sent' \in [Conns -> SUBSET Message]
      BY <1>0, <2>5, <3>2 DEF Write
    <3>4. /\ place' \in [Requests -> {"free", "caller", "queue", "skip", "pending", "body", "spent"}]
          /\ owner' \in [Requests -> Calls \cup {Nil}]
          /\ err' \in [Requests -> Errors]
          /\ done' \in [Requests -> {"empty", "token", "closed"}]
      <4>1. Recycle(wcur[i]) \/ UNCHANGED objVars
        BY <2>5 DEF Write
      <4>2. CASE Recycle(wcur[i])
        BY <1>0, <4>2 DEF Recycle
      <4> QED BY <1>0, <4>1, <4>2
    <3> QED BY <1>0, <2>5, <3>3, <3>4 DEF Write
  <2>6. CASE WriteFail(i)
    BY <1>0, <2>6 DEF WriteFail
  <2> QED BY <1>7, <2>1, <2>2, <2>3, <2>4, <2>5, <2>6 DEF Writer
<1>8. CASE UNCHANGED vars
  BY <1>0, <1>8 DEF vars
<1> QED BY <1>1, <1>2, <1>3, <1>4, <1>5, <1>6, <1>7, <1>8 DEF Next

\* Every step keeps the goroutines of a connection within handleConnection, and the
\* supervisors within Start and Stop.
LEMMA LifeCycleInv == Inv /\ [Next]_vars => LifeCycle'
<1> SUFFICES ASSUME Inv, [Next]_vars PROVE LifeCycle'
  OBVIOUS
<1>0. TypeOK /\ LifeCycle
  BY DEF Inv
<1> USE BoundsAssumption DEF TypeOK, LifeCycle, Gens
<1>1. CASE Start
  <2>1. life' = "running" /\ gen' \in Gens
    BY <1>0, <1>1 DEF Start
  <2>2. \A i \in Conns : rd'[i] = "off" /\ wr'[i] = "off"
    BY <1>0, <1>1 DEF Start
  <2> QED BY <2>1, <2>2
<1>2. CASE Stop
  BY <1>0, <1>2 DEF Stop
<1>3. CASE StopReturn
  BY <1>0, <1>3 DEF StopReturn
<1>4. ASSUME NEW k \in Calls, Caller(k) PROVE LifeCycle'
  <2>1. UNCHANGED <<life, gen, sup, rd, wr>>
    BY <1>4 DEF Caller, Request, call, send, Enqueue, CancelEnqueue, CancelWait,
                ReceiveDone, CallReturn
  <2> QED BY <1>0, <2>1
<1>5. ASSUME NEW i \in Conns, Supervisor(i) PROVE LifeCycle'
  <2>0. UNCHANGED <<life, gen>>
    BY <1>5 DEF Supervisor, DialOk, DialFail, StopDial, DrainDial, DialServerFailed,
       BackoffTimer, BackoffStop, ConnectedFailed, Connected, ReaderDone, WriterDone,
       StopConnection, JoinReader, JoinWriter, FailPending, Break
  <2>1. CASE DialOk(i) \/ DialFail(i) \/ Break(i)
    BY <1>0, <2>0, <2>1 DEF DialOk, DialFail, Break
  <2>2. CASE StopDial(i) \/ DrainDial(i) \/ DialServerFailed(i) \/ BackoffTimer(i) \/ BackoffStop(i)
    <3>1. PICK s \in {"off", "select", "drain", "backoff"} : sup' = [sup EXCEPT ![i] = s]
      BY <2>2 DEF StopDial, DrainDial, DialServerFailed, BackoffTimer, BackoffStop, Redial
    <3>2. UNCHANGED <<rd, wr>> /\ sup[i] \notin {"off", "up", "closing"}
      BY <2>2 DEF StopDial, DrainDial, DialServerFailed, BackoffTimer, BackoffStop
    <3> QED BY <1>0, <2>0, <3>1, <3>2
  <2>3. CASE ConnectedFailed(i) \/ FailPending(i)
    <3>1. PICK s \in {"off", "select"} : sup' = [sup EXCEPT ![i] = s]
      BY <2>3 DEF ConnectedFailed, FailPending, RedialUnlessStopped, Redial
    <3>2. UNCHANGED <<rd, wr>> /\ sup[i] # "off" /\ rd[i] = "off" /\ wr[i] = "off"
      BY <1>0, <2>3 DEF ConnectedFailed, FailPending
    <3> QED BY <1>0, <2>0, <3>1, <3>2
  <2>4. CASE Connected(i)
    BY <1>0, <2>0, <2>4 DEF Connected
  <2>5. CASE ReaderDone(i) \/ WriterDone(i) \/ StopConnection(i)
    <3>1. sup' = [sup EXCEPT ![i] = "closing"] /\ sup[i] = "up"
      BY <2>5 DEF ReaderDone, WriterDone, StopConnection, Close
    <3>2. /\ rd' = rd \/ rd' = [rd EXCEPT ![i] = "off"]
          /\ wr' = wr \/ wr' = [wr EXCEPT ![i] = "off"]
      BY <2>5 DEF ReaderDone, WriterDone, StopConnection
    <3> QED BY <1>0, <2>0, <3>1, <3>2
  <2>6. CASE JoinReader(i) \/ JoinWriter(i)
    BY <1>0, <2>0, <2>6 DEF JoinReader, JoinWriter
  <2> QED BY <1>5, <2>1, <2>2, <2>3, <2>4, <2>5, <2>6 DEF Supervisor
<1>6. ASSUME NEW i \in Conns, Reader(i) PROVE LifeCycle'
  <2>1. UNCHANGED <<life, gen, sup, wr>>
    BY <1>6 DEF Reader, ReadFail, ReadId, ReadUnexpected, ReadReply, DecodeFail, ReadBodyFail
  <2>2. PICK s : rd' = [rd EXCEPT ![i] = s] /\ rd[i] # "off"
    BY <1>6 DEF Reader, ReadFail, ReadId, ReadUnexpected, ReadReply, DecodeFail,
                ReadBodyFail, ReaderExit
  <2> QED BY <1>0, <2>1, <2>2
<1>7. ASSUME NEW i \in Conns, Writer(i) PROVE LifeCycle'
  <2>1. UNCHANGED <<life, gen, sup, rd>>
    BY <1>7 DEF Writer, WriteStop, DropCancelled, TakeSend, Register, Write, WriteFail
  <2>2. wr' = wr \/ (wr[i] # "off" /\ \E s : wr' = [wr EXCEPT ![i] = s])
    BY <1>7 DEF Writer, WriteStop, DropCancelled, TakeSend, Register, Write, WriteFail, Dequeue
  <2> QED BY <1>0, <2>1, <2>2
<1>8. CASE UNCHANGED vars
  BY <1>0, <1>8 DEF vars
<1> QED BY <1>1, <1>2, <1>3, <1>4, <1>5, <1>6, <1>7, <1>8 DEF Next

\* A step that leaves calls, objects and containers alone, and in which no reader
\* starts or ends a response and no writer a request.
Frame ==
  /\ UNCHANGED <<callVars, replied, objVars, queue, pending, rcur, rfor, wcur, sent>>
  /\ \A j \in Conns : rd'[j] = "body" <=> rd[j] = "body"
  /\ \A j \in Conns : wr'[j] = "write" => wr[j] = "write" /\ requestId'[j] = requestId[j]

\* A step that moves no request preserves the ownership discipline.
LEMMA FrameInv == Inv /\ Frame => Ownership' /\ Correlated' /\ OwnReply'
<1> SUFFICES ASSUME Inv, Frame PROVE Ownership' /\ Correlated' /\ OwnReply'
  OBVIOUS
<1> USE DEF Inv, Ownership, Frame
<1>1. ObjectsClean' /\ OwnReply'
  BY DEF ObjectsClean, OwnReply
<1>2. CallersOwn'
  BY DEF CallersOwn
<1>3. QueuesHold'
  BY DEF QueuesHold
<1>4. PendingHold'
  BY DEF PendingHold, Skip
<1>5. ReadersHold'
  BY DEF ReadersHold
<1>6. WritersHold'
  BY DEF WritersHold, Skip
<1>7. LabelsTrue'
  BY DEF LabelsTrue, InQueue, IsPending, BeingRead
<1>8. Correlated'
  BY DEF Correlated
<1> QED BY <1>1, <1>2, <1>3, <1>4, <1>5, <1>6, <1>7, <1>8

\* Start, Stop, the whole of handleConnections and the exits of readers and writers
\* move no request.
LEMMA FrameSteps ==
  ASSUME Inv,
         \/ Start \/ Stop \/ StopReturn
         \/ \E i \in Conns :
              \/ DialOk(i) \/ DialFail(i) \/ StopDial(i) \/ DrainDial(i)
              \/ DialServerFailed(i) \/ BackoffTimer(i) \/ BackoffStop(i)
              \/ ConnectedFailed(i) \/ Connected(i)
              \/ ReaderDone(i) \/ WriterDone(i) \/ StopConnection(i)
              \/ JoinReader(i) \/ JoinWriter(i) \/ Break(i)
              \/ ReadFail(i) \/ ReadUnexpected(i) \/ WriteStop(i)
         \/ UNCHANGED vars
  PROVE  Frame
<1>0. TypeOK /\ LifeCycle
  BY DEF Inv
<1>1. CASE Start \/ Stop \/ StopReturn \/ UNCHANGED vars
  BY <1>1 DEF Start, Stop, StopReturn, vars, Frame
<1>2. ASSUME NEW i \in Conns,
             \/ DialOk(i) \/ DialFail(i) \/ StopDial(i) \/ DrainDial(i)
             \/ DialServerFailed(i) \/ BackoffTimer(i) \/ BackoffStop(i)
             \/ ConnectedFailed(i) \/ Break(i)
      PROVE  Frame
  BY <1>2 DEF DialOk, DialFail, StopDial, DrainDial, DialServerFailed, BackoffTimer,
              BackoffStop, ConnectedFailed, Break, Frame
<1>3. ASSUME NEW i \in Conns, Connected(i) PROVE Frame
  <2>1. rd[i] = "off" /\ wr[i] = "off"
    BY <1>0, <1>3 DEF Connected, LifeCycle
  <2>2. /\ rd' = [rd EXCEPT ![i] = "read"] /\ wr' = [wr EXCEPT ![i] = "select"]
        /\ requestId' = [requestId EXCEPT ![i] = 0]
        /\ UNCHANGED <<callVars, replied, objVars, queue, pending, rcur, rfor, wcur, sent>>
    BY <1>3 DEF Connected
  <2> QED BY <1>0, <2>1, <2>2 DEF Frame, TypeOK
<1>4. ASSUME NEW i \in Conns,
             ReaderDone(i) \/ JoinReader(i) \/ ReadFail(i) \/ ReadUnexpected(i)
      PROVE  Frame
  <2>1. PICK s \in {"off", "exit"} : rd' = [rd EXCEPT ![i] = s] /\ rd[i] # "body"
    BY <1>4 DEF ReaderDone, JoinReader, ReadFail, ReadUnexpected, ReaderExit
  <2>2. UNCHANGED <<callVars, replied, objVars, queue, pending, rcur, rfor, wrVars, sent>>
    BY <1>4 DEF ReaderDone, JoinReader, ReadFail, ReadUnexpected, Close
  <2> QED BY <1>0, <2>1, <2>2 DEF Frame, TypeOK
<1>5. ASSUME NEW i \in Conns, WriterDone(i) \/ JoinWriter(i) \/ WriteStop(i)
      PROVE  Frame
  <2>1. PICK s \in {"off", "exit"} : wr' = [wr EXCEPT ![i] = s]
    BY <1>5 DEF WriterDone, JoinWriter, WriteStop
  <2>2. UNCHANGED <<callVars, replied, objVars, queue, pending, rdVars, wcur, requestId, sent>>
    BY <1>5 DEF WriterDone, JoinWriter, WriteStop, Close
  <2> QED BY <1>0, <2>1, <2>2 DEF Frame, TypeOK
<1>6. ASSUME NEW i \in Conns, StopConnection(i) PROVE Frame
  BY <1>6 DEF StopConnection, Close, Frame
<1> QED BY <1>1, <1>2, <1>3, <1>4, <1>5, <1>6

\* Client.Request hands an object from the pool to one caller.
LEMMA RequestInv ==
  ASSUME Inv, NEW k \in Calls, NEW r \in Requests, Request(k, r)
  PROVE  Ownership' /\ Correlated' /\ OwnReply'
<1>0. TypeOK /\ Ownership /\ Correlated /\ OwnReply
  BY DEF Inv
<1>1. /\ place' = [place EXCEPT ![r] = "caller"] /\ place[r] = "free"
      /\ owner' = [owner EXCEPT ![r] = k]
      /\ pc' = [pc EXCEPT ![k] = "enqueue"] /\ pc[k] = "idle"
      /\ obj' = [obj EXCEPT ![k] = r]
      /\ chan' = [chan EXCEPT ![k] = gen] /\ gen \in Gens
      /\ UNCHANGED <<queue, replied, err, done, pending, wrVars, rdVars, sent>>
  BY <1>0 DEF Request, TypeOK, Gens
<1> USE <1>0, <1>1 DEF TypeOK, Ownership
<1>2. ObjectsClean' /\ OwnReply'
  BY DEF ObjectsClean, OwnReply, Held
<1>3. CallersOwn'
  BY DEF CallersOwn
<1>4. QueuesHold'
  BY DEF QueuesHold
<1>5. PendingHold'
  BY DEF PendingHold, Skip
<1>6. ReadersHold'
  BY DEF ReadersHold
<1>7. WritersHold'
  <2>1. \A i \in Conns : wr[i] = "write" => wcur[i] \in Requests /\ wcur[i] # r
    BY Written
  <2> QED BY <2>1 DEF WritersHold, Skip
<1>8. LabelsTrue'
  BY DEF LabelsTrue, InQueue, IsPending, BeingRead
<1>9. Correlated'
  <2>1. \A i \in Conns : \A m \in sent[i] : pending[i][m.id] \in Requests \ {r}
    BY Awaited
  <2> QED BY <2>1 DEF Correlated
<1> QED BY <1>2, <1>3, <1>4, <1>5, <1>6, <1>7, <1>8, <1>9

\* The select of call and send hands the object from the caller to the queue.
LEMMA EnqueueInv ==
  ASSUME Inv, NEW k \in Calls, call(k) \/ send(k)
  PROVE  Ownership' /\ Correlated' /\ OwnReply'
<1>0. TypeOK /\ Ownership /\ Correlated /\ OwnReply
  BY DEF Inv
<1> DEFINE r == obj[k]
           g == chan[k]
<1>1. /\ r \in Requests /\ place[r] = "caller" /\ owner[r] = k
      /\ g \in Gens /\ queue[g] \in Seq(Requests)
      /\ done[r] = "empty" /\ err[r] = "nil"
  BY <1>0 DEF call, send, Enqueue, TypeOK, Ownership, CallersOwn, ObjectsClean, Held
<1>2. /\ queue' = [queue EXCEPT ![g] = Append(@, r)]
      /\ place' = [place EXCEPT ![r] = "queue"]
      /\ UNCHANGED <<obj, chan, replied, owner, err, done, pending, wrVars, rdVars, sent>>
  BY DEF call, send, Enqueue
<1>3. \/ pc' = [pc EXCEPT ![k] = "wait"] /\ k \notin Sends
      \/ pc' = [pc EXCEPT ![k] = "returned"]
  BY DEF call, send
<1> HIDE DEF r, g
<1> USE DEF TypeOK, Ownership
<1>4. ObjectsClean' /\ OwnReply'
  BY <1>0, <1>1, <1>2 DEF ObjectsClean, OwnReply, Held
<1>5. CallersOwn'
  BY <1>0, <1>1, <1>2, <1>3 DEF CallersOwn, r, g
<1>6. QueuesHold'
  BY <1>0, <1>1, <1>2 DEF QueuesHold
<1>7. PendingHold'
  BY <1>0, <1>1, <1>2 DEF PendingHold, Skip
<1>8. ReadersHold'
  BY <1>0, <1>1, <1>2 DEF ReadersHold
<1>9. WritersHold'
  BY <1>0, <1>1, <1>2 DEF WritersHold, Skip
<1>10. LabelsTrue'
  BY <1>0, <1>1, <1>2 DEF LabelsTrue, InQueue, IsPending, BeingRead
<1>11. Correlated'
  BY <1>0, <1>2 DEF Correlated
<1> QED BY <1>4, <1>5, <1>6, <1>7, <1>8, <1>9, <1>10, <1>11

\* A call or send whose context ends first drops its object for good.
LEMMA CancelEnqueueInv ==
  ASSUME Inv, NEW k \in Calls, CancelEnqueue(k)
  PROVE  Ownership' /\ Correlated' /\ OwnReply'
<1>0. TypeOK /\ Ownership /\ Correlated /\ OwnReply
  BY DEF Inv
<1> DEFINE r == obj[k]
<1>1. r \in Requests /\ place[r] = "caller" /\ owner[r] = k
  BY <1>0 DEF CancelEnqueue, Ownership, CallersOwn
<1>2. /\ place' = [place EXCEPT ![r] = "spent"]
      /\ pc' = [pc EXCEPT ![k] = "returned"]
      /\ UNCHANGED <<queue, obj, chan, replied, owner, err, done, pending, wrVars, rdVars, sent>>
  BY DEF CancelEnqueue
<1> HIDE DEF r
<1> USE <1>0, <1>1, <1>2 DEF TypeOK, Ownership
<1>3. ObjectsClean' /\ OwnReply'
  BY DEF ObjectsClean, OwnReply, Held
<1>4. CallersOwn'
  BY DEF CallersOwn, r
<1>5. QueuesHold' /\ PendingHold'
  BY DEF QueuesHold, PendingHold, Skip
<1>6. ReadersHold' /\ WritersHold'
  BY DEF ReadersHold, WritersHold, Skip
<1>7. LabelsTrue' /\ Correlated'
  BY DEF LabelsTrue, InQueue, IsPending, BeingRead, Correlated
<1> QED BY <1>3, <1>4, <1>5, <1>6, <1>7

\* The end of call (a cancellation, a receive from done, the return) leaves the
\* object where it is.
LEMMA CallEndInv ==
  ASSUME Inv, NEW k \in Calls, CancelWait(k) \/ ReceiveDone(k) \/ CallReturn(k)
  PROVE  Ownership' /\ Correlated' /\ OwnReply'
<1>0. TypeOK /\ Ownership /\ Correlated /\ OwnReply
  BY DEF Inv
<1> DEFINE r == obj[k]
<1>1. r \in Requests
  BY <1>0 DEF CancelWait, ReceiveDone, CallReturn, Ownership, CallersOwn
<1>2. /\ pc' = [pc EXCEPT ![k] = "return"] \/ pc' = [pc EXCEPT ![k] = "returned"]
      /\ UNCHANGED <<queue, obj, chan, replied, place, owner, pending, wrVars, rdVars, sent>>
  BY DEF CancelWait, ReceiveDone, CallReturn
<1>3. err' = err \/ (err' = [err EXCEPT ![r] = "ctx"] /\ pc[k] = "wait")
  BY DEF CancelWait, ReceiveDone, CallReturn
<1>4. done' = done \/ (done' = [done EXCEPT ![r] = "empty"] /\ pc[k] = "wait")
  BY <1>0, <1>1 DEF CancelWait, ReceiveDone, CallReturn, TypeOK
<1> HIDE DEF r
<1> USE <1>0, <1>1 DEF TypeOK, Ownership
<1>5. ObjectsClean' /\ OwnReply'
  <2>1. pc[k] = "wait" => place[r] \notin {"free", "caller"}
    BY DEF CallersOwn, r
  <2>2. \A s \in Requests : place[s] \in {"free", "caller"} => err'[s] = "nil"
    BY <1>3, <2>1 DEF ObjectsClean
  <2>3. \A s \in Requests : place[s] \in Held => done'[s] = "empty"
    BY <1>4 DEF ObjectsClean
  <2> QED BY <1>2, <2>2, <2>3 DEF ObjectsClean, OwnReply
<1>6. CallersOwn'
  BY <1>2, <1>3, <1>4 DEF CallersOwn, r
<1>7. QueuesHold' /\ PendingHold' /\ ReadersHold' /\ WritersHold'
  BY <1>2 DEF QueuesHold, PendingHold, ReadersHold, WritersHold, Skip
<1>8. LabelsTrue' /\ Correlated'
  BY <1>2 DEF LabelsTrue, InQueue, IsPending, BeingRead, Correlated
<1> QED BY <1>5, <1>6, <1>7, <1>8

\* The loop at the end of handleConnection completes every pending request, once.
LEMMA FailPendingInv ==
  ASSUME Inv, NEW i \in Conns, FailPending(i)
  PROVE  Ownership' /\ Correlated' /\ OwnReply'
<1>0. TypeOK /\ Ownership /\ Correlated /\ OwnReply
  BY DEF Inv
<1>1. /\ rd[i] = "off" /\ wr[i] = "off"
      /\ place' = [r \in Requests |-> IF IsPending(i, r) THEN "spent" ELSE place[r]]
      /\ done' = [r \in Requests |-> IF IsPending(i, r) THEN "closed" ELSE done[r]]
      /\ err' = [r \in Requests |-> IF IsPending(i, r) THEN supErr[i] ELSE err[r]]
      /\ pending' = [pending EXCEPT ![i] = NonePending]
      /\ sent' = [sent EXCEPT ![i] = {}]
      /\ UNCHANGED <<callVars, queue, replied, owner, wrVars, rdVars>>
  BY DEF FailPending, ClosePending
<1>2. \A r \in Requests : IsPending(i, r) => place[r] = "pending"
  BY <1>0, CallsAssumption DEF IsPending, Ownership, PendingHold
<1> USE <1>0, <1>1 DEF TypeOK, Ownership
<1>3. ObjectsClean' /\ OwnReply'
  BY <1>2 DEF ObjectsClean, OwnReply, Held
<1>4. CallersOwn'
  BY <1>2 DEF CallersOwn
<1>5. QueuesHold'
  BY <1>2 DEF QueuesHold
<1>6. PendingHold'
  BY <1>2 DEF PendingHold, Skip, IsPending, NonePending
<1>7. ReadersHold'
  BY <1>2 DEF ReadersHold
<1>8. WritersHold'
  BY <1>2 DEF WritersHold, Skip
<1>9. LabelsTrue'
  BY <1>2 DEF LabelsTrue, InQueue, IsPending, BeingRead
<1>10. Correlated'
  BY DEF Correlated
<1> QED BY <1>3, <1>4, <1>5, <1>6, <1>7, <1>8, <1>9, <1>10

\* connectionReader takes a request from the map of its connection, and it is the one
\* the response answers.
LEMMA ReadIdInv ==
  ASSUME Inv, NEW i \in Conns, NEW m \in sent[i], ReadId(i, m)
  PROVE  Ownership' /\ Correlated' /\ OwnReply'
<1>0. TypeOK /\ Ownership /\ Correlated /\ OwnReply
  BY DEF Inv
<1> DEFINE r == pending[i][m.id]
<1>1. /\ m.id \in Ids /\ m.call \in Calls
      /\ r \in Requests /\ place[r] = "pending" /\ owner[r] = m.call
  BY <1>0, Awaited
<1>2. /\ place' = [place EXCEPT ![r] = "body"]
      /\ pending' = [pending EXCEPT ![i][m.id] = Nil]
      /\ sent' = [sent EXCEPT ![i] = @ \ {m}]
      /\ rcur' = [rcur EXCEPT ![i] = r]
      /\ rfor' = [rfor EXCEPT ![i] = m.call]
      /\ rd' = [rd EXCEPT ![i] = "body"] /\ rd[i] = "read"
      /\ UNCHANGED <<callVars, queue, replied, owner, err, done, wrVars>>
  BY DEF ReadId, TakePending
<1>3. /\ \A j \in Conns : \A id \in Ids : pending[j][id] = r => j = i /\ id = m.id
      /\ \A n \in sent[i] : n.id = m.id => n = m
  BY <1>0, <1>1, CallsAssumption DEF Ownership, PendingHold, Correlated
<1>4. r = pending[i][m.id]
  OBVIOUS
<1> HIDE DEF r
<1> USE <1>0, <1>1, <1>2 DEF TypeOK, Ownership
<1>5. ObjectsClean' /\ OwnReply'
  BY DEF ObjectsClean, OwnReply, Held
<1>6. CallersOwn'
  BY DEF CallersOwn
<1>7. QueuesHold'
  BY DEF QueuesHold
<1>8. PendingHold'
  BY <1>3 DEF PendingHold, Skip
<1>9. ReadersHold'
  BY DEF ReadersHold
<1>10. WritersHold'
  BY <1>3, <1>4 DEF WritersHold, Skip
<1>11. LabelsTrue'
  BY <1>3 DEF LabelsTrue, InQueue, IsPending, BeingRead
<1>12. Correlated'
  BY <1>3, Awaited DEF Correlated
<1> QED BY <1>5, <1>6, <1>7, <1>8, <1>9, <1>10, <1>11, <1>12

\* readFrom signals done exactly once, whether it succeeds or not.
LEMMA ReadBodyInv ==
  ASSUME Inv, NEW i \in Conns, ReadReply(i) \/ DecodeFail(i) \/ ReadBodyFail(i)
  PROVE  Ownership' /\ Correlated' /\ OwnReply'
<1>0. TypeOK /\ Ownership /\ Correlated /\ OwnReply
  BY DEF Inv
<1> DEFINE r == rcur[i]
<1>1. /\ rd[i] = "body" /\ r \in Requests /\ place[r] = "body"
      /\ owner[r] \in Calls /\ rfor[i] = owner[r]
  BY <1>0 DEF ReadReply, DecodeFail, ReadBodyFail, Ownership, ReadersHold, ObjectsClean, Held
<1>2. /\ place' = [place EXCEPT ![r] = "spent"]
      /\ done' = [done EXCEPT ![r] = "token"]
      /\ UNCHANGED <<callVars, queue, owner, pending, wrVars, rcur, rfor, sent>>
  BY DEF ReadReply, DecodeFail, ReadBodyFail, SignalDone
<1>3. err' = err \/ err' = [err EXCEPT ![r] = "server"]
  BY DEF ReadReply, DecodeFail, ReadBodyFail
<1>4. PICK s \in {"read", "exit"} : rd' = [rd EXCEPT ![i] = s]
  BY DEF ReadReply, DecodeFail, ReadBodyFail, ReaderExit
<1>5. replied' = replied \/ replied' = [replied EXCEPT ![owner[r]] = rfor[i]]
  BY DEF ReadReply, DecodeFail, ReadBodyFail
<1> HIDE DEF r
<1> USE <1>0, <1>1, <1>2 DEF TypeOK, Ownership
<1>6. OwnReply'
  BY <1>5 DEF OwnReply
<1>7. ObjectsClean'
  BY <1>3 DEF ObjectsClean, Held
<1>8. CallersOwn'
  BY <1>3 DEF CallersOwn
<1>9. QueuesHold' /\ PendingHold'
  BY DEF QueuesHold, PendingHold, Skip
<1>10. ReadersHold'
  BY <1>4 DEF ReadersHold, r
<1>11. WritersHold'
  BY DEF WritersHold, Skip
<1>12. LabelsTrue'
  BY <1>4 DEF LabelsTrue, InQueue, IsPending, BeingRead, ReadersHold, r
<1>13. Correlated'
  BY DEF Correlated
<1> QED BY <1>6, <1>7, <1>8, <1>9, <1>10, <1>11, <1>12, <1>13

\* The head of requestsChan is held by the queue alone.
LEMMA DequeueHead ==
  ASSUME Inv, NEW i \in Conns, Dequeue(i)
  PROVE  LET r == Head(queue[gen]) IN
           /\ r \in Requests /\ place[r] = "queue"
           /\ owner[r] \in Calls /\ done[r] = "empty"
           /\ \A j \in Conns : \A id \in Ids : pending[j][id] # r
<1>0. TypeOK /\ LifeCycle /\ Ownership
  BY DEF Inv
<1>1. gen \in Gens /\ Head(queue[gen]) \in Requests
  BY <1>0, DequeueType
<1>2. queue[gen] \in Seq(Requests) /\ queue[gen] # <<>>
  BY <1>0, <1>1 DEF Dequeue, TypeOK
<1>3. 1 \in 1 .. Len(queue[gen]) /\ queue[gen][1] = Head(queue[gen])
  BY <1>2
<1>4. place[Head(queue[gen])] = "queue"
  BY <1>0, <1>1, <1>3 DEF Ownership, QueuesHold
<1> QED
  BY <1>0, <1>1, <1>4, CallsAssumption DEF Ownership, ObjectsClean, PendingHold, Held

\* A dequeue removes the head, and only the head, from the queues.
LEMMA DequeueQueues ==
  ASSUME Inv, NEW i \in Conns, Dequeue(i),
         \A s \in Requests \ {Head(queue[gen])} : place'[s] = place[s]
  PROVE  /\ QueuesHold'
         /\ \A s \in Requests \ {Head(queue[gen])} : InQueue(s) => InQueue(s)'
<1>0. TypeOK /\ QueuesHold /\ LifeCycle
  BY DEF Inv, Ownership
<1>1. gen \in Gens /\ queue[gen] \in Seq(Requests) /\ queue[gen] # <<>>
  BY <1>0, DequeueType DEF Dequeue, TypeOK
<1>2. /\ queue' \in [Gens -> Seq(Requests)]
      /\ queue'[gen] = Tail(queue[gen])
      /\ \A g \in Gens \ {gen} : queue'[g] = queue[g]
  BY <1>0, <1>1, DequeueType DEF Dequeue, TypeOK
<1>3. /\ Len(queue'[gen]) = Len(queue[gen]) - 1
      /\ \A n \in 1 .. Len(queue[gen]) - 1 : queue'[gen][n] = queue[gen][n + 1]
      /\ queue[gen][1] = Head(queue[gen]) /\ Len(queue[gen]) \in Nat \ {0}
  BY <1>1, <1>2
<1> DEFINE at(g, n) == IF g = gen THEN n + 1 ELSE n
<1>4. ASSUME NEW g \in Gens, NEW n \in 1 .. Len(queue'[g])
      PROVE  /\ at(g, n) \in 1 .. Len(queue[g])
             /\ queue'[g][n] = queue[g][at(g, n)]
             /\ queue'[g][n] \in Requests \ {Head(queue[gen])}
  <2>1. at(g, n) \in 1 .. Len(queue[g]) /\ queue'[g][n] = queue[g][at(g, n)]
    <3>1. CASE g = gen
      BY <1>3, <3>1
    <3>2. CASE g # gen
      BY <1>2, <3>2
    <3> QED BY <3>1, <3>2
  <2>2. g # gen \/ at(g, n) # 1
    OBVIOUS
  <2>3. queue'[g][n] # Head(queue[gen])
    <3> DEFINE m == at(g, n)
    <3>1. m \in 1 .. Len(queue[g]) /\ 1 \in 1 .. Len(queue[gen]) /\ (g # gen \/ m # 1)
      BY <1>3, <2>1, <2>2
    <3> HIDE DEF m
    <3>2. queue[g][m] # queue[gen][1]
      BY <1>0, <1>1, <3>1 DEF QueuesHold
    <3> QED BY <1>3, <2>1, <3>2 DEF m
  <2>4. queue'[g][n] \in Requests
    BY <1>2
  <2> QED BY <2>1, <2>3, <2>4
<1>5. QueuesHold'
  <2> SUFFICES ASSUME NEW g \in Gens, NEW n \in 1 .. Len(queue'[g])
               PROVE  /\ place'[queue'[g][n]] = "queue"
                      /\ \A h \in Gens : \A m \in 1 .. Len(queue'[h]) :
                           queue'[g][n] = queue'[h][m] => g = h /\ n = m
    BY DEF QueuesHold
  <2>1. place'[queue'[g][n]] = "queue"
    BY <1>0, <1>4 DEF QueuesHold
  <2>2. ASSUME NEW h \in Gens, NEW m \in 1 .. Len(queue'[h]), queue'[g][n] = queue'[h][m]
        PROVE  g = h /\ n = m
    <3> DEFINE p == at(g, n)
               q == at(h, m)
    <3>1. /\ p \in 1 .. Len(queue[g]) /\ q \in 1 .. Len(queue[h])
          /\ queue[g][p] = queue[h][q]
      BY <1>4, <2>2
    <3> HIDE DEF p, q
    <3>2. g = h /\ p = q
      BY <1>0, <3>1 DEF QueuesHold
    <3> QED BY <3>2 DEF p, q
  <2> QED BY <2>1, <2>2
<1>6. ASSUME NEW s \in Requests, s # Head(queue[gen]), InQueue(s) PROVE InQueue(s)'
  <2>1. PICK g \in Gens : \E n \in 1 .. Len(queue[g]) : queue[g][n] = s
    BY <1>6 DEF InQueue
  <2>2. CASE g # gen
    BY <1>2, <2>1, <2>2 DEF InQueue
  <2>3. CASE g = gen
    <3>0. PICK n \in 1 .. Len(queue[g]) : queue[g][n] = s
      BY <2>1
    <3>1. n # 1 /\ n - 1 \in 1 .. Len(queue'[gen]) /\ queue'[gen][n - 1] = s
      BY <1>3, <1>6, <3>0, <2>3
    <3> QED BY <1>1, <3>1 DEF InQueue
  <2> QED BY <2>2, <2>3
<1> QED BY <1>5, <1>6

\* connectionWriter recycles a request it finds cancelled in the queue.
LEMMA DropCancelledInv ==
  ASSUME Inv, NEW i \in Conns, DropCancelled(i)
  PROVE  Ownership' /\ Correlated' /\ OwnReply'
<1>0. TypeOK /\ Ownership /\ Correlated /\ OwnReply
  BY DEF Inv
<1> DEFINE r == Head(queue[gen])
<1>1. /\ r \in Requests /\ place[r] = "queue" /\ owner[r] \in Calls /\ done[r] = "empty"
      /\ \A j \in Conns : \A id \in Ids : pending[j][id] # r
  BY DequeueHead DEF DropCancelled
<1>2. /\ place' = [place EXCEPT ![r] = "free"]
      /\ owner' = [owner EXCEPT ![r] = Nil]
      /\ err' = [err EXCEPT ![r] = "nil"] /\ err[r] # "nil"
      /\ UNCHANGED <<callVars, replied, done, pending, wrVars, rdVars, sent>>
  BY <1>0, <1>1 DEF DropCancelled, Recycle, TypeOK
<1>3. QueuesHold' /\ \A s \in Requests \ {r} : InQueue(s) => InQueue(s)'
  BY <1>0, <1>2, DequeueQueues DEF DropCancelled, TypeOK
<1> HIDE DEF r
<1> USE <1>0, <1>1, <1>2 DEF TypeOK, Ownership
<1>4. ObjectsClean' /\ OwnReply'
  BY DEF ObjectsClean, OwnReply, Held
<1>5. CallersOwn'
  BY DEF CallersOwn
<1>6. PendingHold'
  BY DEF PendingHold, Skip
<1>7. ReadersHold'
  BY DEF ReadersHold
<1>8. WritersHold'
  BY Written DEF WritersHold, Skip
<1>9. LabelsTrue'
  BY <1>3 DEF LabelsTrue, IsPending, BeingRead
<1>10. Correlated'
  BY Awaited DEF Correlated
<1> QED BY <1>3, <1>4, <1>5, <1>6, <1>7, <1>8, <1>9, <1>10

\* connectionWriter holds the request of a Send alone while it writes it.
LEMMA TakeSendInv ==
  ASSUME Inv, NEW i \in Conns, TakeSend(i)
  PROVE  Ownership' /\ Correlated' /\ OwnReply'
<1>0. TypeOK /\ Ownership /\ Correlated /\ OwnReply
  BY DEF Inv
<1> DEFINE r == Head(queue[gen])
<1>1. /\ r \in Requests /\ place[r] = "queue" /\ owner[r] \in Calls /\ done[r] = "empty"
      /\ \A j \in Conns : \A id \in Ids : pending[j][id] # r
  BY DequeueHead DEF TakeSend
<1>2. /\ place' = [place EXCEPT ![r] = "skip"] /\ Skip(r)
      /\ wcur' = [wcur EXCEPT ![i] = r]
      /\ wr' = [wr EXCEPT ![i] = "write"] /\ wr[i] = "select"
      /\ UNCHANGED <<callVars, replied, owner, err, done, pending, requestId, rdVars, sent>>
  BY DEF TakeSend, Dequeue
<1>3. QueuesHold' /\ \A s \in Requests \ {r} : InQueue(s) => InQueue(s)'
  BY <1>0, <1>2, DequeueQueues DEF TakeSend, TypeOK
<1> HIDE DEF r
<1> USE <1>0, <1>1, <1>2 DEF TypeOK, Ownership
<1>4. ObjectsClean' /\ OwnReply'
  BY DEF ObjectsClean, OwnReply, Held
<1>5. CallersOwn'
  BY DEF CallersOwn, Skip
<1>6. PendingHold'
  BY DEF PendingHold, Skip
<1>7. ReadersHold'
  BY DEF ReadersHold
<1>8. WritersHold'
  BY Written DEF WritersHold, Skip
<1>9. LabelsTrue'
  BY <1>3 DEF LabelsTrue, IsPending, BeingRead
<1>10. Correlated'
  BY DEF Correlated
<1> QED BY <1>3, <1>4, <1>5, <1>6, <1>7, <1>8, <1>9, <1>10

\* connectionWriter files a request under an id that is free: the loop over requestId
\* skips those in use.
LEMMA RegisterInv ==
  ASSUME Inv, NEW i \in Conns, NEW id \in 0 .. MaxId, Register(i, id)
  PROVE  Ownership' /\ Correlated' /\ OwnReply'
<1>0. TypeOK /\ Ownership /\ Correlated /\ OwnReply
  BY DEF Inv
<1> DEFINE r == Head(queue[gen])
<1>1. /\ r \in Requests /\ place[r] = "queue" /\ owner[r] \in Calls /\ done[r] = "empty"
      /\ \A j \in Conns : \A jd \in Ids : pending[j][jd] # r
  BY DequeueHead DEF Register
<1>2. /\ place' = [place EXCEPT ![r] = "pending"] /\ ~Skip(r)
      /\ requestId' = [requestId EXCEPT ![i] = id]
      /\ pending' = [pending EXCEPT ![i][id] = r]
      /\ wcur' = [wcur EXCEPT ![i] = r]
      /\ wr[i] = "select"
      /\ UNCHANGED <<callVars, replied, owner, err, done, rdVars, sent>>
  BY DEF Register, Dequeue
<1>3. PICK w \in {"exit", "write"} : wr' = [wr EXCEPT ![i] = w]
  BY DEF Register
<1>4. id \in Ids /\ pending[i][id] = Nil
  BY <1>0, BoundsAssumption DEF Register, FreeId, TypeOK, Ids
<1>5. QueuesHold' /\ \A s \in Requests \ {r} : InQueue(s) => InQueue(s)'
  BY <1>0, <1>2, DequeueQueues DEF Register, TypeOK
<1>6. \A m \in sent[i] : m.id # id
  BY <1>0, <1>4, Awaited, CallsAssumption
<1> HIDE DEF r
<1> USE <1>0, <1>1, <1>2, <1>4 DEF TypeOK, Ownership
<1>7. ObjectsClean' /\ OwnReply'
  BY DEF ObjectsClean, OwnReply, Held
<1>8. CallersOwn'
  BY DEF CallersOwn
<1>9. PendingHold'
  BY DEF PendingHold, Skip
<1>10. ReadersHold'
  BY DEF ReadersHold
<1>11. WritersHold'
  BY <1>3, <1>6, Written DEF WritersHold, Skip
<1>12. LabelsTrue'
  BY <1>5, CallsAssumption DEF LabelsTrue, IsPending, BeingRead
<1>13. Correlated'
  BY <1>6, Awaited DEF Correlated
<1> QED BY <1>5, <1>7, <1>8, <1>9, <1>10, <1>11, <1>12, <1>13

\* Writing a request tells the peer its id and call; a Send is recycled.
LEMMA WriteInv ==
  ASSUME Inv, NEW i \in Conns, Write(i)
  PROVE  Ownership' /\ Correlated' /\ OwnReply'
<1>0. TypeOK /\ Ownership /\ Correlated /\ OwnReply
  BY DEF Inv
<1> DEFINE r == wcur[i]
<1>1. /\ r \in Requests /\ owner[r] \in Calls /\ wr[i] = "write"
      /\ Skip(r) => place[r] = "skip" /\ \A j \in Conns : wr[j] = "write" /\ wcur[j] = r => i = j
      /\ ~Skip(r) => /\ requestId[i] \in Ids /\ pending[i][requestId[i]] = r
                     /\ \A m \in sent[i] : m.id # requestId[i]
  BY <1>0, Written DEF Write, Ownership, WritersHold
<1>2. /\ wr' = [wr EXCEPT ![i] = "select"]
      /\ UNCHANGED <<callVars, queue, replied, pending, wcur, requestId, rdVars>>
  BY DEF Write
<1>3. CASE ~Skip(r)
  <2>1. UNCHANGED objVars
    BY <1>3 DEF Write
  <2>2. sent' = sent \/ sent' = [sent EXCEPT ![i] = @ \cup {[id |-> requestId[i], call |-> owner[r]]}]
    BY DEF Write
  <2> HIDE DEF r
  <2> USE <1>0, <1>2, <2>1 DEF TypeOK, Ownership
  <2>3. ObjectsClean' /\ OwnReply' /\ CallersOwn' /\ QueuesHold'
    BY DEF ObjectsClean, OwnReply, CallersOwn, QueuesHold
  <2>4. PendingHold' /\ ReadersHold'
    BY DEF PendingHold, ReadersHold, Skip
  <2>5. WritersHold'
    BY <1>1, <2>2 DEF WritersHold, Skip
  <2>6. LabelsTrue'
    BY DEF LabelsTrue, InQueue, IsPending, BeingRead
  <2>7. Correlated'
    <3>1. CASE sent' = sent
      BY <3>1 DEF Correlated
    <3>2. CASE sent' = [sent EXCEPT ![i] = @ \cup {[id |-> requestId[i], call |-> owner[r]]}]
      <4>1. r # Nil
        BY <1>1, CallsAssumption
      <4>2. \A j \in Conns : \A m \in sent'[j] :
              \/ m \in sent[j]
              \/ j = i /\ m = [id |-> requestId[i], call |-> owner[r]]
        BY <3>2
      <4>3. ASSUME NEW j \in Conns, NEW m \in sent'[j]
            PROVE  pending[j][m.id] # Nil /\ owner[pending[j][m.id]] = m.call
        BY <1>1, <1>3, <4>1, <4>2 DEF Correlated
      <4>4. ASSUME NEW j \in Conns, NEW m \in sent'[j], NEW n \in sent'[j], n.id = m.id
            PROVE  n = m
        <5>1. CASE m \in sent[j] /\ n \in sent[j]
          BY <4>4, <5>1 DEF Correlated
        <5>2. CASE m \notin sent[j]
          BY <1>1, <1>3, <4>2, <4>4, <5>2
        <5>3. CASE n \notin sent[j]
          BY <1>1, <1>3, <4>2, <4>4, <5>3
        <5> QED BY <5>1, <5>2, <5>3
      <4> QED BY <4>3, <4>4 DEF Correlated
    <3> QED BY <2>2, <3>1, <3>2
  <2> QED BY <2>3, <2>4, <2>5, <2>6, <2>7
<1>4. CASE Skip(r)
  <2>1. /\ sent' = sent
        /\ place' = [place EXCEPT ![r] = "free"]
        /\ owner' = [owner EXCEPT ![r] = Nil]
        /\ err' = [err EXCEPT ![r] = "nil"]
        /\ done' = [done EXCEPT ![r] = IF @ = "token" THEN "empty" ELSE @]
    BY <1>4 DEF Write, Recycle
  <2>2. place[r] = "skip" /\ done[r] = "empty"
    BY <1>0, <1>1, <1>4 DEF Ownership, ObjectsClean, Held
  <2>3. done' = done
    BY <1>0, <1>1, <2>1, <2>2 DEF TypeOK
  <2>4. \A j \in Conns : wr'[j] = "write" => wcur[j] # r
    BY <1>0, <1>1, <1>2, <1>4 DEF TypeOK
  <2> HIDE DEF r
  <2> USE <1>0, <1>1, <1>2, <2>1, <2>2, <2>3 DEF TypeOK, Ownership
  <2>5. ObjectsClean' /\ OwnReply'
    BY DEF ObjectsClean, OwnReply, Held
  <2>6. CallersOwn'
    BY DEF CallersOwn
  <2>7. QueuesHold' /\ PendingHold'
    BY DEF QueuesHold, PendingHold, Skip
  <2>8. ReadersHold'
    BY DEF ReadersHold
  <2>9. WritersHold'
    BY <2>4, Written DEF WritersHold, Skip
  <2>10. LabelsTrue'
    BY DEF LabelsTrue, InQueue, IsPending, BeingRead
  <2>11. Correlated'
    BY Awaited DEF Correlated
  <2> QED BY <2>5, <2>6, <2>7, <2>8, <2>9, <2>10, <2>11
<1> QED BY <1>3, <1>4

\* A request that cannot be written stays pending; a Send is dropped.
LEMMA WriteFailInv ==
  ASSUME Inv, NEW i \in Conns, WriteFail(i)
  PROVE  Ownership' /\ Correlated' /\ OwnReply'
<1>0. TypeOK /\ Ownership /\ Correlated /\ OwnReply
  BY DEF Inv
<1> DEFINE r == wcur[i]
<1>1. /\ r \in Requests /\ wr[i] = "write"
      /\ Skip(r) => place[r] = "skip" /\ \A j \in Conns : wr[j] = "write" /\ wcur[j] = r => i = j
  BY <1>0 DEF WriteFail, Ownership, WritersHold
<1>2. /\ wr' = [wr EXCEPT ![i] = "exit"]
      /\ place' = place \/ (Skip(r) /\ place' = [place EXCEPT ![r] = "spent"])
      /\ UNCHANGED <<callVars, queue, replied, owner, err, done, pending, wcur, requestId, rdVars, sent>>
  BY DEF WriteFail
<1>3. \A j \in Conns : wr'[j] = "write" => wr[j] = "write" /\ (Skip(r) => wcur[j] # r)
  BY <1>0, <1>1, <1>2 DEF TypeOK
<1> HIDE DEF r
<1> USE <1>0, <1>1, <1>2 DEF TypeOK, Ownership
<1>4. ObjectsClean' /\ OwnReply'
  BY DEF ObjectsClean, OwnReply, Held
<1>5. CallersOwn'
  BY DEF CallersOwn
<1>6. QueuesHold' /\ PendingHold'
  BY DEF QueuesHold, PendingHold, Skip
<1>7. ReadersHold'
  BY DEF ReadersHold
<1>8. WritersHold'
  BY <1>3 DEF WritersHold, Skip
<1>9. LabelsTrue'
  BY DEF LabelsTrue, InQueue, IsPending, BeingRead
<1>10. Correlated'
  BY DEF Correlated
<1> QED BY <1>4, <1>5, <1>6, <1>7, <1>8, <1>9, <1>10

\* Every step preserves Inv.
LEMMA NextInv == Inv /\ [Next]_vars => Inv'
<1> SUFFICES ASSUME Inv, [Next]_vars PROVE Ownership' /\ Correlated' /\ OwnReply'
  BY TypeInv, LifeCycleInv DEF Inv
<1>1. ASSUME Start \/ Stop \/ StopReturn \/ UNCHANGED vars
      PROVE  Ownership' /\ Correlated' /\ OwnReply'
  BY <1>1, FrameSteps, FrameInv
<1>2. ASSUME NEW k \in Calls, Caller(k)
      PROVE  Ownership' /\ Correlated' /\ OwnReply'
  BY <1>2, RequestInv, EnqueueInv, CancelEnqueueInv, CallEndInv DEF Caller
<1>3. ASSUME NEW i \in Conns, Supervisor(i)
      PROVE  Ownership' /\ Correlated' /\ OwnReply'
  <2>1. CASE FailPending(i)
    BY <2>1, FailPendingInv
  <2>2. CASE ~FailPending(i)
    BY <1>3, <2>2, FrameSteps, FrameInv DEF Supervisor
  <2> QED BY <2>1, <2>2
<1>4. ASSUME NEW i \in Conns, Reader(i)
      PROVE  Ownership' /\ Correlated' /\ OwnReply'
  <2>1. CASE ReadFail(i) \/ ReadUnexpected(i)
    BY <2>1, FrameSteps, FrameInv
  <2>2. CASE ~(ReadFail(i) \/ ReadUnexpected(i))
    BY <1>4, <2>2, ReadIdInv, ReadBodyInv DEF Reader
  <2> QED BY <2>1, <2>2
<1>5. ASSUME NEW i \in Conns, Writer(i)
      PROVE  Ownership' /\ Correlated' /\ OwnReply'
  <2>1. CASE WriteStop(i)
    BY <2>1, FrameSteps, FrameInv
  <2>2. CASE ~WriteStop(i)
    BY <1>5, <2>2, DropCancelledInv, TakeSendInv, RegisterInv, WriteInv, WriteFailInv DEF Writer
  <2> QED BY <2>1, <2>2
<1> QED BY <1>1, <1>2, <1>3, <1>4, <1>5 DEF Next

\* Inv holds in every reachable state: a clientRequest has one holder at a time, in the
\* pool, with its caller, in requestsChan, in a pending map, with a reader or a writer.
THEOREM Invariance == Spec => []Inv
<1>1. Init => Inv
  BY InitInv
<1>2. Inv /\ [Next]_vars => Inv'
  BY NextInv
<1> QED BY <1>1, <1>2, PTL DEF Spec

\* The variables of the client keep their types, whatever callers, connections and
\* peer do.
THEOREM TypeCorrect == Spec => []TypeOK
<1>1. Inv => TypeOK
  BY DEF Inv
<1> QED BY <1>1, Invariance, PTL

\* The response to a request finds that request and no other in the pending map of
\* its connection, although connectionWriter reuses ids and the pool reuses objects.
THEOREM Correlation == Spec => []Correlated
<1>1. Inv => Correlated
  BY DEF Inv
<1> QED BY <1>1, Invariance, PTL

\* readFrom decodes into the variables of a call only the response to that call.
THEOREM RepliesAreOwn == Spec => []OwnReply
<1>1. Inv => OwnReply
  BY DEF Inv
<1> QED BY <1>1, Invariance, PTL

\* While call waits, the request is queued, pending or being read, or done is ready:
\* no path of reader, writer or handleConnection loses it.
THEOREM CallsAreKept == Spec => []NoLostCall
<1>1. Inv => NoLostCall
  <2> SUFFICES ASSUME Inv, NEW k \in Calls, pc[k] = "wait"
               PROVE  /\ owner[obj[k]] = k
                      /\ \/ InQueue(obj[k])
                         \/ \E i \in Conns : IsPending(i, obj[k])
                         \/ BeingRead(obj[k])
                         \/ done[obj[k]] # "empty"
    BY DEF NoLostCall
  <2>1. /\ obj[k] \in Requests /\ owner[obj[k]] = k
        /\ place[obj[k]] \in {"queue", "pending", "body", "spent"}
        /\ place[obj[k]] = "spent" => done[obj[k]] # "empty"
    BY DEF Inv, Ownership, CallersOwn
  <2> QED BY <2>1 DEF Inv, Ownership, LabelsTrue
<1> QED BY <1>1, Invariance, PTL

\* The done channel of a request in flight is open and empty: readFrom never blocks on
\* it, and handleConnection never closes it twice.
THEOREM SignalledOnce == Spec => []SignalOnce
<1>1. Inv => SignalOnce
  <2> SUFFICES ASSUME Inv, NEW r \in Requests,
                      InQueue(r) \/ BeingRead(r) \/ \E i \in Conns : IsPending(i, r)
               PROVE  done[r] = "empty"
    BY DEF SignalOnce
  <2>1. TypeOK /\ Ownership
    BY DEF Inv
  <2>2. InQueue(r) => place[r] = "queue"
    BY <2>1 DEF InQueue, Ownership, QueuesHold
  <2>3. BeingRead(r) => place[r] = "body"
    BY <2>1 DEF BeingRead, Ownership, ReadersHold
  <2>4. (\E i \in Conns : IsPending(i, r)) => place[r] = "pending"
    BY <2>1, CallsAssumption DEF IsPending, Ownership, PendingHold
  <2> QED BY <2>1, <2>2, <2>3, <2>4 DEF Ownership, ObjectsClean, Held
<1> QED BY <1>1, Invariance, PTL
=============================================================================

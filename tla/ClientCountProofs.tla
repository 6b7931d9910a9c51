------------------------- MODULE ClientCountProofs --------------------------
(***************************************************************************)
(* What the client counts and limits, for every value of its constants:    *)
(* requestsCount, the length of a pending map, the connections that are    *)
(* open, and the moments at which reply variables may be written.          *)
(*                                                                         *)
(* None of the four is inductive.  requestsCount is exact only while the   *)
(* set that it counts is finite; a map is short when its writer starts     *)
(* only because handleConnection leaves it empty; connections are counted  *)
(* per supervisor only because one that dials holds none; and a reader     *)
(* finds the caller waiting because a caller that cannot be cancelled has  *)
(* nothing to leave for while someone else holds its object.               *)
(***************************************************************************)
EXTENDS ClientProofs

USE DEF callVars, objVars, supVars, rdVars, wrVars, clientUnch, supUnch,
        idleConnUnch, rdUnch, wrUnch, bodyUnch

-----------------------------------------------------------------------------
(* The pending maps: CountExact and PendingBounded.                        *)

\* The places of all pending maps that hold a request.
Filed == {c \in Conns \X Ids : pending[c[1]][c[2]] # Nil}

\* requestsCount counts them, and there is a number to count.
Counted == IsFiniteSet(Filed) /\ CountExact

\* A supervisor without a connection has an empty map.
MapsEmpty == \A i \in Conns : sup[i] \notin {"up", "closing"} => PendingIds(i) = {}

MapInv == Counted /\ MapsEmpty /\ PendingBounded

\* A step that leaves the maps alone, starts a writer only for a supervisor without a
\* connection and ends no connection whose map may be filled.
QuietMaps ==
  /\ UNCHANGED <<pending, requestsCount>>
  /\ \A j \in Conns :
       /\ wr'[j] \in {"select", "write"} =>
            wr[j] \in {"select", "write"} \/ sup[j] \notin {"up", "closing"}
       /\ sup'[j] \notin {"up", "closing"} => sup[j] \notin {"up", "closing"}

\* Every step but three leaves the maps alone: connectionWriter adds a request,
\* connectionReader takes one, and handleConnection takes all.
LEMMA QuietSteps ==
  ASSUME Inv, [Next]_vars,
         \A i \in Conns : /\ ~FailPending(i)
                          /\ \A m \in sent[i] : ~ReadId(i, m)
                          /\ \A id \in 0 .. MaxId : ~Register(i, id)
  PROVE  QuietMaps
<1>0. TypeOK /\ LifeCycle
  BY DEF Inv
<1>1. CASE Start
  BY <1>0, <1>1 DEF Start, LifeCycle, QuietMaps
<1>2. CASE Stop \/ StopReturn \/ UNCHANGED vars
  BY <1>2 DEF Stop, StopReturn, vars, QuietMaps
<1>3. ASSUME NEW k \in Calls, Caller(k) PROVE QuietMaps
  <2>1. UNCHANGED <<pending, requestsCount, wr, sup>>
    BY <1>3 DEF Caller, Request, call, send, Enqueue, CancelEnqueue, CancelWait, ReceiveDone,
                CallReturn
  <2> QED BY <2>1 DEF QuietMaps
<1>4. ASSUME NEW i \in Conns, Supervisor(i), ~FailPending(i) PROVE QuietMaps
  <2>1. UNCHANGED <<pending, requestsCount>>
    BY <1>4 DEF Supervisor, DialOk, DialFail, StopDial, DrainDial, DialServerFailed,
                BackoffTimer, BackoffStop, ConnectedFailed, Connected, ReaderDone, WriterDone,
                StopConnection, JoinReader, JoinWriter, Break, Close
  <2>2. CASE DialOk(i) \/ DialFail(i) \/ StopDial(i) \/ DrainDial(i) \/ DialServerFailed(i)
             \/ BackoffTimer(i) \/ BackoffStop(i) \/ ConnectedFailed(i)
    <3>1. sup[i] \notin {"up", "closing"} \/ UNCHANGED sup
      BY <2>2 DEF DialOk, DialFail, StopDial, DrainDial, DialServerFailed, BackoffTimer,
                  BackoffStop, ConnectedFailed
    <3>2. UNCHANGED wr /\ \A j \in Conns \ {i} : sup'[j] = sup[j]
      BY <1>0, <2>2 DEF DialOk, DialFail, StopDial, DrainDial, DialServerFailed, BackoffTimer,
                        BackoffStop, ConnectedFailed, RedialUnlessStopped, Redial, TypeOK
    <3> QED BY <2>1, <3>1, <3>2 DEF QuietMaps
  <2>3. CASE Connected(i)
    BY <1>0, <2>1, <2>3 DEF Connected, QuietMaps, TypeOK
  <2>4. CASE ReaderDone(i) \/ WriterDone(i) \/ StopConnection(i)
    <3>1. sup' = [sup EXCEPT ![i] = "closing"]
      BY <2>4 DEF ReaderDone, WriterDone, StopConnection, Close
    <3>2. UNCHANGED wr \/ wr' = [wr EXCEPT ![i] = "off"]
      BY <2>4 DEF ReaderDone, WriterDone, StopConnection
    <3> QED BY <1>0, <2>1, <3>1, <3>2 DEF QuietMaps, TypeOK
  <2>5. CASE JoinReader(i) \/ JoinWriter(i) \/ Break(i)
    <3>1. UNCHANGED sup
      BY <2>5 DEF JoinReader, JoinWriter, Break
    <3>2. UNCHANGED wr \/ wr' = [wr EXCEPT ![i] = "off"]
      BY <2>5 DEF JoinReader, JoinWriter, Break
    <3> QED BY <1>0, <2>1, <3>1, <3>2 DEF QuietMaps, TypeOK
  <2> QED BY <1>4, <2>2, <2>3, <2>4, <2>5 DEF Supervisor
<1>5. ASSUME NEW i \in Conns, Reader(i), \A m \in sent[i] : ~ReadId(i, m) PROVE QuietMaps
  <2>1. UNCHANGED <<pending, requestsCount, wr, sup>>
    BY <1>5 DEF Reader, ReadFail, ReadUnexpected, ReadReply, DecodeFail, ReadBodyFail
  <2> QED BY <2>1 DEF QuietMaps
<1>6. ASSUME NEW i \in Conns, Writer(i), \A id \in 0 .. MaxId : ~Register(i, id)
      PROVE  QuietMaps
  <2>1. UNCHANGED <<pending, requestsCount, sup>>
    BY <1>6 DEF Writer, WriteStop, DropCancelled, TakeSend, Write, WriteFail
  <2>2. UNCHANGED wr \/ (wr[i] \in {"select", "write"} /\ \E w : wr' = [wr EXCEPT ![i] = w])
    BY <1>6 DEF Writer, WriteStop, DropCancelled, TakeSend, Write, WriteFail, Dequeue
  <2> QED BY <1>0, <2>1, <2>2 DEF QuietMaps, TypeOK
<1> QED BY <1>1, <1>2, <1>3, <1>4, <1>5, <1>6 DEF Next

\* Such a step keeps the invariant.
LEMMA QuietMapInv ==
  ASSUME Inv, MapInv, QuietMaps
  PROVE  MapInv'
<1>1. Filed' = Filed
  BY DEF QuietMaps, Filed
<1>2. Counted'
  BY <1>1 DEF MapInv, Counted, CountExact, Filed, QuietMaps
<1>3. \A i \in Conns : PendingIds(i)' = PendingIds(i)
  BY DEF QuietMaps, PendingIds
<1>4. MapsEmpty'
  BY <1>3 DEF MapInv, MapsEmpty, QuietMaps
<1>5. PendingBounded'
  <2> SUFFICES ASSUME NEW i \in Conns
               PROVE  Cardinality(PendingIds(i)) <=
                        PendingRequests + IF wr'[i] \in {"select", "write"} THEN 1 ELSE 2
    BY <1>3 DEF PendingBounded
  <2>1. Cardinality(PendingIds(i)) \in Nat /\ PendingRequests \in Nat
    BY PendingFinite, BoundsAssumption
  <2>2. CASE sup[i] \notin {"up", "closing"}
    <3>1. Cardinality(PendingIds(i)) = 0
      BY <2>2, FS_EmptySet DEF MapInv, MapsEmpty
    <3> QED BY <2>1, <3>1
  <2>3. CASE sup[i] \in {"up", "closing"}
    <3>1. wr'[i] \in {"select", "write"} => wr[i] \in {"select", "write"}
      BY <2>3 DEF QuietMaps
    <3>2. Cardinality(PendingIds(i)) <=
            PendingRequests + IF wr[i] \in {"select", "write"} THEN 1 ELSE 2
      BY DEF MapInv, PendingBounded
    <3> QED BY <2>1, <3>1, <3>2
  <2> QED BY <2>2, <2>3
<1> QED BY <1>2, <1>4, <1>5 DEF MapInv

\* The length of one map when one of its places changes.
LEMMA MapLength ==
  ASSUME TypeOK, NEW i \in Conns, NEW id \in Ids, NEW r,
         pending' = [pending EXCEPT ![i][id] = r]
  PROVE  /\ r # Nil => PendingIds(i)' = PendingIds(i) \cup {id}
         /\ r = Nil => PendingIds(i)' = PendingIds(i) \ {id}
         /\ \A j \in Conns \ {i} : PendingIds(j)' = PendingIds(j)
         /\ r # Nil => Filed' = Filed \cup {<<i, id>>}
         /\ r = Nil => Filed' = Filed \ {<<i, id>>}
<1>1. \A j \in Conns : \A jd \in Ids :
        pending'[j][jd] = IF j = i /\ jd = id THEN r ELSE pending[j][jd]
  BY DEF TypeOK
<1>2. /\ r # Nil => PendingIds(i)' = PendingIds(i) \cup {id}
      /\ r = Nil => PendingIds(i)' = PendingIds(i) \ {id}
      /\ \A j \in Conns \ {i} : PendingIds(j)' = PendingIds(j)
  BY <1>1 DEF PendingIds
<1>3. /\ r # Nil => Filed' = Filed \cup {<<i, id>>}
      /\ r = Nil => Filed' = Filed \ {<<i, id>>}
  BY <1>1 DEF Filed
<1> QED BY <1>2, <1>3

\* connectionWriter adds a request to its map under a free id and counts it; the map
\* was not above its limit, or the writer ends.
LEMMA RegisterMapInv ==
  ASSUME Inv, MapInv, NEW i \in Conns, NEW id \in 0 .. MaxId, Register(i, id)
  PROVE  MapInv'
<1>0. TypeOK
  BY DEF Inv
<1> DEFINE r == Head(queue[gen])
<1>1. r # Nil
  BY DequeueHead, CallsAssumption DEF Register
<1>2. id \in Ids /\ pending[i][id] = Nil
  BY <1>0, BoundsAssumption DEF Register, FreeId, TypeOK, Ids
<1>3. /\ pending' = [pending EXCEPT ![i][id] = r]
      /\ requestsCount' = requestsCount + 1
      /\ wr[i] = "select" /\ UNCHANGED sup
      /\ wr' = [wr EXCEPT ![i] = IF Overflow(i) THEN "exit" ELSE "write"]
  BY DEF Register, Dequeue
<1> HIDE DEF r
<1>4. /\ PendingIds(i)' = PendingIds(i) \cup {id} /\ id \notin PendingIds(i)
      /\ \A j \in Conns \ {i} : PendingIds(j)' = PendingIds(j)
      /\ Filed' = Filed \cup {<<i, id>>} /\ <<i, id>> \notin Filed
  <2>1. id \notin PendingIds(i) /\ <<i, id>> \notin Filed
    BY <1>2 DEF PendingIds, Filed
  <2> QED BY <1>0, <1>1, <1>2, <1>3, <2>1, MapLength
<1>5. Counted'
  <2>1. IsFiniteSet(Filed) /\ requestsCount = Cardinality(Filed)
    BY DEF MapInv, Counted, CountExact, Filed
  <2>2. IsFiniteSet(Filed') /\ Cardinality(Filed') = Cardinality(Filed) + 1
    BY <1>4, <2>1, FS_AddElement
  <2>3. requestsCount' = Cardinality(Filed')
    BY <1>3, <2>1, <2>2
  <2> QED BY <2>2, <2>3 DEF Counted, CountExact, Filed
<1>6. wr[i] # "off" /\ sup[i] \in {"up", "closing"}
  BY <1>3 DEF Inv, LifeCycle
<1>7. MapsEmpty'
  BY <1>3, <1>4, <1>6 DEF MapInv, MapsEmpty
<1>8. PendingBounded'
  <2>1. IsFiniteSet(PendingIds(i))
    <3>1. IsFiniteSet(Ids)
      BY BoundsAssumption, FS_Interval DEF Ids
    <3> QED BY <3>1, FS_Subset DEF PendingIds
  <2>2. /\ Cardinality(PendingIds(i)') = Cardinality(PendingIds(i)) + 1
        /\ Cardinality(PendingIds(i)) \in Nat
    BY <1>4, <2>1, FS_AddElement, FS_CardinalityType
  <2>3. Cardinality(PendingIds(i)) <= PendingRequests + 1 /\ PendingRequests \in Nat
    BY <1>3, BoundsAssumption DEF MapInv, PendingBounded
  <2>4. Cardinality(PendingIds(i)') <=
          PendingRequests + IF wr'[i] \in {"select", "write"} THEN 1 ELSE 2
    <3>1. CASE Overflow(i)
      <4>1. wr'[i] = "exit"
        BY <1>0, <1>3, <3>1 DEF TypeOK
      <4> QED BY <2>2, <2>3, <4>1
    <3>2. CASE ~Overflow(i)
      <4>1. wr'[i] = "write"
        BY <1>0, <1>3, <3>2 DEF TypeOK
      <4>2. Cardinality(PendingIds(i)) <= PendingRequests
        BY <2>2, <2>3, <3>2 DEF Overflow
      <4> QED BY <2>2, <2>3, <4>1, <4>2
    <3> QED BY <3>1, <3>2
  <2>5. ASSUME NEW j \in Conns \ {i}
        PROVE  Cardinality(PendingIds(j)') <=
                 PendingRequests + IF wr'[j] \in {"select", "write"} THEN 1 ELSE 2
    <3>1. wr'[j] = wr[j] /\ PendingIds(j)' = PendingIds(j)
      BY <1>0, <1>3, <1>4 DEF TypeOK
    <3> QED BY <3>1 DEF MapInv, PendingBounded
  <2>6. \A j \in Conns : Cardinality(PendingIds(j)') <=
                 PendingRequests + IF wr'[j] \in {"select", "write"} THEN 1 ELSE 2
    BY <2>4, <2>5
  <2> QED BY <2>6 DEF PendingBounded
<1> QED BY <1>5, <1>7, <1>8 DEF MapInv

\* connectionReader takes a request from its map and counts it out.
LEMMA ReadIdMapInv ==
  ASSUME Inv, MapInv, NEW i \in Conns, NEW m \in sent[i], ReadId(i, m)
  PROVE  MapInv'
<1>0. TypeOK
  BY DEF Inv
<1>1. m.id \in Ids
  BY Awaited DEF Inv
<1>2. /\ pending' = [pending EXCEPT ![i][m.id] = Nil] /\ pending[i][m.id] # Nil
      /\ requestsCount' = requestsCount - 1
      /\ UNCHANGED <<wr, sup>>
  BY DEF ReadId, TakePending, CountOut
<1>3. /\ PendingIds(i)' = PendingIds(i) \ {m.id}
      /\ \A j \in Conns \ {i} : PendingIds(j)' = PendingIds(j)
      /\ Filed' = Filed \ {<<i, m.id>>} /\ <<i, m.id>> \in Filed
  BY <1>0, <1>1, <1>2, MapLength DEF Filed
<1>4. Counted'
  <2>1. IsFiniteSet(Filed) /\ requestsCount = Cardinality(Filed)
    BY DEF MapInv, Counted, CountExact, Filed
  <2>2. IsFiniteSet(Filed') /\ Cardinality(Filed') = Cardinality(Filed) - 1
    BY <1>3, <2>1, FS_RemoveElement
  <2>3. requestsCount' = Cardinality(Filed')
    BY <1>2, <2>1, <2>2
  <2> QED BY <2>2, <2>3 DEF Counted, CountExact, Filed
<1>5. MapsEmpty'
  BY <1>2, <1>3 DEF MapInv, MapsEmpty
<1>6. PendingBounded'
  <2> SUFFICES ASSUME NEW j \in Conns
               PROVE  Cardinality(PendingIds(j)') <=
                        PendingRequests + IF wr[j] \in {"select", "write"} THEN 1 ELSE 2
    BY <1>2 DEF PendingBounded
  <2>1. IsFiniteSet(PendingIds(j))
    <3>1. IsFiniteSet(Ids)
      BY BoundsAssumption, FS_Interval DEF Ids
    <3> QED BY <3>1, FS_Subset DEF PendingIds
  <2>2. PendingIds(j)' \subseteq PendingIds(j)
    BY <1>3
  <2>3. /\ Cardinality(PendingIds(j)') <= Cardinality(PendingIds(j))
        /\ Cardinality(PendingIds(j)) \in Nat /\ Cardinality(PendingIds(j)') \in Nat
    BY <2>1, <2>2, FS_Subset, FS_CardinalityType
  <2>4. PendingRequests \in Nat
    BY BoundsAssumption
  <2>5. Cardinality(PendingIds(j)) <=
          PendingRequests + IF wr[j] \in {"select", "write"} THEN 1 ELSE 2
    BY DEF MapInv, PendingBounded
  <2> QED BY <2>3, <2>4, <2>5
<1> QED BY <1>4, <1>5, <1>6 DEF MapInv

\* handleConnection empties its map and counts out as many requests as it held.
LEMMA FailPendingMapInv ==
  ASSUME Inv, MapInv, NEW i \in Conns, FailPending(i)
  PROVE  MapInv'
<1>0. TypeOK
  BY DEF Inv
<1> DEFINE gone == {i} \X PendingIds(i)
<1>1. /\ pending' = [pending EXCEPT ![i] = NonePending]
      /\ requestsCount' = requestsCount - Cardinality(PendingIds(i))
      /\ sup[i] = "closing" /\ UNCHANGED wr
  BY DEF FailPending, CountOut
<1>2. \A j \in Conns \ {i} : sup'[j] = sup[j]
  BY <1>0 DEF FailPending, RedialUnlessStopped, Redial, TypeOK
<1>3. \A j \in Conns : \A jd \in Ids : pending'[j][jd] = IF j = i THEN Nil ELSE pending[j][jd]
  BY <1>0, <1>1 DEF TypeOK, NonePending
<1>4. /\ PendingIds(i)' = {}
      /\ \A j \in Conns \ {i} : PendingIds(j)' = PendingIds(j)
      /\ Filed' = Filed \ gone /\ Filed \cap gone = gone
  BY <1>3 DEF PendingIds, Filed
<1>5. Counted'
  <2>1. IsFiniteSet(Filed) /\ requestsCount = Cardinality(Filed)
    BY DEF MapInv, Counted, CountExact, Filed
  <2>2. IsFiniteSet(PendingIds(i))
    <3>1. IsFiniteSet(Ids)
      BY BoundsAssumption, FS_Interval DEF Ids
    <3> QED BY <3>1, FS_Subset DEF PendingIds
  <2>3. Cardinality(gone) = Cardinality(PendingIds(i))
    <3>1. IsFiniteSet({i}) /\ Cardinality({i}) = 1
      BY FS_Singleton
    <3>2. Cardinality(gone) = Cardinality({i}) * Cardinality(PendingIds(i))
      BY <2>2, <3>1, FS_Product
    <3>3. Cardinality(PendingIds(i)) \in Nat
      BY <2>2, FS_CardinalityType
    <3> QED BY <3>1, <3>2, <3>3
  <2> HIDE DEF gone
  <2>4. IsFiniteSet(Filed') /\ Cardinality(Filed') = Cardinality(Filed) - Cardinality(gone)
    <3>1. /\ IsFiniteSet(Filed \ gone)
          /\ Cardinality(Filed \ gone) = Cardinality(Filed) - Cardinality(Filed \cap gone)
      BY <2>1, FS_Difference
    <3>2. Filed' = Filed \ gone /\ Filed \cap gone = gone
      BY <1>4 DEF gone
    <3> QED BY <3>1, <3>2
  <2>5. requestsCount' = Cardinality(Filed')
    BY <1>1, <2>1, <2>3, <2>4
  <2> QED BY <2>4, <2>5 DEF Counted, CountExact, Filed
<1>6. MapsEmpty'
  BY <1>2, <1>4 DEF MapInv, MapsEmpty
<1>7. PendingBounded'
  <2>1. ASSUME NEW j \in Conns \ {i}
        PROVE  Cardinality(PendingIds(j)') <=
                 PendingRequests + IF wr'[j] \in {"select", "write"} THEN 1 ELSE 2
    BY <1>1, <1>4, <2>1 DEF MapInv, PendingBounded
  <2>2. Cardinality(PendingIds(i)') <=
          PendingRequests + IF wr'[i] \in {"select", "write"} THEN 1 ELSE 2
    BY <1>4, FS_EmptySet, BoundsAssumption
  <2>3. \A j \in Conns : Cardinality(PendingIds(j)') <=
                 PendingRequests + IF wr'[j] \in {"select", "write"} THEN 1 ELSE 2
    BY <2>1, <2>2
  <2> QED BY <2>3 DEF PendingBounded
<1> QED BY <1>5, <1>6, <1>7 DEF MapInv

\* A client that was never started has empty maps.
LEMMA InitMapInv == Init => MapInv
<1> SUFFICES ASSUME Init PROVE MapInv
  OBVIOUS
<1>1. Filed = {} /\ \A i \in Conns : PendingIds(i) = {}
  BY DEF Init, NonePending, Filed, PendingIds
<1>2. Counted
  BY <1>1, FS_EmptySet DEF Init, Counted, CountExact, Filed
<1>3. MapsEmpty /\ PendingBounded
  BY <1>1, FS_EmptySet, BoundsAssumption DEF MapsEmpty, PendingBounded
<1> QED BY <1>2, <1>3 DEF MapInv

\* The maps are counted and bounded in every reachable state.
THEOREM MapInvariance == Spec => []MapInv
<1>1. ASSUME Inv, MapInv, [Next]_vars PROVE MapInv'
  BY <1>1, QuietSteps, QuietMapInv, RegisterMapInv, ReadIdMapInv, FailPendingMapInv
<1> QED BY <1>1, InitMapInv, Invariance, PTL DEF Spec

\* requestsCount, which writers, readers and supervisors change, is the number of
\* pending requests: it never drifts and never falls below zero.
THEOREM CountIsExact == Spec => []CountExact
<1>1. MapInv => CountExact
  BY DEF MapInv, Counted
<1> QED BY <1>1, MapInvariance, PTL

\* The overflow check of connectionWriter, made before the request is added, bounds the
\* pending map of every connection.
THEOREM PendingIsBounded == Spec => []PendingBounded
<1>1. MapInv => PendingBounded
  BY DEF MapInv
<1> QED BY <1>1, MapInvariance, PTL

-----------------------------------------------------------------------------
(* The connections: ConnectionLimit.                                       *)

\* A supervisor has a dial while it waits for one, a live connection while
\* handleConnection waits for its goroutines, and a closed one while it joins them.
Phases ==
  \A i \in Conns :
    /\ dial[i] # "none" <=> sup[i] \in {"select", "drain"}
    /\ conn[i] \in {"open", "broken"} <=> sup[i] = "up"
    /\ conn[i] = "closed" <=> sup[i] = "closing"

\* What a step does to the supervisors other than i.
Alone(i) ==
  \A j \in Conns \ {i} : sup'[j] = sup[j] /\ dial'[j] = dial[j] /\ conn'[j] = conn[j]

\* Supervisor i moves, and the others stay.
LEMMA SupervisorAlone ==
  ASSUME TypeOK, NEW i \in Conns, Supervisor(i)
  PROVE  Alone(i)
<1>1. CASE DialOk(i) \/ DialFail(i) \/ StopDial(i) \/ DrainDial(i) \/ DialServerFailed(i)
           \/ BackoffTimer(i) \/ BackoffStop(i)
  BY <1>1 DEF DialOk, DialFail, StopDial, DrainDial, DialServerFailed, BackoffTimer,
              BackoffStop, Redial, Alone, TypeOK
<1>2. CASE ConnectedFailed(i) \/ FailPending(i)
  <2>1. \A j \in Conns \ {i} : sup'[j] = sup[j] /\ dial'[j] = dial[j]
    BY <1>2 DEF ConnectedFailed, FailPending, RedialUnlessStopped, Redial, TypeOK
  <2>2. \A j \in Conns \ {i} : conn'[j] = conn[j]
    BY <1>2 DEF ConnectedFailed, FailPending, TypeOK
  <2> QED BY <2>1, <2>2 DEF Alone
<1>3. CASE Connected(i) \/ ReaderDone(i) \/ WriterDone(i) \/ StopConnection(i)
  BY <1>3 DEF Connected, ReaderDone, WriterDone, StopConnection, Close, CloseConn, Alone, TypeOK
<1>4. CASE JoinReader(i) \/ JoinWriter(i) \/ Break(i)
  BY <1>4 DEF JoinReader, JoinWriter, Break, Alone, TypeOK
<1> QED BY <1>1, <1>2, <1>3, <1>4 DEF Supervisor

\* What it does to itself.
LEMMA SupervisorPhases ==
  ASSUME TypeOK, Phases, NEW i \in Conns, Supervisor(i)
  PROVE  /\ dial'[i] # "none" <=> sup'[i] \in {"select", "drain"}
         /\ conn'[i] \in {"open", "broken"} <=> sup'[i] = "up"
         /\ conn'[i] = "closed" <=> sup'[i] = "closing"
<1>0. /\ dial[i] # "none" <=> sup[i] \in {"select", "drain"}
      /\ conn[i] \in {"open", "broken"} <=> sup[i] = "up"
      /\ conn[i] = "closed" <=> sup[i] = "closing"
  BY DEF Phases
<1>1. CASE DialOk(i) \/ DialFail(i)
  BY <1>0, <1>1 DEF DialOk, DialFail, TypeOK
<1>2. CASE StopDial(i) \/ DrainDial(i) \/ DialServerFailed(i)
  BY <1>0, <1>2 DEF StopDial, DrainDial, DialServerFailed, TypeOK
<1>3. CASE BackoffTimer(i) \/ BackoffStop(i)
  BY <1>0, <1>3 DEF BackoffTimer, BackoffStop, Redial, TypeOK
<1>4. CASE ConnectedFailed(i)
  BY <1>0, <1>4 DEF ConnectedFailed, RedialUnlessStopped, Redial, TypeOK
<1>5. CASE FailPending(i)
  BY <1>0, <1>5 DEF FailPending, RedialUnlessStopped, Redial, TypeOK
<1>6. CASE Connected(i)
  BY <1>0, <1>6 DEF Connected, TypeOK
<1>7. CASE ReaderDone(i) \/ WriterDone(i) \/ StopConnection(i)
  BY <1>0, <1>7 DEF ReaderDone, WriterDone, StopConnection, Close, CloseConn, TypeOK
<1>8. CASE JoinReader(i) \/ JoinWriter(i)
  BY <1>0, <1>8 DEF JoinReader, JoinWriter
<1>9. CASE Break(i)
  BY <1>0, <1>9 DEF Break, TypeOK
<1> QED BY <1>1, <1>2, <1>3, <1>4, <1>5, <1>6, <1>7, <1>8, <1>9 DEF Supervisor

\* Callers, readers and writers move no supervisor.
LEMMA OthersLeaveSupervisors ==
  ASSUME (\E k \in Calls : Caller(k)) \/ (\E i \in Conns : Reader(i) \/ Writer(i))
         \/ Stop \/ StopReturn \/ UNCHANGED vars
  PROVE  UNCHANGED <<sup, dial, conn, openConns, gen>>
<1>1. ASSUME NEW k \in Calls, Caller(k) PROVE UNCHANGED <<sup, dial, conn, openConns, gen>>
  BY <1>1 DEF Caller, Request, call, send, Enqueue, CancelEnqueue, CancelWait, ReceiveDone,
              CallReturn
<1>2. ASSUME NEW i \in Conns, Reader(i) PROVE UNCHANGED <<sup, dial, conn, openConns, gen>>
  BY <1>2 DEF Reader, ReadFail, ReadId, ReadUnexpected, ReadReply, DecodeFail, ReadBodyFail
<1>3. ASSUME NEW i \in Conns, Writer(i) PROVE UNCHANGED <<sup, dial, conn, openConns, gen>>
  BY <1>3 DEF Writer, WriteStop, DropCancelled, TakeSend, Register, Write, WriteFail
<1>4. CASE Stop \/ StopReturn \/ UNCHANGED vars
  BY <1>4 DEF Stop, StopReturn, vars
<1> QED BY <1>1, <1>2, <1>3, <1>4

\* A client is started when all its supervisors have returned, so that none of them has
\* a dial or a connection.
LEMMA StartPhases ==
  ASSUME Inv, Phases, Start
  PROVE  /\ \A i \in Conns : /\ sup[i] = "off" /\ dial[i] = "none" /\ conn[i] = "none"
                              /\ sup'[i] = "select" /\ dial'[i] = "pending"
                              /\ conn'[i] = "none"
         /\ life = "stopped" /\ gen < MaxStarts /\ gen' = gen + 1 /\ UNCHANGED openConns
<1>1. TypeOK /\ \A i \in Conns : sup[i] = "off"
  BY DEF Inv, LifeCycle, Start
<1>2. \A i \in Conns : dial[i] = "none" /\ conn[i] = "none"
  BY <1>1 DEF Phases, TypeOK
<1> QED BY <1>1, <1>2 DEF Start

\* Every step keeps the phases.
LEMMA PhasesStep ==
  ASSUME Inv, Phases, [Next]_vars
  PROVE  Phases'
<1>0. TypeOK
  BY DEF Inv
<1>1. CASE Start
  BY <1>1, StartPhases DEF Phases
<1>2. ASSUME NEW i \in Conns, Supervisor(i) PROVE Phases'
  BY <1>0, <1>2, SupervisorAlone, SupervisorPhases DEF Phases, Alone
<1>3. CASE UNCHANGED <<sup, dial, conn, openConns, gen>>
  BY <1>3 DEF Phases
<1> QED BY <1>1, <1>2, <1>3, OthersLeaveSupervisors DEF Next

\* A supervisor is where its dial and its connection say, in every reachable state.
THEOREM PhasesHold == Spec => []Phases
<1>1. Init => Phases
  BY DEF Init, Phases
<1>2. Inv /\ Phases /\ [Next]_vars => Phases'
  BY PhasesStep
<1> QED BY <1>1, <1>2, Invariance, PTL DEF Spec

\* The supervisors that have a connection: dialled, live or, once Stop has made it
\* return, perhaps dropped without being closed.
Occupied ==
  {i \in Conns : dial[i] = "ok" \/ conn[i] \in {"open", "broken"} \/ (gen > 0 /\ sup[i] = "off")}

\* There are no more open connections than those; before the first Start there are none.
OpenInv ==
  /\ gen = 0 => openConns = 0
  /\ openConns <= Cardinality(Occupied)

\* A client that is not stopped is started once.
OneStart ==
  /\ life = "stopping" => Stoppable
  /\ life = "stopped" => gen = 0 \/ Stoppable
  /\ life # "stopped" => gen > 0

\* One more supervisor in a finite set of them.
LEMMA OneMore ==
  ASSUME IsFiniteSet(Conns), NEW S \in SUBSET Conns, NEW T \in SUBSET Conns, NEW i \in Conns,
         \A j \in Conns \ {i} : j \in S <=> j \in T
  PROVE  /\ Cardinality(S) \in Nat /\ Cardinality(T) \in Nat
         /\ i \in T /\ i \notin S => Cardinality(T) = Cardinality(S) + 1
         /\ i \in S /\ i \notin T => Cardinality(T) = Cardinality(S) - 1
         /\ (i \in S <=> i \in T) => Cardinality(T) = Cardinality(S)
<1>1. /\ IsFiniteSet(S) /\ Cardinality(S) \in Nat
      /\ IsFiniteSet(T) /\ Cardinality(T) \in Nat
  BY FS_Subset, FS_CardinalityType
<1>2. ASSUME i \in T, i \notin S PROVE Cardinality(T) = Cardinality(S) + 1
  <2>1. T = S \cup {i}
    BY <1>2
  <2> QED BY <1>1, <1>2, <2>1, FS_AddElement
<1>3. ASSUME i \in S, i \notin T PROVE Cardinality(T) = Cardinality(S) - 1
  <2>1. T = S \ {i}
    BY <1>3
  <2> QED BY <1>1, <1>3, <2>1, FS_RemoveElement
<1>4. ASSUME i \in S <=> i \in T PROVE Cardinality(T) = Cardinality(S)
  <2>1. T = S
    BY <1>4
  <2> QED BY <2>1
<1> QED BY <1>1, <1>2, <1>3, <1>4

\* A connection is opened by a supervisor that has none and closed by one that has it,
\* unless a hook refuses it.
LEMMA SupervisorOpens ==
  ASSUME TypeOK, Phases, LifeCycle, FailingHooks = {}, NEW i \in Conns, Supervisor(i)
  PROVE  /\ UNCHANGED gen
         /\ \/ openConns' = openConns /\ (i \in Occupied => (i \in Occupied)')
            \/ openConns' = openConns + 1 /\ i \notin Occupied /\ (i \in Occupied)'
            \/ openConns' = openConns - 1
<1>0. /\ dial[i] # "none" <=> sup[i] \in {"select", "drain"}
      /\ conn[i] \in {"open", "broken"} <=> sup[i] = "up"
      /\ conn[i] = "closed" <=> sup[i] = "closing"
  BY DEF Phases
<1>1. UNCHANGED gen
  BY DEF Supervisor, DialOk, DialFail, StopDial, DrainDial, DialServerFailed, BackoffTimer,
         BackoffStop, ConnectedFailed, Connected, ReaderDone, WriterDone, StopConnection,
         JoinReader, JoinWriter, FailPending, Break
<1>2. sup[i] # "off" => gen > 0
  BY DEF LifeCycle, Gens
<1>3. CASE DialOk(i)
  BY <1>0, <1>3 DEF DialOk, Occupied, TypeOK
<1>4. CASE DialFail(i) \/ StopDial(i)
  BY <1>0, <1>4 DEF DialFail, StopDial, Occupied, TypeOK
<1>5. CASE DrainDial(i)
  BY <1>0, <1>1, <1>2, <1>5 DEF DrainDial, Occupied, TypeOK
<1>6. CASE DialServerFailed(i)
  BY <1>0, <1>6 DEF DialServerFailed, Occupied, TypeOK
<1>7. CASE BackoffTimer(i) \/ BackoffStop(i)
  BY <1>0, <1>7 DEF BackoffTimer, BackoffStop, Redial, Occupied, TypeOK
<1>8. CASE ConnectedFailed(i)
  BY <1>8 DEF ConnectedFailed
<1>9. CASE Connected(i)
  BY <1>0, <1>9 DEF Connected, Occupied, TypeOK
<1>10. CASE ReaderDone(i) \/ WriterDone(i) \/ StopConnection(i)
  BY <1>1, <1>10 DEF ReaderDone, WriterDone, StopConnection, Close, CloseConn
<1>11. CASE JoinReader(i) \/ JoinWriter(i)
  BY <1>1, <1>11 DEF JoinReader, JoinWriter, Occupied
<1>12. CASE FailPending(i)
  BY <1>0, <1>12 DEF FailPending, Occupied, TypeOK
<1>13. CASE Break(i)
  BY <1>0, <1>13 DEF Break, Occupied, TypeOK
<1> QED BY <1>1, <1>3, <1>4, <1>5, <1>6, <1>7, <1>8, <1>9, <1>10, <1>11, <1>12, <1>13
        DEF Supervisor

\* A supervisor that moves belongs to a client that was started.
LEMMA GenMoves ==
  ASSUME TypeOK, Phases, LifeCycle, NEW i \in Conns, Supervisor(i)
  PROVE  gen # 0
<1>1. sup[i] # "off"
  <2>1. CASE dial[i] = "pending"
    BY <2>1 DEF Phases
  <2>2. CASE conn[i] = "open"
    BY <2>2 DEF Phases
  <2>3. CASE dial[i] # "pending" /\ conn[i] # "open"
    BY <2>3 DEF Supervisor, DialOk, DialFail, StopDial, DrainDial, DialServerFailed,
                BackoffTimer, BackoffStop, ConnectedFailed, Connected, ReaderDone, WriterDone,
                StopConnection, JoinReader, JoinWriter, FailPending, Break
  <2> QED BY <2>1, <2>2, <2>3
<1> QED BY <1>1, BoundsAssumption DEF LifeCycle, Gens

\* Stop, callers, readers and writers keep a client started once.
LEMMA OneStartStep ==
  ASSUME Inv, OneStart, [Next]_vars
  PROVE  OneStart'
<1>0. gen \in Nat
  BY BoundsAssumption DEF Inv, TypeOK
<1>1. CASE Start
  BY <1>0, <1>1 DEF Start, OneStart
<1>2. CASE Stop
  BY <1>2 DEF Stop, OneStart
<1>3. CASE StopReturn
  BY <1>3 DEF StopReturn, OneStart
<1>4. CASE UNCHANGED <<life, gen>>
  BY <1>4 DEF OneStart
<1>5. ASSUME NEW k \in Calls, Caller(k) PROVE UNCHANGED <<life, gen>>
  BY <1>5 DEF Caller, Request, call, send, Enqueue, CancelEnqueue, CancelWait, ReceiveDone,
              CallReturn
<1>6. ASSUME NEW i \in Conns, Supervisor(i) PROVE UNCHANGED <<life, gen>>
  BY <1>6 DEF Supervisor, DialOk, DialFail, StopDial, DrainDial, DialServerFailed,
              BackoffTimer, BackoffStop, ConnectedFailed, Connected, ReaderDone, WriterDone,
              StopConnection, JoinReader, JoinWriter, FailPending, Break
<1>7. ASSUME NEW i \in Conns, Reader(i) PROVE UNCHANGED <<life, gen>>
  BY <1>7 DEF Reader, ReadFail, ReadId, ReadUnexpected, ReadReply, DecodeFail, ReadBodyFail
<1>8. ASSUME NEW i \in Conns, Writer(i) PROVE UNCHANGED <<life, gen>>
  BY <1>8 DEF Writer, WriteStop, DropCancelled, TakeSend, Register, Write, WriteFail
<1>9. CASE UNCHANGED vars
  BY <1>4, <1>9 DEF vars
<1> QED BY <1>1, <1>2, <1>3, <1>4, <1>5, <1>6, <1>7, <1>8, <1>9 DEF Next

\* Every step of a client that is started once keeps the count of its connections.
LEMMA OpenStep ==
  ASSUME IsFiniteSet(Conns), FailingHooks = {}, MaxStarts <= 1 \/ ~Stoppable,
         Inv, Phases, OneStart, OpenInv, [Next]_vars
  PROVE  OpenInv'
<1>0. TypeOK /\ LifeCycle /\ gen \in Nat /\ MaxStarts \in Nat /\ openConns \in Int
  BY BoundsAssumption DEF Inv, TypeOK
<1>1. CASE Start
  <2>1. gen = 0 /\ gen' = 1 /\ UNCHANGED openConns
    BY <1>0, <1>1, StartPhases DEF OneStart
  <2>2. openConns' = 0
    BY <2>1 DEF OpenInv
  <2>3. Occupied' \in SUBSET Conns
    BY DEF Occupied
  <2>4. Cardinality(Occupied') \in Nat
    BY <2>3, FS_Subset, FS_CardinalityType
  <2> QED BY <2>1, <2>2, <2>4 DEF OpenInv
<1>2. ASSUME NEW i \in Conns, Supervisor(i) PROVE OpenInv'
  <2>1. /\ UNCHANGED gen
        /\ \/ openConns' = openConns /\ (i \in Occupied => i \in Occupied')
           \/ openConns' = openConns + 1 /\ i \notin Occupied /\ i \in Occupied'
           \/ openConns' = openConns - 1
    BY <1>0, <1>2, SupervisorOpens
  <2>2. /\ Occupied \in SUBSET Conns /\ Occupied' \in SUBSET Conns
        /\ \A j \in Conns \ {i} : j \in Occupied <=> j \in Occupied'
    BY <1>0, <1>2, <2>1, SupervisorAlone DEF Alone, Occupied
  <2>3. /\ Cardinality(Occupied) \in Nat /\ Cardinality(Occupied') \in Nat
        /\ i \in Occupied' /\ i \notin Occupied =>
             Cardinality(Occupied') = Cardinality(Occupied) + 1
        /\ i \in Occupied /\ i \notin Occupied' =>
             Cardinality(Occupied') = Cardinality(Occupied) - 1
        /\ (i \in Occupied <=> i \in Occupied') => Cardinality(Occupied') = Cardinality(Occupied)
    BY <2>2, OneMore
  <2>4. openConns <= Cardinality(Occupied)
    BY DEF OpenInv
  <2>5. openConns' <= Cardinality(Occupied')
    BY <1>0, <2>1, <2>3, <2>4
  <2>6. gen # 0
    BY <1>0, <1>2, GenMoves
  <2> QED BY <2>1, <2>5, <2>6 DEF OpenInv
<1>3. CASE UNCHANGED <<sup, dial, conn, openConns, gen>>
  BY <1>3 DEF OpenInv, Occupied
<1> QED BY <1>1, <1>2, <1>3, OthersLeaveSupervisors DEF Next

\* The client never has more connections open than supervisors, as long as no plugin
\* refuses one and Stop is not followed by another Start: a connection that a hook
\* refuses, or that was dialled when Stop came, is dropped without being closed.
THEOREM ConnectionsLimited ==
  ASSUME IsFiniteSet(Conns), FailingHooks = {}, MaxStarts <= 1 \/ ~Stoppable
  PROVE  Spec => []ConnectionLimit
<1>1. Init => OneStart /\ OpenInv
  <2> SUFFICES ASSUME Init PROVE OneStart /\ OpenInv
    OBVIOUS
  <2>1. Occupied \in SUBSET Conns
    BY DEF Occupied
  <2>2. Cardinality(Occupied) \in Nat
    BY <2>1, FS_Subset, FS_CardinalityType
  <2> QED BY <2>2 DEF Init, OneStart, OpenInv
<1>2. Inv /\ Phases /\ OneStart /\ OpenInv /\ [Next]_vars => OneStart' /\ OpenInv'
  BY OneStartStep, OpenStep
<1>3. Inv /\ OpenInv => ConnectionLimit
  <2> SUFFICES ASSUME Inv, OpenInv PROVE ConnectionLimit
    OBVIOUS
  <2>1. Occupied \in SUBSET Conns
    BY DEF Occupied
  <2>2. /\ Cardinality(Occupied) \in Nat /\ Cardinality(Conns) \in Nat
        /\ Cardinality(Occupied) <= Cardinality(Conns)
    BY <2>1, FS_Subset, FS_CardinalityType
  <2> QED BY <2>2 DEF OpenInv, ConnectionLimit, Inv, TypeOK
<1> QED BY <1>1, <1>2, <1>3, Invariance, PhasesHold, PTL DEF Spec

-----------------------------------------------------------------------------
(* The callers: NoLateReply.                                               *)

\* The object of a call that is on its way to a reply, for a caller whose context does
\* not end.
Waiting(r) ==
  /\ owner[r] \notin Cancellable
  /\ place[r] \in {"pending", "body"} \/ (place[r] = "queue" /\ ~Skip(r))

\* That caller waits for it: nothing else lets it leave, for done is empty.
CallersWait ==
  \A r \in Requests : Waiting(r) => pc[owner[r]] = "wait" /\ obj[owner[r]] = r

\* A step after which every such object was one before, of the same caller, who has not
\* moved.
StillWaiting ==
  \A r \in Requests :
    Waiting(r)' => /\ Waiting(r) /\ owner'[r] = owner[r]
                   /\ pc'[owner[r]] = pc[owner[r]] /\ obj'[owner[r]] = obj[owner[r]]

\* Such a step keeps the invariant.
LEMMA StillWaitingInv ==
  ASSUME CallersWait, StillWaiting
  PROVE  CallersWait'
BY DEF CallersWait, StillWaiting

\* The steps of callers: only call makes an object wait, and a caller that moves on has
\* none that does.
LEMMA CallerWaits ==
  ASSUME Inv, CallersWait, NEW k \in Calls, Caller(k)
  PROVE  CallersWait'
<1>0. TypeOK /\ Ownership
  BY DEF Inv
<1>1. CASE \E r \in Requests : Request(k, r)
  <2>1. PICK r \in Requests : Request(k, r)
    BY <1>1
  <2>2. /\ pc[k] = "idle"
        /\ pc' = [pc EXCEPT ![k] = "enqueue"]
        /\ obj' = [obj EXCEPT ![k] = r]
        /\ place' = [place EXCEPT ![r] = "caller"]
        /\ owner' = [owner EXCEPT ![r] = k]
    BY <2>1 DEF Request
  <2>3. \A s \in Requests : Waiting(s) => owner[s] # k
    BY <2>2 DEF CallersWait, Waiting
  <2>4. StillWaiting
    BY <1>0, <2>2, <2>3 DEF StillWaiting, Waiting, Skip, TypeOK
  <2> QED BY <2>4, StillWaitingInv
<1>2. CASE call(k) \/ send(k)
  <2> DEFINE r == obj[k]
  <2>1. r \in Requests /\ owner[r] = k /\ pc[k] = "enqueue"
    BY <1>0, <1>2 DEF call, send, Enqueue, Ownership, CallersOwn
  <2>2. /\ place' = [place EXCEPT ![r] = "queue"]
        /\ UNCHANGED <<owner, obj>>
        /\ (pc' = [pc EXCEPT ![k] = "wait"] \/ (k \in Sends /\ pc' = [pc EXCEPT ![k] = "returned"]))
    BY <1>2 DEF call, send, Enqueue
  <2>3. r = obj[k]
    OBVIOUS
  <2> HIDE DEF r
  <2>4. \A s \in Requests : Waiting(s) => owner[s] # k
    BY <2>1 DEF CallersWait, Waiting
  <2>5. ASSUME NEW s \in Requests, Waiting(s)' PROVE pc'[owner[s]] = "wait" /\ obj[owner[s]] = s
    <3>1. CASE s = r
      <4>1. k \notin Sends
        BY <1>0, <2>1, <2>2, <2>5, <3>1 DEF Waiting, Skip, TypeOK
      <4> QED BY <1>0, <2>1, <2>2, <2>3, <3>1, <4>1 DEF TypeOK
    <3>2. CASE s # r
      <4>1. Waiting(s)
        BY <1>0, <2>1, <2>2, <2>5, <3>2 DEF Waiting, Skip, TypeOK
      <4>2. pc[owner[s]] = "wait" /\ obj[owner[s]] = s /\ owner[s] # k
        BY <2>4, <4>1 DEF CallersWait
      <4>3. owner[s] \in Calls
        BY <1>0, <4>1 DEF Waiting, Ownership, ObjectsClean, Held
      <4> QED BY <1>0, <2>2, <4>2, <4>3 DEF TypeOK
    <3> QED BY <3>1, <3>2
  <2> QED BY <2>2, <2>5 DEF CallersWait
<1>3. CASE CancelEnqueue(k)
  <2>1. /\ pc[k] = "enqueue" /\ obj[k] \in Requests
        /\ pc' = [pc EXCEPT ![k] = "returned"]
        /\ place' = [place EXCEPT ![obj[k]] = "spent"]
        /\ UNCHANGED <<obj, owner>>
    BY <1>0, <1>3 DEF CancelEnqueue, Ownership, CallersOwn
  <2>2. \A s \in Requests : Waiting(s) => owner[s] # k
    BY <2>1 DEF CallersWait, Waiting
  <2>3. StillWaiting
    BY <1>0, <2>1, <2>2 DEF StillWaiting, Waiting, Skip, TypeOK
  <2> QED BY <2>3, StillWaitingInv
<1>4. CASE CancelWait(k) \/ ReceiveDone(k) \/ CallReturn(k)
  <2>1. /\ \E s \in {"return", "returned"} : pc' = [pc EXCEPT ![k] = s]
        /\ UNCHANGED <<obj, place, owner>>
    BY <1>4 DEF CancelWait, ReceiveDone, CallReturn
  <2>2. ASSUME NEW s \in Requests, Waiting(s) PROVE owner[s] # k
    <3>1. CASE CancelWait(k)
      BY <2>2, <3>1 DEF CancelWait, Waiting
    <3>2. CASE ReceiveDone(k)
      <4>1. done[s] = "empty"
        BY <1>0, <2>2 DEF Waiting, Ownership, ObjectsClean, Held
      <4>2. done[obj[k]] # "empty"
        BY <3>2 DEF ReceiveDone, Completed
      <4> QED BY <2>2, <4>1, <4>2 DEF CallersWait, Waiting
    <3>3. CASE CallReturn(k)
      BY <2>2, <3>3 DEF CallReturn, CallersWait, Waiting
    <3> QED BY <1>4, <3>1, <3>2, <3>3
  <2>3. StillWaiting
    BY <1>0, <2>1, <2>2 DEF StillWaiting, Waiting, Skip, TypeOK
  <2> QED BY <2>3, StillWaitingInv
<1> QED BY <1>1, <1>2, <1>3, <1>4 DEF Caller

\* The steps of all others move no caller, and hand on only objects that wait already.
LEMMA OthersWait ==
  ASSUME Inv,
         \/ Start \/ Stop \/ StopReturn \/ UNCHANGED vars
         \/ \E i \in Conns : Supervisor(i) \/ Reader(i) \/ Writer(i)
  PROVE  StillWaiting
<1>0. TypeOK /\ Ownership /\ Correlated
  BY DEF Inv
<1>1. CASE UNCHANGED <<pc, obj, place, owner>>
  BY <1>1 DEF StillWaiting, Waiting, Skip
<1>2. ASSUME NEW i \in Conns, Supervisor(i) PROVE StillWaiting
  <2>1. CASE FailPending(i)
    <3>1. /\ place' = [r \in Requests |-> IF IsPending(i, r) THEN "spent" ELSE place[r]]
          /\ UNCHANGED <<pc, obj, owner>>
      BY <2>1 DEF FailPending
    <3>2. \A r \in Requests : place'[r] \in {"spent", place[r]}
      BY <3>1
    <3> HIDE <3>1
    <3> QED BY <3>1, <3>2 DEF StillWaiting, Waiting, Skip
  <2>2. CASE ~FailPending(i)
    BY <1>1, <1>2, <2>2 DEF Supervisor, DialOk, DialFail, StopDial, DrainDial,
      DialServerFailed, BackoffTimer, BackoffStop, ConnectedFailed, Connected, ReaderDone,
      WriterDone, StopConnection, JoinReader, JoinWriter, Break, Close
  <2> QED BY <2>1, <2>2
<1>3. ASSUME NEW i \in Conns, Reader(i) PROVE StillWaiting
  <2>1. UNCHANGED <<pc, obj, owner>>
    BY <1>3 DEF Reader, ReadFail, ReadId, ReadUnexpected, ReadReply, DecodeFail, ReadBodyFail
  <2>2. CASE ReadFail(i) \/ ReadUnexpected(i)
    BY <1>1, <2>2 DEF ReadFail, ReadUnexpected
  <2>3. ASSUME NEW m \in sent[i], ReadId(i, m) PROVE StillWaiting
    <3>1. place[pending[i][m.id]] = "pending"
      BY <1>0, Awaited
    <3>2. place' = [place EXCEPT ![pending[i][m.id]] = "body"]
      BY <2>3 DEF ReadId
    <3> QED BY <1>0, <2>1, <3>1, <3>2 DEF StillWaiting, Waiting, Skip, TypeOK
  <2>4. CASE ReadReply(i) \/ DecodeFail(i) \/ ReadBodyFail(i)
    <3>1. place' = [place EXCEPT ![rcur[i]] = "spent"]
      BY <2>4 DEF ReadReply, DecodeFail, ReadBodyFail, SignalDone
    <3> QED BY <1>0, <2>1, <3>1 DEF StillWaiting, Waiting, Skip, TypeOK
  <2> QED BY <1>3, <2>2, <2>3, <2>4 DEF Reader
<1>4. ASSUME NEW i \in Conns, Writer(i) PROVE StillWaiting
  <2>1. UNCHANGED <<pc, obj>>
    BY <1>4 DEF Writer, WriteStop, DropCancelled, TakeSend, Register, Write, WriteFail
  <2>2. CASE WriteStop(i)
    BY <1>1, <2>2 DEF WriteStop
  <2>3. ASSUME NEW p \in {"skip", "pending"}, Dequeue(i), UNCHANGED owner,
               place' = [place EXCEPT ![Head(queue[gen])] = p],
               p = "pending" => ~Skip(Head(queue[gen]))
        PROVE  StillWaiting
    <3>1. place[Head(queue[gen])] = "queue"
      BY <2>3, DequeueHead
    <3> QED BY <1>0, <2>1, <2>3, <3>1 DEF StillWaiting, Waiting, Skip, TypeOK
  <2>4. CASE TakeSend(i)
    <3>1. Dequeue(i) /\ UNCHANGED owner /\ place' = [place EXCEPT ![Head(queue[gen])] = "skip"]
      BY <2>4 DEF TakeSend
    <3> QED BY <2>3, <3>1
  <2>5. ASSUME NEW id \in 0 .. MaxId, Register(i, id) PROVE StillWaiting
    <3>1. /\ Dequeue(i) /\ UNCHANGED owner /\ ~Skip(Head(queue[gen]))
          /\ place' = [place EXCEPT ![Head(queue[gen])] = "pending"]
      BY <2>5 DEF Register
    <3> QED BY <2>3, <3>1
  <2>6. ASSUME NEW r, Recycle(r) PROVE StillWaiting
    BY <1>0, <2>1, <2>6 DEF Recycle, StillWaiting, Waiting, Skip, TypeOK
  <2>7. CASE DropCancelled(i)
    BY <2>6, <2>7 DEF DropCancelled
  <2>8. CASE Write(i)
    <3>1. Recycle(wcur[i]) \/ UNCHANGED <<place, owner>>
      BY <2>8 DEF Write
    <3> QED BY <1>1, <2>1, <2>6, <3>1
  <2>9. CASE WriteFail(i)
    <3>1. place' = [place EXCEPT ![wcur[i]] = "spent"] \/ UNCHANGED place
      BY <2>9 DEF WriteFail
    <3>2. UNCHANGED owner
      BY <2>9 DEF WriteFail
    <3> QED BY <1>0, <2>1, <3>1, <3>2 DEF StillWaiting, Waiting, Skip, TypeOK
  <2> QED BY <1>4, <2>2, <2>4, <2>5, <2>7, <2>8, <2>9 DEF Writer
<1>5. CASE Start \/ Stop \/ StopReturn \/ UNCHANGED vars
  BY <1>1, <1>5 DEF Start, Stop, StopReturn, vars
<1> QED BY <1>2, <1>3, <1>4, <1>5

\* The caller of a request on its way waits for it, in every reachable state.
THEOREM CallersAwait == Spec => []CallersWait
<1>1. Init => CallersWait
  BY DEF Init, CallersWait, Waiting
<1>2. Inv /\ CallersWait /\ [Next]_vars => CallersWait'
  BY CallerWaits, OthersWait, StillWaitingInv DEF Next
<1> QED BY <1>1, <1>2, Invariance, PTL DEF Spec

\* Only readFrom writes reply variables, of the call that its object carries.
LEMMA RepliedStep ==
  ASSUME Inv, CallersWait, [Next]_vars, NEW k \in Calls \ Cancellable, replied'[k] # replied[k]
  PROVE  pc[k] = "wait"
<1>0. TypeOK /\ Ownership
  BY DEF Inv
<1>1. PICK i \in Conns : ReadReply(i)
  <2>1. ASSUME NEW j \in Calls, Caller(j) PROVE UNCHANGED replied
    BY <2>1 DEF Caller, Request, call, send, Enqueue, CancelEnqueue, CancelWait, ReceiveDone,
                CallReturn
  <2>2. ASSUME NEW i \in Conns, Supervisor(i) PROVE UNCHANGED replied
    BY <2>2 DEF Supervisor, DialOk, DialFail, StopDial, DrainDial, DialServerFailed,
                BackoffTimer, BackoffStop, ConnectedFailed, Connected, ReaderDone, WriterDone,
                StopConnection, JoinReader, JoinWriter, FailPending, Break
  <2>3. ASSUME NEW i \in Conns, Reader(i), ~ReadReply(i) PROVE UNCHANGED replied
    BY <2>3 DEF Reader, ReadFail, ReadId, ReadUnexpected, DecodeFail, ReadBodyFail
  <2>4. ASSUME NEW i \in Conns, Writer(i) PROVE UNCHANGED replied
    BY <2>4 DEF Writer, WriteStop, DropCancelled, TakeSend, Register, Write, WriteFail
  <2>5. ASSUME Start \/ Stop \/ StopReturn \/ UNCHANGED vars PROVE UNCHANGED replied
    BY <2>5 DEF Start, Stop, StopReturn, vars
  <2> QED BY <2>1, <2>2, <2>3, <2>4, <2>5 DEF Next
<1> DEFINE r == rcur[i]
<1>2. /\ r \in Requests /\ place[r] = "body" /\ owner[r] \in Calls
      /\ replied' = [replied EXCEPT ![owner[r]] = rfor[i]]
  BY <1>0, <1>1 DEF ReadReply, Ownership, ReadersHold, ObjectsClean, Held
<1>3. owner[r] = k
  BY <1>0, <1>2 DEF TypeOK
<1> QED BY <1>2, <1>3 DEF CallersWait, Waiting

\* A Call whose context does not end has its reply variables written only while it
\* waits.
THEOREM RepliesInTime ==
  Spec => [][\A k \in Calls \ Cancellable : replied'[k] # replied[k] => pc[k] = "wait"]_vars
<1>1. Inv /\ CallersWait /\ [Next]_vars =>
        \A k \in Calls \ Cancellable : replied'[k] # replied[k] => pc[k] = "wait"
  BY RepliedStep
<1> QED BY <1>1, Invariance, CallersAwait, PTL DEF Spec

\* So no reply is late on a client whose calls all have a context that does not end; one
\* whose context does may return before the reader that holds its object writes to it.
THEOREM NoReplyIsLate == ASSUME Cancellable = {} PROVE Spec => NoLateReply
<1>1. (\A k \in Calls \ Cancellable : replied'[k] # replied[k] => pc[k] = "wait")
        => \A k \in Calls : replied'[k] # replied[k] => pc[k] \in {"wait", "return"}
  OBVIOUS
<1> QED BY <1>1, RepliesInTime, PTL DEF NoLateReply

=============================================================================

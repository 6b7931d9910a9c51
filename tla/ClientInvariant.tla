-------------------------- MODULE ClientInvariant ---------------------------
(***************************************************************************)
(* The inductive invariant of Client.  Its core is an ownership discipline *)
(* that the code follows and nowhere states: a clientRequest is held by    *)
(* one party at a time (the pool, its caller, a queue, a pending map, a    *)
(* reader, or a writer for a Send), and place[r] is the name of that party.*)
(***************************************************************************)
EXTENDS Client

\* The holder of an object other than the garbage collector.
Held == {"free", "caller", "queue", "skip", "pending", "body"}

\* Whoever holds an object finds its done channel empty and, before the object is
\* queued, its err nil; outside the pool it carries a call.
ObjectsClean ==
  \A r \in Requests :
    /\ place[r] \in Held => done[r] = "empty"
    /\ place[r] \in {"free", "caller"} => err[r] = "nil"
    /\ place[r] \in Held \ {"free"} => owner[r] \in Calls

\* A calling goroutine and its object agree on each other.
CallersOwn ==
  \A k \in Calls :
    /\ pc[k] # "idle" => obj[k] \in Requests
    /\ pc[k] = "enqueue" =>
         place[obj[k]] = "caller" /\ owner[obj[k]] = k /\ chan[k] \in Gens
    /\ pc[k] = "wait" =>
         /\ owner[obj[k]] = k /\ k \notin Sends
         /\ place[obj[k]] \in {"queue", "pending", "body", "spent"}
         /\ place[obj[k]] = "queue" => err[obj[k]] = "nil"
         /\ place[obj[k]] = "spent" => done[obj[k]] # "empty"

\* What lies in the queues is labelled so, and lies there once.
QueuesHold ==
  \A g \in Gens : \A n \in 1 .. Len(queue[g]) :
    /\ place[queue[g][n]] = "queue"
    /\ \A h \in Gens : \A m \in 1 .. Len(queue[h]) :
         queue[g][n] = queue[h][m] => g = h /\ n = m

\* What is pending is labelled so, is pending once, and awaits a reply.
PendingHold ==
  \A i \in Conns : \A id \in Ids : pending[i][id] # Nil =>
    /\ place[pending[i][id]] = "pending"
    /\ ~Skip(pending[i][id])
    /\ \A j \in Conns : \A jd \in Ids :
         pending[i][id] = pending[j][jd] => i = j /\ id = jd

\* A reader fills the object of the call whose response it reads, alone.
ReadersHold ==
  \A i \in Conns : rd[i] = "body" =>
    /\ rcur[i] \in Requests
    /\ place[rcur[i]] = "body"
    /\ rfor[i] = owner[rcur[i]]
    /\ \A j \in Conns : rd[j] = "body" /\ rcur[j] = rcur[i] => i = j

\* A writer writes an object of a Send that it alone holds, or one that is pending
\* under the current id while the peer knows no request with that id.
WritersHold ==
  \A i \in Conns : wr[i] = "write" =>
    /\ wcur[i] \in Requests
    /\ Skip(wcur[i]) =>
         /\ place[wcur[i]] = "skip"
         /\ \A j \in Conns : wr[j] = "write" /\ wcur[j] = wcur[i] => i = j
    /\ ~Skip(wcur[i]) =>
         /\ requestId[i] \in Ids
         /\ pending[i][requestId[i]] = wcur[i]
         /\ \A m \in sent[i] : m.id # requestId[i]

\* The label of an object tells the truth.
LabelsTrue ==
  \A r \in Requests :
    /\ place[r] = "queue" => InQueue(r)
    /\ place[r] = "pending" => \E i \in Conns : IsPending(i, r)
    /\ place[r] = "body" => BeingRead(r)

\* A connection's goroutines run only under handleConnection, and a supervisor
\* only between Start and Stop.
LifeCycle ==
  /\ life = "stopped" => \A i \in Conns : sup[i] = "off"
  /\ \A i \in Conns :
       /\ sup[i] # "off" => gen \in Gens
       /\ sup[i] \notin {"up", "closing"} => rd[i] = "off" /\ wr[i] = "off"

\* Each object has one holder, and every container holds what its label says.
Ownership ==
  /\ ObjectsClean
  /\ CallersOwn
  /\ QueuesHold
  /\ PendingHold
  /\ ReadersHold
  /\ WritersHold
  /\ LabelsTrue

\* The inductive invariant.
Inv ==
  /\ TypeOK
  /\ LifeCycle
  /\ Ownership
  /\ Correlated
  /\ OwnReply

=============================================================================

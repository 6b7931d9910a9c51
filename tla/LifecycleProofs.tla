--------------------------- MODULE LifecycleProofs ---------------------------
(***************************************************************************)
(* Theorems about starting and stopping a server, for any number of        *)
(* plugins, methods, starts, connections and failures: its type, that an   *)
(* entry of the registry is there only while the server serves, that it    *)
(* names the server's methods, and the order of the hooks.                 *)
(***************************************************************************)
EXTENDS Lifecycle, TLAPS

-----------------------------------------------------------------------------
(* The invariant.  Its parts say what each phase of Start and Stop may     *)
(* rely on; those about hooks hold until Stop is called during Start.      *)

\* How far Start and Stop are is what stopChan says.
Phases ==
  /\ stopChan = "nil" => stopper = "idle"
  /\ stopChan = "open" => stopper \in {"idle", "BeforeStop"} /\ accept # "none"
  /\ stopChan = "closed" => stopper \in {"waiting", "AfterStop"}
  /\ main = "BeforeStart" => stopChan = "nil" /\ launches < MaxStarts
  /\ main = "AfterStart" /\ ~early => stopChan = "open" /\ stopper = "idle"

\* The listener has been closed by an earlier run of the server.
ListenerClosed ==
  /\ stopChan # "nil" => launches >= 1
  /\ listener = "closed" =>
       /\ launches >= 1
       /\ stopChan = "open" => launches >= 2

\* The entry is there only while the server runs and has not deregistered it.
Entry ==
  entry # None /\ ~early =>
    /\ stopChan = "open"
    /\ stopper = "BeforeStop" => stopNext <= registrar

\* The tags are names of methods, and an entry has them all.
TagNames ==
  /\ \A m \in Methods : tags[m] > 0 => names[m] > 0
  /\ EntryNamesMethods

\* The hooks that have been called, in each phase.
Told ==
  ~early => \A p \in 1 .. Plugins :
    /\ stopChan = "nil" => told[p] # "AfterStart"
    /\ stopChan = "open" => told[p] # "AfterStop"
    /\ main = "BeforeStart" /\ p < next => told[p] = "BeforeStart"
    /\ main = "AfterStart" =>
         told[p] = IF p < next THEN "AfterStart" ELSE "BeforeStart"
    /\ stopper = "BeforeStop" /\ p < stopNext => told[p] = "BeforeStop"
    /\ stopper = "waiting" => told[p] = "BeforeStop"
    /\ stopper = "AfterStop" =>
         told[p] = IF p < stopNext THEN "AfterStop" ELSE "BeforeStop"

IInv == TypeOK /\ Phases /\ ListenerClosed /\ Entry /\ TagNames /\ Told

-----------------------------------------------------------------------------
(* Every step keeps the type.                                              *)

\* With the phases, the type invariant is inductive.
LEMMA TypeStep == TypeOK /\ Phases /\ [Next]_vars => TypeOK'
<1> SUFFICES ASSUME TypeOK, Phases, [Next]_vars PROVE TypeOK' OBVIOUS
<1> USE LifecycleAssumption DEF TypeOK, Fault, MoreHooks
<1>1. ASSUME NEW S \in SUBSET Methods, Handler(S) PROVE TypeOK'
  <2>1. names' \in [Methods -> Nat] BY <1>1 DEF Handler
  <2> QED BY <1>1, <2>1 DEF Handler, fixed, starting, stopping, registered
<1>2. CASE StartCalled
  BY <1>2 DEF StartCalled, startUnch, fixed, stopping, registered, count
<1>3. CASE BeforeStart
  BY <1>3 DEF BeforeStart, Tell, Hooks, startUnch, fixed, stopping, registered, count
<1>4. CASE BeforeStartFails
  BY <1>4 DEF BeforeStartFails, startUnch, fixed, stopping, registered
<1>5. CASE Launch
  <2>1. launches' \in 0 .. MaxStarts BY <1>5 DEF Launch, Phases
  <2> QED BY <1>5, <2>1 DEF Launch, startUnch, fixed, stopping, registered
<1>6. CASE AfterStart
  <2>1. Tagged \in [Methods -> Nat] BY DEF Tagged
  <2>2. tags' \in [Methods -> Nat] /\ (entry' \in [Methods -> Nat] \/ entry' = None)
    BY <1>6, <2>1 DEF AfterStart, registered
  <2>3. told' \in [1 .. Plugins -> Hooks] BY <1>6 DEF AfterStart, Tell, Hooks
  <2> QED BY <1>6, <2>2, <2>3 DEF AfterStart, startUnch, fixed, stopping, count
<1>7. CASE AfterStartFails
  <2>1. Tagged \in [Methods -> Nat] BY DEF Tagged
  <2>2. tags' \in [Methods -> Nat] /\ (entry' \in [Methods -> Nat] \/ entry' = None)
    BY <1>7, <2>1 DEF AfterStartFails, registered
  <2>3. faults' \in 0 .. MaxFaults BY <1>7 DEF AfterStartFails
  <2> QED BY <1>7, <2>2, <2>3 DEF AfterStartFails, startUnch, fixed, stopping
<1>8. CASE StartReturns
  BY <1>8 DEF StartReturns, startUnch, fixed, stopping, registered, count
<1>9. CASE ServeReturns
  BY <1>9 DEF ServeReturns, startUnch, fixed, stopping, registered, count
<1>10. CASE Accept
  BY <1>10 DEF Accept, acceptUnch, fixed, starting, stopping, registered
<1>11. CASE AcceptFails
  BY <1>11 DEF AcceptFails, acceptUnch, fixed, starting, stopping, registered
<1>12. CASE AcceptAgain
  BY <1>12 DEF AcceptAgain, acceptUnch, fixed, starting, stopping, registered
<1>13. CASE AcceptStops
  BY <1>13 DEF AcceptStops, StopSeen, acceptUnch, fixed, starting, stopping, registered
<1>14. CASE ConnectionEnds
  BY <1>14 DEF ConnectionEnds, acceptUnch, fixed, starting, stopping, registered
<1>15. CASE StopCalled
  BY <1>15 DEF StopCalled, StopTellsFirst, stopUnch, fixed, starting
<1>16. CASE BeforeStop
  BY <1>16 DEF BeforeStop, Tell, Hooks, stopUnch, fixed, starting
<1>17. CASE BeforeStopFails
  BY <1>17 DEF BeforeStopFails, StaysStarted, stopUnch, fixed, starting
<1>18. CASE StopCloses
  BY <1>18 DEF StopCloses, stopUnch, fixed, starting
<1>19. CASE StopWaits
  BY <1>19 DEF StopWaits, stopUnch, fixed, starting
<1>20. CASE AfterStop
  BY <1>20 DEF AfterStop, Tell, Hooks, stopUnch, fixed, starting
<1>21. CASE StopReturns
  BY <1>21 DEF StopReturns, stopUnch, fixed, starting
<1>22. CASE UNCHANGED vars
  BY <1>22 DEF vars, fixed, server, starting, stopping, registered, count
<1> QED BY <1>1, <1>2, <1>3, <1>4, <1>5, <1>6, <1>7, <1>8, <1>9, <1>10, <1>11,
           <1>12, <1>13, <1>14, <1>15, <1>16, <1>17, <1>18, <1>19, <1>20, <1>21, <1>22
        DEF Next, StartRuns, StopRuns

\* What Init makes has the invariant.
LEMMA InitIInv == Init => IInv
<1> SUFFICES ASSUME Init PROVE IInv OBVIOUS
<1> USE LifecycleAssumption DEF Init
<1>1. TypeOK
  <2>1. names \in [Methods -> Nat] /\ tags \in [Methods -> Nat] OBVIOUS
  <2>2. told \in [1 .. Plugins -> Hooks] BY DEF Hooks
  <2>3. 0 \in 0 .. MaxHandlers /\ 0 \in 0 .. MaxStarts /\ 0 \in 0 .. MaxConns /\ 0 \in 0 .. MaxFaults
    OBVIOUS
  <2>4. 1 \in 1 .. Plugins + 1 OBVIOUS
  <2> HIDE LifecycleAssumption
  <2> QED BY <2>1, <2>2, <2>3, <2>4 DEF TypeOK
<1>2. Phases /\ ListenerClosed /\ Entry /\ TagNames /\ Told
  BY DEF Init, Phases, ListenerClosed, Entry, TagNames, EntryNamesMethods, Told
<1> QED BY <1>1, <1>2 DEF IInv

-----------------------------------------------------------------------------
(* Every step keeps the other parts, each by the ones before it.           *)

\* stopChan, Start and Stop go together.
LEMMA PhasesStep ==
  ASSUME TypeOK, Phases, [Next]_vars
  PROVE  Phases'
<1> USE LifecycleAssumption DEF TypeOK, Phases, MoreHooks
<1>1. ASSUME NEW S \in SUBSET Methods, Handler(S) PROVE Phases'
  BY <1>1 DEF Handler, NotStarted, fixed, starting, stopping, registered
<1>2. CASE StartCalled
  BY <1>2 DEF StartCalled, startUnch, fixed, stopping, registered, count
<1>3. CASE BeforeStart
  BY <1>3 DEF BeforeStart, Tell, startUnch, fixed, stopping, registered, count
<1>4. CASE BeforeStartFails
  BY <1>4 DEF BeforeStartFails, startUnch, fixed, stopping, registered
<1>5. CASE Launch
  BY <1>5 DEF Launch, startUnch, fixed, stopping, registered
<1>6. CASE AfterStart
  BY <1>6 DEF AfterStart, Tell, startUnch, fixed, stopping, registered, count
<1>7. CASE AfterStartFails
  BY <1>7 DEF AfterStartFails, startUnch, fixed, stopping, registered
<1>8. CASE StartReturns
  BY <1>8 DEF StartReturns, startUnch, fixed, stopping, registered, count
<1>9. CASE ServeReturns
  BY <1>9 DEF ServeReturns, startUnch, fixed, stopping, registered, count, Done
<1>10. CASE Accept
  BY <1>10 DEF Accept, acceptUnch, fixed, starting, stopping, registered
<1>11. CASE AcceptFails
  BY <1>11 DEF AcceptFails, acceptUnch, fixed, starting, stopping, registered
<1>12. CASE AcceptAgain
  BY <1>12 DEF AcceptAgain, acceptUnch, fixed, starting, stopping, registered
<1>13. CASE AcceptStops
  BY <1>13 DEF AcceptStops, StopSeen, acceptUnch, fixed, starting, stopping, registered
<1>14. CASE ConnectionEnds
  BY <1>14 DEF ConnectionEnds, acceptUnch, fixed, starting, stopping, registered
<1>15. CASE StopCalled
  BY <1>15 DEF StopCalled, StopTellsFirst, stopUnch, fixed, starting
<1>16. CASE BeforeStop
  BY <1>16 DEF BeforeStop, Tell, stopUnch, fixed, starting
<1>17. CASE BeforeStopFails
  BY <1>17 DEF BeforeStopFails, StaysStarted, stopUnch, fixed, starting
<1>18. CASE StopCloses
  BY <1>18 DEF StopCloses, stopUnch, fixed, starting
<1>19. CASE StopWaits
  BY <1>19 DEF StopWaits, Done, stopUnch, fixed, starting
<1>20. CASE AfterStop
  BY <1>20 DEF AfterStop, Tell, stopUnch, fixed, starting
<1>21. CASE StopReturns
  BY <1>21 DEF StopReturns, stopUnch, fixed, starting
<1>22. CASE UNCHANGED vars
  BY <1>22 DEF vars, fixed, server, starting, stopping, registered, count
<1> QED BY <1>1, <1>2, <1>3, <1>4, <1>5, <1>6, <1>7, <1>8, <1>9, <1>10, <1>11,
           <1>12, <1>13, <1>14, <1>15, <1>16, <1>17, <1>18, <1>19, <1>20, <1>21, <1>22
        DEF Next, StartRuns, StopRuns

\* Only a run that has ended has closed the listener.
LEMMA ListenerStep ==
  ASSUME TypeOK, Phases, ListenerClosed, [Next]_vars
  PROVE  ListenerClosed'
<1> USE LifecycleAssumption DEF TypeOK, Phases, ListenerClosed, MoreHooks
<1>1. ASSUME NEW S \in SUBSET Methods, Handler(S) PROVE ListenerClosed'
  BY <1>1 DEF Handler, NotStarted, fixed, starting, stopping, registered
<1>2. CASE StartCalled
  BY <1>2 DEF StartCalled, startUnch, fixed, stopping, registered, count
<1>3. CASE BeforeStart
  BY <1>3 DEF BeforeStart, Tell, startUnch, fixed, stopping, registered, count
<1>4. CASE BeforeStartFails
  BY <1>4 DEF BeforeStartFails, startUnch, fixed, stopping, registered
<1>5. CASE Launch
  BY <1>5 DEF Launch, startUnch, fixed, stopping, registered
<1>6. CASE AfterStart
  BY <1>6 DEF AfterStart, Tell, startUnch, fixed, stopping, registered, count
<1>7. CASE AfterStartFails
  BY <1>7 DEF AfterStartFails, startUnch, fixed, stopping, registered
<1>8. CASE StartReturns
  BY <1>8 DEF StartReturns, startUnch, fixed, stopping, registered, count
<1>9. CASE ServeReturns
  BY <1>9 DEF ServeReturns, startUnch, fixed, stopping, registered, count, Done
<1>10. CASE Accept
  BY <1>10 DEF Accept, acceptUnch, fixed, starting, stopping, registered
<1>11. CASE AcceptFails
  BY <1>11 DEF AcceptFails, acceptUnch, fixed, starting, stopping, registered
<1>12. CASE AcceptAgain
  BY <1>12 DEF AcceptAgain, acceptUnch, fixed, starting, stopping, registered
<1>13. CASE AcceptStops
  BY <1>13 DEF AcceptStops, StopSeen, acceptUnch, fixed, starting, stopping, registered
<1>14. CASE ConnectionEnds
  BY <1>14 DEF ConnectionEnds, acceptUnch, fixed, starting, stopping, registered
<1>15. CASE StopCalled
  BY <1>15 DEF StopCalled, StopTellsFirst, stopUnch, fixed, starting
<1>16. CASE BeforeStop
  BY <1>16 DEF BeforeStop, Tell, stopUnch, fixed, starting
<1>17. CASE BeforeStopFails
  BY <1>17 DEF BeforeStopFails, StaysStarted, stopUnch, fixed, starting
<1>18. CASE StopCloses
  BY <1>18 DEF StopCloses, stopUnch, fixed, starting
<1>19. CASE StopWaits
  BY <1>19 DEF StopWaits, Done, stopUnch, fixed, starting
<1>20. CASE AfterStop
  BY <1>20 DEF AfterStop, Tell, stopUnch, fixed, starting
<1>21. CASE StopReturns
  BY <1>21 DEF StopReturns, stopUnch, fixed, starting
<1>22. CASE UNCHANGED vars
  BY <1>22 DEF vars, fixed, server, starting, stopping, registered, count
<1> QED BY <1>1, <1>2, <1>3, <1>4, <1>5, <1>6, <1>7, <1>8, <1>9, <1>10, <1>11,
           <1>12, <1>13, <1>14, <1>15, <1>16, <1>17, <1>18, <1>19, <1>20, <1>21, <1>22
        DEF Next, StartRuns, StopRuns

\* An entry is made by a server that runs, and is removed before it stops.
LEMMA EntryStep ==
  ASSUME TypeOK, Phases, Entry, [Next]_vars
  PROVE  Entry'
<1> USE LifecycleAssumption DEF TypeOK, Phases, Entry, MoreHooks
<1>1. ASSUME NEW S \in SUBSET Methods, Handler(S) PROVE Entry'
  BY <1>1 DEF Handler, NotStarted, fixed, starting, stopping, registered
<1>2. CASE StartCalled
  BY <1>2 DEF StartCalled, startUnch, fixed, stopping, registered, count
<1>3. CASE BeforeStart
  BY <1>3 DEF BeforeStart, Tell, startUnch, fixed, stopping, registered, count
<1>4. CASE BeforeStartFails
  BY <1>4 DEF BeforeStartFails, startUnch, fixed, stopping, registered
<1>5. CASE Launch
  BY <1>5 DEF Launch, startUnch, fixed, stopping, registered
<1>6. CASE AfterStart
  BY <1>6 DEF AfterStart, Tell, startUnch, fixed, stopping, registered, count
<1>7. CASE AfterStartFails
  BY <1>7 DEF AfterStartFails, startUnch, fixed, stopping, registered
<1>8. CASE StartReturns
  BY <1>8 DEF StartReturns, startUnch, fixed, stopping, registered, count
<1>9. CASE ServeReturns
  BY <1>9 DEF ServeReturns, startUnch, fixed, stopping, registered, count, Done
<1>10. CASE Accept
  BY <1>10 DEF Accept, acceptUnch, fixed, starting, stopping, registered
<1>11. CASE AcceptFails
  BY <1>11 DEF AcceptFails, acceptUnch, fixed, starting, stopping, registered
<1>12. CASE AcceptAgain
  BY <1>12 DEF AcceptAgain, acceptUnch, fixed, starting, stopping, registered
<1>13. CASE AcceptStops
  BY <1>13 DEF AcceptStops, StopSeen, acceptUnch, fixed, starting, stopping, registered
<1>14. CASE ConnectionEnds
  BY <1>14 DEF ConnectionEnds, acceptUnch, fixed, starting, stopping, registered
<1>15. CASE StopCalled
  BY <1>15 DEF StopCalled, StopTellsFirst, stopUnch, fixed, starting
<1>16. CASE BeforeStop
  BY <1>16 DEF BeforeStop, Tell, stopUnch, fixed, starting
<1>17. CASE BeforeStopFails
  BY <1>17 DEF BeforeStopFails, StaysStarted, stopUnch, fixed, starting
<1>18. CASE StopCloses
  BY <1>18 DEF StopCloses, stopUnch, fixed, starting
<1>19. CASE StopWaits
  BY <1>19 DEF StopWaits, Done, stopUnch, fixed, starting
<1>20. CASE AfterStop
  BY <1>20 DEF AfterStop, Tell, stopUnch, fixed, starting
<1>21. CASE StopReturns
  BY <1>21 DEF StopReturns, stopUnch, fixed, starting
<1>22. CASE UNCHANGED vars
  BY <1>22 DEF vars, fixed, server, starting, stopping, registered, count
<1> QED BY <1>1, <1>2, <1>3, <1>4, <1>5, <1>6, <1>7, <1>8, <1>9, <1>10, <1>11,
           <1>12, <1>13, <1>14, <1>15, <1>16, <1>17, <1>18, <1>19, <1>20, <1>21, <1>22
        DEF Next, StartRuns, StopRuns

\* The tags have names of methods, and methods are not added while there is an entry.
LEMMA TagNamesStep ==
  ASSUME TypeOK, Phases, Entry, TagNames, [Next]_vars
  PROVE  TagNames'
<1> USE LifecycleAssumption DEF TypeOK, Phases, Entry, TagNames, EntryNamesMethods, MoreHooks
<1>1. ASSUME NEW S \in SUBSET Methods, Handler(S) PROVE TagNames'
  BY <1>1 DEF Handler, NotStarted, fixed, starting, stopping, registered
<1>2. CASE StartCalled
  BY <1>2 DEF StartCalled, startUnch, fixed, stopping, registered, count
<1>3. CASE BeforeStart
  BY <1>3 DEF BeforeStart, Tell, startUnch, fixed, stopping, registered, count
<1>4. CASE BeforeStartFails
  BY <1>4 DEF BeforeStartFails, startUnch, fixed, stopping, registered
<1>5. CASE Launch
  BY <1>5 DEF Launch, startUnch, fixed, stopping, registered
<1>6. CASE AfterStart
  <2>1. \A m \in Methods : Tagged[m] > 0 <=> names[m] > 0 BY DEF Tagged
  <2>2. UNCHANGED names BY <1>6 DEF AfterStart, startUnch
  <2> QED BY <1>6, <2>1, <2>2 DEF AfterStart, Tell, startUnch, fixed, stopping, registered, count
<1>7. CASE AfterStartFails
  <2>1. \A m \in Methods : Tagged[m] > 0 <=> names[m] > 0 BY DEF Tagged
  <2>2. UNCHANGED names BY <1>7 DEF AfterStartFails, startUnch
  <2> QED BY <1>7, <2>1, <2>2 DEF AfterStartFails, startUnch, fixed, stopping, registered
<1>8. CASE StartReturns
  BY <1>8 DEF StartReturns, startUnch, fixed, stopping, registered, count
<1>9. CASE ServeReturns
  BY <1>9 DEF ServeReturns, startUnch, fixed, stopping, registered, count, Done
<1>10. CASE Accept
  BY <1>10 DEF Accept, acceptUnch, fixed, starting, stopping, registered
<1>11. CASE AcceptFails
  BY <1>11 DEF AcceptFails, acceptUnch, fixed, starting, stopping, registered
<1>12. CASE AcceptAgain
  BY <1>12 DEF AcceptAgain, acceptUnch, fixed, starting, stopping, registered
<1>13. CASE AcceptStops
  BY <1>13 DEF AcceptStops, StopSeen, acceptUnch, fixed, starting, stopping, registered
<1>14. CASE ConnectionEnds
  BY <1>14 DEF ConnectionEnds, acceptUnch, fixed, starting, stopping, registered
<1>15. CASE StopCalled
  BY <1>15 DEF StopCalled, StopTellsFirst, stopUnch, fixed, starting
<1>16. CASE BeforeStop
  BY <1>16 DEF BeforeStop, Tell, stopUnch, fixed, starting
<1>17. CASE BeforeStopFails
  BY <1>17 DEF BeforeStopFails, StaysStarted, stopUnch, fixed, starting
<1>18. CASE StopCloses
  BY <1>18 DEF StopCloses, stopUnch, fixed, starting
<1>19. CASE StopWaits
  BY <1>19 DEF StopWaits, Done, stopUnch, fixed, starting
<1>20. CASE AfterStop
  BY <1>20 DEF AfterStop, Tell, stopUnch, fixed, starting
<1>21. CASE StopReturns
  BY <1>21 DEF StopReturns, stopUnch, fixed, starting
<1>22. CASE UNCHANGED vars
  BY <1>22 DEF vars, fixed, server, starting, stopping, registered, count
<1> QED BY <1>1, <1>2, <1>3, <1>4, <1>5, <1>6, <1>7, <1>8, <1>9, <1>10, <1>11,
           <1>12, <1>13, <1>14, <1>15, <1>16, <1>17, <1>18, <1>19, <1>20, <1>21, <1>22
        DEF Next, StartRuns, StopRuns

\* The hooks are called in order.
LEMMA ToldStep ==
  ASSUME TypeOK, Phases, Told, [Next]_vars
  PROVE  Told'
<1> USE LifecycleAssumption DEF TypeOK, Phases, Told, Hooks, MoreHooks
<1>1. ASSUME NEW S \in SUBSET Methods, Handler(S) PROVE Told'
  BY <1>1 DEF Handler, NotStarted, fixed, starting, stopping, registered
<1>2. CASE StartCalled
  BY <1>2 DEF StartCalled, startUnch, fixed, stopping, registered, count
<1>3. CASE BeforeStart
  BY <1>3 DEF BeforeStart, Tell, startUnch, fixed, stopping, registered, count
<1>4. CASE BeforeStartFails
  BY <1>4 DEF BeforeStartFails, startUnch, fixed, stopping, registered
<1>5. CASE Launch
  BY <1>5 DEF Launch, startUnch, fixed, stopping, registered
<1>6. CASE AfterStart
  BY <1>6 DEF AfterStart, Tell, startUnch, fixed, stopping, registered, count
<1>7. CASE AfterStartFails
  BY <1>7 DEF AfterStartFails, startUnch, fixed, stopping, registered
<1>8. CASE StartReturns
  BY <1>8 DEF StartReturns, startUnch, fixed, stopping, registered, count
<1>9. CASE ServeReturns
  BY <1>9 DEF ServeReturns, startUnch, fixed, stopping, registered, count, Done
<1>10. CASE Accept
  BY <1>10 DEF Accept, acceptUnch, fixed, starting, stopping, registered
<1>11. CASE AcceptFails
  BY <1>11 DEF AcceptFails, acceptUnch, fixed, starting, stopping, registered
<1>12. CASE AcceptAgain
  BY <1>12 DEF AcceptAgain, acceptUnch, fixed, starting, stopping, registered
<1>13. CASE AcceptStops
  BY <1>13 DEF AcceptStops, StopSeen, acceptUnch, fixed, starting, stopping, registered
<1>14. CASE ConnectionEnds
  BY <1>14 DEF ConnectionEnds, acceptUnch, fixed, starting, stopping, registered
<1>15. CASE StopCalled
  BY <1>15 DEF StopCalled, StopTellsFirst, stopUnch, fixed, starting
<1>16. CASE BeforeStop
  BY <1>16 DEF BeforeStop, Tell, stopUnch, fixed, starting
<1>17. CASE BeforeStopFails
  BY <1>17 DEF BeforeStopFails, StaysStarted, stopUnch, fixed, starting
<1>18. CASE StopCloses
  BY <1>18 DEF StopCloses, stopUnch, fixed, starting
<1>19. CASE StopWaits
  BY <1>19 DEF StopWaits, Done, stopUnch, fixed, starting
<1>20. CASE AfterStop
  BY <1>20 DEF AfterStop, Tell, stopUnch, fixed, starting
<1>21. CASE StopReturns
  BY <1>21 DEF StopReturns, stopUnch, fixed, starting
<1>22. CASE UNCHANGED vars
  BY <1>22 DEF vars, fixed, server, starting, stopping, registered, count
<1> QED BY <1>1, <1>2, <1>3, <1>4, <1>5, <1>6, <1>7, <1>8, <1>9, <1>10, <1>11,
           <1>12, <1>13, <1>14, <1>15, <1>16, <1>17, <1>18, <1>19, <1>20, <1>21, <1>22
        DEF Next, StartRuns, StopRuns

-----------------------------------------------------------------------------
(* The theorems.                                                           *)

\* The invariant holds in every state of every behaviour.
THEOREM Invariance == Spec => []IInv
<1>1. ASSUME IInv, [Next]_vars PROVE IInv'
  BY <1>1, TypeStep, PhasesStep, ListenerStep, EntryStep, TagNamesStep, ToldStep DEF IInv
<1> QED BY <1>1, InitIInv, PTL DEF Spec

\* Every variable has its type.
THEOREM TypeCorrect == Spec => []TypeOK
<1>1. IInv => TypeOK BY DEF IInv
<1> QED BY <1>1, Invariance, PTL

\* A server whose entry is in the registry serves, with any number of plugins around the
\* registry's and any failures of hooks, unless Stop was called during Start.
THEOREM Registration == Spec => []RegisteredServes
<1>1. IInv => RegisteredServes
  <2> SUFFICES ASSUME IInv, entry # None, ~early
               PROVE  /\ stopChan = "open" /\ accept # "none"
                      /\ launches = 1 => listener = "open"
    BY DEF RegisteredServes
  <2>1. stopChan = "open" /\ accept # "none" BY DEF IInv, Entry, Phases
  <2>2. launches = 1 => listener = "open" BY <2>1 DEF IInv, TypeOK, ListenerClosed
  <2> QED BY <2>1, <2>2
<1> QED BY <1>1, Invariance, PTL

\* The entry names the methods of the server.
THEOREM EntryNames == Spec => []EntryNamesMethods
<1>1. IInv => EntryNamesMethods BY DEF IInv, TagNames
<1> QED BY <1>1, Invariance, PTL

\* No plugin is started twice, or told that the server has stopped, without being told
\* to stop in between.
THEOREM HooksInOrder == Spec => HookOrder
<1> DEFINE Ordered == ~early' => \A p \in 1 .. Plugins :
                        told'[p] # told[p] => told'[p] \in Following[told[p]]
<1>1. ASSUME IInv, [Next]_vars, ~early' PROVE Ordered
  <2>0. TypeOK /\ Phases /\ Told BY <1>1 DEF IInv
  <2>1. ~early
    BY <1>1 DEF Next, StartRuns, StopRuns, StartCalled, ServeReturns, StopCalled, BeforeStart,
           BeforeStartFails, Launch, AfterStart, AfterStartFails, StartReturns, BeforeStop,
           BeforeStopFails, StopCloses, StopWaits, AfterStop, StopReturns, startUnch,
           stopUnch, acceptUnch, vars, Handler, Accept, AcceptFails, AcceptAgain,
           AcceptStops, ConnectionEnds
  <2> USE <2>0, <2>1 DEF TypeOK, Phases, Told, MoreHooks, Following, Hooks, Tell
  <2>2. CASE BeforeStart BY <2>2 DEF BeforeStart
  <2>3. CASE AfterStart BY <2>3 DEF AfterStart
  <2>4. CASE BeforeStop BY <2>4 DEF BeforeStop
  <2>5. CASE AfterStop BY <2>5 DEF AfterStop
  <2>6. CASE UNCHANGED told BY <2>6
  <2> QED
    BY <1>1, <2>2, <2>3, <2>4, <2>5, <2>6
    DEF Next, StartRuns, StopRuns, StartCalled, ServeReturns, StopCalled, BeforeStartFails,
        Launch, AfterStartFails, StartReturns, BeforeStopFails, StopCloses, StopWaits,
        StopReturns, startUnch, stopUnch, acceptUnch, vars, Handler, Accept, AcceptFails,
        AcceptAgain, AcceptStops, ConnectionEnds
<1>2. IInv /\ [Next]_vars => Ordered BY <1>1
<1> QED BY <1>2, Invariance, PTL DEF Spec, HookOrder

=============================================================================

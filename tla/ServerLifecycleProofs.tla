----------------------- MODULE ServerLifecycleProofs -----------------------
(***************************************************************************)
(* Start and Stop for every size of the pool and every set of other        *)
(* threads that may call Stop, pool threads among them.                    *)
(***************************************************************************)
EXTENDS ServerLifecycle, TLAPS

Started == mainPc \notin {"new", "starting"}
Ended == mainPc \in {"returned", "clearing", "destroying", "gone"}

\* Only a thread that has ended is joined.
Joins ==
    /\ Started => spawned = Size
    /\ \A i \in joined : worker[i] = "finished"

\* A session leaves the map when it is closed or with the map, and a thread closes
\* its armed session before it ends.
Sessions ==
    /\ \A i \in erases : session[i] = "closed"
    /\ ~Destroyed => \A i \in Pool :
         /\ session[i] \in {"posted", "armed"} => i \in inMap
         /\ session[i] = "armed" => worker[i] # "finished"

\* Stop runs on the main thread only, and is_stop_ tells whether it is done.
OneStopper ==
    /\ \A c \in Threads \ {Main} : stage[c] = "out"
    /\ stage[Main] # "out" => mainPc \in {"stop", "destroying"} /\ ~isStop
    /\ stage[Main] = "out" /\ mainPc \in {"stop", "destroying", "gone"} => isStop
    /\ mainPc = "new" => isStop

\* What Stop has joined when it is done, in its loop, and otherwise.
JoinedSoFar ==
    /\ isStop /\ mainPc # "new" => joined = Pool
    /\ stage[Main] = "joining" => joined = 1 .. next[Main] - 1
    /\ stage[Main] # "joining" /\ (~isStop \/ mainPc = "new") => joined = {}

\* The main thread leaves Start after Stop, if nobody else stopped main_ioct_.
StopFirst ==
    /\ ~Started => ~mainStopped
    /\ mainStopped /\ ~ownerStopped => isStop \/ stage[Main] # "out"
    /\ Ended /\ ~ownerStopped => isStop
    /\ stray => ownerStopped

Orderly == OneStopper /\ JoinedSoFar /\ StopFirst /\ ~broken

IInv == TypeOK /\ Joins /\ Sessions /\ (~foreign => Orderly)

-----------------------------------------------------------------------------
USE LifecycleAssumption DEF LifecycleAssumption, Pool, Threads

\* The conjuncts of TypeOK, one by one.
Typed ==
    /\ isStop \in BOOLEAN /\ mainStopped \in BOOLEAN /\ foreign \in BOOLEAN
    /\ ownerStopped \in BOOLEAN /\ stray \in BOOLEAN /\ broken \in BOOLEAN
    /\ mainPc \in {"new", "starting", "run", "stop", "returned", "clearing",
                 "destroying", "gone"}
    /\ spawned \in 0 .. Size
    /\ worker \in [Pool -> {"none", "starting", "run", "handling", "finished"}]
    /\ poolStopped \subseteq Pool /\ joined \subseteq 1 .. spawned
    /\ stage \in [Threads -> {"out", "stopping", "joining"}]
    /\ next \in [Threads -> 1 .. Size + 1]
    /\ session \in [Pool -> {"none", "posted", "armed", "closed"}]
    /\ inMap \subseteq Pool /\ erases \subseteq Pool /\ called \subseteq Callers

LEMMA TypedIsTypeOK == Typed <=> TypeOK
  BY Zenon DEF Typed, TypeOK

\* A call of Stop keeps the types of what Stop changes.
LEMMA CallStopTypes ==
    ASSUME Typed, NEW c \in Threads, CallStop(c)
    PROVE  /\ stage' \in [Threads -> {"out", "stopping", "joining"}]
           /\ mainStopped' \in BOOLEAN /\ foreign' \in BOOLEAN
           /\ UNCHANGED <<isStop, poolStopped, joined, next, broken>>
<1>1. CASE isStop
  BY <1>1 DEF CallStop, stopVars, Typed
<1>2. CASE ~isStop
  <2>1. foreign' \in BOOLEAN
    BY <1>2, Zenon DEF CallStop
  <2> QED
    BY <1>2, <2>1 DEF CallStop, Typed
<1> QED
  BY <1>1, <1>2

LEMMA InStopTypes == ASSUME Typed, NEW c \in Threads, InStop(c) PROVE Typed'
<1>1. UNCHANGED <<session, inMap, erases, mainPc, spawned, worker, called, ownerStopped, stray>>
  BY DEF InStop, sessVars
<1>2. CASE StopPool(c)
  BY <1>1, <1>2 DEF StopPool, Typed
<1>3. CASE JoinNext(c)
  <2>1. UNCHANGED <<isStop, mainStopped, poolStopped, stage, foreign>> /\ next[c] \in Pool
    BY <1>3 DEF JoinNext
  <2>2. CASE CannotJoin(c)
    <3>1. broken' = TRUE /\ UNCHANGED <<joined, next>>
      BY <1>3, <2>2 DEF JoinNext
    <3> QED
      BY <1>1, <2>1, <3>1 DEF Typed
  <2>3. CASE ~CannotJoin(c)
    <3>1. /\ joined' = joined \cup {next[c]} /\ next' = [next EXCEPT ![c] = @ + 1]
          /\ UNCHANGED broken
      BY <1>3, <2>3 DEF JoinNext
    <3>2. next[c] \in 1 .. spawned
      BY <2>1, <2>3 DEF CannotJoin, Typed
    <3>3. next' \in [Threads -> 1 .. Size + 1]
      BY <2>1, <3>1 DEF Typed
    <3> QED
      BY <1>1, <2>1, <3>1, <3>2, <3>3 DEF Typed
  <2> QED
    BY <2>2, <2>3
<1>4. CASE StopReturns(c)
  BY <1>1, <1>4 DEF StopReturns, Typed
<1> QED
  BY <1>2, <1>3, <1>4 DEF InStop

\* The steps of the main thread, other than those in Stop.
LEMMA MainTypes ==
    ASSUME Typed, \/ Start \/ Run \/ RunMain \/ SignalHandled \/ StartReturns
                  \/ DestroyServer \/ DestroyReturns \/ Signal \/ OwnerStops \/ Destroy
    PROVE  Typed'
<1>1. CASE Start
  BY <1>1 DEF Start, sessVars, Typed
<1>2. CASE Run
  <2>1. spawned + 1 \in Pool /\ spawned' = spawned + 1 /\ 1 .. spawned \subseteq 1 .. spawned'
    BY <1>2 DEF Run, Typed
  <2>2. worker' \in [Pool -> {"none", "starting", "run", "handling", "finished"}]
    BY <1>2, <2>1 DEF Run, Typed
  <2> QED
    BY <1>2, <2>1, <2>2 DEF Run, stopVars, sessVars, Typed
<1>3. CASE RunMain \/ SignalHandled \/ StartReturns \/ DestroyReturns
  BY <1>3 DEF RunMain, SignalHandled, StartReturns, DestroyReturns, stopVars, sessVars, Typed
<1>4. CASE DestroyServer \/ Signal
  <2>1. CallStop(Main) /\ mainPc' \in {"destroying", "run", "stop"}
    BY <1>4 DEF DestroyServer, Signal
  <2>2. UNCHANGED <<session, inMap, erases, spawned, worker, called, ownerStopped, stray>>
    BY <1>4 DEF DestroyServer, Signal, sessVars
  <2>3. Main \in Threads
    OBVIOUS
  <2> QED
    BY <2>1, <2>2, <2>3, CallStopTypes DEF Typed
<1>5. CASE OwnerStops
  BY <1>5 DEF OwnerStops, sessVars, Typed
<1>6. CASE Destroy
  BY <1>6 DEF Destroy, stopVars, Typed
<1> QED
  BY <1>1, <1>2, <1>3, <1>4, <1>5, <1>6

\* The steps about the session of a pool thread.
LEMMA PoolTypes ==
    ASSUME Typed, NEW i \in Pool,
           \/ Accept(i) \/ Erase(i) \/ HandlerBegins(i) \/ WorkerStarts(i) \/ Arm(i)
           \/ (\E closes \in BOOLEAN : HandlerEnds(i, closes)) \/ WorkerFinishes(i)
    PROVE  Typed'
<1>1. CASE Accept(i)
  BY <1>1 DEF Accept, stopVars, Typed
<1>2. CASE Erase(i)
  BY <1>2 DEF Erase, stopVars, Typed
<1>3. CASE HandlerBegins(i)
  BY <1>3 DEF HandlerBegins, stopVars, sessVars, Typed
<1>4. CASE WorkerStarts(i)
  BY <1>4 DEF WorkerStarts, stopVars, sessVars, Typed
<1>5. CASE Arm(i)
  BY <1>5 DEF Arm, stopVars, Typed
<1>6. ASSUME NEW closes \in BOOLEAN, HandlerEnds(i, closes) PROVE Typed'
  <2>1. /\ worker' = [worker EXCEPT ![i] = "run"]
        /\ UNCHANGED <<stopVars, inMap, mainPc, spawned, called, ownerStopped>>
        /\ session' \in {session, [session EXCEPT ![i] = "closed"]}
        /\ erases' \in {erases, erases \cup {i}}
    BY <1>6 DEF HandlerEnds
  <2>2. stray' \in BOOLEAN
    BY <1>6, Zenon DEF HandlerEnds
  <2> QED
    BY <2>1, <2>2 DEF stopVars, Typed
<1>7. CASE WorkerFinishes(i)
  <2>1. /\ worker' = [worker EXCEPT ![i] = "finished"]
        /\ UNCHANGED <<stopVars, inMap, mainPc, spawned, called, ownerStopped, stray>>
        /\ session' \in {session, [session EXCEPT ![i] = "closed"]}
        /\ erases' \in {erases, erases \cup {i}}
    BY <1>7 DEF WorkerFinishes
  <2> QED
    BY <2>1 DEF stopVars, Typed
<1> QED
  BY <1>1, <1>2, <1>3, <1>4, <1>5, <1>6, <1>7

LEMMA ElsewhereTypes == ASSUME Typed, NEW c \in Callers, StopElsewhere(c) PROVE Typed'
<1>1. CallStop(c) /\ c \in Threads /\ called' \subseteq Callers
  BY DEF StopElsewhere, Typed
<1>2. UNCHANGED <<session, inMap, erases, mainPc, spawned, worker, ownerStopped, stray>>
  BY DEF StopElsewhere, sessVars
<1> QED
  BY <1>1, <1>2, CallStopTypes DEF Typed

-----------------------------------------------------------------------------
\* A call of Stop changes nothing if is_stop_ is set, and begins to stop otherwise.
LEMMA CallStopCases ==
    ASSUME Typed, NEW c \in Threads, CallStop(c)
    PROVE  /\ stage[c] = "out"
           /\ isStop => UNCHANGED stopVars
           /\ ~isStop => /\ mainStopped' = TRUE /\ stage' = [stage EXCEPT ![c] = "stopping"]
                         /\ stage'[c] = "stopping"
                         /\ \A d \in Threads \ {c} : stage'[d] = stage[d]
                         /\ c # Main => foreign'
                         /\ c = Main => (foreign' <=> foreign)
<1>1. stage[c] = "out" /\ (isStop => UNCHANGED stopVars)
  BY DEF CallStop
<1>2. ASSUME ~isStop
      PROVE  /\ mainStopped' = TRUE /\ stage' = [stage EXCEPT ![c] = "stopping"]
             /\ foreign' = (foreign \/ c # Main)
  BY <1>2 DEF CallStop
<1>3. ASSUME ~isStop
      PROVE  /\ c # Main => foreign'
             /\ c = Main => (foreign' <=> foreign)
  BY <1>2, <1>3, Zenon
<1>4. ASSUME ~isStop
      PROVE  stage'[c] = "stopping" /\ \A d \in Threads \ {c} : stage'[d] = stage[d]
  BY <1>2, <1>4 DEF Typed
<1> QED
  BY <1>1, <1>2, <1>3, <1>4

LEMMA JoinsStep == ASSUME Typed, Joins, Next PROVE Joins'
<1>1. CASE Run
  <2>1. /\ spawned < Size /\ mainPc = "starting" /\ UNCHANGED <<mainPc, joined>>
        /\ worker' = [worker EXCEPT ![spawned + 1] = "starting"]
    BY <1>1 DEF Run, stopVars
  <2>2. \A i \in joined : i \in Pool /\ i # spawned + 1
    BY DEF Typed
  <2> QED
    BY <2>1, <2>2 DEF Joins, Started, Typed
<1>2. CASE Start \/ RunMain \/ SignalHandled \/ StartReturns \/ DestroyReturns \/ OwnerStops \/ Destroy
  BY <1>2 DEF Start, RunMain, SignalHandled, StartReturns, DestroyReturns, OwnerStops, Destroy,
              stopVars, Joins, Started
<1>3. CASE Signal \/ DestroyServer
  <2>1. /\ CallStop(Main) /\ Main \in Threads /\ Started
        /\ UNCHANGED <<spawned, worker>>
    BY <1>3 DEF Signal, InHandler, DestroyServer, Started
  <2>2. UNCHANGED joined
    BY <2>1, CallStopTypes
  <2> QED
    BY <2>1, <2>2 DEF Joins
<1>4. ASSUME NEW c \in Callers, StopElsewhere(c) PROVE Joins'
  <2>1. CallStop(c) /\ c \in Threads /\ UNCHANGED <<mainPc, spawned, worker>>
    BY <1>4 DEF StopElsewhere
  <2>2. UNCHANGED joined
    BY <2>1, CallStopTypes
  <2> QED
    BY <2>1, <2>2 DEF Joins, Started
<1>5. ASSUME NEW c \in Threads, InStop(c) PROVE Joins'
  <2>1. UNCHANGED <<mainPc, spawned, worker>>
    BY <1>5 DEF InStop
  <2>2. \A i \in joined' : i \in joined \/ worker[i] = "finished"
    BY <1>5 DEF InStop, StopPool, StopReturns, JoinNext
  <2> QED
    BY <2>1, <2>2 DEF Joins, Started
<1>6. ASSUME NEW i \in Pool, Accept(i) \/ Erase(i) \/ Arm(i) PROVE Joins'
  BY <1>6 DEF Accept, Erase, Arm, stopVars, Joins, Started
<1>7. ASSUME NEW i \in Pool,
             \/ HandlerBegins(i) \/ WorkerStarts(i) \/ WorkerFinishes(i)
             \/ \E closes \in BOOLEAN : HandlerEnds(i, closes)
      PROVE  Joins'
  <2>1. UNCHANGED <<mainPc, spawned, joined>>
    BY <1>7 DEF HandlerBegins, WorkerStarts, WorkerFinishes, HandlerEnds, stopVars
  <2>2. worker[i] # "finished" /\ \A j \in Pool \ {i} : worker'[j] = worker[j]
    BY <1>7 DEF HandlerBegins, WorkerStarts, WorkerFinishes, HandlerEnds, Ready, Typed
  <2>3. joined \subseteq Pool
    BY DEF Typed
  <2> QED
    BY <2>1, <2>2, <2>3 DEF Joins, Started
<1> QED
  BY <1>1, <1>2, <1>3, <1>4, <1>5, <1>6, <1>7 DEF Next, MainStep, PoolStep

LEMMA SessionsStep == ASSUME Typed, Joins, Sessions, Next PROVE Sessions'
<1>1. CASE Run
  <2>1. /\ worker' = [worker EXCEPT ![spawned + 1] = "starting"]
        /\ UNCHANGED <<mainPc, session, erases, inMap>>
    BY <1>1 DEF Run, sessVars
  <2>2. \A i \in Pool : worker'[i] = "finished" => worker[i] = "finished"
    BY <2>1 DEF Typed
  <2> QED
    BY <2>1, <2>2 DEF Sessions, Destroyed
<1>2. CASE Start \/ RunMain \/ SignalHandled \/ StartReturns \/ DestroyReturns \/ OwnerStops \/ Signal
           \/ DestroyServer
  <2>1. UNCHANGED <<session, erases, inMap, worker>>
    BY <1>2 DEF Start, RunMain, SignalHandled, StartReturns, DestroyReturns, OwnerStops, Signal,
                DestroyServer, sessVars
  <2>2. Destroyed => Destroyed'
    BY <1>2 DEF Start, RunMain, SignalHandled, StartReturns, DestroyReturns, OwnerStops, Signal,
                InHandler, DestroyServer, Destroyed
  <2> QED
    BY <2>1, <2>2 DEF Sessions
<1>3. CASE Destroy
  BY <1>3 DEF Destroy, Destroyed, Sessions
<1>4. ASSUME NEW c \in Callers, StopElsewhere(c) PROVE Sessions'
  BY <1>4 DEF StopElsewhere, sessVars, Sessions, Destroyed
<1>5. ASSUME NEW c \in Threads, InStop(c) PROVE Sessions'
  BY <1>5 DEF InStop, sessVars, Sessions, Destroyed
<1>6. ASSUME NEW i \in Pool, Accept(i) PROVE Sessions'
  <2>1. /\ session' = [session EXCEPT ![i] = "posted"] /\ session[i] = "none"
        /\ inMap' = inMap \cup {i} /\ UNCHANGED <<erases, mainPc, worker>>
    BY <1>6 DEF Accept
  <2> QED
    BY <2>1 DEF Sessions, Destroyed, Typed
<1>7. ASSUME NEW i \in Pool, Erase(i) PROVE Sessions'
  <2>1. /\ i \in erases /\ erases' = erases \ {i} /\ inMap' = inMap \ {i}
        /\ UNCHANGED <<session, mainPc, worker>>
    BY <1>7 DEF Erase
  <2> QED
    BY <2>1 DEF Sessions, Destroyed
<1>8. ASSUME NEW i \in Pool, Arm(i) PROVE Sessions'
  <2>1. /\ session' = [session EXCEPT ![i] = "armed"] /\ session[i] = "posted"
        /\ worker[i] = "run" /\ UNCHANGED <<erases, inMap, mainPc, worker>>
    BY <1>8 DEF Arm, Ready
  <2>2. \A j \in erases : j # i /\ j \in Pool
    BY <2>1 DEF Sessions, Typed
  <2>3. session'[i] = "armed" /\ \A j \in Pool \ {i} : session'[j] = session[j]
    BY <2>1 DEF Typed
  <2>4. \A j \in erases' : session'[j] = "closed"
    BY <2>1, <2>2, <2>3 DEF Sessions
  <2>5. i \in inMap \/ Destroyed
    BY <1>8, <2>1 DEF Sessions
  <2> QED
    BY <2>1, <2>3, <2>4, <2>5 DEF Sessions, Destroyed
<1>9. ASSUME NEW i \in Pool, HandlerBegins(i) \/ WorkerStarts(i) PROVE Sessions'
  BY <1>9 DEF HandlerBegins, WorkerStarts, sessVars, Sessions, Destroyed, Typed
<1>10. ASSUME NEW i \in Pool, NEW closes \in BOOLEAN, HandlerEnds(i, closes) PROVE Sessions'
  <2>1. /\ worker' = [worker EXCEPT ![i] = "run"] /\ UNCHANGED <<inMap, mainPc>>
        /\ \/ session' = [session EXCEPT ![i] = "closed"] /\ erases' = erases \cup {i}
           \/ UNCHANGED <<session, erases>>
    BY <1>10 DEF HandlerEnds
  <2>2. worker'[i] = "run" /\ \A j \in Pool \ {i} : worker'[j] = worker[j]
    BY <2>1 DEF Typed
  <2>3. CASE session' = [session EXCEPT ![i] = "closed"] /\ erases' = erases \cup {i}
    <3>1. session'[i] = "closed" /\ \A j \in Pool \ {i} : session'[j] = session[j]
      BY <2>3 DEF Typed
    <3>2. erases \subseteq Pool
      BY DEF Typed
    <3> QED
      BY <2>1, <2>2, <2>3, <3>1, <3>2 DEF Sessions, Destroyed
  <2>4. CASE UNCHANGED <<session, erases>>
    BY <2>1, <2>2, <2>4 DEF Sessions, Destroyed
  <2> QED
    BY <2>1, <2>3, <2>4
<1>11. ASSUME NEW i \in Pool, WorkerFinishes(i) PROVE Sessions'
  <2>1. /\ worker' = [worker EXCEPT ![i] = "finished"] /\ UNCHANGED <<inMap, mainPc>>
        /\ \/ session' = [session EXCEPT ![i] = "closed"] /\ erases' = erases \cup {i}
           \/ UNCHANGED <<session, erases>> /\ ~ (session[i] = "armed" /\ i \in inMap)
    BY <1>11 DEF WorkerFinishes
  <2>2. worker'[i] = "finished" /\ \A j \in Pool \ {i} : worker'[j] = worker[j]
    BY <2>1 DEF Typed
  <2>3. CASE session' = [session EXCEPT ![i] = "closed"] /\ erases' = erases \cup {i}
    <3>1. session'[i] = "closed" /\ \A j \in Pool \ {i} : session'[j] = session[j]
      BY <2>3 DEF Typed
    <3>2. erases \subseteq Pool
      BY DEF Typed
    <3> QED
      BY <2>1, <2>2, <2>3, <3>1, <3>2 DEF Sessions, Destroyed
  <2>4. CASE UNCHANGED <<session, erases>> /\ ~ (session[i] = "armed" /\ i \in inMap)
    BY <2>1, <2>2, <2>4 DEF Sessions, Destroyed
  <2> QED
    BY <2>1, <2>3, <2>4
<1> QED
  BY <1>1, <1>2, <1>3, <1>4, <1>5, <1>6, <1>7, <1>8, <1>9, <1>10, <1>11 DEF Next, MainStep, PoolStep

-----------------------------------------------------------------------------
\* Stop was called on another thread once it was.
LEMMA ForeignStays == ASSUME Typed, Next, foreign PROVE foreign'
<1>1. CASE Start \/ Run \/ RunMain \/ SignalHandled \/ StartReturns \/ DestroyReturns
           \/ OwnerStops \/ Destroy
  BY <1>1 DEF Start, Run, RunMain, SignalHandled, StartReturns, DestroyReturns, OwnerStops,
              Destroy, stopVars
<1>2. ASSUME NEW c \in Threads, CallStop(c) PROVE foreign'
  <2>1. CASE isStop
    BY <1>2, <2>1, CallStopCases DEF stopVars
  <2>2. CASE ~isStop
    BY <1>2, <2>2, CallStopCases
  <2> QED
    BY <2>1, <2>2
<1>3. CASE Signal \/ DestroyServer
  <2>1. CallStop(Main) /\ Main \in Threads
    BY <1>3 DEF Signal, DestroyServer
  <2> QED
    BY <1>2, <2>1
<1>4. ASSUME NEW c \in Callers, StopElsewhere(c) PROVE foreign'
  BY <1>2, <1>4 DEF StopElsewhere
<1>5. ASSUME NEW c \in Threads, InStop(c) PROVE foreign'
  BY <1>5 DEF InStop, StopPool, JoinNext, StopReturns
<1>6. ASSUME NEW i \in Pool, Accept(i) \/ Erase(i) \/ HandlerBegins(i) \/ PoolStep(i) PROVE foreign'
  BY <1>6 DEF Accept, Erase, HandlerBegins, PoolStep, WorkerStarts, Arm, HandlerEnds,
              WorkerFinishes, stopVars
<1> QED
  BY <1>1, <1>3, <1>4, <1>5, <1>6 DEF Next, MainStep

\* Orderly is about these variables only.
LEMMA OrderlyKept ==
    ASSUME Orderly, UNCHANGED <<stopVars, mainPc, ownerStopped, stray>> PROVE Orderly'
  BY DEF Orderly, OneStopper, JoinedSoFar, StopFirst, Started, Ended, stopVars

\* A call of Stop by the main thread, from the signal handler or the destructor.
LEMMA CallOrderly ==
    ASSUME Typed, Joins, Orderly, CallStop(Main), UNCHANGED <<ownerStopped, stray>>,
           \/ mainPc = "run" /\ mainPc' = (IF isStop THEN "run" ELSE "stop")
           \/ mainPc = "clearing" /\ mainPc' = "destroying"
    PROVE  Orderly'
<1>1. Main \in Threads
  OBVIOUS
<1>2. stage[Main] = "out" /\ UNCHANGED <<isStop, poolStopped, joined, next, broken>>
  BY <1>1, CallStopCases, CallStopTypes
<1>3. CASE isStop
  <2>1. UNCHANGED stopVars
    BY <1>1, <1>3, CallStopCases
  <2> QED
    BY <1>2, <1>3, <2>1 DEF Orderly, OneStopper, JoinedSoFar, StopFirst, Started, Ended, stopVars
<1>4. CASE ~isStop
  <2>1. /\ mainStopped' = TRUE /\ stage'[Main] = "stopping"
        /\ \A d \in Threads \ {Main} : stage'[d] = stage[d]
    BY <1>1, <1>4, CallStopCases
  <2>2. mainPc' \in {"stop", "destroying"} /\ Started' /\ Started
    BY <1>4 DEF Started
  <2>3. OneStopper'
    BY <1>2, <1>4, <2>1, <2>2 DEF Orderly, OneStopper
  <2>4. JoinedSoFar'
    BY <1>2, <1>4, <2>1, <2>2 DEF Orderly, JoinedSoFar
  <2>5. StopFirst'
    BY <1>2, <1>4, <2>1, <2>2 DEF Orderly, StopFirst, Started, Ended
  <2> QED
    BY <1>2, <2>3, <2>4, <2>5 DEF Orderly
<1> QED
  BY <1>3, <1>4

\* A step inside Stop: no join fails, and when the loop ends all threads are joined.
LEMMA InStopOrderly ==
    ASSUME Typed, Joins, Orderly, NEW c \in Threads, InStop(c) PROVE Orderly'
<1>1. UNCHANGED <<mainPc, spawned, worker, ownerStopped, stray>>
  BY DEF InStop
<1>2. stage[c] # "out" /\ UNCHANGED <<mainStopped, foreign>>
  BY DEF InStop, StopPool, JoinNext, StopReturns
<1>3. c = Main
  BY <1>2 DEF Orderly, OneStopper
<1>4. /\ mainPc \in {"stop", "destroying"} /\ ~isStop /\ spawned = Size /\ Main \in Threads
      /\ Started /\ ~broken /\ next[Main] \in 1 .. Size + 1
  BY <1>2, <1>3 DEF Orderly, OneStopper, Joins, Started, Typed
<1>5. CASE StopPool(Main)
  <2>1. /\ stage[Main] = "stopping" /\ UNCHANGED <<isStop, joined, broken>>
        /\ stage'[Main] = "joining" /\ next'[Main] = 1
        /\ \A d \in Threads \ {Main} : stage'[d] = stage[d]
    BY <1>4, <1>5 DEF StopPool, Typed
  <2>2. joined = {}
    BY <1>4, <2>1 DEF Orderly, JoinedSoFar
  <2>3. OneStopper'
    BY <1>1, <1>4, <2>1 DEF Orderly, OneStopper
  <2>4. JoinedSoFar'
    BY <1>1, <1>4, <2>1, <2>2 DEF JoinedSoFar
  <2>5. StopFirst'
    BY <1>1, <1>2, <1>4, <2>1 DEF Orderly, StopFirst, Started, Ended
  <2> QED
    BY <1>4, <2>1, <2>3, <2>4, <2>5 DEF Orderly
<1>6. CASE JoinNext(Main)
  <2>1. /\ stage[Main] = "joining" /\ next[Main] \in Pool /\ UNCHANGED <<isStop, stage>>
    BY <1>6 DEF JoinNext
  <2>2. joined = 1 .. next[Main] - 1
    BY <2>1 DEF Orderly, JoinedSoFar
  <2>3. ~CannotJoin(Main)
    <3>1. next[Main] <= spawned /\ next[Main] \notin joined
      BY <1>4, <2>1, <2>2
    <3>2. next[Main] # Main
      BY <2>1
    <3>3. \A d \in Threads \ {Main} : stage[d] = "out"
      BY DEF Orderly, OneStopper
    <3> QED
      BY <1>4, <2>1, <3>1, <3>2, <3>3 DEF CannotJoin
  <2>4. joined' = joined \cup {next[Main]} /\ next'[Main] = next[Main] + 1 /\ UNCHANGED broken
    BY <1>4, <1>6, <2>3 DEF JoinNext, Typed
  <2>5. joined' = 1 .. next'[Main] - 1
    BY <2>1, <2>2, <2>4
  <2>6. OneStopper'
    BY <1>1, <2>1 DEF Orderly, OneStopper
  <2>7. JoinedSoFar'
    BY <1>1, <1>4, <2>1, <2>5 DEF JoinedSoFar
  <2>8. StopFirst'
    BY <1>1, <1>2, <2>1 DEF Orderly, StopFirst, Started, Ended
  <2> QED
    BY <1>4, <2>4, <2>6, <2>7, <2>8 DEF Orderly
<1>7. CASE StopReturns(Main)
  <2>1. /\ stage[Main] = "joining" /\ next[Main] > Size /\ isStop' = TRUE
        /\ stage'[Main] = "out" /\ UNCHANGED <<joined, broken>>
        /\ \A d \in Threads \ {Main} : stage'[d] = stage[d]
    BY <1>4, <1>7 DEF StopReturns, Typed
  <2>2. joined = Pool
    BY <1>4, <2>1 DEF Orderly, JoinedSoFar
  <2>3. OneStopper'
    BY <1>1, <1>4, <2>1 DEF Orderly, OneStopper
  <2>4. JoinedSoFar'
    BY <1>1, <1>4, <2>1, <2>2 DEF JoinedSoFar
  <2>5. StopFirst'
    BY <1>1, <1>2, <1>4, <2>1 DEF Orderly, StopFirst, Started, Ended
  <2> QED
    BY <1>4, <2>1, <2>3, <2>4, <2>5 DEF Orderly
<1> QED
  BY <1>3, <1>5, <1>6, <1>7 DEF InStop

\* A handler that ends on a pool thread: the server is still there, or its owner
\* stopped main_ioct_ without Stop.
LEMMA HandlerOrderly ==
    ASSUME Typed, Joins, Orderly, NEW i \in Pool, NEW closes \in BOOLEAN, HandlerEnds(i, closes)
    PROVE  Orderly'
<1>1. /\ worker[i] = "handling" /\ stray' = (stray \/ Destroyed)
      /\ UNCHANGED <<stopVars, mainPc, ownerStopped>>
  BY DEF HandlerEnds
<1>2. Destroyed => ownerStopped
  <2>1. i \notin joined
    BY <1>1 DEF Joins
  <2>2. Destroyed => Ended /\ mainPc # "new"
    BY DEF Destroyed, Ended
  <2> QED
    BY <2>1, <2>2 DEF Orderly, JoinedSoFar, StopFirst
<1>3. stray' => ownerStopped
  BY <1>1, <1>2 DEF Orderly, StopFirst
<1> QED
  BY <1>1, <1>3 DEF Orderly, OneStopper, JoinedSoFar, StopFirst, Started, Ended, stopVars

LEMMA OrderlyStep == ASSUME Typed, Joins, Orderly, Next, ~foreign' PROVE Orderly'
<1>1. CASE Start
  <2>1. /\ mainPc = "new" /\ mainPc' = "starting" /\ isStop' = FALSE
        /\ UNCHANGED <<mainStopped, joined, stage, next, broken, ownerStopped, stray>>
    BY <1>1 DEF Start
  <2>2. stage[Main] = "out" /\ joined = {}
    BY <2>1, Main \in Threads DEF Orderly, OneStopper, JoinedSoFar, Typed
  <2> QED
    BY <2>1, <2>2 DEF Orderly, OneStopper, JoinedSoFar, StopFirst, Started, Ended
<1>2. CASE Run
  BY <1>2, OrderlyKept DEF Run
<1>3. CASE RunMain
  BY <1>3 DEF RunMain, stopVars, Orderly, OneStopper, JoinedSoFar, StopFirst, Started, Ended
<1>4. CASE SignalHandled
  BY <1>4 DEF SignalHandled, stopVars, Orderly, OneStopper, JoinedSoFar, StopFirst, Started, Ended
<1>5. CASE StartReturns
  <2>1. /\ mainPc = "run" /\ mainStopped /\ mainPc' = "returned"
        /\ UNCHANGED <<stopVars, ownerStopped, stray>>
    BY <1>5 DEF StartReturns
  <2>2. stage[Main] = "out"
    BY <2>1 DEF Orderly, OneStopper
  <2> QED
    BY <2>1, <2>2 DEF stopVars, Orderly, OneStopper, JoinedSoFar, StopFirst, Started, Ended
<1>6. CASE Destroy
  BY <1>6 DEF Destroy, stopVars, Orderly, OneStopper, JoinedSoFar, StopFirst, Started, Ended
<1>7. CASE DestroyReturns
  BY <1>7 DEF DestroyReturns, stopVars, Orderly, OneStopper, JoinedSoFar, StopFirst, Started, Ended
<1>8. CASE OwnerStops
  BY <1>8 DEF OwnerStops, InHandler, Orderly, OneStopper, JoinedSoFar, StopFirst, Started, Ended
<1>9. CASE Signal
  BY <1>9, CallOrderly DEF Signal, InHandler
<1>10. CASE DestroyServer
  BY <1>10, CallOrderly DEF DestroyServer
<1>11. ASSUME NEW i \in Pool,
              \/ Accept(i) \/ Erase(i) \/ HandlerBegins(i) \/ WorkerStarts(i) \/ Arm(i)
              \/ WorkerFinishes(i)
       PROVE  Orderly'
  <2>1. UNCHANGED <<stopVars, mainPc, ownerStopped, stray>>
    BY <1>11 DEF Accept, Erase, HandlerBegins, WorkerStarts, Arm, WorkerFinishes
  <2> QED
    BY <2>1, OrderlyKept
<1>12. ASSUME NEW i \in Pool, NEW closes \in BOOLEAN, HandlerEnds(i, closes) PROVE Orderly'
  BY <1>12, HandlerOrderly
<1>13. ASSUME NEW c \in Threads, InStop(c) PROVE Orderly'
  BY <1>13, InStopOrderly
<1>14. ASSUME NEW c \in Callers, StopElsewhere(c) PROVE Orderly'
  <2>1. /\ CallStop(c) /\ c \in Threads /\ c # Main
        /\ UNCHANGED <<mainPc, ownerStopped, stray>>
    BY <1>14 DEF StopElsewhere
  <2>2. isStop
    BY <2>1, CallStopCases
  <2>3. UNCHANGED stopVars
    BY <2>1, <2>2, CallStopCases
  <2> QED
    BY <2>1, <2>3, OrderlyKept
<1> QED
  BY <1>1, <1>2, <1>3, <1>4, <1>5, <1>6, <1>7, <1>8, <1>9, <1>10, <1>11, <1>12, <1>13, <1>14
     DEF Next, MainStep, PoolStep

-----------------------------------------------------------------------------
LEMMA InitIInv == Init => IInv
<1> SUFFICES ASSUME Init PROVE IInv
  OBVIOUS
<1>1. Typed
  <2>1. /\ isStop \in BOOLEAN /\ mainStopped \in BOOLEAN /\ foreign \in BOOLEAN
        /\ ownerStopped \in BOOLEAN /\ stray \in BOOLEAN /\ broken \in BOOLEAN
    BY Zenon DEF Init
  <2>2. /\ worker \in [Pool -> {"none", "starting", "run", "handling", "finished"}]
        /\ stage \in [Threads -> {"out", "stopping", "joining"}]
        /\ next \in [Threads -> 1 .. Size + 1]
        /\ session \in [Pool -> {"none", "posted", "armed", "closed"}]
    BY DEF Init
  <2> QED
    BY <2>1, <2>2 DEF Init, Typed
<1>2. Joins /\ Sessions
  BY DEF Init, Joins, Sessions, Started
<1>3. Orderly
  BY DEF Init, Orderly, OneStopper, JoinedSoFar, StopFirst, Started, Ended
<1> QED
  BY <1>1, <1>2, <1>3, TypedIsTypeOK DEF IInv

LEMMA NextIInv == IInv /\ [Next]_vars => IInv'
<1> SUFFICES ASSUME IInv, [Next]_vars PROVE IInv'
  OBVIOUS
<1>1. Typed
  BY TypedIsTypeOK DEF IInv
<1>2. CASE Next
  <2>1. Typed'
    BY <1>1, <1>2, InStopTypes, MainTypes, PoolTypes, ElsewhereTypes DEF Next, MainStep, PoolStep
  <2>2. Joins' /\ Sessions'
    BY <1>1, <1>2, JoinsStep, SessionsStep DEF IInv
  <2>3. ASSUME ~foreign' PROVE Orderly'
    BY <1>1, <1>2, <2>3, ForeignStays, OrderlyStep DEF IInv
  <2>4. TypeOK'
    BY <2>1, TypedIsTypeOK, PTL
  <2> QED
    BY <2>2, <2>3, <2>4 DEF IInv
<1>3. CASE UNCHANGED vars
  BY <1>3 DEF vars, stopVars, sessVars, IInv, TypeOK, Joins, Sessions, Orderly, OneStopper,
              JoinedSoFar, StopFirst, Started, Ended, Destroyed
<1> QED
  BY <1>2, <1>3

\* The variables keep their types.
THEOREM TypeCorrect == Spec => []TypeOK
<1>1. IInv => TypeOK
  BY DEF IInv
<1> QED
  BY <1>1, InitIInv, NextIInv, PTL DEF Spec

\* As long as Stop runs on the main thread only, in the signal handler and the
\* destructor, no join of IoContextPool::Stop fails.
THEOREM JoinsSucceed == Spec => []JoinsFail
<1>1. IInv => JoinsFail
  BY DEF IInv, JoinsFail, Orderly
<1> QED
  BY <1>1, InitIInv, NextIInv, PTL DEF Spec

\* No handler uses the server after its members, if Stop runs on the main thread
\* only and the owner does not stop main_ioct_ without it.
THEOREM HandlersFirst == Spec => []ServerOutlivesHandlers
<1>1. IInv => ServerOutlivesHandlers
  BY DEF IInv, ServerOutlivesHandlers, Orderly, StopFirst
<1> QED
  BY <1>1, InitIInv, NextIInv, PTL DEF Spec

\* After a signal Start returns with every thread joined and no session armed, and
\* the destructor returns with every thread joined.
THEOREM AllJoined == Spec => []Quiescent
<1>1. IInv => Quiescent
  <2>1. ASSUME IInv, mainPc = "returned", ~foreign, ~ownerStopped
        PROVE  joined = Pool /\ \A i \in Pool : session[i] # "armed"
    <3>1. isStop
      BY <2>1 DEF IInv, Orderly, StopFirst, Ended
    <3>2. joined = Pool
      BY <2>1, <3>1 DEF IInv, Orderly, JoinedSoFar
    <3> QED
      BY <2>1, <3>2 DEF IInv, Joins, Sessions, Destroyed
  <2>2. ASSUME IInv, mainPc = "gone", ~foreign PROVE joined = Pool
    <3>1. stage[Main] = "out"
      BY <2>2, Main \in Threads DEF IInv, Orderly, OneStopper
    <3> QED
      BY <2>2, <3>1 DEF IInv, Orderly, OneStopper, JoinedSoFar
  <2> QED
    BY <2>1, <2>2 DEF Quiescent
<1> QED
  BY <1>1, InitIInv, NextIInv, PTL DEF Spec
=============================================================================

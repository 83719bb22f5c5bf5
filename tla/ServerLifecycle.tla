-------------------------- MODULE ServerLifecycle --------------------------
(***************************************************************************)
(* Start and Stop: Server and IoContextPool of src/src/net/tcp_server.cpp  *)
(* and io_context_pool.cpp, with the thread_local timer manager of each    *)
(* pool thread and the owner of the server, who runs Start on the main     *)
(* thread and destroys the server when it returns.                         *)
(*                                                                         *)
(* Stop may be called by the signal handler on the main thread, by the     *)
(* destructor, and by the threads of Callers: another thread or a service  *)
(* running in a handler of a pool thread.  Start is called once.  Each     *)
(* pool thread serves at most one session: who runs when is what matters.  *)
(***************************************************************************)
EXTENDS Naturals

CONSTANTS
    Size,     \* ioct_pool_.size()
    Main,     \* the thread that runs Start
    Callers   \* other threads that may call Stop, each once

Pool == 1 .. Size
Threads == {Main} \cup Callers \cup Pool

ASSUME LifecycleAssumption == Size \in Nat \ {0} /\ Main \notin Callers \cup Pool

VARIABLES
    isStop,       \* is_stop_
    mainStopped,  \* main_ioct_ is stopped
    poolStopped,  \* the io_contexts of the pool that are stopped
    mainPc,       \* new, starting, run, stop, returned, clearing, destroying or gone
    spawned,      \* threads_.size()
    worker,       \* each pool thread: none, starting, run, handling or finished
    joined,       \* threads of the pool that were joined
    stage,        \* where each thread is in Stop: out, stopping or joining
    next,         \* index of its loop over threads_
    session,      \* of each pool thread: none, posted (its event is to come), armed or closed
    inMap,        \* sessions of session_map_
    erases,       \* erases posted to main_ioct_
    called,       \* history: threads of Callers that have called Stop
    foreign,      \* history: Stop did something on a thread other than Main
    ownerStopped, \* history: the owner stopped main_ioct_ without Stop
    stray,        \* history: a handler used the server after its members were gone
    broken        \* a join failed: the exception ends the process

stopVars == <<isStop, mainStopped, poolStopped, joined, stage, next, foreign, broken>>
sessVars == <<session, inMap, erases>>
vars == <<stopVars, sessVars, mainPc, spawned, worker, called, ownerStopped, stray>>

Destroyed == mainPc \in {"clearing", "destroying", "gone"}

-----------------------------------------------------------------------------
(***************************************************************************)
(* Stop, on the thread c.                                                  *)
(***************************************************************************)
\* The test of is_stop_, and main_ioct_.stop().
CallStop(c) ==
    /\ stage[c] = "out"
    /\ IF isStop
       THEN UNCHANGED stopVars
       ELSE /\ mainStopped' = TRUE
            /\ stage' = [stage EXCEPT ![c] = "stopping"]
            /\ foreign' = (foreign \/ c # Main)
            /\ UNCHANGED <<isStop, poolStopped, joined, next, broken>>

\* Mutant: the io_contexts of the pool are not stopped.
JoinOnly(c) ==
    /\ stage[c] = "stopping"
    /\ stage' = [stage EXCEPT ![c] = "joining"]
    /\ next' = [next EXCEPT ![c] = 1]
    /\ UNCHANGED <<isStop, mainStopped, poolStopped, joined, foreign, broken>>

\* The first loop of IoContextPool::Stop.
StopPool(c) ==
    /\ stage[c] = "stopping"
    /\ poolStopped' = Pool
    /\ stage' = [stage EXCEPT ![c] = "joining"]
    /\ next' = [next EXCEPT ![c] = 1]
    /\ UNCHANGED <<isStop, mainStopped, joined, foreign, broken>>

\* A thread that is not there, is joined already or elsewhere, or is the caller.
CannotJoin(c) ==
    \/ next[c] > spawned
    \/ next[c] \in joined
    \/ next[c] = c
    \/ \E d \in Threads \ {c} : stage[d] = "joining" /\ next[d] = next[c]

\* Mutant: the threads are detached.
DetachNext(c) ==
    /\ stage[c] = "joining" /\ next[c] \in Pool
    /\ IF CannotJoin(c)
       THEN broken' = TRUE /\ UNCHANGED <<joined, next>>
       ELSE /\ joined' = joined \cup {next[c]}
            /\ next' = [next EXCEPT ![c] = @ + 1]
            /\ UNCHANGED broken
    /\ UNCHANGED <<isStop, mainStopped, poolStopped, stage, foreign>>

\* The second loop: join waits for the thread.
JoinNext(c) ==
    /\ stage[c] = "joining" /\ next[c] \in Pool
    /\ IF CannotJoin(c)
       THEN broken' = TRUE /\ UNCHANGED <<joined, next>>
       ELSE /\ worker[next[c]] = "finished"
            /\ joined' = joined \cup {next[c]}
            /\ next' = [next EXCEPT ![c] = @ + 1]
            /\ UNCHANGED broken
    /\ UNCHANGED <<isStop, mainStopped, poolStopped, stage, foreign>>

\* Mutant: is_stop_ is not set.
StopForgets(c) ==
    /\ stage[c] = "joining" /\ next[c] > Size
    /\ stage' = [stage EXCEPT ![c] = "out"]
    /\ UNCHANGED <<isStop, mainStopped, poolStopped, joined, next, foreign, broken>>

\* is_stop_ is set when everything else is done.
StopReturns(c) ==
    /\ stage[c] = "joining" /\ next[c] > Size
    /\ isStop' = TRUE
    /\ stage' = [stage EXCEPT ![c] = "out"]
    /\ UNCHANGED <<mainStopped, poolStopped, joined, next, foreign, broken>>

InStop(c) ==
    /\ StopPool(c) \/ JoinNext(c) \/ StopReturns(c)
    /\ UNCHANGED <<sessVars, mainPc, spawned, worker, called, ownerStopped, stray>>

-----------------------------------------------------------------------------
(***************************************************************************)
(* The main thread.                                                        *)
(***************************************************************************)
\* Server::Start up to IoContextPool::Run.
Start ==
    /\ mainPc = "new"
    /\ mainPc' = "starting"
    /\ isStop' = FALSE
    /\ UNCHANGED <<mainStopped, poolStopped, joined, stage, next, foreign, broken, sessVars,
                   spawned, worker, called, ownerStopped, stray>>

\* Mutant: the loop runs once too often.
RunOnceMore ==
    /\ mainPc = "starting" /\ spawned <= Size
    /\ spawned' = spawned + 1
    /\ worker' = [worker EXCEPT ![spawned + 1] = "starting"]
    /\ UNCHANGED <<stopVars, sessVars, mainPc, called, ownerStopped, stray>>

\* One round of the loop of IoContextPool::Run.
Run ==
    /\ mainPc = "starting" /\ spawned < Size
    /\ spawned' = spawned + 1
    /\ worker' = [worker EXCEPT ![spawned + 1] = "starting"]
    /\ UNCHANGED <<stopVars, sessVars, mainPc, called, ownerStopped, stray>>

\* main_ioct_.run() is entered.
RunMain ==
    /\ mainPc = "starting" /\ spawned = Size
    /\ mainPc' = "run"
    /\ UNCHANGED <<stopVars, sessVars, spawned, worker, called, ownerStopped, stray>>

InHandler == mainPc = "run" /\ ~mainStopped

\* A connection is accepted for the io_context of a pool thread.
Accept(i) ==
    /\ InHandler
    /\ session[i] = "none"
    /\ session' = [session EXCEPT ![i] = "posted"]
    /\ inMap' = inMap \cup {i}
    /\ UNCHANGED <<stopVars, erases, mainPc, spawned, worker, called, ownerStopped, stray>>

\* An erase that OnSessionClose has posted.
Erase(i) ==
    /\ InHandler
    /\ i \in erases
    /\ erases' = erases \ {i}
    /\ inMap' = inMap \ {i}
    /\ UNCHANGED <<stopVars, session, mainPc, spawned, worker, called, ownerStopped, stray>>

\* DoAwaitStop's handler calls Stop; main_ioct_.run() goes on after it.
Signal ==
    /\ InHandler
    /\ CallStop(Main)
    /\ mainPc' = IF isStop THEN "run" ELSE "stop"
    /\ UNCHANGED <<sessVars, spawned, worker, called, ownerStopped, stray>>

SignalHandled ==
    /\ mainPc = "stop" /\ stage[Main] = "out"
    /\ mainPc' = "run"
    /\ UNCHANGED <<stopVars, sessVars, spawned, worker, called, ownerStopped, stray>>

\* main_ioct_ belongs to the owner, who may stop it as well.
OwnerStops ==
    /\ InHandler
    /\ mainStopped' = TRUE
    /\ ownerStopped' = TRUE
    /\ UNCHANGED <<isStop, poolStopped, joined, stage, next, foreign, broken, sessVars, mainPc,
                   spawned, worker, called, stray>>

\* A stopped main_ioct_.run() returns, and Start with it.
StartReturns ==
    /\ mainPc = "run" /\ mainStopped
    /\ mainPc' = "returned"
    /\ UNCHANGED <<stopVars, sessVars, spawned, worker, called, ownerStopped, stray>>

\* ~PbServer: session_map_ and dispatcher_ go first.
Destroy ==
    /\ mainPc = "returned"
    /\ mainPc' = "clearing"
    /\ inMap' = {}
    /\ UNCHANGED <<stopVars, session, erases, spawned, worker, called, ownerStopped, stray>>

\* Mutant: ~Server does not call Stop.
DestroyOnly ==
    /\ mainPc = "clearing"
    /\ mainPc' = "destroying"
    /\ UNCHANGED <<stopVars, sessVars, spawned, worker, called, ownerStopped, stray>>

\* Then ~Server calls Stop.
DestroyServer ==
    /\ mainPc = "clearing"
    /\ mainPc' = "destroying"
    /\ CallStop(Main)
    /\ UNCHANGED <<sessVars, spawned, worker, called, ownerStopped, stray>>

DestroyReturns ==
    /\ mainPc = "destroying" /\ stage[Main] = "out"
    /\ mainPc' = "gone"
    /\ UNCHANGED <<stopVars, sessVars, spawned, worker, called, ownerStopped, stray>>

-----------------------------------------------------------------------------
(***************************************************************************)
(* The pool threads and the other callers of Stop.                         *)
(***************************************************************************)
\* InitLocalTimerManager, ioct_map_, then run().
WorkerStarts(i) ==
    /\ worker[i] = "starting"
    /\ worker' = [worker EXCEPT ![i] = "run"]
    /\ UNCHANGED <<stopVars, sessVars, mainPc, spawned, called, ownerStopped, stray>>

Ready(i) == worker[i] = "run" /\ i \notin poolStopped

\* The lambda of PostTimerEvent.
Arm(i) ==
    /\ Ready(i)
    /\ session[i] = "posted"
    /\ session' = [session EXCEPT ![i] = "armed"]
    /\ UNCHANGED <<stopVars, inMap, erases, mainPc, spawned, worker, called, ownerStopped, stray>>

\* A handler of a session that is still there, which it keeps alive.
HandlerBegins(i) ==
    /\ Ready(i)
    /\ session[i] = "armed" /\ i \in inMap
    /\ worker' = [worker EXCEPT ![i] = "handling"]
    /\ UNCHANGED <<stopVars, sessVars, mainPc, spawned, called, ownerStopped, stray>>

\* It ends with Dispatch and a response, or closes the session and posts its
\* erase: either way it uses the server.
HandlerEnds(i, closes) ==
    /\ worker[i] = "handling" /\ stage[i] = "out"
    /\ worker' = [worker EXCEPT ![i] = "run"]
    /\ stray' = (stray \/ Destroyed)
    /\ session' = IF closes THEN [session EXCEPT ![i] = "closed"] ELSE session
    /\ erases' = IF closes THEN erases \cup {i} ELSE erases
    /\ UNCHANGED <<stopVars, inMap, mainPc, spawned, called, ownerStopped>>

\* run() returns.  The thread_local manager goes with its wheel, and the events
\* of the wheel fire: they close the sessions that are still there.
WorkerFinishes(i) ==
    /\ worker[i] = "run" /\ i \in poolStopped
    /\ worker' = [worker EXCEPT ![i] = "finished"]
    /\ IF session[i] = "armed" /\ i \in inMap
       THEN /\ session' = [session EXCEPT ![i] = "closed"]
            /\ erases' = erases \cup {i}
       ELSE UNCHANGED <<session, erases>>
    /\ UNCHANGED <<stopVars, inMap, mainPc, spawned, called, ownerStopped, stray>>

\* PbServer::Stop called elsewhere: by a service in its handler or another thread.
StopElsewhere(c) ==
    /\ c \in Callers \ called
    /\ c \in Pool => worker[c] = "handling"
    /\ ~Destroyed
    /\ called' = called \cup {c}
    /\ CallStop(c)
    /\ UNCHANGED <<sessVars, mainPc, spawned, worker, ownerStopped, stray>>

-----------------------------------------------------------------------------
Init ==
    /\ isStop = TRUE /\ mainStopped = FALSE /\ poolStopped = {}
    /\ mainPc = "new" /\ spawned = 0 /\ joined = {}
    /\ worker = [i \in Pool |-> "none"]
    /\ stage = [c \in Threads |-> "out"] /\ next = [c \in Threads |-> 1]
    /\ session = [i \in Pool |-> "none"] /\ inMap = {} /\ erases = {}
    /\ called = {} /\ foreign = FALSE /\ ownerStopped = FALSE
    /\ stray = FALSE /\ broken = FALSE

MainStep ==
    \/ Start \/ Run \/ RunMain
    \/ SignalHandled \/ StartReturns \/ DestroyServer \/ DestroyReturns

PoolStep(i) ==
    \/ WorkerStarts(i)
    \/ Arm(i)
    \/ \E closes \in BOOLEAN : HandlerEnds(i, closes)
    \/ WorkerFinishes(i)

Next ==
    /\ ~broken
    /\ \/ MainStep
       \/ Signal \/ OwnerStops \/ Destroy
       \/ \E i \in Pool : Accept(i) \/ Erase(i) \/ HandlerBegins(i) \/ PoolStep(i)
       \/ \E c \in Threads : InStop(c)
       \/ \E c \in Callers : StopElsewhere(c)

\* Every thread runs; nobody has to call Stop, send a signal or a request.
Fairness ==
    /\ WF_vars(~broken /\ MainStep)
    /\ \A i \in Pool : WF_vars(~broken /\ PoolStep(i))
    /\ \A c \in Threads : WF_vars(~broken /\ InStop(c))

Spec == Init /\ [][Next]_vars /\ Fairness

-----------------------------------------------------------------------------
\* Type invariant.
TypeOK ==
    /\ {isStop, mainStopped, foreign, ownerStopped, stray, broken} \subseteq BOOLEAN
    /\ mainPc \in {"new", "starting", "run", "stop", "returned", "clearing",
                 "destroying", "gone"}
    /\ spawned \in 0 .. Size
    /\ worker \in [Pool -> {"none", "starting", "run", "handling", "finished"}]
    /\ poolStopped \subseteq Pool /\ joined \subseteq 1 .. spawned
    /\ stage \in [Threads -> {"out", "stopping", "joining"}]
    /\ next \in [Threads -> 1 .. Size + 1]
    /\ session \in [Pool -> {"none", "posted", "armed", "closed"}]
    /\ inMap \subseteq Pool /\ erases \subseteq Pool /\ called \subseteq Callers

\* The signal handler and the destructor never join a thread twice nor one that
\* is not there; a join fails only if Stop was called on another thread, as
\* is_stop_ is set at the end of Stop and tested by each caller before.
JoinsFail == broken => foreign

\* No handler of a pool thread uses the server after its members are gone, unless
\* Start returned before the pool was joined: Stop was called on another thread, or
\* main_ioct_ was stopped without it and only the destructor calls Stop.
ServerOutlivesHandlers == stray => foreign \/ ownerStopped

\* When Start returns after a signal every pool thread is joined and has closed its
\* armed sessions on its way out.  When the destructor returns every thread is
\* joined, or std::thread's destructor would end the process.
Quiescent ==
    /\ mainPc = "returned" /\ ~foreign /\ ~ownerStopped =>
          joined = Pool /\ \A i \in Pool : session[i] # "armed"
    /\ mainPc = "gone" /\ ~foreign => joined = Pool

\* Once main_ioct_ is stopped, whoever stopped it, Start returns, although Stop
\* waits for every pool thread and is called by the thread that runs main_ioct_.
StartEnds == mainStopped ~> (mainPc \in {"returned", "clearing", "destroying", "gone"} \/ broken)
=============================================================================

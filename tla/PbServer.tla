------------------------------ MODULE PbServer ------------------------------
(***************************************************************************)
(* The server: Acceptor, PbServer and PbSession of src/src/net, composed   *)
(* with what their parts promise - a connection that writes in order and   *)
(* closes once (AsyncConnection, OrderedWriter) and an idle timer          *)
(* (TimerWheel, IdleTimer).                                                *)
(*                                                                         *)
(* The main thread accepts connections and owns session_map_; the pool     *)
(* threads, one io_context each, own the sessions assigned to them.  Every *)
(* thread runs the handlers of its FIFO, mainQ or poolQ[t].                *)
(*                                                                         *)
(* A session is kept alive by session_map_, by the session_ptr of its      *)
(* accept callback until that returns and by the lambda of PostTimerEvent  *)
(* until it has run; every other callback holds it weakly, and the lambda  *)
(* of Start by a raw this.                                                 *)
(***************************************************************************)
EXTENDS Naturals, Sequences, FiniteSets, Functions

CONSTANTS
    Sessions,    \* PbSession objects, in no order
    Ids,         \* values of session_id_: hashes of the 4-tuple
    Threads,     \* number of io_contexts of the pool
    MaxRequests, \* bound: frames a client sends on a connection
    MaxFrames,   \* bound: frames that all of them send
    None

ASSUME ServerAssumption ==
    /\ IsFiniteSet(Sessions) /\ Threads \in Nat \ {0}
    /\ MaxRequests \in Nat /\ MaxFrames \in Nat
    /\ None \notin Sessions /\ Ids # {}

VARIABLES
    mainQ,      \* handlers of main_ioct_
    poolQ,      \* handlers of each io_context of the pool
    nextIoct,   \* next_ioct_idx_
    accepting,  \* the session whose accept callback the main thread is in, or None
    sessionMap, \* session_map_
    sid,        \* session_id_
    thread,     \* the io_context of the session's connection
    conn,       \* its connection: "none", "active" or "closed"
    rstate,     \* PbSession::state_
    reading,    \* what its outstanding read waits for: "none", "len" or "body"
    context,    \* context_ holds the TimerEventWeak
    timer,      \* its TimerEvent: "none", "armed", "expired" (due at the next tick)
    peer,       \* the client: "none", "up" or "down"
    frames,     \* frames the client has sent and the session has not read
    sent,       \* history: number of frames the client sent
    decoded,    \* history: number of requests dispatched
    unwritten,  \* responses accepted by AsyncWrite and not settled
    replied,    \* history: number of responses written
    erased,     \* history: pairs <<session that posted the erase, session erased>>
    homeless,   \* history: sessions whose emplace found the id taken
    broken,     \* history: sessions closed on a write error
    dangling,   \* history: sessions whose Start lambda ran after their destruction
    up          \* the process runs

sessVars == <<sid, thread>>
netVars == <<peer, frames, sent>>
histVars == <<erased, homeless, broken, dangling>>
vars == <<mainQ, poolQ, nextIoct, accepting, sessionMap, sessVars, conn, rstate, reading, context,
          timer, netVars, decoded, unwritten, replied, histVars, up>>

H(kind, s, ok) == [kind |-> kind, s |-> s, ok |-> ok]

Has(q, kind, s) == \E i \in DOMAIN q : q[i].kind = kind /\ q[i].s = s

\* The session's strong references other than that of a running handler.
Alive(s) ==
    /\ conn[s] # "none"
    /\ \/ sessionMap[sid[s]] = s
       \/ accepting = s
       \/ Has(poolQ[thread[s]], "arm", s)

PostTo(s, hs) == [poolQ EXCEPT ![thread[s]] = @ \o hs]

-----------------------------------------------------------------------------
(***************************************************************************)
(* The main thread.                                                        *)
(***************************************************************************)
\* GetIoContext hands the io_contexts of the pool out in turn.
NextIoct(i) == (i % Threads) + 1

\* async_accept takes a client; the acceptor has one of them outstanding at a
\* time.  The kernel keeps the 4-tuples of live connections distinct; that of a
\* client that is gone may be used again at once.
ClientConnects(s, i) ==
    /\ peer[s] = "none"
    /\ accepting = None /\ \A j \in DOMAIN mainQ : mainQ[j].kind # "accept"
    /\ \A o \in Sessions : peer[o] = "up" => sid[o] # i
    /\ peer' = [peer EXCEPT ![s] = "up"]
    /\ sid' = [sid EXCEPT ![s] = i]
    /\ thread' = [thread EXCEPT ![s] = nextIoct]
    /\ nextIoct' = NextIoct(nextIoct)
    /\ mainQ' = Append(mainQ, H("accept", s, TRUE))
    /\ UNCHANGED <<poolQ, accepting, sessionMap, conn, rstate, reading, context, timer, frames,
                   sent, decoded, unwritten, replied, histVars>>

\* Session::Start posts the lambda that reads the length of the next frame.
PostStart(s) == <<H("start", s, TRUE)>>

\* Mutant: Start before PostTimerEvent.
StartFirst ==
    LET h == Head(mainQ)
        s == h.s
    IN
    /\ accepting = None /\ mainQ # <<>> /\ h.kind = "accept"
    /\ mainQ' = Tail(mainQ)
    /\ accepting' = s
    /\ conn' = [conn EXCEPT ![s] = "active"]
    /\ poolQ' = PostTo(s, PostStart(s) \o <<H("arm", s, TRUE)>>)
    /\ IF sessionMap[sid[s]] = None
       THEN sessionMap' = [sessionMap EXCEPT ![sid[s]] = s] /\ UNCHANGED homeless
       ELSE homeless' = homeless \cup {s} /\ UNCHANGED sessionMap
    /\ UNCHANGED <<nextIoct, sessVars, rstate, reading, context, timer, netVars, decoded,
                   unwritten, replied, erased, broken, dangling>>

\* Mutant: the new session replaces the one stored under its id.
AcceptReplaces ==
    LET h == Head(mainQ)
        s == h.s
    IN
    /\ accepting = None /\ mainQ # <<>> /\ h.kind = "accept"
    /\ mainQ' = Tail(mainQ)
    /\ accepting' = s
    /\ conn' = [conn EXCEPT ![s] = "active"]
    /\ poolQ' = PostTo(s, <<H("arm", s, TRUE)>> \o PostStart(s))
    /\ sessionMap' = [sessionMap EXCEPT ![sid[s]] = s]
    /\ UNCHANGED <<nextIoct, sessVars, rstate, reading, context, timer, netVars, decoded,
                   unwritten, replied, histVars>>

\* The connection callback up to its last call: PostTimerEvent, emplace, Start.
\* The pool thread may run the posted lambdas at once, with what follows from
\* them, while session_ptr still holds the session.  Between the two posts it can
\* only run the first, whose event is due kDefaultSessionTimeout ticks later.
OnAccept ==
    LET h == Head(mainQ)
        s == h.s
    IN
    /\ accepting = None /\ mainQ # <<>> /\ h.kind = "accept"
    /\ mainQ' = Tail(mainQ)
    /\ accepting' = s
    /\ conn' = [conn EXCEPT ![s] = "active"]
    /\ poolQ' = PostTo(s, <<H("arm", s, TRUE)>> \o PostStart(s))
    /\ IF sessionMap[sid[s]] = None
       THEN sessionMap' = [sessionMap EXCEPT ![sid[s]] = s] /\ UNCHANGED homeless
       ELSE homeless' = homeless \cup {s} /\ UNCHANGED sessionMap
    /\ UNCHANGED <<nextIoct, sessVars, rstate, reading, context, timer, netVars, decoded,
                   unwritten, replied, erased, broken, dangling>>

\* The callback returns, session_ptr goes, and DoAccept accepts the next client:
\* the session now belongs to the map, if emplace took it, and to the lambda of
\* PostTimerEvent.
AcceptReturns ==
    /\ accepting # None
    /\ accepting' = None
    /\ UNCHANGED <<mainQ, poolQ, nextIoct, sessionMap, sessVars, conn, rstate, reading, context,
                   timer, netVars, decoded, unwritten, replied, histVars>>

\* The socket of a client that has reset has no remote endpoint: ConnectionInfo
\* throws, out of OnAccept and out of main_ioct_.run().
AcceptThrows ==
    /\ accepting = None /\ mainQ # <<>> /\ Head(mainQ).kind = "accept"
    /\ peer[Head(mainQ).s] = "down"
    /\ up' = FALSE
    /\ UNCHANGED <<mainQ, poolQ, nextIoct, accepting, sessionMap, sessVars, conn, rstate,
                   reading, context, timer, netVars, decoded, unwritten, replied, histVars>>

\* Start on a destroyed session may also bring the process down.
DanglingStartCrashes(t) ==
    /\ poolQ[t] # <<>> /\ Head(poolQ[t]).kind = "start"
    /\ ~Alive(Head(poolQ[t]).s)
    /\ up' = FALSE
    /\ UNCHANGED <<mainQ, poolQ, nextIoct, accepting, sessionMap, sessVars, conn, rstate,
                   reading, context, timer, netVars, decoded, unwritten, replied, histVars>>

\* The lambda of OnSessionClose erases by id.
EraseSession ==
    LET h == Head(mainQ)
        i == sid[h.s]
    IN
    /\ accepting = None /\ mainQ # <<>> /\ h.kind = "erase"
    /\ mainQ' = Tail(mainQ)
    /\ erased' = IF sessionMap[i] = None THEN erased
                 ELSE erased \cup {<<h.s, sessionMap[i]>>}
    /\ sessionMap' = [sessionMap EXCEPT ![i] = None]
    /\ UNCHANGED <<poolQ, nextIoct, accepting, sessVars, conn, rstate, reading, context, timer,
                   netVars, decoded, unwritten, replied, homeless, broken, dangling>>

-----------------------------------------------------------------------------
(***************************************************************************)
(* Steps shared by the handlers of a pool thread.                          *)
(***************************************************************************)
\* Mutant: no erase is posted.
CloseOnly(s, rest) ==
    IF conn[s] = "active"
    THEN /\ conn' = [conn EXCEPT ![s] = "closed"]
         /\ poolQ' = [poolQ EXCEPT ![thread[s]] = rest]
         /\ reading' = [reading EXCEPT ![s] = "none"]
         /\ unwritten' = [unwritten EXCEPT ![s] = 0]
         /\ UNCHANGED mainQ
    ELSE /\ poolQ' = [poolQ EXCEPT ![thread[s]] = rest]
         /\ UNCHANGED <<conn, mainQ, reading, unwritten>>

\* PbSession::Close by a running handler that holds the session: once only, the
\* outstanding read and write end with an error, OnSessionClose posts the erase.
CloseSession(s, rest) ==
    IF conn[s] = "active"
    THEN /\ conn' = [conn EXCEPT ![s] = "closed"]
         /\ mainQ' = Append(mainQ, H("erase", s, TRUE))
         /\ poolQ' = [poolQ EXCEPT ![thread[s]] =
                        rest \o (IF reading[s] # "none" THEN <<H("read", s, FALSE)>> ELSE <<>>)
                             \o (IF unwritten[s] > 0 THEN <<H("wrote", s, FALSE)>> ELSE <<>>)]
         /\ reading' = [reading EXCEPT ![s] = "none"]
         /\ unwritten' = [unwritten EXCEPT ![s] = 0]
    ELSE /\ poolQ' = [poolQ EXCEPT ![thread[s]] = rest]
         /\ UNCHANGED <<conn, mainQ, reading, unwritten>>

Skip(t, rest) ==
    /\ poolQ' = [poolQ EXCEPT ![t] = rest]
    /\ UNCHANGED <<conn, mainQ, reading, unwritten>>

-----------------------------------------------------------------------------
(***************************************************************************)
(* The handlers of a pool thread; each is given the head of its FIFO.      *)
(***************************************************************************)
\* The lambda of PostTimerEvent: the event goes on the wheel, then the context.
Arm(t, h, rest) ==
    /\ h.kind = "arm"
    /\ timer' = [timer EXCEPT ![h.s] = "armed"]
    /\ context' = [context EXCEPT ![h.s] = TRUE]
    /\ Skip(t, rest)
    /\ UNCHANGED <<rstate, decoded, broken, dangling>>

\* The lambda of Start, AsyncReadLen(kTotalLenSize).  It has a raw this: run
\* after the session's destruction it has no effect or DanglingStartCrashes.
Start(t, h, rest) ==
    /\ h.kind = "start"
    /\ IF Alive(h.s)
       THEN /\ reading' = IF conn[h.s] = "active" THEN [reading EXCEPT ![h.s] = "len"] ELSE reading
            /\ poolQ' = [poolQ EXCEPT ![t] = rest]
            /\ UNCHANGED <<conn, mainQ, unwritten, dangling>>
       ELSE dangling' = dangling \cup {h.s} /\ Skip(t, rest)
    /\ UNCHANGED <<rstate, context, timer, decoded, broken>>

\* Mutant: the state is left for the caller to change.
ReadTotalLenOnly(t, h, rest) ==
    /\ h.kind = "read" /\ h.ok /\ conn[h.s] = "active" /\ Alive(h.s)
    /\ rstate[h.s] = "kReadTotalLen"
    /\ reading' = [reading EXCEPT ![h.s] = "body"]
    /\ poolQ' = [poolQ EXCEPT ![t] = rest]
    /\ UNCHANGED <<conn, mainQ, unwritten, rstate, context, timer, decoded, broken, dangling>>

\* OnRequest in kReadTotalLen: the read of the body is started, then the state.
ReadTotalLen(t, h, rest) ==
    /\ h.kind = "read" /\ h.ok /\ conn[h.s] = "active" /\ Alive(h.s)
    /\ rstate[h.s] = "kReadTotalLen"
    /\ reading' = [reading EXCEPT ![h.s] = "body"]
    /\ rstate' = [rstate EXCEPT ![h.s] = "kReadRequest"]
    /\ poolQ' = [poolQ EXCEPT ![t] = rest]
    /\ UNCHANGED <<conn, mainQ, unwritten, context, timer, decoded, broken, dangling>>

\* Dispatch makes one response of a request, on each of its error paths too.
Dispatch(s) == decoded' = [decoded EXCEPT ![s] = @ + 1]

\* Mutants: the response is not written, or written twice.
NoResponse(s) == UNCHANGED unwritten

ResponseTwice(s) == unwritten' = [unwritten EXCEPT ![s] = @ + 2]

\* PbSession::WriteResponse hands the response to AsyncWrite.
WriteResponse(s) == unwritten' = [unwritten EXCEPT ![s] = @ + 1]

\* Mutant: the server does not read on after a request.
ReadRequestOnce(t, h, rest) ==
    /\ h.kind = "read" /\ h.ok /\ conn[h.s] = "active" /\ Alive(h.s)
    /\ rstate[h.s] = "kReadRequest"
    /\ Dispatch(h.s)
    /\ timer' = [timer EXCEPT ![h.s] = IF @ = "none" THEN @ ELSE "armed"]
    /\ WriteResponse(h.s)
    /\ poolQ' = [poolQ EXCEPT ![t] = rest]
    /\ rstate' = [rstate EXCEPT ![h.s] = "kReadTotalLen"]
    /\ UNCHANGED <<conn, mainQ, reading, context, broken, dangling>>

\* OnRequest in kReadRequest with a request that decodes: OnSessionRead
\* dispatches it, refreshes the timer if it is still there, writes the response
\* and posts the next Start.
ReadRequest(t, h, rest) ==
    /\ h.kind = "read" /\ h.ok /\ conn[h.s] = "active" /\ Alive(h.s)
    /\ rstate[h.s] = "kReadRequest"
    /\ Dispatch(h.s)
    /\ timer' = [timer EXCEPT ![h.s] = IF @ = "none" THEN @ ELSE "armed"]
    /\ WriteResponse(h.s)
    /\ poolQ' = [poolQ EXCEPT ![t] = rest \o PostStart(h.s)]
    /\ rstate' = [rstate EXCEPT ![h.s] = "kReadTotalLen"]
    /\ UNCHANGED <<conn, mainQ, reading, context, broken, dangling>>

\* Mutant: OnSessionRead does not return after the close.
RejectedReadsOn(t, h, rest) ==
    /\ h.kind = "read" /\ conn[h.s] = "active" /\ Alive(h.s)
    /\ h.ok => rstate[h.s] = "kReadRequest"
    /\ CloseSession(h.s, rest \o PostStart(h.s))
    /\ rstate' = IF h.ok THEN [rstate EXCEPT ![h.s] = "kReadTotalLen"] ELSE rstate
    /\ UNCHANGED <<context, timer, decoded, broken, dangling>>

\* A request that does not decode closes the session, and so does a read error.
ReadRejected(t, h, rest) ==
    /\ h.kind = "read" /\ conn[h.s] = "active" /\ Alive(h.s)
    /\ h.ok => rstate[h.s] = "kReadRequest"
    /\ CloseSession(h.s, rest)
    /\ rstate' = IF h.ok THEN [rstate EXCEPT ![h.s] = "kReadTotalLen"] ELSE rstate
    /\ UNCHANGED <<context, timer, decoded, broken, dangling>>

\* OnSessionWrite closes on an error.
WriteFailed(t, h, rest) ==
    /\ h.kind = "wrote" /\ ~h.ok /\ conn[h.s] = "active" /\ Alive(h.s)
    /\ CloseSession(h.s, rest)
    /\ broken' = broken \cup {h.s}
    /\ UNCHANGED <<rstate, context, timer, decoded, dangling>>

\* A completion on a closed connection or of a destroyed session does nothing.
Ignored(t, h, rest) ==
    /\ h.kind \in {"read", "wrote"}
    /\ conn[h.s] = "closed" \/ ~Alive(h.s) \/ (h.kind = "wrote" /\ h.ok)
    /\ Skip(t, rest)
    /\ UNCHANGED <<rstate, context, timer, decoded, broken, dangling>>

\* Mutant: the callback of the event does not close the session.
FireOnly(t, h, rest) ==
    /\ h.kind = "tick"
    /\ timer' = IF timer[h.s] = "expired" THEN [timer EXCEPT ![h.s] = "none"] ELSE timer
    /\ Skip(t, rest)
    /\ UNCHANGED <<rstate, context, decoded, broken, dangling>>

\* A tick drops the last copy of the event, unless a refresh came before it; its
\* callback locks the session and closes it.
Fire(t, h, rest) ==
    /\ h.kind = "tick"
    /\ IF timer[h.s] = "expired"
       THEN /\ timer' = [timer EXCEPT ![h.s] = "none"]
            /\ IF Alive(h.s) THEN CloseSession(h.s, rest) ELSE Skip(t, rest)
       ELSE Skip(t, rest) /\ UNCHANGED timer
    /\ UNCHANGED <<rstate, context, decoded, broken, dangling>>

PoolStep(t) ==
    /\ poolQ[t] # <<>>
    /\ LET h == Head(poolQ[t])
           rest == Tail(poolQ[t])
       IN  \/ Arm(t, h, rest)
           \/ Start(t, h, rest)
           \/ ReadTotalLen(t, h, rest)
           \/ ReadRequest(t, h, rest)
           \/ ReadRejected(t, h, rest)
           \/ WriteFailed(t, h, rest)
           \/ Ignored(t, h, rest)
           \/ Fire(t, h, rest)
    /\ UNCHANGED <<nextIoct, accepting, sessionMap, sessVars, netVars, replied, erased,
                   homeless>>

-----------------------------------------------------------------------------
(***************************************************************************)
(* The network and the clock.                                              *)
(***************************************************************************)
ClientSends(s) ==
    /\ peer[s] = "up" /\ sent[s] < MaxRequests
    /\ FoldFunction(+, 0, sent) < MaxFrames
    /\ sent' = [sent EXCEPT ![s] = @ + 1]
    /\ frames' = [frames EXCEPT ![s] = @ + 1]
    /\ UNCHANGED <<mainQ, poolQ, nextIoct, accepting, sessionMap, sessVars, conn, rstate,
                   reading, context, timer, peer, decoded, unwritten, replied, histVars>>

ClientGoes(s) ==
    /\ peer[s] = "up"
    /\ peer' = [peer EXCEPT ![s] = "down"]
    /\ UNCHANGED <<mainQ, poolQ, nextIoct, accepting, sessionMap, sessVars, conn, rstate,
                   reading, context, timer, frames, sent, decoded, unwritten, replied,
                   histVars>>

\* The outstanding read gets the length field of a frame, its body, or an error.
ReadSettles(s) ==
    /\ reading[s] # "none"
    /\ \/ frames[s] > 0 /\ poolQ' = PostTo(s, <<H("read", s, TRUE)>>)
       \/ peer[s] = "down" /\ poolQ' = PostTo(s, <<H("read", s, FALSE)>>)
    /\ frames' = [frames EXCEPT ![s] = IF reading[s] = "body" /\ @ > 0 THEN @ - 1 ELSE @]
    /\ reading' = [reading EXCEPT ![s] = "none"]
    /\ UNCHANGED <<mainQ, nextIoct, accepting, sessionMap, sessVars, conn, rstate, context,
                   timer, peer, sent, decoded, unwritten, replied, histVars>>

\* The write of the oldest response succeeds, or fails as the client is gone.
WriteSettles(s) ==
    /\ unwritten[s] > 0
    /\ ~Has(poolQ[thread[s]], "wrote", s)
    /\ \/ /\ poolQ' = PostTo(s, <<H("wrote", s, TRUE)>>)
          /\ unwritten' = [unwritten EXCEPT ![s] = @ - 1]
          /\ replied' = [replied EXCEPT ![s] = @ + 1]
       \/ /\ peer[s] = "down"
          /\ poolQ' = PostTo(s, <<H("wrote", s, FALSE)>>)
          /\ unwritten' = [unwritten EXCEPT ![s] = 0]
          /\ UNCHANGED replied
    /\ UNCHANGED <<mainQ, nextIoct, accepting, sessionMap, sessVars, conn, rstate, reading,
                   context, timer, netVars, decoded, histVars>>

\* The timeout passes since the last refresh: the next tick will drop the event.
Expire(s) ==
    /\ timer[s] = "armed"
    /\ ~Has(poolQ[thread[s]], "tick", s)
    /\ timer' = [timer EXCEPT ![s] = "expired"]
    /\ poolQ' = PostTo(s, <<H("tick", s, TRUE)>>)
    /\ UNCHANGED <<mainQ, nextIoct, accepting, sessionMap, sessVars, conn, rstate, reading,
                   context, netVars, decoded, unwritten, replied, histVars>>

-----------------------------------------------------------------------------
Init ==
    /\ mainQ = <<>>
    /\ poolQ = [t \in 1 .. Threads |-> <<>>]
    /\ nextIoct = 1
    /\ accepting = None /\ sessionMap = [i \in Ids |-> None]
    /\ sid = [s \in Sessions |-> CHOOSE i \in Ids : TRUE]
    /\ thread = [s \in Sessions |-> 1]
    /\ conn = [s \in Sessions |-> "none"]
    /\ rstate = [s \in Sessions |-> "kReadTotalLen"]
    /\ reading = [s \in Sessions |-> "none"]
    /\ context = [s \in Sessions |-> FALSE]
    /\ timer = [s \in Sessions |-> "none"]
    /\ peer = [s \in Sessions |-> "none"]
    /\ frames = [s \in Sessions |-> 0] /\ sent = [s \in Sessions |-> 0]
    /\ decoded = [s \in Sessions |-> 0] /\ unwritten = [s \in Sessions |-> 0]
    /\ replied = [s \in Sessions |-> 0]
    /\ erased = {} /\ homeless = {} /\ broken = {} /\ dangling = {}
    /\ up = TRUE

Running ==
    \/ OnAccept
    \/ AcceptReturns
    \/ EraseSession
    \/ \E t \in 1 .. Threads : PoolStep(t)
    \/ \E s \in Sessions :
          \/ \E i \in Ids : ClientConnects(s, i)
          \/ ClientSends(s)
          \/ ClientGoes(s)
          \/ ReadSettles(s)
          \/ WriteSettles(s)
          \/ Expire(s)

Next ==
    /\ up
    /\ \/ Running /\ UNCHANGED up
       \/ AcceptThrows
       \/ \E t \in 1 .. Threads : DanglingStartCrashes(t)

MainStep == OnAccept \/ AcceptReturns \/ EraseSession

\* Every thread runs its handlers and the idle timeouts pass; the network owes
\* nothing.
Fairness ==
    /\ WF_vars(up /\ MainStep /\ UNCHANGED up)
    /\ \A t \in 1 .. Threads : WF_vars(up /\ PoolStep(t) /\ UNCHANGED up)
    /\ \A s \in Sessions : WF_vars(up /\ Expire(s) /\ UNCHANGED up)

Spec == Init /\ [][Next]_vars /\ Fairness

-----------------------------------------------------------------------------
Handlers == [kind : {"accept", "erase", "arm", "start", "read", "wrote", "tick"},
             s : Sessions, ok : BOOLEAN]

\* Type invariant.
TypeOK ==
    /\ mainQ \in Seq(Handlers) /\ poolQ \in [1 .. Threads -> Seq(Handlers)]
    /\ nextIoct \in 1 .. Threads
    /\ accepting \in Sessions \cup {None}
    /\ sessionMap \in [Ids -> Sessions \cup {None}]
    /\ sid \in [Sessions -> Ids] /\ thread \in [Sessions -> 1 .. Threads]
    /\ conn \in [Sessions -> {"none", "active", "closed"}]
    /\ rstate \in [Sessions -> {"kReadTotalLen", "kReadRequest"}]
    /\ reading \in [Sessions -> {"none", "len", "body"}]
    /\ context \in [Sessions -> BOOLEAN]
    /\ timer \in [Sessions -> {"none", "armed", "expired"}]
    /\ peer \in [Sessions -> {"none", "up", "down"}]
    /\ \A f \in {frames, sent, decoded, unwritten, replied} : f \in [Sessions -> 0 .. MaxRequests]
    /\ erased \subseteq Sessions \X Sessions
    /\ homeless \subseteq Sessions /\ broken \subseteq Sessions /\ dangling \subseteq Sessions
    /\ up \in BOOLEAN

Queued(s, kind) ==
    Cardinality({i \in DOMAIN poolQ[thread[s]] :
                    poolQ[thread[s]][i].kind = kind /\ poolQ[thread[s]][i].s = s})

\* While a session lives with its connection, exactly one thing will go on reading
\* it: a posted Start, the outstanding read or its completion.  None would leave
\* the client without an answer until the idle timer; two, even on a session that
\* nobody holds any more, fail the assert of AsyncReadLen.
OneReader ==
    \A s \in Sessions :
        LET readers == Queued(s, "start") + Queued(s, "read")
                           + (IF reading[s] # "none" THEN 1 ELSE 0)
        IN  conn[s] = "active" => readers <= 1 /\ (Alive(s) => readers = 1)

\* state_ says what the bytes being read are, although OnRequest changes it only
\* after it has started the next read.
StateMatchesRead ==
    \A s \in Sessions :
        conn[s] = "active" =>
            /\ reading[s] = "len" \/ Queued(s, "start") > 0 => rstate[s] = "kReadTotalLen"
            /\ reading[s] = "body" => rstate[s] = "kReadRequest"

\* OnSessionRead casts the context to a TimerEventWeak: it must have been set, by
\* another posted lambda, before any request can come.
ContextSet ==
    \A s \in Sessions :
        reading[s] # "none" \/ Queued(s, "read") > 0 => context[s]

\* Every request that was dispatched is answered once, or its connection closes
\* or its session is destroyed.
OneAnswerEach ==
    \A s \in Sessions :
        /\ decoded[s] <= sent[s]
        /\ replied[s] + unwritten[s] <= decoded[s]
        /\ conn[s] = "active" /\ Alive(s) /\ Queued(s, "wrote") = 0 =>
              replied[s] + unwritten[s] = decoded[s]

\* The sessions that the erase of another session took out of the map.
Evicted == {p[2] : p \in {q \in erased : q[1] # q[2]}}

\* The erase is posted with an id and runs later on another thread, when the
\* 4-tuple may belong to a new connection.  It removes the session that closed,
\* with one way out: a session that emplace refused, closed while its accept
\* callback still holds it, erases the one stored under its id; one evicted so
\* may go on to erase its successor.
EraseRemovesOwn ==
    /\ \A p \in erased : p[1] = p[2] \/ p[1] \in homeless \cup Evicted
    /\ homeless = {} => Evicted = {}

\* session_map_ holds the live sessions and those whose erase is on its way: a
\* live one is missing only if emplace refused it or another's erase took it.
MapIsLive ==
    \A s \in Sessions :
        /\ conn[s] = "active" /\ s \notin homeless \cup Evicted => sessionMap[sid[s]] = s
        /\ \A i \in Ids : sessionMap[i] = s =>
              conn[s] = "active" \/ Has(mainQ, "erase", s)

\* The lambda of Start outlives its session in these cases only: the session was
\* not stored, its id being taken; another's erase took it out of the map; or a
\* write error closed it.  Neither the idle timer nor a read error can get between
\* a request and the next Start.
DanglingStarts == dangling \subseteq homeless \cup Evicted \cup broken

\* The session of a client that is gone is closed and erased, even when nothing
\* more is read from it or written to it.
SessionReclaimed ==
    \A s \in Sessions :
        (peer[s] = "down" /\ sessionMap[sid[s]] = s) ~> (sessionMap[sid[s]] # s \/ ~up)
=============================================================================

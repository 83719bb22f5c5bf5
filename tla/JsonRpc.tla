------------------------------ MODULE JsonRpc ------------------------------
(***************************************************************************)
(* JSON-RPC over HTTP, src/src/net/json_rpc: JsonRpcChannel and JsonClient *)
(* over a SyncConnection, JsonSession and JsonServer over AsyncConnections *)
(* that write in order (modules AsyncConnection, OrderedWriter).  The      *)
(* sources are not in the build and name the connection classes by older   *)
(* names; the connections are modelled as the current ones, without their  *)
(* asserts on the calling thread.                                          *)
(*                                                                         *)
(* A message is a sequence of pieces: a header, which holds the length of  *)
(* the body and ends in the delimiter, then that many pieces of body.  The *)
(* main thread runs the accept callback and the timer wheel; a session's   *)
(* reads and its method handlers run on a pool thread.                     *)
(***************************************************************************)
EXTENDS Naturals, Sequences

CONSTANTS
    BodySizes,    \* lengths of bodies, in pieces
    BufferSize,   \* kDefaultBufferSize, in pieces
    MaxCalls,     \* bound: calls of CallMethod
    MaxConns      \* bound: connections

ASSUME JsonAssumption ==
    /\ BufferSize \in Nat \ {0} /\ BodySizes \subseteq Nat \ {0} /\ 1 \in BodySizes
    /\ MaxCalls \in Nat /\ MaxConns \in Nat

VARIABLES
    \* JsonRpcChannel::CallMethod and its connection
    pc,         \* where the call is: idle, send, header or body
    call,       \* g_id: number of the current or last call
    connected,  \* state_ = kActived of the SyncConnection
    conn,       \* number of the current or last connection
    buffer,     \* its read_buffer_
    need,       \* pieces the SyncReadLen under way returns without an error
    \* the connections
    c2s, s2c,   \* pieces on their way
    hungUp,     \* connections that the client closed
    \* the server
    main,       \* the session whose accept callback the main thread is in, or 0
    id,         \* session_id_, a hash of the 4-tuple: the first connection that has it
    open,       \* state_ of the session's connection: none, active or closed
    state,      \* JsonSession::state_
    reading,    \* its outstanding read: none, delimiter or length
    want,       \* pieces that a read of a length returns
    readBuf,    \* read_buffer_ of its connection
    handler,    \* the call whose method handler its thread is in, or 0
    closing,    \* closed by their pool thread, which has not erased them yet
    sessionMap, \* session_map_
    \* history
    outcomes,   \* the call whose result each call returned, or 0 for ""
    gaveUp,     \* calls that failed before they had read a header
    via,        \* the connection a call's request was written to, or 0
    dispatched, \* the calls that were dispatched
    overtaken   \* sessions erased before they were stored

client == <<pc, call, connected, conn, buffer, need, outcomes, gaveUp, via, hungUp>>
reads == <<state, reading, want, readBuf>>
server == <<main, id, open, reads, handler, closing, sessionMap, dispatched, overtaken>>
vars == <<client, server, c2s, s2c>>

Conns == 1 .. MaxConns
Calls == 1 .. MaxCalls

Message(c, size, error) ==
    [i \in 1 .. size + 1 |-> [call |-> c, at |-> i - 1, size |-> size, error |-> error]]

\* The end of the first header in a buffer, or 0: what a read up to the delimiter takes.
\* Whatever lies before the header belongs to its first line, which nobody looks at.
HeaderEnd(b) ==
    IF \E i \in DOMAIN b : b[i].at = 0
    THEN CHOOSE i \in DOMAIN b : b[i].at = 0 /\ \A j \in 1 .. i - 1 : b[j].at # 0
    ELSE 0

Rest(b, n) == SubSeq(b, n + 1, Len(b))

\* An async_read into a full read buffer completes short and without an error.
Fitting(n) == IF n <= BufferSize THEN n ELSE BufferSize

\* The pieces are a whole body; only that parses as JSON.
WholeBody(b) ==
    Len(b) = b[1].size /\ \A i \in DOMAIN b : b[i].at = i /\ b[i].call = b[1].call

\* The numbers of pieces that one step of a read may move into buffer b.
Fits(b, way) == {n \in 1 .. Len(way) : Len(b) + n <= BufferSize}

-----------------------------------------------------------------------------
(***************************************************************************)
(* The client.                                                             *)
(***************************************************************************)
\* CallMethod returns the result of call r, or "" when r is 0, which its overload and
\* AsyncCallMethod report as kUnknown.
Return(r) ==
    /\ pc' = "idle" /\ need' = 0
    /\ outcomes' = Append(outcomes, r)

\* JsonRpcChannel::CallMethod up to the request; a connect that fails ends the call.
\* Connect leaves the read buffer as it is, and may get the port of an earlier
\* connection.
CallMethod ==
    /\ pc = "idle" /\ call < MaxCalls
    /\ call' = call + 1
    /\ \/ /\ connected
          /\ pc' = "send"
          /\ UNCHANGED <<connected, conn, id, need, outcomes>>
       \/ /\ ~connected /\ conn < MaxConns
          /\ pc' = "send" /\ connected' = TRUE /\ conn' = conn + 1
          /\ \E i \in {conn + 1} \cup {id[k] : k \in 1 .. conn} :
               id' = [id EXCEPT ![conn + 1] = i]
          /\ UNCHANGED <<need, outcomes>>
       \/ /\ ~connected /\ Return(0)
          /\ UNCHANGED <<connected, conn, id>>
    /\ UNCHANGED <<buffer, gaveUp, via, hungUp, main, open, reads, handler, closing,
                   sessionMap, dispatched, overtaken, c2s, s2c>>

\* JsonClient::SendRequest: the write is done, or fails before anything was sent.
SendRequest(size) ==
    /\ pc = "send"
    /\ pc' = "header"
    /\ via' = [via EXCEPT ![call] = conn]
    /\ c2s' = IF open[conn] = "closed" THEN c2s
              ELSE [c2s EXCEPT ![conn] = @ \o Message(call, size, FALSE)]
    /\ UNCHANGED <<call, connected, conn, buffer, need, outcomes, gaveUp, hungUp, server, s2c>>

SendFails ==
    /\ pc = "send" /\ Return(0)
    /\ UNCHANGED <<call, connected, conn, buffer, gaveUp, via, hungUp, server, c2s, s2c>>

Incomplete == IF pc = "header" THEN HeaderEnd(buffer) = 0 ELSE Len(buffer) < need

\* The read under way moves pieces into the buffer: one up to the delimiter maybe more
\* than it returns, one of a length never.
Transfer ==
    /\ pc \in {"header", "body"} /\ Incomplete
    /\ \E n \in Fits(buffer, s2c[conn]) :
         /\ pc = "body" => Len(buffer) + n <= need
         /\ buffer' = buffer \o SubSeq(s2c[conn], 1, n)
         /\ s2c' = [s2c EXCEPT ![conn] = Rest(@, n)]
    /\ UNCHANGED <<pc, call, connected, conn, need, outcomes, gaveUp, via, hungUp, server, c2s>>

\* Mutant: a call that times out is sent again.
ReadFailsRetries ==
    /\ pc \in {"header", "body"} /\ Incomplete
    /\ \/ pc = "header" /\ pc' = "send" /\ gaveUp' = gaveUp \cup {call}
          /\ UNCHANGED <<buffer, need, outcomes>>
       \/ pc = "body" /\ Return(0) /\ buffer' = <<>> /\ UNCHANGED gaveUp
    /\ UNCHANGED <<call, connected, conn, via, hungUp, server, c2s, s2c>>

\* Wait's timeout, whenever it comes, the end of the stream, or a buffer that is full.
\* SyncReadUtil leaves the bytes in the buffer, SyncReadLen takes them.
ReadFails ==
    /\ pc \in {"header", "body"} /\ Incomplete
    /\ Return(0)
    /\ \/ pc = "header" /\ gaveUp' = gaveUp \cup {call} /\ UNCHANGED buffer
       \/ pc = "body" /\ buffer' = <<>> /\ UNCHANGED gaveUp
    /\ UNCHANGED <<call, connected, conn, via, hungUp, server, c2s, s2c>>

\* JsonClient::ReadResponse up to the SyncReadLen of the body.
ReadHeader ==
    /\ pc = "header" /\ ~Incomplete
    /\ pc' = "body"
    /\ need' = Fitting(buffer[HeaderEnd(buffer)].size)
    /\ buffer' = Rest(buffer, HeaderEnd(buffer))
    /\ UNCHANGED <<call, connected, conn, outcomes, gaveUp, via, hungUp, server, c2s, s2c>>

\* The rest of ReadResponse and of CallMethod, which does not look at the id.
ReadBody ==
    /\ pc = "body" /\ ~Incomplete
    /\ buffer' = Rest(buffer, need)
    /\ LET body == SubSeq(buffer, 1, need)
       IN  Return(IF WholeBody(body) /\ ~body[1].error THEN body[1].call ELSE 0)
    /\ UNCHANGED <<call, connected, conn, gaveUp, via, hungUp, server, c2s, s2c>>

\* JsonRpcChannel::Close
ChannelClose ==
    /\ pc = "idle" /\ connected
    /\ connected' = FALSE /\ hungUp' = hungUp \cup {conn}
    /\ s2c' = [s2c EXCEPT ![conn] = <<>>]
    /\ UNCHANGED <<pc, call, conn, buffer, need, outcomes, gaveUp, via, server, c2s>>

-----------------------------------------------------------------------------
(***************************************************************************)
(* The main thread of the server.                                          *)
(***************************************************************************)
\* The accept callback up to the end of Start, which it calls and does not post.
Accept(k) ==
    /\ main = 0 /\ k <= conn /\ open[k] = "none"
    /\ main' = k
    /\ open' = [open EXCEPT ![k] = "active"]
    /\ state' = [state EXCEPT ![k] = "header"] /\ reading' = [reading EXCEPT ![k] = "delimiter"]
    /\ UNCHANGED <<client, id, want, readBuf, handler, closing, sessionMap, dispatched,
                   overtaken, c2s, s2c>>

\* The rest of it: session_map_.emplace, which stores nothing under an id that is taken.
Emplace ==
    /\ main # 0
    /\ main' = 0
    /\ sessionMap' = IF sessionMap[id[main]] = 0 THEN [sessionMap EXCEPT ![id[main]] = main]
                     ELSE sessionMap
    /\ UNCHANGED <<client, id, open, reads, handler, closing, dispatched, overtaken, c2s, s2c>>

\* The session object exists: the accept callback, session_map_ or a handler holds it.
Alive(k) == main = k \/ sessionMap[id[k]] = k \/ handler[k] # 0

\* The socket is closed and its read ends.  What was written stays on its way: to lose
\* it is a ReadFails of the client, for every call that would have read it; what was not read nobody reads.
CloseSocket(k) ==
    /\ open' = [open EXCEPT ![k] = "closed"]
    /\ reading' = [reading EXCEPT ![k] = "none"] /\ want' = [want EXCEPT ![k] = 0]
    /\ readBuf' = [readBuf EXCEPT ![k] = <<>>]
    /\ c2s' = [c2s EXCEPT ![k] = <<>>]
    /\ UNCHANGED s2c

\* Mutant: Close without the close callback.
TimerClosesOnly(k) ==
    /\ main = 0 /\ open[k] = "active" /\ Alive(k)
    /\ CloseSocket(k)
    /\ UNCHANGED <<client, main, id, state, handler, closing, sessionMap, dispatched,
                   overtaken>>

\* The session's TimerEvent is destroyed: Close and OnSessionClose on the main thread,
\* whatever the session's own thread is doing.
TimerExpires(k) ==
    /\ main = 0 /\ open[k] = "active" /\ Alive(k)
    /\ CloseSocket(k)
    /\ sessionMap' = [sessionMap EXCEPT ![id[k]] = 0]
    /\ UNCHANGED <<client, main, id, state, handler, closing, dispatched, overtaken>>

-----------------------------------------------------------------------------
(***************************************************************************)
(* The pool thread of a session.                                           *)
(***************************************************************************)
Complete(k) ==
    \/ reading[k] = "delimiter" /\ HeaderEnd(readBuf[k]) # 0
    \/ reading[k] = "length" /\ Len(readBuf[k]) >= want[k]

Receive(k) ==
    /\ reading[k] # "none" /\ ~Complete(k)
    /\ \E n \in Fits(readBuf[k], c2s[k]) :
         /\ reading[k] = "length" => Len(readBuf[k]) + n <= want[k]
         /\ readBuf' = [readBuf EXCEPT ![k] = @ \o SubSeq(c2s[k], 1, n)]
         /\ c2s' = [c2s EXCEPT ![k] = Rest(@, n)]
    /\ UNCHANGED <<client, main, id, open, state, reading, want, handler, closing, sessionMap,
                   dispatched, overtaken, s2c>>

\* JsonSession::Close on the session's thread.
Close(k) ==
    /\ CloseSocket(k)
    /\ closing' = closing \cup {k}

\* Mutant: state_ changes after AsyncReadLen, which may call OnRead before it returns.
OnHeaderLate(k) ==
    /\ reading[k] = "delimiter" /\ Complete(k) /\ Alive(k)
    /\ LET header == readBuf[k][HeaderEnd(readBuf[k])]
           rest == Rest(readBuf[k], HeaderEnd(readBuf[k]))
       IN  /\ state' = [state EXCEPT ![k] = "body"]
           /\ IF Len(rest) >= header.size
              THEN /\ reading' = [reading EXCEPT ![k] = "none"] /\ UNCHANGED want
                   /\ readBuf' = [readBuf EXCEPT ![k] = Rest(rest, header.size)]
              ELSE /\ reading' = [reading EXCEPT ![k] = "length"]
                   /\ want' = [want EXCEPT ![k] = Fitting(header.size)]
                   /\ readBuf' = [readBuf EXCEPT ![k] = rest]
    /\ UNCHANGED <<client, main, id, open, handler, closing, sessionMap, dispatched, overtaken,
                   c2s, s2c>>

\* OnRead of a header, and ReadHttpBody.
OnHeader(k) ==
    /\ reading[k] = "delimiter" /\ Complete(k) /\ Alive(k)
    /\ LET end == HeaderEnd(readBuf[k])
       IN  /\ state' = [state EXCEPT ![k] = "body"]
           /\ reading' = [reading EXCEPT ![k] = "length"]
           /\ want' = [want EXCEPT ![k] = Fitting(readBuf[k][end].size)]
           /\ readBuf' = [readBuf EXCEPT ![k] = Rest(@, end)]
    /\ UNCHANGED <<client, main, id, open, handler, closing, sessionMap, dispatched, overtaken,
                   c2s, s2c>>

\* OnRead of a body, and ProcessRequest up to the method handler; a body that does not
\* parse closes the session.
OnBody(k) ==
    /\ reading[k] = "length" /\ Complete(k) /\ Alive(k) /\ state[k] = "body"
    /\ LET body == SubSeq(readBuf[k], 1, want[k])
       IN  \/ /\ WholeBody(body)
              /\ handler' = [handler EXCEPT ![k] = body[1].call]
              /\ dispatched' = dispatched \cup {body[1].call}
              /\ reading' = [reading EXCEPT ![k] = "none"] /\ want' = [want EXCEPT ![k] = 0]
              /\ readBuf' = [readBuf EXCEPT ![k] = Rest(@, want[k])]
              /\ UNCHANGED <<open, closing, c2s, s2c>>
           \/ /\ ~WholeBody(body)
              /\ Close(k)
              /\ UNCHANGED <<handler, dispatched>>
    /\ UNCHANGED <<client, main, id, state, sessionMap, overtaken>>

\* OnRead of the end of the stream.
OnError(k) ==
    /\ reading[k] # "none" /\ ~Complete(k) /\ Alive(k)
    /\ k \in hungUp /\ c2s[k] = <<>>
    /\ Close(k)
    /\ UNCHANGED <<client, main, id, state, handler, sessionMap, dispatched, overtaken>>

\* A read completes after the session was destroyed: its callback does nothing, and the
\* connection goes with the operation that held it.
OnReadOfNone(k) ==
    /\ reading[k] # "none" /\ ~Alive(k)
    /\ Complete(k) \/ (k \in hungUp /\ c2s[k] = <<>>)
    /\ CloseSocket(k)
    /\ UNCHANGED <<client, main, id, state, handler, closing, sessionMap, dispatched,
                   overtaken>>

\* ReadHttpHeader.  After a request it is called by OnSessionRead's Start and again by
\* OnRead, when its AsyncReadUtil finds a read under way; after a close it reads nothing.
ReadHttpHeader(k) ==
    /\ state' = [state EXCEPT ![k] = "header"]
    /\ reading' = IF open[k] = "closed" THEN reading ELSE [reading EXCEPT ![k] = "delimiter"]

\* What Dispatch returns: a result, or an error, whose message is short.
Results == [size : BodySizes, error : {FALSE}] \cup {[size |-> 1, error |-> TRUE]}

\* JsonSession::WriteResponse
WriteResponse(k, c, result) ==
    s2c' = IF open[k] = "closed" \/ k \in hungUp THEN s2c
           ELSE [s2c EXCEPT ![k] = @ \o Message(c, result.size, result.error)]

\* OnSessionRead from the method handler's return on, on a connection that the main
\* thread may have closed meanwhile.
HandlerReturns(k, result) ==
    /\ handler[k] # 0
    /\ handler' = [handler EXCEPT ![k] = 0]
    /\ WriteResponse(k, handler[k], result)
    /\ ReadHttpHeader(k)
    /\ UNCHANGED <<client, main, id, open, want, readBuf, closing, sessionMap, dispatched,
                   overtaken, c2s>>

\* OnSessionWrite of a response that the client did not wait for.
WriteFails(k) ==
    /\ reading[k] # "none" /\ Alive(k)
    /\ k \in hungUp /\ \E c \in dispatched : via[c] = k
    /\ Close(k)
    /\ UNCHANGED <<client, main, id, state, handler, sessionMap, dispatched, overtaken>>

\* JsonServer::OnSessionClose erases what is stored under the session's id.
OnSessionClose(k) ==
    /\ k \in closing
    /\ closing' = closing \ {k}
    /\ sessionMap' = [sessionMap EXCEPT ![id[k]] = 0]
    /\ overtaken' = IF main = k THEN overtaken \cup {k} ELSE overtaken
    /\ UNCHANGED <<client, main, id, open, reads, handler, dispatched, c2s, s2c>>

-----------------------------------------------------------------------------
Init ==
    /\ pc = "idle" /\ call = 0 /\ connected = FALSE /\ conn = 0 /\ buffer = <<>> /\ need = 0
    /\ c2s = [k \in Conns |-> <<>>] /\ s2c = [k \in Conns |-> <<>>] /\ hungUp = {}
    /\ main = 0 /\ id = [k \in Conns |-> k]
    /\ open = [k \in Conns |-> "none"] /\ state = [k \in Conns |-> "header"]
    /\ reading = [k \in Conns |-> "none"] /\ want = [k \in Conns |-> 0]
    /\ readBuf = [k \in Conns |-> <<>>]
    /\ handler = [k \in Conns |-> 0] /\ closing = {} /\ sessionMap = [i \in Conns |-> 0]
    /\ outcomes = <<>> /\ gaveUp = {} /\ via = [c \in Calls |-> 0] /\ dispatched = {}
    /\ overtaken = {}

ClientStep ==
    \/ \E size \in BodySizes : SendRequest(size)
    \/ SendFails \/ Transfer \/ ReadFails \/ ReadHeader \/ ReadBody

SessionStep(k) ==
    \/ Receive(k) \/ OnHeader(k) \/ OnBody(k) \/ OnError(k) \/ OnReadOfNone(k)
    \/ \E result \in Results : HandlerReturns(k, result)
    \/ WriteFails(k)
    \/ OnSessionClose(k)

Next ==
    \/ CallMethod \/ ClientStep \/ ChannelClose
    \/ Emplace
    \/ \E k \in Conns : Accept(k) \/ TimerExpires(k) \/ SessionStep(k)

\* The server's threads run and method handlers return.
Fairness ==
    /\ WF_vars(Emplace)
    /\ \A k \in Conns : WF_vars(Accept(k)) /\ WF_vars(SessionStep(k))

Spec == Init /\ [][Next]_vars /\ Fairness

-----------------------------------------------------------------------------
\* Type invariant.
TypeOK ==
    /\ pc \in {"idle", "send", "header", "body"} /\ call \in 0 .. MaxCalls
    /\ connected \in BOOLEAN /\ conn \in 0 .. MaxConns /\ need \in 0 .. BufferSize
    /\ Len(buffer) <= BufferSize /\ hungUp \subseteq 1 .. conn
    /\ Len(outcomes) = IF pc = "idle" THEN call ELSE call - 1
    /\ main \in 0 .. MaxConns /\ sessionMap \in [Conns -> 0 .. MaxConns]
    /\ \A k \in Conns :
        /\ Len(readBuf[k]) <= BufferSize /\ want[k] \in 0 .. BufferSize
        /\ state[k] \in {"header", "body"} /\ id[k] \in Conns
        /\ reading[k] = "none" \/ (open[k] = "active" /\ handler[k] = 0)
        /\ open[k] = "active" => reading[k] # "none" \/ handler[k] # 0

\* Results come in the order of the calls and never before their call, whatever timed
\* out, did not fit a buffer or was closed in between; and until a call gives up before
\* it has read the header of its response, a result is that of the call itself: a body
\* that was given up, or did not fit, is skipped with the next header.
ResultIsOwn ==
    \A j \in DOMAIN outcomes : outcomes[j] # 0 =>
        /\ outcomes[j] <= j
        /\ \A i \in 1 .. j - 1 : outcomes[i] < outcomes[j]
        /\ (\A c \in gaveUp : c >= j) => outcomes[j] = j

\* A closed session leaves session_map_, unless its close overtook its emplace; and a
\* session stays there while it is open, unless another one has its id.
MapIsLive ==
    /\ \A i \in Conns : LET k == sessionMap[i] IN
         k # 0 /\ open[k] = "closed" => k \in closing \cup overtaken
    /\ \A k \in Conns :
         /\ open[k] = "active" /\ main # k
         /\ \A o \in (1 .. conn) \ {k} : id[o] # id[k]
         => sessionMap[id[k]] = k

\* Every request that was written is dispatched or its connection is closed, however
\* the requests of a connection follow each other and the reads are cut.
RequestsSettled ==
    \A c \in Calls : via[c] # 0 ~> (c \in dispatched \/ (via[c] # 0 /\ open[via[c]] = "closed"))
=============================================================================

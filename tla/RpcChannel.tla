----------------------------- MODULE RpcChannel -----------------------------
(***************************************************************************)
(* The client side: PbRpcChannel::CallMethod over PbClient over the        *)
(* SyncConnection of src/src/net/tcp_connection.{h,cpp}, one call after    *)
(* the other, against a server that answers the requests of a connection   *)
(* in order (module PbServer) and may be slow or close the connection.     *)
(*                                                                         *)
(* The k-th byte of the response to call c is <<c, k>>: LenSize bytes of   *)
(* length, then BodySize bytes, or LongSize of them when the result does   *)
(* not fit the read buffer.  A read that loses its alignment takes any     *)
(* number of GarbageLens for the length.  A request on its way is whole or *)
(* was cut short by a write that timed out.  The message id is the         *)
(* constant "111" and is not looked at, so it is not in the model.         *)
(***************************************************************************)
EXTENDS Naturals, Sequences

CONSTANTS
    LenSize,      \* kTotalLenSize
    BodySize,     \* length of a response after its length field
    LongSize,     \* the same for a result over the limit of the reader
    BufferSize,   \* kDefaultBufferSize, the limit of read_buffer_
    GarbageLens,  \* lengths found in misaligned bytes
    MaxCalls      \* bound: calls of CallMethod

ASSUME ChannelAssumption ==
    /\ LenSize \in Nat \ {0} /\ BodySize \in Nat \ {0} /\ MaxCalls \in Nat
    /\ LongSize \in Nat /\ BufferSize \in Nat
    /\ LenSize <= BufferSize /\ BodySize <= BufferSize /\ BufferSize < LongSize
    /\ GarbageLens \subseteq Nat

VARIABLES
    ndebug,     \* the build has NDEBUG: asserts do not stop the client
    pc,         \* where CallMethod is: idle, send, readLen, readBody, done or aborted
    call,       \* number of the current or last call
    need,       \* bytes the SyncReadLen under way returns without an error
    failed,     \* is_failed_ of the call's controller
    result,     \* the call whose response was parsed into this call's, or 0
    connected,  \* state_ = kActived of the SyncConnection
    buffer,     \* read_buffer_
    link,       \* the TCP connection: "none", "up" or "down"
    c2s,        \* requests on their way
    s2c,        \* bytes of responses on their way
    long,       \* the calls with a response of LongSize
    outcomes,   \* history: what each call left in its controller and response
    thrown,     \* history: calls that an exception of Connect left without done
    timeouts,   \* history: calls that gave up on a read or a write
    sawEof      \* history: a read of this connection met the end of the stream

clientVars == <<pc, call, need, failed, result, connected, buffer, outcomes, thrown,
                timeouts, sawEof>>
vars == <<ndebug, clientVars, link, c2s, s2c, long>>

BodySizeOf(c) == IF c \in long THEN LongSize ELSE BodySize

Response(c, size) == [k \in 1 .. LenSize + size |-> <<c, k>>]
LenOf(c) == [k \in 1 .. LenSize |-> <<c, k>>]
BodyOf(c) == [k \in 1 .. BodySizeOf(c) |-> <<c, LenSize + k>>]

\* An async_read into a full read_buffer_ completes short and without an error.
Fitting(n) == IF n <= BufferSize THEN n ELSE BufferSize

Request(whole) == [call |-> call, whole |-> whole]

Reading == pc \in {"readLen", "readBody"}

-----------------------------------------------------------------------------
\* The controller's is_failed_ is set by SetFailed and reset by the next call.
SetFailed == failed' = TRUE

\* SyncConnection::Connect: a new TCP connection; read_buffer_ stays as it is.
Connect ==
    /\ connected' = TRUE
    /\ link' = "up" /\ c2s' = <<>> /\ s2c' = <<>>
    /\ sawEof' = FALSE

\* CallMethod up to the request: Reset, then Connect unless IsConnected; a
\* connect that fails ends the call.
CallMethod ==
    /\ pc = "idle" /\ call < MaxCalls
    /\ call' = call + 1
    /\ result' = 0
    /\ \/ /\ connected
          /\ pc' = "send" /\ failed' = FALSE
          /\ UNCHANGED <<connected, link, c2s, s2c, sawEof>>
       \/ /\ ~connected /\ Connect
          /\ pc' = "send" /\ failed' = FALSE
       \/ /\ ~connected
          /\ pc' = "done" /\ SetFailed
          /\ UNCHANGED <<connected, link, c2s, s2c, sawEof>>
    /\ UNCHANGED <<ndebug, long, need, buffer, outcomes, thrown, timeouts>>

\* Connect throws: the address does not parse, or the peer has reset the new connection
\* when ConnectionInfo asks for its remote_endpoint().  The call of Connect is outside
\* the try of CallMethod, so the exception skips done->Run(); state_ stays kClosed and
\* the next Connect closes the socket first.
ConnectThrows ==
    /\ pc = "idle" /\ call < MaxCalls /\ ~connected
    /\ call' = call + 1
    /\ failed' = FALSE /\ result' = 0
    /\ outcomes' = Append(outcomes, [failed |-> FALSE, result |-> 0])
    /\ thrown' = thrown \cup {call'}
    /\ UNCHANGED <<ndebug, pc, need, connected, buffer, link, c2s, s2c, long, timeouts, sawEof>>

\* Mutant: the request is written twice.
WriteTwice(ok) ==
    /\ ok
    /\ c2s' = IF link = "up" THEN c2s \o <<Request(TRUE), Request(TRUE)>> ELSE c2s
    /\ UNCHANGED timeouts

\* SyncWrite, whose failure is a timeout with the request cut short or unsent, or
\* the error of a connection that is gone; the first write to one still succeeds.
SyncWrite(ok) ==
    \/ /\ ok
       /\ c2s' = IF link = "up" THEN Append(c2s, Request(TRUE)) ELSE c2s
       /\ UNCHANGED timeouts
    \/ /\ ~ok /\ link = "up"
       /\ c2s' \in {c2s, Append(c2s, Request(FALSE))}
       /\ timeouts' = timeouts \cup {call}
    \/ /\ ~ok /\ link = "down"
       /\ UNCHANGED <<c2s, timeouts>>

\* SendRequest asserts that the write succeeded; without asserts CallMethod goes
\* on to ReadResponse whatever SendRequest returned.
SendRequest(ok) ==
    /\ pc = "send"
    /\ SyncWrite(ok)
    /\ failed' = (failed \/ ~ok)
    /\ pc' = IF ok \/ ndebug THEN "readLen" ELSE "aborted"
    /\ need' = LenSize
    /\ UNCHANGED <<ndebug, long, call, result, connected, buffer, outcomes, thrown, sawEof,
                   link, s2c>>

\* SyncReadLen: the outstanding async_read moves a byte into read_buffer_.
Transfer ==
    /\ Reading /\ Len(buffer) < need /\ s2c # <<>>
    /\ buffer' = Append(buffer, Head(s2c))
    /\ s2c' = Tail(s2c)
    /\ UNCHANGED <<ndebug, long, pc, call, need, failed, result, connected, outcomes, thrown,
                   timeouts, sawEof, link, c2s>>

\* Mutant: a failed read does not fail the call.
ReadFailsSilently(eof) ==
    /\ Reading /\ Len(buffer) < need
    /\ eof => link = "down" /\ s2c = <<>>
    /\ buffer' = <<>>
    /\ pc' = "done"
    /\ timeouts' = IF eof THEN timeouts ELSE timeouts \cup {call}
    /\ sawEof' = (sawEof \/ eof)
    /\ UNCHANGED <<ndebug, long, call, need, failed, result, connected, outcomes, thrown, link,
                   c2s, s2c>>

\* Mutant: Wait has no timeout.
ReadWaits(eof) ==
    /\ Reading /\ Len(buffer) < need
    /\ eof /\ link = "down" /\ s2c = <<>>
    /\ buffer' = <<>>
    /\ pc' = "done" /\ SetFailed
    /\ sawEof' = TRUE
    /\ UNCHANGED <<ndebug, long, call, need, result, connected, outcomes, thrown, timeouts,
                   link, c2s, s2c>>

\* SyncReadLen fails: by Wait's timeout, whenever it comes, or at the end of the
\* stream.  The bytes read so far leave the buffer all the same.
ReadFails(eof) ==
    /\ Reading /\ Len(buffer) < need
    /\ eof => link = "down" /\ s2c = <<>>
    /\ buffer' = <<>>
    /\ pc' = "done" /\ SetFailed
    /\ timeouts' = IF eof THEN timeouts ELSE timeouts \cup {call}
    /\ sawEof' = (sawEof \/ eof)
    /\ UNCHANGED <<ndebug, long, call, need, result, connected, outcomes, thrown, link, c2s,
                   s2c>>

Taken == SubSeq(buffer, 1, need)
Rest == SubSeq(buffer, need + 1, Len(buffer))

\* ReadResponse: the length, then the SyncReadLen of the body.
ReadLenDone ==
    /\ pc = "readLen" /\ Len(buffer) >= need
    /\ buffer' = Rest
    /\ pc' = "readBody"
    /\ \/ \E c \in 1 .. call : Taken = LenOf(c) /\ need' = Fitting(BodySizeOf(c))
       \/ /\ \A c \in 1 .. call : Taken # LenOf(c)
          /\ \E n \in GarbageLens : need' = Fitting(n)
    /\ UNCHANGED <<ndebug, long, call, failed, result, connected, outcomes, thrown, timeouts,
                   sawEof, link, c2s, s2c>>

\* DecodeResponse and ParseFromString.  A response cut short by the buffer does not
\* decode; one of another call may be of another type: it parses or not.
ReadBodyDone ==
    /\ pc = "readBody" /\ Len(buffer) >= need
    /\ buffer' = Rest
    /\ pc' = "done"
    /\ \/ \E c \in 1 .. call :
             /\ Taken = BodyOf(c)
             /\ \/ result' = c /\ UNCHANGED failed
                \/ c # call /\ SetFailed /\ UNCHANGED result
       \/ /\ \A c \in 1 .. call : Taken # BodyOf(c)
          /\ SetFailed /\ UNCHANGED result
    /\ UNCHANGED <<ndebug, long, call, need, connected, outcomes, thrown, timeouts, sawEof,
                   link, c2s, s2c>>

\* Mutant: done runs twice.
DoneTwice ==
    /\ pc = "done"
    /\ pc' = "idle"
    /\ LET o == [failed |-> failed, result |-> result]
       IN  outcomes' = outcomes \o <<o, o>>
    /\ UNCHANGED <<ndebug, long, call, need, failed, result, connected, buffer, thrown,
                   timeouts, sawEof, link, c2s, s2c>>

\* done->Run(), the last thing of every path.
Done ==
    /\ pc = "done"
    /\ pc' = "idle"
    /\ outcomes' = Append(outcomes, [failed |-> failed, result |-> result])
    /\ UNCHANGED <<ndebug, long, call, need, failed, result, connected, buffer, thrown,
                   timeouts, sawEof, link, c2s, s2c>>

-----------------------------------------------------------------------------
\* The response to call c, with a result of any size.
Respond(c) ==
    \/ s2c' = s2c \o Response(c, BodySize) /\ UNCHANGED long
    \/ s2c' = s2c \o Response(c, LongSize) /\ long' = long \cup {c}

\* The server answers the next request.
Serve ==
    /\ link = "up" /\ c2s # <<>> /\ Head(c2s).whole
    /\ c2s' = Tail(c2s)
    /\ Respond(Head(c2s).call)
    /\ UNCHANGED <<ndebug, clientVars, link>>

\* A request cut short is completed with the bytes of the next one, of which the
\* rest is left; the server cannot decode that and closes, or it can, and answers.
ServeGarbled ==
    /\ link = "up" /\ Len(c2s) > 1 /\ ~Head(c2s).whole
    /\ \/ /\ link' = "down" /\ c2s' = <<>>
          /\ UNCHANGED <<s2c, long>>
       \/ /\ c2s' = [Tail(c2s) EXCEPT ![1].whole = FALSE]
          /\ Respond(Head(c2s).call)
          /\ UNCHANGED link
    /\ UNCHANGED <<ndebug, clientVars>>

\* The server closes: the session was idle, or it stops.  Bytes under way may
\* be lost.
PeerCloses ==
    /\ link = "up"
    /\ link' = "down"
    /\ c2s' = <<>>
    /\ s2c' \in {s2c, <<>>}
    /\ UNCHANGED <<ndebug, clientVars, long>>

Init ==
    /\ ndebug \in BOOLEAN
    /\ pc = "idle" /\ call = 0 /\ need = 0 /\ failed = FALSE /\ result = 0
    /\ connected = FALSE /\ buffer = <<>> /\ link = "none" /\ c2s = <<>> /\ s2c = <<>>
    /\ long = {}
    /\ outcomes = <<>> /\ thrown = {} /\ timeouts = {} /\ sawEof = FALSE

Returns ==
    \/ \E ok \in BOOLEAN : SendRequest(ok)
    \/ Transfer
    \/ ReadLenDone
    \/ ReadBodyDone
    \/ Done
    \/ \E eof \in BOOLEAN : ReadFails(eof)

Next == CallMethod \/ ConnectThrows \/ Returns \/ Serve \/ ServeGarbled \/ PeerCloses

\* The calling thread runs and its timeouts expire; the server owes nothing.
Fairness == WF_vars(Returns)

Spec == Init /\ [][Next]_vars /\ Fairness

-----------------------------------------------------------------------------
Calls == 1 .. MaxCalls

\* Type invariant.
TypeOK ==
    /\ ndebug \in BOOLEAN
    /\ pc \in {"idle", "send", "readLen", "readBody", "done", "aborted"}
    /\ call \in 0 .. MaxCalls /\ need \in Nat /\ failed \in BOOLEAN
    /\ result \in 0 .. MaxCalls /\ connected \in BOOLEAN
    /\ buffer \in Seq(Calls \X Nat) /\ s2c \in Seq(Calls \X Nat)
    /\ link \in {"none", "up", "down"} /\ long \subseteq Calls
    /\ c2s \in Seq([call : Calls, whole : BOOLEAN])
    /\ outcomes \in Seq([failed : BOOLEAN, result : 0 .. MaxCalls])
    /\ Len(outcomes) = IF pc = "idle" THEN call ELSE call - 1
    /\ thrown \subseteq Calls /\ timeouts \subseteq Calls /\ sawEof \in BOOLEAN

\* Whatever timed out before and however the reads are aligned, no response is
\* delivered twice, out of order, or before its call.
AnswersInOrder ==
    \A j \in DOMAIN outcomes :
        /\ outcomes[j].result <= j
        /\ outcomes[j].result # 0 =>
             \A i \in 1 .. j - 1 : outcomes[i].result < outcomes[j].result

\* The calls of which done ran.
Finished == DOMAIN outcomes \ thrown

\* A call whose done ran without a failure did parse a response.
SuccessHasAnswer ==
    \A j \in Finished : ~outcomes[j].failed => outcomes[j].result # 0

\* Until a call gives up waiting or meets a response that does not fit its buffer,
\* a success carries the response of its own call.
OwnAnswerUntilTimeout ==
    \A j \in DOMAIN outcomes :
        /\ outcomes[j].result # 0
        /\ \A c \in timeouts \cup long : c >= j
        => outcomes[j].result = j

\* CallMethod runs done, with a silent server and with a connection that is gone;
\* only the assert of SendRequest and an exception of Connect, which a call meets
\* while no call before it has connected, can keep it from that.
CallReturns ==
    \A c \in Calls :
        (call = c) ~> \/ c \in Finished
                      \/ ~ndebug /\ pc = "aborted"
                      \/ /\ c \in thrown
                         /\ \A i \in 1 .. c - 1 : i \in thrown \/ outcomes[i].failed

\* pb_rpc_controller.h line 45: after a call has finished, Failed() says whether
\* it failed, else the response is the call's.  A call that reports success
\* carries its own answer.
SuccessIsOwnAnswer ==
    \A j \in Finished : ~outcomes[j].failed => outcomes[j].result = j

\* tcp_connection.h line 289: IsConnected tells whether it is connected.  Once a
\* read met the end of the stream the next call sees a connection to re-establish.
EofIsDisconnected == pc = "idle" /\ sawEof => ~connected
=============================================================================

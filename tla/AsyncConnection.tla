--------------------------- MODULE AsyncConnection --------------------------
(***************************************************************************)
(* AsyncConnection of src/src/net/tcp_connection.{h,cpp}: the connection   *)
(* of an accepted socket, used from one pool thread (AssertInThread).      *)
(*                                                                         *)
(* ready is the FIFO of handlers the io_context has still to run: lambdas  *)
(* that were posted and completions of socket operations.  The callbacks   *)
(* are those the two servers install: a read or write error closes the     *)
(* connection; the other calls of the session are actions of their own,    *)
(* possible between any two handlers.                                      *)
(*                                                                         *)
(* The received stream is numbered by bytes: read_buffer_ holds the bytes  *)
(* consumed + 1 .. fetched.  Message i is that of the i-th AsyncWrite.     *)
(***************************************************************************)
EXTENDS Naturals, Sequences, FiniteSets

CONSTANTS
    BufferSize,  \* max_buffer_size of read_buffer_
    ReadLens,    \* arguments of AsyncReadLen
    Delims,      \* positions of the stream at which the delimiter of AsyncReadUtil ends
    MaxBytes,    \* bound: bytes the peer sends
    MaxWrites,   \* bound: calls of AsyncWrite
    MaxReady     \* bound: handlers in ready when the session makes a call

ASSUME ConnAssumption ==
    /\ BufferSize \in Nat \ {0} /\ MaxBytes \in Nat /\ MaxWrites \in Nat
    /\ MaxReady \in Nat
    /\ ReadLens \subseteq Nat /\ Delims \subseteq Nat

VARIABLES
    state,       \* state_
    isReading,   \* is_reading_
    readOp,      \* the outstanding async_read or async_read_until
    consumed,    \* bytes taken out of read_buffer_
    fetched,     \* bytes moved from the socket into read_buffer_
    arrived,     \* bytes the peer has sent
    peer,        \* "up", or "down" once the peer has closed or reset
    writeQueue,  \* write_queue_
    writing,     \* messages of the outstanding async_writes
    ready,       \* handlers to run
    accepted,    \* history: calls of AsyncWrite
    wire,        \* history: messages written to the socket
    closeCalls   \* history: calls of close_callback_

readVars == <<isReading, readOp, consumed, fetched>>
netVars == <<arrived, peer>>
writeVars == <<writeQueue, writing, wire>>
vars == <<state, readVars, netVars, writeVars, ready, accepted, closeCalls>>

NoRead == [kind |-> "none", n |-> 0]

ReadDone(ok, n) == [kind |-> "read", ok |-> ok, n |-> n]
WriteDone(ok) == [kind |-> "wrote", ok |-> ok, n |-> 0]
Posted(m) == [kind |-> "post", ok |-> TRUE, n |-> m]

Handlers ==
    [kind : {"read", "wrote", "post"}, ok : BOOLEAN, n : Nat]

Active == state = "kActived"
Readable == fetched - consumed

\* An operation started on a closed socket completes with an error.
Failed(h) == IF Active THEN <<>> ELSE <<h>>

-----------------------------------------------------------------------------
(***************************************************************************)
(* Close: the exchange on state_ lets one caller through.  Closing the     *)
(* socket aborts the outstanding operations, whose handlers run later.     *)
(***************************************************************************)
Aborted ==
    (IF readOp # NoRead THEN <<ReadDone(FALSE, 0)>> ELSE <<>>)
        \o (IF writing # {} THEN <<WriteDone(FALSE)>> ELSE <<>>)

\* Mutant: state_ is stored and not exchanged.
CloseAgain(rest) ==
    /\ state' = "kClosed"
    /\ closeCalls' = closeCalls + 1
    /\ readOp' = NoRead
    /\ writing' = {}
    /\ ready' = rest \o Aborted

CloseAnd(rest) ==
    IF Active
    THEN /\ state' = "kClosed"
         /\ closeCalls' = closeCalls + 1
         /\ readOp' = NoRead
         /\ writing' = {}
         /\ ready' = rest \o Aborted
    ELSE ready' = rest /\ UNCHANGED <<state, closeCalls, readOp, writing>>

Close ==
    /\ CloseAnd(ready)
    /\ UNCHANGED <<isReading, consumed, fetched, netVars, writeQueue, wire, accepted>>

-----------------------------------------------------------------------------
\* Mutant: the bytes that were read are consumed a second time.
TakeTwice(n) == consumed' = consumed + 2 * n /\ isReading' = FALSE

\* Mutant: is_reading_ is not reset.
TakeStuck(n) == consumed' = consumed + n /\ UNCHANGED isReading

\* OnRead with no error: bytes leave the buffer, the next read may be started.
TakeBytes(n) == consumed' = consumed + n /\ isReading' = FALSE

\* Mutant: off by one.
AlmostEnough(n) == Readable + 1 >= n

\* What AsyncReadUtil left in the buffer is enough for this read.
Enough(n) == Readable >= n

\* AsyncReadLen.  With a read outstanding the call asserts; enough buffered
\* bytes are handed over by a direct call of OnRead.
AsyncReadLen(n) ==
    /\ ~isReading
    /\ Len(ready) < MaxReady
    /\ IF Enough(n)
       THEN /\ IF Active
               THEN TakeBytes(n)
               ELSE isReading' = TRUE /\ UNCHANGED consumed
            /\ UNCHANGED <<readOp, ready>>
       ELSE /\ isReading' = TRUE
            /\ readOp' = IF Active THEN [kind |-> "len", n |-> n] ELSE NoRead
            /\ ready' = ready \o Failed(ReadDone(FALSE, 0))
            /\ UNCHANGED consumed
    /\ UNCHANGED <<state, fetched, netVars, writeVars, accepted, closeCalls>>

AsyncReadUtil ==
    /\ ~isReading
    /\ Len(ready) < MaxReady
    /\ isReading' = TRUE
    /\ readOp' = IF Active THEN [kind |-> "until", n |-> 0] ELSE NoRead
    /\ ready' = ready \o Failed(ReadDone(FALSE, 0))
    /\ UNCHANGED <<state, consumed, fetched, netVars, writeVars, accepted, closeCalls>>

\* AsyncWrite posts the message to the connection's own executor.
AsyncWrite ==
    /\ accepted < MaxWrites
    /\ Len(ready) < MaxReady
    /\ accepted' = accepted + 1
    /\ ready' = Append(ready, Posted(accepted + 1))
    /\ UNCHANGED <<state, readVars, netVars, writeVars, closeCalls>>

-----------------------------------------------------------------------------
(***************************************************************************)
(* The socket, as asio shows it.                                           *)
(***************************************************************************)
PeerSends ==
    /\ peer = "up" /\ arrived < MaxBytes
    /\ arrived' = arrived + 1
    /\ UNCHANGED <<state, readVars, peer, writeVars, ready, accepted, closeCalls>>

PeerGoes ==
    /\ peer = "up"
    /\ peer' = "down"
    /\ UNCHANGED <<state, readVars, arrived, writeVars, ready, accepted, closeCalls>>

\* Mutant: the bytes already in the buffer are asked for again.
WantedAgain ==
    LET room == BufferSize - Readable
    IN  IF readOp.kind = "len" /\ readOp.n < room THEN readOp.n ELSE room

\* transfer_exactly never asks for more than the missing bytes; read_until
\* takes what is there; neither goes past the size of the buffer.
Wanted ==
    LET room == BufferSize - Readable
    IN  IF readOp.kind = "len" /\ readOp.n - Readable < room
        THEN readOp.n - Readable ELSE room

Found == {p \in Delims : consumed < p /\ p <= fetched}

FirstFound == CHOOSE p \in Found : \A q \in Found : p <= q

Fetch(k) ==
    /\ readOp # NoRead
    /\ readOp.kind = "until" => Found = {}
    /\ k <= Wanted /\ fetched + k <= arrived
    /\ fetched' = fetched + k
    /\ UNCHANGED <<state, isReading, readOp, consumed, netVars, writeVars, ready,
                   accepted, closeCalls>>

ReadResult ==
    CASE readOp.kind = "len" /\ Wanted = 0 -> {ReadDone(TRUE, Readable)}
      [] readOp.kind = "until" /\ Found # {} -> {ReadDone(TRUE, FirstFound - consumed)}
      [] readOp.kind = "until" /\ Found = {} /\ Wanted = 0 -> {ReadDone(FALSE, 0)}
      [] OTHER -> IF readOp # NoRead /\ peer = "down" THEN {ReadDone(FALSE, 0)} ELSE {}

ReadCompletes ==
    /\ \E h \in ReadResult : ready' = Append(ready, h)
    /\ readOp' = NoRead
    /\ UNCHANGED <<state, isReading, consumed, fetched, netVars, writeVars, accepted,
                   closeCalls>>

\* A write may succeed after the peer has gone and fails only then.
WriteCompletes(m, ok) ==
    /\ m \in writing
    /\ ok \/ peer = "down"
    /\ writing' = writing \ {m}
    /\ wire' = IF ok THEN Append(wire, m) ELSE wire
    /\ ready' = Append(ready, WriteDone(ok))
    /\ UNCHANGED <<state, readVars, netVars, writeQueue, accepted, closeCalls>>

-----------------------------------------------------------------------------
(***************************************************************************)
(* The handlers.                                                           *)
(***************************************************************************)
\* OnRead of a completion; the session closes the connection on an error.
RunRead ==
    LET h == Head(ready) IN
    /\ h.kind = "read"
    /\ IF Active /\ h.ok
       THEN TakeBytes(h.n) /\ ready' = Tail(ready) /\ UNCHANGED <<state, closeCalls, readOp, writing>>
       ELSE /\ isReading' = (isReading /\ ~Active)
            /\ CloseAnd(Tail(ready))
            /\ UNCHANGED consumed
    /\ UNCHANGED <<fetched, netVars, writeQueue, wire, accepted>>

\* Mutant: the newest message of the queue is written.
DoWriteBack(q) == writing \cup (IF Active THEN {q[Len(q)]} ELSE {})

\* DoWrite starts the write of the front of the queue q.
DoWrite(q) == writing \cup (IF Active THEN {Head(q)} ELSE {})

\* Mutant: the queue is looked at after the message has been added.
RunPostedLate ==
    LET h == Head(ready)
        q == Append(writeQueue, h.n)
        isWriting == q # <<>>
    IN
    /\ h.kind = "post"
    /\ writeQueue' = q
    /\ writing' = IF isWriting THEN writing ELSE DoWrite(q)
    /\ ready' = Tail(ready) \o (IF isWriting THEN <<>> ELSE Failed(WriteDone(FALSE)))
    /\ UNCHANGED <<state, readVars, netVars, wire, accepted, closeCalls>>

\* The lambda of AsyncWrite: the queue is also the flag "a write is under way".
RunPosted ==
    LET h == Head(ready)
        q == Append(writeQueue, h.n)
        isWriting == writeQueue # <<>>
    IN
    /\ h.kind = "post"
    /\ writeQueue' = q
    /\ writing' = IF isWriting THEN writing ELSE DoWrite(q)
    /\ ready' = Tail(ready) \o (IF isWriting THEN <<>> ELSE Failed(WriteDone(FALSE)))
    /\ UNCHANGED <<state, readVars, netVars, wire, accepted, closeCalls>>

\* The completion of DoWrite.  On an error the front stays queued and the
\* session closes the connection; after a close nothing happens.
RunWrote ==
    LET h == Head(ready)
        q == Tail(writeQueue)
    IN
    /\ h.kind = "wrote"
    /\ IF Active /\ h.ok
       THEN /\ writeQueue' = q
            /\ writing' = IF q = <<>> THEN writing ELSE DoWrite(q)
            /\ ready' = Tail(ready)
            /\ UNCHANGED <<state, closeCalls, readOp>>
       ELSE /\ CloseAnd(Tail(ready))
            /\ UNCHANGED writeQueue
    /\ UNCHANGED <<isReading, consumed, fetched, netVars, wire, accepted>>

RunHandler == ready # <<>> /\ (RunRead \/ RunPosted \/ RunWrote)

-----------------------------------------------------------------------------
Init ==
    /\ state = "kActived" /\ closeCalls = 0
    /\ isReading = FALSE /\ readOp = NoRead /\ consumed = 0 /\ fetched = 0
    /\ arrived = 0 /\ peer = "up"
    /\ writeQueue = <<>> /\ writing = {} /\ wire = <<>> /\ accepted = 0
    /\ ready = <<>>

Next ==
    \/ \E n \in ReadLens : AsyncReadLen(n)
    \/ AsyncReadUtil
    \/ AsyncWrite
    \/ Close
    \/ PeerSends
    \/ PeerGoes
    \/ \E k \in 1 .. BufferSize : Fetch(k)
    \/ ReadCompletes
    \/ \E m \in writing, ok \in BOOLEAN : WriteCompletes(m, ok)
    \/ RunHandler

WriteSettles == \E m \in writing, ok \in BOOLEAN : WriteCompletes(m, ok)

\* The pool thread runs its handlers and the network settles every write.
Fairness == WF_vars(RunHandler) /\ WF_vars(WriteSettles)

Spec == Init /\ [][Next]_vars /\ Fairness
-----------------------------------------------------------------------------
Count(h(_)) == Cardinality({i \in DOMAIN ready : h(ready[i])})

IsRead(h) == h.kind = "read"
IsPost(h) == h.kind = "post"
IsWrote(h) == h.kind = "wrote"
IsWritten(h) == h.kind = "wrote" /\ h.ok

\* Type invariant.
TypeOK ==
    /\ state \in {"kActived", "kClosed"}
    /\ isReading \in BOOLEAN
    /\ readOp \in [kind : {"none", "len", "until"}, n : Nat]
    /\ consumed \in 0 .. MaxBytes /\ fetched \in 0 .. MaxBytes /\ arrived \in 0 .. MaxBytes
    /\ peer \in {"up", "down"}
    /\ writeQueue \in Seq(1 .. MaxWrites) /\ writing \subseteq 1 .. MaxWrites
    /\ wire \in Seq(1 .. MaxWrites)
    /\ ready \in Seq(Handlers)
    /\ accepted \in 0 .. MaxWrites /\ closeCalls \in Nat

\* close_callback_ runs once however many of the timer, the read error and the
\* write error ask for a close (the servers erase the session on it).
CloseOnce == closeCalls = IF Active THEN 0 ELSE 1

\* is_reading_ stands for one outstanding read, or its completion not yet run:
\* while the connection lives it never sticks without one, which would stop the
\* session for good, and no second read is ever started beside the first.
OneReader ==
    LET reads == Count(IsRead) + (IF readOp # NoRead THEN 1 ELSE 0)
    IN  /\ reads <= 1
        /\ Active => (isReading <=> reads = 1)

\* The buffer never exceeds its size, and a completion waiting to run only ever
\* claims bytes that are in it.
BytesAccounted ==
    /\ consumed <= fetched /\ fetched <= arrived /\ Readable <= BufferSize
    /\ \A i \in DOMAIN ready : IsRead(ready[i]) /\ ready[i].ok => ready[i].n <= Readable

\* Whatever AsyncReadUtil left in the buffer, a read by length that fits the
\* buffer completes with that length, neither short nor with bytes of the next
\* frame.
LenReadsExact ==
    [][\A n \in ReadLens :
         (readOp = [kind |-> "len", n |-> n] /\ n <= BufferSize /\ readOp' = NoRead
            /\ ReadCompletes /\ ready'[Len(ready')].ok) => ready'[Len(ready')].n = n]_vars

\* On a live connection the messages written, queued and posted are together the
\* messages accepted, in order: none is lost, repeated or overtaken between the
\* post, the queue and the completion that pops it.
NothingLost ==
    LET posts == {i \in DOMAIN ready : IsPost(ready[i])}
        queued == SubSeq(writeQueue, Count(IsWritten) + 1, Len(writeQueue))
        sent == wire \o queued
    IN  Active =>
          /\ \A i \in DOMAIN sent : sent[i] = i
          /\ {ready[i].n : i \in posts} = Len(sent) + 1 .. accepted
          /\ \A i, j \in posts : i < j => ready[i].n < ready[j].n

\* The connection implements the ordered writer, liveness included: a message
\* that was accepted is written unless the connection closes.
Writer == INSTANCE OrderedWriter WITH open <- Active

WriterSpec == Writer!Spec
=============================================================================

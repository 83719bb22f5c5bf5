--------------------------- MODULE PbServerProofs ---------------------------
(***************************************************************************)
(* The server for any number of sessions, ids, pool threads and requests.  *)
(***************************************************************************)
EXTENDS PbServer, FiniteSetTheorems, TLAPS

Is(h, kind, s) == h.kind = kind /\ h.s = s

\* At most one handler of a kind in a FIFO, and the order of two kinds.
Once(q, kind, s) ==
    \A i, j \in DOMAIN q : Is(q[i], kind, s) /\ Is(q[j], kind, s) => i = j
Before(q, first, second, s) ==
    \A i, j \in DOMAIN q : Is(q[i], first, s) /\ Is(q[j], second, s) => i < j

HasOk(q, kind, s) == \E i \in DOMAIN q : Is(q[i], kind, s) /\ q[i].ok
HasFailed(q, kind, s) == \E i \in DOMAIN q : Is(q[i], kind, s) /\ ~q[i].ok

\* The FIFO of a session's thread, and what it holds of the session.
Q(s) == poolQ[thread[s]]
Waits(s, kind) == Has(Q(s), kind, s)
Stored(s) == sessionMap[sid[s]] = s

\* emplace refused the session, or another's erase took it out of the map.
Lost(s) == s \in homeless \cup Evicted

-----------------------------------------------------------------------------
\* Each handler is in the FIFO of its session's thread, once the session is there.
Sits(q, t, th, cn) ==
    \A i \in DOMAIN q : /\ q[i].kind \in {"arm", "start", "read", "wrote", "tick"}
                       /\ th[q[i].s] = t /\ cn[q[i].s] # "none"
Placed ==
    /\ \A i \in DOMAIN mainQ : mainQ[i].kind \in {"accept", "erase"}
    /\ \A t \in 1 .. Threads : Sits(poolQ[t], t, thread, conn)

\* A connection is accepted once.
New(s) ==
    /\ peer[s] = "none" => conn[s] = "none" /\ ~Has(mainQ, "accept", s)
    /\ Has(mainQ, "accept", s) => conn[s] = "none"
    /\ Once(mainQ, "accept", s)
    /\ conn[s] = "none" => /\ rstate[s] = "kReadTotalLen" /\ timer[s] = "none"
                           /\ ~Lost(s) /\ s \notin dangling
    /\ accepting = s => conn[s] # "none"

\* A session posts its erase once, and until it has run the session is stored
\* unless it is lost: so only the erase of a lost session removes another.
Mapped(s) ==
    /\ conn[s] = "active" /\ ~Lost(s) => Stored(s)
    /\ Has(mainQ, "erase", s) => conn[s] = "closed" /\ (Stored(s) \/ Lost(s))
    /\ Once(mainQ, "erase", s)
    /\ \A i \in Ids : sessionMap[i] = s =>
         i = sid[s] /\ (conn[s] = "active" \/ Has(mainQ, "erase", s))

\* The lambda of PostTimerEvent runs before anything else of the session.
ArmFirst(s) ==
    /\ Once(Q(s), "arm", s)
    /\ Before(Q(s), "arm", "start", s)
    /\ Waits(s, "arm") =>
         /\ conn[s] = "active" /\ reading[s] = "none" /\ timer[s] = "none" /\ unwritten[s] = 0
         /\ ~Waits(s, "read") /\ ~Waits(s, "wrote") /\ ~Waits(s, "tick")
    /\ conn[s] # "none" /\ ~Waits(s, "arm") => context[s]

\* One Start, outstanding read or completion, as long as somebody holds the session.
Reader(s) ==
    /\ Once(Q(s), "start", s) /\ Once(Q(s), "read", s)
    /\ ~ (Waits(s, "start") /\ Waits(s, "read"))
    /\ reading[s] # "none" =>
         conn[s] = "active" /\ ~Waits(s, "start") /\ ~Waits(s, "read")
    /\ conn[s] = "active" /\ Alive(s) =>
         reading[s] # "none" \/ Waits(s, "start") \/ Waits(s, "read")

\* What is read next.
Parsing(s) ==
    conn[s] = "active" =>
      /\ reading[s] = "len" \/ Waits(s, "start") => rstate[s] = "kReadTotalLen"
      /\ reading[s] = "body" => rstate[s] = "kReadRequest"

\* A tick that will fire is behind the Start of its session, so that a Start finds
\* its session closed after a write error only.
TickLast(s) ==
    /\ Once(Q(s), "tick", s)
    /\ timer[s] = "expired" => Waits(s, "tick") /\ Before(Q(s), "start", "tick", s)
    /\ conn[s] = "closed" /\ Waits(s, "start") => s \in broken
    /\ s \in dangling => Lost(s) \/ s \in broken

\* Frames are read and dispatched once, and responses written once.
Counted(s) ==
    /\ sent[s] <= MaxRequests /\ decoded[s] + frames[s] <= sent[s]
    /\ conn[s] = "active" /\ rstate[s] = "kReadRequest" /\ HasOk(Q(s), "read", s) =>
         decoded[s] + frames[s] + 1 <= sent[s]

Answered(s) ==
    /\ replied[s] + unwritten[s] <= decoded[s]
    /\ /\ conn[s] = "none" \/ (conn[s] = "active" /\ Alive(s))
       /\ ~HasFailed(Q(s), "wrote", s)
       => replied[s] + unwritten[s] = decoded[s]
    /\ unwritten[s] > 0 => conn[s] = "active"
    /\ conn[s] = "active" => Once(Q(s), "wrote", s)

Session(s) ==
    /\ New(s) /\ Mapped(s) /\ ArmFirst(s) /\ Reader(s) /\ Parsing(s) /\ TickLast(s)
    /\ Counted(s) /\ Answered(s)

IInv == TypeOK /\ Placed /\ EraseRemovesOwn /\ \A s \in Sessions : Session(s)

-----------------------------------------------------------------------------
Kinds == {"accept", "erase", "arm", "start", "read", "wrote", "tick"}

\* Two FIFOs that hold the same of a session.
SameFor(q, r, s) ==
    /\ \A k \in Kinds : /\ Has(r, k, s) <=> Has(q, k, s)
                        /\ Once(q, k, s) => Once(r, k, s)
                        /\ HasOk(r, k, s) <=> HasOk(q, k, s)
                        /\ HasFailed(r, k, s) <=> HasFailed(q, k, s)
    /\ \A k, l \in Kinds : Before(q, k, l, s) => Before(r, k, l, s)

\* Append, element by element.
LEMMA Appended ==
    ASSUME NEW S, NEW q \in Seq(S), NEW h \in S
    PROVE  LET t == Append(q, h)
           IN  /\ t \in Seq(S) /\ Len(q) \in Nat /\ Len(t) = Len(q) + 1
               /\ DOMAIN q = 1 .. Len(q) /\ DOMAIN t = 1 .. Len(t)
               /\ t[Len(q) + 1] = h
               /\ \A i \in 1 .. Len(t) :
                    (i \in 1 .. Len(q) /\ t[i] = q[i]) \/ (i = Len(q) + 1 /\ t[i] = h)
               /\ \A i \in 1 .. Len(q) : i \in 1 .. Len(t) /\ t[i] = q[i]
  OBVIOUS

\* Head and Tail, element by element.
LEMMA Cut ==
    ASSUME NEW S, NEW q \in Seq(S), q # <<>>
    PROVE  LET t == Tail(q)
           IN  /\ t \in Seq(S) /\ Len(q) \in Nat /\ Len(t) \in Nat
               /\ DOMAIN q = 1 .. Len(q) /\ DOMAIN t = 1 .. Len(t)
               /\ 1 \in 1 .. Len(q) /\ Head(q) = q[1] /\ q[1] \in S
               /\ \A i \in 1 .. Len(t) : i + 1 \in 1 .. Len(q) /\ t[i] = q[i + 1]
               /\ \A i \in 1 .. Len(q) : i = 1 \/ (i - 1 \in 1 .. Len(t) /\ t[i - 1] = q[i])
  OBVIOUS

LEMMA Elements ==
    ASSUME NEW S, NEW q \in Seq(S)
    PROVE  DOMAIN q = 1 .. Len(q) /\ Len(q) \in Nat /\ \A i \in DOMAIN q : q[i] \in S
  OBVIOUS

\* What a handler that joins changes.
LEMMA AppendFacts ==
    ASSUME NEW q \in Seq(Handlers), NEW h \in Handlers, NEW k, NEW s
    PROVE  LET t == Append(q, h)
           IN  /\ Has(t, k, s) <=> Has(q, k, s) \/ Is(h, k, s)
               /\ Once(q, k, s) /\ ~ (Is(h, k, s) /\ Has(q, k, s)) => Once(t, k, s)
               /\ HasOk(t, k, s) <=> HasOk(q, k, s) \/ (Is(h, k, s) /\ h.ok)
               /\ HasFailed(t, k, s) <=> HasFailed(q, k, s) \/ (Is(h, k, s) /\ ~h.ok)
<1> DEFINE t == Append(q, h)
<1>1. /\ DOMAIN q = 1 .. Len(q) /\ DOMAIN t = 1 .. Len(t) /\ Len(q) + 1 \in 1 .. Len(t)
      /\ t[Len(q) + 1] = h
      /\ \A i \in 1 .. Len(t) :
           (i \in 1 .. Len(q) /\ t[i] = q[i]) \/ (i = Len(q) + 1 /\ t[i] = h)
      /\ \A i \in 1 .. Len(q) : i \in 1 .. Len(t) /\ t[i] = q[i]
  BY Appended
<1> HIDE DEF t
<1>2. Has(t, k, s) <=> Has(q, k, s) \/ Is(h, k, s)
  <2>1. ASSUME Has(t, k, s) PROVE Has(q, k, s) \/ Is(h, k, s)
    <3>1. PICK i \in DOMAIN t : t[i].kind = k /\ t[i].s = s
      BY <2>1 DEF Has
    <3> QED
      BY <1>1, <3>1 DEF Has, Is
  <2>2. ASSUME Has(q, k, s) \/ Is(h, k, s) PROVE Has(t, k, s)
    BY <1>1, <2>2 DEF Has, Is
  <2> QED
    BY <2>1, <2>2
<1>3. ASSUME Once(q, k, s), ~ (Is(h, k, s) /\ Has(q, k, s)) PROVE Once(t, k, s)
  <2> SUFFICES ASSUME NEW i \in DOMAIN t, NEW j \in DOMAIN t, Is(t[i], k, s), Is(t[j], k, s)
               PROVE  i = j
    BY DEF Once
  <2>1. ASSUME NEW n \in 1 .. Len(q), Is(q[n], k, s) PROVE ~Is(h, k, s)
    BY <1>1, <1>3, <2>1 DEF Has, Is
  <2>2. CASE i \in 1 .. Len(q) /\ t[i] = q[i]
    <3>1. j \in 1 .. Len(q) /\ t[j] = q[j]
      BY <1>1, <2>1, <2>2
    <3> QED
      BY <1>1, <1>3, <2>2, <3>1 DEF Once
  <2>3. CASE i = Len(q) + 1 /\ t[i] = h
    BY <1>1, <2>1, <2>3
  <2> QED
    BY <1>1, <2>2, <2>3
<1>4. HasOk(t, k, s) <=> HasOk(q, k, s) \/ (Is(h, k, s) /\ h.ok)
  <2>1. ASSUME HasOk(t, k, s) PROVE HasOk(q, k, s) \/ (Is(h, k, s) /\ h.ok)
    <3>1. PICK i \in DOMAIN t : Is(t[i], k, s) /\ t[i].ok
      BY <2>1 DEF HasOk
    <3> QED
      BY <1>1, <3>1 DEF HasOk
  <2>2. ASSUME HasOk(q, k, s) \/ (Is(h, k, s) /\ h.ok) PROVE HasOk(t, k, s)
    BY <1>1, <2>2 DEF HasOk
  <2> QED
    BY <2>1, <2>2
<1>5. HasFailed(t, k, s) <=> HasFailed(q, k, s) \/ (Is(h, k, s) /\ ~h.ok)
  <2>1. ASSUME HasFailed(t, k, s) PROVE HasFailed(q, k, s) \/ (Is(h, k, s) /\ ~h.ok)
    <3>1. PICK i \in DOMAIN t : Is(t[i], k, s) /\ ~t[i].ok
      BY <2>1 DEF HasFailed
    <3> QED
      BY <1>1, <3>1 DEF HasFailed
  <2>2. ASSUME HasFailed(q, k, s) \/ (Is(h, k, s) /\ ~h.ok) PROVE HasFailed(t, k, s)
    BY <1>1, <2>2 DEF HasFailed
  <2> QED
    BY <2>1, <2>2
<1> QED
  BY <1>2, <1>3, <1>4, <1>5 DEF t

LEMMA AppendOrder ==
    ASSUME NEW q \in Seq(Handlers), NEW h \in Handlers, NEW k, NEW l, NEW s,
           Before(q, k, l, s), k # l, ~ (Is(h, k, s) /\ Has(q, l, s))
    PROVE  Before(Append(q, h), k, l, s)
<1> DEFINE t == Append(q, h)
<1>1. /\ DOMAIN q = 1 .. Len(q) /\ DOMAIN t = 1 .. Len(t) /\ Len(q) \in Nat
      /\ \A i \in 1 .. Len(t) :
           (i \in 1 .. Len(q) /\ t[i] = q[i]) \/ (i = Len(q) + 1 /\ t[i] = h)
  BY Appended
<1> HIDE DEF t
<1>2. ASSUME NEW i \in DOMAIN t, NEW j \in DOMAIN t, Is(t[i], k, s), Is(t[j], l, s) PROVE i < j
  <2>1. CASE i \in 1 .. Len(q) /\ t[i] = q[i]
    <3>1. CASE j \in 1 .. Len(q) /\ t[j] = q[j]
      BY <1>1, <1>2, <2>1, <3>1 DEF Before
    <3>2. CASE j = Len(q) + 1
      BY <1>1, <2>1, <3>2
    <3> QED
      BY <1>1, <3>1, <3>2
  <2>2. CASE i = Len(q) + 1 /\ t[i] = h
    <3>1. Is(h, k, s) /\ ~Is(h, l, s)
      BY <1>2, <2>2 DEF Is
    <3>2. j \in 1 .. Len(q) /\ t[j] = q[j]
      BY <1>1, <1>2, <2>2, <3>1
    <3> QED
      BY <1>1, <1>2, <3>1, <3>2 DEF Has, Is
  <2> QED
    BY <1>1, <2>1, <2>2
<1> QED
  BY <1>2 DEF Before, t

\* What the first handler changes when it leaves.
LEMMA TailFacts ==
    ASSUME NEW q \in Seq(Handlers), q # <<>>, NEW k, NEW s
    PROVE  LET t == Tail(q)
           IN  /\ Has(q, k, s) <=> Is(Head(q), k, s) \/ Has(t, k, s)
               /\ Once(q, k, s) => Once(t, k, s)
               /\ Once(q, k, s) /\ Is(Head(q), k, s) => ~Has(t, k, s)
               /\ HasOk(q, k, s) <=> (Is(Head(q), k, s) /\ Head(q).ok) \/ HasOk(t, k, s)
               /\ HasFailed(q, k, s) <=> (Is(Head(q), k, s) /\ ~Head(q).ok) \/ HasFailed(t, k, s)
<1> DEFINE t == Tail(q)
<1>1. /\ DOMAIN q = 1 .. Len(q) /\ DOMAIN t = 1 .. Len(t) /\ Len(t) \in Nat
      /\ 1 \in 1 .. Len(q) /\ Head(q) = q[1]
      /\ \A i \in 1 .. Len(t) : i + 1 \in 1 .. Len(q) /\ t[i] = q[i + 1]
      /\ \A i \in 1 .. Len(q) : i = 1 \/ (i - 1 \in 1 .. Len(t) /\ t[i - 1] = q[i])
  BY Cut
<1> HIDE DEF t
<1>2. Has(q, k, s) <=> Is(Head(q), k, s) \/ Has(t, k, s)
  <2>1. ASSUME Has(q, k, s), ~Is(Head(q), k, s) PROVE Has(t, k, s)
    <3>1. PICK i \in 1 .. Len(q) : Is(q[i], k, s)
      BY <1>1, <2>1 DEF Has, Is
    <3>2. i - 1 \in 1 .. Len(t) /\ t[i - 1] = q[i]
      BY <1>1, <2>1, <3>1
    <3> QED
      BY <1>1, <3>1, <3>2 DEF Has, Is
  <2>2. ASSUME Has(t, k, s) PROVE Has(q, k, s)
    <3>1. PICK i \in 1 .. Len(t) : Is(t[i], k, s)
      BY <1>1, <2>2 DEF Has, Is
    <3> QED
      BY <1>1, <3>1 DEF Has, Is
  <2>3. Is(Head(q), k, s) => Has(q, k, s)
    BY <1>1 DEF Has, Is
  <2> QED
    BY <2>1, <2>2, <2>3
<1>3. ASSUME Once(q, k, s), NEW i \in 1 .. Len(t), NEW j \in 1 .. Len(t), Is(t[i], k, s),
             Is(t[j], k, s)
      PROVE  i = j
  <2>1. i + 1 \in DOMAIN q /\ j + 1 \in DOMAIN q /\ t[i] = q[i + 1] /\ t[j] = q[j + 1]
    BY <1>1
  <2>2. i + 1 = j + 1
    BY <1>3, <2>1 DEF Once
  <2> QED
    BY <2>2
<1>4. ASSUME Once(q, k, s), Is(Head(q), k, s), NEW i \in 1 .. Len(t), Is(t[i], k, s) PROVE FALSE
  <2>1. i + 1 \in DOMAIN q /\ 1 \in DOMAIN q /\ t[i] = q[i + 1]
    BY <1>1
  <2>2. i + 1 = 1
    BY <1>1, <1>4, <2>1 DEF Once
  <2> QED
    BY <2>2
<1>5. HasOk(q, k, s) <=> (Is(Head(q), k, s) /\ Head(q).ok) \/ HasOk(t, k, s)
  <2>1. ASSUME HasOk(q, k, s), ~ (Is(Head(q), k, s) /\ Head(q).ok) PROVE HasOk(t, k, s)
    <3>1. PICK i \in 1 .. Len(q) : Is(q[i], k, s) /\ q[i].ok
      BY <1>1, <2>1 DEF HasOk
    <3>2. i - 1 \in 1 .. Len(t) /\ t[i - 1] = q[i]
      BY <1>1, <2>1, <3>1
    <3> QED
      BY <1>1, <3>1, <3>2 DEF HasOk
  <2>2. ASSUME HasOk(t, k, s) PROVE HasOk(q, k, s)
    <3>1. PICK i \in 1 .. Len(t) : Is(t[i], k, s) /\ t[i].ok
      BY <1>1, <2>2 DEF HasOk
    <3> QED
      BY <1>1, <3>1 DEF HasOk
  <2>3. Is(Head(q), k, s) /\ Head(q).ok => HasOk(q, k, s)
    BY <1>1 DEF HasOk
  <2> QED
    BY <2>1, <2>2, <2>3
<1>6. HasFailed(q, k, s) <=> (Is(Head(q), k, s) /\ ~Head(q).ok) \/ HasFailed(t, k, s)
  <2>1. ASSUME HasFailed(q, k, s), ~ (Is(Head(q), k, s) /\ ~Head(q).ok) PROVE HasFailed(t, k, s)
    <3>1. PICK i \in 1 .. Len(q) : Is(q[i], k, s) /\ ~q[i].ok
      BY <1>1, <2>1 DEF HasFailed
    <3>2. i - 1 \in 1 .. Len(t) /\ t[i - 1] = q[i]
      BY <1>1, <2>1, <3>1
    <3> QED
      BY <1>1, <3>1, <3>2 DEF HasFailed
  <2>2. ASSUME HasFailed(t, k, s) PROVE HasFailed(q, k, s)
    <3>1. PICK i \in 1 .. Len(t) : Is(t[i], k, s) /\ ~t[i].ok
      BY <1>1, <2>2 DEF HasFailed
    <3> QED
      BY <1>1, <3>1 DEF HasFailed
  <2>3. Is(Head(q), k, s) /\ ~Head(q).ok => HasFailed(q, k, s)
    BY <1>1 DEF HasFailed
  <2> QED
    BY <2>1, <2>2, <2>3
<1>7. Once(q, k, s) => Once(t, k, s)
  BY <1>1, <1>3 DEF Once
<1>8. Once(q, k, s) /\ Is(Head(q), k, s) => ~Has(t, k, s)
  BY <1>1, <1>4 DEF Has, Is
<1> QED
  BY <1>2, <1>5, <1>6, <1>7, <1>8 DEF t

LEMMA TailOrder ==
    ASSUME NEW q \in Seq(Handlers), q # <<>>, NEW k, NEW l, NEW s, Before(q, k, l, s)
    PROVE  Before(Tail(q), k, l, s) /\ (Is(Head(q), l, s) => ~Has(q, k, s))
<1> DEFINE t == Tail(q)
<1>1. /\ DOMAIN q = 1 .. Len(q) /\ DOMAIN t = 1 .. Len(t) /\ Len(q) \in Nat
      /\ 1 \in 1 .. Len(q) /\ Head(q) = q[1]
      /\ \A i \in 1 .. Len(t) : i + 1 \in 1 .. Len(q) /\ t[i] = q[i + 1]
  BY Cut
<1> HIDE DEF t
<1>2. ASSUME NEW i \in DOMAIN t, NEW j \in DOMAIN t, Is(t[i], k, s), Is(t[j], l, s) PROVE i < j
  <2>1. i + 1 \in DOMAIN q /\ j + 1 \in DOMAIN q /\ t[i] = q[i + 1] /\ t[j] = q[j + 1]
    BY <1>1
  <2>2. i + 1 < j + 1
    BY <1>2, <2>1 DEF Before
  <2> QED
    BY <1>1, <2>2
<1>3. ASSUME Is(Head(q), l, s), Has(q, k, s) PROVE FALSE
  <2>1. PICK i \in DOMAIN q : Is(q[i], k, s)
    BY <1>3 DEF Has, Is
  <2>2. i < 1
    BY <1>1, <1>3, <2>1 DEF Before
  <2> QED
    BY <1>1, <2>2
<1> QED
  BY <1>2, <1>3 DEF Before, t

\* Handlers of other sessions come and go.
LEMMA SameItself == ASSUME NEW q, NEW s PROVE SameFor(q, q, s)
  BY DEF SameFor

LEMMA SameTail ==
    ASSUME NEW q \in Seq(Handlers), q # <<>>, NEW s, Head(q).s # s PROVE SameFor(q, Tail(q), s)
<1>1. \A k \in Kinds : ~Is(Head(q), k, s)
  BY DEF Is
<1> QED
  BY <1>1, TailFacts, TailOrder DEF SameFor

LEMMA SameAppend ==
    ASSUME NEW q \in Seq(Handlers), NEW h \in Handlers, NEW s, h.s # s
    PROVE  SameFor(q, Append(q, h), s)
<1>1. \A k \in Kinds : ~Is(h, k, s)
  BY DEF Is
<1>2. ASSUME NEW k \in Kinds, NEW l \in Kinds, Before(q, k, l, s)
      PROVE  Before(Append(q, h), k, l, s)
  <2>1. CASE k # l
    BY <1>1, <1>2, <2>1, AppendOrder
  <2>2. CASE k = l
    <3>1. ~Has(q, k, s)
      <4> SUFFICES ASSUME NEW i \in DOMAIN q, Is(q[i], k, s) PROVE FALSE
        BY DEF Has, Is
      <4>1. i < i
        BY <1>2, <2>2 DEF Before
      <4> QED
        BY <4>1, Elements
    <3>2. ~Has(Append(q, h), k, s)
      BY <1>1, <3>1, AppendFacts
    <3> QED
      BY <2>2, <3>2 DEF Before, Has, Is
  <2> QED
    BY <2>1, <2>2
<1> QED
  BY <1>1, <1>2, AppendFacts DEF SameFor

LEMMA SameTrans ==
    ASSUME NEW p, NEW q, NEW r, NEW s, SameFor(p, q, s), SameFor(q, r, s) PROVE SameFor(p, r, s)
  BY DEF SameFor

-----------------------------------------------------------------------------
USE ServerAssumption DEF ServerAssumption

\* What a step leaves alone of a session: its FIFO, main_ioct_'s, its entry in the map.
SameQ(s) == SameFor(poolQ[thread[s]], poolQ'[thread'[s]], s)
SameMain(s) == SameFor(mainQ, mainQ', s)
SameMap(s) == sid'[s] = sid[s] /\ \A i \in Ids : sessionMap'[i] = s <=> sessionMap[i] = s
SameMarks(s) ==
    /\ accepting' = s => accepting = s
    /\ Lost(s)' <=> Lost(s)
    /\ s \in broken' <=> s \in broken
    /\ s \in dangling' <=> s \in dangling

Kept(s) ==
    /\ conn'[s] = conn[s] /\ rstate'[s] = rstate[s] /\ reading'[s] = reading[s]
    /\ context'[s] = context[s] /\ timer'[s] = timer[s] /\ peer'[s] = peer[s]
    /\ frames'[s] = frames[s] /\ sent'[s] = sent[s] /\ decoded'[s] = decoded[s]
    /\ unwritten'[s] = unwritten[s] /\ replied'[s] = replied[s]

LEMMA NewKept ==
    ASSUME NEW s \in Sessions, New(s), SameMain(s), SameMarks(s), conn'[s] = conn[s],
           peer'[s] = peer[s], rstate'[s] = rstate[s], timer'[s] = timer[s]
    PROVE  New(s)'
  BY DEF New, SameMain, SameFor, SameMarks, Kinds

LEMMA MappedKept ==
    ASSUME NEW s \in Sessions, TypeOK, Mapped(s), SameMain(s), SameMap(s), SameMarks(s),
           conn'[s] = conn[s]
    PROVE  Mapped(s)'
<1>1. sid[s] \in Ids
  BY DEF TypeOK
<1> QED
  BY <1>1 DEF Mapped, Stored, SameMain, SameMap, SameFor, SameMarks, Kinds

LEMMA ArmFirstKept ==
    ASSUME NEW s \in Sessions, ArmFirst(s), SameQ(s), conn'[s] = conn[s],
           reading'[s] = reading[s], timer'[s] = timer[s], unwritten'[s] = unwritten[s],
           context'[s] = context[s]
    PROVE  ArmFirst(s)'
  BY DEF ArmFirst, Waits, Q, SameQ, SameFor, Kinds

\* A session is destroyed once, and comes to be only when it is accepted.
LEMMA AliveKept ==
    ASSUME NEW s \in Sessions, TypeOK, SameQ(s), SameMap(s), SameMarks(s), conn'[s] = conn[s],
           Alive(s)'
    PROVE  Alive(s)
<1>1. sid[s] \in Ids
  BY DEF TypeOK
<1>2. Has(poolQ'[thread'[s]], "arm", s) => Has(poolQ[thread[s]], "arm", s)
  BY DEF SameQ, SameFor, Kinds
<1> QED
  BY <1>1, <1>2 DEF Alive, SameMap, SameMarks

LEMMA AliveStays ==
    ASSUME NEW s, UNCHANGED <<accepting, sessionMap, sid>>, conn[s] # "none",
           Waits(s, "arm")' => Waits(s, "arm"), Alive(s)'
    PROVE  Alive(s)
  BY DEF Alive, Waits, Q

LEMMA ReaderKept ==
    ASSUME NEW s \in Sessions, Reader(s), SameQ(s), Alive(s)' => Alive(s), conn'[s] = conn[s],
           reading'[s] = reading[s]
    PROVE  Reader(s)'
  BY DEF Reader, Waits, Q, SameQ, SameFor, Kinds

LEMMA ParsingKept ==
    ASSUME NEW s \in Sessions, Parsing(s), SameQ(s), conn'[s] = conn[s],
           reading'[s] = reading[s], rstate'[s] = rstate[s]
    PROVE  Parsing(s)'
  BY DEF Parsing, Waits, Q, SameQ, SameFor, Kinds

LEMMA TickLastKept ==
    ASSUME NEW s \in Sessions, TickLast(s), SameQ(s), SameMarks(s), conn'[s] = conn[s],
           timer'[s] = timer[s]
    PROVE  TickLast(s)'
  BY DEF TickLast, Waits, Q, SameQ, SameFor, SameMarks, Kinds

LEMMA CountedKept ==
    ASSUME NEW s \in Sessions, Counted(s), SameQ(s), conn'[s] = conn[s],
           rstate'[s] = rstate[s], decoded'[s] = decoded[s], frames'[s] = frames[s],
           sent'[s] = sent[s]
    PROVE  Counted(s)'
  BY DEF Counted, Q, SameQ, SameFor, Kinds

LEMMA AnsweredKept ==
    ASSUME NEW s \in Sessions, Answered(s), SameQ(s), Alive(s)' => Alive(s), conn'[s] = conn[s],
           decoded'[s] = decoded[s], unwritten'[s] = unwritten[s], replied'[s] = replied[s]
    PROVE  Answered(s)'
  BY DEF Answered, Waits, Q, SameQ, SameFor, Kinds

LEMMA SessionKept ==
    ASSUME NEW s \in Sessions, TypeOK, Session(s), Kept(s), SameQ(s), SameMain(s), SameMap(s),
           SameMarks(s)
    PROVE  Session(s)'
  BY AliveKept, NewKept, MappedKept, ArmFirstKept, ReaderKept, ParsingKept, TickLastKept,
     CountedKept, AnsweredKept DEF Session, Kept

\* A step that gives one thread another FIFO.
LEMMA OtherFifo ==
    ASSUME TypeOK, NEW t \in 1 .. Threads, NEW u, poolQ' = [poolQ EXCEPT ![t] = u],
           NEW o \in Sessions, thread'[o] = thread[o],
           thread[o] = t => SameFor(poolQ[t], u, o)
    PROVE  SameQ(o)
<1>1. poolQ'[thread[o]] = IF thread[o] = t THEN u ELSE poolQ[thread[o]]
  BY DEF TypeOK
<1> QED
  BY <1>1, SameItself DEF SameQ

-----------------------------------------------------------------------------
\* The conjuncts of TypeOK, one by one.
Typed ==
    /\ mainQ \in Seq(Handlers) /\ poolQ \in [1 .. Threads -> Seq(Handlers)]
    /\ nextIoct \in 1 .. Threads
    /\ accepting \in Sessions \cup {None}
    /\ sessionMap \in [Ids -> Sessions \cup {None}]
    /\ sid \in [Sessions -> Ids] /\ thread \in [Sessions -> 1 .. Threads]
    /\ conn \in [Sessions -> {"none", "active", "closed"}]
    /\ rstate \in [Sessions -> {"kReadTotalLen", "kReadRequest"}]
    /\ reading \in [Sessions -> {"none", "len", "body"}]
    /\ context \in [Sessions -> BOOLEAN]
    /\ timer \in [Sessions -> {"none", "armed", "expired"}]
    /\ peer \in [Sessions -> {"none", "up", "down"}]
    /\ frames \in [Sessions -> 0 .. MaxRequests] /\ sent \in [Sessions -> 0 .. MaxRequests]
    /\ decoded \in [Sessions -> 0 .. MaxRequests] /\ unwritten \in [Sessions -> 0 .. MaxRequests]
    /\ replied \in [Sessions -> 0 .. MaxRequests]
    /\ erased \subseteq Sessions \X Sessions
    /\ homeless \subseteq Sessions /\ broken \subseteq Sessions /\ dangling \subseteq Sessions
    /\ up \in BOOLEAN

LEMMA TypedIsTypeOK == Typed <=> TypeOK
  BY Zenon DEF Typed, TypeOK

LEMMA Parts == ASSUME IInv PROVE Typed /\ TypeOK /\ Placed /\ EraseRemovesOwn
  BY TypedIsTypeOK DEF IInv

\* IInv of the next state, session by session.
LEMMA Whole ==
    ASSUME Typed', Placed', EraseRemovesOwn', NEW s \in Sessions, Session(s)',
           \A o \in Sessions \ {s} : Session(o)'
    PROVE  IInv'
<1>1. TypeOK'
  BY TypedIsTypeOK, PTL
<1> QED
  BY <1>1 DEF IInv

\* A FIFO without a session's handlers.
LEMMA NoneOf ==
    ASSUME NEW q \in Seq(Handlers), NEW r \in Seq(Handlers), NEW s,
           \A i \in DOMAIN q : q[i].s # s, \A i \in DOMAIN r : r[i].s # s
    PROVE  /\ SameFor(q, r, s)
           /\ \A k \in Kinds : ~Has(q, k, s) /\ ~HasOk(q, k, s) /\ ~HasFailed(q, k, s)
           /\ \A k \in Kinds : Once(q, k, s) /\ \A l \in Kinds : Before(q, k, l, s)
  BY DEF SameFor, Has, Once, Before, HasOk, HasFailed, Is

\* Handlers stay placed when connections do not begin anew.
LEMMA SitsOn ==
    ASSUME NEW q \in Seq(Handlers), NEW t, NEW th, NEW cn, NEW th2, NEW cn2, Sits(q, t, th, cn),
           \A o \in Sessions : cn[o] # "none" => th2[o] = th[o] /\ cn2[o] # "none"
    PROVE  Sits(q, t, th2, cn2)
<1>1. \A i \in DOMAIN q : q[i].s \in Sessions
  <2>1. \A i \in DOMAIN q : q[i] \in Handlers
    BY Elements
  <2> QED
    BY <2>1 DEF Handlers
<1> QED
  BY <1>1 DEF Sits

LEMMA PlacedOn ==
    ASSUME Typed, Placed, UNCHANGED poolQ,
           \A i \in DOMAIN mainQ' : mainQ'[i].kind \in {"accept", "erase"},
           \A o \in Sessions : conn[o] # "none" => thread'[o] = thread[o] /\ conn'[o] # "none"
    PROVE  Placed'
<1> SUFFICES ASSUME NEW t \in 1 .. Threads PROVE Sits(poolQ[t], t, thread', conn')
  BY DEF Placed
<1>1. poolQ[t] \in Seq(Handlers) /\ Sits(poolQ[t], t, thread, conn)
  BY DEF Typed, Placed
<1> QED
  BY <1>1, SitsOn

\* The client sends a frame or goes: the server sees nothing yet.
LEMMA ClientSendsStep ==
    ASSUME IInv, UNCHANGED up, NEW s \in Sessions, ClientSends(s) PROVE IInv'
<1>1. /\ sent[s] < MaxRequests /\ sent' = [sent EXCEPT ![s] = @ + 1]
      /\ frames' = [frames EXCEPT ![s] = @ + 1]
      /\ UNCHANGED <<mainQ, poolQ, nextIoct, accepting, sessionMap, sid, thread, conn, rstate,
                     reading, context, timer, peer, decoded, unwritten, replied, erased, homeless,
                     broken, dangling>>
  BY DEF ClientSends, sessVars, histVars
<1>2. Typed /\ TypeOK /\ Placed /\ Session(s)
  BY Parts DEF IInv
<1>3. /\ sent[s] \in Nat /\ frames[s] \in Nat /\ decoded[s] \in Nat
      /\ decoded[s] + frames[s] <= sent[s]
  BY <1>2 DEF Typed, Session, Counted
<1>4. /\ sent'[s] = sent[s] + 1 /\ frames'[s] = frames[s] + 1
      /\ \A o \in Sessions \ {s} : sent'[o] = sent[o] /\ frames'[o] = frames[o]
  BY <1>1, <1>2 DEF Typed
<1>5. Typed'
  <2>1. sent[s] + 1 \in 0 .. MaxRequests /\ frames[s] + 1 \in 0 .. MaxRequests
    <3>1. sent[s] < MaxRequests /\ MaxRequests \in Nat
      BY <1>1
    <3> QED
      BY <1>3, <3>1
  <2> QED
    BY <1>1, <1>2, <2>1 DEF Typed
<1>6. Placed' /\ EraseRemovesOwn'
  BY <1>1, <1>2, Parts DEF Placed, EraseRemovesOwn, Evicted
<1>7. \A o \in Sessions : SameQ(o) /\ SameMain(o) /\ SameMap(o) /\ SameMarks(o)
  BY <1>1, SameItself DEF SameQ, SameMain, SameMap, SameMarks, Lost, Evicted
<1>8. Counted(s)'
  BY <1>1, <1>2, <1>3, <1>4 DEF Session, Counted, Q
<1>9. Session(s)'
  BY <1>1, <1>2, <1>7, <1>8, AliveKept, NewKept, MappedKept, ArmFirstKept, ReaderKept,
     ParsingKept, TickLastKept, AnsweredKept DEF Session
<1>10. \A o \in Sessions \ {s} : Session(o)'
  BY <1>1, <1>2, <1>4, <1>7, SessionKept DEF Kept, IInv
<1> QED
  BY <1>5, <1>6, <1>9, <1>10, Whole

LEMMA ClientGoesStep ==
    ASSUME IInv, UNCHANGED up, NEW s \in Sessions, ClientGoes(s) PROVE IInv'
<1>1. /\ peer[s] = "up" /\ peer' = [peer EXCEPT ![s] = "down"]
      /\ UNCHANGED <<mainQ, poolQ, nextIoct, accepting, sessionMap, sid, thread, conn, rstate,
                     reading, context, timer, frames, sent, decoded, unwritten, replied, erased,
                     homeless, broken, dangling>>
  BY DEF ClientGoes, sessVars, histVars
<1>2. Typed /\ TypeOK /\ Placed /\ Session(s)
  BY Parts DEF IInv
<1>3. peer'[s] = "down" /\ \A o \in Sessions \ {s} : peer'[o] = peer[o]
  BY <1>1, <1>2 DEF Typed
<1>4. Typed'
  BY <1>1, <1>2 DEF Typed
<1>5. Placed' /\ EraseRemovesOwn'
  BY <1>1, <1>2, Parts DEF Placed, EraseRemovesOwn, Evicted
<1>6. \A o \in Sessions : SameQ(o) /\ SameMain(o) /\ SameMap(o) /\ SameMarks(o)
  BY <1>1, SameItself DEF SameQ, SameMain, SameMap, SameMarks, Lost, Evicted
<1>7. New(s)'
  BY <1>1, <1>2, <1>3, <1>6 DEF Session, New, SameMarks
<1>8. Session(s)'
  BY <1>1, <1>2, <1>6, <1>7, AliveKept, MappedKept, ArmFirstKept, ReaderKept, ParsingKept,
     TickLastKept, CountedKept, AnsweredKept DEF Session
<1>9. \A o \in Sessions \ {s} : Session(o)'
  BY <1>1, <1>2, <1>3, <1>6, SessionKept DEF Kept, IInv
<1> QED
  BY <1>4, <1>5, <1>8, <1>9, Whole

\* A client connects: its session has nothing in any FIFO yet.
LEMMA NextInPool == ASSUME NEW n \in 1 .. Threads PROVE NextIoct(n) \in 1 .. Threads
  BY DEF NextIoct

LEMMA ClientConnectsStep ==
    ASSUME IInv, UNCHANGED up, NEW s \in Sessions, NEW i \in Ids, ClientConnects(s, i) PROVE IInv'
<1> DEFINE h == H("accept", s, TRUE)
<1>1. /\ peer[s] = "none" /\ peer' = [peer EXCEPT ![s] = "up"]
      /\ sid' = [sid EXCEPT ![s] = i] /\ thread' = [thread EXCEPT ![s] = nextIoct]
      /\ nextIoct' = NextIoct(nextIoct) /\ mainQ' = Append(mainQ, h)
      /\ UNCHANGED <<poolQ, accepting, sessionMap, conn, rstate, reading, context, timer, frames,
                     sent,
                     decoded, unwritten, replied, erased, homeless, broken, dangling>>
  BY DEF ClientConnects, histVars
<1>2. Typed /\ TypeOK /\ Placed /\ Session(s)
  BY Parts DEF IInv
<1>3. h \in Handlers /\ h.kind = "accept" /\ h.s = s
  BY DEF H, Handlers
<1> HIDE DEF h
<1>4. /\ peer'[s] = "up" /\ sid'[s] = i /\ thread'[s] = nextIoct
      /\ \A o \in Sessions \ {s} :
           peer'[o] = peer[o] /\ sid'[o] = sid[o] /\ thread'[o] = thread[o]
  BY <1>1, <1>2 DEF Typed
<1>5. /\ conn[s] = "none" /\ ~Has(mainQ, "accept", s) /\ ~Has(mainQ, "erase", s)
      /\ \A j \in Ids : sessionMap[j] # s
  BY <1>1, <1>2 DEF Session, New, Mapped
<1>6. mainQ \in Seq(Handlers) /\ mainQ' \in Seq(Handlers)
  BY <1>1, <1>2, <1>3, Appended DEF Typed
<1>7. Typed'
  <2>1. nextIoct' \in 1 .. Threads
    BY <1>1, <1>2, NextInPool DEF Typed
  <2> QED
    BY <1>1, <1>2, <1>6, <2>1 DEF Typed
<1>8. Placed'
  <2>1. \A j \in DOMAIN mainQ' : mainQ'[j].kind \in {"accept", "erase"}
    BY <1>1, <1>2, <1>3, <1>6, Appended DEF Placed
  <2>2. \A o \in Sessions : conn[o] # "none" => thread'[o] = thread[o] /\ conn'[o] # "none"
    BY <1>1, <1>4, <1>5
  <2> QED
    BY <1>1, <1>2, <2>1, <2>2, PlacedOn
<1>9. SameQ(s)
  <2>1. ASSUME NEW t \in 1 .. Threads
        PROVE  poolQ[t] \in Seq(Handlers) /\ \A j \in DOMAIN poolQ[t] : poolQ[t][j].s # s
    <3>1. poolQ[t] \in Seq(Handlers) /\ Sits(poolQ[t], t, thread, conn)
      BY <1>2 DEF Typed, Placed
    <3> QED
      BY <1>5, <3>1 DEF Sits
  <2>2. thread[s] \in 1 .. Threads /\ nextIoct \in 1 .. Threads
    BY <1>2 DEF Typed
  <2> QED
    BY <1>1, <1>4, <2>1, <2>2, NoneOf DEF SameQ
<1>10. \A o \in Sessions : SameMarks(o)
  BY <1>1 DEF SameMarks, Lost, Evicted
<1>11. New(s)'
  <2>1. Once(mainQ', "accept", s)
    BY <1>1, <1>2, <1>3, <1>5, <1>6, AppendFacts DEF Session, New
  <2> QED
    BY <1>1, <1>2, <1>4, <1>5, <1>10, <2>1 DEF Session, New, SameMarks
<1>12. Mapped(s)'
  <2>1. ~Has(mainQ', "erase", s) /\ Once(mainQ', "erase", s)
    <3>1. ~Is(h, "erase", s)
      BY <1>3 DEF Is
    <3> QED
      BY <1>1, <1>2, <1>3, <1>5, <1>6, <3>1, AppendFacts DEF Session, Mapped
  <2> QED
    BY <1>1, <1>2, <1>5, <2>1 DEF Session, Mapped
<1>13. Session(s)'
  <2>1. ~Alive(s)'
    BY <1>1, <1>5 DEF Alive
  <2> QED
    BY <1>1, <1>2, <1>9, <1>10, <1>11, <1>12, <2>1, ArmFirstKept, ReaderKept, ParsingKept,
       TickLastKept, CountedKept, AnsweredKept DEF Session
<1>14. ASSUME NEW o \in Sessions \ {s} PROVE Session(o)'
  <2>1. SameMain(o)
    BY <1>1, <1>3, <1>6, SameAppend DEF SameMain
  <2>2. SameQ(o) /\ SameMap(o)
    BY <1>1, <1>4, SameItself DEF SameQ, SameMap
  <2> QED
    BY <1>1, <1>2, <1>4, <1>10, <2>1, <2>2, SessionKept DEF Kept, IInv
<1>15. EraseRemovesOwn'
  BY <1>1, Parts DEF EraseRemovesOwn, Evicted
<1> QED
  BY <1>7, <1>8, <1>13, <1>14, <1>15, Whole

-----------------------------------------------------------------------------
\* The head of main_ioct_'s FIFO leaves.
LEMMA MainTail ==
    ASSUME Typed, mainQ # <<>>, Placed, mainQ' = Tail(mainQ)
    PROVE  /\ Head(mainQ) \in Handlers /\ Head(mainQ).s \in Sessions
           /\ mainQ' \in Seq(Handlers)
           /\ \A i \in DOMAIN mainQ' : mainQ'[i].kind \in {"accept", "erase"}
           /\ \A o \in Sessions : o # Head(mainQ).s => SameMain(o)
           /\ Has(mainQ, Head(mainQ).kind, Head(mainQ).s)
           /\ \A k, o : /\ Has(mainQ', k, o) => Has(mainQ, k, o)
                        /\ Once(mainQ, k, o) => Once(mainQ', k, o)
                        /\ Once(mainQ, k, o) /\ Is(Head(mainQ), k, o) => ~Has(mainQ', k, o)
<1>1. mainQ \in Seq(Handlers)
  BY DEF Typed
<1>2. Head(mainQ) \in Handlers /\ mainQ' \in Seq(Handlers)
  BY <1>1, Cut
<1>3. Head(mainQ).s \in Sessions
  BY <1>2 DEF Handlers
<1>4. \A i \in DOMAIN mainQ' : mainQ'[i].kind \in {"accept", "erase"}
  BY <1>1, Cut DEF Placed
<1>5. \A o \in Sessions : o # Head(mainQ).s => SameMain(o)
  BY <1>1, SameTail DEF SameMain
<1>6. Is(Head(mainQ), Head(mainQ).kind, Head(mainQ).s)
  BY DEF Is
<1> QED
  BY <1>1, <1>2, <1>3, <1>4, <1>5, <1>6, TailFacts

\* The session of a connection that is accepted: its lambdas of PostTimerEvent and
\* Start are the only handlers it has.
LEMMA NewFifo ==
    ASSUME Typed, Placed, NEW s \in Sessions, conn[s] = "none",
           poolQ' = PostTo(s, <<H("arm", s, TRUE)>> \o PostStart(s)),
           UNCHANGED thread
    PROVE  /\ poolQ' \in [1 .. Threads -> Seq(Handlers)]
           /\ \A k \in Kinds : Waits(s, k)' <=> k \in {"arm", "start"}
           /\ \A k \in Kinds : Once(Q(s), k, s)'
           /\ ~HasFailed(Q(s), "wrote", s)' /\ ~HasOk(Q(s), "read", s)'
           /\ Before(Q(s), "arm", "start", s)'
           /\ \A o \in Sessions \ {s} : SameQ(o)
           /\ \A t \in 1 .. Threads : \A i \in DOMAIN poolQ'[t] :
                \/ i \in DOMAIN poolQ[t] /\ poolQ'[t][i] = poolQ[t][i]
                \/ t = thread[s] /\ poolQ'[t][i].kind \in {"arm", "start"} /\ poolQ'[t][i].s = s
<1> DEFINE q == poolQ[thread[s]]
           a == H("arm", s, TRUE)
           b == H("start", s, TRUE)
           r == Append(q, a)
           u == Append(r, b)
<1>1. /\ a \in Handlers /\ a.kind = "arm" /\ a.s = s
      /\ b \in Handlers /\ b.kind = "start" /\ b.s = s
  BY DEF H, Handlers
<1>2. thread[s] \in 1 .. Threads /\ q \in Seq(Handlers) /\ Sits(q, thread[s], thread, conn)
  BY DEF Typed, Placed
<1>3. poolQ' = [poolQ EXCEPT ![thread[s]] = u]
  <2> DEFINE ab == <<a>> \o <<b>>
  <2>1. poolQ' = [poolQ EXCEPT ![thread[s]] = q \o ab]
    BY DEF PostTo, PostStart
  <2> HIDE DEF a, b
  <2>2. q \o ab = u
    BY <1>1, <1>2
  <2> HIDE DEF ab, u, q
  <2> QED
    BY <2>1, <2>2
<1> HIDE DEF a, b, q
<1>4. r \in Seq(Handlers) /\ u \in Seq(Handlers)
  BY <1>1, <1>2, Appended
<1>5. poolQ'[thread'[s]] = u /\ \A t \in 1 .. Threads : t # thread[s] => poolQ'[t] = poolQ[t]
  BY <1>2, <1>3, <1>4 DEF Typed
<1>6. \A i \in DOMAIN q : q[i].s # s
  BY <1>2 DEF Sits
<1>7. /\ \A k \in Kinds : ~Has(q, k, s) /\ ~HasOk(q, k, s) /\ ~HasFailed(q, k, s)
      /\ \A k \in Kinds : Once(q, k, s) /\ \A l \in Kinds : Before(q, k, l, s)
  BY <1>2, <1>6, NoneOf
<1>8. \A k : (Is(a, k, s) <=> k = "arm") /\ (Is(b, k, s) <=> k = "start")
  BY <1>1 DEF Is
<1>9. \A k \in Kinds : /\ Has(r, k, s) <=> k = "arm"
                       /\ Once(r, k, s)
                       /\ HasOk(r, k, s) => k = "arm"
                       /\ HasFailed(r, k, s) => k = "arm"
  BY <1>1, <1>2, <1>7, <1>8, AppendFacts
<1>10. Before(r, "arm", "start", s)
  BY <1>1, <1>2, <1>7, AppendOrder DEF Kinds
<1> HIDE DEF r
<1>11. \A k \in Kinds : /\ Has(u, k, s) <=> k \in {"arm", "start"}
                        /\ Once(u, k, s)
                        /\ HasOk(u, k, s) => k \in {"arm", "start"}
                        /\ HasFailed(u, k, s) => k \in {"arm", "start"}
  BY <1>1, <1>4, <1>8, <1>9, AppendFacts
<1>12. Before(u, "arm", "start", s)
  BY <1>1, <1>4, <1>8, <1>10, AppendOrder
<1>13. ASSUME NEW o \in Sessions \ {s} PROVE SameQ(o)
  <2>1. SameFor(q, r, o) /\ SameFor(r, u, o)
    BY <1>1, <1>2, <1>4, SameAppend DEF r
  <2>2. SameFor(q, u, o)
    BY <2>1, SameTrans
  <2> QED
    BY <1>2, <1>3, <2>2, OtherFifo, TypedIsTypeOK DEF q
<1>14. \A i \in DOMAIN u : (i \in DOMAIN q /\ u[i] = q[i]) \/ u[i] \in {a, b}
  <2>1. \A i \in DOMAIN u : (i \in DOMAIN r /\ u[i] = r[i]) \/ u[i] = b
    BY <1>1, <1>4, Appended
  <2>2. \A i \in DOMAIN r : (i \in DOMAIN q /\ r[i] = q[i]) \/ r[i] = a
    BY <1>1, <1>2, Appended DEF r
  <2> QED
    BY <2>1, <2>2
<1>15. ASSUME NEW t \in 1 .. Threads, NEW i \in DOMAIN poolQ'[t]
       PROVE  \/ i \in DOMAIN poolQ[t] /\ poolQ'[t][i] = poolQ[t][i]
              \/ t = thread[s] /\ poolQ'[t][i].kind \in {"arm", "start"} /\ poolQ'[t][i].s = s
  <2>1. CASE t = thread[s]
    <3>1. poolQ'[t] = u
      BY <1>5, <2>1
    <3>2. (i \in DOMAIN q /\ u[i] = q[i]) \/ u[i] \in {a, b}
      BY <1>14, <3>1
    <3> QED
      BY <1>1, <2>1, <3>1, <3>2 DEF q
  <2>2. CASE t # thread[s]
    BY <1>5, <2>2
  <2> QED
    BY <2>1, <2>2
<1>16. poolQ' \in [1 .. Threads -> Seq(Handlers)]
  BY <1>2, <1>3, <1>4 DEF Typed
<1> HIDE DEF u
<1>17. /\ \A k \in Kinds : Waits(s, k)' <=> k \in {"arm", "start"}
       /\ \A k \in Kinds : Once(Q(s), k, s)'
       /\ ~HasFailed(Q(s), "wrote", s)' /\ ~HasOk(Q(s), "read", s)'
       /\ Before(Q(s), "arm", "start", s)'
  BY <1>5, <1>11, <1>12 DEF Waits, Q, Kinds
<1> QED
  BY <1>13, <1>15, <1>16, <1>17

LEMMA OnAcceptStep ==
    ASSUME IInv, UNCHANGED up, OnAccept, NEW s \in Sessions, s = Head(mainQ).s
    PROVE  IInv'
<1>1. /\ mainQ # <<>> /\ Head(mainQ).kind = "accept" /\ mainQ' = Tail(mainQ)
      /\ accepting' = s
      /\ conn' = [conn EXCEPT ![s] = "active"]
      /\ poolQ' = PostTo(s, <<H("arm", s, TRUE)>> \o PostStart(s))
      /\ \/ /\ sessionMap[sid[s]] = None
            /\ sessionMap' = [sessionMap EXCEPT ![sid[s]] = s] /\ homeless' = homeless
         \/ homeless' = homeless \cup {s} /\ sessionMap' = sessionMap
      /\ UNCHANGED <<nextIoct, sid, thread, rstate, reading, context, timer, peer, frames, sent,
                     decoded, unwritten, replied, erased, broken, dangling>>
  BY DEF OnAccept, sessVars, netVars
<1>2. Typed /\ TypeOK /\ Placed
  BY Parts
<1>3. /\ s \in Sessions /\ mainQ' \in Seq(Handlers) /\ Has(mainQ, "accept", s)
      /\ \A i \in DOMAIN mainQ' : mainQ'[i].kind \in {"accept", "erase"}
      /\ \A o \in Sessions : o # s => SameMain(o)
      /\ \A k : /\ Has(mainQ', k, s) => Has(mainQ, k, s)
                /\ Once(mainQ, k, s) => Once(mainQ', k, s)
                /\ Once(mainQ, k, s) /\ k = "accept" => ~Has(mainQ', k, s)
  BY <1>1, <1>2, MainTail DEF Is
<1>4. Session(s)
  BY <1>3 DEF IInv
<1>5. /\ conn[s] = "none" /\ rstate[s] = "kReadTotalLen" /\ timer[s] = "none"
      /\ ~Lost(s) /\ s \notin dangling /\ peer[s] # "none"
      /\ ~Has(mainQ, "erase", s) /\ reading[s] = "none" /\ ~ (unwritten[s] > 0)
      /\ \A i \in Ids : sessionMap[i] # s
  BY <1>3, <1>4 DEF Session, New, Mapped, Reader, Answered
<1>6. /\ conn'[s] = "active" /\ \A o \in Sessions \ {s} : conn'[o] = conn[o]
  BY <1>1, <1>2, <1>3 DEF Typed
<1>7. /\ poolQ' \in [1 .. Threads -> Seq(Handlers)]
      /\ \A k \in Kinds : Waits(s, k)' <=> k \in {"arm", "start"}
      /\ \A k \in Kinds : Once(Q(s), k, s)'
      /\ ~HasFailed(Q(s), "wrote", s)' /\ ~HasOk(Q(s), "read", s)'
      /\ Before(Q(s), "arm", "start", s)'
      /\ \A o \in Sessions \ {s} : SameQ(o)
      /\ \A t \in 1 .. Threads : \A i \in DOMAIN poolQ'[t] :
           \/ i \in DOMAIN poolQ[t] /\ poolQ'[t][i] = poolQ[t][i]
           \/ t = thread[s] /\ poolQ'[t][i].kind \in {"arm", "start"} /\ poolQ'[t][i].s = s
  <2>1. /\ Typed /\ Placed /\ conn[s] = "none" /\ UNCHANGED thread
        /\ poolQ' = PostTo(s, <<H("arm", s, TRUE)>> \o PostStart(s))
    BY <1>1, <1>2, <1>5
  <2> QED
    BY <2>1, NewFifo, Zenon
<1>8. Typed'
  <2>1. sid[s] \in Ids
    BY <1>2, <1>3 DEF Typed
  <2>2. sessionMap' \in [Ids -> Sessions \cup {None}] /\ homeless' \subseteq Sessions
    BY <1>1, <1>2, <1>3, <2>1 DEF Typed
  <2> QED
    BY <1>1, <1>2, <1>3, <1>7, <2>2 DEF Typed
<1>9. Placed'
  <2>1. ASSUME NEW t \in 1 .. Threads, NEW i \in DOMAIN poolQ'[t]
        PROVE  /\ poolQ'[t][i].kind \in {"arm", "start", "read", "wrote", "tick"}
               /\ thread'[poolQ'[t][i].s] = t /\ conn'[poolQ'[t][i].s] # "none"
    <3>1. CASE i \in DOMAIN poolQ[t] /\ poolQ'[t][i] = poolQ[t][i]
      <4>1. poolQ[t] \in Seq(Handlers) /\ Sits(poolQ[t], t, thread, conn)
        BY <1>2 DEF Typed, Placed
      <4>2. poolQ[t][i] \in Handlers
        BY <3>1, <4>1, Elements
      <4>3. poolQ[t][i].s \in Sessions
        BY <4>2 DEF Handlers
      <4>4. /\ poolQ[t][i].kind \in {"arm", "start", "read", "wrote", "tick"}
            /\ thread[poolQ[t][i].s] = t /\ conn[poolQ[t][i].s] # "none"
        BY <3>1, <4>1 DEF Sits
      <4>5. poolQ[t][i].s # s
        BY <1>5, <4>4
      <4> QED
        BY <1>1, <1>6, <3>1, <4>3, <4>4, <4>5
    <3>2. CASE t = thread[s] /\ poolQ'[t][i].kind \in {"arm", "start"} /\ poolQ'[t][i].s = s
      BY <1>1, <1>6, <3>2
    <3> QED
      BY <1>7, <3>1, <3>2
  <2> QED
    BY <1>3, <2>1 DEF Placed, Sits
<1>10. EraseRemovesOwn' /\ \A o \in Sessions \ {s} : Lost(o)' <=> Lost(o)
  BY <1>1, Parts DEF EraseRemovesOwn, Evicted, Lost
<1>11. New(s)'
  BY <1>1, <1>3, <1>4, <1>5, <1>6 DEF Session, New
<1>12. Mapped(s)'
  <2>1. ~Has(mainQ', "erase", s) /\ Once(mainQ', "erase", s)
    BY <1>3, <1>4, <1>5 DEF Session, Mapped
  <2>2. sid[s] \in Ids /\ sid' = sid
    BY <1>1, <1>2, <1>3 DEF Typed
  <2>3. CASE sessionMap' = [sessionMap EXCEPT ![sid[s]] = s] /\ homeless' = homeless
    <3>1. sessionMap'[sid[s]] = s /\ \A i \in Ids \ {sid[s]} : sessionMap'[i] = sessionMap[i]
      BY <1>2, <2>2, <2>3 DEF Typed
    <3> QED
      BY <1>5, <1>6, <2>1, <2>2, <2>3, <3>1 DEF Mapped, Stored
  <2>4. CASE homeless' = homeless \cup {s} /\ sessionMap' = sessionMap
    <3>1. Lost(s)'
      BY <2>4 DEF Lost
    <3> QED
      BY <1>5, <1>6, <2>1, <2>2, <2>4, <3>1 DEF Mapped
  <2> QED
    BY <1>1, <2>3, <2>4
<1>13. ArmFirst(s)' /\ Reader(s)' /\ Parsing(s)' /\ TickLast(s)'
  <2>1. Waits(s, "arm")' /\ Waits(s, "start")' /\ ~Waits(s, "read")' /\ ~Waits(s, "wrote")'
        /\ ~Waits(s, "tick")'
    BY <1>7 DEF Kinds
  <2>2. /\ Once(Q(s), "arm", s)' /\ Once(Q(s), "start", s)' /\ Once(Q(s), "read", s)'
        /\ Once(Q(s), "tick", s)'
    BY <1>7 DEF Kinds
  <2>3. /\ unwritten'[s] = 0 /\ reading'[s] = "none" /\ timer'[s] = "none"
        /\ rstate'[s] = "kReadTotalLen" /\ s \notin dangling'
    BY <1>1, <1>2, <1>3, <1>5 DEF Typed
  <2>4. ArmFirst(s)'
    BY <1>6, <1>7, <2>1, <2>2, <2>3 DEF ArmFirst
  <2>5. Reader(s)'
    BY <1>6, <2>1, <2>2, <2>3 DEF Reader
  <2>6. Parsing(s)'
    BY <2>3 DEF Parsing
  <2>7. TickLast(s)'
    BY <1>6, <2>2, <2>3 DEF TickLast
  <2> QED
    BY <2>4, <2>5, <2>6, <2>7
<1>14. Counted(s)' /\ Answered(s)'
  <2>1. Counted(s)'
    BY <1>1, <1>4, <1>5, <1>7 DEF Session, Counted
  <2>2. replied[s] + unwritten[s] = decoded[s] /\ replied[s] + unwritten[s] <= decoded[s]
    <3>1. ~HasFailed(Q(s), "wrote", s)
      <4>1. Q(s) \in Seq(Handlers) /\ Sits(Q(s), thread[s], thread, conn)
        BY <1>2, <1>3 DEF Typed, Placed, Q
      <4> QED
        BY <1>5, <4>1 DEF HasFailed, Sits, Is
    <3> QED
      BY <1>4, <1>5, <3>1 DEF Session, Answered
  <2>3. unwritten[s] = 0 /\ Once(Q(s), "wrote", s)' /\ ~Waits(s, "wrote")'
    BY <1>2, <1>3, <1>5, <1>7 DEF Typed, Kinds
  <2>4. Answered(s)'
    BY <1>1, <1>6, <2>2, <2>3 DEF Answered
  <2> QED
    BY <2>1, <2>4
<1>15. Session(s)'
  BY <1>11, <1>12, <1>13, <1>14 DEF Session
<1>16. ASSUME NEW o \in Sessions \ {s} PROVE Session(o)'
  <2>1. SameMap(o)
    <3>1. o # None
      OBVIOUS
    <3>2. \A i \in Ids : sessionMap'[i] = sessionMap[i]
                         \/ (sessionMap[i] = None /\ sessionMap'[i] = s)
      BY <1>1, <1>2 DEF Typed
    <3> QED
      BY <1>1, <3>1, <3>2 DEF SameMap
  <2>2. SameMarks(o)
    BY <1>1, <1>10 DEF SameMarks
  <2>3. SameMain(o) /\ SameQ(o)
    BY <1>3, <1>7
  <2>4. Kept(o)
    BY <1>1, <1>6 DEF Kept
  <2> QED
    BY <1>2, <2>1, <2>2, <2>3, <2>4, SessionKept DEF IInv
<1> QED
  BY <1>3, <1>8, <1>9, <1>10, <1>15, <1>16, Whole

LEMMA EraseSessionStep ==
    ASSUME IInv, UNCHANGED up, EraseSession, NEW s \in Sessions, s = Head(mainQ).s
    PROVE  IInv'
<1> DEFINE x == sessionMap[sid[s]]
<1>1. /\ mainQ # <<>> /\ Head(mainQ).kind = "erase" /\ mainQ' = Tail(mainQ)
      /\ sessionMap' = [sessionMap EXCEPT ![sid[s]] = None]
      /\ erased' = IF x = None THEN erased ELSE erased \cup {<<s, x>>}
      /\ UNCHANGED <<poolQ, nextIoct, accepting, sid, thread, conn, rstate, reading, context,
                     timer, peer, frames, sent, decoded, unwritten, replied, homeless, broken,
                     dangling>>
  BY DEF EraseSession, sessVars, netVars
<1>2. Typed /\ TypeOK /\ Placed /\ EraseRemovesOwn
  BY Parts
<1>3. /\ s \in Sessions /\ mainQ' \in Seq(Handlers) /\ Has(mainQ, "erase", s)
      /\ \A i \in DOMAIN mainQ' : mainQ'[i].kind \in {"accept", "erase"}
      /\ \A o \in Sessions : o # s => SameMain(o)
      /\ \A k : /\ Has(mainQ', k, s) => Has(mainQ, k, s)
                /\ Once(mainQ, k, s) => Once(mainQ', k, s)
                /\ Once(mainQ, k, s) /\ k = "erase" => ~Has(mainQ', k, s)
  BY <1>1, <1>2, MainTail DEF Is
<1>4. Session(s)
  BY <1>3 DEF IInv
<1>5. /\ conn[s] = "closed" /\ (x = s \/ Lost(s)) /\ sid[s] \in Ids
      /\ x \in Sessions \cup {None}
  BY <1>2, <1>3, <1>4 DEF Session, Mapped, Stored, Typed
<1> HIDE DEF x
<1>6. sessionMap'[sid[s]] = None /\ \A i \in Ids \ {sid[s]} : sessionMap'[i] = sessionMap[i]
  BY <1>1, <1>2, <1>5 DEF Typed
\* What the erase adds to the lost sessions.
<1>7. /\ Evicted' = Evicted \cup (IF x \in {None, s} THEN {} ELSE {x})
      /\ \A o \in Sessions : Lost(o)' <=> Lost(o) \/ (o = x /\ o # s)
  <2>1. CASE x = None
    BY <1>1, <2>1 DEF Evicted, Lost
  <2>2. CASE x # None /\ x = s
    <3>1. \A p \in erased' : p \in erased \/ (p[1] = s /\ p[2] = x)
      BY <1>1, <2>2
    <3>2. Evicted' = Evicted
      BY <1>1, <2>2, <3>1 DEF Evicted
    <3> QED
      BY <1>1, <2>2, <3>2 DEF Lost
  <2>3. CASE x # None /\ x # s
    <3>1. \A p \in erased' : p \in erased \/ (p[1] = s /\ p[2] = x)
      BY <1>1, <2>3
    <3>2. <<s, x>> \in erased' /\ erased \subseteq erased' /\ <<s, x>>[1] = s /\ <<s, x>>[2] = x
      BY <1>1, <2>3
    <3>3. Evicted' = Evicted \cup {x}
      BY <2>3, <3>1, <3>2 DEF Evicted
    <3> QED
      BY <1>1, <2>3, <3>3 DEF Lost
  <2> QED
    BY <2>1, <2>2, <2>3
<1>8. Typed'
  <2>1. erased' \subseteq Sessions \X Sessions
    <3>1. erased \subseteq Sessions \X Sessions
      BY <1>2 DEF Typed
    <3> QED
      BY <1>1, <1>3, <1>5, <3>1
  <2>2. sessionMap' \in [Ids -> Sessions \cup {None}]
    BY <1>1, <1>2, <1>5 DEF Typed
  <2> QED
    BY <1>1, <1>2, <1>3, <2>1, <2>2 DEF Typed
<1>9. Placed'
  BY <1>1, <1>2, <1>3, PlacedOn
<1>10. EraseRemovesOwn'
  <2>1. ASSUME NEW p \in erased' PROVE p[1] = p[2] \/ p[1] \in homeless' \cup Evicted'
    <3>1. p \in erased \/ (p[1] = s /\ p[2] = x)
      BY <1>1
    <3> QED
      BY <1>1, <1>2, <1>5, <1>7, <3>1 DEF EraseRemovesOwn, Lost
  <2>2. homeless' = {} => Evicted' = {}
    BY <1>1, <1>2, <1>5, <1>7 DEF EraseRemovesOwn, Lost
  <2> QED
    BY <2>1, <2>2 DEF EraseRemovesOwn
<1>11. \A o \in Sessions : SameQ(o) /\ (Alive(o)' => Alive(o))
  <2>1. \A o \in Sessions : SameQ(o)
    BY <1>1, SameItself DEF SameQ
  <2>2. ASSUME NEW o \in Sessions, sessionMap'[sid[o]] = o PROVE sessionMap[sid[o]] = o
    <3>1. sid[o] \in Ids /\ o # None
      BY <1>2 DEF Typed
    <3> QED
      BY <1>6, <2>2, <3>1
  <2>3. ASSUME NEW o \in Sessions, Alive(o)' PROVE Alive(o)
    BY <1>1, <2>2, <2>3 DEF Alive
  <2> QED
    BY <2>1, <2>3
\* The session whose erase it is.
<1>12. SameMarks(s)
  BY <1>1, <1>7 DEF SameMarks
<1>13. New(s)'
  BY <1>1, <1>3, <1>4, <1>5 DEF Session, New
<1>14. Mapped(s)'
  <2>1. ~Has(mainQ', "erase", s) /\ Once(mainQ', "erase", s)
    BY <1>3, <1>4 DEF Session, Mapped
  <2>2. \A i \in Ids : sessionMap'[i] # s
    BY <1>3, <1>4, <1>5, <1>6 DEF Session, Mapped
  <2> QED
    BY <1>1, <1>5, <2>1, <2>2 DEF Mapped
<1>15. Session(s)'
  BY <1>1, <1>3, <1>4, <1>11, <1>12, <1>13, <1>14, ArmFirstKept, ReaderKept, ParsingKept,
     TickLastKept, CountedKept, AnsweredKept DEF Session
\* The one that a lost session's erase takes out of the map.
<1>16. ASSUME NEW o \in Sessions \ {s}, o = x PROVE Session(o)'
  <2>1. Session(o) /\ Lost(o)' /\ SameMain(o) /\ SameQ(o) /\ (Alive(o)' => Alive(o))
    BY <1>3, <1>7, <1>11, <1>16 DEF IInv
  <2>2. /\ sid[o] = sid[s] /\ conn[o] # "none"
        /\ \A i \in Ids : sessionMap[i] = o => i = sid[s]
    BY <1>5, <1>16, <2>1 DEF Session, Mapped, x
  <2>3. New(o)'
    BY <1>1, <2>1, <2>2 DEF Session, New, SameMain, SameFor, Kinds
  <2>4. Mapped(o)'
    <3>1. \A i \in Ids : sessionMap'[i] # o
      BY <1>6, <2>2
    <3>2. (Has(mainQ', "erase", o) => Has(mainQ, "erase", o)) /\ Once(mainQ', "erase", o)
      BY <2>1 DEF Session, Mapped, SameMain, SameFor, Kinds
    <3> QED
      BY <1>1, <2>1, <3>1, <3>2 DEF Session, Mapped
  <2>5. TickLast(o)'
    BY <1>1, <2>1 DEF Session, TickLast, Waits, Q
  <2> QED
    BY <1>1, <2>1, <2>3, <2>4, <2>5, ArmFirstKept, ReaderKept, ParsingKept, CountedKept,
       AnsweredKept DEF Session
<1>17. ASSUME NEW o \in Sessions \ {s}, o # x PROVE Session(o)'
  <2>1. SameMap(o)
    <3>1. sessionMap[sid[s]] # o /\ o # None
      BY <1>17 DEF x
    <3> QED
      BY <1>1, <1>6, <3>1 DEF SameMap
  <2>2. SameMarks(o)
    BY <1>1, <1>7, <1>17 DEF SameMarks
  <2>3. SameMain(o) /\ Kept(o)
    BY <1>1, <1>3 DEF Kept
  <2> QED
    BY <1>2, <1>11, <2>1, <2>2, <2>3, SessionKept DEF IInv
<1> QED
  BY <1>3, <1>8, <1>9, <1>10, <1>15, <1>16, <1>17, Whole

-----------------------------------------------------------------------------
LEMMA OkIsThere ==
    ASSUME NEW q, NEW k, NEW s
    PROVE  /\ HasOk(q, k, s) => Has(q, k, s)
           /\ HasFailed(q, k, s) => Has(q, k, s)
           /\ ~Has(q, k, s) => Once(q, k, s)
           /\ \A l : ~Has(q, k, s) => Before(q, l, k, s) /\ Before(q, k, l, s)
  BY DEF HasOk, HasFailed, Has, Once, Before, Is

\* The socket or the timer posts one handler of a session.
LEMMA PostOne ==
    ASSUME Typed, Placed, NEW s \in Sessions, NEW x \in Handlers, x.s = s,
           x.kind \in {"start", "read", "wrote", "tick"}, conn[s] # "none",
           poolQ' = PostTo(s, <<x>>), UNCHANGED <<thread, conn, mainQ>>
    PROVE  /\ poolQ' \in [1 .. Threads -> Seq(Handlers)] /\ Placed'
           /\ \A k \in Kinds :
                /\ Waits(s, k)' <=> Waits(s, k) \/ k = x.kind
                /\ Once(Q(s), k, s) /\ ~ (k = x.kind /\ Waits(s, k)) => Once(Q(s), k, s)'
                /\ HasOk(Q(s), k, s)' <=> HasOk(Q(s), k, s) \/ (k = x.kind /\ x.ok)
                /\ HasFailed(Q(s), k, s)' <=> HasFailed(Q(s), k, s) \/ (k = x.kind /\ ~x.ok)
           /\ \A k, l \in Kinds :
                Before(Q(s), k, l, s) /\ k # l /\ ~ (k = x.kind /\ Waits(s, l)) =>
                  Before(Q(s), k, l, s)'
           /\ \A o \in Sessions \ {s} : SameQ(o)
<1> DEFINE q == poolQ[thread[s]]
           u == Append(q, x)
<1>1. thread[s] \in 1 .. Threads /\ q \in Seq(Handlers) /\ Sits(q, thread[s], thread, conn)
  BY DEF Typed, Placed
<1> HIDE DEF q
<1>2. u \in Seq(Handlers) /\ u = q \o <<x>>
  BY <1>1
<1>3. poolQ' = [poolQ EXCEPT ![thread[s]] = u]
  BY <1>2 DEF PostTo, q
<1>4. poolQ'[thread'[s]] = u /\ \A t \in 1 .. Threads : t # thread[s] => poolQ'[t] = poolQ[t]
  BY <1>1, <1>2, <1>3 DEF Typed
<1>5. \A k : Is(x, k, s) <=> k = x.kind
  BY DEF Is
<1>6. ASSUME NEW o \in Sessions \ {s} PROVE SameQ(o)
  <2>1. SameFor(q, u, o)
    BY <1>1, SameAppend
  <2> QED
    BY <1>1, <1>3, <2>1, OtherFifo, TypedIsTypeOK DEF q
<1>7. Placed'
  <2>1. ASSUME NEW t \in 1 .. Threads PROVE Sits(poolQ'[t], t, thread, conn)
    <3>1. CASE t = thread[s]
      <4>1. \A i \in DOMAIN u : (i \in DOMAIN q /\ u[i] = q[i]) \/ u[i] = x
        BY <1>1, Appended
      <4>2. Sits(u, t, thread, conn)
        BY <1>1, <3>1, <4>1 DEF Sits
      <4> QED
        BY <1>4, <3>1, <4>2
    <3>2. CASE t # thread[s]
      BY <1>4, <3>2 DEF Placed
    <3> QED
      BY <3>1, <3>2
  <2> QED
    BY <2>1 DEF Placed
<1>8. poolQ' \in [1 .. Threads -> Seq(Handlers)]
  BY <1>1, <1>2, <1>3 DEF Typed
<1>9. \A k \in Kinds :
        /\ Has(u, k, s) <=> Has(q, k, s) \/ k = x.kind
        /\ Once(q, k, s) /\ ~ (k = x.kind /\ Has(q, k, s)) => Once(u, k, s)
        /\ HasOk(u, k, s) <=> HasOk(q, k, s) \/ (k = x.kind /\ x.ok)
        /\ HasFailed(u, k, s) <=> HasFailed(q, k, s) \/ (k = x.kind /\ ~x.ok)
  BY <1>1, <1>5, AppendFacts
<1>10. \A k, l \in Kinds :
         Before(q, k, l, s) /\ k # l /\ ~ (k = x.kind /\ Has(q, l, s)) => Before(u, k, l, s)
  BY <1>1, <1>5, AppendOrder
<1> HIDE DEF u
<1>11. /\ \A k \in Kinds :
            /\ Waits(s, k)' <=> Waits(s, k) \/ k = x.kind
            /\ Once(Q(s), k, s) /\ ~ (k = x.kind /\ Waits(s, k)) => Once(Q(s), k, s)'
            /\ HasOk(Q(s), k, s)' <=> HasOk(Q(s), k, s) \/ (k = x.kind /\ x.ok)
            /\ HasFailed(Q(s), k, s)' <=> HasFailed(Q(s), k, s) \/ (k = x.kind /\ ~x.ok)
       /\ \A k, l \in Kinds :
            Before(Q(s), k, l, s) /\ k # l /\ ~ (k = x.kind /\ Waits(s, l)) =>
              Before(Q(s), k, l, s)'
  BY <1>4, <1>9, <1>10 DEF Waits, Q, q
<1> QED
  BY <1>6, <1>7, <1>8, <1>11

LEMMA Made ==
    ASSUME NEW s \in Sessions, NEW ok \in BOOLEAN, NEW k \in Kinds
    PROVE  /\ H(k, s, ok) \in Handlers /\ H(k, s, ok).kind = k /\ H(k, s, ok).s = s
           /\ H(k, s, ok).ok <=> ok
<1>1. H(k, s, ok) \in Handlers
  BY DEF H, Handlers, Kinds
<1> QED
  BY <1>1 DEF H

LEMMA ExpireStep ==
    ASSUME IInv, UNCHANGED up, NEW s \in Sessions, Expire(s) PROVE IInv'
<1> DEFINE x == H("tick", s, TRUE)
<1>1. /\ timer[s] = "armed" /\ ~Waits(s, "tick") /\ timer' = [timer EXCEPT ![s] = "expired"]
      /\ poolQ' = PostTo(s, <<x>>)
      /\ UNCHANGED <<mainQ, nextIoct, accepting, sessionMap, sid, thread, conn, rstate, reading,
                     context, peer, frames, sent, decoded, unwritten, replied, erased, homeless, broken,
                     dangling>>
  BY DEF Expire, Waits, Q, sessVars, netVars, histVars
<1>2. Typed /\ TypeOK /\ Placed /\ Session(s)
  BY Parts DEF IInv
<1>3. x \in Handlers /\ x.kind = "tick" /\ x.s = s
  <2>1. TRUE \in BOOLEAN /\ "tick" \in Kinds
    BY DEF Kinds
  <2> QED
    BY <2>1, Made, Zenon
<1> HIDE DEF x
<1>4. conn[s] # "none" /\ ~Waits(s, "arm")
  BY <1>1, <1>2 DEF Session, New, ArmFirst
<1>5. /\ poolQ' \in [1 .. Threads -> Seq(Handlers)] /\ Placed'
      /\ \A k \in Kinds :
           /\ Waits(s, k)' <=> Waits(s, k) \/ k = x.kind
           /\ Once(Q(s), k, s) /\ ~ (k = x.kind /\ Waits(s, k)) => Once(Q(s), k, s)'
           /\ HasOk(Q(s), k, s)' <=> HasOk(Q(s), k, s) \/ (k = x.kind /\ x.ok)
           /\ HasFailed(Q(s), k, s)' <=> HasFailed(Q(s), k, s) \/ (k = x.kind /\ ~x.ok)
      /\ \A k, l \in Kinds :
           Before(Q(s), k, l, s) /\ k # l /\ ~ (k = x.kind /\ Waits(s, l)) =>
             Before(Q(s), k, l, s)'
      /\ \A o \in Sessions \ {s} : SameQ(o)
  <2>1. /\ x.kind \in {"start", "read", "wrote", "tick"} /\ UNCHANGED <<thread, conn, mainQ>>
        /\ conn[s] # "none"
    BY <1>1, <1>3, <1>4
  <2> QED
    BY <1>1, <1>2, <1>3, <2>1, PostOne, Zenon
<1>6. timer'[s] = "expired" /\ \A o \in Sessions \ {s} : timer'[o] = timer[o]
  BY <1>1, <1>2 DEF Typed
<1>7. Typed'
  BY <1>1, <1>2, <1>5 DEF Typed
<1>8. EraseRemovesOwn'
  BY <1>1, Parts DEF EraseRemovesOwn, Evicted
<1>9. \A o \in Sessions : SameMain(o) /\ SameMap(o) /\ SameMarks(o)
  BY <1>1, SameItself DEF SameMain, SameMap, SameMarks, Lost, Evicted
<1>10. New(s)' /\ Mapped(s)'
  <2>1. New(s)'
    BY <1>1, <1>2, <1>4 DEF Session, New
  <2> QED
    BY <1>1, <1>2, <1>9, <2>1, MappedKept DEF Session
<1>11. ArmFirst(s)' /\ Reader(s)' /\ Parsing(s)'
  <2>1. /\ ~Waits(s, "arm")' /\ (Waits(s, "start")' <=> Waits(s, "start"))
        /\ (Waits(s, "read")' <=> Waits(s, "read"))
    BY <1>3, <1>4, <1>5 DEF Kinds
  <2>2. /\ Once(Q(s), "arm", s)' /\ Once(Q(s), "start", s)' /\ Once(Q(s), "read", s)'
        /\ Before(Q(s), "arm", "start", s)'
    BY <1>2, <1>3, <1>5 DEF Session, ArmFirst, Reader, Kinds
  <2>3. ArmFirst(s)'
    BY <1>1, <1>2, <1>4, <2>1, <2>2 DEF Session, ArmFirst
  <2>4. Reader(s)'
    BY <1>1, <1>2, <1>4, <2>1, <2>2, AliveStays DEF Session, Reader
  <2>5. Parsing(s)'
    BY <1>1, <1>2, <2>1 DEF Session, Parsing
  <2> QED
    BY <2>3, <2>4, <2>5
<1>12. TickLast(s)'
  <2>1. Before(Q(s), "start", "tick", s)
    BY <1>1, OkIsThere DEF Waits
  <2>2. Before(Q(s), "start", "tick", s)' /\ Once(Q(s), "tick", s)'
    BY <1>1, <1>2, <1>3, <1>5, <2>1 DEF Session, TickLast, Kinds
  <2>3. Waits(s, "tick")' /\ (Waits(s, "start")' <=> Waits(s, "start"))
    BY <1>3, <1>5 DEF Kinds
  <2> QED
    BY <1>1, <1>2, <1>9, <2>2, <2>3 DEF Session, TickLast, SameMarks
<1>13. Counted(s)' /\ Answered(s)'
  <2>1. /\ HasOk(Q(s), "read", s)' <=> HasOk(Q(s), "read", s)
        /\ HasFailed(Q(s), "wrote", s)' <=> HasFailed(Q(s), "wrote", s)
        /\ Waits(s, "wrote")' <=> Waits(s, "wrote")
        /\ Once(Q(s), "wrote", s) => Once(Q(s), "wrote", s)'
        /\ Waits(s, "arm")' => Waits(s, "arm")
    BY <1>3, <1>5 DEF Kinds
  <2>2. Counted(s)'
    BY <1>1, <1>2, <2>1 DEF Session, Counted
  <2> QED
    BY <1>1, <1>2, <1>4, <2>1, <2>2, AliveStays DEF Session, Answered
<1>14. Session(s)'
  BY <1>10, <1>11, <1>12, <1>13 DEF Session
<1>15. \A o \in Sessions \ {s} : Session(o)'
  BY <1>1, <1>2, <1>5, <1>6, <1>9, SessionKept DEF Kept, IInv
<1> QED
  BY <1>5, <1>7, <1>8, <1>14, <1>15, Whole

\* The outstanding read of a live connection settles.
LEMMA ReadSettlesStep ==
    ASSUME IInv, UNCHANGED up, NEW s \in Sessions, NEW b \in BOOLEAN, reading[s] # "none",
           b => frames[s] > 0, poolQ' = PostTo(s, <<H("read", s, b)>>), ReadSettles(s)
    PROVE  IInv'
<1> DEFINE x == H("read", s, b)
<1>1. /\ poolQ' = PostTo(s, <<x>>)
      /\ frames' = [frames EXCEPT ![s] = IF reading[s] = "body" /\ @ > 0 THEN @ - 1 ELSE @]
      /\ reading' = [reading EXCEPT ![s] = "none"]
      /\ UNCHANGED <<mainQ, nextIoct, accepting, sessionMap, sid, thread, conn, rstate, context,
                     timer, peer, sent, decoded, unwritten, replied, erased, homeless, broken, dangling>>
  BY DEF ReadSettles, sessVars, histVars
<1>2. Typed /\ TypeOK /\ Placed /\ Session(s)
  BY Parts DEF IInv
<1>3. x \in Handlers /\ x.kind = "read" /\ x.s = s /\ (x.ok <=> b)
  <2>1. x \in Handlers /\ x.kind = "read" /\ x.s = s
    BY DEF H, Handlers
  <2>2. x.ok <=> b
    BY DEF H
  <2> QED
    BY <2>1, <2>2
<1> HIDE DEF x
<1>4. /\ conn[s] = "active"
      /\ ~Waits(s, "arm") /\ ~Waits(s, "start") /\ ~Waits(s, "read")
  BY <1>2 DEF Session, Reader, ArmFirst
<1>5. /\ poolQ' \in [1 .. Threads -> Seq(Handlers)] /\ Placed'
      /\ \A k \in Kinds :
           /\ Waits(s, k)' <=> Waits(s, k) \/ k = x.kind
           /\ Once(Q(s), k, s) /\ ~ (k = x.kind /\ Waits(s, k)) => Once(Q(s), k, s)'
           /\ HasOk(Q(s), k, s)' <=> HasOk(Q(s), k, s) \/ (k = x.kind /\ x.ok)
           /\ HasFailed(Q(s), k, s)' <=> HasFailed(Q(s), k, s) \/ (k = x.kind /\ ~x.ok)
      /\ \A k, l \in Kinds :
           Before(Q(s), k, l, s) /\ k # l /\ ~ (k = x.kind /\ Waits(s, l)) =>
             Before(Q(s), k, l, s)'
      /\ \A o \in Sessions \ {s} : SameQ(o)
  <2>1. /\ x.kind \in {"start", "read", "wrote", "tick"} /\ UNCHANGED <<thread, conn, mainQ>>
        /\ conn[s] # "none"
    BY <1>1, <1>3, <1>4
  <2> QED
    BY <1>1, <1>2, <1>3, <2>1, PostOne, Zenon
<1>6. /\ reading'[s] = "none"
      /\ \A o \in Sessions \ {s} : reading'[o] = reading[o] /\ frames'[o] = frames[o]
  BY <1>1, <1>2 DEF Typed
<1>7. /\ frames[s] \in 0 .. MaxRequests /\ decoded[s] \in 0 .. MaxRequests
      /\ sent[s] \in 0 .. MaxRequests
      /\ frames'[s] = IF reading[s] = "body" /\ frames[s] > 0 THEN frames[s] - 1 ELSE frames[s]
  BY <1>1, <1>2 DEF Typed
<1>8. Typed'
  <2>1. frames' \in [Sessions -> 0 .. MaxRequests]
    <3> DEFINE n == IF reading[s] = "body" /\ frames[s] > 0 THEN frames[s] - 1 ELSE frames[s]
    <3>1. n \in 0 .. MaxRequests
      BY <1>7
    <3>2. frames' = [frames EXCEPT ![s] = n]
      BY <1>1
    <3> HIDE DEF n
    <3> QED
      BY <1>2, <3>1, <3>2 DEF Typed
  <2>2. reading' \in [Sessions -> {"none", "len", "body"}]
    BY <1>1, <1>2 DEF Typed
  <2> QED
    BY <1>1, <1>2, <1>5, <2>1, <2>2 DEF Typed
<1>9. EraseRemovesOwn'
  BY <1>1, Parts DEF EraseRemovesOwn, Evicted
<1>10. \A o \in Sessions : SameMain(o) /\ SameMap(o) /\ SameMarks(o)
  BY <1>1, SameItself DEF SameMain, SameMap, SameMarks, Lost, Evicted
<1>11. New(s)' /\ Mapped(s)'
  BY <1>1, <1>2, <1>10, NewKept, MappedKept DEF Session
<1>12. /\ \A k \in Kinds : k # "read" => (Waits(s, k)' <=> Waits(s, k))
       /\ Waits(s, "read")'
  BY <1>3, <1>5 DEF Kinds
<1>13. ArmFirst(s)' /\ Reader(s)' /\ Parsing(s)'
  <2>1. /\ ~Waits(s, "arm")' /\ ~Waits(s, "start")'
    BY <1>4, <1>12 DEF Kinds
  <2>2. /\ Once(Q(s), "arm", s)' /\ Once(Q(s), "start", s)' /\ Once(Q(s), "read", s)'
        /\ Before(Q(s), "arm", "start", s)'
    BY <1>2, <1>3, <1>4, <1>5 DEF Session, ArmFirst, Reader, Kinds
  <2>3. ArmFirst(s)'
    BY <1>1, <1>2, <1>4, <2>1, <2>2 DEF Session, ArmFirst
  <2>4. Reader(s)'
    BY <1>1, <1>4, <1>6, <1>12, <2>1, <2>2 DEF Session, Reader
  <2>5. Parsing(s)'
    BY <1>6, <2>1 DEF Session, Parsing
  <2> QED
    BY <2>3, <2>4, <2>5
<1>14. TickLast(s)'
  <2>1. /\ Waits(s, "tick")' <=> Waits(s, "tick")
        /\ Once(Q(s), "tick", s) => Once(Q(s), "tick", s)'
        /\ Before(Q(s), "start", "tick", s) => Before(Q(s), "start", "tick", s)'
    BY <1>3, <1>5 DEF Kinds
  <2> QED
    BY <1>1, <1>2, <1>4, <1>10, <2>1 DEF Session, TickLast, SameMarks
<1>15. Counted(s)'
  <2>1. HasOk(Q(s), "read", s)' <=> b
    BY <1>3, <1>4, <1>5, OkIsThere DEF Kinds, Waits
  <2>2. decoded[s] + frames[s] <= sent[s] /\ sent[s] <= MaxRequests
    BY <1>2 DEF Session, Counted
  <2>3. decoded[s] + frames'[s] <= sent[s]
    BY <1>7, <2>2
  <2>4. ASSUME rstate[s] = "kReadRequest", b PROVE decoded[s] + frames'[s] + 1 <= sent[s]
    <3>1. reading[s] = "body"
      <4>1. reading[s] \in {"none", "len", "body"}
        BY <1>2 DEF Typed
      <4> QED
        BY <1>2, <1>4, <2>4, <4>1 DEF Session, Parsing
    <3>2. frames[s] > 0
      BY <2>4
    <3> QED
      BY <1>7, <2>2, <3>1, <3>2
  <2> QED
    BY <1>1, <2>1, <2>2, <2>3, <2>4 DEF Counted
<1>16. Answered(s)'
  <2>1. /\ HasFailed(Q(s), "wrote", s)' <=> HasFailed(Q(s), "wrote", s)
        /\ Waits(s, "wrote")' <=> Waits(s, "wrote")
        /\ Once(Q(s), "wrote", s) => Once(Q(s), "wrote", s)'
        /\ Waits(s, "arm")' => Waits(s, "arm")
    BY <1>3, <1>5 DEF Kinds
  <2> QED
    BY <1>1, <1>2, <1>4, <2>1, AliveStays DEF Session, Answered
<1>17. Session(s)'
  BY <1>11, <1>13, <1>14, <1>15, <1>16 DEF Session
<1>18. \A o \in Sessions \ {s} : Session(o)'
  BY <1>1, <1>2, <1>5, <1>6, <1>10, SessionKept DEF Kept, IInv
<1> QED
  BY <1>5, <1>8, <1>9, <1>17, <1>18, Whole

\* The write of a live connection settles.
LEMMA WriteSettlesStep ==
    ASSUME IInv, UNCHANGED up, NEW s \in Sessions, NEW b \in BOOLEAN, WriteSettles(s),
           poolQ' = PostTo(s, <<H("wrote", s, b)>>),
           IF b THEN /\ unwritten' = [unwritten EXCEPT ![s] = @ - 1]
                     /\ replied' = [replied EXCEPT ![s] = @ + 1]
           ELSE unwritten' = [unwritten EXCEPT ![s] = 0] /\ UNCHANGED replied
    PROVE  IInv'
<1> DEFINE x == H("wrote", s, b)
<1>1. /\ poolQ' = PostTo(s, <<x>>) /\ unwritten[s] > 0 /\ ~Waits(s, "wrote")
      /\ UNCHANGED <<mainQ, nextIoct, accepting, sessionMap, sid, thread, conn, rstate, reading,
                     context, timer, peer, frames, sent, decoded, erased, homeless, broken, dangling>>
  BY DEF WriteSettles, Waits, Q, sessVars, netVars, histVars
<1>2. Typed /\ TypeOK /\ Placed /\ Session(s)
  BY Parts DEF IInv
<1>3. x \in Handlers /\ x.kind = "wrote" /\ x.s = s /\ (x.ok <=> b)
  <2>1. x \in Handlers /\ x.kind = "wrote" /\ x.s = s
    BY DEF H, Handlers
  <2>2. x.ok <=> b
    BY DEF H
  <2> QED
    BY <2>1, <2>2
<1> HIDE DEF x
<1>4. unwritten[s] \in Nat /\ replied[s] \in Nat /\ decoded[s] \in 0 .. MaxRequests
  BY <1>2 DEF Typed
<1>5. conn[s] = "active" /\ ~Waits(s, "arm")
  BY <1>1, <1>2, <1>4 DEF Session, ArmFirst, Answered
<1>6. /\ replied[s] + unwritten[s] <= decoded[s]
      /\ Alive(s) => replied[s] + unwritten[s] = decoded[s]
  BY <1>1, <1>2, <1>5, OkIsThere DEF Session, Answered, Waits
<1>7. /\ poolQ' \in [1 .. Threads -> Seq(Handlers)] /\ Placed'
      /\ \A k \in Kinds :
           /\ Waits(s, k)' <=> Waits(s, k) \/ k = x.kind
           /\ Once(Q(s), k, s) /\ ~ (k = x.kind /\ Waits(s, k)) => Once(Q(s), k, s)'
           /\ HasOk(Q(s), k, s)' <=> HasOk(Q(s), k, s) \/ (k = x.kind /\ x.ok)
           /\ HasFailed(Q(s), k, s)' <=> HasFailed(Q(s), k, s) \/ (k = x.kind /\ ~x.ok)
      /\ \A k, l \in Kinds :
           Before(Q(s), k, l, s) /\ k # l /\ ~ (k = x.kind /\ Waits(s, l)) =>
             Before(Q(s), k, l, s)'
      /\ \A o \in Sessions \ {s} : SameQ(o)
  <2>1. /\ x.kind \in {"start", "read", "wrote", "tick"} /\ UNCHANGED <<thread, conn, mainQ>>
        /\ conn[s] # "none"
    BY <1>1, <1>3, <1>5
  <2> QED
    BY <1>1, <1>2, <1>3, <2>1, PostOne, Zenon
<1>8. /\ unwritten'[s] = (IF b THEN unwritten[s] - 1 ELSE 0)
      /\ replied'[s] = (IF b THEN replied[s] + 1 ELSE replied[s])
      /\ \A o \in Sessions \ {s} : unwritten'[o] = unwritten[o] /\ replied'[o] = replied[o]
  BY <1>2 DEF Typed
<1>9. Typed'
  <2>1. 0 \in 0 .. MaxRequests /\ unwritten[s] - 1 \in 0 .. MaxRequests
        /\ replied[s] + 1 \in 0 .. MaxRequests
    BY <1>1, <1>4, <1>6
  <2>2. unwritten' \in [Sessions -> 0 .. MaxRequests] /\ replied' \in [Sessions -> 0 .. MaxRequests]
    <3>1. CASE b
      <4>1. /\ unwritten' = [unwritten EXCEPT ![s] = unwritten[s] - 1]
            /\ replied' = [replied EXCEPT ![s] = replied[s] + 1]
        BY <3>1
      <4> QED
        BY <1>2, <2>1, <4>1 DEF Typed
    <3>2. CASE ~b
      <4>1. unwritten' = [unwritten EXCEPT ![s] = 0] /\ replied' = replied
        BY <3>2
      <4> QED
        BY <1>2, <2>1, <4>1 DEF Typed
    <3> QED
      BY <3>1, <3>2
  <2> QED
    BY <1>1, <1>2, <1>7, <2>2 DEF Typed
<1>10. EraseRemovesOwn'
  BY <1>1, Parts DEF EraseRemovesOwn, Evicted
<1>11. \A o \in Sessions : SameMain(o) /\ SameMap(o) /\ SameMarks(o)
  BY <1>1, SameItself DEF SameMain, SameMap, SameMarks, Lost, Evicted
<1>12. New(s)' /\ Mapped(s)'
  BY <1>1, <1>2, <1>11, NewKept, MappedKept DEF Session
<1>13. /\ \A k \in Kinds : k # "wrote" => (Waits(s, k)' <=> Waits(s, k))
       /\ \A k \in Kinds : Once(Q(s), k, s) => Once(Q(s), k, s)'
       /\ \A k, l \in Kinds :
            k \notin {l, "wrote"} /\ Before(Q(s), k, l, s) => Before(Q(s), k, l, s)'
       /\ HasOk(Q(s), "read", s)' <=> HasOk(Q(s), "read", s)
  BY <1>1, <1>3, <1>7 DEF Kinds
<1>14. ArmFirst(s)' /\ Reader(s)' /\ Parsing(s)' /\ TickLast(s)' /\ Counted(s)'
  <2>1. /\ ~Waits(s, "arm")' /\ (Waits(s, "start")' <=> Waits(s, "start"))
        /\ (Waits(s, "read")' <=> Waits(s, "read")) /\ (Waits(s, "tick")' <=> Waits(s, "tick"))
    BY <1>5, <1>13 DEF Kinds
  <2>2. /\ Once(Q(s), "arm", s)' /\ Once(Q(s), "start", s)' /\ Once(Q(s), "read", s)'
        /\ Once(Q(s), "tick", s)' /\ Before(Q(s), "arm", "start", s)'
    BY <1>2, <1>13 DEF Session, ArmFirst, Reader, TickLast, Kinds
  <2>3. Before(Q(s), "start", "tick", s) => Before(Q(s), "start", "tick", s)'
    BY <1>13 DEF Kinds
  <2>4. ArmFirst(s)'
    BY <1>1, <1>2, <1>5, <2>1, <2>2 DEF Session, ArmFirst
  <2>5. Reader(s)'
    BY <1>1, <1>2, <1>5, <2>1, <2>2, AliveStays DEF Session, Reader
  <2>6. Parsing(s)'
    BY <1>1, <1>2, <2>1 DEF Session, Parsing
  <2>7. TickLast(s)'
    BY <1>1, <1>2, <1>11, <2>1, <2>2, <2>3 DEF Session, TickLast, SameMarks
  <2>8. Counted(s)'
    BY <1>1, <1>2, <1>13 DEF Session, Counted
  <2> QED
    BY <2>4, <2>5, <2>6, <2>7, <2>8
<1>15. Answered(s)'
  <2>1. Once(Q(s), "wrote", s)'
    BY <1>1, <1>13, OkIsThere DEF Waits, Kinds
  <2>2. HasFailed(Q(s), "wrote", s)' <=> ~b
    BY <1>1, <1>3, <1>7, OkIsThere DEF Waits, Kinds
  <2>3. CASE b
    <3>1. replied'[s] = replied[s] + 1 /\ unwritten'[s] = unwritten[s] - 1
          /\ decoded'[s] = decoded[s]
      BY <1>1, <1>8, <2>3
    <3>2. replied'[s] + unwritten'[s] = replied[s] + unwritten[s]
      BY <1>4, <3>1
    <3>3. Alive(s)' => Alive(s)
      BY <1>1, <1>5, <1>13, AliveStays DEF Kinds
    <3> QED
      BY <1>1, <1>5, <1>6, <2>1, <3>1, <3>2, <3>3 DEF Answered
  <2>4. CASE ~b
    <3>1. replied'[s] = replied[s] /\ unwritten'[s] = 0 /\ decoded'[s] = decoded[s]
      BY <1>1, <1>8, <2>4
    <3>2. replied[s] + 0 <= decoded[s]
      BY <1>4, <1>6
    <3> QED
      BY <1>1, <1>4, <1>5, <2>1, <2>2, <2>4, <3>1, <3>2 DEF Answered
  <2> QED
    BY <2>3, <2>4
<1>16. Session(s)'
  BY <1>12, <1>14, <1>15 DEF Session
<1>17. \A o \in Sessions \ {s} : Session(o)'
  BY <1>1, <1>2, <1>7, <1>8, <1>11, SessionKept DEF Kept, IInv
<1> QED
  BY <1>7, <1>9, <1>10, <1>16, <1>17, Whole

-----------------------------------------------------------------------------
\* What the head of a pool thread's FIFO says of its session s.
Runs(t, s) == t \in 1 .. Threads /\ poolQ[t] # <<>> /\ s = Head(poolQ[t]).s

LEMMA Pop ==
    ASSUME Typed, Placed, NEW t, NEW s, Runs(t, s)
    PROVE  LET h == Head(poolQ[t])
               rest == Tail(poolQ[t])
           IN  /\ s \in Sessions /\ h \in Handlers /\ rest \in Seq(Handlers)
               /\ h.kind \in {"arm", "start", "read", "wrote", "tick"}
               /\ thread[s] = t /\ Q(s) = poolQ[t] /\ conn[s] # "none"
               /\ Sits(rest, t, thread, conn)
               /\ \A k : /\ Waits(s, k) <=> k = h.kind \/ Has(rest, k, s)
                         /\ Once(Q(s), k, s) => Once(rest, k, s)
                         /\ Once(Q(s), k, s) /\ k = h.kind => ~Has(rest, k, s)
                         /\ HasOk(Q(s), k, s) <=> (k = h.kind /\ h.ok) \/ HasOk(rest, k, s)
                         /\ HasFailed(Q(s), k, s) <=>
                              (k = h.kind /\ ~h.ok) \/ HasFailed(rest, k, s)
               /\ \A k, l : Before(Q(s), k, l, s) =>
                              Before(rest, k, l, s) /\ (l = h.kind => ~Waits(s, k))
               /\ \A o \in Sessions \ {s} : SameFor(poolQ[t], rest, o)
<1> DEFINE q == poolQ[t]
           h == Head(q)
           rest == Tail(q)
<1>1. q \in Seq(Handlers) /\ Sits(q, t, thread, conn) /\ q # <<>> /\ h.s = s
  BY DEF Runs, Typed, Placed
<1> HIDE DEF q
<1>2. /\ h \in Handlers /\ rest \in Seq(Handlers) /\ DOMAIN q = 1 .. Len(q)
      /\ DOMAIN rest = 1 .. Len(rest) /\ 1 \in 1 .. Len(q) /\ h = q[1]
      /\ \A i \in 1 .. Len(rest) : i + 1 \in 1 .. Len(q) /\ rest[i] = q[i + 1]
  BY <1>1, Cut
<1>3. s \in Sessions
  BY <1>1, <1>2 DEF Handlers
<1> HIDE DEF h, rest
<1>4. /\ h.kind \in {"arm", "start", "read", "wrote", "tick"}
      /\ thread[s] = t /\ conn[s] # "none"
  BY <1>1, <1>2 DEF Sits
<1>5. Sits(rest, t, thread, conn)
  BY <1>1, <1>2 DEF Sits
<1>6. Q(s) = q
  BY <1>4 DEF Q, q
<1>7. \A k : Is(h, k, s) <=> k = h.kind
  BY <1>1 DEF Is
<1>8. \A k : /\ Has(q, k, s) <=> k = h.kind \/ Has(rest, k, s)
             /\ Once(q, k, s) => Once(rest, k, s)
             /\ Once(q, k, s) /\ k = h.kind => ~Has(rest, k, s)
             /\ HasOk(q, k, s) <=> (k = h.kind /\ h.ok) \/ HasOk(rest, k, s)
             /\ HasFailed(q, k, s) <=> (k = h.kind /\ ~h.ok) \/ HasFailed(rest, k, s)
  BY <1>1, <1>7, TailFacts DEF h, rest
<1>9. \A k, l : Before(q, k, l, s) => Before(rest, k, l, s) /\ (l = h.kind => ~Has(q, k, s))
  BY <1>1, <1>7, TailOrder DEF h, rest
<1>10. \A o \in Sessions \ {s} : SameFor(q, rest, o)
  BY <1>1, SameTail DEF h, rest
<1>11. \A k : Waits(s, k) <=> Has(q, k, s)
  BY <1>6 DEF Waits
<1> QED
  BY <1>2, <1>3, <1>4, <1>5, <1>6, <1>8, <1>9, <1>10, <1>11 DEF h, rest, q

\* The thread's new FIFO.
LEMMA Replaced ==
    ASSUME Typed, Placed, NEW t \in 1 .. Threads, NEW s \in Sessions, thread[s] = t,
           NEW u \in Seq(Handlers), poolQ' = [poolQ EXCEPT ![t] = u], UNCHANGED thread,
           Sits(u, t, thread, conn), \A o \in Sessions \ {s} : SameFor(poolQ[t], u, o),
           \A i \in DOMAIN mainQ' : mainQ'[i].kind \in {"accept", "erase"},
           \A o \in Sessions : conn[o] # "none" => conn'[o] # "none"
    PROVE  /\ poolQ' \in [1 .. Threads -> Seq(Handlers)] /\ Placed'
           /\ poolQ'[thread'[s]] = u
           /\ \A o \in Sessions \ {s} : SameQ(o)
<1>1. poolQ'[t] = u /\ \A r \in 1 .. Threads : r # t => poolQ'[r] = poolQ[r]
  BY DEF Typed
<1>2. poolQ' \in [1 .. Threads -> Seq(Handlers)]
  BY DEF Typed
<1>3. ASSUME NEW r \in 1 .. Threads PROVE Sits(poolQ'[r], r, thread', conn')
  <2>1. poolQ'[r] \in Seq(Handlers) /\ Sits(poolQ'[r], r, thread, conn)
    BY <1>1, <1>2 DEF Placed
  <2> QED
    BY <2>1, SitsOn
<1>4. Placed'
  BY <1>3 DEF Placed
<1>5. \A o \in Sessions \ {s} : SameQ(o)
  BY OtherFifo, TypedIsTypeOK
<1> QED
  BY <1>1, <1>2, <1>4, <1>5

\* The head leaves and nothing else of the FIFOs changes.
LEMMA Ran ==
    ASSUME Typed, Placed, NEW t, NEW s, Runs(t, s), NEW kind, kind = Head(poolQ[t]).kind,
           poolQ' = [poolQ EXCEPT ![t] = Tail(poolQ[t])], UNCHANGED <<thread, conn, mainQ>>
    PROVE  /\ poolQ' \in [1 .. Threads -> Seq(Handlers)] /\ Placed'
           /\ \A k : /\ Waits(s, k)' => Waits(s, k)
                     /\ k # kind => (Waits(s, k)' <=> Waits(s, k))
                     /\ HasOk(Q(s), k, s)' => HasOk(Q(s), k, s)
                     /\ k # kind => (HasFailed(Q(s), k, s)' <=> HasFailed(Q(s), k, s))
                     /\ Once(Q(s), k, s) => Once(Q(s), k, s)'
                     /\ Once(Q(s), k, s) /\ k = kind => ~Waits(s, k)'
           /\ \A k, l : Before(Q(s), k, l, s) => Before(Q(s), k, l, s)'
           /\ Head(poolQ[t]).ok => (HasFailed(Q(s), kind, s)' <=> HasFailed(Q(s), kind, s))
           /\ \A o \in Sessions \ {s} : SameQ(o)
<1> DEFINE h == Head(poolQ[t])
           rest == Tail(poolQ[t])
<1>0. t \in 1 .. Threads
  BY DEF Runs
<1>1. /\ s \in Sessions /\ rest \in Seq(Handlers)
      /\ thread[s] = t /\ Q(s) = poolQ[t] /\ Sits(rest, t, thread, conn)
      /\ \A k : /\ Waits(s, k) <=> k = h.kind \/ Has(rest, k, s)
                /\ Once(Q(s), k, s) => Once(rest, k, s)
                /\ Once(Q(s), k, s) /\ k = h.kind => ~Has(rest, k, s)
                /\ HasOk(Q(s), k, s) <=> (k = h.kind /\ h.ok) \/ HasOk(rest, k, s)
                /\ HasFailed(Q(s), k, s) <=> (k = h.kind /\ ~h.ok) \/ HasFailed(rest, k, s)
      /\ \A k, l : Before(Q(s), k, l, s) => Before(rest, k, l, s)
      /\ \A o \in Sessions \ {s} : SameFor(poolQ[t], rest, o)
  BY Pop, Zenon
<1> HIDE DEF h, rest
<1>2. poolQ' = [poolQ EXCEPT ![t] = rest] /\ kind = h.kind
  BY DEF h, rest
<1>3. \A i \in DOMAIN mainQ' : mainQ'[i].kind \in {"accept", "erase"}
  BY DEF Placed
<1>4. /\ poolQ' \in [1 .. Threads -> Seq(Handlers)] /\ Placed'
      /\ poolQ'[thread'[s]] = rest
      /\ \A o \in Sessions \ {s} : SameQ(o)
  BY <1>0, <1>1, <1>2, <1>3, Replaced
<1>5. /\ \A k : /\ Has(rest, k, s) <=> Waits(s, k)'
                /\ HasOk(rest, k, s) <=> HasOk(Q(s), k, s)'
                /\ HasFailed(rest, k, s) <=> HasFailed(Q(s), k, s)'
                /\ Once(rest, k, s) <=> Once(Q(s), k, s)'
      /\ \A k, l : Before(rest, k, l, s) <=> Before(Q(s), k, l, s)'
  BY <1>4 DEF Waits, Q
<1> HIDE DEF rest
<1>6. \A k : /\ Waits(s, k)' => Waits(s, k)
             /\ k # kind => (Waits(s, k)' <=> Waits(s, k))
             /\ HasOk(Q(s), k, s)' => HasOk(Q(s), k, s)
             /\ k # kind => (HasFailed(Q(s), k, s)' <=> HasFailed(Q(s), k, s))
             /\ Once(Q(s), k, s) => Once(Q(s), k, s)'
             /\ Once(Q(s), k, s) /\ k = kind => ~Waits(s, k)'
  BY <1>1, <1>2, <1>5
<1>7. \A k, l : Before(Q(s), k, l, s) => Before(Q(s), k, l, s)'
  BY <1>1, <1>5
<1>8. h.ok => (HasFailed(Q(s), kind, s)' <=> HasFailed(Q(s), kind, s))
  BY <1>1, <1>2, <1>5, Zenon
<1> QED
  BY <1>4, <1>6, <1>7, <1>8 DEF h

\* The handlers that only leave the FIFO: what a step of one session's needs.
Only(s) ==
    /\ UNCHANGED <<nextIoct, accepting, sessionMap, sid, thread, peer, frames, sent, replied,
                   erased, homeless, up>>
    /\ Lost(s)' <=> Lost(s)
    /\ \A o \in Sessions \ {s} : Kept(o) /\ SameMarks(o)

LEMMA Others ==
    ASSUME IInv, NEW s \in Sessions, Only(s), UNCHANGED mainQ, NEW o \in Sessions \ {s}, SameQ(o)
    PROVE  Session(o)'
<1>1. SameMain(o) /\ SameMap(o) /\ SameMarks(o) /\ Kept(o)
  BY SameItself DEF Only, SameMain, SameMap
<1> QED
  BY <1>1, SessionKept, Parts DEF IInv

LEMMA ArmStep ==
    ASSUME IInv, NEW t, NEW s, Runs(t, s), Only(s),
           Arm(t, Head(poolQ[t]), Tail(poolQ[t]))
    PROVE  IInv'
<1>1. /\ Head(poolQ[t]).kind = "arm" /\ poolQ' = [poolQ EXCEPT ![t] = Tail(poolQ[t])]
      /\ timer' = [timer EXCEPT ![s] = "armed"] /\ context' = [context EXCEPT ![s] = TRUE]
      /\ UNCHANGED <<conn, mainQ, reading, unwritten, rstate, decoded, broken, dangling>>
  BY DEF Arm, Skip, Runs
<1>2. Typed /\ TypeOK /\ Placed
  BY Parts
<1>3. s \in Sessions /\ conn[s] # "none" /\ Waits(s, "arm")
  BY <1>1, <1>2, Pop
<1>4. Session(s)
  BY <1>3 DEF IInv
<1>5. /\ UNCHANGED <<nextIoct, accepting, sessionMap, sid, thread, peer, frames, sent, replied,
                     erased, homeless, up>>
      /\ Lost(s)' <=> Lost(s)
  BY DEF Only
<1>6. /\ poolQ' \in [1 .. Threads -> Seq(Handlers)] /\ Placed'
      /\ \A k : /\ k # "arm" => (Waits(s, k)' <=> Waits(s, k))
                /\ HasOk(Q(s), k, s)' => HasOk(Q(s), k, s)
                /\ k # "arm" => (HasFailed(Q(s), k, s)' <=> HasFailed(Q(s), k, s))
                /\ Once(Q(s), k, s) => Once(Q(s), k, s)'
                /\ Once(Q(s), k, s) /\ k = "arm" => ~Waits(s, k)'
      /\ \A k, l : Before(Q(s), k, l, s) => Before(Q(s), k, l, s)'
      /\ \A o \in Sessions \ {s} : SameQ(o)
  <2>1. UNCHANGED <<thread, conn, mainQ>>
    BY <1>1, <1>5
  <2> QED
    BY <1>1, <1>2, <2>1, Ran, Zenon
<1>7. timer'[s] = "armed" /\ context'[s]
  BY <1>1, <1>2, <1>3 DEF Typed
<1>8. Typed'
  BY <1>1, <1>2, <1>5, <1>6 DEF Typed
<1>9. EraseRemovesOwn'
  BY <1>5, Parts DEF EraseRemovesOwn, Evicted
<1>10. SameMain(s) /\ SameMap(s) /\ SameMarks(s)
  BY <1>1, <1>5, SameItself DEF SameMain, SameMap, SameMarks
<1>11. New(s)' /\ Mapped(s)'
  <2>1. New(s)'
    BY <1>1, <1>3, <1>4, <1>5 DEF Session, New
  <2> QED
    BY <1>1, <1>2, <1>3, <1>4, <1>10, <2>1, MappedKept DEF Session
<1>12. ArmFirst(s)' /\ Reader(s)' /\ Parsing(s)' /\ TickLast(s)'
  <2>1. ArmFirst(s)'
    BY <1>4, <1>6, <1>7 DEF Session, ArmFirst
  <2>2. Reader(s)'
    BY <1>1, <1>3, <1>4, <1>5, <1>6, AliveStays DEF Session, Reader
  <2>3. Parsing(s)'
    BY <1>1, <1>4, <1>6 DEF Session, Parsing
  <2>4. TickLast(s)'
    BY <1>1, <1>4, <1>5, <1>6, <1>7 DEF Session, TickLast
  <2> QED
    BY <2>1, <2>2, <2>3, <2>4
<1>13. Counted(s)' /\ Answered(s)'
  <2>1. Counted(s)'
    BY <1>1, <1>4, <1>5, <1>6 DEF Session, Counted
  <2>2. Answered(s)'
    BY <1>1, <1>3, <1>4, <1>5, <1>6, AliveStays DEF Session, Answered
  <2> QED
    BY <2>1, <2>2
<1>14. Session(s)'
  BY <1>11, <1>12, <1>13 DEF Session
<1>15. \A o \in Sessions \ {s} : Session(o)'
  BY <1>1, <1>3, <1>6, Others
<1> QED
  BY <1>3, <1>6, <1>8, <1>9, <1>14, <1>15, Whole

LEMMA StartStep ==
    ASSUME IInv, NEW t, NEW s, Runs(t, s), Only(s),
           Start(t, Head(poolQ[t]), Tail(poolQ[t]))
    PROVE  IInv'
<1>1. /\ Head(poolQ[t]).kind = "start" /\ poolQ' = [poolQ EXCEPT ![t] = Tail(poolQ[t])]
      /\ UNCHANGED <<conn, mainQ, unwritten, rstate, context, timer, decoded, broken>>
  BY DEF Start, Skip, Runs
<1>2. Typed /\ TypeOK /\ Placed
  BY Parts
<1>3. /\ s \in Sessions /\ conn[s] # "none" /\ Waits(s, "start")
      /\ Before(Q(s), "arm", "start", s) => ~Waits(s, "arm")
  BY <1>1, <1>2, Pop
<1>4. Session(s) /\ conn[s] \in {"none", "active", "closed"}
  BY <1>2, <1>3 DEF IInv, Typed
<1>5. /\ UNCHANGED <<nextIoct, accepting, sessionMap, sid, thread, peer, frames, sent, replied,
                     erased, homeless, up>>
      /\ Lost(s)' <=> Lost(s)
  BY DEF Only
<1>6. ~Waits(s, "arm") /\ ~Waits(s, "read") /\ reading[s] = "none"
  BY <1>3, <1>4 DEF Session, ArmFirst, Reader
<1>7. ~Alive(s) => ~Stored(s)
  BY <1>3 DEF Alive, Stored
<1>8. Waits(s, "arm")' => Waits(s, "arm")
  <2>1. UNCHANGED <<thread, conn, mainQ>>
    BY <1>1, <1>5
  <2> QED
    BY <1>1, <1>2, <2>1, Ran, Zenon
<1>9. \/ /\ conn[s] = "active"
         /\ reading' = [reading EXCEPT ![s] = "len"] /\ dangling' = dangling
      \/ conn[s] = "closed" /\ reading' = reading /\ dangling' = dangling
      \/ /\ ~Alive(s) /\ (Lost(s) \/ s \in broken)
         /\ reading' = reading /\ dangling' = dangling \cup {s}
  <2>1. CASE Alive(s)
    BY <1>3, <1>4, <2>1 DEF Start, Runs
  <2>2. CASE ~Alive(s)
    <3>1. Lost(s) \/ s \in broken
      BY <1>3, <1>4, <1>7, <2>2 DEF Session, Mapped, TickLast
    <3>2. reading' = reading /\ dangling' = dangling \cup {s}
      BY <2>2 DEF Start, Skip, Runs
    <3> QED
      BY <2>2, <3>1, <3>2
  <2> QED
    BY <2>1, <2>2
<1>10. /\ poolQ' \in [1 .. Threads -> Seq(Handlers)] /\ Placed'
       /\ \A k : /\ k # "start" => (Waits(s, k)' <=> Waits(s, k))
                 /\ HasOk(Q(s), k, s)' => HasOk(Q(s), k, s)
                 /\ k # "start" => (HasFailed(Q(s), k, s)' <=> HasFailed(Q(s), k, s))
                 /\ Once(Q(s), k, s) => Once(Q(s), k, s)'
                 /\ Once(Q(s), k, s) /\ k = "start" => ~Waits(s, k)'
       /\ \A k, l : Before(Q(s), k, l, s) => Before(Q(s), k, l, s)'
       /\ \A o \in Sessions \ {s} : SameQ(o)
  <2>1. UNCHANGED <<thread, conn, mainQ>>
    BY <1>1, <1>5
  <2> QED
    BY <1>1, <1>2, <2>1, Ran, Zenon
<1>11. Typed'
  <2>1. reading' \in [Sessions -> {"none", "len", "body"}] /\ dangling' \subseteq Sessions
    BY <1>2, <1>3, <1>9 DEF Typed
  <2> QED
    BY <1>1, <1>2, <1>5, <1>10, <2>1 DEF Typed
<1>12. EraseRemovesOwn'
  BY <1>5, Parts DEF EraseRemovesOwn, Evicted
<1>13. New(s)'
  BY <1>1, <1>3, <1>4, <1>5 DEF Session, New
<1>14. Mapped(s)'
  BY <1>1, <1>4, <1>5 DEF Session, Mapped, Stored
<1>15. ~Waits(s, "start")' /\ ~Waits(s, "arm")' /\ ~Waits(s, "read")'
  BY <1>4, <1>6, <1>10 DEF Session, Reader
<1>16. /\ Once(Q(s), "arm", s)' /\ Once(Q(s), "start", s)' /\ Once(Q(s), "read", s)'
       /\ Once(Q(s), "tick", s)'
       /\ Before(Q(s), "arm", "start", s)'
  BY <1>4, <1>10 DEF Session, ArmFirst, Reader, TickLast
<1>17. ArmFirst(s)'
  BY <1>1, <1>4, <1>6, <1>15, <1>16 DEF Session, ArmFirst
<1>18. Reader(s)' /\ Parsing(s)'
  <2>1. CASE /\ conn[s] = "active"
             /\ reading' = [reading EXCEPT ![s] = "len"] /\ dangling' = dangling
    <3>1. reading'[s] = "len"
      BY <1>2, <1>3, <2>1 DEF Typed
    <3>2. Reader(s)'
      BY <1>1, <1>5, <1>15, <1>16, <2>1, <3>1 DEF Reader
    <3> QED
      BY <1>1, <1>3, <1>4, <2>1, <3>1, <3>2 DEF Session, Parsing
  <2>2. CASE conn[s] = "closed" /\ reading' = reading
    BY <1>1, <1>4, <1>5, <1>6, <1>15, <1>16, <2>2 DEF Reader, Parsing
  <2>3. CASE ~Alive(s) /\ reading' = reading
    BY <1>1, <1>3, <1>4, <1>5, <1>6, <1>8, <1>15, <1>16, <2>3, AliveStays DEF Reader, Parsing
  <2> QED
    BY <1>9, <2>1, <2>2, <2>3
<1>19. TickLast(s)'
  <2>1. /\ Waits(s, "tick")' <=> Waits(s, "tick")
        /\ Before(Q(s), "start", "tick", s) => Before(Q(s), "start", "tick", s)'
    BY <1>10
  <2>2. s \in dangling' => Lost(s) \/ s \in broken
    BY <1>4, <1>9 DEF Session, TickLast
  <2> QED
    BY <1>1, <1>4, <1>5, <1>15, <1>16, <2>1, <2>2 DEF Session, TickLast
<1>20. Counted(s)'
  BY <1>1, <1>4, <1>5, <1>10 DEF Session, Counted
<1>21. Answered(s)'
  BY <1>1, <1>3, <1>4, <1>5, <1>8, <1>10, AliveStays DEF Session, Answered
<1>22. Session(s)'
  BY <1>13, <1>14, <1>17, <1>18, <1>19, <1>20, <1>21 DEF Session
<1>23. \A o \in Sessions \ {s} : Session(o)'
  BY <1>1, <1>3, <1>10, Others
<1> QED
  BY <1>3, <1>10, <1>11, <1>12, <1>22, <1>23, Whole

LEMMA ReadTotalLenStep ==
    ASSUME IInv, NEW t, NEW s, Runs(t, s), Only(s),
           ReadTotalLen(t, Head(poolQ[t]), Tail(poolQ[t]))
    PROVE  IInv'
<1>1. /\ Head(poolQ[t]).kind = "read" /\ poolQ' = [poolQ EXCEPT ![t] = Tail(poolQ[t])]
      /\ conn[s] = "active" /\ Alive(s)
      /\ reading' = [reading EXCEPT ![s] = "body"]
      /\ rstate' = [rstate EXCEPT ![s] = "kReadRequest"]
      /\ UNCHANGED <<conn, mainQ, unwritten, context, timer, decoded, broken, dangling>>
  BY DEF ReadTotalLen, Runs
<1>2. Typed /\ TypeOK /\ Placed
  BY Parts
<1>3. s \in Sessions /\ Waits(s, "read")
  BY <1>1, <1>2, Pop
<1>4. Session(s)
  BY <1>3 DEF IInv
<1>5. /\ UNCHANGED <<nextIoct, accepting, sessionMap, sid, thread, peer, frames, sent, replied,
                     erased, homeless, up>>
      /\ Lost(s)' <=> Lost(s)
  BY DEF Only
<1>6. ~Waits(s, "arm") /\ ~Waits(s, "start")
  BY <1>3, <1>4 DEF Session, ArmFirst, Reader
<1>7. /\ poolQ' \in [1 .. Threads -> Seq(Handlers)] /\ Placed'
      /\ \A k : /\ k # "read" => (Waits(s, k)' <=> Waits(s, k))
                /\ k # "read" => (HasFailed(Q(s), k, s)' <=> HasFailed(Q(s), k, s))
                /\ Once(Q(s), k, s) => Once(Q(s), k, s)'
                /\ Once(Q(s), k, s) /\ k = "read" => ~Waits(s, k)'
      /\ \A k, l : Before(Q(s), k, l, s) => Before(Q(s), k, l, s)'
      /\ \A o \in Sessions \ {s} : SameQ(o)
  <2>1. UNCHANGED <<thread, conn, mainQ>>
    BY <1>1, <1>5
  <2> QED
    BY <1>1, <1>2, <2>1, Ran, Zenon
<1>8. reading'[s] = "body" /\ rstate'[s] = "kReadRequest"
  BY <1>1, <1>2, <1>3 DEF Typed
<1>9. Typed'
  BY <1>1, <1>2, <1>5, <1>7 DEF Typed
<1>10. EraseRemovesOwn'
  BY <1>5, Parts DEF EraseRemovesOwn, Evicted
<1>11. New(s)' /\ Mapped(s)'
  <2>1. New(s)'
    BY <1>1, <1>4, <1>5 DEF Session, New
  <2> QED
    BY <1>1, <1>4, <1>5, <2>1 DEF Session, Mapped, Stored
<1>12. ~Waits(s, "start")' /\ ~Waits(s, "arm")' /\ ~Waits(s, "read")'
  BY <1>4, <1>6, <1>7 DEF Session, Reader
<1>13. /\ Once(Q(s), "arm", s)' /\ Once(Q(s), "start", s)' /\ Once(Q(s), "read", s)'
       /\ Once(Q(s), "tick", s)'
       /\ Before(Q(s), "arm", "start", s)'
  BY <1>4, <1>7 DEF Session, ArmFirst, Reader, TickLast
<1>14. ArmFirst(s)' /\ Reader(s)' /\ Parsing(s)'
  <2>1. ArmFirst(s)'
    BY <1>1, <1>4, <1>6, <1>12, <1>13 DEF Session, ArmFirst
  <2>2. Reader(s)'
    BY <1>1, <1>5, <1>6, <1>8, <1>12, <1>13 DEF Reader
  <2>3. Parsing(s)'
    BY <1>8, <1>12 DEF Parsing
  <2> QED
    BY <2>1, <2>2, <2>3
<1>15. TickLast(s)'
  BY <1>1, <1>4, <1>5, <1>7, <1>13 DEF Session, TickLast
<1>16. Counted(s)'
  <2>1. ~HasOk(Q(s), "read", s)'
    BY <1>12, OkIsThere DEF Waits
  <2> QED
    BY <1>1, <1>4, <1>5, <2>1 DEF Session, Counted
<1>17. Answered(s)'
  BY <1>1, <1>4, <1>5, <1>7 DEF Session, Answered
<1>18. Session(s)'
  BY <1>11, <1>14, <1>15, <1>16, <1>17 DEF Session
<1>19. \A o \in Sessions \ {s} : Session(o)'
  BY <1>1, <1>3, <1>7, Others
<1> QED
  BY <1>3, <1>7, <1>9, <1>10, <1>18, <1>19, Whole

\* A request that decodes: its handler leaves and the next Start comes.
LEMMA ReadRequestStep ==
    ASSUME IInv, NEW t, NEW s, Runs(t, s), Only(s),
           ReadRequest(t, Head(poolQ[t]), Tail(poolQ[t]))
    PROVE  IInv'
<1> DEFINE h == Head(poolQ[t])
           rest == Tail(poolQ[t])
           x == H("start", s, TRUE)
           u == Append(rest, x)
<1>1. /\ h.kind = "read" /\ h.ok /\ poolQ' = [poolQ EXCEPT ![t] = rest \o <<x>>]
      /\ conn[s] = "active" /\ Alive(s)
      /\ decoded' = [decoded EXCEPT ![s] = @ + 1] /\ unwritten' = [unwritten EXCEPT ![s] = @ + 1]
      /\ timer' = [timer EXCEPT ![s] = IF @ = "none" THEN @ ELSE "armed"]
      /\ rstate[s] = "kReadRequest" /\ rstate' = [rstate EXCEPT ![s] = "kReadTotalLen"]
      /\ UNCHANGED <<conn, mainQ, reading, context, broken, dangling>>
  BY DEF ReadRequest, Dispatch, WriteResponse, PostStart, Runs
<1>2. Typed /\ TypeOK /\ Placed /\ t \in 1 .. Threads
  BY Parts DEF Runs
<1>3. /\ s \in Sessions /\ rest \in Seq(Handlers) /\ thread[s] = t
      /\ Sits(rest, t, thread, conn)
      /\ \A k : /\ Waits(s, k) <=> k = h.kind \/ Has(rest, k, s)
                /\ Once(Q(s), k, s) => Once(rest, k, s)
                /\ Once(Q(s), k, s) /\ k = h.kind => ~Has(rest, k, s)
                /\ HasOk(Q(s), k, s) <=> (k = h.kind /\ h.ok) \/ HasOk(rest, k, s)
                /\ HasFailed(Q(s), k, s) <=> (k = h.kind /\ ~h.ok) \/ HasFailed(rest, k, s)
      /\ \A k, l : Before(Q(s), k, l, s) => Before(rest, k, l, s)
      /\ \A o \in Sessions \ {s} : SameFor(poolQ[t], rest, o)
  BY <1>2, Pop, Zenon
<1>4. x \in Handlers /\ x.kind = "start" /\ x.s = s
  BY <1>3 DEF H, Handlers
<1> HIDE DEF h, rest, x
<1>5. Session(s)
  BY <1>3 DEF IInv
<1>6. /\ UNCHANGED <<nextIoct, accepting, sessionMap, sid, thread, peer, frames, sent, replied,
                     erased, homeless, up>>
      /\ Lost(s)' <=> Lost(s)
  BY DEF Only
<1>7. Waits(s, "read") /\ HasOk(Q(s), "read", s)
  BY <1>1, <1>3
<1>8. ~Waits(s, "arm") /\ ~Waits(s, "start") /\ reading[s] = "none"
  BY <1>5, <1>7 DEF Session, ArmFirst, Reader
<1>9. /\ decoded[s] \in Nat /\ frames[s] \in Nat /\ sent[s] \in Nat /\ unwritten[s] \in Nat
      /\ replied[s] \in Nat /\ MaxRequests \in Nat
      /\ sent[s] <= MaxRequests /\ decoded[s] + frames[s] + 1 <= sent[s]
      /\ replied[s] + unwritten[s] <= decoded[s]
  BY <1>1, <1>2, <1>3, <1>5, <1>7 DEF Typed, Session, Counted, Answered
\* The FIFO.
<1>10. u \in Seq(Handlers) /\ u = rest \o <<x>>
      /\ \A i \in DOMAIN u : (i \in DOMAIN rest /\ u[i] = rest[i]) \/ u[i] = x
  BY <1>3, <1>4, Appended
<1>11. \A o \in Sessions \ {s} : SameFor(poolQ[t], u, o)
  BY <1>3, <1>4, SameAppend, SameTrans
<1>12. Sits(u, t, thread, conn)
  BY <1>1, <1>3, <1>4, <1>10 DEF Sits
<1>13. \A k : Is(x, k, s) <=> k = "start"
  BY <1>4 DEF Is
<1>14. \A k : /\ Has(u, k, s) <=> Has(rest, k, s) \/ k = "start"
              /\ Once(rest, k, s) /\ ~ (k = "start" /\ Has(rest, k, s)) => Once(u, k, s)
              /\ k # "start" => (HasOk(u, k, s) <=> HasOk(rest, k, s))
              /\ k # "start" => (HasFailed(u, k, s) <=> HasFailed(rest, k, s))
  BY <1>3, <1>4, <1>13, AppendFacts
<1> HIDE DEF u
<1>15. /\ poolQ' \in [1 .. Threads -> Seq(Handlers)] /\ Placed'
       /\ poolQ'[thread'[s]] = u
       /\ \A o \in Sessions \ {s} : SameQ(o)
  <2>1. \A i \in DOMAIN mainQ' : mainQ'[i].kind \in {"accept", "erase"}
    BY <1>1, <1>2 DEF Placed
  <2>2. poolQ' = [poolQ EXCEPT ![t] = u] /\ UNCHANGED <<thread, conn>>
    BY <1>1, <1>6, <1>10
  <2>3. u \in Seq(Handlers) /\ \A o \in Sessions : conn[o] # "none" => conn'[o] # "none"
    BY <1>10, <2>2
  <2> QED
    BY <1>2, <1>3, <1>11, <1>12, <2>1, <2>2, <2>3, Replaced
<1>16. \A k : /\ Waits(s, k)' <=> Has(u, k, s)
              /\ Once(Q(s), k, s)' <=> Once(u, k, s)
              /\ HasOk(Q(s), k, s)' <=> HasOk(u, k, s)
              /\ HasFailed(Q(s), k, s)' <=> HasFailed(u, k, s)
  BY <1>15 DEF Waits, Q
<1>17. /\ Waits(s, "start")' /\ ~Waits(s, "arm")' /\ ~Waits(s, "read")' /\ ~HasOk(Q(s), "read", s)'
       /\ HasFailed(Q(s), "wrote", s)' <=> HasFailed(Q(s), "wrote", s)
       /\ Waits(s, "wrote")' <=> Waits(s, "wrote")
       /\ Waits(s, "tick")' <=> Waits(s, "tick")
  <2>1. ~Has(rest, "read", s)
    BY <1>1, <1>3, <1>5 DEF Session, Reader
  <2>2. ~HasOk(rest, "read", s)
    BY <2>1, OkIsThere
  <2> QED
    BY <1>1, <1>3, <1>8, <1>14, <1>16, <2>1, <2>2
<1>18. /\ Once(Q(s), "arm", s)' /\ Once(Q(s), "start", s)' /\ Once(Q(s), "read", s)'
       /\ Once(Q(s), "tick", s)'
       /\ Once(Q(s), "wrote", s) => Once(Q(s), "wrote", s)'
       /\ Before(Q(s), "arm", "start", s)'
  <2>1. ~Has(rest, "start", s) /\ ~Has(u, "arm", s)
    BY <1>3, <1>8, <1>14
  <2>2. Before(u, "arm", "start", s)
    BY <2>1, OkIsThere
  <2>3. Before(Q(s), "arm", "start", s)'
    BY <1>15, <2>2 DEF Q
  <2>4. \A k : Once(Q(s), k, s) => Once(Q(s), k, s)'
    BY <1>3, <1>14, <1>16, <2>1
  <2> QED
    BY <1>5, <2>3, <2>4 DEF Session, ArmFirst, Reader, TickLast
\* The session.
<1>19. /\ rstate'[s] = "kReadTotalLen" /\ timer'[s] \in {"none", "armed"}
       /\ decoded'[s] = decoded[s] + 1 /\ unwritten'[s] = unwritten[s] + 1
  BY <1>1, <1>2, <1>3 DEF Typed
<1>20. Typed'
  <2>1. decoded[s] + 1 \in 0 .. MaxRequests /\ unwritten[s] + 1 \in 0 .. MaxRequests
    BY <1>9
  <2>2. decoded' \in [Sessions -> 0 .. MaxRequests] /\ unwritten' \in [Sessions -> 0 .. MaxRequests]
    BY <1>1, <1>2, <2>1 DEF Typed
  <2>3. timer' \in [Sessions -> {"none", "armed", "expired"}]
    BY <1>1, <1>2 DEF Typed
  <2>4. rstate' \in [Sessions -> {"kReadTotalLen", "kReadRequest"}]
    BY <1>1, <1>2 DEF Typed
  <2> QED
    BY <1>1, <1>2, <1>6, <1>15, <2>2, <2>3, <2>4 DEF Typed
<1>21. EraseRemovesOwn'
  BY <1>6, Parts DEF EraseRemovesOwn, Evicted
<1>22. New(s)' /\ Mapped(s)'
  <2>1. New(s)'
    BY <1>1, <1>5, <1>6 DEF Session, New
  <2> QED
    BY <1>1, <1>5, <1>6, <2>1 DEF Session, Mapped, Stored
<1>23. ArmFirst(s)' /\ Reader(s)' /\ Parsing(s)'
  <2>1. ArmFirst(s)'
    BY <1>1, <1>5, <1>8, <1>17, <1>18 DEF Session, ArmFirst
  <2>2. Reader(s)'
    BY <1>1, <1>6, <1>8, <1>17, <1>18 DEF Reader
  <2>3. Parsing(s)'
    BY <1>1, <1>8, <1>19 DEF Parsing
  <2> QED
    BY <2>1, <2>2, <2>3
<1>24. TickLast(s)'
  BY <1>1, <1>5, <1>6, <1>18, <1>19 DEF Session, TickLast
<1>25. Counted(s)'
  <2>1. decoded[s] + 1 + frames[s] <= sent[s]
    BY <1>9
  <2>2. decoded'[s] + frames'[s] <= sent'[s] /\ sent'[s] <= MaxRequests
    BY <1>6, <1>9, <1>19, <2>1
  <2> QED
    BY <1>17, <2>2 DEF Counted
<1>26. Answered(s)'
  <2>1. replied[s] + (unwritten[s] + 1) <= decoded[s] + 1
    BY <1>9
  <2>2. replied'[s] + unwritten'[s] <= decoded'[s]
    BY <1>6, <1>19, <2>1
  <2>3. ASSUME ~HasFailed(Q(s), "wrote", s)' PROVE replied'[s] + unwritten'[s] = decoded'[s]
    <3>1. replied[s] + unwritten[s] = decoded[s]
      BY <1>1, <1>5, <1>17, <2>3 DEF Session, Answered
    <3>2. replied[s] + (unwritten[s] + 1) = decoded[s] + 1
      BY <1>9, <3>1
    <3> QED
      BY <1>6, <1>19, <3>2
  <2>4. (conn[s] = "active" => Once(Q(s), "wrote", s)')
    BY <1>5, <1>18 DEF Session, Answered
  <2> QED
    BY <1>1, <1>6, <1>8, <2>2, <2>3, <2>4 DEF Answered
<1>27. Session(s)'
  BY <1>22, <1>23, <1>24, <1>25, <1>26 DEF Session
<1>28. \A o \in Sessions \ {s} : Session(o)'
  BY <1>1, <1>3, <1>15, Others
<1> QED
  BY <1>3, <1>15, <1>20, <1>21, <1>27, <1>28, Whole

-----------------------------------------------------------------------------
\* What a close appends: a read or a write that ends with an error.
LEMMA Ending ==
    ASSUME NEW q \in Seq(Handlers), NEW s \in Sessions, NEW k \in {"read", "wrote"}, NEW e,
           e = <<>> \/ e = <<H(k, s, FALSE)>>, NEW t, NEW th, NEW cn, th[s] = t, cn[s] # "none",
           Sits(q, t, th, cn)
    PROVE  LET u == q \o e
           IN  /\ u \in Seq(Handlers) /\ Sits(u, t, th, cn)
               /\ \A l : /\ Has(u, l, s) <=> Has(q, l, s) \/ (l = k /\ e # <<>>)
                         /\ Once(q, l, s) /\ ~ (l = k /\ e # <<>> /\ Has(q, l, s)) => Once(u, l, s)
               /\ \A l, m : l \notin {m, k} /\ Before(q, l, m, s) => Before(u, l, m, s)
               /\ \A o \in Sessions \ {s} : SameFor(q, u, o)
<1> DEFINE x == H(k, s, FALSE)
           w == Append(q, x)
<1>1. x \in Handlers /\ x.kind = k /\ x.s = s
  BY DEF H, Handlers
<1> HIDE DEF x
<1>2. CASE e = <<>>
  <2>1. q \o e = q
    BY <1>2
  <2> QED
    BY <1>2, <2>1, SameItself
<1>3. CASE e = <<x>>
  <2>1. q \o e = w /\ w \in Seq(Handlers) /\ e # <<>>
    <3>1. q \o <<x>> = Append(q, x) /\ Append(q, x) \in Seq(Handlers) /\ <<x>> # <<>>
      BY <1>1
    <3> QED
      BY <1>3, <3>1
  <2>2. \A l : Is(x, l, s) <=> l = k
    BY <1>1 DEF Is
  <2>3. \A l : /\ Has(w, l, s) <=> Has(q, l, s) \/ l = k
               /\ Once(q, l, s) /\ ~ (l = k /\ Has(q, l, s)) => Once(w, l, s)
    BY <1>1, <2>2, AppendFacts
  <2>4. \A l, m : l \notin {m, k} /\ Before(q, l, m, s) => Before(w, l, m, s)
    BY <1>1, <2>2, AppendOrder
  <2>5. \A o \in Sessions \ {s} : SameFor(q, w, o)
    BY <1>1, SameAppend
  <2>6. \A i \in DOMAIN w : (i \in DOMAIN q /\ w[i] = q[i]) \/ w[i] = x
    BY <1>1, Appended
  <2>7. Sits(w, t, th, cn)
    BY <1>1, <2>6 DEF Sits
  <2> HIDE DEF w
  <2> QED
    BY <2>1, <2>3, <2>4, <2>5, <2>7
<1> QED
  BY <1>2, <1>3 DEF x

\* PbSession::Close by the handler at the head of the thread's FIFO.
LEMMA CloseStep ==
    ASSUME IInv, NEW t, NEW s, Runs(t, s), NEW kind \in {"read", "wrote", "tick"},
           kind = Head(poolQ[t]).kind,
           conn[s] = "active", Alive(s), CloseSession(s, Tail(poolQ[t])), Only(s),
           rstate' \in [Sessions -> {"kReadTotalLen", "kReadRequest"}],
           timer' \in [Sessions -> {"none", "armed", "expired"}],
           timer'[s] = "expired" => kind # "tick" /\ timer[s] = "expired",
           broken' \subseteq Sessions, s \in broken => s \in broken',
           Waits(s, "start") => s \in broken', UNCHANGED <<context, decoded, dangling>>
    PROVE  IInv'
<1> DEFINE rest == Tail(poolQ[t])
           e == H("erase", s, TRUE)
           r == IF reading[s] # "none" THEN <<H("read", s, FALSE)>> ELSE <<>>
           w == IF unwritten[s] > 0 THEN <<H("wrote", s, FALSE)>> ELSE <<>>
           v == rest \o r
           u == v \o w
<1>1. /\ conn' = [conn EXCEPT ![s] = "closed"] /\ mainQ' = Append(mainQ, e)
      /\ poolQ' = [poolQ EXCEPT ![thread[s]] = u]
      /\ reading' = [reading EXCEPT ![s] = "none"]
      /\ unwritten' = [unwritten EXCEPT ![s] = 0]
  BY DEF CloseSession
<1>2. Typed /\ TypeOK /\ Placed /\ t \in 1 .. Threads
  BY Parts DEF Runs
<1>3. /\ s \in Sessions /\ rest \in Seq(Handlers) /\ thread[s] = t
      /\ Sits(rest, t, thread, conn)
      /\ \A k : /\ Waits(s, k) <=> k = kind \/ Has(rest, k, s)
                /\ Once(Q(s), k, s) => Once(rest, k, s)
                /\ Once(Q(s), k, s) /\ k = kind => ~Has(rest, k, s)
      /\ \A k, l : Before(Q(s), k, l, s) => Before(rest, k, l, s)
      /\ \A o \in Sessions \ {s} : SameFor(poolQ[t], rest, o)
  BY <1>2, Pop, Zenon
<1>4. e \in Handlers /\ e.kind = "erase" /\ e.s = s
  BY <1>3 DEF H, Handlers
<1>5. /\ r = <<>> \/ r = <<H("read", s, FALSE)>>
      /\ r # <<>> <=> reading[s] # "none"
      /\ w = <<>> \/ w = <<H("wrote", s, FALSE)>>
  OBVIOUS
<1> HIDE DEF rest, e, r, w
<1>6. Session(s)
  BY <1>3 DEF IInv
<1>7. /\ UNCHANGED <<nextIoct, accepting, sessionMap, sid, thread, peer, frames, sent, replied,
                     erased, homeless, up>>
      /\ Lost(s)' <=> Lost(s)
  BY DEF Only
<1>8. ~Waits(s, "arm") /\ Waits(s, kind)
  BY <1>3, <1>6 DEF Session, ArmFirst
<1>9. sid[s] \in Ids /\ ~Has(mainQ, "erase", s) /\ (Stored(s) \/ Lost(s))
  BY <1>2, <1>3, <1>6 DEF Typed, Session, Mapped
\* main_ioct_'s FIFO.
<1>10. /\ mainQ \in Seq(Handlers) /\ mainQ' \in Seq(Handlers)
       /\ \A i \in DOMAIN mainQ' : mainQ'[i].kind \in {"accept", "erase"}
  <2>1. mainQ \in Seq(Handlers) /\ mainQ' \in Seq(Handlers)
    BY <1>1, <1>2, <1>4, Appended DEF Typed
  <2> QED
    BY <1>1, <1>2, <1>4, <2>1, Appended DEF Placed
<1>11. /\ Has(mainQ', "erase", s) /\ Once(mainQ', "erase", s)
       /\ Has(mainQ', "accept", s) <=> Has(mainQ, "accept", s)
       /\ Once(mainQ, "accept", s) => Once(mainQ', "accept", s)
  <2>1. Is(e, "erase", s) /\ ~Is(e, "accept", s)
    BY <1>4 DEF Is
  <2> QED
    BY <1>1, <1>4, <1>6, <1>9, <1>10, <2>1, AppendFacts DEF Session, Mapped
<1>12. \A o \in Sessions \ {s} : SameMain(o)
  BY <1>1, <1>4, <1>10, SameAppend DEF SameMain
\* The thread's FIFO.
<1>13. /\ v \in Seq(Handlers) /\ Sits(v, t, thread, conn)
       /\ \A l : /\ Has(v, l, s) <=> Has(rest, l, s) \/ (l = "read" /\ r # <<>>)
                 /\ Once(rest, l, s) /\ ~ (l = "read" /\ r # <<>> /\ Has(rest, l, s)) =>
                      Once(v, l, s)
       /\ \A l, m : l \notin {m, "read"} /\ Before(rest, l, m, s) => Before(v, l, m, s)
       /\ \A o \in Sessions \ {s} : SameFor(rest, v, o)
  BY <1>3, <1>5, Ending
<1> HIDE DEF v
<1>14. /\ u \in Seq(Handlers) /\ Sits(u, t, thread, conn)
       /\ \A l : /\ Has(u, l, s) <=> Has(v, l, s) \/ (l = "wrote" /\ w # <<>>)
                 /\ Once(v, l, s) /\ ~ (l = "wrote" /\ w # <<>> /\ Has(v, l, s)) => Once(u, l, s)
       /\ \A l, m : l \notin {m, "wrote"} /\ Before(v, l, m, s) => Before(u, l, m, s)
       /\ \A o \in Sessions \ {s} : SameFor(v, u, o)
  BY <1>3, <1>5, <1>13, Ending
<1> HIDE DEF u
<1>15. \A o \in Sessions \ {s} : SameFor(poolQ[t], u, o)
  BY <1>3, <1>13, <1>14, SameTrans
<1>16. conn'[s] = "closed" /\ \A o \in Sessions \ {s} : conn'[o] = conn[o]
  BY <1>1, <1>2, <1>3 DEF Typed
<1>17. /\ poolQ' \in [1 .. Threads -> Seq(Handlers)] /\ Placed'
       /\ poolQ'[thread'[s]] = u
       /\ \A o \in Sessions \ {s} : SameQ(o)
  <2>1. poolQ' = [poolQ EXCEPT ![t] = u] /\ UNCHANGED thread
    BY <1>1, <1>3, <1>7
  <2>2. \A o \in Sessions : conn[o] # "none" => conn'[o] # "none"
    BY <1>16
  <2> QED
    BY <1>2, <1>3, <1>10, <1>14, <1>15, <2>1, <2>2, Replaced
<1>18. \A k : (Waits(s, k)' <=> Has(u, k, s)) /\ (Once(Q(s), k, s)' <=> Once(u, k, s))
  BY <1>17 DEF Waits, Q
<1>19. /\ ~Waits(s, "arm")' /\ (Waits(s, "start")' <=> Waits(s, "start"))
       /\ kind # "tick" => (Waits(s, "tick")' <=> Waits(s, "tick"))
  BY <1>3, <1>8, <1>13, <1>14, <1>18
<1>20. /\ Once(Q(s), "arm", s)' /\ Once(Q(s), "start", s)' /\ Once(Q(s), "tick", s)'
       /\ Before(Q(s), "arm", "start", s)'
  <2>1. Before(u, "arm", "start", s)
    BY <1>3, <1>6, <1>13, <1>14 DEF Session, ArmFirst
  <2>2. Before(Q(s), "arm", "start", s)'
    BY <1>17, <2>1 DEF Q
  <2>3. Once(Q(s), "arm", s) /\ Once(Q(s), "start", s) /\ Once(Q(s), "tick", s)
    BY <1>6 DEF Session, ArmFirst, Reader, TickLast
  <2> QED
    BY <1>3, <1>13, <1>14, <1>18, <2>2, <2>3
<1>21. Once(Q(s), "read", s)' /\ ~ (Waits(s, "start")' /\ Waits(s, "read")')
  <2>1. Once(Q(s), "read", s) /\ ~ (Waits(s, "start") /\ Waits(s, "read"))
    BY <1>6 DEF Session, Reader
  <2>2. r # <<>> => ~Has(rest, "read", s) /\ ~Waits(s, "start")
    BY <1>3, <1>5, <1>6 DEF Session, Reader
  <2> QED
    BY <1>3, <1>13, <1>14, <1>18, <1>19, <2>1, <2>2
\* A tick that will fire stays behind the Start.
<1>22. timer'[s] = "expired" => Waits(s, "tick")' /\ Before(Q(s), "start", "tick", s)'
  <2> SUFFICES ASSUME timer'[s] = "expired"
               PROVE  Waits(s, "tick")' /\ Before(Q(s), "start", "tick", s)'
    OBVIOUS
  <2>1. Waits(s, "tick")'
    BY <1>6, <1>19 DEF Session, TickLast
  <2>2. Before(Q(s), "start", "tick", s)
    BY <1>6 DEF Session, TickLast
  <2>3. Before(rest, "start", "tick", s)
    BY <1>3, <2>2
  <2>4. Before(v, "start", "tick", s)
    BY <1>13, <2>3
  <2>5. Before(u, "start", "tick", s)
    BY <1>14, <2>4
  <2> QED
    BY <1>17, <2>1, <2>5 DEF Q
<1>23. reading'[s] = "none" /\ unwritten'[s] = 0
  BY <1>1, <1>2, <1>3 DEF Typed
<1>24. Typed'
  <2>1. reading' \in [Sessions -> {"none", "len", "body"}]
    BY <1>1, <1>2 DEF Typed
  <2>2. unwritten' \in [Sessions -> 0 .. MaxRequests]
    <3>1. 0 \in 0 .. MaxRequests
      OBVIOUS
    <3> QED
      BY <1>1, <1>2, <3>1 DEF Typed
  <2>3. conn' \in [Sessions -> {"none", "active", "closed"}]
    BY <1>1, <1>2 DEF Typed
  <2> QED
    BY <1>2, <1>7, <1>10, <1>17, <2>1, <2>2, <2>3 DEF Typed
<1>25. EraseRemovesOwn'
  BY <1>7, Parts DEF EraseRemovesOwn, Evicted
<1>26. New(s)'
  BY <1>6, <1>7, <1>11, <1>16 DEF Session, New
<1>27. Mapped(s)'
  BY <1>6, <1>7, <1>9, <1>11, <1>16 DEF Session, Mapped, Stored
<1>28. ArmFirst(s)' /\ Reader(s)' /\ Parsing(s)'
  <2>1. ArmFirst(s)'
    BY <1>6, <1>8, <1>19, <1>20 DEF Session, ArmFirst
  <2>2. Reader(s)'
    BY <1>7, <1>9, <1>16, <1>20, <1>21, <1>23 DEF Reader
  <2>3. Parsing(s)'
    BY <1>16 DEF Parsing
  <2> QED
    BY <2>1, <2>2, <2>3
<1>29. TickLast(s)'
  <2>1. s \in dangling' => Lost(s)' \/ s \in broken'
    BY <1>6, <1>7 DEF Session, TickLast
  <2> QED
    BY <1>19, <1>20, <1>22, <2>1 DEF TickLast
<1>30. Counted(s)'
  BY <1>6, <1>7, <1>16 DEF Session, Counted
<1>31. Answered(s)'
  <2>1. replied[s] \in Nat /\ unwritten[s] \in Nat /\ decoded[s] \in Nat
        /\ replied[s] + unwritten[s] <= decoded[s]
    BY <1>2, <1>3, <1>6 DEF Typed, Session, Answered
  <2>2. replied[s] + 0 <= decoded[s]
    BY <2>1
  <2>3. replied'[s] + unwritten'[s] <= decoded'[s] /\ ~ (unwritten'[s] > 0)
    BY <1>7, <1>23, <2>2
  <2> QED
    BY <1>7, <1>9, <1>16, <2>3 DEF Answered
<1>32. Session(s)'
  BY <1>26, <1>27, <1>28, <1>29, <1>30, <1>31 DEF Session
<1>33. ASSUME NEW o \in Sessions \ {s} PROVE Session(o)'
  <2>1. SameMap(o) /\ SameMarks(o) /\ Kept(o)
    BY DEF Only, SameMap
  <2> QED
    BY <1>2, <1>12, <1>17, <2>1, SessionKept DEF IInv
<1> QED
  BY <1>3, <1>17, <1>24, <1>25, <1>32, <1>33, Whole

LEMMA ReadRejectedStep ==
    ASSUME IInv, NEW t, NEW s, Runs(t, s), Only(s),
           ReadRejected(t, Head(poolQ[t]), Tail(poolQ[t]))
    PROVE  IInv'
<1>1. /\ Head(poolQ[t]).kind = "read" /\ conn[s] = "active" /\ Alive(s)
      /\ CloseSession(s, Tail(poolQ[t]))
      /\ rstate' = [rstate EXCEPT ![s] = "kReadTotalLen"] \/ rstate' = rstate
      /\ UNCHANGED <<context, timer, decoded, broken, dangling>>
  BY DEF ReadRejected, Runs
<1>2. Typed /\ Placed
  BY Parts
<1>3. s \in Sessions /\ Waits(s, "read")
  BY <1>1, <1>2, Pop
<1>4. ~Waits(s, "start")
  BY <1>3 DEF IInv, Session, Reader
<1>5. /\ rstate' \in [Sessions -> {"kReadTotalLen", "kReadRequest"}]
      /\ timer' \in [Sessions -> {"none", "armed", "expired"}]
      /\ broken' \subseteq Sessions
  BY <1>1, <1>2 DEF Typed
<1> QED
  BY <1>1, <1>4, <1>5, CloseStep

LEMMA WriteFailedStep ==
    ASSUME IInv, NEW t, NEW s, Runs(t, s), Only(s),
           WriteFailed(t, Head(poolQ[t]), Tail(poolQ[t]))
    PROVE  IInv'
<1>1. /\ Head(poolQ[t]).kind = "wrote" /\ conn[s] = "active" /\ Alive(s)
      /\ CloseSession(s, Tail(poolQ[t])) /\ broken' = broken \cup {s}
      /\ UNCHANGED <<rstate, context, timer, decoded, dangling>>
  BY DEF WriteFailed, Runs
<1>2. Typed /\ Placed
  BY Parts
<1>3. s \in Sessions
  BY <1>2, Pop
<1>4. /\ rstate' \in [Sessions -> {"kReadTotalLen", "kReadRequest"}]
      /\ timer' \in [Sessions -> {"none", "armed", "expired"}]
      /\ broken' \subseteq Sessions /\ s \in broken'
  BY <1>1, <1>2, <1>3 DEF Typed
<1> QED
  BY <1>1, <1>4, CloseStep

\* A handler that finds nothing to do: the completions of a session that is closed or
\* destroyed, or of a write that succeeded, and the ticks that do not fire.
Gone(s) == conn[s] = "closed" \/ ~Alive(s)
Quiet(t, s, kind) ==
    /\ UNCHANGED <<conn, mainQ, reading, unwritten, rstate, context, decoded, broken, dangling>>
    /\ timer' \in [Sessions -> {"none", "armed", "expired"}]
    /\ timer'[s] = "expired" => kind # "tick" /\ timer[s] = "expired"
    /\ kind = "read" => Gone(s)
    /\ kind = "wrote" => Gone(s) \/ Head(poolQ[t]).ok

LEMMA QuietStep ==
    ASSUME IInv, NEW t, NEW s, Runs(t, s), Only(s), NEW kind \in {"read", "wrote", "tick"},
           kind = Head(poolQ[t]).kind, poolQ' = [poolQ EXCEPT ![t] = Tail(poolQ[t])],
           Quiet(t, s, kind)
    PROVE  IInv'
<1>1. Typed /\ TypeOK /\ Placed
  BY Parts
<1>2. s \in Sessions /\ conn[s] # "none" /\ Waits(s, kind)
  BY <1>1, Pop
<1>3. Session(s)
  BY <1>2 DEF IInv
<1>4. /\ UNCHANGED <<nextIoct, accepting, sessionMap, sid, thread, peer, frames, sent, replied,
                     erased, homeless, up>>
      /\ Lost(s)' <=> Lost(s)
      /\ UNCHANGED <<conn, mainQ, reading, unwritten, rstate, context, decoded, broken, dangling>>
      /\ timer' \in [Sessions -> {"none", "armed", "expired"}]
  BY DEF Only, Quiet
<1>5. /\ poolQ' \in [1 .. Threads -> Seq(Handlers)] /\ Placed'
      /\ \A k : /\ Waits(s, k)' => Waits(s, k)
                /\ k # kind => (Waits(s, k)' <=> Waits(s, k))
                /\ HasOk(Q(s), k, s)' => HasOk(Q(s), k, s)
                /\ k # kind => (HasFailed(Q(s), k, s)' <=> HasFailed(Q(s), k, s))
                /\ Once(Q(s), k, s) => Once(Q(s), k, s)'
                /\ Once(Q(s), k, s) /\ k = kind => ~Waits(s, k)'
      /\ \A k, l : Before(Q(s), k, l, s) => Before(Q(s), k, l, s)'
      /\ Head(poolQ[t]).ok => (HasFailed(Q(s), kind, s)' <=> HasFailed(Q(s), kind, s))
      /\ \A o \in Sessions \ {s} : SameQ(o)
  <2>1. /\ Typed /\ Placed /\ Runs(t, s) /\ kind = Head(poolQ[t]).kind
        /\ poolQ' = [poolQ EXCEPT ![t] = Tail(poolQ[t])] /\ UNCHANGED <<thread, conn, mainQ>>
    BY <1>1, <1>4
  <2> QED
    BY <2>1, Ran, Zenon
<1>6. Typed'
  BY <1>1, <1>4, <1>5 DEF Typed
<1>7. EraseRemovesOwn'
  BY <1>4, Parts DEF EraseRemovesOwn, Evicted
<1>8. New(s)' /\ Mapped(s)'
  <2>1. New(s)'
    BY <1>2, <1>3, <1>4 DEF Session, New
  <2> QED
    BY <1>3, <1>4, <2>1 DEF Session, Mapped, Stored
<1>9. ~Waits(s, "arm") /\ ~Waits(s, "arm")' /\ (Waits(s, "start")' <=> Waits(s, "start"))
  BY <1>2, <1>3, <1>5 DEF Session, ArmFirst
<1>10. /\ Once(Q(s), "arm", s)' /\ Once(Q(s), "start", s)' /\ Once(Q(s), "read", s)'
       /\ Once(Q(s), "tick", s)'
       /\ Before(Q(s), "arm", "start", s)'
  BY <1>3, <1>5 DEF Session, ArmFirst, Reader, TickLast
<1>11. ArmFirst(s)'
  BY <1>3, <1>4, <1>9, <1>10 DEF Session, ArmFirst
<1>12. Reader(s)'
  <2>1. /\ kind # "read" => (Waits(s, "read")' <=> Waits(s, "read"))
        /\ Waits(s, "read")' => Waits(s, "read")
    BY <1>5
  <2> QED
    BY <1>2, <1>3, <1>4, <1>9, <1>10, <2>1, AliveStays DEF Session, Reader, Quiet, Gone
<1>13. Parsing(s)'
  BY <1>3, <1>4, <1>9 DEF Session, Parsing
<1>14. TickLast(s)'
  <2>1. kind # "tick" => (Waits(s, "tick")' <=> Waits(s, "tick"))
    BY <1>5
  <2>2. Before(Q(s), "start", "tick", s) => Before(Q(s), "start", "tick", s)'
    BY <1>5
  <2> QED
    BY <1>3, <1>4, <1>9, <1>10, <2>1, <2>2 DEF Session, TickLast, Quiet
<1>15. Counted(s)'
  <2>1. HasOk(Q(s), "read", s)' => HasOk(Q(s), "read", s)
    BY <1>5
  <2> QED
    BY <1>3, <1>4, <2>1 DEF Session, Counted
<1>16. Answered(s)'
  <2>1. conn[s] # "closed" /\ Alive(s) =>
          (HasFailed(Q(s), "wrote", s)' <=> HasFailed(Q(s), "wrote", s))
    BY <1>5 DEF Quiet, Gone
  <2>2. /\ Waits(s, "wrote")' => Waits(s, "wrote")
        /\ Once(Q(s), "wrote", s) => Once(Q(s), "wrote", s)'
    BY <1>5
  <2> QED
    BY <1>2, <1>3, <1>4, <1>9, <2>1, <2>2, AliveStays DEF Session, Answered
<1>17. Session(s)'
  BY <1>8, <1>11, <1>12, <1>13, <1>14, <1>15, <1>16 DEF Session
<1>18. \A o \in Sessions \ {s} : Session(o)'
  BY <1>2, <1>4, <1>5, Others
<1> QED
  BY <1>2, <1>5, <1>6, <1>7, <1>17, <1>18, Whole

LEMMA IgnoredStep ==
    ASSUME IInv, NEW t, NEW s, Runs(t, s), Only(s),
           Ignored(t, Head(poolQ[t]), Tail(poolQ[t]))
    PROVE  IInv'
<1> DEFINE h == Head(poolQ[t])
<1>1. /\ h.kind \in {"read", "wrote"} /\ poolQ' = [poolQ EXCEPT ![t] = Tail(poolQ[t])]
      /\ conn[s] = "closed" \/ ~Alive(s) \/ (h.kind = "wrote" /\ h.ok)
      /\ UNCHANGED <<conn, mainQ, reading, unwritten, rstate, context, timer, decoded, broken,
                     dangling>>
  BY DEF Ignored, Skip, Runs
<1>2. timer' \in [Sessions -> {"none", "armed", "expired"}]
  BY <1>1, Parts DEF Typed
<1> QED
  BY <1>1, <1>2, QuietStep DEF Quiet, Gone

LEMMA FireStep ==
    ASSUME IInv, NEW t, NEW s, Runs(t, s), Only(s),
           Fire(t, Head(poolQ[t]), Tail(poolQ[t]))
    PROVE  IInv'
<1>1. /\ Head(poolQ[t]).kind = "tick"
      /\ UNCHANGED <<rstate, context, decoded, broken, dangling>>
  BY DEF Fire, Runs
<1>2. Typed /\ Placed
  BY Parts
<1>3. /\ s \in Sessions /\ thread[s] = t
      /\ Before(Q(s), "start", "tick", s) => ~Waits(s, "start")
  BY <1>1, <1>2, Pop
<1>4. timer' \in [Sessions -> {"none", "armed", "expired"}] /\ timer'[s] # "expired"
  <2>1. \/ timer[s] = "expired" /\ timer' = [timer EXCEPT ![s] = "none"]
        \/ timer[s] # "expired" /\ timer' = timer
    BY <1>1 DEF Fire, Runs
  <2> QED
    BY <1>2, <1>3, <2>1 DEF Typed
<1>5. CASE conn[s] = "active" /\ timer[s] = "expired" /\ Alive(s)
  <2>1. CloseSession(s, Tail(poolQ[t]))
    BY <1>1, <1>5 DEF Fire, Runs
  <2>2. ~Waits(s, "start")
    BY <1>3, <1>5 DEF IInv, Session, TickLast
  <2>3. rstate' \in [Sessions -> {"kReadTotalLen", "kReadRequest"}] /\ broken' \subseteq Sessions
    BY <1>1, <1>2 DEF Typed
  <2> QED
    BY <1>1, <1>4, <1>5, <2>1, <2>2, <2>3, CloseStep
<1>6. CASE ~ (conn[s] = "active" /\ timer[s] = "expired" /\ Alive(s))
  <2>1. /\ poolQ' = [poolQ EXCEPT ![t] = Tail(poolQ[t])]
        /\ UNCHANGED <<conn, mainQ, reading, unwritten>>
    BY <1>1, <1>3, <1>6 DEF Fire, CloseSession, Skip, Runs
  <2> QED
    BY <1>1, <1>4, <2>1, QuietStep DEF Quiet
<1> QED
  BY <1>5, <1>6

-----------------------------------------------------------------------------
\* A pool thread changes what belongs to the session of the handler it runs.
LEMMA OnlyItsSession ==
    ASSUME IInv, UNCHANGED up, NEW t \in 1 .. Threads, PoolStep(t), NEW s,
           s = Head(poolQ[t]).s
    PROVE  Runs(t, s) /\ Only(s)
<1> DEFINE h == Head(poolQ[t])
           rest == Tail(poolQ[t])
           Same(f, g) == \A o \in Sessions \ {s} : g[o] = f[o]
<1>1. /\ poolQ[t] # <<>>
      /\ \/ Arm(t, h, rest) \/ Start(t, h, rest)
         \/ ReadTotalLen(t, h, rest) \/ ReadRequest(t, h, rest)
         \/ ReadRejected(t, h, rest) \/ WriteFailed(t, h, rest)
         \/ Ignored(t, h, rest) \/ Fire(t, h, rest)
      /\ UNCHANGED <<nextIoct, accepting, sessionMap, sid, thread, peer, frames, sent, replied,
                   erased, homeless>>
  BY DEF PoolStep, sessVars, netVars
<1>2. Runs(t, s) /\ Typed
  BY <1>1, Parts DEF Runs
<1> DEFINE Local ==
             /\ Same(conn, conn') /\ Same(rstate, rstate') /\ Same(reading, reading')
             /\ Same(context, context') /\ Same(timer, timer') /\ Same(decoded, decoded')
             /\ Same(unwritten, unwritten')
           Marked == /\ broken' \in {broken, broken \cup {s}}
                     /\ dangling' \in {dangling, dangling \cup {s}}
<1>3. ASSUME CloseSession(s, rest) \/ Skip(t, rest)
      PROVE  Same(conn, conn') /\ Same(reading, reading') /\ Same(unwritten, unwritten')
  <2>1. /\ conn' = conn \/ conn' = [conn EXCEPT ![s] = "closed"]
        /\ reading' = reading \/ reading' = [reading EXCEPT ![s] = "none"]
        /\ unwritten' = unwritten \/ unwritten' = [unwritten EXCEPT ![s] = 0]
    BY <1>3 DEF CloseSession, Skip
  <2> QED
    BY <1>2, <2>1 DEF Typed
<1>4. CASE Arm(t, h, rest)
  <2>1. Local
    BY <1>2, <1>3, <1>4 DEF Arm, Typed
  <2> QED
    BY <1>1, <1>2, <1>4, <2>1 DEF Arm, Only, Kept, SameMarks, Lost,
       Evicted
<1>5. CASE Start(t, h, rest)
  <2>1. Local
    BY <1>2, <1>3, <1>5 DEF Start, Typed
  <2>2. Marked
    BY <1>5 DEF Start, Skip
  <2> QED
    BY <1>1, <1>2, <2>1, <2>2 DEF Only, Kept, SameMarks, Lost,
       Evicted
<1>6. CASE ReadTotalLen(t, h, rest)
  <2>1. Local
    BY <1>2, <1>6 DEF ReadTotalLen, Typed
  <2> QED
    BY <1>1, <1>2, <1>6, <2>1 DEF ReadTotalLen, Only, Kept, SameMarks, Lost,
       Evicted
<1>7. CASE ReadRequest(t, h, rest)
  <2>1. Local
    BY <1>2, <1>7 DEF ReadRequest, Dispatch, WriteResponse, Typed
  <2> QED
    BY <1>1, <1>2, <1>7, <2>1 DEF ReadRequest, Only, Kept, SameMarks, Lost,
       Evicted
<1>8. CASE ReadRejected(t, h, rest)
  <2>1. Local
    BY <1>2, <1>3, <1>8 DEF ReadRejected, Typed
  <2> QED
    BY <1>1, <1>2, <1>8, <2>1 DEF ReadRejected, Only, Kept, SameMarks, Lost,
       Evicted
<1>9. CASE WriteFailed(t, h, rest)
  <2>1. Local
    BY <1>2, <1>3, <1>9 DEF WriteFailed, Typed
  <2> QED
    BY <1>1, <1>2, <1>9, <2>1 DEF WriteFailed, Only, Kept, SameMarks, Lost,
       Evicted
<1>10. CASE Ignored(t, h, rest)
  <2>1. Local
    BY <1>2, <1>3, <1>10 DEF Ignored, Typed
  <2> QED
    BY <1>1, <1>2, <1>10, <2>1 DEF Ignored, Only, Kept, SameMarks, Lost,
       Evicted
<1>11. CASE Fire(t, h, rest)
  <2>1. Local
    <3>1. CloseSession(s, rest) \/ Skip(t, rest)
      BY <1>11 DEF Fire
    <3>2. Same(conn, conn') /\ Same(reading, reading') /\ Same(unwritten, unwritten')
      BY <1>3, <3>1
    <3>3. timer' = timer \/ timer' = [timer EXCEPT ![s] = "none"]
      BY <1>11 DEF Fire
    <3> QED
      BY <1>2, <1>11, <3>2, <3>3 DEF Fire, Typed
  <2> QED
    BY <1>1, <1>2, <1>11, <2>1 DEF Fire, Only, Kept, SameMarks, Lost,
       Evicted
<1> QED
  BY <1>1, <1>4, <1>5, <1>6, <1>7, <1>8, <1>9, <1>10, <1>11

LEMMA PoolStepStep ==
    ASSUME IInv, UNCHANGED up, NEW t \in 1 .. Threads, PoolStep(t) PROVE IInv'
<1>1. PICK s : s = Head(poolQ[t]).s
  OBVIOUS
<1>2. Runs(t, s) /\ Only(s)
  BY <1>1, OnlyItsSession
<1> QED
  BY <1>2, ArmStep, StartStep, ReadTotalLenStep, ReadRequestStep, ReadRejectedStep,
     WriteFailedStep, IgnoredStep, FireStep DEF PoolStep

LEMMA InitIInv == Init => IInv
<1> SUFFICES ASSUME Init PROVE IInv
  OBVIOUS
<1>1. Typed
  <2>1. (CHOOSE i \in Ids : TRUE) \in Ids
    OBVIOUS
  <2>2. sid \in [Sessions -> Ids]
    BY <2>1 DEF Init
  <2>3. mainQ \in Seq(Handlers) /\ poolQ \in [1 .. Threads -> Seq(Handlers)]
    BY DEF Init
  <2>4. 0 \in 0 .. MaxRequests /\ 1 \in 1 .. Threads
    OBVIOUS
  <2> QED
    BY <2>2, <2>3, <2>4 DEF Init, Typed
<1>2. Placed /\ EraseRemovesOwn
  BY DEF Init, Placed, Sits, EraseRemovesOwn, Evicted
<1>3. ASSUME NEW s \in Sessions PROVE Session(s)
  <2>1. thread[s] \in 1 .. Threads
    BY <1>1 DEF Typed
  <2>2. Q(s) = <<>>
    BY <2>1 DEF Init, Q
  <2>3. \A k : /\ ~Has(<<>>, k, s) /\ Once(<<>>, k, s)
               /\ ~HasOk(<<>>, k, s) /\ ~HasFailed(<<>>, k, s)
               /\ \A l : Before(<<>>, k, l, s)
    BY DEF Has, Once, HasOk, HasFailed, Before
  <2>4. New(s)
    BY <2>3 DEF Init, New, Lost, Evicted
  <2>5. Mapped(s)
    <3>1. \A i \in Ids : sessionMap[i] # s
      BY DEF Init
    <3> QED
      BY <2>3, <3>1 DEF Init, Mapped
  <2>6. ArmFirst(s) /\ Reader(s) /\ Parsing(s)
    BY <2>2, <2>3 DEF Init, ArmFirst, Reader, Parsing, Waits
  <2>7. TickLast(s)
    BY <2>2, <2>3 DEF Init, TickLast, Waits
  <2>8. Counted(s)
    BY <2>2, <2>3 DEF Init, Counted
  <2>9. Answered(s)
    BY <2>2, <2>3 DEF Init, Answered, Waits
  <2> QED
    BY <2>4, <2>5, <2>6, <2>7, <2>8, <2>9 DEF Session
<1> QED
  BY <1>1, <1>2, <1>3, TypedIsTypeOK DEF IInv

\* Nothing of the server changes, but the accept callback may return and the process
\* may go down.
LEMMA IdleStep ==
    ASSUME IInv, up' \in BOOLEAN, accepting' \in {accepting, None},
           UNCHANGED <<mainQ, poolQ, nextIoct, sessionMap, sid, thread, conn, rstate, reading,
                       context, timer, peer, frames, sent, decoded, unwritten, replied, erased,
                       homeless, broken, dangling>>
    PROVE  IInv'
<1>1. Typed /\ Placed /\ EraseRemovesOwn
  BY Parts
<1>2. Typed'
  BY <1>1 DEF Typed
<1>3. TypeOK'
  BY <1>2, TypedIsTypeOK, PTL
<1>4. Placed' /\ EraseRemovesOwn'
  BY <1>1 DEF Placed, EraseRemovesOwn, Evicted
<1>5. ASSUME NEW s \in Sessions PROVE Session(s)'
  <2>1. SameQ(s) /\ SameMain(s) /\ SameMap(s) /\ SameMarks(s) /\ Kept(s)
    BY SameItself DEF SameQ, SameMain, SameMap, SameMarks, Kept, Lost, Evicted
  <2> QED
    BY <2>1, SessionKept DEF IInv
<1> QED
  BY <1>3, <1>4, <1>5 DEF IInv

LEMMA NextIInv == IInv /\ [Next]_vars => IInv'
<1> SUFFICES ASSUME IInv, [Next]_vars PROVE IInv'
  OBVIOUS
<1>1. ASSUME Running, UNCHANGED up PROVE IInv'
  <2>1. ASSUME OnAccept \/ EraseSession PROVE IInv'
    <3>1. mainQ # <<>>
      BY <2>1 DEF OnAccept, EraseSession
    <3>2. Head(mainQ) \in Handlers
      BY <3>1, Parts, Cut DEF Typed
    <3>3. PICK s \in Sessions : s = Head(mainQ).s
      BY <3>2 DEF Handlers
    <3> QED
      BY <1>1, <2>1, <3>3, OnAcceptStep, EraseSessionStep
  <2>2. ASSUME NEW t \in 1 .. Threads, PoolStep(t) PROVE IInv'
    BY <1>1, <2>2, PoolStepStep
  <2>3. ASSUME NEW s \in Sessions, NEW i \in Ids, ClientConnects(s, i) PROVE IInv'
    BY <1>1, <2>3, ClientConnectsStep
  <2>4. ASSUME NEW s \in Sessions, ReadSettles(s) PROVE IInv'
    <3>1. PICK b \in BOOLEAN : (b => frames[s] > 0) /\ poolQ' = PostTo(s, <<H("read", s, b)>>)
      BY <2>4 DEF ReadSettles
    <3>2. reading[s] # "none"
      BY <2>4 DEF ReadSettles
    <3> QED
      BY <1>1, <2>4, <3>1, <3>2, ReadSettlesStep
  <2>5. ASSUME NEW s \in Sessions, WriteSettles(s) PROVE IInv'
    <3>1. PICK b \in BOOLEAN :
            /\ poolQ' = PostTo(s, <<H("wrote", s, b)>>)
            /\ IF b THEN /\ unwritten' = [unwritten EXCEPT ![s] = @ - 1]
                         /\ replied' = [replied EXCEPT ![s] = @ + 1]
               ELSE unwritten' = [unwritten EXCEPT ![s] = 0] /\ UNCHANGED replied
      BY <2>5 DEF WriteSettles
    <3> QED
      BY <1>1, <2>5, <3>1, WriteSettlesStep
  <2>6. ASSUME AcceptReturns PROVE IInv'
    <3>1. up' \in BOOLEAN
      BY <1>1, Parts DEF Typed
    <3> QED
      BY <2>6, <3>1, IdleStep DEF AcceptReturns, sessVars, netVars, histVars
  <2>7. ASSUME NEW s \in Sessions, ClientSends(s) \/ ClientGoes(s) \/ Expire(s) PROVE IInv'
    BY <1>1, <2>7, ClientSendsStep, ClientGoesStep, ExpireStep
  <2> QED
    BY <1>1, <2>1, <2>2, <2>3, <2>4, <2>5, <2>6, <2>7 DEF Running
<1>2. ASSUME AcceptThrows PROVE IInv'
  BY <1>2, IdleStep DEF AcceptThrows, sessVars, netVars, histVars
<1>3. ASSUME NEW t \in 1 .. Threads, DanglingStartCrashes(t) PROVE IInv'
  BY <1>3, IdleStep DEF DanglingStartCrashes, sessVars, netVars, histVars
<1>4. ASSUME UNCHANGED vars PROVE IInv'
  <2>1. up' \in BOOLEAN
    BY <1>4, Parts DEF vars, Typed
  <2> QED
    BY <1>4, <2>1, IdleStep DEF vars, sessVars, netVars, histVars
<1> QED
  BY <1>1, <1>2, <1>3, <1>4 DEF Next

\* How many handlers of a kind wait for a session, when there is at most one.
LEMMA AtMostOne ==
    ASSUME NEW s, NEW k, Once(Q(s), k, s)
    PROVE  /\ Waits(s, k) => Queued(s, k) = 1
           /\ ~Waits(s, k) => Queued(s, k) = 0
<1> DEFINE q == Q(s)
           I == {i \in DOMAIN q : q[i].kind = k /\ q[i].s = s}
<1>1. Queued(s, k) = Cardinality(I)
  BY DEF Queued, Q
<1> HIDE DEF q
<1>2. CASE Waits(s, k)
  <2>1. PICK i \in DOMAIN q : q[i].kind = k /\ q[i].s = s
    BY <1>2 DEF Waits, Has, q
  <2>2. \A j \in I : j = i
    BY <2>1 DEF Once, Is, q
  <2>3. I = {i}
    BY <2>1, <2>2
  <2> HIDE DEF I
  <2>4. Cardinality({i}) = 1
    BY FS_Singleton
  <2> QED
    BY <1>1, <1>2, <2>3, <2>4
<1>3. CASE ~Waits(s, k)
  <2>1. I = {}
    BY <1>3 DEF Waits, Has, q
  <2> HIDE DEF I
  <2> QED
    BY <1>1, <1>3, <2>1, FS_EmptySet
<1> QED
  BY <1>2, <1>3

LEMMA Inductive == Spec => []IInv
  BY InitIInv, NextIInv, PTL DEF Spec

-----------------------------------------------------------------------------
\* Every session, handler and counter has its type: no session is asked for more
\* frames than its client sends, whatever is queued behind whatever.
THEOREM TypeCorrect == Spec => []TypeOK
<1>1. IInv => TypeOK
  BY DEF IInv
<1> QED
  BY <1>1, Inductive, PTL

\* The lambda that OnSessionClose posts to main_ioct_ erases the session that
\* closed and no other, although it looks it up by an id that a later connection
\* with the same 4-tuple would have too - unless the session was refused by
\* emplace, or had itself been taken out of the map by such an erase.  As long as
\* emplace has refused none, no session ever removes another.
THEOREM EraseIsOwn == Spec => []EraseRemovesOwn
<1>1. IInv => EraseRemovesOwn
  BY DEF IInv
<1> QED
  BY <1>1, Inductive, PTL

\* A connection that lives is in session_map_ unless emplace found its id taken or
\* the erase of such a session removed it, and nothing stays there but a live
\* session or one about to be erased.
THEOREM MapCorrect == Spec => []MapIsLive
<1>1. IInv => MapIsLive
  <2> SUFFICES ASSUME IInv, NEW s \in Sessions
               PROVE  /\ conn[s] = "active" /\ s \notin homeless \cup Evicted =>
                            sessionMap[sid[s]] = s
                      /\ \A i \in Ids : sessionMap[i] = s =>
                            conn[s] = "active" \/ Has(mainQ, "erase", s)
    BY DEF MapIsLive
  <2>1. Mapped(s)
    BY DEF IInv, Session
  <2> QED
    BY <2>1 DEF Mapped, Stored, Lost
<1> QED
  BY <1>1, Inductive, PTL

\* The lambda of Start finds its session destroyed only if the session was never
\* stored, if another's erase took it out of the map or if a write error closed it:
\* the idle timer and read errors cannot.
THEOREM DanglingBounded == Spec => []DanglingStarts
<1>1. IInv => DanglingStarts
  <2> SUFFICES ASSUME IInv, NEW s \in dangling
               PROVE  s \in homeless \cup Evicted \cup broken
    BY DEF DanglingStarts
  <2>1. s \in Sessions
    BY DEF IInv, TypeOK
  <2>2. TickLast(s)
    BY <2>1 DEF IInv, Session
  <2> QED
    BY <2>2 DEF TickLast, Lost
<1> QED
  BY <1>1, Inductive, PTL

\* OnSessionRead finds context_ set: the lambda of PostTimerEvent has run before
\* any read is outstanding or settled.
THEOREM ContextFirst == Spec => []ContextSet
<1>1. IInv => ContextSet
  <2> SUFFICES ASSUME IInv, NEW s \in Sessions, reading[s] # "none" \/ Queued(s, "read") > 0
               PROVE  context[s]
    BY DEF ContextSet
  <2>1. New(s) /\ ArmFirst(s) /\ Reader(s) /\ Once(Q(s), "read", s)
    BY DEF IInv, Session, Reader
  <2>2. reading[s] # "none" \/ Waits(s, "read")
    <3>1. ~Waits(s, "read") => Queued(s, "read") = 0
      BY <2>1, AtMostOne
    <3> QED
      BY <3>1
  <2>3. ~Waits(s, "arm")
    BY <2>1, <2>2 DEF ArmFirst
  <2>4. conn[s] # "none"
    <3>1. CASE reading[s] # "none"
      BY <2>1, <3>1 DEF Reader
    <3>2. CASE Waits(s, "read")
      <4>1. Q(s) \in Seq(Handlers) /\ Sits(Q(s), thread[s], thread, conn)
        BY Parts DEF Typed, Placed, Q
      <4> QED
        BY <3>2, <4>1 DEF Waits, Has, Sits
    <3> QED
      BY <2>2, <3>1, <3>2
  <2> QED
    BY <2>1, <2>3, <2>4 DEF ArmFirst
<1> QED
  BY <1>1, Inductive, PTL

\* state_ says what the bytes being read are, although the code sets it after it
\* has started the read.
THEOREM StateFollowsRead == Spec => []StateMatchesRead
<1>1. IInv => StateMatchesRead
  <2> SUFFICES ASSUME IInv, NEW s \in Sessions, conn[s] = "active"
               PROVE  /\ reading[s] = "len" \/ Queued(s, "start") > 0 => rstate[s] = "kReadTotalLen"
                      /\ reading[s] = "body" => rstate[s] = "kReadRequest"
    BY DEF StateMatchesRead
  <2>1. Parsing(s) /\ Once(Q(s), "start", s)
    BY DEF IInv, Session, Reader
  <2>2. ~Waits(s, "start") => Queued(s, "start") = 0
    BY <2>1, AtMostOne
  <2> QED
    BY <2>1, <2>2 DEF Parsing
<1> QED
  BY <1>1, Inductive, PTL

\* Never two things go on reading a connection, so AsyncReadLen's assert that no
\* read is outstanding holds, and one does as long as somebody holds its session:
\* no connection is left unread.
THEOREM ReaderIsUnique == Spec => []OneReader
<1>1. IInv => OneReader
  <2> DEFINE readers(s) == Queued(s, "start") + Queued(s, "read")
                             + (IF reading[s] # "none" THEN 1 ELSE 0)
  <2> SUFFICES ASSUME IInv, NEW s \in Sessions, conn[s] = "active"
               PROVE  readers(s) <= 1 /\ (Alive(s) => readers(s) = 1)
    BY DEF OneReader
  <2>1. Reader(s)
    BY DEF IInv, Session
  <2>2. /\ Waits(s, "start") => Queued(s, "start") = 1
        /\ ~Waits(s, "start") => Queued(s, "start") = 0
        /\ Waits(s, "read") => Queued(s, "read") = 1
        /\ ~Waits(s, "read") => Queued(s, "read") = 0
    BY <2>1, AtMostOne DEF Reader
  <2>3. CASE Waits(s, "start")
    BY <2>1, <2>2, <2>3 DEF Reader
  <2>4. CASE ~Waits(s, "start") /\ Waits(s, "read")
    BY <2>1, <2>2, <2>4 DEF Reader
  <2>5. CASE ~Waits(s, "start") /\ ~Waits(s, "read")
    BY <2>1, <2>2, <2>5 DEF Reader
  <2> QED
    BY <2>3, <2>4, <2>5
<1> QED
  BY <1>1, Inductive, PTL

\* A request is dispatched only if its frame was sent, and is answered once: more
\* responses than requests are never written, and fewer only on a connection that
\* is closed, whose session is destroyed or whose write has failed.
THEOREM AnswersOnce == Spec => []OneAnswerEach
<1>1. IInv => OneAnswerEach
  <2> SUFFICES ASSUME IInv, NEW s \in Sessions
               PROVE  /\ decoded[s] <= sent[s]
                      /\ replied[s] + unwritten[s] <= decoded[s]
                      /\ conn[s] = "active" /\ Alive(s) /\ Queued(s, "wrote") = 0 =>
                            replied[s] + unwritten[s] = decoded[s]
    BY DEF OneAnswerEach
  <2>1. Typed /\ Counted(s) /\ Answered(s)
    BY Parts DEF IInv, Session
  <2>2. decoded[s] <= sent[s]
    BY <2>1 DEF Typed, Counted
  <2>3. ASSUME conn[s] = "active", Alive(s), Queued(s, "wrote") = 0
        PROVE  replied[s] + unwritten[s] = decoded[s]
    <3>1. Once(Q(s), "wrote", s)
      BY <2>1, <2>3 DEF Answered
    <3>2. ~Waits(s, "wrote")
      BY <2>3, <3>1, AtMostOne
    <3>3. ~HasFailed(Q(s), "wrote", s)
      BY <3>2, OkIsThere DEF Waits
    <3> QED
      BY <2>1, <2>3, <3>3 DEF Answered
  <2> QED
    BY <2>1, <2>2, <2>3 DEF Answered
<1> QED
  BY <1>1, Inductive, PTL
=============================================================================

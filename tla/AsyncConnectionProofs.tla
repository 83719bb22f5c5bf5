------------------------ MODULE AsyncConnectionProofs ------------------------
(***************************************************************************)
(* Theorems about AsyncConnection, for any sizes and any bounds.           *)
(***************************************************************************)
EXTENDS AsyncConnection, FiniteSetTheorems, WellFoundedInduction, TLAPS

HasKind(s, k) == \E i \in 1 .. Len(s) : s[i].kind = k
Once(s, k) == \A i, j \in 1 .. Len(s) : s[i].kind = k /\ s[j].kind = k => i = j
HasWritten(s) == \E i \in 1 .. Len(s) : IsWritten(s[i])

\* A posted message is one of a, a read claims at most r bytes.
Fine(h, a, r) ==
    /\ h.kind = "post" => h.n \in 1 .. a
    /\ h.kind = "read" /\ h.ok => h.n <= r
AllFine(s, a, r) == \A i \in 1 .. Len(s) : Fine(s[i], a, r)

\* The messages posted are lo + 1 .. hi, in order.
Posts(s, lo, hi) ==
    /\ lo <= hi
    /\ \A i \in 1 .. Len(s) : s[i].kind = "post" => lo < s[i].n /\ s[i].n <= hi
    /\ \A i, j \in 1 .. Len(s) :
         s[i].kind = "post" /\ s[j].kind = "post" /\ i < j => s[i].n < s[j].n
    /\ \A m \in lo + 1 .. hi : \E i \in 1 .. Len(s) : s[i].kind = "post" /\ s[i].n = m

Typed ==
    /\ TypeOK
    /\ AllFine(ready, accepted, Readable)
    /\ consumed <= fetched /\ fetched <= arrived /\ Readable <= BufferSize
    /\ CloseOnce

\* is_reading_ stands for the read or its completion.
Reads ==
    /\ Once(ready, "read")
    /\ readOp # NoRead => Active /\ ~HasKind(ready, "read")
    /\ readOp # NoRead \/ HasKind(ready, "read") => isReading
    /\ Active /\ isReading => readOp # NoRead \/ HasKind(ready, "read")

\* On a live connection the queue is not empty while a write is under way or its
\* completion has not run, and the write is that of its front.
Writes ==
    /\ writing # {} => Active
    /\ Active =>
         /\ writing # {} =>
              /\ writeQueue # <<>> /\ writing = {writeQueue[1]}
              /\ ~HasKind(ready, "wrote")
         /\ Once(ready, "wrote")
         /\ HasKind(ready, "wrote") => writeQueue # <<>>
         /\ writeQueue # <<>> => writing # {} \/ HasKind(ready, "wrote")

\* The front of the queue is on the wire.
Popped == IF HasWritten(ready) THEN 1 ELSE 0

\* The last message that was written or queued.
Last == Len(wire) - Popped + Len(writeQueue)

Ordered ==
    Active =>
      /\ \A i \in 1 .. Len(wire) : wire[i] = i
      /\ \A i \in 1 .. Len(writeQueue) : writeQueue[i] = Len(wire) - Popped + i
      /\ Posts(ready, Last, accepted)

IInv == Typed /\ Reads /\ Writes /\ Ordered

-----------------------------------------------------------------------------
(***************************************************************************)
(* Sequences of handlers.                                                  *)
(***************************************************************************)
\* Append, element by element.
LEMMA Appended ==
    ASSUME NEW S, NEW s \in Seq(S), NEW h \in S
    PROVE  /\ Append(s, h) \in Seq(S) /\ Len(s) \in Nat /\ Len(Append(s, h)) = Len(s) + 1
           /\ \A i \in 1 .. Len(Append(s, h)) :
                \/ i \in 1 .. Len(s) /\ Append(s, h)[i] = s[i]
                \/ i = Len(s) + 1 /\ Append(s, h)[i] = h
           /\ \A i \in 1 .. Len(s) :
                i \in 1 .. Len(Append(s, h)) /\ Append(s, h)[i] = s[i]
           /\ Len(s) + 1 \in 1 .. Len(Append(s, h)) /\ Append(s, h)[Len(s) + 1] = h
  OBVIOUS

\* Head and Tail, element by element.
LEMMA Cut ==
    ASSUME NEW S, NEW s \in Seq(S), s # <<>>
    PROVE  /\ Tail(s) \in Seq(S) /\ Len(s) \in Nat /\ Len(Tail(s)) = Len(s) - 1
           /\ Len(Tail(s)) \in Nat /\ 1 \in 1 .. Len(s) /\ Head(s) = s[1] /\ s[1] \in S
           /\ \A i \in 1 .. Len(Tail(s)) : i + 1 \in 1 .. Len(s) /\ Tail(s)[i] = s[i + 1]
           /\ \A i \in 1 .. Len(s) :
                i = 1 \/ (i - 1 \in 1 .. Len(Tail(s)) /\ Tail(s)[i - 1] = s[i])
  OBVIOUS

\* Sequences of up to two elements at the end of another one.
LEMMA Joined ==
    ASSUME NEW S, NEW s \in Seq(S), NEW x \in S, NEW y \in S
    PROVE  /\ s \o <<>> = s /\ s \o <<x>> = Append(s, x)
           /\ s \o (<<>> \o <<>>) = s /\ s \o (<<x>> \o <<>>) = Append(s, x)
           /\ s \o (<<>> \o <<y>>) = Append(s, y)
           /\ s \o (<<x>> \o <<y>>) = Append(Append(s, x), y)
  OBVIOUS

\* A set of numbers that is not empty has a least element.
LEMMA Least == ASSUME NEW S \in SUBSET Nat, S # {} PROVE \E p \in S : \A q \in S : p <= q
<1>1. PICK p \in S : \A q \in S : ~ (<<q, p>> \in OpToRel(<, Nat))
  BY NatLessThanWellFounded, WFMin
<1> DEFINE R == OpToRel(<, Nat)
<1>2. R = {ss \in Nat \X Nat : ss[1] < ss[2]}
  BY Zenon DEF OpToRel
<1>3. \A q \in S : <<q, p>> \notin R
  BY <1>1
<1> HIDE DEF R
<1>4. \A q \in S : p <= q
  <2> TAKE q \in S
  <2>1. <<q, p>> \notin R /\ q \in Nat /\ p \in Nat
    BY <1>3
  <2>2. <<q, p>> \in Nat \X Nat /\ <<q, p>>[1] = q /\ <<q, p>>[2] = p
    BY <2>1
  <2> QED
    BY <2>1, <2>2, <1>2
<1> QED
  BY <1>4

\* The parts of a handler.
LEMMA HandlerType ==
    /\ \A h \in Handlers : h.n \in Nat /\ h.ok \in BOOLEAN
    /\ \A s \in Seq(Handlers) : \A i \in 1 .. Len(s) : s[i] \in Handlers
<1>1. \A h \in Handlers : h.n \in Nat /\ h.ok \in BOOLEAN
  BY DEF Handlers
<1>2. \A s \in Seq(Handlers) : \A i \in 1 .. Len(s) : s[i] \in Handlers
  OBVIOUS
<1> QED
  BY <1>1, <1>2

\* A handler that joins changes the kinds by its own.
LEMMA AppendKind ==
    ASSUME NEW s \in Seq(Handlers), NEW h \in Handlers, NEW k
    PROVE  /\ HasKind(Append(s, h), k) <=> HasKind(s, k) \/ h.kind = k
           /\ Once(s, k) /\ (h.kind # k \/ ~HasKind(s, k)) => Once(Append(s, h), k)
           /\ HasWritten(Append(s, h)) <=> HasWritten(s) \/ IsWritten(h)
<1> DEFINE t == Append(s, h)
<1>1. /\ \A i \in 1 .. Len(t) : (i \in 1 .. Len(s) /\ t[i] = s[i]) \/ (i = Len(s) + 1 /\ t[i] = h)
      /\ \A i \in 1 .. Len(s) : i \in 1 .. Len(t) /\ t[i] = s[i]
      /\ Len(s) + 1 \in 1 .. Len(t) /\ t[Len(s) + 1] = h
  BY Appended
<1> HIDE DEF t
<1>2. HasKind(t, k) <=> HasKind(s, k) \/ h.kind = k
  BY <1>1 DEF HasKind
<1>3. Once(s, k) /\ (h.kind # k \/ ~HasKind(s, k)) => Once(t, k)
  BY <1>1 DEF HasKind, Once
<1>4. HasWritten(t) <=> HasWritten(s) \/ IsWritten(h)
  BY <1>1 DEF HasWritten
<1> QED
  BY <1>2, <1>3, <1>4 DEF t

\* So does the first one when it leaves.
LEMMA TailKind ==
    ASSUME NEW s \in Seq(Handlers), s # <<>>, NEW k
    PROVE  /\ HasKind(s, k) <=> Head(s).kind = k \/ HasKind(Tail(s), k)
           /\ Once(s, k) => Once(Tail(s), k)
           /\ Once(s, k) /\ Head(s).kind = k => ~HasKind(Tail(s), k)
           /\ HasWritten(s) <=> IsWritten(Head(s)) \/ HasWritten(Tail(s))
<1> DEFINE t == Tail(s)
<1>1. /\ 1 \in 1 .. Len(s) /\ Head(s) = s[1] /\ Len(t) \in Nat
      /\ \A i \in 1 .. Len(t) : i + 1 \in 1 .. Len(s) /\ t[i] = s[i + 1]
      /\ \A i \in 1 .. Len(s) : i = 1 \/ (i - 1 \in 1 .. Len(t) /\ t[i - 1] = s[i])
  BY Cut
<1> HIDE DEF t
<1>2. HasKind(s, k) <=> Head(s).kind = k \/ HasKind(t, k)
  <2>1. ASSUME HasKind(t, k) PROVE HasKind(s, k)
    BY <1>1, <2>1 DEF HasKind
  <2>2. ASSUME HasKind(s, k), Head(s).kind # k PROVE HasKind(t, k)
    <3>1. PICK i \in 1 .. Len(s) : s[i].kind = k
      BY <2>2 DEF HasKind
    <3>2. i - 1 \in 1 .. Len(t) /\ t[i - 1] = s[i]
      BY <3>1, <2>2, <1>1
    <3> QED
      BY <3>1, <3>2 DEF HasKind
  <2>3. Head(s).kind = k => HasKind(s, k)
    BY <1>1 DEF HasKind
  <2> QED
    BY <2>1, <2>2, <2>3
<1>3. Once(s, k) => Once(t, k)
  <2> SUFFICES ASSUME Once(s, k), NEW i \in 1 .. Len(t), NEW j \in 1 .. Len(t),
                      t[i].kind = k, t[j].kind = k
               PROVE  i = j
    BY DEF Once
  <2>1. i + 1 \in 1 .. Len(s) /\ j + 1 \in 1 .. Len(s) /\ t[i] = s[i + 1] /\ t[j] = s[j + 1]
    BY <1>1
  <2>2. i + 1 = j + 1
    BY <2>1 DEF Once
  <2> QED
    BY <2>2
<1>4. Once(s, k) /\ Head(s).kind = k => ~HasKind(t, k)
  <2> SUFFICES ASSUME Once(s, k), s[1].kind = k, NEW i \in 1 .. Len(t), t[i].kind = k PROVE FALSE
    BY <1>1 DEF HasKind
  <2>1. i + 1 = 1
    BY <1>1 DEF Once
  <2> QED
    BY <2>1
<1>5. HasWritten(s) <=> IsWritten(Head(s)) \/ HasWritten(t)
  <2>1. ASSUME HasWritten(t) PROVE HasWritten(s)
    BY <1>1, <2>1 DEF HasWritten
  <2>2. ASSUME HasWritten(s), ~IsWritten(Head(s)) PROVE HasWritten(t)
    <3>1. PICK i \in 1 .. Len(s) : IsWritten(s[i])
      BY <2>2 DEF HasWritten
    <3>2. i - 1 \in 1 .. Len(t) /\ t[i - 1] = s[i]
      BY <3>1, <2>2, <1>1
    <3> QED
      BY <3>1, <3>2 DEF HasWritten
  <2>3. IsWritten(Head(s)) => HasWritten(s)
    BY <1>1 DEF HasWritten
  <2> QED
    BY <2>1, <2>2, <2>3
<1> QED
  BY <1>2, <1>3, <1>4, <1>5 DEF t

\* The types of the numbers in handlers that join, leave or stay.
LEMMA FineSeq ==
    ASSUME NEW s \in Seq(Handlers), NEW a \in Nat, NEW r \in Nat, AllFine(s, a, r)
    PROVE  /\ \A h \in Handlers : Fine(h, a, r) => AllFine(Append(s, h), a, r)
           /\ s # <<>> => AllFine(Tail(s), a, r) /\ Fine(Head(s), a, r)
           /\ \A b \in Nat, q \in Nat : a <= b /\ r <= q => AllFine(s, b, q)
           /\ \A q \in Nat : ~HasKind(s, "read") => AllFine(s, a, q)
<1>1. ASSUME NEW h \in Handlers, Fine(h, a, r) PROVE AllFine(Append(s, h), a, r)
  BY <1>1, Appended DEF AllFine
<1>2. s # <<>> => AllFine(Tail(s), a, r) /\ Fine(Head(s), a, r)
  BY Cut DEF AllFine
<1>3. \A i \in 1 .. Len(s) : s[i] \in Handlers /\ s[i].n \in Nat
  BY HandlerType
<1>4. ASSUME NEW b \in Nat, NEW q \in Nat, a <= b, r <= q PROVE AllFine(s, b, q)
  BY <1>3, <1>4 DEF AllFine, Fine
<1>5. ASSUME NEW q \in Nat, ~HasKind(s, "read") PROVE AllFine(s, a, q)
  BY <1>5 DEF AllFine, Fine, HasKind
<1> QED
  BY <1>1, <1>2, <1>4, <1>5

\* Posted messages stay in order when a message is posted or taken, and do not
\* change with the other handlers.
LEMMA PostsSeq ==
    ASSUME NEW s \in Seq(Handlers), NEW lo \in Int, NEW hi \in Int, Posts(s, lo, hi)
    PROVE  /\ \A h \in Handlers : h.kind # "post" => Posts(Append(s, h), lo, hi)
           /\ \A h \in Handlers :
                h.kind = "post" /\ h.n = hi + 1 => Posts(Append(s, h), lo, hi + 1)
           /\ s # <<>> /\ Head(s).kind # "post" => Posts(Tail(s), lo, hi)
           /\ s # <<>> /\ Head(s).kind = "post" =>
                Head(s).n = lo + 1 /\ Posts(Tail(s), lo + 1, hi)
<1>1. \A i \in 1 .. Len(s) : s[i] \in Handlers /\ s[i].n \in Nat
  BY HandlerType
<1>2. ASSUME NEW h \in Handlers, h.kind # "post" \/ h.n = hi + 1,
             NEW top \in Int, top = IF h.kind = "post" THEN hi + 1 ELSE hi
      PROVE  Posts(Append(s, h), lo, top)
  <2> DEFINE t == Append(s, h)
  <2>1. /\ \A i \in 1 .. Len(t) : (i \in 1 .. Len(s) /\ t[i] = s[i]) \/ (i = Len(s) + 1 /\ t[i] = h)
        /\ \A i \in 1 .. Len(s) : i \in 1 .. Len(t) /\ t[i] = s[i]
        /\ Len(s) + 1 \in 1 .. Len(t) /\ t[Len(s) + 1] = h /\ Len(s) \in Nat
    BY Appended
  <2> HIDE DEF t
  <2>2. lo <= top
    BY <1>2 DEF Posts
  <2>3. \A i \in 1 .. Len(t) : t[i].kind = "post" => lo < t[i].n /\ t[i].n <= top
    BY <1>1, <1>2, <2>1 DEF Posts
  <2>4. ASSUME NEW i \in 1 .. Len(t), NEW j \in 1 .. Len(t),
               t[i].kind = "post", t[j].kind = "post", i < j
        PROVE  t[i].n < t[j].n
    <3>0. i \in Nat /\ j \in Nat /\ i # Len(s) + 1
      BY <2>1, <2>4
    <3>1. i \in 1 .. Len(s) /\ t[i] = s[i]
      BY <2>1, <3>0
    <3>2. CASE j = Len(s) + 1
      <4>1. t[j] = h
        BY <2>1, <3>2
      <4>2. h.kind = "post" /\ h.n = hi + 1
        BY <1>2, <2>4, <4>1
      <4>3. s[i].n \in Nat /\ s[i].n <= hi
        BY <1>1, <2>4, <3>1 DEF Posts
      <4> QED
        BY <3>1, <4>1, <4>2, <4>3
    <3>3. CASE j # Len(s) + 1
      <4>1. j \in 1 .. Len(s) /\ t[j] = s[j]
        BY <2>1, <3>3
      <4> QED
        BY <2>4, <3>1, <4>1 DEF Posts
    <3> QED
      BY <3>2, <3>3
  <2>5. ASSUME NEW m \in lo + 1 .. top
        PROVE  \E i \in 1 .. Len(t) : t[i].kind = "post" /\ t[i].n = m
    <3>1. CASE m = hi + 1 /\ h.kind = "post"
      BY <1>2, <2>1, <3>1
    <3>2. CASE ~ (m = hi + 1 /\ h.kind = "post")
      <4>1. m \in lo + 1 .. hi
        BY <1>2, <3>2
      <4>2. PICK i \in 1 .. Len(s) : s[i].kind = "post" /\ s[i].n = m
        BY <4>1 DEF Posts
      <4> QED
        BY <4>2, <2>1
    <3> QED
      BY <3>1, <3>2
  <2> QED
    BY <2>2, <2>3, <2>4, <2>5 DEF Posts, t
<1>3. ASSUME s # <<>>, NEW low \in Int,
             low = IF Head(s).kind = "post" THEN lo + 1 ELSE lo
      PROVE  (Head(s).kind = "post" => Head(s).n = lo + 1) /\ Posts(Tail(s), low, hi)
  <2> DEFINE t == Tail(s)
  <2>1. /\ 1 \in 1 .. Len(s) /\ Head(s) = s[1] /\ Len(t) \in Nat /\ Len(s) \in Nat
        /\ \A i \in 1 .. Len(t) : i + 1 \in 1 .. Len(s) /\ t[i] = s[i + 1]
        /\ \A i \in 1 .. Len(s) : i = 1 \/ (i - 1 \in 1 .. Len(t) /\ t[i - 1] = s[i])
    BY <1>3, Cut
  <2> HIDE DEF t
  <2>2. Head(s).kind = "post" => Head(s).n = lo + 1
    <3> SUFFICES ASSUME s[1].kind = "post" PROVE s[1].n = lo + 1
      BY <2>1
    <3>1. lo < s[1].n /\ s[1].n <= hi /\ s[1].n \in Nat
      BY <1>1, <2>1 DEF Posts
    <3>2. lo + 1 \in lo + 1 .. hi
      BY <3>1
    <3>3. PICK i \in 1 .. Len(s) : s[i].kind = "post" /\ s[i].n = lo + 1
      BY <3>2 DEF Posts
    <3>4. i # 1 => s[1].n < s[i].n
      BY <2>1, <3>3 DEF Posts
    <3> QED
      BY <3>1, <3>3, <3>4
  <2>3. low <= hi
    BY <1>1, <1>3, <2>1, <2>2 DEF Posts
  <2>4. ASSUME NEW i \in 1 .. Len(t), t[i].kind = "post" PROVE low < t[i].n /\ t[i].n <= hi
    <3>1. i + 1 \in 1 .. Len(s) /\ t[i] = s[i + 1] /\ 1 < i + 1
      BY <2>1
    <3>2. lo < s[i + 1].n /\ s[i + 1].n <= hi /\ s[i + 1].n \in Nat
      BY <1>1, <2>4, <3>1 DEF Posts
    <3>3. Head(s).kind = "post" => s[1].n < s[i + 1].n
      BY <2>1, <2>4, <3>1 DEF Posts
    <3> QED
      BY <1>3, <2>1, <2>2, <3>1, <3>2, <3>3
  <2>5. ASSUME NEW i \in 1 .. Len(t), NEW j \in 1 .. Len(t),
               t[i].kind = "post", t[j].kind = "post", i < j
        PROVE  t[i].n < t[j].n
    <3>1. i + 1 \in 1 .. Len(s) /\ j + 1 \in 1 .. Len(s) /\ i + 1 < j + 1
      BY <2>1, <2>5
    <3>2. t[i] = s[i + 1] /\ t[j] = s[j + 1]
      BY <2>1
    <3>3. s[i + 1].kind = "post" /\ s[j + 1].kind = "post"
      BY <2>5, <3>2
    <3>4. s[i + 1].n < s[j + 1].n
      BY <3>1, <3>3 DEF Posts
    <3> QED
      BY <3>2, <3>4
  <2>6. ASSUME NEW m \in low + 1 .. hi
        PROVE  \E i \in 1 .. Len(t) : t[i].kind = "post" /\ t[i].n = m
    <3>1. m \in lo + 1 .. hi /\ (Head(s).kind = "post" => m # lo + 1)
      BY <1>3
    <3>2. PICK i \in 1 .. Len(s) : s[i].kind = "post" /\ s[i].n = m
      BY <3>1 DEF Posts
    <3>3. i # 1
      BY <2>1, <2>2, <3>1, <3>2
    <3> QED
      BY <2>1, <3>2, <3>3
  <2> QED
    BY <2>2, <2>3, <2>4, <2>5, <2>6 DEF Posts, t
<1>4. lo \in Int /\ lo + 1 \in Int /\ hi + 1 \in Int
  OBVIOUS
<1> QED
  BY <1>2, <1>3, <1>4

-----------------------------------------------------------------------------
USE ConnAssumption DEF ConnAssumption, Active, Readable

\* The types that the steps need.
LEMMA Types ==
    ASSUME Typed
    PROVE  /\ ready \in Seq(Handlers)
           /\ writeQueue \in Seq(1 .. MaxWrites) /\ Len(writeQueue) \in Nat
           /\ wire \in Seq(1 .. MaxWrites) /\ Len(wire) \in Nat
           /\ consumed \in Nat /\ fetched \in Nat /\ arrived \in Nat /\ accepted \in Nat
           /\ consumed <= fetched /\ fetched <= arrived /\ Readable \in Nat
           /\ Readable <= BufferSize
           /\ readOp.n \in Nat /\ Popped \in {0, 1} /\ Last \in Int
<1>1. /\ ready \in Seq(Handlers) /\ writeQueue \in Seq(1 .. MaxWrites)
      /\ wire \in Seq(1 .. MaxWrites) /\ consumed \in Nat /\ fetched \in Nat
      /\ arrived \in Nat /\ accepted \in Nat /\ consumed <= fetched /\ fetched <= arrived
      /\ Readable <= BufferSize /\ readOp.n \in Nat
  BY DEF Typed, TypeOK
<1>2. Popped \in {0, 1}
  BY DEF Popped
<1>3. Len(writeQueue) \in Nat /\ Len(wire) \in Nat
  BY <1>1
<1>4. Last \in Int
  BY <1>2, <1>3 DEF Last
<1> QED
  BY <1>1, <1>2, <1>3, <1>4

\* The handlers that the code makes.
LEMMA Made ==
    /\ \A ok \in BOOLEAN, n \in Nat :
         /\ ReadDone(ok, n) \in Handlers /\ ReadDone(ok, n).kind = "read"
         /\ ReadDone(ok, n).n = n
    /\ \A ok \in BOOLEAN :
         /\ WriteDone(ok) \in Handlers /\ WriteDone(ok).kind = "wrote"
    /\ ReadDone(FALSE, 0) \in Handlers /\ ReadDone(FALSE, 0).kind = "read"
    /\ ~ReadDone(FALSE, 0).ok
    /\ WriteDone(FALSE) \in Handlers /\ ~WriteDone(FALSE).ok /\ WriteDone(TRUE).ok
    /\ \A m \in Nat :
         /\ Posted(m) \in Handlers /\ Posted(m).kind = "post" /\ Posted(m).n = m
<1>1. \A ok \in BOOLEAN, n \in Nat :
         /\ ReadDone(ok, n) \in Handlers /\ ReadDone(ok, n).kind = "read"
         /\ ReadDone(ok, n).n = n
  BY DEF ReadDone, Handlers
<1>2. \A ok \in BOOLEAN : WriteDone(ok) \in Handlers /\ WriteDone(ok).kind = "wrote"
  BY DEF WriteDone, Handlers
<1>3. ReadDone(FALSE, 0) \in Handlers /\ ReadDone(FALSE, 0).kind = "read"
  BY DEF ReadDone, Handlers
<1>4. ~ReadDone(FALSE, 0).ok
  BY DEF ReadDone
<1>5. WriteDone(FALSE) \in Handlers /\ ~WriteDone(FALSE).ok /\ WriteDone(TRUE).ok
  BY DEF WriteDone, Handlers
<1>6. \A m \in Nat : Posted(m) \in Handlers /\ Posted(m).kind = "post" /\ Posted(m).n = m
  BY DEF Posted, Handlers
<1> QED
  BY <1>1, <1>2, <1>3, <1>4, <1>5, <1>6

\* The invariant holds of a new connection.
LEMMA InitIInv == Init => IInv
<1> SUFFICES ASSUME Init PROVE IInv
  OBVIOUS
<1>1. /\ \A S : <<>> \in Seq(S)
      /\ Len(<<>>) = 0 /\ 1 .. 0 = {}
  OBVIOUS
<1>2. 1 .. Len(ready) = {} /\ 1 .. Len(wire) = {} /\ 1 .. Len(writeQueue) = {}
  BY <1>1 DEF Init
<1>3. TypeOK
  <2>1. readOp \in [kind : {"none", "len", "until"}, n : Nat]
    BY DEF Init, NoRead
  <2>2. /\ writeQueue \in Seq(1 .. MaxWrites) /\ wire \in Seq(1 .. MaxWrites)
        /\ ready \in Seq(Handlers)
    BY <1>1, Zenon DEF Init
  <2>3. 0 \in 0 .. MaxBytes /\ 0 \in 0 .. MaxWrites /\ 0 \in Nat
    OBVIOUS
  <2>4. /\ state \in {"kActived", "kClosed"} /\ isReading \in BOOLEAN
        /\ consumed \in 0 .. MaxBytes /\ fetched \in 0 .. MaxBytes /\ arrived \in 0 .. MaxBytes
        /\ peer \in {"up", "down"} /\ writing \subseteq 1 .. MaxWrites
        /\ accepted \in 0 .. MaxWrites /\ closeCalls \in Nat
    BY <2>3, Zenon DEF Init
  <2> QED
    BY <2>1, <2>2, <2>4 DEF TypeOK
<1>4. Typed
  <2>1. consumed <= fetched /\ fetched <= arrived /\ Readable <= BufferSize
    BY DEF Init
  <2>2. CloseOnce
    BY DEF Init, CloseOnce
  <2> QED
    BY <1>2, <1>3, <2>1, <2>2 DEF Typed, AllFine
<1>5. ~HasKind(ready, "read") /\ ~HasKind(ready, "wrote") /\ Popped = 0
  BY <1>2 DEF HasKind, HasWritten, Popped
<1>6. Reads
  BY <1>2, <1>5 DEF Init, Reads, Once
<1>7. Writes
  BY <1>2, <1>5 DEF Init, Writes, Once
<1>8. Last = 0 /\ accepted = 0 /\ 0 + 1 .. 0 = {}
  BY <1>1, <1>5 DEF Init, Last
<1>9. Posts(ready, 0, 0)
  BY <1>2, <1>8 DEF Posts
<1>10. Ordered
  BY <1>2, <1>8, <1>9 DEF Ordered
<1> QED
  BY <1>4, <1>6, <1>7, <1>10 DEF IInv

\* A read handler that joins or leaves does not touch the writes.
LEMMA ReadMoves ==
    ASSUME IInv, ready' \in Seq(Handlers), UNCHANGED <<state, writeQueue, writing, wire, accepted>>,
           \/ ready' = ready
           \/ \E h \in Handlers : h.kind = "read" /\ ready' = Append(ready, h)
           \/ ready # <<>> /\ Head(ready).kind = "read" /\ ready' = Tail(ready)
    PROVE  Writes' /\ Ordered'
<1> DEFINE Same(t) ==
             /\ HasKind(t, "wrote") <=> HasKind(ready, "wrote")
             /\ HasWritten(t) <=> HasWritten(ready)
             /\ Once(ready, "wrote") => Once(t, "wrote")
             /\ Posts(ready, Last, accepted) => Posts(t, Last, accepted)
<1>1. ready \in Seq(Handlers) /\ Last \in Int /\ accepted \in Int
  BY Types DEF IInv
<1>2. ASSUME NEW h \in Handlers, h.kind = "read" PROVE Same(Append(ready, h))
  <2>1. ~IsWritten(h) /\ h.kind # "wrote" /\ h.kind # "post"
    BY <1>2 DEF IsWritten
  <2> QED
    BY <1>1, <2>1, AppendKind, PostsSeq
<1>3. ASSUME ready # <<>>, Head(ready).kind = "read" PROVE Same(Tail(ready))
  <2>1. ~IsWritten(Head(ready)) /\ Head(ready).kind # "wrote" /\ Head(ready).kind # "post"
    BY <1>3 DEF IsWritten
  <2> QED
    BY <1>1, <1>3, <2>1, TailKind, PostsSeq
<1>4. Same(ready')
  BY <1>2, <1>3
<1>5. Popped' = Popped
  BY <1>4 DEF Popped
<1>6. Last' = Last
  BY <1>5 DEF Last
<1>7. Posts(ready, Last, accepted) => Posts(ready', Last, accepted)
  BY <1>4
<1>8. Writes'
  BY <1>4 DEF IInv, Writes
<1>9. Ordered'
  BY <1>5, <1>6, <1>7 DEF IInv, Ordered
<1> QED
  BY <1>8, <1>9

-----------------------------------------------------------------------------
(***************************************************************************)
(* The steps, one lemma for each action.                                   *)
(***************************************************************************)
\* Nothing changes.
LEMMA Stutter == ASSUME IInv, UNCHANGED vars PROVE IInv'
<1> USE DEF vars, readVars, netVars, writeVars
<1>1. Typed'
  BY DEF IInv, Typed, TypeOK, CloseOnce
<1>2. Reads' /\ Writes'
  BY DEF IInv, Reads, Writes
<1>3. Popped' = Popped
  BY DEF Popped
<1>4. Last' = Last
  BY <1>3 DEF Last
<1>5. Ordered'
  BY <1>3, <1>4 DEF IInv, Ordered
<1> QED
  BY <1>1, <1>2, <1>5 DEF IInv

\* Starting a read: an operation on a live connection, an error on a closed one.
LEMMA StartsRead ==
    ASSUME IInv, ~isReading, isReading' = TRUE,
           readOp' \in [kind : {"none", "len", "until"}, n : Nat],
           Active <=> readOp' # NoRead,
           ready' = ready \o Failed(ReadDone(FALSE, 0)),
           UNCHANGED <<state, consumed, fetched, netVars, writeVars, accepted, closeCalls>>
    PROVE  IInv'
<1> DEFINE h == ReadDone(FALSE, 0)
<1>1. ready \in Seq(Handlers) /\ accepted \in Nat /\ Readable \in Nat
  BY Types DEF IInv
<1>2. h \in Handlers /\ h.kind = "read" /\ ~h.ok
  BY Made
<1>3. ready' = IF Active THEN ready ELSE Append(ready, h)
  <2> HIDE DEF h
  <2>1. ready' = ready \o (IF Active THEN <<>> ELSE <<h>>)
    BY DEF Failed, h
  <2>2. ready \o <<>> = ready /\ ready \o <<h>> = Append(ready, h)
    BY <1>1, <1>2, Joined
  <2> QED
    BY <2>1, <2>2
<1> HIDE DEF h
<1>4. ready' \in Seq(Handlers)
  <2>1. Append(ready, h) \in Seq(Handlers)
    BY <1>1, <1>2, Appended
  <2> QED
    BY <1>1, <1>3, <2>1
<1>5. Writes' /\ Ordered'
  BY <1>1, <1>3, <1>4, <1>2, ReadMoves DEF writeVars
<1>6. Typed'
  <2>1. Fine(h, accepted, Readable)
    BY <1>2 DEF Fine
  <2>2. AllFine(ready', accepted, Readable)
    <3>1. AllFine(ready, accepted, Readable)
      BY DEF IInv, Typed
    <3>2. AllFine(Append(ready, h), accepted, Readable)
      BY <1>1, <1>2, <2>1, <3>1, FineSeq
    <3> QED
      BY <1>3, <3>1, <3>2
  <2>3. TypeOK'
    BY <1>4 DEF IInv, Typed, TypeOK, netVars, writeVars
  <2> QED
    BY <2>2, <2>3 DEF IInv, Typed, CloseOnce, netVars
<1>7. Reads'
  <2>1. ~HasKind(ready, "read") /\ Once(ready, "read")
    BY DEF IInv, Reads
  <2>2. Once(ready', "read") /\ (HasKind(ready', "read") <=> ~Active)
    <3>1. Once(Append(ready, h), "read") /\ HasKind(Append(ready, h), "read")
      BY <1>1, <1>2, <2>1, AppendKind
    <3> QED
      BY <1>3, <2>1, <3>1
  <2> QED
    BY <2>2 DEF Reads
<1> QED
  BY <1>5, <1>6, <1>7 DEF IInv

\* AsyncReadUtil starts a read.
LEMMA AsyncReadUtilStep == ASSUME IInv, AsyncReadUtil PROVE IInv'
<1>1. [kind |-> "until", n |-> 0] # NoRead
  BY DEF NoRead
<1>2. readOp' \in [kind : {"none", "len", "until"}, n : Nat]
  BY DEF AsyncReadUtil, NoRead
<1> QED
  BY <1>1, <1>2, StartsRead DEF AsyncReadUtil

\* AsyncReadLen starts a read, or hands over bytes that are in the buffer.
LEMMA AsyncReadLenStep == ASSUME IInv, NEW n \in ReadLens, AsyncReadLen(n) PROVE IInv'
<1>1. n \in Nat
  OBVIOUS
<1>2. CASE ~Enough(n)
  <2>1. [kind |-> "len", n |-> n] # NoRead
    BY DEF NoRead
  <2>2. readOp' \in [kind : {"none", "len", "until"}, n : Nat]
    BY <1>1, <1>2 DEF AsyncReadLen, NoRead
  <2> QED
    BY <1>2, <2>1, <2>2, StartsRead DEF AsyncReadLen
<1>3. CASE Enough(n)
  <2>1. /\ ~isReading /\ isReading' = ~Active
        /\ consumed' = IF Active THEN consumed + n ELSE consumed
        /\ UNCHANGED <<state, readOp, fetched, netVars, writeVars, ready, accepted, closeCalls>>
    BY <1>3 DEF AsyncReadLen, TakeBytes
  <2>2. /\ ready \in Seq(Handlers) /\ accepted \in Nat /\ Readable \in Nat /\ consumed \in Nat
        /\ fetched \in Nat /\ n <= Readable /\ Readable <= BufferSize
    BY <1>3, Types DEF IInv, Enough
  <2>3. ~HasKind(ready, "read") /\ readOp = NoRead
    BY <2>1 DEF IInv, Reads
  <2>4. Readable' \in Nat /\ Readable' <= BufferSize /\ consumed' \in Nat /\ consumed' <= fetched
    BY <1>1, <2>1, <2>2
  <2>5. Writes' /\ Ordered'
    BY <2>1, <2>2, ReadMoves DEF writeVars
  <2>6. Typed'
    <3>1. AllFine(ready, accepted, Readable')
      BY <2>2, <2>3, <2>4, FineSeq DEF IInv, Typed
    <3>2. consumed' \in 0 .. MaxBytes
      BY <2>4 DEF IInv, Typed, TypeOK
    <3>3. TypeOK'
      BY <2>1, <3>2 DEF IInv, Typed, TypeOK, netVars, writeVars
    <3> QED
      BY <2>1, <2>4, <3>1, <3>3 DEF IInv, Typed, CloseOnce, netVars
  <2>7. Reads'
    BY <2>1, <2>3 DEF IInv, Reads
  <2> QED
    BY <2>5, <2>6, <2>7 DEF IInv
<1> QED
  BY <1>2, <1>3

\* AsyncWrite posts a message behind all the others.
LEMMA AsyncWriteStep == ASSUME IInv, AsyncWrite PROVE IInv'
<1> DEFINE h == Posted(accepted + 1)
<1>1. /\ ready \in Seq(Handlers) /\ accepted \in Nat /\ accepted < MaxWrites
      /\ accepted' = accepted + 1 /\ Readable \in Nat /\ Last \in Int
      /\ ready' = Append(ready, h)
      /\ UNCHANGED <<state, readVars, netVars, writeVars, closeCalls>>
  BY Types DEF IInv, AsyncWrite
<1>2. h \in Handlers /\ h.kind = "post" /\ h.n = accepted + 1 /\ ~IsWritten(h)
  BY <1>1, Made DEF IsWritten
<1> HIDE DEF h
<1>3. ready' \in Seq(Handlers)
  BY <1>1, <1>2, Appended
<1>4. /\ HasKind(ready', "read") <=> HasKind(ready, "read")
      /\ HasKind(ready', "wrote") <=> HasKind(ready, "wrote")
      /\ HasWritten(ready') <=> HasWritten(ready)
      /\ Once(ready, "read") => Once(ready', "read")
      /\ Once(ready, "wrote") => Once(ready', "wrote")
  BY <1>1, <1>2, AppendKind
<1>5. Popped' = Popped
  BY <1>4 DEF Popped
<1>6. Last' = Last
  BY <1>1, <1>5 DEF Last, writeVars
<1>7. Typed'
  <2>1. AllFine(ready, accepted', Readable) /\ accepted' \in Nat
    BY <1>1, FineSeq DEF IInv, Typed
  <2>2. Fine(h, accepted', Readable)
    BY <1>1, <1>2 DEF Fine
  <2>3. AllFine(ready', accepted', Readable)
    BY <1>1, <1>2, <2>1, <2>2, FineSeq
  <2>4. TypeOK'
    BY <1>1, <1>3 DEF IInv, Typed, TypeOK, readVars, netVars, writeVars
  <2> QED
    BY <1>1, <2>3, <2>4 DEF IInv, Typed, CloseOnce, readVars, netVars
<1>8. Reads'
  BY <1>1, <1>4 DEF IInv, Reads, readVars
<1>9. Writes'
  BY <1>1, <1>4 DEF IInv, Writes, writeVars
<1>10. Ordered'
  <2>1. Posts(ready, Last, accepted) => Posts(ready', Last, accepted')
    BY <1>1, <1>2, PostsSeq
  <2> QED
    BY <1>1, <1>5, <1>6, <2>1 DEF IInv, Ordered, writeVars
<1> QED
  BY <1>7, <1>8, <1>9, <1>10 DEF IInv

\* More bytes in the buffer.
LEMMA Growth == \A c, f, g \in Nat : c <= f /\ f <= g => g - c \in Nat /\ f - c <= g - c
  OBVIOUS

\* Steps of the peer and the socket that no handler sees yet.
LEMMA QuietStep ==
    ASSUME IInv, PeerSends \/ PeerGoes \/ \E k \in 1 .. BufferSize : Fetch(k) PROVE IInv'
<1>1. /\ ready \in Seq(Handlers) /\ accepted \in Nat /\ Readable \in Nat
      /\ consumed \in Nat /\ fetched \in Nat /\ arrived \in Nat /\ readOp.n \in Nat
      /\ consumed <= fetched /\ fetched <= arrived /\ Readable <= BufferSize
  BY Types DEF IInv
<1>2. UNCHANGED <<state, isReading, readOp, consumed, writeVars, ready, accepted, closeCalls>>
  BY DEF PeerSends, PeerGoes, Fetch, readVars, netVars
<1>3. /\ arrived' \in 0 .. MaxBytes /\ fetched' \in 0 .. MaxBytes /\ peer' \in {"up", "down"}
      /\ fetched <= fetched' /\ fetched' <= arrived' /\ Readable' <= BufferSize
  <2>0. /\ arrived \in 0 .. MaxBytes /\ fetched \in 0 .. MaxBytes /\ peer \in {"up", "down"}
        /\ Readable' = fetched' - consumed' /\ Readable = fetched - consumed
    BY DEF IInv, Typed, TypeOK, Readable
  <2>1. CASE PeerSends \/ PeerGoes
    <3>1. fetched' = fetched /\ consumed' = consumed
      BY <2>1 DEF PeerSends, PeerGoes, readVars
    <3>2. CASE PeerSends
      BY <1>1, <2>0, <3>1, <3>2 DEF PeerSends
    <3>3. CASE PeerGoes
      BY <1>1, <2>0, <3>1, <3>3 DEF PeerGoes
    <3> QED
      BY <2>1, <3>2, <3>3
  <2>2. ASSUME NEW k \in 1 .. BufferSize, Fetch(k) PROVE <1>3
    <3>1. k <= BufferSize - Readable
      BY <1>1, <2>2 DEF Fetch, Wanted
    <3> QED
      BY <1>1, <2>2, <3>1 DEF Fetch, netVars, IInv, Typed, TypeOK
  <2> QED
    BY <2>1, <2>2
<1>4. Writes' /\ Ordered'
  BY <1>1, <1>2, ReadMoves DEF writeVars
<1>5. Typed'
  <2>1. consumed' = consumed
    BY <1>2
  <2>2. fetched' \in Nat /\ fetched <= fetched'
    BY <1>3
  <2>3. Readable' \in Nat /\ Readable <= Readable'
    BY <1>1, <2>1, <2>2, Growth
  <2>4. AllFine(ready, accepted, Readable')
    BY <1>1, <2>3, FineSeq DEF IInv, Typed
  <2>5. TypeOK'
    BY <1>2, <1>3 DEF IInv, Typed, TypeOK, writeVars
  <2> QED
    <3>1. consumed' <= fetched' /\ fetched' <= arrived' /\ Readable' <= BufferSize
      <4>1. \A c, f, g \in Nat : c <= f /\ f <= g => c <= g
        OBVIOUS
      <4> QED
        BY <1>1, <1>3, <2>1, <2>2, <4>1
    <3>2. CloseOnce' /\ AllFine(ready, accepted, Readable)'
      BY <1>2, <2>4 DEF IInv, Typed, CloseOnce
    <3> QED
      BY <2>5, <3>1, <3>2 DEF Typed
<1>6. Reads'
  BY <1>2 DEF IInv, Reads
<1> QED
  BY <1>4, <1>5, <1>6 DEF IInv

\* Closing a live connection: rest is what is left of the handlers, in which no
\* completion of an outstanding operation is found.
LEMMA Closes ==
    ASSUME IInv, Active, NEW rest \in Seq(Handlers), CloseAnd(rest),
           AllFine(rest, accepted, Readable), Once(rest, "read"),
           readOp # NoRead => ~HasKind(rest, "read"),
           readOp # NoRead \/ HasKind(rest, "read") => isReading',
           isReading' \in BOOLEAN,
           UNCHANGED <<consumed, fetched, netVars, writeQueue, wire, accepted>>
    PROVE  IInv'
<1> DEFINE r == ReadDone(FALSE, 0)
           w == WriteDone(FALSE)
           mid == IF readOp # NoRead THEN Append(rest, r) ELSE rest
           last == IF writing # {} THEN Append(mid, w) ELSE mid
<1>1. accepted \in Nat /\ Readable \in Nat
  BY Types DEF IInv
<1>2. /\ r \in Handlers /\ r.kind = "read" /\ Fine(r, accepted, Readable)
      /\ w \in Handlers /\ w.kind = "wrote" /\ Fine(w, accepted, Readable)
  BY Made DEF Fine
<1>3. /\ state' = "kClosed" /\ closeCalls' = closeCalls + 1 /\ readOp' = NoRead
      /\ writing' = {} /\ ready' = rest \o Aborted
  BY DEF CloseAnd
<1>4. ready' = rest \o ((IF readOp # NoRead THEN <<r>> ELSE <<>>)
                          \o (IF writing # {} THEN <<w>> ELSE <<>>))
  BY <1>3 DEF Aborted
<1> HIDE DEF r, w
<1>5. ready' = last
  <2>1. /\ rest \o (<<>> \o <<>>) = rest /\ rest \o (<<r>> \o <<>>) = Append(rest, r)
        /\ rest \o (<<>> \o <<w>>) = Append(rest, w)
        /\ rest \o (<<r>> \o <<w>>) = Append(Append(rest, r), w)
    BY <1>2, Joined
  <2> QED
    BY <1>4, <2>1
<1>6. mid \in Seq(Handlers) /\ AllFine(mid, accepted, Readable)
  <2>1. /\ Append(rest, r) \in Seq(Handlers)
        /\ AllFine(Append(rest, r), accepted, Readable)
    BY <1>1, <1>2, Appended, FineSeq
  <2> QED
    BY <2>1
<1>7. Once(mid, "read") /\ (HasKind(mid, "read") => isReading')
  <2>1. readOp # NoRead => Once(Append(rest, r), "read")
    BY <1>2, AppendKind
  <2> QED
    BY <2>1
<1> HIDE DEF mid
<1>8. last \in Seq(Handlers) /\ AllFine(last, accepted, Readable)
  <2>1. /\ Append(mid, w) \in Seq(Handlers)
        /\ AllFine(Append(mid, w), accepted, Readable)
    BY <1>1, <1>2, <1>6, Appended, FineSeq
  <2> QED
    BY <1>6, <2>1
<1>9. Once(last, "read") /\ (HasKind(last, "read") => isReading')
  <2>1. /\ Once(Append(mid, w), "read")
        /\ HasKind(Append(mid, w), "read") <=> HasKind(mid, "read")
    BY <1>2, <1>6, <1>7, AppendKind
  <2> QED
    BY <1>7, <2>1
<1> HIDE DEF last
<1>10. closeCalls = 0 /\ state' # "kActived"
  BY <1>3 DEF IInv, Typed, CloseOnce
<1>11. Typed'
  <2>1. readOp' \in [kind : {"none", "len", "until"}, n : Nat]
    BY <1>3 DEF NoRead
  <2>2. /\ state' \in {"kActived", "kClosed"} /\ closeCalls' \in Nat
        /\ writing' \subseteq 1 .. MaxWrites /\ CloseOnce'
    BY <1>3, <1>10 DEF CloseOnce
  <2>3. TypeOK'
    BY <1>5, <1>8, <2>1, <2>2 DEF IInv, Typed, TypeOK, netVars
  <2> QED
    BY <1>5, <1>8, <2>2, <2>3 DEF IInv, Typed, netVars
<1>12. Reads'
  BY <1>3, <1>5, <1>9, <1>10 DEF Reads
<1>13. Writes' /\ Ordered'
  BY <1>3, <1>10 DEF Writes, Ordered
<1> QED
  BY <1>11, <1>12, <1>13 DEF IInv

\* The session, or the idle timer, closes the connection.
LEMMA CloseStep == ASSUME IInv, Close PROVE IInv'
<1>1. CASE Active
  <2>1. ready \in Seq(Handlers) /\ isReading \in BOOLEAN
    BY DEF IInv, Typed, TypeOK
  <2>2. /\ AllFine(ready, accepted, Readable) /\ Once(ready, "read")
        /\ readOp # NoRead => ~HasKind(ready, "read")
        /\ readOp # NoRead \/ HasKind(ready, "read") => isReading
    BY DEF IInv, Typed, Reads
  <2> QED
    BY <1>1, <2>1, <2>2, Closes DEF Close
<1>2. CASE ~Active
  <2>1. UNCHANGED vars
    BY <1>2 DEF Close, CloseAnd, vars, readVars, netVars, writeVars
  <2> QED
    BY <2>1, Stutter
<1> QED
  BY <1>1, <1>2

\* A completion claims bytes that are in the buffer: the delimiter that was found
\* first lies in it.
LEMMA ReadCompletesStep == ASSUME IInv, ReadCompletes PROVE IInv'
<1>1. /\ ready \in Seq(Handlers) /\ accepted \in Nat /\ Readable \in Nat
      /\ consumed \in Nat /\ fetched \in Nat
  BY Types DEF IInv
<1>2. PICK h \in ReadResult : ready' = Append(ready, h)
  BY DEF ReadCompletes
<1>3. /\ readOp' = NoRead
      /\ UNCHANGED <<state, isReading, consumed, fetched, netVars, writeVars, accepted, closeCalls>>
  BY DEF ReadCompletes
<1>4. readOp # NoRead /\ h \in Handlers /\ h.kind = "read" /\ (h.ok => h.n <= Readable)
  <2>4. readOp.kind \in {"len", "until"} => readOp # NoRead
    BY DEF NoRead
  <2>1. CASE h = ReadDone(TRUE, Readable) /\ readOp.kind = "len"
    <3>1. h \in Handlers /\ h.kind = "read" /\ h.n = Readable
      BY <1>1, <2>1, Made
    <3>2. Readable <= Readable
      BY <1>1
    <3> QED
      BY <2>1, <2>4, <3>1, <3>2
  <2>2. CASE h = ReadDone(FALSE, 0) /\ readOp # NoRead
    BY <2>2, Made
  <2>3. CASE h = ReadDone(TRUE, FirstFound - consumed) /\ readOp.kind = "until" /\ Found # {}
    <3>1. Found \in SUBSET Nat
      BY DEF Found
    <3>2. \E p \in Found : \A q \in Found : p <= q
      BY <2>3, <3>1, Least
    <3>3. FirstFound \in Found
      BY <3>2 DEF FirstFound
    <3>4. FirstFound \in Nat /\ consumed < FirstFound /\ FirstFound <= fetched
      BY <3>3 DEF Found
    <3>5. FirstFound - consumed \in Nat /\ FirstFound - consumed <= Readable
      BY <1>1, <3>4
    <3>6. h \in Handlers /\ h.kind = "read" /\ h.n = FirstFound - consumed
      BY <2>3, <3>5, Made
    <3> QED
      BY <2>3, <2>4, <3>5, <3>6
  <2>5. \/ readOp.kind = "len" /\ h = ReadDone(TRUE, Readable)
        \/ readOp.kind = "until" /\ Found # {} /\ h = ReadDone(TRUE, FirstFound - consumed)
        \/ readOp.kind = "until" /\ h = ReadDone(FALSE, 0)
        \/ readOp # NoRead /\ h = ReadDone(FALSE, 0)
    BY Zenon DEF ReadResult
  <2> QED
    BY <2>1, <2>2, <2>3, <2>4, <2>5
<1>5. ready' \in Seq(Handlers)
  BY <1>1, <1>2, <1>4, Appended
<1>6. Writes' /\ Ordered'
  BY <1>2, <1>3, <1>4, <1>5, ReadMoves DEF writeVars
<1>7. Typed'
  <2>1. Fine(h, accepted, Readable)
    BY <1>4 DEF Fine
  <2>2. AllFine(ready', accepted, Readable)
    BY <1>1, <1>2, <1>4, <2>1, FineSeq DEF IInv, Typed
  <2>3. readOp' \in [kind : {"none", "len", "until"}, n : Nat]
    BY <1>3 DEF NoRead
  <2>4. TypeOK'
    BY <1>3, <1>5, <2>3 DEF IInv, Typed, TypeOK, netVars, writeVars
  <2> QED
    BY <1>3, <2>2, <2>4 DEF IInv, Typed, CloseOnce, netVars
<1>8. Reads'
  <2>1. ~HasKind(ready, "read") /\ Once(ready, "read") /\ isReading
    BY <1>4 DEF IInv, Reads
  <2>2. Once(ready', "read") /\ HasKind(ready', "read")
    BY <1>1, <1>2, <1>4, <2>1, AppendKind
  <2> QED
    BY <1>3, <2>1, <2>2 DEF Reads
<1> QED
  BY <1>6, <1>7, <1>8 DEF IInv

\* A write that completes is that of the front of the queue, the next message
\* for the wire.
LEMMA WriteCompletesStep ==
    ASSUME IInv, NEW m \in writing, NEW ok \in BOOLEAN, WriteCompletes(m, ok)
    PROVE  /\ IInv' /\ Active
           /\ wire' = IF ok THEN Append(wire, Len(wire) + 1) ELSE wire
           /\ Len(wire) < accepted
<1> DEFINE h == WriteDone(ok)
<1>1. /\ ready \in Seq(Handlers) /\ accepted \in Nat /\ Readable \in Nat /\ Last \in Int
      /\ wire \in Seq(1 .. MaxWrites) /\ Len(wire) \in Nat
      /\ writeQueue \in Seq(1 .. MaxWrites) /\ Len(writeQueue) \in Nat
  BY Types DEF IInv
<1>2. /\ writing' = writing \ {m} /\ ready' = Append(ready, h)
      /\ wire' = IF ok THEN Append(wire, m) ELSE wire
      /\ UNCHANGED <<state, readVars, netVars, writeQueue, accepted, closeCalls>>
  BY DEF WriteCompletes
<1>3. h \in Handlers /\ h.kind = "wrote"
  BY Made
<1>4. IsWritten(h) <=> ok
  <2>1. ok = TRUE \/ ok = FALSE
    OBVIOUS
  <2>2. WriteDone(TRUE).ok /\ ~WriteDone(FALSE).ok
    BY Made
  <2> QED
    BY <1>3, <2>1, <2>2, Zenon DEF IsWritten
<1> HIDE DEF h
<1>5. /\ Active /\ writeQueue # <<>> /\ writing = {writeQueue[1]}
      /\ ~HasKind(ready, "wrote") /\ m = writeQueue[1]
  BY DEF IInv, Writes
<1>6. ~HasWritten(ready) /\ Popped = 0
  BY <1>5 DEF HasKind, HasWritten, IsWritten, Popped
<1>7. Len(writeQueue) >= 1 /\ 1 \in 1 .. Len(writeQueue)
  BY <1>1, <1>5
<1>8. m = Len(wire) + 1 /\ Len(wire) + Len(writeQueue) <= accepted
  <2>1. Last <= accepted /\ writeQueue[1] = Len(wire) - Popped + 1
    BY <1>5, <1>7 DEF IInv, Ordered, Posts
  <2> QED
    BY <1>1, <1>5, <1>6, <2>1 DEF Last
<1>9. ready' \in Seq(Handlers)
  BY <1>1, <1>2, <1>3, Appended
<1>10. /\ HasKind(ready', "read") <=> HasKind(ready, "read")
       /\ HasKind(ready', "wrote")
       /\ HasWritten(ready') <=> ok
       /\ Once(ready, "read") => Once(ready', "read")
       /\ Once(ready, "wrote") => Once(ready', "wrote")
  BY <1>1, <1>2, <1>3, <1>4, <1>5, <1>6, AppendKind
<1>11. /\ wire' \in Seq(1 .. MaxWrites) /\ Len(wire') - Popped' = Len(wire)
       /\ (\A i \in 1 .. Len(wire) : wire[i] = i) => (\A i \in 1 .. Len(wire') : wire'[i] = i)
  <2>1. m \in 1 .. MaxWrites
    BY <1>1, <1>5, <1>7
  <2>2. CASE ok
    <3>1. wire' = Append(wire, m) /\ Popped' = 1
      BY <1>2, <1>10, <2>2 DEF Popped
    <3>2. /\ Append(wire, m) \in Seq(1 .. MaxWrites) /\ Len(Append(wire, m)) = Len(wire) + 1
          /\ \A i \in 1 .. Len(Append(wire, m)) :
               \/ i \in 1 .. Len(wire) /\ Append(wire, m)[i] = wire[i]
               \/ i = Len(wire) + 1 /\ Append(wire, m)[i] = m
      BY <1>1, <2>1, Appended
    <3> QED
      BY <1>1, <1>8, <3>1, <3>2
  <2>3. CASE ~ok
    BY <1>1, <1>2, <1>10, <2>3 DEF Popped
  <2> QED
    BY <2>2, <2>3
<1>12. Typed'
  <2>1. Fine(h, accepted, Readable)
    BY <1>3 DEF Fine
  <2>2. AllFine(ready', accepted, Readable)
    BY <1>1, <1>2, <1>3, <2>1, FineSeq DEF IInv, Typed
  <2>3. writing' \subseteq 1 .. MaxWrites
    BY <1>2 DEF IInv, Typed, TypeOK
  <2>4. TypeOK'
    BY <1>2, <1>9, <1>11, <2>3 DEF IInv, Typed, TypeOK, readVars, netVars
  <2> QED
    BY <1>2, <2>2, <2>4 DEF IInv, Typed, CloseOnce, readVars, netVars
<1>13. Reads'
  BY <1>2, <1>10 DEF IInv, Reads, readVars
<1>14. Writes'
  <2>1. writing' = {}
    BY <1>2, <1>5
  <2> QED
    BY <1>2, <1>5, <1>10, <2>1 DEF IInv, Writes
<1>15. Ordered'
  <2>1. Last = Len(wire) + Len(writeQueue)
    BY <1>1, <1>6 DEF Last
  <2>2. Last' = Last
    BY <1>2, <1>11, <2>1 DEF Last
  <2>3. Posts(ready', Last, accepted)
    BY <1>1, <1>2, <1>3, <1>5, PostsSeq DEF IInv, Ordered
  <2>4. \A i \in 1 .. Len(writeQueue) : writeQueue[i] = Len(wire) + i
    BY <1>1, <1>5, <1>6 DEF IInv, Ordered
  <2> QED
    BY <1>2, <1>5, <1>11, <2>2, <2>3, <2>4 DEF IInv, Ordered
<1> QED
  BY <1>1, <1>2, <1>5, <1>7, <1>8, <1>12, <1>13, <1>14, <1>15 DEF IInv

\* OnRead takes the bytes of the one completed read, or closes the connection.
LEMMA RunReadStep == ASSUME IInv, ready # <<>>, RunRead PROVE IInv'
<1> DEFINE h == Head(ready)
           rest == Tail(ready)
<1>1. /\ ready \in Seq(Handlers) /\ accepted \in Nat /\ Readable \in Nat /\ consumed \in Nat
      /\ fetched \in Nat /\ Readable <= BufferSize
  BY Types DEF IInv
<1>2. rest \in Seq(Handlers) /\ h \in Handlers /\ h.n \in Nat
  BY <1>1, Cut, HandlerType
<1>3. h.kind = "read" /\ HasKind(ready, "read") /\ ~HasKind(rest, "read") /\ Once(rest, "read")
  <2>1. h.kind = "read"
    BY DEF RunRead
  <2> QED
    BY <1>1, <2>1, TailKind DEF IInv, Reads
<1>4. readOp = NoRead /\ isReading
  BY <1>3 DEF IInv, Reads
<1>5. AllFine(rest, accepted, Readable) /\ (h.ok => h.n <= Readable)
  <2>1. AllFine(rest, accepted, Readable) /\ Fine(h, accepted, Readable)
    BY <1>1, FineSeq DEF IInv, Typed
  <2> QED
    BY <1>3, <2>1 DEF Fine
<1>6. CASE Active /\ h.ok
  <2>1. /\ consumed' = consumed + h.n /\ isReading' = FALSE /\ ready' = rest
        /\ UNCHANGED <<state, closeCalls, readOp, writing, fetched, netVars, writeQueue, wire, accepted>>
    BY <1>6 DEF RunRead, TakeBytes
  <2>2. Writes' /\ Ordered'
    BY <1>2, <1>3, <2>1, ReadMoves
  <2>3. /\ consumed' \in Nat /\ consumed' <= fetched /\ Readable' \in Nat
        /\ Readable' <= BufferSize
    BY <1>1, <1>2, <1>5, <1>6, <2>1
  <2>4. AllFine(rest, accepted, Readable')
    BY <1>1, <1>2, <1>3, <1>5, <2>3, FineSeq
  <2>5. consumed' \in 0 .. MaxBytes
    BY <2>3 DEF IInv, Typed, TypeOK
  <2>6. TypeOK'
    BY <1>2, <2>1, <2>5 DEF IInv, Typed, TypeOK, netVars
  <2>7. Typed'
    BY <2>1, <2>3, <2>4, <2>6 DEF IInv, Typed, CloseOnce, netVars
  <2>8. Reads'
    BY <1>3, <1>4, <2>1 DEF Reads
  <2> QED
    BY <2>2, <2>7, <2>8 DEF IInv
<1>7. CASE Active /\ ~h.ok
  <2>1. /\ isReading' = FALSE /\ CloseAnd(rest)
        /\ UNCHANGED <<consumed, fetched, netVars, writeQueue, wire, accepted>>
    BY <1>4, <1>7 DEF RunRead
  <2> QED
    BY <1>2, <1>3, <1>4, <1>5, <1>7, <2>1, Closes
<1>8. CASE ~Active
  <2>1. /\ isReading' = TRUE /\ ready' = rest
        /\ UNCHANGED <<state, closeCalls, readOp, writing, consumed, fetched, netVars,
                       writeQueue, wire, accepted>>
    BY <1>4, <1>8 DEF RunRead, CloseAnd
  <2>2. Writes' /\ Ordered'
    BY <1>2, <1>3, <2>1, ReadMoves
  <2>3. TypeOK'
    BY <1>2, <2>1 DEF IInv, Typed, TypeOK, netVars
  <2>4. Typed'
    BY <1>5, <2>1, <2>3 DEF IInv, Typed, CloseOnce, netVars
  <2>5. Reads'
    BY <1>3, <1>4, <1>8, <2>1 DEF Reads
  <2> QED
    BY <2>2, <2>4, <2>5 DEF IInv
<1> QED
  BY <1>6, <1>7, <1>8

\* The first message of a queue that was empty.
LEMMA FirstQueued == ASSUME NEW S, NEW x \in S PROVE Append(<<>>, x)[1] = x /\ Head(Append(<<>>, x)) = x
  OBVIOUS

\* A posted message is the one after the last of the queue.
LEMMA RunPostedStep == ASSUME IInv, ready # <<>>, RunPosted PROVE IInv'
<1> DEFINE h == Head(ready)
           rest == Tail(ready)
           q == Append(writeQueue, h.n)
           w == WriteDone(FALSE)
<1>1. /\ ready \in Seq(Handlers) /\ accepted \in Nat /\ Readable \in Nat /\ Last \in Int
      /\ wire \in Seq(1 .. MaxWrites) /\ Len(wire) \in Nat /\ Popped \in {0, 1}
      /\ writeQueue \in Seq(1 .. MaxWrites) /\ Len(writeQueue) \in Nat
  BY Types DEF IInv
<1>2. rest \in Seq(Handlers) /\ w \in Handlers /\ w.kind = "wrote"
  <2>1. rest \in Seq(Handlers)
    BY <1>1, Cut
  <2>2. w \in Handlers /\ w.kind = "wrote"
    BY Made
  <2> QED
    BY <2>1, <2>2
<1>3. h.kind = "post" /\ ~IsWritten(h)
  BY DEF RunPosted, IsWritten
<1>4. /\ writeQueue' = q
      /\ writing' = IF writeQueue # <<>> THEN writing ELSE DoWrite(q)
      /\ ready' = rest \o (IF writeQueue # <<>> THEN <<>> ELSE Failed(w))
      /\ UNCHANGED <<state, readVars, netVars, wire, accepted, closeCalls>>
  BY DEF RunPosted
<1>5. AllFine(rest, accepted, Readable) /\ h.n \in 1 .. accepted
  <2>1. AllFine(rest, accepted, Readable) /\ Fine(h, accepted, Readable)
    BY <1>1, FineSeq DEF IInv, Typed
  <2> QED
    BY <1>3, <2>1 DEF Fine
<1>6. /\ HasKind(rest, "read") <=> HasKind(ready, "read")
      /\ HasKind(rest, "wrote") <=> HasKind(ready, "wrote")
      /\ HasWritten(rest) <=> HasWritten(ready)
      /\ Once(ready, "read") => Once(rest, "read")
      /\ Once(ready, "wrote") => Once(rest, "wrote")
  BY <1>1, <1>3, TailKind
<1>7. h.n \in 1 .. MaxWrites
  BY <1>1, <1>5 DEF IInv, Typed, TypeOK
<1>8. Active => h.n = Last + 1 /\ Posts(rest, Last + 1, accepted)
  <2>1. Active => Posts(ready, Last, accepted)
    BY DEF IInv, Ordered
  <2> QED
    BY <1>1, <1>3, <2>1, PostsSeq
<1> HIDE DEF h, rest, w
<1>9. /\ q \in Seq(1 .. MaxWrites) /\ Len(q) = Len(writeQueue) + 1 /\ Len(q) # 0
      /\ \A i \in 1 .. Len(q) :
           \/ i \in 1 .. Len(writeQueue) /\ q[i] = writeQueue[i]
           \/ i = Len(writeQueue) + 1 /\ q[i] = h.n
      /\ \A i \in 1 .. Len(writeQueue) : q[i] = writeQueue[i]
  BY <1>1, <1>7, Appended
<1>10. writeQueue = <<>> => Head(q) = h.n /\ q[1] = h.n
  BY <1>7, FirstQueued
<1>11. writeQueue # <<>> => q[1] = writeQueue[1]
  BY <1>1, <1>9
<1> HIDE DEF q
<1>12. q # <<>>
  BY <1>1, <1>9
<1>13. CASE writeQueue # <<>> \/ Active
  <2>1. ready' = rest
    <3>1. rest \o <<>> = rest
      BY <1>2, Joined
    <3> QED
      BY <1>4, <1>13, <3>1 DEF Failed
  <2>2. writing' \subseteq 1 .. MaxWrites
    BY <1>4, <1>7, <1>10, <1>13 DEF DoWrite, IInv, Typed, TypeOK
  <2>3. TypeOK'
    BY <1>2, <1>4, <1>9, <2>1, <2>2 DEF IInv, Typed, TypeOK, readVars, netVars
  <2>4. Typed'
    BY <1>4, <1>5, <2>1, <2>3 DEF IInv, Typed, CloseOnce, readVars, netVars
  <2>5. Reads'
    BY <1>4, <1>6, <2>1 DEF IInv, Reads, readVars
  <2>6. Writes'
    <3>1. CASE writeQueue # <<>>
      BY <1>4, <1>6, <1>12, <1>11, <2>1, <3>1 DEF IInv, Writes
    <3>2. CASE writeQueue = <<>>
      <4>1. Active /\ writing = {} /\ ~HasKind(ready, "wrote")
        BY <1>13, <3>2 DEF IInv, Writes
      <4>2. writing' = {q[1]} /\ Active'
        BY <1>4, <1>10, <3>2, <4>1 DEF DoWrite
      <4> QED
        BY <1>4, <1>6, <1>12, <2>1, <4>1, <4>2 DEF IInv, Writes
    <3> QED
      BY <3>1, <3>2
  <2>7. Popped' = Popped
    BY <1>6, <2>1 DEF Popped
  <2>8. Last' = Last + 1
    BY <1>1, <1>4, <1>9, <2>7 DEF Last
  <2>9. Ordered'
    <3> SUFFICES ASSUME Active PROVE Ordered'
      BY <1>4 DEF Ordered
    <3>1. h.n = Last + 1 /\ Posts(rest, Last + 1, accepted)
      BY <1>8
    <3>2. \A i \in 1 .. Len(q) : q[i] = Len(wire) - Popped + i
      <4>1. \A i \in 1 .. Len(writeQueue) : q[i] = Len(wire) - Popped + i
        BY <1>9 DEF IInv, Ordered
      <4>2. h.n = Len(wire) - Popped + (Len(writeQueue) + 1)
        BY <1>1, <3>1 DEF Last
      <4> QED
        BY <1>1, <1>9, <4>1, <4>2
    <3> QED
      BY <1>4, <2>1, <2>7, <2>8, <3>1, <3>2 DEF IInv, Ordered
  <2> QED
    BY <2>4, <2>5, <2>6, <2>9 DEF IInv
<1>14. CASE writeQueue = <<>> /\ ~Active
  <2>1. ready' = Append(rest, w)
    <3>1. rest \o <<w>> = Append(rest, w)
      BY <1>2, Joined
    <3> QED
      BY <1>4, <1>14, <3>1 DEF Failed
  <2>2. writing' = {}
    BY <1>4, <1>14 DEF DoWrite, IInv, Writes
  <2>3. ready' \in Seq(Handlers) /\ AllFine(ready', accepted, Readable)
    <3>1. Fine(w, accepted, Readable)
      BY <1>2 DEF Fine
    <3> QED
      BY <1>1, <1>2, <1>5, <2>1, <3>1, Appended, FineSeq
  <2>4. TypeOK'
    BY <1>4, <1>9, <2>2, <2>3 DEF IInv, Typed, TypeOK, readVars, netVars
  <2>5. Typed'
    BY <1>4, <2>3, <2>4 DEF IInv, Typed, CloseOnce, readVars, netVars
  <2>6. /\ HasKind(ready', "read") <=> HasKind(ready, "read")
        /\ Once(ready, "read") => Once(ready', "read")
    BY <1>2, <1>6, <2>1, AppendKind
  <2>7. Reads'
    BY <1>4, <2>6 DEF IInv, Reads, readVars
  <2>8. Writes' /\ Ordered'
    BY <1>4, <1>14, <2>2 DEF Writes, Ordered
  <2> QED
    BY <2>5, <2>7, <2>8 DEF IInv
<1> QED
  BY <1>13, <1>14

\* The completion of a write pops its message and starts the next one, or closes
\* the connection.
LEMMA RunWroteStep == ASSUME IInv, ready # <<>>, RunWrote PROVE IInv'
<1> DEFINE h == Head(ready)
           rest == Tail(ready)
           q == Tail(writeQueue)
<1>1. /\ ready \in Seq(Handlers) /\ accepted \in Nat /\ Readable \in Nat /\ Last \in Int
      /\ wire \in Seq(1 .. MaxWrites) /\ Len(wire) \in Nat
      /\ writeQueue \in Seq(1 .. MaxWrites) /\ Len(writeQueue) \in Nat
  BY Types DEF IInv
<1>2. rest \in Seq(Handlers)
  BY <1>1, Cut
<1>3. h.kind = "wrote"
  BY DEF RunWrote
<1>4. /\ HasKind(rest, "read") <=> HasKind(ready, "read")
      /\ HasKind(ready, "wrote")
      /\ Once(ready, "read") => Once(rest, "read")
      /\ Once(ready, "wrote") => Once(rest, "wrote") /\ ~HasKind(rest, "wrote")
      /\ IsWritten(h) => HasWritten(ready)
  BY <1>1, <1>3, TailKind
<1>5. AllFine(rest, accepted, Readable)
  BY <1>1, FineSeq DEF IInv, Typed
<1>6. CASE Active /\ h.ok
  <2>1. /\ writeQueue' = q /\ writing' = (IF q = <<>> THEN writing ELSE DoWrite(q))
        /\ ready' = rest
        /\ UNCHANGED <<state, closeCalls, readOp, isReading, consumed, fetched, netVars,
                       wire, accepted>>
    BY <1>6 DEF RunWrote
  <2>2. writing = {} /\ writeQueue # <<>> /\ ~HasKind(rest, "wrote")
    BY <1>4, <1>6 DEF IInv, Writes
  <2>3. /\ q \in Seq(1 .. MaxWrites) /\ Len(q) = Len(writeQueue) - 1 /\ Len(q) \in Nat
        /\ \A i \in 1 .. Len(q) : i + 1 \in 1 .. Len(writeQueue) /\ q[i] = writeQueue[i + 1]
    BY <1>1, <2>2, Cut
  <2>4. q # <<>> => Head(q) = q[1] /\ q[1] \in 1 .. MaxWrites
    BY <2>3, Cut
  <2>5. Popped = 1
    BY <1>3, <1>4, <1>6 DEF IsWritten, Popped
  <2>6. ~HasWritten(rest)
    BY <2>2 DEF HasKind, HasWritten, IsWritten
  <2>7. Popped' = 0
    BY <2>1, <2>6 DEF Popped
  <2>8. Last' = Last
    BY <1>1, <2>1, <2>3, <2>5, <2>7 DEF Last
  <2>9. writing' = IF q = <<>> THEN {} ELSE {q[1]}
    BY <1>6, <2>1, <2>2, <2>4 DEF DoWrite
  <2>10. TypeOK'
    BY <1>2, <2>1, <2>3, <2>4, <2>9 DEF IInv, Typed, TypeOK, netVars
  <2>11. Typed'
    BY <1>5, <2>1, <2>10 DEF IInv, Typed, CloseOnce, netVars
  <2>12. Reads'
    BY <1>4, <2>1 DEF IInv, Reads
  <2>13. Writes'
    BY <1>4, <1>6, <2>1, <2>2, <2>9 DEF IInv, Writes
  <2>14. Ordered'
    <3>1. Posts(rest, Last, accepted)
      BY <1>1, <1>3, <1>6, PostsSeq DEF IInv, Ordered
    <3>2. \A i \in 1 .. Len(q) : q[i] = Len(wire) - 0 + i
      <4> SUFFICES ASSUME NEW i \in 1 .. Len(q) PROVE q[i] = Len(wire) - 0 + i
        OBVIOUS
      <4>1. q[i] = Len(wire) - 1 + (i + 1)
        BY <1>6, <2>3, <2>5 DEF IInv, Ordered
      <4> QED
        BY <1>1, <4>1
    <3> QED
      BY <1>6, <2>1, <2>7, <2>8, <3>1, <3>2 DEF IInv, Ordered
  <2> QED
    BY <2>11, <2>12, <2>13, <2>14 DEF IInv
<1>7. CASE Active /\ ~h.ok
  <2>1. /\ CloseAnd(rest)
        /\ UNCHANGED <<isReading, consumed, fetched, netVars, writeQueue, wire, accepted>>
    BY <1>7 DEF RunWrote
  <2>2. /\ Once(rest, "read") /\ isReading' \in BOOLEAN
        /\ readOp # NoRead => ~HasKind(rest, "read")
        /\ readOp # NoRead \/ HasKind(rest, "read") => isReading'
    BY <1>4, <2>1 DEF IInv, Reads, Typed, TypeOK
  <2> QED
    BY <1>2, <1>5, <1>7, <2>1, <2>2, Closes
<1>8. CASE ~Active
  <2>1. /\ ready' = rest
        /\ UNCHANGED <<state, closeCalls, readOp, writing, writeQueue, isReading, consumed,
                       fetched, netVars, wire, accepted>>
    BY <1>8 DEF RunWrote, CloseAnd
  <2>2. TypeOK'
    BY <1>2, <2>1 DEF IInv, Typed, TypeOK, netVars
  <2>3. Typed'
    BY <1>5, <2>1, <2>2 DEF IInv, Typed, CloseOnce, netVars
  <2>4. Reads'
    BY <1>4, <2>1 DEF IInv, Reads
  <2>5. Writes' /\ Ordered'
    BY <1>8, <2>1 DEF IInv, Writes, Ordered
  <2> QED
    BY <2>3, <2>4, <2>5 DEF IInv
<1> QED
  BY <1>6, <1>7, <1>8

-----------------------------------------------------------------------------
(***************************************************************************)
(* The theorems.                                                           *)
(***************************************************************************)
\* Every step keeps the invariant.
LEMMA NextIInv == IInv /\ [Next]_vars => IInv'
<1> SUFFICES ASSUME IInv, [Next]_vars PROVE IInv'
  OBVIOUS
<1>1. ASSUME NEW n \in ReadLens, AsyncReadLen(n) PROVE IInv'
  BY <1>1, AsyncReadLenStep
<1>2. CASE AsyncReadUtil
  BY <1>2, AsyncReadUtilStep
<1>3. CASE AsyncWrite
  BY <1>3, AsyncWriteStep
<1>4. CASE Close
  BY <1>4, CloseStep
<1>5. CASE PeerSends \/ PeerGoes \/ \E k \in 1 .. BufferSize : Fetch(k)
  BY <1>5, QuietStep
<1>6. CASE ReadCompletes
  BY <1>6, ReadCompletesStep
<1>7. ASSUME NEW m \in writing, NEW ok \in BOOLEAN, WriteCompletes(m, ok) PROVE IInv'
  BY <1>7, WriteCompletesStep
<1>8. CASE RunHandler
  BY <1>8, RunReadStep, RunPostedStep, RunWroteStep DEF RunHandler
<1>9. CASE UNCHANGED vars
  BY <1>9, Stutter
<1> QED
  BY <1>1, <1>2, <1>3, <1>4, <1>5, <1>6, <1>7, <1>8, <1>9 DEF Next

\* The inductive invariant holds in every state.
THEOREM Invariance == Spec => []IInv
  BY InitIInv, NextIInv, PTL DEF Spec

\* The variables keep their types.
THEOREM TypeCorrect == Spec => []TypeOK
<1>1. IInv => TypeOK
  BY DEF IInv, Typed
<1> QED
  BY <1>1, Invariance, PTL

\* close_callback_ runs exactly once, when the connection is closed, whoever closes it.
THEOREM ClosedOnce == Spec => []CloseOnce
<1>1. IInv => CloseOnce
  BY DEF IInv, Typed
<1> QED
  BY <1>1, Invariance, PTL

\* A kind that occurs at most once counts one or none.
LEMMA OneIndex ==
    ASSUME NEW s, NEW k, Once(s, k)
    PROVE  LET n == Cardinality({i \in 1 .. Len(s) : s[i].kind = k})
           IN  IF HasKind(s, k) THEN n = 1 ELSE n = 0
<1> DEFINE T == {i \in 1 .. Len(s) : s[i].kind = k}
<1>1. CASE HasKind(s, k)
  <2>1. PICK i \in 1 .. Len(s) : s[i].kind = k
    BY <1>1 DEF HasKind
  <2>2. T = {i}
    BY <2>1 DEF Once
  <2> QED
    BY <1>1, <2>2, FS_Singleton
<1>2. CASE ~HasKind(s, k)
  <2>1. T = {}
    BY <1>2 DEF HasKind
  <2> QED
    BY <1>2, <2>1, FS_EmptySet
<1> QED
  BY <1>1, <1>2

\* is_reading_ stands for exactly one read, outstanding or completed and not yet
\* handled; a second one is never started beside it.
THEOREM SingleReader == Spec => []OneReader
<1>1. IInv => OneReader
  <2> SUFFICES ASSUME IInv PROVE OneReader
    OBVIOUS
  <2> DEFINE n == Cardinality({i \in 1 .. Len(ready) : ready[i].kind = "read"})
  <2>1. ready \in Seq(Handlers) /\ isReading \in BOOLEAN
    BY DEF IInv, Typed, TypeOK
  <2>2. {i \in DOMAIN ready : IsRead(ready[i])} = {i \in 1 .. Len(ready) : ready[i].kind = "read"}
    BY <2>1 DEF IsRead
  <2>3. Count(IsRead) = n
    BY <2>2 DEF Count
  <2>4. n = IF HasKind(ready, "read") THEN 1 ELSE 0
    BY OneIndex DEF IInv, Reads
  <2> HIDE DEF n
  <2> QED
    BY <2>1, <2>3, <2>4 DEF OneReader, IInv, Reads
<1> QED
  BY <1>1, Invariance, PTL

\* The buffer keeps its size, and completions claim only bytes that are in it.
THEOREM Accounted == Spec => []BytesAccounted
<1>1. IInv => BytesAccounted
  <2> SUFFICES ASSUME IInv PROVE BytesAccounted
    OBVIOUS
  <2>1. ready \in Seq(Handlers)
    BY DEF IInv, Typed, TypeOK
  <2>2. \A i \in DOMAIN ready : IsRead(ready[i]) /\ ready[i].ok => ready[i].n <= Readable
    BY <2>1 DEF IInv, Typed, AllFine, Fine, IsRead
  <2> QED
    BY <2>2 DEF BytesAccounted, IInv, Typed
<1> QED
  BY <1>1, Invariance, PTL

\* The end of a sequence after its first k elements, behind another sequence.
LEMMA Suffix ==
    ASSUME NEW S, NEW s \in Seq(S), NEW t \in Seq(S), NEW k \in Nat, k <= Len(s)
    PROVE  LET u == t \o SubSeq(s, k + 1, Len(s))
           IN  /\ Len(u) = Len(t) + (Len(s) - k) /\ Len(s) \in Nat /\ Len(t) \in Nat
               /\ DOMAIN u = 1 .. Len(u)
               /\ \A i \in 1 .. Len(t) : u[i] = t[i]
               /\ \A i \in 1 .. Len(s) - k : u[Len(t) + i] = s[k + i]
<1> DEFINE v == SubSeq(s, k + 1, Len(s))
<1>1. /\ v \in Seq(S) /\ Len(v) = Len(s) - k
      /\ \A i \in 1 .. Len(s) - k : v[i] = s[k + i]
  OBVIOUS
<1> HIDE DEF v
<1>2. /\ Len(t \o v) = Len(t) + Len(v) /\ DOMAIN (t \o v) = 1 .. Len(t \o v)
      /\ \A i \in 1 .. Len(t) : (t \o v)[i] = t[i]
      /\ \A i \in 1 .. Len(v) : (t \o v)[Len(t) + i] = v[i]
  BY <1>1, SMTT(60)
<1>3. Len(s) \in Nat /\ Len(t) \in Nat
  OBVIOUS
<1> QED
  BY <1>1, <1>2, <1>3 DEF v

\* On a live connection the messages written, queued and posted are those accepted.
THEOREM NoneLost == Spec => []NothingLost
<1>1. IInv => NothingLost
  <2> SUFFICES ASSUME IInv, Active PROVE NothingLost
    BY DEF NothingLost
  <2> DEFINE posts == {i \in DOMAIN ready : IsPost(ready[i])}
             sent == wire \o SubSeq(writeQueue, Popped + 1, Len(writeQueue))
  <2>1. /\ ready \in Seq(Handlers) /\ accepted \in Nat /\ Last \in Int /\ Popped \in {0, 1}
        /\ wire \in Seq(1 .. MaxWrites) /\ Len(wire) \in Nat
        /\ writeQueue \in Seq(1 .. MaxWrites) /\ Len(writeQueue) \in Nat
    BY Types DEF IInv
  <2>2. Count(IsWritten) = Popped
    <3>1. Once(ready, "wrote")
      BY DEF IInv, Writes
    <3>2. DOMAIN ready = 1 .. Len(ready)
      BY <2>1
    <3>3. CASE HasWritten(ready)
      <4>1. PICK i \in 1 .. Len(ready) : IsWritten(ready[i])
        BY <3>3 DEF HasWritten
      <4>2. {j \in DOMAIN ready : IsWritten(ready[j])} = {i}
        BY <3>1, <3>2, <4>1 DEF Once, IsWritten
      <4> QED
        BY <3>3, <4>2, FS_Singleton DEF Count, Popped
    <3>4. CASE ~HasWritten(ready)
      <4>1. {j \in DOMAIN ready : IsWritten(ready[j])} = {}
        BY <3>2, <3>4 DEF HasWritten
      <4> QED
        BY <3>4, <4>1, FS_EmptySet DEF Count, Popped
    <3> QED
      BY <3>3, <3>4
  <2>3. Popped <= Len(writeQueue)
    <3>1. HasWritten(ready) => writeQueue # <<>>
      BY DEF HasKind, HasWritten, IsWritten, IInv, Writes
    <3>2. writeQueue # <<>> => Len(writeQueue) >= 1
      BY <2>1
    <3> QED
      BY <2>1, <3>1, <3>2 DEF Popped
  <2>4. /\ Len(sent) = Len(wire) + (Len(writeQueue) - Popped)
        /\ DOMAIN sent = 1 .. Len(sent)
        /\ \A i \in 1 .. Len(wire) : sent[i] = wire[i]
        /\ \A i \in 1 .. Len(writeQueue) - Popped : sent[Len(wire) + i] = writeQueue[Popped + i]
    <3>1. Popped \in Nat
      BY <2>1
    <3> QED
      BY <2>1, <2>3, <3>1, Suffix, SMTT(30)
  <2> HIDE DEF sent
  <2>5. Len(sent) = Last
    BY <2>1, <2>4 DEF Last
  <2>6. ASSUME NEW i \in DOMAIN sent PROVE sent[i] = i
    <3>1. CASE i \in 1 .. Len(wire)
      BY <2>4, <3>1 DEF IInv, Ordered
    <3>2. CASE i \notin 1 .. Len(wire)
      <4> DEFINE j == i - Len(wire)
      <4>1. j \in 1 .. Len(writeQueue) - Popped /\ i = Len(wire) + j
        BY <2>1, <2>3, <2>4, <2>6, <3>2
      <4>2. Popped + j \in 1 .. Len(writeQueue)
        BY <2>1, <4>1
      <4> HIDE DEF j
      <4>3. sent[Len(wire) + j] = writeQueue[Popped + j]
        BY <2>4, <4>1
      <4>4. writeQueue[Popped + j] = Len(wire) - Popped + (Popped + j)
        BY <4>2 DEF IInv, Ordered
      <4> QED
        BY <2>1, <4>1, <4>3, <4>4
    <3> QED
      BY <3>1, <3>2
  <2>7. Posts(ready, Last, accepted)
    BY DEF IInv, Ordered
  <2>8. posts = {i \in 1 .. Len(ready) : ready[i].kind = "post"} /\ posts \subseteq 1 .. Len(ready)
    BY <2>1 DEF IsPost
  <2>9. \A i \in posts : ready[i].n \in Nat
    BY <2>1, <2>8, HandlerType
  <2> HIDE DEF posts
  <2>10. {ready[i].n : i \in posts} = Last + 1 .. accepted
    <3>1. ASSUME NEW i \in posts PROVE ready[i].n \in Last + 1 .. accepted
      BY <2>1, <2>7, <2>8, <2>9 DEF Posts
    <3>2. ASSUME NEW m \in Last + 1 .. accepted PROVE \E i \in posts : ready[i].n = m
      BY <2>7, <2>8 DEF Posts
    <3> QED
      BY <3>1, <3>2
  <2>11. \A i, j \in posts : i < j => ready[i].n < ready[j].n
    BY <2>7, <2>8 DEF Posts
  <2> QED
    BY <2>2, <2>5, <2>6, <2>10, <2>11 DEF NothingLost, sent, posts
<1> QED
  BY <1>1, Invariance, PTL

-----------------------------------------------------------------------------
\* The safety part of the ordered writer.
WriterSafety == Writer!Init /\ [][Writer!Next]_(Writer!vars)

\* CloseAnd closes the writer, once.
LEMMA CloseShuts ==
    ASSUME NEW rest, CloseAnd(rest), UNCHANGED <<accepted, wire>>
    PROVE  [Writer!Next]_(Writer!vars)
<1>1. CASE Active
  <2>1. Active /\ (Active' <=> FALSE)
    BY <1>1 DEF CloseAnd
  <2> QED
    BY <2>1 DEF Writer!Next, Writer!Shut
<1>2. CASE ~Active
  <2>1. UNCHANGED <<accepted, wire, Active>>
    BY <1>2 DEF CloseAnd
  <2> QED
    BY <2>1 DEF Writer!vars
<1> QED
  BY <1>1, <1>2

\* Every step of the connection is one of the writer, or none.
LEMMA WriterStep == IInv /\ [Next]_vars => [Writer!Next]_(Writer!vars)
<1> SUFFICES ASSUME IInv, [Next]_vars PROVE [Writer!Next]_(Writer!vars)
  OBVIOUS
<1>1. ASSUME UNCHANGED <<accepted, wire, state>> PROVE [Writer!Next]_(Writer!vars)
  BY <1>1 DEF Writer!vars
<1>2. ASSUME NEW n \in ReadLens, AsyncReadLen(n) PROVE UNCHANGED <<accepted, wire, state>>
  BY <1>2 DEF AsyncReadLen, writeVars
<1>3. CASE AsyncReadUtil \/ PeerSends \/ PeerGoes \/ ReadCompletes
  BY <1>1, <1>3 DEF AsyncReadUtil, PeerSends, PeerGoes, ReadCompletes, writeVars
<1>4. CASE AsyncWrite
  <2>1. accepted' = accepted + 1 /\ UNCHANGED <<wire, Active>>
    BY <1>4 DEF AsyncWrite, writeVars
  <2> QED
    BY <2>1 DEF Writer!Next, Writer!Submit
<1>5. CASE Close
  BY <1>5, CloseShuts DEF Close
<1>6. ASSUME NEW k \in 1 .. BufferSize, Fetch(k) PROVE UNCHANGED <<accepted, wire, state>>
  BY <1>6 DEF Fetch, writeVars
<1>7. ASSUME NEW m \in writing, NEW ok \in BOOLEAN, WriteCompletes(m, ok)
      PROVE  [Writer!Next]_(Writer!vars)
  <2>1. /\ Active /\ Len(wire) < accepted
        /\ wire' = IF ok THEN Append(wire, Len(wire) + 1) ELSE wire
    BY <1>7, WriteCompletesStep
  <2>2. UNCHANGED <<accepted, state>>
    BY <1>7 DEF WriteCompletes
  <2>3. CASE ok
    BY <2>1, <2>2, <2>3 DEF Writer!Next, Writer!Deliver
  <2>4. CASE ~ok
    BY <1>1, <2>1, <2>2, <2>4
  <2> QED
    BY <2>3, <2>4
<1>8. CASE RunPosted
  BY <1>1, <1>8 DEF RunPosted
<1>9. CASE RunRead
  <2>1. UNCHANGED <<accepted, wire>>
    BY <1>9 DEF RunRead
  <2>2. CASE Active /\ Head(ready).ok
    BY <1>1, <1>9, <2>1, <2>2 DEF RunRead
  <2>3. CASE ~ (Active /\ Head(ready).ok)
    BY <1>9, <2>1, <2>3, CloseShuts DEF RunRead
  <2> QED
    BY <2>2, <2>3
<1>10. CASE RunWrote
  <2>1. UNCHANGED <<accepted, wire>>
    BY <1>10 DEF RunWrote
  <2>2. CASE Active /\ Head(ready).ok
    BY <1>1, <1>10, <2>1, <2>2 DEF RunWrote
  <2>3. CASE ~ (Active /\ Head(ready).ok)
    BY <1>10, <2>1, <2>3, CloseShuts DEF RunWrote
  <2> QED
    BY <2>2, <2>3
<1>11. CASE UNCHANGED vars
  BY <1>1, <1>11 DEF vars, writeVars
<1> QED
  BY <1>1, <1>2, <1>3, <1>4, <1>5, <1>6, <1>7, <1>8, <1>9, <1>10, <1>11 DEF Next, RunHandler

\* The connection implements the ordered writer, as far as safety goes: messages
\* reach the socket in the order of the calls of AsyncWrite, without gaps or
\* repetitions, until the one close.
THEOREM ImplementsWriter == Spec => WriterSafety
<1>1. Init => Writer!Init
  BY DEF Init, Writer!Init
<1> QED
  BY <1>1, Invariance, WriterStep, PTL DEF Spec, WriterSafety

-----------------------------------------------------------------------------
\* A read by length is under way only while its bytes are not all there, or just are.
Partial == readOp.kind = "len" => Readable <= readOp.n

LEMMA PartialStep == IInv /\ Partial /\ [Next]_vars => Partial'
<1> SUFFICES ASSUME IInv, Partial, [Next]_vars PROVE Partial'
  OBVIOUS
<1>1. consumed \in Nat /\ fetched \in Nat /\ readOp.n \in Nat
  BY Types DEF IInv
<1>2. ASSUME readOp' = NoRead PROVE Partial'
  BY <1>2 DEF Partial, NoRead
<1>3. ASSUME UNCHANGED <<readOp, consumed, fetched>> PROVE Partial'
  BY <1>3 DEF Partial
<1>4. ASSUME NEW n \in ReadLens, AsyncReadLen(n) PROVE Partial'
  <2>1. CASE Enough(n)
    <3>1. ~isReading /\ UNCHANGED readOp
      BY <1>4, <2>1 DEF AsyncReadLen
    <3> QED
      BY <1>2, <3>1 DEF IInv, Reads
  <2>2. CASE ~Enough(n)
    <3>1. /\ readOp' = IF Active THEN [kind |-> "len", n |-> n] ELSE NoRead
          /\ UNCHANGED <<consumed, fetched>>
      BY <1>4, <2>2 DEF AsyncReadLen
    <3>2. CASE Active
      <4>1. readOp'.n = n /\ n \in Nat /\ Readable <= n
        BY <1>1, <2>2, <3>1, <3>2 DEF Enough
      <4> QED
        BY <3>1, <4>1 DEF Partial
    <3> QED
      BY <1>2, <3>1, <3>2
  <2> QED
    BY <2>1, <2>2
<1>5. CASE AsyncReadUtil
  <2>1. readOp' = [kind |-> "until", n |-> 0] \/ readOp' = NoRead
    BY <1>5 DEF AsyncReadUtil
  <2>2. readOp'.kind # "len"
    BY <2>1 DEF NoRead
  <2> QED
    BY <2>2 DEF Partial
<1>6. CASE AsyncWrite \/ PeerSends \/ PeerGoes \/ ReadCompletes
  BY <1>2, <1>3, <1>6 DEF AsyncWrite, PeerSends, PeerGoes, ReadCompletes, readVars
<1>7. ASSUME NEW rest, CloseAnd(rest), UNCHANGED <<consumed, fetched>> PROVE Partial'
  BY <1>2, <1>3, <1>7 DEF CloseAnd
<1>8. CASE Close
  BY <1>7, <1>8 DEF Close
<1>9. ASSUME NEW k \in 1 .. BufferSize, Fetch(k) PROVE Partial'
  <2>1. UNCHANGED <<readOp, consumed>> /\ fetched' = fetched + k /\ k <= Wanted
    BY <1>9 DEF Fetch
  <2>2. ASSUME readOp.kind = "len" PROVE k <= readOp.n - Readable
    BY <1>1, <2>1, <2>2 DEF Wanted
  <2>3. readOp.kind = "len" => (fetched + k) - consumed <= readOp.n
    BY <1>1, <2>2
  <2> QED
    BY <2>1, <2>3 DEF Partial
<1>10. ASSUME NEW m \in writing, NEW ok \in BOOLEAN, WriteCompletes(m, ok) PROVE Partial'
  BY <1>3, <1>10 DEF WriteCompletes, readVars
<1>11. ASSUME ready # <<>>, RunRead PROVE Partial'
  <2>1. readOp = NoRead
    <3>1. HasKind(ready, "read")
      BY <1>11, TailKind, Types DEF RunRead, IInv
    <3> QED
      BY <3>1 DEF IInv, Reads
  <2>2. readOp' = NoRead
    BY <1>11, <2>1 DEF RunRead, CloseAnd
  <2> QED
    BY <1>2, <2>2
<1>12. CASE RunPosted
  BY <1>3, <1>12 DEF RunPosted, readVars
<1>13. CASE RunWrote
  <2>1. CASE Active /\ Head(ready).ok
    BY <1>3, <1>13, <2>1 DEF RunWrote
  <2>2. CASE ~ (Active /\ Head(ready).ok)
    BY <1>7, <1>13, <2>2 DEF RunWrote
  <2> QED
    BY <2>1, <2>2
<1>14. CASE UNCHANGED vars
  BY <1>3, <1>14 DEF vars, readVars
<1> QED
  BY <1>4, <1>5, <1>6, <1>8, <1>9, <1>10, <1>11, <1>12, <1>13, <1>14 DEF Next, RunHandler

\* A read by length that fits the buffer and succeeds is handed its length exactly,
\* whatever AsyncReadUtil left in the buffer.
THEOREM ExactReads == Spec => LenReadsExact
<1>1. Init => Partial
  BY DEF Init, Partial, NoRead
<1>2. ASSUME IInv, Partial, NEW n \in ReadLens, readOp = [kind |-> "len", n |-> n],
             n <= BufferSize, ReadCompletes, ready'[Len(ready')].ok
      PROVE  ready'[Len(ready')].n = n
  <2>1. PICK h \in ReadResult : ready' = Append(ready, h)
    BY <1>2 DEF ReadCompletes
  <2>2. readOp.kind = "len" /\ readOp.n = n /\ n \in Nat
    BY <1>2
  <2>3. \/ Wanted = 0 /\ h = ReadDone(TRUE, Readable)
        \/ h = ReadDone(FALSE, 0)
    <3> DEFINE down == readOp # NoRead /\ peer = "down"
               none == ReadDone(FALSE, 0)
               full == ReadDone(TRUE, Readable)
               found == ReadDone(TRUE, FirstFound - consumed)
    <3>1. h \in (CASE readOp.kind = "len" /\ Wanted = 0 -> {full}
                 [] readOp.kind = "until" /\ Found # {} -> {found}
                 [] readOp.kind = "until" /\ Found = {} /\ Wanted = 0 -> {none}
                 [] OTHER -> IF down THEN {none} ELSE {})
      BY <2>1 DEF ReadResult
    <3> HIDE DEF down, none, full, found
    <3>2. readOp.kind # "until"
      BY <2>2
    <3>3. CASE Wanted = 0
      <4>1. h \in {full}
        BY <2>2, <3>1, <3>2, <3>3
      <4> QED
        BY <3>3, <4>1 DEF full
    <3>4. CASE Wanted # 0
      <4>1. h \in IF down THEN {none} ELSE {}
        BY <3>1, <3>2, <3>4
      <4> QED
        BY <4>1 DEF none
    <3> QED
      BY <3>3, <3>4
  <2>4. /\ ready \in Seq(Handlers) /\ consumed \in Nat /\ fetched \in Nat
        /\ Readable \in Nat /\ Readable <= BufferSize
    BY <1>2, Types DEF IInv
  <2>5. h \in Handlers /\ h.n \in Nat
    <3>1. ReadDone(TRUE, Readable) \in Handlers
      BY <2>4, Made
    <3>2. ReadDone(FALSE, 0) \in Handlers
      BY Made
    <3>3. h \in Handlers
      BY <2>3, <3>1, <3>2, Zenon
    <3> QED
      BY <3>3, HandlerType
  <2>6. ready'[Len(ready')] = h
    BY <2>1, <2>4, <2>5, Appended
  <2>7. Wanted = 0 /\ h = ReadDone(TRUE, Readable)
    BY <1>2, <2>3, <2>6, Made
  <2>8. h.n = Readable
    BY <2>4, <2>7, Made
  <2>9. Readable <= n
    BY <1>2, <2>2 DEF Partial
  <2>10. n <= Readable
    BY <1>2, <2>2, <2>4, <2>7, <2>9 DEF Wanted
  <2> QED
    BY <2>2, <2>4, <2>6, <2>8, <2>9, <2>10
<1> DEFINE Exact ==
             \A n \in ReadLens :
               (readOp = [kind |-> "len", n |-> n] /\ n <= BufferSize /\ readOp' = NoRead
                  /\ ReadCompletes /\ ready'[Len(ready')].ok) => ready'[Len(ready')].n = n
<1>3. IInv /\ Partial => Exact
  BY <1>2
<1> HIDE DEF Exact
<1>4. Spec => [][Exact]_vars
  BY <1>1, <1>3, Invariance, PartialStep, PTL DEF Spec
<1> QED
  BY <1>4 DEF LenReadsExact, Exact
=============================================================================

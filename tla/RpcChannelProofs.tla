--------------------------- MODULE RpcChannelProofs ---------------------------
(***************************************************************************)
(* Theorems about RpcChannel, for any number of calls and any sizes.       *)
(***************************************************************************)
EXTENDS RpcChannel, TLAPS

Byte == Calls \X Nat
Req == [call : Calls, whole : BOOLEAN]
Outcome == [failed : BOOLEAN, result : 0 .. MaxCalls]

Before(p, q) == p[1] < q[1] \/ (p[1] = q[1] /\ p[2] < q[2])

\* Control: a call has a number, and a result or a failure when it is done.
InCall ==
    /\ pc # "idle" => call >= 1
    /\ pc \notin {"idle", "done"} => result = 0
    /\ pc = "done" => failed \/ result # 0
    /\ result <= call

\* The bytes that were not parsed yet are in the order of their calls.
StreamOrder ==
    /\ \A i, j \in 1 .. Len(buffer) : i < j => Before(buffer[i], buffer[j])
    /\ \A i, j \in 1 .. Len(s2c) : i < j => Before(s2c[i], s2c[j])
    /\ \A i \in 1 .. Len(buffer), j \in 1 .. Len(s2c) : Before(buffer[i], s2c[j])

\* So are the requests that were not answered, all later than those bytes.
RequestOrder ==
    /\ \A m, n \in 1 .. Len(c2s) : m < n => c2s[m].call < c2s[n].call
    /\ \A i \in 1 .. Len(buffer), n \in 1 .. Len(c2s) : buffer[i][1] < c2s[n].call
    /\ \A i \in 1 .. Len(s2c), n \in 1 .. Len(c2s) : s2c[i][1] < c2s[n].call

\* The last call whose request was written.
Latest == IF pc = "send" THEN call - 1 ELSE call

NotAhead ==
    /\ \A i \in 1 .. Len(buffer) : buffer[i][1] <= Latest
    /\ \A i \in 1 .. Len(s2c) : s2c[i][1] <= Latest
    /\ \A n \in 1 .. Len(c2s) : c2s[n].call <= Latest

\* No byte lies behind the last one of its response.
Sized ==
    /\ \A i \in 1 .. Len(buffer) : buffer[i][2] <= LenSize + BodySizeOf(buffer[i][1])
    /\ \A i \in 1 .. Len(s2c) : s2c[i][2] <= LenSize + BodySizeOf(s2c[i][1])

\* Nothing of the calls up to r is left on the connection.
Past(r) ==
    /\ \A i \in 1 .. Len(buffer) : r < buffer[i][1]
    /\ \A i \in 1 .. Len(s2c) : r < s2c[i][1]
    /\ \A n \in 1 .. Len(c2s) : r < c2s[n].call

UsedUp ==
    /\ \A j \in 1 .. Len(outcomes) : Past(outcomes[j].result)
    /\ pc = "done" => Past(result)
    /\ pc = "done" /\ result # 0 =>
         \A j \in 1 .. Len(outcomes) : outcomes[j].result < result

IInv ==
    /\ TypeOK /\ InCall
    /\ StreamOrder /\ RequestOrder /\ NotAhead /\ Sized /\ UsedUp
    /\ AnswersInOrder /\ SuccessHasAnswer

-----------------------------------------------------------------------------
\* The empty sequence is a sequence of anything.
LEMMA EmptySeq ==
    /\ \A S : <<>> \in Seq(S)
    /\ Len(<<>>) = 0
  OBVIOUS

\* What TypeOK says of the elements.
LEMMA Elements ==
    ASSUME TypeOK
    PROVE  /\ \A i \in 1 .. Len(buffer) : buffer[i][1] \in Calls /\ buffer[i][2] \in Nat
           /\ \A i \in 1 .. Len(s2c) : s2c[i][1] \in Calls /\ s2c[i][2] \in Nat
           /\ \A n \in 1 .. Len(c2s) : c2s[n].call \in Calls /\ c2s[n] \in Req
           /\ \A j \in 1 .. Len(outcomes) : outcomes[j].result \in 0 .. MaxCalls
           /\ Len(buffer) \in Nat /\ Len(s2c) \in Nat /\ Len(c2s) \in Nat
           /\ Len(outcomes) \in Nat
<1>1. buffer \in Seq(Byte) /\ s2c \in Seq(Byte) /\ c2s \in Seq(Req) /\ outcomes \in Seq(Outcome)
  BY DEF TypeOK, Byte, Req, Outcome
<1>2. \A b \in Byte : b[1] \in Calls /\ b[2] \in Nat
  BY DEF Byte
<1>3. \A r \in Req : r.call \in Calls
  BY DEF Req
<1>4. \A o \in Outcome : o.result \in 0 .. MaxCalls
  BY DEF Outcome
<1> QED
  BY <1>1, <1>2, <1>3, <1>4

\* Head and Tail of a sequence that is not empty, element by element.
LEMMA TailSeq ==
    ASSUME NEW S, NEW s \in Seq(S), s # <<>>
    PROVE  /\ Head(s) \in S /\ Head(s) = s[1] /\ Len(s) >= 1
           /\ Tail(s) \in Seq(S) /\ Len(Tail(s)) = Len(s) - 1
           /\ \A i \in 1 .. Len(s) - 1 : Tail(s)[i] = s[i + 1]
  OBVIOUS

\* Append, element by element.
LEMMA AppendSeq ==
    ASSUME NEW S, NEW s \in Seq(S), NEW x \in S
    PROVE  /\ Append(s, x) \in Seq(S) /\ Len(Append(s, x)) = Len(s) + 1
           /\ \A i \in 1 .. Len(s) : Append(s, x)[i] = s[i]
           /\ Append(s, x)[Len(s) + 1] = x
  OBVIOUS

\* The concatenation of two sequences, element by element.
LEMMA ConcatSeq ==
    ASSUME NEW S, NEW s \in Seq(S), NEW t \in Seq(S)
    PROVE  /\ s \o t \in Seq(S) /\ Len(s \o t) = Len(s) + Len(t)
           /\ \A i \in 1 .. Len(s) : (s \o t)[i] = s[i]
           /\ \A i \in 1 .. Len(t) : (s \o t)[Len(s) + i] = t[i]
  OBVIOUS

\* Replacing an element keeps type and length.
LEMMA ExceptSeq ==
    ASSUME NEW S, NEW s \in Seq(S), NEW i \in 1 .. Len(s), NEW x \in S
    PROVE  [s EXCEPT ![i] = x] \in Seq(S) /\ Len([s EXCEPT ![i] = x]) = Len(s)
  OBVIOUS

\* The two parts of a sequence cut after its first m elements.
LEMMA SubSeqSeq ==
    ASSUME NEW S, NEW s \in Seq(S), NEW m \in Nat, m <= Len(s)
    PROVE  /\ SubSeq(s, 1, m) \in Seq(S) /\ Len(SubSeq(s, 1, m)) = m
           /\ \A i \in 1 .. m : SubSeq(s, 1, m)[i] = s[i]
           /\ SubSeq(s, m + 1, Len(s)) \in Seq(S)
           /\ Len(SubSeq(s, m + 1, Len(s))) = Len(s) - m
           /\ \A i \in 1 .. Len(s) - m : SubSeq(s, m + 1, Len(s))[i] = s[m + i]
  OBVIOUS

-----------------------------------------------------------------------------
USE ChannelAssumption DEF Calls

\* The invariant holds before the first call.
LEMMA InitIInv == Init => IInv
<1> SUFFICES ASSUME Init PROVE IInv
  OBVIOUS
<1> USE EmptySeq DEF Init
<1>1. TypeOK
  <2>1. buffer \in Seq(Calls \X Nat) /\ s2c \in Seq(Calls \X Nat)
    BY EmptySeq
  <2>2. c2s \in Seq([call : Calls, whole : BOOLEAN])
    BY EmptySeq
  <2>3. outcomes \in Seq([failed : BOOLEAN, result : 0 .. MaxCalls])
    BY EmptySeq
  <2>4. Len(outcomes) = 0 /\ call = 0 /\ call \in 0 .. MaxCalls /\ result \in 0 .. MaxCalls
    BY EmptySeq
  <2>5. timeouts \subseteq Calls /\ long \subseteq Calls
    OBVIOUS
  <2>6. /\ ndebug \in BOOLEAN /\ need \in Nat /\ failed \in BOOLEAN
        /\ connected \in BOOLEAN /\ sawEof \in BOOLEAN
        /\ pc = "idle" /\ link = "none"
    OBVIOUS
  <2> QED
    BY <2>1, <2>2, <2>3, <2>4, <2>5, <2>6 DEF TypeOK
<1>2. InCall
  BY DEF InCall
<1>3. StreamOrder /\ RequestOrder /\ NotAhead /\ Sized
  BY DEF StreamOrder, RequestOrder, NotAhead, Sized
<1>4. UsedUp /\ AnswersInOrder /\ SuccessHasAnswer
  BY DEF UsedUp, AnswersInOrder, SuccessHasAnswer, Finished
<1> QED
  BY <1>1, <1>2, <1>3, <1>4 DEF IInv

\* A step that takes b bytes from the buffer keeps the order of the rest.
LEMMA Dropped ==
    ASSUME IInv, NEW b \in Nat, Len(buffer') = Len(buffer) - b,
           \A i \in 1 .. Len(buffer') : buffer'[i] = buffer[b + i],
           UNCHANGED <<s2c, c2s, long, call>>, pc # "send", pc' # "send"
    PROVE  /\ StreamOrder' /\ RequestOrder' /\ NotAhead' /\ Sized'
           /\ \A r : Past(r) => Past(r)'
<1>1. Len(buffer) \in Nat
  BY Elements DEF IInv
<1>2. \A i \in 1 .. Len(buffer') : b + i \in 1 .. Len(buffer) /\ buffer'[i] = buffer[b + i]
  BY <1>1
<1>3. \A i, j \in 1 .. Len(buffer') : i < j => b + i < b + j
  BY <1>1
<1>4. StreamOrder'
  BY <1>2, <1>3 DEF IInv, StreamOrder
<1>5. RequestOrder'
  BY <1>2 DEF IInv, RequestOrder
<1>6. Latest' = Latest
  BY DEF Latest
<1>7. NotAhead'
  BY <1>2, <1>6 DEF IInv, NotAhead
<1>8. Sized'
  BY <1>2 DEF IInv, Sized, BodySizeOf
<1>9. \A r : Past(r) => Past(r)'
  BY <1>2 DEF Past
<1> QED
  BY <1>4, <1>5, <1>7, <1>8, <1>9

\* A failed read empties the buffer and parses nothing.
LEMMA ReadFailsStep == ASSUME IInv, NEW eof \in BOOLEAN, ReadFails(eof) PROVE IInv'
<1>1. /\ pc \in {"readLen", "readBody"} /\ pc' = "done" /\ failed' = TRUE
      /\ buffer' = <<>> /\ sawEof' \in BOOLEAN
      /\ timeouts' \in {timeouts, timeouts \cup {call}}
      /\ UNCHANGED <<ndebug, long, call, need, result, connected, outcomes, thrown, link, c2s, s2c>>
  BY DEF ReadFails, Reading, SetFailed, IInv, TypeOK
<1>2. call \in Calls /\ result = 0
  BY <1>1 DEF IInv, TypeOK, InCall
<1>3. TypeOK'
  BY <1>1, <1>2, EmptySeq DEF IInv, TypeOK
<1>4. InCall'
  BY <1>1, <1>2 DEF IInv, InCall
<1>5. /\ StreamOrder' /\ RequestOrder' /\ NotAhead' /\ Sized'
      /\ \A r : Past(r) => Past(r)'
  <2>1. Len(buffer) \in Nat /\ Len(buffer') = 0
    BY <1>1, EmptySeq, Elements DEF IInv
  <2> QED
    BY <1>1, <2>1, Dropped
<1>6. UsedUp'
  <2>1. Past(0)
    BY Elements DEF IInv, Past
  <2> QED
    BY <1>1, <1>2, <1>5, <2>1 DEF IInv, UsedUp
<1>7. AnswersInOrder' /\ SuccessHasAnswer'
  BY <1>1 DEF IInv, AnswersInOrder, SuccessHasAnswer, Finished
<1> QED
  BY <1>3, <1>4, <1>5, <1>6, <1>7 DEF IInv

\* What a finished SyncReadLen takes and what it leaves, element by element.
LEMMA TakenRest ==
    ASSUME IInv, need <= Len(buffer)
    PROVE  /\ Rest \in Seq(Byte) /\ Len(Rest) = Len(buffer) - need
           /\ \A i \in 1 .. Len(Rest) : Rest[i] = buffer[need + i]
           /\ Len(Taken) = need /\ \A i \in 1 .. need : Taken[i] = buffer[i]
<1>1. buffer \in Seq(Byte) /\ need \in Nat
  BY DEF IInv, TypeOK, Byte
<1> QED
  BY <1>1, SubSeqSeq DEF Taken, Rest

\* Reading the length takes bytes and parses no response.
LEMMA ReadLenDoneStep == ASSUME IInv, ReadLenDone PROVE IInv'
<1>1. /\ pc = "readLen" /\ need <= Len(buffer) /\ buffer' = Rest /\ pc' = "readBody"
      /\ UNCHANGED <<ndebug, long, call, failed, result, connected, outcomes, thrown, timeouts,
                     sawEof, link, c2s, s2c>>
  BY Elements DEF ReadLenDone, IInv, TypeOK
<1>2. need' \in Nat
  BY DEF ReadLenDone, Fitting, BodySizeOf
<1>3. TypeOK'
  BY <1>1, <1>2, TakenRest DEF IInv, TypeOK, Byte
<1>4. InCall' /\ AnswersInOrder' /\ SuccessHasAnswer'
  BY <1>1 DEF IInv, InCall, AnswersInOrder, SuccessHasAnswer, Finished
<1>5. /\ StreamOrder' /\ RequestOrder' /\ NotAhead' /\ Sized'
      /\ \A r : Past(r) => Past(r)'
  <2>1. need \in Nat
    BY DEF IInv, TypeOK
  <2> QED
    BY <1>1, <2>1, TakenRest, Dropped
<1>6. UsedUp'
  BY <1>1, <1>5 DEF IInv, UsedUp
<1> QED
  BY <1>3, <1>4, <1>5, <1>6 DEF IInv

\* After a whole body nothing of its call is left, and it is later than every
\* result so far.
LEMMA BodyIsLast ==
    ASSUME IInv, NEW c \in 1 .. call, need <= Len(buffer), Taken = BodyOf(c),
           buffer' = Rest, UNCHANGED <<s2c, c2s>>
    PROVE  Past(c)' /\ \A j \in 1 .. Len(outcomes) : outcomes[j].result < c
<1>1. need = BodySizeOf(c) /\ need \in Nat \ {0}
  <2>1. Len(BodyOf(c)) = BodySizeOf(c) /\ BodySizeOf(c) \in Nat \ {0}
    BY DEF BodyOf, BodySizeOf
  <2> QED
    BY <2>1, TakenRest
<1>2. need \in 1 .. Len(buffer) /\ buffer[need] = <<c, LenSize + need>>
  <2>1. BodyOf(c)[need] = <<c, LenSize + need>>
    BY <1>1 DEF BodyOf
  <2>2. \A i \in 1 .. need : Taken[i] = buffer[i]
    BY TakenRest
  <2>3. Len(buffer) \in Nat
    BY Elements DEF IInv
  <2> QED
    BY <1>1, <2>1, <2>2, <2>3
<1>3. buffer[need][1] = c /\ buffer[need][2] = LenSize + BodySizeOf(c)
  BY <1>1, <1>2
<1>4. \A i \in 1 .. Len(buffer') : c < buffer'[i][1]
  <2> SUFFICES ASSUME NEW i \in 1 .. Len(buffer') PROVE c < buffer'[i][1]
    OBVIOUS
  <2>0. /\ Len(buffer') = Len(buffer) - need /\ Len(buffer) \in Nat
        /\ buffer'[i] = buffer[need + i]
    BY TakenRest, Elements DEF IInv
  <2>1. need + i \in 1 .. Len(buffer) /\ need < need + i
    BY <1>1, <2>0
  <2>2. Before(buffer[need], buffer[need + i])
    BY <1>2, <2>1 DEF IInv, StreamOrder
  <2>3. buffer[need + i][2] <= LenSize + BodySizeOf(buffer[need + i][1])
    BY <2>1 DEF IInv, Sized
  <2>4. buffer[need + i][1] \in Calls /\ buffer[need + i][2] \in Nat /\ c \in Nat
    <3>1. TypeOK
      BY DEF IInv
    <3>2. \A k \in 1 .. Len(buffer) : buffer[k][1] \in Calls /\ buffer[k][2] \in Nat
      BY <3>1, Elements
    <3> QED
      BY <2>1, <3>2
  <2>5. buffer[need + i][1] # c
    <3>1. ASSUME buffer[need + i][1] = c PROVE FALSE
      <4>1. LenSize + BodySizeOf(c) < buffer[need + i][2]
        BY <1>3, <2>2, <2>4, <3>1 DEF Before
      <4>2. buffer[need + i][2] <= LenSize + BodySizeOf(c)
        BY <2>3, <3>1
      <4>3. LenSize + BodySizeOf(c) \in Nat
        BY <1>1
      <4> QED
        BY <2>4, <4>1, <4>2, <4>3
    <3> QED
      BY <3>1
  <2> QED
    BY <1>3, <2>0, <2>2, <2>4, <2>5 DEF Before
<1>5. \A i \in 1 .. Len(s2c) : c < s2c[i][1]
  <2> SUFFICES ASSUME NEW i \in 1 .. Len(s2c) PROVE c < s2c[i][1]
    OBVIOUS
  <2>1. Before(buffer[need], s2c[i]) /\ s2c[i][2] <= LenSize + BodySizeOf(s2c[i][1])
    BY <1>2 DEF IInv, StreamOrder, Sized
  <2>2. s2c[i][1] \in Nat /\ s2c[i][2] \in Nat
    BY Elements DEF IInv
  <2> QED
    BY <1>1, <1>3, <2>1, <2>2 DEF Before
<1>6. \A n \in 1 .. Len(c2s) : c < c2s[n].call
  BY <1>2, <1>3 DEF IInv, RequestOrder
<1>7. \A j \in 1 .. Len(outcomes) : outcomes[j].result < c
  BY <1>2, <1>3 DEF IInv, UsedUp, Past
<1> QED
  BY <1>4, <1>5, <1>6, <1>7 DEF Past

\* A parsed response is later than every one before it and leaves none of its bytes.
LEMMA ReadBodyDoneStep == ASSUME IInv, ReadBodyDone PROVE IInv'
<1>1. /\ pc = "readBody" /\ need <= Len(buffer) /\ buffer' = Rest /\ pc' = "done"
      /\ UNCHANGED <<ndebug, long, call, need, connected, outcomes, thrown, timeouts, sawEof, link,
                     c2s, s2c>>
  BY Elements DEF ReadBodyDone, IInv, TypeOK
<1>2. \/ \E c \in 1 .. call : Taken = BodyOf(c) /\ result' = c /\ UNCHANGED failed
      \/ failed' = TRUE /\ UNCHANGED result
  BY DEF ReadBodyDone, SetFailed
<1>3. call \in Calls /\ result = 0 /\ failed \in BOOLEAN /\ need \in Nat
  BY <1>1 DEF IInv, TypeOK, InCall
<1>4. result' \in 0 .. call /\ failed' \in BOOLEAN /\ (failed' \/ result' # 0)
  <2>1. CASE \E c \in 1 .. call : result' = c /\ UNCHANGED failed
    BY <1>3, <2>1
  <2>2. CASE failed' = TRUE /\ UNCHANGED result
    BY <1>3, <2>2
  <2> QED
    BY <1>2, <2>1, <2>2
<1>5. TypeOK'
  BY <1>1, <1>3, <1>4, TakenRest DEF IInv, TypeOK, Byte
<1>6. InCall' /\ AnswersInOrder' /\ SuccessHasAnswer'
  BY <1>1, <1>3, <1>4 DEF IInv, InCall, AnswersInOrder, SuccessHasAnswer, Finished
<1>7. /\ StreamOrder' /\ RequestOrder' /\ NotAhead' /\ Sized'
      /\ \A r : Past(r) => Past(r)'
  BY <1>1, <1>3, TakenRest, Dropped
<1>8. UsedUp'
  <2>1. \A j \in 1 .. Len(outcomes) : Past(outcomes[j].result)'
    BY <1>1, <1>7 DEF IInv, UsedUp
  <2>2. Past(result)' /\ (result' # 0 => \A j \in 1 .. Len(outcomes) : outcomes[j].result < result')
    <3>1. CASE \E c \in 1 .. call : Taken = BodyOf(c) /\ result' = c
      BY <1>1, <3>1, BodyIsLast DEF Past
    <3>2. CASE UNCHANGED result
      <4>1. Past(0)
        BY Elements DEF IInv, Past
      <4> QED
        BY <1>3, <1>7, <3>2, <4>1 DEF Past
    <3> QED
      BY <1>2, <3>1, <3>2
  <2> QED
    BY <1>1, <2>1, <2>2 DEF UsedUp
<1> QED
  BY <1>5, <1>6, <1>7, <1>8 DEF IInv

\* done records the result that UsedUp has shown to be the latest.
LEMMA DoneStep == ASSUME IInv, Done PROVE IInv'
<1> DEFINE o == [failed |-> failed, result |-> result]
<1>1. /\ pc = "done" /\ pc' = "idle" /\ outcomes' = Append(outcomes, o)
      /\ UNCHANGED <<ndebug, long, call, need, failed, result, connected, buffer, thrown,
                     timeouts, sawEof, link, c2s, s2c>>
  BY DEF Done
<1>2. /\ o \in Outcome /\ outcomes \in Seq(Outcome) /\ Len(outcomes) = call - 1
      /\ call \in Nat /\ (failed \/ result # 0) /\ result \in 0 .. call
  BY <1>1 DEF IInv, TypeOK, InCall, Outcome
<1>3. /\ outcomes' \in Seq(Outcome) /\ Len(outcomes') = call
      /\ \A j \in 1 .. call - 1 : outcomes'[j] = outcomes[j]
      /\ outcomes'[call].failed = failed /\ outcomes'[call].result = result
  BY <1>1, <1>2, AppendSeq
<1>4. TypeOK'
  BY <1>1, <1>2, <1>3 DEF IInv, TypeOK, Outcome
<1>5. InCall'
  BY <1>1 DEF IInv, InCall
<1>6. StreamOrder' /\ RequestOrder' /\ Sized' /\ NotAhead'
  BY <1>1 DEF IInv, StreamOrder, RequestOrder, Sized, NotAhead, Latest, BodySizeOf
<1>7. UsedUp'
  <2>1. \A r : Past(r) => Past(r)'
    BY <1>1 DEF Past
  <2>2. Past(result) /\ \A j \in 1 .. call - 1 : Past(outcomes[j].result)
    BY <1>1, <1>2 DEF IInv, UsedUp
  <2> QED
    BY <1>1, <1>2, <1>3, <2>1, <2>2 DEF UsedUp
<1>8. AnswersInOrder'
  <2>1. \A j \in 1 .. call : outcomes'[j].result <= j
    BY <1>2, <1>3 DEF IInv, AnswersInOrder
  <2>2. result # 0 => \A j \in 1 .. call - 1 : outcomes'[j].result < result
    BY <1>1, <1>2, <1>3 DEF IInv, UsedUp
  <2>3. ASSUME NEW j \in 1 .. call - 1, outcomes'[j].result # 0, NEW i \in 1 .. j - 1
        PROVE  outcomes'[i].result < outcomes'[j].result
    <3>1. i \in 1 .. call - 1 /\ j \in DOMAIN outcomes
      BY <1>2
    <3>2. outcomes'[i] = outcomes[i] /\ outcomes'[j] = outcomes[j]
      BY <1>3, <3>1
    <3> QED
      BY <2>3, <3>1, <3>2 DEF IInv, AnswersInOrder
  <2>4. ASSUME NEW j \in 1 .. call, outcomes'[j].result # 0, NEW i \in 1 .. j - 1
        PROVE  outcomes'[i].result < outcomes'[j].result
    <3>1. CASE j = call
      BY <1>2, <1>3, <2>2, <2>4, <3>1
    <3>2. CASE j \in 1 .. call - 1
      BY <2>3, <2>4, <3>2
    <3> QED
      BY <1>2, <3>1, <3>2
  <2>5. DOMAIN outcomes' = 1 .. call
    BY <1>2, <1>3
  <2> QED
    BY <2>1, <2>4, <2>5 DEF AnswersInOrder
<1>9. SuccessHasAnswer'
  <2>1. DOMAIN outcomes' = 1 .. call /\ DOMAIN outcomes = 1 .. call - 1 /\ call >= 1
    BY <1>1, <1>2, <1>3 DEF IInv, InCall
  <2>2. \A j \in Finished' : j = call \/ j \in Finished
    BY <1>1, <1>2, <2>1 DEF Finished
  <2>3. \A j \in Finished : outcomes'[j] = outcomes[j]
    BY <1>3, <2>1 DEF Finished
  <2> QED
    BY <1>2, <1>3, <2>2, <2>3 DEF IInv, SuccessHasAnswer
<1> QED
  BY <1>4, <1>5, <1>6, <1>7, <1>8, <1>9 DEF IInv

\* A connection that closes only loses requests and bytes.
LEMMA PeerClosesStep == ASSUME IInv, PeerCloses PROVE IInv'
<1>1. /\ link' = "down" /\ c2s' = <<>> /\ s2c' \in {s2c, <<>>}
      /\ UNCHANGED <<ndebug, clientVars, long>>
  BY DEF PeerCloses
<1>2. TypeOK'
  BY <1>1, EmptySeq DEF IInv, TypeOK, clientVars
<1>3. InCall' /\ AnswersInOrder' /\ SuccessHasAnswer'
  BY <1>1 DEF IInv, InCall, AnswersInOrder, SuccessHasAnswer, Finished, clientVars
<1>4. Latest' = Latest
  BY <1>1 DEF Latest, clientVars
<1>5. CASE s2c' = s2c
  <2>1. StreamOrder' /\ RequestOrder' /\ NotAhead'
    BY <1>1, <1>4, <1>5, EmptySeq DEF IInv, StreamOrder, RequestOrder, NotAhead, clientVars
  <2>2. Sized'
    BY <1>1, <1>5, EmptySeq DEF IInv, Sized, BodySizeOf, clientVars
  <2>3. UsedUp'
    BY <1>1, <1>5, EmptySeq DEF IInv, UsedUp, Past, clientVars
  <2> QED
    BY <1>2, <1>3, <2>1, <2>2, <2>3 DEF IInv
<1>6. CASE s2c' = <<>>
  <2>1. StreamOrder' /\ RequestOrder' /\ NotAhead'
    BY <1>1, <1>4, <1>6, EmptySeq DEF IInv, StreamOrder, RequestOrder, NotAhead, clientVars
  <2>2. Sized'
    BY <1>1, <1>6, EmptySeq DEF IInv, Sized, BodySizeOf, clientVars
  <2>3. UsedUp'
    BY <1>1, <1>6, EmptySeq DEF IInv, UsedUp, Past, clientVars
  <2> QED
    BY <1>2, <1>3, <2>1, <2>2, <2>3 DEF IInv
<1> QED
  BY <1>1, <1>5, <1>6

\* The number of a new call is later than everything on the connection.
LEMMA CallMethodStep == IInv /\ CallMethod => IInv'
<1> SUFFICES ASSUME IInv, CallMethod PROVE IInv'
  OBVIOUS
<1>0. /\ pc = "idle" /\ call < MaxCalls /\ call' = call + 1 /\ result' = 0
      /\ pc' \in {"send", "done"} /\ (pc' = "done" => failed')
      /\ failed' \in BOOLEAN /\ connected' \in BOOLEAN /\ sawEof' \in BOOLEAN
      /\ link' \in {"none", "up", "down"}
      /\ UNCHANGED <<ndebug, long, need, buffer, outcomes, thrown, timeouts>>
  BY DEF IInv, TypeOK, CallMethod, Connect, SetFailed
<1>1. UNCHANGED <<c2s, s2c>> \/ (c2s' = <<>> /\ s2c' = <<>>)
  BY DEF CallMethod, Connect
<1>2. TypeOK'
  <2>1. c2s' \in Seq([call : Calls, whole : BOOLEAN]) /\ s2c' \in Seq(Calls \X Nat)
    BY <1>1, EmptySeq DEF IInv, TypeOK
  <2> QED
    BY <1>0, <2>1 DEF IInv, TypeOK
<1>3. InCall'
  BY <1>0 DEF IInv, TypeOK, InCall
<1>4. StreamOrder' /\ RequestOrder' /\ Sized'
  <2>1. CASE UNCHANGED <<c2s, s2c>>
    BY <1>0, <2>1 DEF IInv, StreamOrder, RequestOrder, Sized, BodySizeOf
  <2>2. CASE c2s' = <<>> /\ s2c' = <<>>
    BY <1>0, <2>2, EmptySeq DEF IInv, StreamOrder, RequestOrder, Sized, BodySizeOf
  <2> QED
    BY <1>1, <2>1, <2>2
<1>5. NotAhead'
  <2>1. Latest = call /\ Latest' = call' - (IF pc' = "send" THEN 1 ELSE 0)
    BY <1>0 DEF Latest, IInv, TypeOK
  <2>2. call \in Nat /\ Latest' \in Nat /\ call <= Latest'
    BY <1>0, <2>1 DEF IInv, TypeOK
  <2>3. CASE UNCHANGED <<c2s, s2c>>
    BY <1>0, <2>1, <2>2, <2>3, Elements DEF IInv, NotAhead
  <2>4. CASE c2s' = <<>> /\ s2c' = <<>>
    BY <1>0, <2>1, <2>2, <2>4, Elements, EmptySeq DEF IInv, NotAhead
  <2> QED
    BY <1>1, <2>3, <2>4
<1>6. UsedUp'
  <2>1. Past(0)' /\ \A j \in 1 .. Len(outcomes) : Past(outcomes[j].result)'
    <3>1. CASE UNCHANGED <<c2s, s2c>>
      BY <1>0, <3>1, Elements DEF IInv, UsedUp, Past
    <3>2. CASE c2s' = <<>> /\ s2c' = <<>>
      BY <1>0, <3>2, Elements, EmptySeq DEF IInv, UsedUp, Past
    <3> QED
      BY <1>1, <3>1, <3>2
  <2> QED
    BY <1>0, <2>1 DEF UsedUp
<1>7. AnswersInOrder' /\ SuccessHasAnswer'
  BY <1>0 DEF IInv, TypeOK, AnswersInOrder, SuccessHasAnswer, Finished
<1> QED
  BY <1>2, <1>3, <1>4, <1>5, <1>6, <1>7 DEF IInv

\* A call that Connect throws out of finds and leaves no response.
LEMMA ConnectThrowsStep == ASSUME IInv, ConnectThrows PROVE IInv'
<1> DEFINE o == [failed |-> FALSE, result |-> 0]
<1>1. /\ pc = "idle" /\ call < MaxCalls /\ call' = call + 1 /\ result' = 0 /\ failed' = FALSE
      /\ outcomes' = Append(outcomes, o) /\ thrown' = thrown \cup {call'}
      /\ UNCHANGED <<ndebug, pc, need, connected, buffer, link, c2s, s2c, long, timeouts,
                     sawEof>>
  BY DEF ConnectThrows
<1>2. /\ o \in Outcome /\ outcomes \in Seq(Outcome) /\ Len(outcomes) = call
      /\ call \in Nat /\ call' \in Calls
  BY <1>1 DEF IInv, TypeOK, Outcome
<1>3. /\ outcomes' \in Seq(Outcome) /\ Len(outcomes') = call + 1
      /\ \A j \in 1 .. call : outcomes'[j] = outcomes[j]
      /\ outcomes'[call + 1].result = 0
  BY <1>1, <1>2, AppendSeq
<1>4. TypeOK'
  <2>0. thrown \subseteq Calls /\ MaxCalls \in Nat
    BY DEF IInv, TypeOK
  <2>1. call' \in 0 .. MaxCalls /\ result' \in 0 .. MaxCalls
    BY <1>1, <1>2, <2>0
  <2>4. failed' \in BOOLEAN
    BY <1>1
  <2>5. thrown' \subseteq Calls
    BY <1>1, <1>2, <2>0, Zenon
  <2>2. outcomes' \in Seq([failed : BOOLEAN, result : 0 .. MaxCalls])
    BY <1>3 DEF Outcome
  <2>3. Len(outcomes') = IF pc' = "idle" THEN call' ELSE call' - 1
    BY <1>1, <1>3
  <2> QED
    BY <1>1, <2>1, <2>2, <2>3, <2>4, <2>5 DEF IInv, TypeOK
<1>5. InCall'
  BY <1>1, <1>2 DEF IInv, InCall
<1>6. StreamOrder' /\ RequestOrder' /\ Sized'
  BY <1>1 DEF IInv, StreamOrder, RequestOrder, Sized, BodySizeOf
<1>7. NotAhead'
  <2>1. Latest = call /\ Latest' = call + 1
    BY <1>1 DEF Latest
  <2>2. TypeOK /\ NotAhead
    BY DEF IInv
  <2>3. /\ \A i \in 1 .. Len(buffer) : buffer[i][1] \in Nat /\ buffer[i][1] <= call
        /\ \A i \in 1 .. Len(s2c) : s2c[i][1] \in Nat /\ s2c[i][1] <= call
        /\ \A n \in 1 .. Len(c2s) : c2s[n].call \in Nat /\ c2s[n].call <= call
    BY <2>1, <2>2, Elements DEF NotAhead
  <2> QED
    BY <1>1, <1>2, <2>1, <2>3 DEF NotAhead
<1>8. UsedUp'
  <2>1. \A r : Past(r) => Past(r)'
    BY <1>1 DEF Past
  <2>2. Past(0)
    BY Elements DEF IInv, Past
  <2>3. \A j \in 1 .. call : Past(outcomes[j].result)
    BY <1>2 DEF IInv, UsedUp
  <2> QED
    BY <1>1, <1>2, <1>3, <2>1, <2>2, <2>3 DEF UsedUp
<1>9. AnswersInOrder'
  BY <1>2, <1>3 DEF IInv, AnswersInOrder
<1>10. SuccessHasAnswer'
  <2>1. DOMAIN outcomes' = 1 .. call + 1 /\ DOMAIN outcomes = 1 .. call
    BY <1>2, <1>3
  <2>2. Finished' \subseteq Finished
    BY <1>1, <1>2, <2>1 DEF Finished
  <2> QED
    BY <1>3, <2>1, <2>2 DEF IInv, SuccessHasAnswer, Finished
<1> QED
  BY <1>4, <1>5, <1>6, <1>7, <1>8, <1>9, <1>10 DEF IInv

\* The new request is later than everything on the connection.
LEMMA SendRequestStep == ASSUME IInv, NEW ok \in BOOLEAN, SendRequest(ok) PROVE IInv'
<1>1. /\ pc = "send" /\ pc' \in {"readLen", "aborted"} /\ need' = LenSize
      /\ failed' = (failed \/ ~ok) /\ timeouts' \in {timeouts, timeouts \cup {call}}
      /\ c2s' \in {c2s, Append(c2s, Request(TRUE)), Append(c2s, Request(FALSE))}
      /\ UNCHANGED <<ndebug, long, call, result, connected, buffer, outcomes, thrown, sawEof, link, s2c>>
  BY DEF SendRequest, SyncWrite
<1>2. /\ call \in Calls /\ result = 0 /\ failed \in BOOLEAN /\ c2s \in Seq(Req)
      /\ Latest = call - 1 /\ Latest' = call /\ Len(c2s) \in Nat
  BY <1>1 DEF IInv, TypeOK, InCall, Req, Latest
<1>3. \A w \in BOOLEAN : Request(w) \in Req /\ Request(w).call = call
  BY <1>2 DEF Request, Req
<1>4. /\ c2s' \in Seq(Req) /\ Len(c2s') \in {Len(c2s), Len(c2s) + 1}
      /\ \A n \in 1 .. Len(c2s) : c2s'[n] = c2s[n]
      /\ Len(c2s') = Len(c2s) + 1 => c2s'[Len(c2s) + 1].call = call
  <2>1. CASE c2s' = c2s
    BY <1>2, <2>1
  <2>2. ASSUME NEW w \in BOOLEAN, c2s' = Append(c2s, Request(w))
        PROVE  /\ c2s' \in Seq(Req) /\ Len(c2s') = Len(c2s) + 1
               /\ \A n \in 1 .. Len(c2s) : c2s'[n] = c2s[n]
               /\ c2s'[Len(c2s) + 1].call = call
    BY <1>2, <1>3, <2>2, AppendSeq
  <2> QED
    BY <1>1, <2>1, <2>2
<1>5. ASSUME NEW n \in 1 .. Len(c2s')
      PROVE  n \in 1 .. Len(c2s) \/ (n = Len(c2s) + 1 /\ Len(c2s') = n)
  BY <1>2, <1>4
<1>6. TypeOK'
  BY <1>1, <1>2, <1>4 DEF IInv, TypeOK, Req
<1>7. InCall' /\ AnswersInOrder' /\ SuccessHasAnswer' /\ StreamOrder' /\ Sized'
  BY <1>1, <1>2 DEF IInv, InCall, AnswersInOrder, SuccessHasAnswer, Finished, StreamOrder,
       Sized, BodySizeOf
<1>8. /\ \A n \in 1 .. Len(c2s) : c2s[n].call \in Nat /\ c2s[n].call <= call - 1
      /\ \A i \in 1 .. Len(buffer) : buffer[i][1] \in Nat /\ buffer[i][1] <= call - 1
      /\ \A i \in 1 .. Len(s2c) : s2c[i][1] \in Nat /\ s2c[i][1] <= call - 1
      /\ call \in Nat
  <2>1. /\ \A n \in 1 .. Len(c2s) : c2s[n].call \in Calls
        /\ \A i \in 1 .. Len(buffer) : buffer[i][1] \in Calls
        /\ \A i \in 1 .. Len(s2c) : s2c[i][1] \in Calls
    BY Elements DEF IInv
  <2>2. /\ \A n \in 1 .. Len(c2s) : c2s[n].call <= Latest
        /\ \A i \in 1 .. Len(buffer) : buffer[i][1] <= Latest
        /\ \A i \in 1 .. Len(s2c) : s2c[i][1] <= Latest
    BY DEF IInv, NotAhead
  <2> QED
    BY <1>2, <2>1, <2>2
<1>9. /\ \A n \in 1 .. Len(c2s) : c2s[n].call < call
      /\ \A i \in 1 .. Len(buffer) : buffer[i][1] < call
      /\ \A i \in 1 .. Len(s2c) : s2c[i][1] < call
  BY <1>2, <1>8
<1>10. NotAhead'
  <2>1. ASSUME NEW n \in 1 .. Len(c2s') PROVE c2s'[n].call <= call
    <3>1. CASE n \in 1 .. Len(c2s)
      BY <1>4, <1>8, <1>9, <3>1
    <3>2. CASE n = Len(c2s) + 1 /\ Len(c2s') = n
      BY <1>4, <1>8, <3>2
    <3> QED
      BY <1>5, <3>1, <3>2
  <2>2. /\ \A i \in 1 .. Len(buffer) : buffer[i][1] <= call
        /\ \A i \in 1 .. Len(s2c) : s2c[i][1] <= call
    BY <1>8
  <2> QED
    BY <1>1, <1>2, <2>1, <2>2 DEF NotAhead
<1>11. RequestOrder'
  <2>1. ASSUME NEW m \in 1 .. Len(c2s'), NEW n \in 1 .. Len(c2s'), m < n
        PROVE  c2s'[m].call < c2s'[n].call
    <3>1. m \in 1 .. Len(c2s) /\ c2s'[m] = c2s[m]
      BY <1>2, <1>4, <2>1
    <3>2. CASE n \in 1 .. Len(c2s)
      BY <1>4, <2>1, <3>1, <3>2 DEF IInv, RequestOrder
    <3>3. CASE n = Len(c2s) + 1 /\ Len(c2s') = n
      BY <1>4, <1>9, <3>1, <3>3
    <3> QED
      BY <1>5, <3>2, <3>3
  <2>2. ASSUME NEW n \in 1 .. Len(c2s')
        PROVE  /\ \A i \in 1 .. Len(buffer) : buffer[i][1] < c2s'[n].call
               /\ \A i \in 1 .. Len(s2c) : s2c[i][1] < c2s'[n].call
    <3>1. CASE n \in 1 .. Len(c2s)
      BY <1>4, <3>1 DEF IInv, RequestOrder
    <3>2. CASE n = Len(c2s) + 1 /\ Len(c2s') = n
      BY <1>4, <1>9, <3>2
    <3> QED
      BY <1>5, <3>1, <3>2
  <2> QED
    BY <1>1, <2>1, <2>2 DEF RequestOrder
<1>12. UsedUp'
  <2>1. ASSUME NEW j \in 1 .. Len(outcomes) PROVE outcomes[j].result < call
    <3>1. Len(outcomes) = call - 1 /\ j \in Nat /\ outcomes[j].result \in Nat
      BY <1>1, Elements DEF IInv, TypeOK
    <3>2. outcomes[j].result <= j
      BY DEF IInv, AnswersInOrder
    <3> QED
      BY <1>2, <3>1, <3>2
  <2>2. ASSUME NEW j \in 1 .. Len(outcomes), NEW n \in 1 .. Len(c2s')
        PROVE  outcomes[j].result < c2s'[n].call
    <3>1. CASE n \in 1 .. Len(c2s)
      BY <1>4, <3>1 DEF IInv, UsedUp, Past
    <3>2. CASE n = Len(c2s) + 1 /\ Len(c2s') = n
      BY <1>4, <2>1, <3>2
    <3> QED
      BY <1>5, <3>1, <3>2
  <2>3. \A j \in 1 .. Len(outcomes) : Past(outcomes[j].result)'
    BY <1>1, <2>2 DEF IInv, UsedUp, Past
  <2> QED
    BY <1>1, <2>3 DEF UsedUp
<1> QED
  BY <1>6, <1>7, <1>10, <1>11, <1>12 DEF IInv

\* A byte that is read moves from the head of the stream to the end of the buffer.
LEMMA TransferStep == ASSUME IInv, Transfer PROVE IInv'
<1>1. /\ pc \in {"readLen", "readBody"} /\ s2c # <<>>
      /\ buffer' = Append(buffer, Head(s2c)) /\ s2c' = Tail(s2c)
      /\ UNCHANGED <<ndebug, long, pc, call, need, failed, result, connected, outcomes, thrown, timeouts,
                     sawEof, link, c2s>>
  BY DEF Transfer, Reading
<1>2. buffer \in Seq(Byte) /\ s2c \in Seq(Byte) /\ Len(buffer) \in Nat /\ Len(s2c) \in Nat
  BY DEF IInv, TypeOK, Byte
<1>3. /\ Len(buffer) \in Nat /\ Len(s2c) \in Nat /\ 1 \in 1 .. Len(s2c) /\ Head(s2c) = s2c[1]
      /\ s2c' \in Seq(Byte) /\ Len(s2c') = Len(s2c) - 1
  BY <1>1, <1>2, TailSeq
<1>4. buffer' \in Seq(Byte)
  BY <1>1, <1>2, TailSeq, AppendSeq
<1>5. /\ Len(buffer') = Len(buffer) + 1
      /\ \A i \in 1 .. Len(buffer) : buffer'[i] = buffer[i]
      /\ buffer'[Len(buffer) + 1] = s2c[1]
  <2>1. Head(s2c) \in Byte
    BY <1>1, <1>2, TailSeq
  <2> QED
    BY <1>1, <1>2, <1>3, <2>1, AppendSeq
<1>6. \A i \in 1 .. Len(s2c') : i + 1 \in 1 .. Len(s2c) /\ s2c'[i] = s2c[i + 1]
  <2>1. \A i \in 1 .. Len(s2c) - 1 : s2c'[i] = s2c[i + 1]
    BY <1>1, <1>2, TailSeq
  <2> QED
    BY <1>3, <2>1
<1>7. ASSUME NEW i \in 1 .. Len(buffer')
      PROVE  \/ i \in 1 .. Len(buffer) /\ buffer'[i] = buffer[i]
             \/ i = Len(buffer) + 1 /\ buffer'[i] = s2c[1]
  <2>1. i \in 1 .. Len(buffer) \/ i = Len(buffer) + 1
    BY <1>3, <1>5
  <2>2. CASE i \in 1 .. Len(buffer)
    BY <1>5, <2>2
  <2>3. CASE i = Len(buffer) + 1
    BY <1>5, <2>3
  <2> QED
    BY <2>1, <2>2, <2>3
<1>8. TypeOK'
  BY <1>1, <1>3, <1>5, <1>6, <1>7, <1>4 DEF IInv, TypeOK, Byte
<1>9. InCall' /\ AnswersInOrder' /\ SuccessHasAnswer'
  BY <1>1 DEF IInv, InCall, AnswersInOrder, SuccessHasAnswer, Finished
<1>10. StreamOrder'
  <2>1. ASSUME NEW i \in 1 .. Len(buffer'), NEW j \in 1 .. Len(buffer'), i < j
        PROVE  Before(buffer'[i], buffer'[j])
    <3>1. i \in 1 .. Len(buffer) /\ buffer'[i] = buffer[i]
      BY <1>3, <1>5, <2>1
    <3>2. CASE j \in 1 .. Len(buffer) /\ buffer'[j] = buffer[j]
      BY <2>1, <3>1, <3>2 DEF IInv, StreamOrder
    <3>3. CASE buffer'[j] = s2c[1]
      BY <1>3, <3>1, <3>3 DEF IInv, StreamOrder
    <3> QED
      BY <1>7, <3>2, <3>3
  <2>2. \A i, j \in 1 .. Len(s2c') : i < j => Before(s2c'[i], s2c'[j])
    <3>1. \A i, j \in 1 .. Len(s2c') : i < j => i + 1 < j + 1
      BY <1>3, <1>5, <1>6, <1>7
    <3> QED
      BY <1>3, <1>5, <1>6, <1>7, <3>1 DEF IInv, StreamOrder
  <2>3. \A i \in 1 .. Len(buffer'), j \in 1 .. Len(s2c') : Before(buffer'[i], s2c'[j])
    <3>1. 1 \in 1 .. Len(s2c) /\ \A j \in 1 .. Len(s2c') : 1 < j + 1
      BY <1>3, <1>5, <1>6, <1>7
    <3> QED
      BY <1>3, <1>5, <1>6, <1>7, <3>1 DEF IInv, StreamOrder
  <2> QED
    BY <2>1, <2>2, <2>3 DEF StreamOrder
<1>11. RequestOrder'
  BY <1>1, <1>3, <1>5, <1>6, <1>7 DEF IInv, RequestOrder
<1>12. NotAhead' /\ Sized'
  BY <1>1, <1>3, <1>5, <1>6, <1>7 DEF IInv, NotAhead, Sized, Latest, BodySizeOf
<1>13. UsedUp'
  <2>1. \A r : Past(r) => Past(r)'
    BY <1>1, <1>3, <1>5, <1>6, <1>7 DEF Past
  <2> QED
    BY <1>1, <2>1 DEF IInv, UsedUp
<1> QED
  BY <1>8, <1>9, <1>10, <1>11, <1>12, <1>13 DEF IInv

\* The response to the first request on its way: later than every byte so far and
\* earlier than the requests that are left.
LEMMA Responded ==
    ASSUME IInv, c2s # <<>>, Respond(Head(c2s).call),
           Len(c2s') = Len(c2s) - 1, \A n \in 1 .. Len(c2s') : c2s'[n].call = c2s[n + 1].call,
           c2s' \in Seq(Req), UNCHANGED <<ndebug, clientVars, link>>
    PROVE  IInv'
<1> DEFINE c == Head(c2s).call
<1>1. /\ c2s \in Seq(Req) /\ Len(c2s) \in Nat \ {0} /\ 1 \in 1 .. Len(c2s)
      /\ c = c2s[1].call /\ c \in Calls
  <2>1. TypeOK
    BY DEF IInv
  <2> QED
    BY <2>1, TailSeq, Elements DEF TypeOK, Req
<1>2. PICK size \in {BodySize, LongSize} :
        /\ s2c' = s2c \o Response(c, size)
        /\ long' = IF size = LongSize THEN long \cup {c} ELSE long
  <2> HIDE DEF c
  <2>1. Respond(c)
    BY DEF c
  <2> QED
    BY <2>1 DEF Respond
<1> DEFINE R == Response(c, size)
           N == LenSize + size
<1>3. N \in Nat /\ size \in Nat
  BY <1>2
<1>4. R \in Seq(Byte) /\ Len(R) = N /\ \A k \in 1 .. N : R[k] = <<c, k>>
  <2>1. R = [k \in 1 .. N |-> <<c, k>>]
    BY DEF Response
  <2>2. \A k \in 1 .. N : <<c, k>> \in Byte
    BY <1>1, <1>3 DEF Byte
  <2> HIDE DEF R, N
  <2>3. R \in [1 .. N -> Byte]
    BY <2>1, <2>2
  <2>4. R \in Seq(Byte) /\ Len(R) = N
    BY <1>3, <2>3, SMTT(40)
  <2> QED
    BY <2>1, <2>4
<1>5. /\ s2c' \in Seq(Byte) /\ Len(s2c) \in Nat /\ Len(s2c') = Len(s2c) + N
      /\ \A i \in 1 .. Len(s2c) : s2c'[i] = s2c[i]
      /\ \A k \in 1 .. N : s2c'[Len(s2c) + k] = <<c, k>>
  <2>1. s2c \in Seq(Byte) /\ s2c' = s2c \o R
    BY <1>2 DEF IInv, TypeOK, Byte
  <2> HIDE DEF R, N
  <2>2. /\ s2c \o R \in Seq(Byte) /\ Len(s2c \o R) = Len(s2c) + Len(R)
        /\ \A i \in 1 .. Len(s2c) : (s2c \o R)[i] = s2c[i]
        /\ \A k \in 1 .. Len(R) : (s2c \o R)[Len(s2c) + k] = R[k]
    BY <1>4, <2>1, ConcatSeq
  <2>3. Len(s2c) \in Nat
    BY <2>1
  <2>4. /\ \A i \in 1 .. Len(s2c) : s2c'[i] = s2c[i]
        /\ \A k \in 1 .. N : s2c'[Len(s2c) + k] = <<c, k>>
    BY <1>4, <2>1, <2>2
  <2>5. s2c' \in Seq(Byte) /\ Len(s2c') = Len(s2c) + N
    BY <1>4, <2>1, <2>2
  <2> QED
    BY <2>3, <2>4, <2>5
<1>6. ASSUME NEW i \in 1 .. Len(s2c')
      PROVE  \/ i \in 1 .. Len(s2c) /\ s2c'[i] = s2c[i]
             \/ /\ i \in Nat /\ i > Len(s2c) /\ \E k \in 1 .. N : i = Len(s2c) + k
                /\ s2c'[i][1] = c /\ s2c'[i][2] = i - Len(s2c)
  <2> HIDE DEF N, c
  <2>1. CASE i <= Len(s2c)
    BY <1>5, <2>1
  <2>2. CASE i > Len(s2c)
    <3>1. i - Len(s2c) \in 1 .. N /\ i = Len(s2c) + (i - Len(s2c)) /\ i \in Nat
      BY <1>3, <1>5, <2>2
    <3>2. s2c'[i] = <<c, i - Len(s2c)>>
      BY <1>5, <3>1
    <3> QED
      BY <2>2, <3>1, <3>2
  <2> QED
    BY <1>5, <2>1, <2>2
<1>7. /\ \A n \in 1 .. Len(c2s') : n + 1 \in 1 .. Len(c2s) /\ c < c2s'[n].call
      /\ \A i \in 1 .. Len(buffer) : buffer[i][1] < c
      /\ \A i \in 1 .. Len(s2c) : s2c[i][1] < c
  <2>1. \A n \in 1 .. Len(c2s') : n + 1 \in 1 .. Len(c2s) /\ 1 < n + 1
    BY <1>1
  <2> QED
    BY <1>1, <2>1 DEF IInv, RequestOrder
<1>8. /\ \A i \in 1 .. Len(s2c) : s2c[i][1] \in Calls /\ s2c[i][2] \in Nat
      /\ \A i \in 1 .. Len(buffer) : buffer[i][1] \in Calls /\ buffer[i][2] \in Nat
      /\ c \in Nat /\ Len(buffer) \in Nat
  BY <1>1, Elements DEF IInv
<1>9. TypeOK'
  <2>1. long' \subseteq Calls
    BY <1>1, <1>2 DEF IInv, TypeOK
  <2> QED
    BY <1>5, <2>1 DEF IInv, TypeOK, Byte, Req, clientVars
<1>10. InCall' /\ AnswersInOrder' /\ SuccessHasAnswer'
  BY DEF IInv, InCall, AnswersInOrder, SuccessHasAnswer, Finished, clientVars
<1> HIDE DEF c, R, N
<1>11. StreamOrder'
  <2>1. ASSUME NEW i \in 1 .. Len(s2c'), NEW j \in 1 .. Len(s2c'), i < j
        PROVE  Before(s2c'[i], s2c'[j])
    <3>1. CASE j \in 1 .. Len(s2c) /\ s2c'[j] = s2c[j]
      <4>1. i \in 1 .. Len(s2c)
        BY <1>5, <2>1, <3>1
      <4> QED
        BY <1>5, <2>1, <3>1, <4>1 DEF IInv, StreamOrder
    <3>2. CASE /\ i \in 1 .. Len(s2c) /\ s2c'[i] = s2c[i]
               /\ s2c'[j][1] = c
      BY <1>7, <3>2 DEF Before
    <3>3. CASE /\ s2c'[i][1] = c /\ s2c'[i][2] = i - Len(s2c)
               /\ s2c'[j][1] = c /\ s2c'[j][2] = j - Len(s2c)
      BY <1>5, <2>1, <3>3 DEF Before
    <3> QED
      BY <1>6, <3>1, <3>2, <3>3
  <2>2. ASSUME NEW i \in 1 .. Len(buffer), NEW j \in 1 .. Len(s2c')
        PROVE  Before(buffer[i], s2c'[j])
    <3>1. CASE j \in 1 .. Len(s2c) /\ s2c'[j] = s2c[j]
      BY <3>1 DEF IInv, StreamOrder
    <3>2. CASE s2c'[j][1] = c
      BY <1>7, <3>2 DEF Before
    <3> QED
      BY <1>6, <3>1, <3>2
  <2>3. buffer' = buffer
    BY DEF clientVars
  <2>4. \A i, j \in 1 .. Len(buffer) : i < j => Before(buffer[i], buffer[j])
    BY DEF IInv, StreamOrder
  <2> QED
    BY <2>1, <2>2, <2>3, <2>4 DEF StreamOrder
<1>12. RequestOrder'
  <2>1. ASSUME NEW m \in 1 .. Len(c2s'), NEW n \in 1 .. Len(c2s'), m < n
        PROVE  c2s'[m].call < c2s'[n].call
    <3>1. m + 1 \in 1 .. Len(c2s) /\ n + 1 \in 1 .. Len(c2s) /\ m + 1 < n + 1
      BY <1>1, <2>1
    <3> QED
      BY <3>1 DEF IInv, RequestOrder
  <2>2. \A i \in 1 .. Len(buffer), n \in 1 .. Len(c2s') : buffer[i][1] < c2s'[n].call
    BY <1>7 DEF IInv, RequestOrder
  <2>3. ASSUME NEW i \in 1 .. Len(s2c'), NEW n \in 1 .. Len(c2s')
        PROVE  s2c'[i][1] < c2s'[n].call
    <3>1. CASE i \in 1 .. Len(s2c) /\ s2c'[i] = s2c[i]
      BY <1>7, <3>1 DEF IInv, RequestOrder
    <3>2. CASE s2c'[i][1] = c
      BY <1>7, <3>2
    <3> QED
      BY <1>6, <3>1, <3>2
  <2>4. buffer' = buffer
    BY DEF clientVars
  <2> QED
    BY <2>1, <2>2, <2>3, <2>4 DEF RequestOrder
<1>13. NotAhead'
  <2>1. c <= Latest /\ Latest' = Latest
    BY <1>1 DEF IInv, NotAhead, Latest, clientVars
  <2>2. ASSUME NEW i \in 1 .. Len(s2c') PROVE s2c'[i][1] <= Latest
    <3>1. CASE i \in 1 .. Len(s2c) /\ s2c'[i] = s2c[i]
      BY <3>1 DEF IInv, NotAhead
    <3>2. CASE s2c'[i][1] = c
      BY <2>1, <3>2
    <3> QED
      BY <1>6, <3>1, <3>2
  <2>3. \A n \in 1 .. Len(c2s') : c2s'[n].call <= Latest
    BY <1>7 DEF IInv, NotAhead
  <2>4. \A i \in 1 .. Len(buffer) : buffer[i][1] <= Latest
    BY DEF IInv, NotAhead
  <2>5. buffer' = buffer
    BY DEF clientVars
  <2> QED
    BY <2>1, <2>2, <2>3, <2>4, <2>5 DEF NotAhead
<1>14. Sized'
  <2> DEFINE SizeOf(d) == IF d \in long' THEN LongSize ELSE BodySize
  <2>1. \A d \in Calls : d < c => SizeOf(d) = BodySizeOf(d)
    BY <1>2, <1>8 DEF BodySizeOf
  <2>2. size <= SizeOf(c) /\ SizeOf(c) \in Nat
    <3>1. size = LongSize => c \in long'
      BY <1>2
    <3>2. BodySize <= LongSize
      OBVIOUS
    <3> QED
      BY <1>2, <1>3, <3>1, <3>2
  <2> HIDE DEF SizeOf
  <2>3. \A i \in 1 .. Len(buffer) : buffer[i][2] <= LenSize + SizeOf(buffer[i][1])
    BY <1>7, <1>8, <2>1 DEF IInv, Sized
  <2>4. ASSUME NEW i \in 1 .. Len(s2c')
        PROVE  s2c'[i][2] <= LenSize + SizeOf(s2c'[i][1])
    <3>1. CASE i \in 1 .. Len(s2c) /\ s2c'[i] = s2c[i]
      BY <1>7, <1>8, <2>1, <3>1 DEF IInv, Sized
    <3>2. CASE /\ s2c'[i][1] = c /\ s2c'[i][2] = i - Len(s2c)
               /\ \E k \in 1 .. N : i = Len(s2c) + k
      <4>1. i - Len(s2c) <= LenSize + size
        BY <1>3, <1>5, <3>2 DEF N
      <4> QED
        BY <1>3, <1>5, <2>2, <3>2, <4>1
    <3> QED
      BY <1>6, <3>1, <3>2
  <2>5. buffer' = buffer
    BY DEF clientVars
  <2>6. /\ \A i \in 1 .. Len(buffer') : buffer'[i][2] <= LenSize + SizeOf(buffer'[i][1])
        /\ \A i \in 1 .. Len(s2c') : s2c'[i][2] <= LenSize + SizeOf(s2c'[i][1])
    BY <2>3, <2>4, <2>5
  <2> QED
    BY <2>6 DEF Sized, BodySizeOf, SizeOf
<1>15. UsedUp'
  <2>0. UNCHANGED <<buffer, outcomes, thrown, result, pc>>
    BY DEF clientVars
  <2>1. ASSUME NEW r \in 0 .. MaxCalls, Past(r) PROVE Past(r)'
    <3>1. r < c
      BY <1>1, <2>1 DEF Past
    <3>2. ASSUME NEW i \in 1 .. Len(s2c') PROVE r < s2c'[i][1]
      <4>1. CASE i \in 1 .. Len(s2c) /\ s2c'[i] = s2c[i]
        BY <2>1, <4>1 DEF Past
      <4>2. CASE s2c'[i][1] = c
        BY <3>1, <4>2
      <4> QED
        BY <1>6, <4>1, <4>2
    <3>3. \A n \in 1 .. Len(c2s') : r < c2s'[n].call
      BY <1>7, <2>1 DEF Past
    <3> QED
      BY <2>0, <2>1, <3>2, <3>3 DEF Past
  <2>2. result \in 0 .. MaxCalls
    BY DEF IInv, TypeOK
  <2> QED
    BY <2>0, <2>1, <2>2, Elements DEF IInv, UsedUp
<1> QED
  BY <1>9, <1>10, <1>11, <1>12, <1>13, <1>14, <1>15 DEF IInv

\* Cutting the first of the requests that are left keeps their calls.
LEMMA Shortened ==
    ASSUME c2s \in Seq(Req), Len(c2s) > 1, c2s # <<>>,
           c2s' = [Tail(c2s) EXCEPT ![1].whole = FALSE]
    PROVE  /\ c2s' \in Seq(Req) /\ Len(c2s') = Len(c2s) - 1
           /\ \A n \in 1 .. Len(c2s') : c2s'[n].call = c2s[n + 1].call
<1> DEFINE t == Tail(c2s)
<1>1. /\ t \in Seq(Req) /\ Len(t) = Len(c2s) - 1 /\ Len(c2s) \in Nat
      /\ \A n \in 1 .. Len(c2s) - 1 : t[n] = c2s[n + 1]
  BY TailSeq
<1>2. Len(t) \in Nat /\ 1 \in 1 .. Len(t)
  BY <1>1
<1>3. t[1] \in Req /\ [t[1] EXCEPT !.whole = FALSE] \in Req
      /\ [t[1] EXCEPT !.whole = FALSE].call = t[1].call
  <2>1. t[1] \in Req
    BY <1>1, <1>2
  <2> QED
    BY <2>1 DEF Req
<1>4. c2s' = [t EXCEPT ![1] = [t[1] EXCEPT !.whole = FALSE]]
  OBVIOUS
<1> HIDE DEF t
<1>5. c2s' \in Seq(Req) /\ Len(c2s') = Len(t)
  <2> DEFINE r == [t[1] EXCEPT !.whole = FALSE]
  <2>1. t \in Seq(Req) /\ r \in Req /\ 1 \in 1 .. Len(t) /\ c2s' = [t EXCEPT ![1] = r]
    BY <1>1, <1>2, <1>3, <1>4
  <2> HIDE DEF r
  <2>2. [t EXCEPT ![1] = r] \in Seq(Req) /\ Len([t EXCEPT ![1] = r]) = Len(t)
    BY <2>1, ExceptSeq
  <2> QED
    BY <2>1, <2>2
<1>6. \A n \in 1 .. Len(t) : c2s'[n].call = t[n].call
  <2> DEFINE r == [t[1] EXCEPT !.whole = FALSE]
  <2>1. r.call = t[1].call /\ c2s' = [t EXCEPT ![1] = r] /\ DOMAIN t = 1 .. Len(t)
    <3>1. r.call = t[1].call
      BY <1>3
    <3>2. c2s' = [t EXCEPT ![1] = r]
      BY <1>4
    <3>3. t \in Seq(Req)
      BY <1>1
    <3>4. DOMAIN t = 1 .. Len(t)
      BY <3>3
    <3> QED
      BY <3>1, <3>2, <3>4
  <2> HIDE DEF r
  <2>2. ASSUME NEW n \in 1 .. Len(t) PROVE c2s'[n] = IF n = 1 THEN r ELSE t[n]
    BY <2>1, <2>2
  <2>3. ASSUME NEW n \in 1 .. Len(t) PROVE c2s'[n].call = t[n].call
    <3>1. CASE n = 1
      BY <2>1, <2>2, <3>1
    <3>2. CASE n # 1
      BY <2>2, <3>2
    <3> QED
      BY <3>1, <3>2
  <2> QED
    BY <2>3
<1> QED
  BY <1>1, <1>5, <1>6

\* The server answers in the order of the requests, cut short or not, or closes.
LEMMA ServeStep == ASSUME IInv, Serve \/ ServeGarbled PROVE IInv'
<1>1. c2s \in Seq(Req) /\ Len(c2s) \in Nat
  BY DEF IInv, TypeOK, Req
<1>2. CASE Serve
  <2>1. /\ c2s # <<>> /\ c2s' = Tail(c2s) /\ Respond(Head(c2s).call)
        /\ UNCHANGED <<ndebug, clientVars, link>>
    BY <1>2 DEF Serve
  <2> QED
    BY <1>1, <2>1, TailSeq, Responded
<1>3. CASE ServeGarbled /\ link' = "down"
  <2>1. c2s' = <<>> /\ UNCHANGED <<ndebug, clientVars, s2c, long>>
    BY <1>3 DEF ServeGarbled
  <2>2. TypeOK'
    BY <1>3, <2>1, EmptySeq DEF IInv, TypeOK, clientVars
  <2>3. InCall' /\ AnswersInOrder' /\ SuccessHasAnswer' /\ Latest' = Latest
    BY <2>1 DEF IInv, InCall, AnswersInOrder, SuccessHasAnswer, Finished, clientVars, Latest
  <2>4. StreamOrder' /\ RequestOrder' /\ NotAhead' /\ Sized' /\ UsedUp'
    BY <2>1, <2>3, EmptySeq DEF IInv, StreamOrder, RequestOrder, NotAhead, Sized, UsedUp,
         Past, BodySizeOf, clientVars
  <2> QED
    BY <2>2, <2>3, <2>4 DEF IInv
<1>4. CASE ServeGarbled /\ link' = link
  <2>1. /\ Len(c2s) > 1 /\ link = "up"
        /\ c2s' = [Tail(c2s) EXCEPT ![1].whole = FALSE] /\ Respond(Head(c2s).call)
        /\ UNCHANGED <<ndebug, clientVars, link>>
    BY <1>4 DEF ServeGarbled
  <2>2. c2s # <<>>
    BY <2>1, EmptySeq
  <2>3. /\ c2s' \in Seq(Req) /\ Len(c2s') = Len(c2s) - 1
        /\ \A n \in 1 .. Len(c2s') : c2s'[n].call = c2s[n + 1].call
    BY <1>1, <2>1, <2>2, Shortened
  <2> QED
    BY <1>1, <2>1, <2>2, <2>3, Responded
<1> QED
  BY <1>2, <1>3, <1>4 DEF ServeGarbled

\* The inductive invariant.
THEOREM Invariance == Spec => []IInv
<1>1. IInv /\ [Next]_vars => IInv'
  <2> SUFFICES ASSUME IInv, [Next]_vars PROVE IInv'
    OBVIOUS
  <2>1. CASE UNCHANGED vars
    <3>1. TypeOK' /\ InCall' /\ AnswersInOrder' /\ SuccessHasAnswer'
      BY <2>1 DEF IInv, TypeOK, InCall, AnswersInOrder, SuccessHasAnswer, Finished, vars,
         clientVars
    <3>2. StreamOrder' /\ RequestOrder' /\ NotAhead' /\ Sized' /\ UsedUp'
      BY <2>1 DEF IInv, StreamOrder, RequestOrder, NotAhead, Latest, Sized, UsedUp, Past,
         BodySizeOf, vars, clientVars
    <3> QED
      BY <3>1, <3>2 DEF IInv
  <2>2. CASE \E ok \in BOOLEAN : SendRequest(ok)
    BY <2>2, SendRequestStep
  <2>3. CASE \E eof \in BOOLEAN : ReadFails(eof)
    BY <2>3, ReadFailsStep
  <2> QED
    BY <2>1, <2>2, <2>3, CallMethodStep, ConnectThrowsStep, TransferStep, ReadLenDoneStep, ReadBodyDoneStep,
       DoneStep, ServeStep, PeerClosesStep DEF Next, Returns
<1> QED
  BY <1>1, InitIInv, PTL DEF Spec

\* CallMethod and the state of its connection keep their types, for any number
\* of calls and any sizes.
THEOREM TypeCorrect == Spec => []TypeOK
<1>1. IInv => TypeOK
  BY DEF IInv
<1> QED
  BY <1>1, Invariance, PTL

\* No response is delivered twice, out of order, or before its call.
THEOREM InOrder == Spec => []AnswersInOrder
<1>1. IInv => AnswersInOrder
  BY DEF IInv
<1> QED
  BY <1>1, Invariance, PTL

\* A call that did not fail parsed a response.
THEOREM Answered == Spec => []SuccessHasAnswer
<1>1. IInv => SuccessHasAnswer
  BY DEF IInv
<1> QED
  BY <1>1, Invariance, PTL
-----------------------------------------------------------------------------
\* Every call so far was answered in time, with responses that fit the buffer.
Clean == \A c \in timeouts \cup long : call <= c

Empty == Len(buffer) = 0 /\ Len(s2c) = 0 /\ Len(c2s) = 0

OnlyOwn ==
    /\ \A i \in 1 .. Len(buffer) : buffer[i][1] = call
    /\ \A i \in 1 .. Len(s2c) : s2c[i][1] = call
    /\ \A n \in 1 .. Len(c2s) : c2s[n].call = call

\* The first byte that was not parsed yet is number d + 1 of its response.
At(d) ==
    /\ \A i \in 1 .. Len(buffer) : buffer[i][2] = d + i
    /\ \A i \in 1 .. Len(s2c) : s2c[i][2] = d + Len(buffer) + i

\* As long as no call gave up, the connection holds the call's own bytes only, aligned
\* with its reads, and nothing between two calls.
Aligned ==
    /\ OnlyOwn
    /\ pc = "send" => Empty
    /\ pc = "readLen" => need = LenSize /\ At(0)
    /\ pc = "readBody" => need = Fitting(BodySizeOf(call)) /\ At(LenSize) /\ Len(c2s) = 0
    /\ pc = "done" /\ result # 0 => result = call

Own ==
    /\ link # "up" => Len(c2s) = 0
    /\ \A c \in timeouts \cup long : c <= call
    /\ pc \in {"idle", "done"} /\ timeouts \cup long = {} => Empty
    /\ Clean => Aligned
    /\ OwnAnswerUntilTimeout

\* A step without a call of its own that only adds to timeouts and long keeps what is
\* known of the outcomes.
LEMMA OutcomesKept ==
    ASSUME OwnAnswerUntilTimeout, outcomes' = outcomes, timeouts \subseteq timeouts',
           long \subseteq long'
    PROVE  OwnAnswerUntilTimeout'
  BY DEF OwnAnswerUntilTimeout

\* Initially nothing is on the connection.
LEMMA InitOwn == Init => Own
  BY EmptySeq DEF Init, Own, OwnAnswerUntilTimeout, Empty, Aligned, OnlyOwn, At

\* A new call starts with an empty connection, unless a call gave up before.
LEMMA CallMethodOwn == ASSUME IInv, IInv', Own, CallMethod PROVE Own'
<1>1. /\ pc = "idle" /\ call' = call + 1 /\ call \in Nat /\ result' = 0
      /\ pc' \in {"send", "done"}
      /\ UNCHANGED <<ndebug, long, need, buffer, outcomes, thrown, timeouts>>
      /\ timeouts \subseteq Calls /\ long \subseteq Calls
  BY DEF CallMethod, IInv, TypeOK
<1>2. UNCHANGED <<c2s, s2c, link>> \/ (Len(c2s') = 0 /\ Len(s2c') = 0)
  BY EmptySeq DEF CallMethod, Connect
<1>3. (link # "up" => Len(c2s) = 0)' /\ (\A c \in timeouts \cup long : c <= call)'
  <2>1. \A c \in timeouts \cup long : c \in Nat /\ c <= call
    BY <1>1 DEF Own
  <2> QED
    BY <1>1, <1>2, <2>1 DEF Own
<1>4. timeouts \cup long = {} => Empty'
  BY <1>1, <1>2 DEF Own, Empty
<1>5. Clean' => timeouts \cup long = {}
  <2>1. \A c \in timeouts \cup long : c \in Nat /\ c <= call
    BY <1>1 DEF Own
  <2> QED
    BY <1>1, <2>1 DEF Clean
<1>6. Empty' => Aligned'
  BY <1>1 DEF Empty, Aligned, OnlyOwn
<1>7. OwnAnswerUntilTimeout'
  BY <1>1, OutcomesKept DEF Own
<1>8. (pc \in {"idle", "done"} /\ timeouts \cup long = {} => Empty)'
  BY <1>1, <1>4
<1> QED
  BY <1>3, <1>4, <1>5, <1>6, <1>7, <1>8 DEF Own

\* A call that Connect throws out of leaves the connection as it is.
LEMMA ConnectThrowsOwn == ASSUME IInv, IInv', Own, ConnectThrows PROVE Own'
<1> DEFINE o == [failed |-> FALSE, result |-> 0]
<1>1. /\ pc = "idle" /\ call' = call + 1 /\ outcomes' = Append(outcomes, o)
      /\ UNCHANGED <<pc, need, buffer, link, c2s, s2c, long, timeouts>>
  BY DEF ConnectThrows
<1>2. /\ o \in Outcome /\ outcomes \in Seq(Outcome) /\ Len(outcomes) = call /\ call \in Nat
      /\ timeouts \subseteq Calls /\ long \subseteq Calls
  BY <1>1 DEF IInv, TypeOK, Outcome
<1>3. /\ Len(outcomes') = call + 1
      /\ \A j \in 1 .. call : outcomes'[j] = outcomes[j]
      /\ outcomes'[call + 1].result = 0
  BY <1>1, <1>2, AppendSeq
<1>4. OwnAnswerUntilTimeout'
  <2>1. ASSUME NEW j \in 1 .. call + 1, outcomes'[j].result # 0,
               \A c \in timeouts \cup long : c >= j
        PROVE  outcomes'[j].result = j
    <3>1. j \in 1 .. call
      BY <1>2, <1>3, <2>1
    <3> QED
      BY <1>2, <1>3, <2>1, <3>1 DEF Own, OwnAnswerUntilTimeout
  <2>2. DOMAIN outcomes' = 1 .. call + 1
    BY <1>1, <1>2, <1>3, AppendSeq
  <2> QED
    BY <1>1, <2>1, <2>2 DEF OwnAnswerUntilTimeout
<1>5. \A c \in timeouts \cup long : c \in Nat /\ c <= call
  BY <1>2 DEF Own
<1>6. Clean' => Aligned'
  <2>1. Clean' => timeouts \cup long = {}
    BY <1>1, <1>2, <1>5 DEF Clean
  <2>2. timeouts \cup long = {} => Empty
    BY <1>1 DEF Own
  <2> QED
    BY <1>1, <2>1, <2>2 DEF Empty, Aligned, OnlyOwn
<1>7. (\A c \in timeouts \cup long : c <= call)'
  BY <1>1, <1>2, <1>5
<1> QED
  BY <1>1, <1>4, <1>6, <1>7 DEF Own, Empty

\* The request is the first thing on the connection.
LEMMA SendRequestOwn ==
    ASSUME IInv, IInv', Own, NEW ok \in BOOLEAN, SendRequest(ok) PROVE Own'
<1>1. /\ pc = "send" /\ pc' \in {"readLen", "aborted"} /\ need' = LenSize
      /\ timeouts' \in {timeouts, timeouts \cup {call}}
      /\ c2s' \in {c2s, Append(c2s, Request(TRUE)), Append(c2s, Request(FALSE))}
      /\ link # "up" => c2s' = c2s
      /\ UNCHANGED <<long, call, buffer, outcomes, thrown, link, s2c>>
  BY DEF SendRequest, SyncWrite
<1>2. call \in Nat /\ timeouts \subseteq Calls /\ long \subseteq Calls /\ c2s \in Seq(Req)
  BY DEF IInv, TypeOK, Req
<1>3. (link # "up" => Len(c2s) = 0)' /\ (\A c \in timeouts \cup long : c <= call)'
  BY <1>1, <1>2 DEF Own
<1>4. Clean' => Clean /\ Empty
  BY <1>1 DEF Own, Clean, Aligned
<1>5. Empty => \A n \in 1 .. Len(c2s') : c2s'[n].call = call
  <2>1. call \in Calls
    BY <1>1, <1>2 DEF IInv, InCall, TypeOK
  <2>2. \A w \in BOOLEAN : Request(w) \in Req /\ Request(w).call = call
    BY <2>1 DEF Request, Req
  <2>3. CASE c2s' = c2s
    BY <2>3 DEF Empty
  <2>4. ASSUME NEW w \in BOOLEAN, c2s' = Append(c2s, Request(w)), Empty
        PROVE  \A n \in 1 .. Len(c2s') : c2s'[n].call = call
    <3>1. Len(c2s) = 0 /\ Len(c2s') = 1 /\ c2s'[1] = Request(w)
      BY <1>2, <2>2, <2>4, AppendSeq DEF Empty
    <3> QED
      BY <2>2, <3>1
  <2> QED
    BY <1>1, <2>3, <2>4
<1>6. Clean' => Aligned'
  <2>1. Empty => (\A n \in 1 .. Len(c2s) : c2s[n].call = call)'
    BY <1>1, <1>5
  <2> QED
    BY <1>1, <1>4, <2>1 DEF Empty, Aligned, OnlyOwn, At
<1>7. OwnAnswerUntilTimeout'
  BY <1>1, OutcomesKept DEF Own
<1> QED
  BY <1>1, <1>3, <1>6, <1>7 DEF Own

\* A byte keeps its place behind those of the buffer.
LEMMA TransferOwn == ASSUME IInv, IInv', Own, Transfer PROVE Own'
<1>1. /\ pc \in {"readLen", "readBody"} /\ s2c # <<>>
      /\ buffer' = Append(buffer, Head(s2c)) /\ s2c' = Tail(s2c)
      /\ UNCHANGED <<long, pc, call, need, result, outcomes, thrown, timeouts, link, c2s>>
  BY DEF Transfer, Reading
<1>2. buffer \in Seq(Byte) /\ s2c \in Seq(Byte) /\ Len(buffer) \in Nat /\ Len(s2c) \in Nat
  BY DEF IInv, TypeOK, Byte
<1>3. 1 \in 1 .. Len(s2c) /\ Head(s2c) = s2c[1] /\ Head(s2c) \in Byte /\ Len(s2c') = Len(s2c) - 1
  BY <1>1, <1>2, TailSeq
<1>4. \A i \in 1 .. Len(s2c') : i + 1 \in 1 .. Len(s2c) /\ s2c'[i] = s2c[i + 1]
  <2>1. \A i \in 1 .. Len(s2c) - 1 : s2c'[i] = s2c[i + 1]
    BY <1>1, <1>2, TailSeq
  <2> QED
    BY <1>2, <1>3, <2>1
<1>5. /\ Len(buffer') = Len(buffer) + 1
      /\ \A i \in 1 .. Len(buffer) : buffer'[i] = buffer[i]
      /\ buffer'[Len(buffer) + 1] = s2c[1]
  BY <1>1, <1>2, <1>3, AppendSeq
<1>6. ASSUME NEW i \in 1 .. Len(buffer')
      PROVE  \/ i \in 1 .. Len(buffer) /\ buffer'[i] = buffer[i]
             \/ i = Len(buffer) + 1 /\ buffer'[i] = s2c[1]
  <2>1. i \in 1 .. Len(buffer) \/ i = Len(buffer) + 1
    BY <1>2, <1>5
  <2>2. CASE i \in 1 .. Len(buffer)
    BY <1>5, <2>2
  <2>3. CASE i = Len(buffer) + 1
    BY <1>5, <2>3
  <2> QED
    BY <2>1, <2>2, <2>3
<1>7. OnlyOwn => OnlyOwn'
  BY <1>1, <1>3, <1>4, <1>6 DEF OnlyOwn
<1>8. ASSUME NEW d \in Nat, At(d) PROVE At(d)'
  <2>1. ASSUME NEW i \in 1 .. Len(buffer') PROVE buffer'[i][2] = d + i
    <3>1. CASE i \in 1 .. Len(buffer) /\ buffer'[i] = buffer[i]
      BY <1>8, <3>1 DEF At
    <3>2. CASE i = Len(buffer) + 1 /\ buffer'[i] = s2c[1]
      <4>1. s2c[1][2] = d + Len(buffer) + 1
        BY <1>3, <1>8 DEF At
      <4> QED
        BY <1>2, <3>2, <4>1
    <3> QED
      BY <1>6, <3>1, <3>2
  <2>2. ASSUME NEW i \in 1 .. Len(s2c') PROVE s2c'[i][2] = d + Len(buffer') + i
    <3>1. s2c[i + 1][2] = d + Len(buffer) + (i + 1)
      BY <1>4, <1>8 DEF At
    <3> QED
      BY <1>2, <1>3, <1>4, <1>5, <3>1
  <2> QED
    BY <2>1, <2>2 DEF At
<1>9. Clean' => Aligned'
  <2>1. Clean' => Aligned
    BY <1>1 DEF Own, Clean
  <2>2. Aligned => Aligned'
    BY <1>1, <1>7, <1>8 DEF Aligned, BodySizeOf
  <2> QED
    BY <2>1, <2>2
<1>10. OwnAnswerUntilTimeout'
  BY <1>1, OutcomesKept DEF Own
<1> QED
  BY <1>1, <1>9, <1>10 DEF Own

\* A read that gives up makes its call one that gave up; one that met the end leaves an
\* empty connection.
LEMMA ReadFailsOwn == ASSUME IInv, IInv', Own, NEW eof \in BOOLEAN, ReadFails(eof) PROVE Own'
<1>1. /\ pc \in {"readLen", "readBody"} /\ pc' = "done" /\ Len(buffer') = 0 /\ result = 0
      /\ eof => link = "down" /\ Len(s2c) = 0
      /\ timeouts' = IF eof THEN timeouts ELSE timeouts \cup {call}
      /\ UNCHANGED <<long, call, result, outcomes, thrown, link, c2s, s2c>>
  BY EmptySeq DEF ReadFails, Reading, IInv, InCall
<1>2. call \in Nat
  BY DEF IInv, TypeOK
<1>3. (link # "up" => Len(c2s) = 0)' /\ (\A c \in timeouts \cup long : c <= call)'
  BY <1>1, <1>2 DEF Own
<1>4. (timeouts \cup long = {} => Empty)'
  BY <1>1 DEF Own, Empty
<1>5. Clean' => Aligned'
  <2>1. Clean' => OnlyOwn
    BY <1>1 DEF Own, Clean, Aligned
  <2> QED
    BY <1>1, <2>1 DEF Aligned, OnlyOwn
<1>6. OwnAnswerUntilTimeout'
  BY <1>1, OutcomesKept DEF Own
<1> QED
  BY <1>1, <1>3, <1>4, <1>5, <1>6 DEF Own

\* What is left of the call's bytes when the first b of them are taken.
LEMMA DroppedOwn ==
    ASSUME IInv, OnlyOwn, need <= Len(buffer), buffer' = Rest, UNCHANGED <<s2c, c2s, call>>
    PROVE  OnlyOwn' /\ \A d, e \in Nat : At(d) /\ e = d + need => At(e)'
<1>1. /\ need \in Nat /\ Len(buffer) \in Nat /\ Len(buffer') = Len(buffer) - need
      /\ \A i \in 1 .. Len(buffer') : need + i \in 1 .. Len(buffer) /\ buffer'[i] = buffer[need + i]
  BY TakenRest, Elements DEF IInv, TypeOK
<1>2. OnlyOwn'
  BY <1>1 DEF OnlyOwn
<1>3. ASSUME NEW d \in Nat, NEW e \in Nat, At(d), e = d + need PROVE At(e)'
  <2>1. ASSUME NEW i \in 1 .. Len(buffer') PROVE buffer'[i][2] = e + i
    <3>1. buffer[need + i][2] = d + (need + i) /\ buffer'[i] = buffer[need + i]
      BY <1>1, <1>3 DEF At
    <3>2. i \in Nat /\ d + (need + i) = e + i
      BY <1>1, <1>3
    <3> QED
      BY <3>1, <3>2
  <2>2. ASSUME NEW i \in 1 .. Len(s2c') PROVE s2c'[i][2] = e + Len(buffer') + i
    <3>1. s2c[i][2] = d + Len(buffer) + i
      BY <1>3 DEF At
    <3> QED
      BY <1>1, <1>3, <3>1
  <2> QED
    BY <1>1, <2>1, <2>2 DEF At
<1> QED
  BY <1>2, <1>3

\* An aligned read of the length finds that of the call's own response.
LEMMA ReadLenDoneOwn == ASSUME IInv, IInv', Own, ReadLenDone PROVE Own'
<1>1. /\ pc = "readLen" /\ pc' = "readBody" /\ buffer' = Rest /\ need \in Nat
      /\ need <= Len(buffer) /\ call \in 1 .. call
      /\ UNCHANGED <<long, call, result, outcomes, thrown, timeouts, link, c2s, s2c>>
  BY Elements DEF ReadLenDone, IInv, TypeOK, InCall
<1>2. ASSUME Clean' PROVE Aligned'
  <2>1. OnlyOwn /\ need = LenSize /\ At(0)
    BY <1>1, <1>2 DEF Own, Clean, Aligned
  <2>2. Taken = LenOf(call)
    <3>1. Len(Taken) = LenSize /\ \A i \in 1 .. LenSize : Taken[i] = buffer[i]
      BY <1>1, <2>1, TakenRest
    <3>2. Taken = [i \in 1 .. LenSize |-> buffer[i]]
      BY <1>1, <2>1, <3>1 DEF Taken, IInv, TypeOK
    <3>3. \A i \in 1 .. LenSize : buffer[i] = <<call, i>>
      <4>1. \A i \in 1 .. LenSize : buffer[i] \in Calls \X Nat /\ i \in 1 .. Len(buffer)
        <5>1. buffer \in Seq(Calls \X Nat) /\ need = LenSize /\ need <= Len(buffer)
          BY <1>1, <2>1 DEF IInv, TypeOK
        <5> QED
          BY <5>1
      <4>2. \A i \in 1 .. LenSize : buffer[i][1] = call /\ buffer[i][2] = i
        BY <2>1, <4>1 DEF OnlyOwn, At
      <4> QED
        BY <4>1, <4>2
    <3> QED
      BY <3>2, <3>3 DEF LenOf
  <2>3. \A c \in 1 .. call : Taken = LenOf(c) => c = call
    <3>1. \A c \in 1 .. call : LenOf(c)[1] = <<c, 1>>
      BY DEF LenOf
    <3>2. \A c \in 1 .. call : Taken = LenOf(c) => <<c, 1>> = <<call, 1>>
      BY <1>1, <2>2, <3>1
    <3> QED
      BY <3>2
  <2>4. need' = Fitting(BodySizeOf(call))
    BY <1>1, <2>2, <2>3 DEF ReadLenDone
  <2>5. OnlyOwn' /\ At(LenSize)'
    <3>1. LenSize \in Nat /\ 0 \in Nat /\ LenSize = 0 + need
      BY <2>1
    <3> QED
      BY <1>1, <2>1, <3>1, DroppedOwn
  <2>6. Len(c2s) = 0
    <3>0. TypeOK
      BY DEF IInv
    <3>1. 1 \in 1 .. Len(buffer) /\ Len(c2s) \in Nat
      BY <1>1, <2>1, <3>0, Elements
    <3>2. ASSUME Len(c2s) # 0 PROVE FALSE
      <4>1. 1 \in 1 .. Len(c2s)
        BY <3>1, <3>2
      <4>2. buffer[1][1] < c2s[1].call /\ buffer[1][1] = call /\ c2s[1].call = call /\ call \in Nat
        BY <2>1, <3>1, <4>1 DEF IInv, TypeOK, RequestOrder, OnlyOwn
      <4> QED
        BY <4>2
    <3> QED
      BY <3>2
  <2> QED
    BY <1>1, <2>4, <2>5, <2>6 DEF Aligned, BodySizeOf
<1>3. OwnAnswerUntilTimeout'
  BY <1>1, OutcomesKept DEF Own
<1> QED
  BY <1>1, <1>2, <1>3 DEF Own

\* An aligned read of the body finds the call's own response, or a part of it when it
\* is too long.
LEMMA ReadBodyDoneOwn == ASSUME IInv, IInv', Own, ReadBodyDone PROVE Own'
<1>1. /\ pc = "readBody" /\ pc' = "done" /\ buffer' = Rest /\ need \in Nat /\ result = 0
      /\ need <= Len(buffer) /\ call \in 1 .. call /\ call \in Nat
      /\ UNCHANGED <<long, call, outcomes, thrown, timeouts, link, c2s, s2c>>
  BY Elements DEF ReadBodyDone, IInv, TypeOK, InCall
<1>2. ASSUME Clean'
      PROVE  OnlyOwn /\ need = Fitting(BodySizeOf(call)) /\ At(LenSize) /\ Len(c2s) = 0
  BY <1>1, <1>2 DEF Own, Clean, Aligned
<1>3. ASSUME Clean', NEW c \in 1 .. call, Taken = BodyOf(c) PROVE c = call
  <2>1. /\ Len(BodyOf(c)) = BodySizeOf(c) /\ BodySizeOf(c) \in Nat \ {0}
        /\ BodyOf(c)[1] = <<c, LenSize + 1>>
    BY DEF BodyOf, BodySizeOf
  <2>2. 1 \in 1 .. need /\ Taken[1] = buffer[1] /\ 1 \in 1 .. Len(buffer)
    BY <1>1, <1>3, <2>1, TakenRest, Elements DEF IInv
  <2> QED
    BY <1>2, <1>3, <2>1, <2>2 DEF OnlyOwn
<1>4. Clean' => Aligned'
  <2>1. ASSUME Clean' PROVE OnlyOwn' /\ (result' # 0 => result' = call)
    BY <1>1, <1>2, <1>3, <2>1, DroppedOwn DEF ReadBodyDone
  <2> QED
    BY <1>1, <2>1 DEF Aligned
<1>5. ASSUME timeouts \cup long = {} PROVE Empty'
  <2>1. Clean'
    BY <1>1, <1>5 DEF Clean
  <2>2. BodySizeOf(call) = BodySize /\ need = BodySize
    BY <1>2, <1>5, <2>1 DEF Fitting, BodySizeOf
  <2>3. Taken = BodyOf(call)
    <3>1. Taken = [i \in 1 .. BodySize |-> buffer[i]]
      BY <1>1, <2>2, TakenRest DEF Taken, IInv, TypeOK
    <3>2. \A i \in 1 .. BodySize : buffer[i] = <<call, LenSize + i>>
      <4>1. \A i \in 1 .. BodySize : buffer[i] \in Calls \X Nat /\ i \in 1 .. Len(buffer)
        <5>1. buffer \in Seq(Calls \X Nat) /\ Len(buffer) \in Nat
          BY Elements DEF IInv, TypeOK
        <5>2. \A i \in 1 .. Len(buffer) : buffer[i] \in Calls \X Nat
          BY <5>1
        <5>3. \A i \in 1 .. BodySize : i \in 1 .. Len(buffer)
          BY <1>1, <2>2, <5>1
        <5> QED
          BY <5>2, <5>3
      <4>2. \A i \in 1 .. BodySize : buffer[i][1] = call /\ buffer[i][2] = LenSize + i
        BY <1>2, <2>1, <4>1 DEF OnlyOwn, At
      <4> QED
        BY <4>1, <4>2
    <3> QED
      BY <2>2, <3>1, <3>2 DEF BodyOf
  <2>4. Past(call)'
    BY <1>1, <2>3, BodyIsLast
  <2>5. OnlyOwn' /\ Len(buffer') \in Nat /\ Len(s2c') \in Nat
    BY <1>1, <1>2, <2>1, DroppedOwn, Elements, TakenRest DEF IInv
  <2>6. Len(buffer') = 0
    <3>1. 1 \in 1 .. Len(buffer') => FALSE
      BY <1>1, <2>4, <2>5 DEF Past, OnlyOwn
    <3> QED
      BY <2>5, <3>1
  <2>7. Len(s2c') = 0
    <3>1. 1 \in 1 .. Len(s2c') => FALSE
      BY <1>1, <2>4, <2>5 DEF Past, OnlyOwn
    <3> QED
      BY <2>5, <3>1
  <2> QED
    BY <1>1, <1>2, <2>1, <2>6, <2>7 DEF Empty
<1>6. OwnAnswerUntilTimeout'
  BY <1>1, OutcomesKept DEF Own
<1> QED
  BY <1>1, <1>4, <1>5, <1>6 DEF Own

\* What done reports of a call that did not give up, after none did, is its own answer.
LEMMA DoneOwn == ASSUME IInv, IInv', Own, Done PROVE Own'
<1> DEFINE o == [failed |-> failed, result |-> result]
<1>1. /\ pc = "done" /\ pc' = "idle" /\ outcomes' = Append(outcomes, o)
      /\ UNCHANGED <<long, call, need, result, buffer, thrown, timeouts, link, c2s, s2c>>
  BY DEF Done
<1>2. /\ o \in Outcome /\ outcomes \in Seq(Outcome) /\ Len(outcomes) = call - 1 /\ call \in Nat
  BY <1>1 DEF IInv, TypeOK, Outcome
<1>3. /\ Len(outcomes') = call /\ call >= 1
      /\ \A j \in 1 .. call - 1 : outcomes'[j] = outcomes[j]
      /\ outcomes'[call].result = result
  BY <1>1, <1>2, AppendSeq DEF IInv, InCall
<1>4. OwnAnswerUntilTimeout'
  <2>1. ASSUME NEW j \in 1 .. call, outcomes'[j].result # 0, \A c \in timeouts \cup long : c >= j
        PROVE  outcomes'[j].result = j
    <3>1. CASE j = call
      <4>1. Clean
        BY <2>1, <3>1 DEF Clean, IInv, TypeOK
      <4> QED
        BY <1>1, <1>3, <2>1, <3>1, <4>1 DEF Own, Aligned
    <3>2. CASE j \in 1 .. call - 1
      BY <1>2, <1>3, <2>1, <3>2 DEF Own, OwnAnswerUntilTimeout
    <3> QED
      BY <1>2, <3>1, <3>2
  <2>2. DOMAIN outcomes' = 1 .. call
    BY <1>1, <1>2, <1>3, AppendSeq
  <2> QED
    BY <1>1, <2>1, <2>2 DEF OwnAnswerUntilTimeout
<1>5. Clean' => Aligned'
  BY <1>1 DEF Own, Clean, Aligned, OnlyOwn
<1> QED
  BY <1>1, <1>4, <1>5 DEF Own, Empty

\* The server adds the response to the call's request to an empty stream.
LEMMA RespondedOwn ==
    ASSUME IInv, IInv', Own, link = "up", c2s # <<>>, Respond(Head(c2s).call),
           Len(c2s') = Len(c2s) - 1, \A n \in 1 .. Len(c2s') : c2s'[n].call = c2s[n + 1].call,
           UNCHANGED <<ndebug, clientVars, link>>
    PROVE  Own'
<1> DEFINE c == Head(c2s).call
<1>1. /\ c2s \in Seq(Req) /\ Len(c2s) \in Nat \ {0} /\ 1 \in 1 .. Len(c2s)
      /\ c = c2s[1].call /\ c \in Calls /\ c <= call /\ call \in Nat
  <2>1. c2s \in Seq(Req) /\ Len(c2s) \in Nat \ {0} /\ 1 \in 1 .. Len(c2s) /\ c = c2s[1].call
    <3>1. c2s \in Seq(Req) /\ Len(c2s) \in Nat
      BY Elements DEF IInv, TypeOK, Req
    <3>2. Len(c2s) >= 1 /\ Head(c2s) = c2s[1]
      BY <3>1, TailSeq
    <3> QED
      BY <3>1, <3>2
  <2>2. c \in Calls /\ call \in Nat
    <3>1. \A n \in 1 .. Len(c2s) : c2s[n].call \in Calls
      BY Elements DEF IInv
    <3>2. call \in Nat
      BY DEF IInv, TypeOK
    <3> QED
      BY <2>1, <3>1, <3>2
  <2>3. c <= Latest
    BY <2>1 DEF IInv, NotAhead
  <2> QED
    BY <2>1, <2>2, <2>3 DEF Latest
<1>2. PICK size \in {BodySize, LongSize} :
        /\ s2c' = s2c \o Response(c, size)
        /\ long' = IF size = LongSize THEN long \cup {c} ELSE long
  BY DEF Respond
<1>3. UNCHANGED <<pc, call, need, result, buffer, outcomes, thrown, timeouts, link>>
  BY DEF clientVars
<1>4. Len(c2s) # 0
  BY <1>1
<1>5. long \subseteq long' /\ (\A d \in timeouts \cup long' : d <= call)
  BY <1>1, <1>2 DEF Own
<1>6. OwnAnswerUntilTimeout'
  BY <1>3, <1>5, OutcomesKept DEF Own
<1>7. (pc \in {"idle", "done"} /\ timeouts \cup long = {} => Empty)'
  BY <1>3, <1>4, <1>5 DEF Own, Empty
<1>8. ASSUME Clean' PROVE Aligned'
  <2>1. OnlyOwn /\ Clean /\ Aligned
    BY <1>3, <1>5, <1>8 DEF Own, Clean, Aligned
  <2>2. c = call
    BY <1>1, <2>1 DEF OnlyOwn
  <2>3. Len(buffer) = 0 /\ Len(s2c) = 0
    <3>1. Len(buffer) \in Nat /\ Len(s2c) \in Nat
      BY Elements DEF IInv
    <3>2. 1 \in 1 .. Len(buffer) => buffer[1][1] < c2s[1].call /\ buffer[1][1] = call
      BY <1>1, <2>1 DEF IInv, RequestOrder, OnlyOwn
    <3>3. 1 \in 1 .. Len(s2c) => s2c[1][1] < c2s[1].call /\ s2c[1][1] = call
      BY <1>1, <2>1 DEF IInv, RequestOrder, OnlyOwn
    <3> QED
      BY <1>1, <2>2, <3>1, <3>2, <3>3
  <2>4. \A i \in 1 .. Len(s2c') : s2c'[i][1] = call /\ s2c'[i][2] = i
    <3>1. s2c = <<>>
      BY <2>3 DEF IInv, TypeOK
    <3>2. Response(c, size) \in Seq(Byte)
      <4>1. \A k \in 1 .. LenSize + size : <<c, k>> \in Byte
        BY <1>1, <1>2 DEF Byte
      <4>2. LenSize + size \in Nat
        BY <1>2
      <4> QED
        BY <4>1, <4>2 DEF Response
    <3>3. s2c' = Response(c, size)
      BY <1>2, <3>1, <3>2
    <3>4. \A i \in 1 .. Len(Response(c, size)) : Response(c, size)[i] = <<c, i>>
      <4>1. LenSize + size \in Nat
        BY <1>2
      <4> QED
        BY <4>1 DEF Response
    <3> QED
      BY <2>2, <3>3, <3>4
  <2>5. \A n \in 1 .. Len(c2s') : c2s'[n].call = call
    <3>1. \A n \in 1 .. Len(c2s') : n + 1 \in 1 .. Len(c2s)
      BY <1>1
    <3> QED
      BY <2>1, <3>1 DEF OnlyOwn
  <2>6. OnlyOwn'
    BY <1>3, <2>3, <2>4, <2>5 DEF OnlyOwn
  <2>7. At(0)'
    <3>1. \A i \in 1 .. Len(s2c') : i \in Nat /\ 0 + Len(buffer') + i = i
      BY <1>3, <2>3
    <3> QED
      BY <1>3, <2>3, <2>4, <3>1 DEF At
  <2>8. pc' # "send" /\ pc' # "readBody" /\ (pc' = "readLen" => need' = LenSize)
        /\ (pc' = "done" /\ result' # 0 => result' = call')
    BY <1>3, <1>4, <2>1 DEF Aligned, Empty
  <2> QED
    BY <2>6, <2>7, <2>8 DEF Aligned
<1> QED
  BY <1>3, <1>5, <1>6, <1>7, <1>8 DEF Own

\* A step of the connection that only loses what is on it.
LEMMA LostOwn ==
    ASSUME IInv, Own, Len(c2s') = 0, s2c' \in {s2c, <<>>},
           UNCHANGED <<ndebug, clientVars, long>>
    PROVE  Own'
<1>1. UNCHANGED <<pc, call, need, result, buffer, outcomes, thrown, timeouts, long>>
  BY DEF clientVars
<1>2. s2c' = s2c \/ Len(s2c') = 0
  BY EmptySeq
<1>3. Empty => Empty'
  BY <1>1, <1>2 DEF Empty
<1>4. Clean' => Aligned'
  <2>1. Clean' => Aligned
    BY <1>1 DEF Own, Clean
  <2>2. OnlyOwn => OnlyOwn'
    BY <1>1, <1>2 DEF OnlyOwn
  <2>3. \A d : At(d) => At(d)'
    BY <1>1, <1>2 DEF At
  <2> QED
    BY <1>1, <1>3, <2>1, <2>2, <2>3 DEF Aligned, BodySizeOf
<1>5. OwnAnswerUntilTimeout'
  BY <1>1, OutcomesKept DEF Own
<1> QED
  BY <1>1, <1>3, <1>4, <1>5 DEF Own

\* The server's steps.
LEMMA ServeOwn == ASSUME IInv, IInv', Own, Serve \/ ServeGarbled \/ PeerCloses PROVE Own'
<1>1. c2s \in Seq(Req) /\ Len(c2s) \in Nat
  BY DEF IInv, TypeOK, Req
<1>2. CASE Serve
  <2>1. /\ link = "up" /\ c2s # <<>> /\ c2s' = Tail(c2s) /\ Respond(Head(c2s).call)
        /\ UNCHANGED <<ndebug, clientVars, link>>
    BY <1>2 DEF Serve
  <2> QED
    BY <1>1, <2>1, TailSeq, RespondedOwn
<1>3. CASE ServeGarbled /\ link' = "down"
  <2>1. c2s' = <<>> /\ UNCHANGED <<ndebug, clientVars, s2c, long>>
    BY <1>3 DEF ServeGarbled
  <2> QED
    BY <2>1, EmptySeq, LostOwn
<1>4. CASE ServeGarbled /\ link' = link
  <2>1. /\ Len(c2s) > 1 /\ link = "up"
        /\ c2s' = [Tail(c2s) EXCEPT ![1].whole = FALSE] /\ Respond(Head(c2s).call)
        /\ UNCHANGED <<ndebug, clientVars, link>>
    BY <1>4 DEF ServeGarbled
  <2>2. c2s # <<>>
    BY <2>1, EmptySeq
  <2>3. Len(c2s') = Len(c2s) - 1 /\ \A n \in 1 .. Len(c2s') : c2s'[n].call = c2s[n + 1].call
    BY <1>1, <2>1, <2>2, Shortened
  <2> QED
    BY <2>1, <2>2, <2>3, RespondedOwn
<1>5. CASE PeerCloses
  <2>1. Len(c2s') = 0 /\ s2c' \in {s2c, <<>>} /\ UNCHANGED <<ndebug, clientVars, long>>
    BY <1>5, EmptySeq DEF PeerCloses
  <2> QED
    BY <2>1, LostOwn
<1> QED
  BY <1>2, <1>3, <1>4, <1>5 DEF ServeGarbled

\* The inductive invariant of OwnAnswer.
THEOREM OwnInvariance == Spec => []Own
<1>1. IInv /\ IInv' /\ Own /\ [Next]_vars => Own'
  <2> SUFFICES ASSUME IInv, IInv', Own, [Next]_vars PROVE Own'
    OBVIOUS
  <2>1. CASE UNCHANGED vars
    BY <2>1 DEF Own, OwnAnswerUntilTimeout, Clean, Aligned, Empty, OnlyOwn, At, BodySizeOf, vars,
         clientVars
  <2>2. CASE \E ok \in BOOLEAN : SendRequest(ok)
    BY <2>2, SendRequestOwn
  <2>3. CASE \E eof \in BOOLEAN : ReadFails(eof)
    BY <2>3, ReadFailsOwn
  <2> QED
    BY <2>1, <2>2, <2>3, CallMethodOwn, ConnectThrowsOwn, TransferOwn, ReadLenDoneOwn, ReadBodyDoneOwn,
       DoneOwn, ServeOwn DEF Next, Returns
<1> QED
  BY <1>1, InitOwn, Invariance, PTL DEF Spec

\* Until a call gives up waiting or meets a response that does not fit its buffer, a
\* success carries the response of its own call, for any number of calls and any sizes.
THEOREM OwnAnswer == Spec => []OwnAnswerUntilTimeout
<1>1. Own => OwnAnswerUntilTimeout
  BY DEF Own
<1> QED
  BY <1>1, OwnInvariance, PTL
=============================================================================

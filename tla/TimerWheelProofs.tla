-------------------------- MODULE TimerWheelProofs --------------------------
(***************************************************************************)
(* Proofs about the timer wheel, for wheels of any size in which twice the *)
(* last one fits in the first, and for any number of events.               *)
(***************************************************************************)
EXTENDS TimerWheel, TLAPS

USE WheelAssumption

-----------------------------------------------------------------------------
(***************************************************************************)
(* Arithmetic of the insertion.                                            *)
(***************************************************************************)
\* A quotient is 0 exactly below the divisor.
LEMMA DivZero ==
  ASSUME NEW x \in Nat, NEW n \in Nat \ {0}
  PROVE  /\ x \div n \in Nat
         /\ (x \div n = 0) <=> (x < n)
BY Z3

\* A quotient stays below q when the dividend stays below n * q.
LEMMA DivBelow ==
  ASSUME NEW x \in Nat, NEW n \in Nat \ {0}, NEW q \in Nat, x < n * q
  PROVE  x \div n < q
<1> DEFINE d == x \div n
<1>1. d \in Nat /\ n * d <= x
  BY Z3
<1>2. SUFFICES ASSUME q <= d PROVE FALSE
  BY <1>1
<1>3. n * q <= n * d
  BY <1>1, <1>2, Z3
<1>. QED BY <1>1, <1>3, Z3
-----------------------------------------------------------------------------
(***************************************************************************)
(* Where an event lands.                                                   *)
(***************************************************************************)
\* The hands of the wheels, each inside its wheel.
Hands == {ix \in [Level -> Nat] : ix[0] < S0 /\ ix[1] < S1 /\ ix[2] < S2}

\* The places a copy may have: a slot that exists, and not the first slot of an
\* upper wheel.
Places == {p \in Level \X Nat : p[2] < Size(p[1]) /\ (p[1] # 0 => p[2] > 0)}

\* Every wheel has a slot.
LEMMA SizesPositive == \A i \in Level : Size(i) \in Nat \ {0}
BY DEF Size, Level

\* The carries are numbers; an interval of at most MaxTimeout leaves no more than
\* S2 whole turns of the first two wheels.
LEMMA CarryBounds ==
  ASSUME NEW interval \in 1 .. MaxTimeout, NEW ix \in Hands
  PROVE  /\ Carry1(interval, ix) \in Nat
         /\ Carry2(interval, ix) \in Nat
         /\ Carry3(interval, ix) \in Nat
         /\ Carry2(interval, ix) <= S2
<1>1. /\ ix[0] \in Nat /\ ix[1] \in Nat /\ ix[2] \in Nat
      /\ ix[0] < S0 /\ ix[1] < S1 /\ ix[2] < S2
  BY DEF Hands, Level
<1> DEFINE a == interval + ix[0]
           b == Carry1(interval, ix) + ix[1]
           c == Carry2(interval, ix) + ix[2]
<1>2. a \in Nat
  BY <1>1
<1>3. Carry1(interval, ix) \in Nat
  BY <1>2, DivZero DEF Carry1
<1>4. b \in Nat
  BY <1>1, <1>3
<1>5. Carry2(interval, ix) \in Nat
  BY <1>4, DivZero DEF Carry2
<1>6. Carry3(interval, ix) \in Nat
  <2>1. c \in Nat
    BY <1>1, <1>5
  <2>. QED BY <2>1, DivZero DEF Carry3
<1>7. Carry1(interval, ix) < S1 * S2 + 1
  <2>1. S1 * S2 + 1 \in Nat /\ S0 * (S1 * S2 + 1) = S0 * S1 * S2 + S0
    BY Z3
  <2>2. a < S0 * (S1 * S2 + 1)
    BY <1>1, <2>1
  <2>. QED BY <1>2, <2>1, <2>2, DivBelow DEF Carry1
<1>8. Carry2(interval, ix) < S2 + 1
  <2>1. S1 * S2 \in Nat /\ S2 + 1 \in Nat /\ S1 * (S2 + 1) = S1 * S2 + S1
    BY Z3
  <2>2. b < S1 * (S2 + 1)
    BY <1>1, <1>3, <1>7, <2>1
  <2>. QED BY <1>4, <2>1, <2>2, DivBelow DEF Carry2
<1>. QED BY <1>3, <1>5, <1>6, <1>8

\* The insertion never leaves the wheels.  When it runs out of wheels it is the
\* assumption 2 * S2 <= S0 that keeps it inside wheel 0.
LEMMA PlaceInRange ==
  ASSUME NEW interval \in 1 .. MaxTimeout, NEW ix \in Hands
  PROVE  /\ Place(interval, ix) \in Places
         /\ Place(interval, ix)[1] = 0 /\ ~FallsThrough(interval, ix)
              => Place(interval, ix)[2] = interval + ix[0]
<1>1. /\ ix[0] \in Nat /\ ix[1] \in Nat /\ ix[2] \in Nat
      /\ ix[0] < S0 /\ ix[1] < S1 /\ ix[2] < S2
  BY DEF Hands, Level
<1>2. /\ Carry1(interval, ix) \in Nat
      /\ Carry2(interval, ix) \in Nat
      /\ Carry3(interval, ix) \in Nat
      /\ Carry2(interval, ix) <= S2
  BY CarryBounds
<1>3. CASE Carry1(interval, ix) = 0
  <2>1. interval + ix[0] < S0
    BY <1>1, <1>3, DivZero DEF Carry1
  <2>. QED BY <1>1, <1>3, <2>1 DEF Place, Places, Level, Size, FallsThrough
<1>4. CASE Carry1(interval, ix) # 0 /\ Carry2(interval, ix) = 0
  <2>1. Carry1(interval, ix) + ix[1] < S1
    BY <1>1, <1>2, <1>4, DivZero DEF Carry2
  <2>. QED BY <1>1, <1>2, <1>4, <2>1 DEF Place, Places, Level, Size, FallsThrough
<1>5. CASE Carry1(interval, ix) # 0 /\ Carry2(interval, ix) # 0 /\ Carry3(interval, ix) = 0
  <2>1. Carry2(interval, ix) + ix[2] < S2
    BY <1>1, <1>2, <1>5, DivZero DEF Carry3
  <2>. QED BY <1>1, <1>2, <1>5, <2>1 DEF Place, Places, Level, Size, FallsThrough
<1>6. CASE FallsThrough(interval, ix)
  <2>1. Carry2(interval, ix) + ix[2] < S0
    BY <1>1, <1>2
  <2>. QED BY <1>1, <1>2, <1>6, <2>1 DEF Place, Places, Level, Size, FallsThrough
<1>. QED BY <1>2, <1>3, <1>4, <1>5, <1>6 DEF FallsThrough
-----------------------------------------------------------------------------
(***************************************************************************)
(* The other side of the deadline: how far a copy is from the hands.       *)
(***************************************************************************)
\* The turns of wheel 0 until the hands reach the slot of a copy in an upper wheel,
\* and the ticks until they reach the slot of any copy.
Turns(c, ix) == IF c[1] = 1 THEN c[2] - ix[1] ELSE (c[2] - ix[2]) * S1 - ix[1]
Distance(c, ix) == IF c[1] = 0 THEN c[2] - ix[0] ELSE Turns(c, ix) * S0 - ix[0]

\* Ticks since the hands stood at 0 together, as Position, for any hands.
At(ix) == (ix[2] * S1 + ix[1]) * S0 + ix[0]

LEMMA Monotone ==
  ASSUME NEW a \in Int, NEW b \in Int, NEW n \in Nat, a <= b
  PROVE  a * n <= b * n
BY Z3

LEMMA OneLess ==
  ASSUME NEW a \in Int, NEW n \in Nat
  PROVE  (a - 1) * n = a * n - n /\ (a + 1) * n = a * n + n /\ a * n \in Int
BY Z3

\* What a quotient stands for is not more than what was divided.
LEMMA DivFloor ==
  ASSUME NEW x \in Nat, NEW n \in Nat \ {0}
  PROVE  (x \div n) * n <= x
BY Z3

LEMMA CarryFloors ==
  ASSUME NEW interval \in 1 .. MaxTimeout, NEW ix \in Hands
  PROVE  /\ Carry1(interval, ix) * S0 <= interval + ix[0]
         /\ Carry2(interval, ix) * S1 <= Carry1(interval, ix) + ix[1]
<1>1. /\ interval + ix[0] \in Nat
      /\ Carry1(interval, ix) \in Nat /\ Carry1(interval, ix) + ix[1] \in Nat
  BY CarryBounds DEF Hands, Level
<1>. QED BY <1>1, DivFloor DEF Carry1, Carry2

\* An event that finds a wheel is put no further than its deadline: a slot of an
\* upper wheel begins before it.
LEMMA PlaceNotLater ==
  ASSUME NEW interval \in 1 .. MaxTimeout, NEW ix \in Hands, NEW e,
         ~FallsThrough(interval, ix)
  PROVE  LET c == <<Place(interval, ix)[1], Place(interval, ix)[2], e>>
         IN  c[2] > ix[c[1]] /\ Distance(c, ix) <= interval
<1> DEFINE c1 == Carry1(interval, ix)
           c2 == Carry2(interval, ix)
<1>1. /\ ix[0] \in Nat /\ ix[1] \in Nat /\ ix[2] \in Nat /\ interval \in Nat /\ interval > 0
  BY DEF Hands, Level
<1>2. c1 \in Nat /\ c2 \in Nat /\ Carry3(interval, ix) \in Nat
  BY CarryBounds
<1>3. c1 * S0 <= interval + ix[0] /\ c2 * S1 <= c1 + ix[1]
  BY CarryFloors
<1>4. c1 * S0 \in Nat /\ c2 * S1 \in Nat
  BY <1>2, Z3
<1>5. CASE c1 = 0
  <2>1. Place(interval, ix) = <<0, interval + ix[0]>>
    BY <1>5 DEF Place
  <2>. QED BY <1>1, <2>1 DEF Distance
<1>6. CASE c1 # 0 /\ c2 = 0
  <2>1. Place(interval, ix) = <<1, c1 + ix[1]>>
    BY <1>6 DEF Place
  <2>2. (c1 + ix[1]) - ix[1] = c1
    BY <1>1, <1>2
  <2>. HIDE DEF c1, c2
  <2>3. Distance(<<1, c1 + ix[1], e>>, ix) = c1 * S0 - ix[0]
    BY <2>2 DEF Distance, Turns
  <2>4. c1 + ix[1] > ix[1]
    BY <1>1, <1>2, <1>6
  <2>. QED BY <1>1, <1>3, <1>4, <2>1, <2>3, <2>4
<1>7. CASE c1 # 0 /\ c2 # 0
  <2>1. Place(interval, ix) = <<2, c2 + ix[2]>>
    <3>1. Carry3(interval, ix) = 0
      BY <1>7 DEF FallsThrough
    <3>. QED BY <1>7, <3>1 DEF Place
  <2>2. (c2 + ix[2]) - ix[2] = c2
    BY <1>1, <1>2
  <2>. HIDE DEF c1, c2
  <2>3. Distance(<<2, c2 + ix[2], e>>, ix) = (c2 * S1 - ix[1]) * S0 - ix[0]
    BY <2>2 DEF Distance, Turns
  <2>4. c2 * S1 - ix[1] \in Int /\ c2 * S1 - ix[1] <= c1
    BY <1>1, <1>2, <1>3, <1>4
  <2>5. (c2 * S1 - ix[1]) * S0 <= c1 * S0 /\ (c2 * S1 - ix[1]) * S0 \in Int
    BY <1>2, <2>4, Monotone, OneLess
  <2>6. c2 + ix[2] > ix[2]
    BY <1>1, <1>2, <1>7
  <2>. QED BY <1>1, <1>3, <1>4, <2>1, <2>3, <2>5, <2>6
<1>. QED BY <1>5, <1>6, <1>7

\* An event that finds no wheel has its deadline beyond the next wrap of the last one.
LEMMA LostIsFar ==
  ASSUME NEW interval \in 1 .. MaxTimeout, NEW ix \in Hands, FallsThrough(interval, ix)
  PROVE  At(ix) + interval >= S0 * S1 * S2
<1> DEFINE c1 == Carry1(interval, ix)
           c2 == Carry2(interval, ix)
<1>1. /\ ix[0] \in Nat /\ ix[1] \in Nat /\ ix[2] \in Nat /\ interval \in Nat
  BY DEF Hands, Level
<1>2. c1 \in Nat /\ c2 \in Nat
  BY CarryBounds
<1>3. c1 * S0 <= interval + ix[0] /\ c2 * S1 <= c1 + ix[1]
  BY CarryFloors
<1>4. c2 + ix[2] >= S2
  <2>1. c2 + ix[2] \in Nat
    BY <1>1, <1>2
  <2>. QED BY <2>1, DivZero DEF FallsThrough, Carry3
<1>. HIDE DEF c1, c2
<1>5. S2 * S1 <= (c2 + ix[2]) * S1 /\ (c2 + ix[2]) * S1 = c2 * S1 + ix[2] * S1
      /\ c2 * S1 \in Nat /\ ix[2] * S1 \in Nat /\ S2 * S1 \in Nat
  BY <1>1, <1>2, <1>4, Z3
<1>6. S2 * S1 <= c1 + (ix[2] * S1 + ix[1])
  BY <1>1, <1>2, <1>3, <1>5
<1> DEFINE p == ix[2] * S1 + ix[1]
<1>7. p \in Nat
  BY <1>1, <1>5
<1>. HIDE DEF p
<1>8. S2 * S1 * S0 <= (c1 + p) * S0 /\ (c1 + p) * S0 = c1 * S0 + p * S0
      /\ c1 * S0 \in Nat /\ p * S0 \in Nat
  <2>1. S2 * S1 * S0 <= (c1 + p) * S0
    BY <1>2, <1>5, <1>6, <1>7, Monotone DEF p
  <2>. QED BY <1>2, <1>7, <2>1, Z3
<1>9. S0 * S1 * S2 = S2 * S1 * S0 /\ S0 * S1 * S2 \in Nat
  BY Z3
<1>10. At(ix) = p * S0 + ix[0]
  BY DEF At, p
<1>. QED BY <1>1, <1>2, <1>3, <1>8, <1>9, <1>10

\* A copy that is ahead is at least a tick away.
LEMMA AheadIsLater ==
  ASSUME NEW c \in Level \X Nat \X Events, NEW ix \in Hands, c[2] > ix[c[1]]
  PROVE  Distance(c, ix) \in Int /\ Distance(c, ix) >= 1
<1>1. /\ ix[0] \in Nat /\ ix[1] \in Nat /\ ix[2] \in Nat /\ c[1] \in {0, 1, 2} /\ c[2] \in Nat
      /\ ix[0] < S0 /\ ix[1] < S1
  BY DEF Hands, Level
<1>2. CASE c[1] = 0
  BY <1>1, <1>2 DEF Distance
<1>3. CASE c[1] # 0
  <2>1. Turns(c, ix) \in Int /\ Turns(c, ix) >= 1
    <3>1. CASE c[1] = 1
      BY <1>1, <3>1 DEF Turns
    <3>2. CASE c[1] = 2
      <4>1. c[2] - ix[2] \in Int /\ 1 <= c[2] - ix[2]
        BY <1>1, <3>2
      <4>2. 1 * S1 <= (c[2] - ix[2]) * S1 /\ (c[2] - ix[2]) * S1 \in Int
        BY <4>1, Monotone, OneLess
      <4>. QED BY <1>1, <3>2, <4>2 DEF Turns
    <3>. QED BY <1>1, <1>3, <3>1, <3>2
  <2>2. 1 * S0 <= Turns(c, ix) * S0 /\ Turns(c, ix) * S0 \in Int
    BY <2>1, Monotone, OneLess
  <2>. QED BY <1>1, <1>3, <2>2 DEF Distance
<1>. QED BY <1>2, <1>3
-----------------------------------------------------------------------------
(***************************************************************************)
(* The inductive invariant.                                                *)
(***************************************************************************)
CopiesInPlace(w) ==
    /\ w \subseteq Level \X Nat \X Events
    /\ \A c \in w : <<c[1], c[2]>> \in Places

\* The copies of wheel 0 are ahead of its hand.
Ahead(w, lost, ix) == \A c \in w : c[1] = 0 /\ c[3] \notin lost => c[2] > ix[0]

\* One of e's copies keeps it until its deadline: the copy is in an upper wheel,
\* or far enough ahead.  slack is 1 once the tick of the second in progress is over.
Reaches(e, w, lf, ix, slack) ==
    \/ lf[e] <= slack
    \/ \E c \in w : c[3] = e /\ (c[1] = 0 => c[2] >= lf[e] + ix[0] - slack)

Track(w, lost, lf, ix, slack) ==
    /\ Ahead(w, lost, ix)
    /\ \A e \in Holders(w) \ lost : Reaches(e, w, lf, ix, slack)

\* Every copy of an event that kept its place is ahead of the hand of its wheel, and
\* no further than bound says.
InTime(w, lost, ix, bound) ==
    \A c \in w : c[3] \notin lost =>
        c[2] > ix[c[1]] /\ Distance(c, ix) <= bound[c[3]]

\* What is left of the timeout is not more than the ticks the event may still take;
\* events that are gone have no time left.
Timed ==
    /\ InTime(wheels, misplaced, idx, due)
    /\ \A e \in Pending \ misplaced :
          left[e] = 0 \/ left[e] + (IF tickDue THEN 1 ELSE 0) <= due[e]
    /\ \A e \in Events \ Pending : left[e] = 0

IInv ==
    /\ TypeOK
    /\ idx \in Hands
    /\ CopiesInPlace(wheels)
    /\ Track(wheels, misplaced, left, idx, IF tickDue THEN 0 ELSE 1)
    /\ Timed

\* What an insertion adds.
LEMMA CopiesAdded ==
  ASSUME NEW es \in SUBSET Events, NEW lf \in [Events -> 0 .. MaxTimeout], NEW ix \in Hands
  PROVE  /\ CopiesInPlace(Copies(es, lf, ix))
         /\ \A e \in es : lf[e] > 0 => \E c \in Copies(es, lf, ix) : c[3] = e
         /\ \A c \in Copies(es, lf, ix) :
               /\ c[3] \in es /\ lf[c[3]] > 0
               /\ c[1] = 0 /\ c[3] \notin Lost(es, lf, ix) => c[2] = lf[c[3]] + ix[0]
<1>1. ASSUME NEW e \in es, lf[e] > 0
      PROVE  /\ Place(lf[e], ix) \in Places
             /\ Place(lf[e], ix)[1] = 0 /\ ~FallsThrough(lf[e], ix)
                  => Place(lf[e], ix)[2] = lf[e] + ix[0]
  <2>1. lf[e] \in 1 .. MaxTimeout
    BY <1>1
  <2>. QED BY <2>1, PlaceInRange
<1>2. \A p \in Places : p = <<p[1], p[2]>> /\ p[1] \in Level /\ p[2] \in Nat
  BY DEF Places
<1>3. \A c \in Copies(es, lf, ix) : \E e \in es :
         lf[e] > 0 /\ c = <<Place(lf[e], ix)[1], Place(lf[e], ix)[2], e>>
  BY DEF Copies
<1>4. CopiesInPlace(Copies(es, lf, ix))
  BY <1>1, <1>2, <1>3 DEF CopiesInPlace
<1>5. ASSUME NEW e \in es, lf[e] > 0
      PROVE  \E c \in Copies(es, lf, ix) : c[3] = e
  <2>1. <<Place(lf[e], ix)[1], Place(lf[e], ix)[2], e>> \in Copies(es, lf, ix)
    BY <1>5 DEF Copies
  <2>. QED BY <2>1
<1>6. ASSUME NEW c \in Copies(es, lf, ix)
      PROVE  /\ c[3] \in es /\ lf[c[3]] > 0
             /\ c[1] = 0 /\ c[3] \notin Lost(es, lf, ix) => c[2] = lf[c[3]] + ix[0]
  <2>1. PICK e \in es : lf[e] > 0 /\ c = <<Place(lf[e], ix)[1], Place(lf[e], ix)[2], e>>
    BY <1>3
  <2>2. c[3] = e /\ c[1] = Place(lf[e], ix)[1] /\ c[2] = Place(lf[e], ix)[2]
    BY <2>1
  <2>3. e \notin Lost(es, lf, ix) => ~FallsThrough(lf[e], ix)
    BY <2>1 DEF Lost
  <2>. QED BY <1>1, <2>1, <2>2, <2>3
<1>. QED BY <1>4, <1>5, <1>6

\* An insertion keeps the copies in place and ahead, and each event it places
\* gets a copy that keeps it until its deadline.
LEMMA InsertKeeps ==
  ASSUME NEW w, NEW lost, NEW es \in SUBSET Events,
         NEW lf \in [Events -> 0 .. MaxTimeout], NEW ix \in Hands,
         CopiesInPlace(w), Ahead(w, lost, ix)
  PROVE  LET w2    == w \cup Copies(es, lf, ix)
             lost2 == lost \cup Lost(es, lf, ix)
         IN  /\ CopiesInPlace(w2)
             /\ Ahead(w2, lost2, ix)
             /\ Lost(es, lf, ix) \subseteq Holders(w2)
             /\ \A e \in es : lf[e] > 0 => e \in Holders(w2)
             /\ \A e \in es : e \notin lost2 => Reaches(e, w2, lf, ix, 0)
<1> DEFINE new == Copies(es, lf, ix)
           w2 == w \cup new
           lost2 == lost \cup Lost(es, lf, ix)
<1>1. /\ CopiesInPlace(new)
      /\ \A e \in es : lf[e] > 0 => \E c \in new : c[3] = e
      /\ \A c \in new : /\ c[3] \in es /\ lf[c[3]] > 0
                        /\ c[1] = 0 /\ c[3] \notin Lost(es, lf, ix) => c[2] = lf[c[3]] + ix[0]
  <2> HIDE DEF new
  <2>1. new = Copies(es, lf, ix)
    BY DEF new
  <2> QED
    BY <2>1, CopiesAdded, SMTT(40)
<1>2. ix[0] \in Nat /\ \A e \in es : lf[e] \in Nat
  BY DEF Hands, Level
<1>3. CopiesInPlace(w2)
  BY <1>1 DEF CopiesInPlace
<1>4. Ahead(w2, lost2, ix)
  <2>1. ASSUME NEW c \in new, c[1] = 0, c[3] \notin lost2 PROVE c[2] > ix[0]
    BY <1>1, <1>2, <2>1
  <2>. QED BY <2>1 DEF Ahead
<1>5. \A e \in es : lf[e] > 0 => e \in Holders(w2)
  BY <1>1 DEF Holders
<1>6. Lost(es, lf, ix) \subseteq Holders(w2)
  BY <1>5 DEF Lost
<1>7. ASSUME NEW e \in es, e \notin lost2 PROVE Reaches(e, w2, lf, ix, 0)
  <2>1. CASE lf[e] <= 0
    BY <2>1 DEF Reaches
  <2>2. CASE lf[e] > 0
    <3>1. PICK c \in new : c[3] = e
      BY <1>1, <2>2
    <3>2. c[1] = 0 => c[2] = lf[e] + ix[0]
      BY <1>1, <1>7, <3>1
    <3>3. c[1] = 0 => c[2] >= lf[e] + ix[0] - 0
      BY <1>2, <3>2
    <3>. QED BY <3>1, <3>3 DEF Reaches
  <2>. QED BY <1>2, <2>1, <2>2
<1>. QED BY <1>3, <1>4, <1>5, <1>6, <1>7

\* Reaches is monotone: more copies, more slack, a hand further back.
LEMMA ReachesMonotone ==
  ASSUME NEW e \in Events, NEW w, NEW w2, NEW lf \in [Events -> 0 .. MaxTimeout],
         NEW ix \in [Level -> Nat], NEW ix2 \in [Level -> Nat], ix2[0] <= ix[0],
         NEW slack \in {0, 1}, NEW slack2 \in {0, 1}, slack <= slack2,
         CopiesInPlace(w), \A c \in w : c[3] = e => c \in w2,
         Reaches(e, w, lf, ix, slack)
  PROVE  Reaches(e, w2, lf, ix2, slack2)
<1>1. lf[e] \in Nat /\ ix[0] \in Nat /\ ix2[0] \in Nat
  BY DEF Level
<1>2. CASE lf[e] <= slack
  BY <1>1, <1>2 DEF Reaches
<1>3. CASE \E c \in w : c[3] = e /\ (c[1] = 0 => c[2] >= lf[e] + ix[0] - slack)
  <2>1. PICK c \in w : c[3] = e /\ (c[1] = 0 => c[2] >= lf[e] + ix[0] - slack)
    BY <1>3
  <2>2. c[2] \in Nat
    BY DEF CopiesInPlace
  <2>3. c[1] = 0 => c[2] >= lf[e] + ix2[0] - slack2
    BY <1>1, <2>1, <2>2
  <2>. QED BY <2>1, <2>3 DEF Reaches
<1>. QED BY <1>2, <1>3 DEF Reaches
-----------------------------------------------------------------------------
(***************************************************************************)
(* Tick: the stages between the advance of wheel 0 and the end of the      *)
(* cascades.                                                               *)
(***************************************************************************)
\* The copies of a stage are no further than their events may still take, this tick
\* included, and the events it has lost have their deadlines beyond the wrap.
OnCourse(st) ==
    /\ misplaced \subseteq st.lost /\ Holders(st.w) \subseteq Pending
    /\ InTime(st.w, st.lost, st.ix, [e \in Events |-> due[e] - 1])
    /\ \A e \in st.lost \ misplaced :
          st.ix \in Hands /\ At(st.ix) + left[e] >= S0 * S1 * S2

\* What holds of a stage st of a tick.  No event that had its place when the tick
\* began is gone with more than a second left.
Stage(st) ==
    /\ st.ix \in [Level -> Nat]
    /\ st.ix[0] <= S0 /\ st.ix[1] <= S1 /\ st.ix[2] <= S2
    /\ CopiesInPlace(st.w)
    /\ Ahead(st.w, st.lost, st.ix)
    /\ \A e \in Holders(st.w) \ st.lost : Reaches(e, st.w, left, st.ix, 1)
    /\ \A e \in Pending \ misplaced : e \in Holders(st.w) \/ left[e] <= 1
    /\ OnCourse(st)

\* Emptying a slot takes only its own copies away.
LEMMA WithoutSlot ==
  ASSUME NEW w, NEW i \in Level, NEW s \in Nat, CopiesInPlace(w)
  PROVE  /\ CopiesInPlace(Without(w, i, s))
         /\ Slot(w, i, s) \subseteq Holders(w)
         /\ Holders(w) \subseteq Events
         /\ \A c \in w : c[3] \notin Slot(w, i, s) => c \in Without(w, i, s)
<1>1. Without(w, i, s) \subseteq w
  BY DEF Without
<1>2. CopiesInPlace(Without(w, i, s))
  BY <1>1 DEF CopiesInPlace
<1>3. Slot(w, i, s) \subseteq Holders(w)
  BY DEF Slot, Holders
<1>4. Holders(w) \subseteq Events
  BY DEF Holders, CopiesInPlace
<1>5. \A c \in w : c[3] \notin Slot(w, i, s) => c \in Without(w, i, s)
  BY DEF Slot, Without
<1>. QED BY <1>2, <1>3, <1>4, <1>5

\* The advance of wheel 0 brings every copy a tick nearer.
LEMMA AdvanceOnCourse ==
  ASSUME IInv, tickDue
  PROVE  OnCourse(Advance)
<1> DEFINE ix == [idx EXCEPT ![0] = @ + 1]
           w2 == Without(wheels, 0, ix[0] % S0)
           bound == [e \in Events |-> due[e] - 1]
<1>1. /\ idx \in Hands /\ CopiesInPlace(wheels) /\ InTime(wheels, misplaced, idx, due)
      /\ due \in [Events -> 0 .. MaxTimeout + 1]
  BY DEF IInv, TypeOK, Timed
<1>2. /\ idx \in [Level -> Nat] /\ idx[0] \in Nat /\ idx[1] \in Nat /\ idx[2] \in Nat
      /\ idx[0] < S0 /\ idx[1] < S1 /\ idx[2] < S2
  BY <1>1 DEF Hands, Level
<1>3. ix[0] = idx[0] + 1 /\ ix[1] = idx[1] /\ ix[2] = idx[2]
  BY <1>2 DEF Level
<1>4. Advance = [ix |-> ix, w |-> w2, lost |-> misplaced]
  BY DEF Advance
<1>5. w2 \subseteq wheels /\ \A c \in w2 : c[1] = 0 => c[2] # ix[0] % S0
  BY DEF Without
<1>6. ix[0] < S0 => ix[0] % S0 = ix[0]
  BY <1>2, <1>3, Z3
<1>. HIDE DEF w2, ix
<1>7. ASSUME NEW c \in w2, c[3] \notin misplaced
      PROVE  c[2] > ix[c[1]] /\ Distance(c, ix) <= bound[c[3]]
  <2>1. c \in wheels /\ c[1] \in {0, 1, 2} /\ c[2] \in Nat /\ c[3] \in Events
    BY <1>1, <1>5 DEF CopiesInPlace, Level
  <2>0. c[1] = 0 => c[2] < S0
    BY <1>1, <2>1 DEF CopiesInPlace, Places, Size
  <2>2. c[2] > idx[c[1]] /\ Distance(c, idx) <= due[c[3]]
    BY <1>1, <1>7, <2>1 DEF InTime
  <2>3. c[2] > ix[c[1]]
    <3>1. CASE c[1] = 0
      BY <1>2, <1>3, <1>5, <1>6, <2>0, <2>1, <2>2, <3>1
    <3>2. CASE c[1] # 0
      BY <1>3, <2>1, <2>2, <3>2
    <3>. QED BY <3>1, <3>2
  <2>4. Distance(c, idx) \in Int /\ Distance(c, ix) = Distance(c, idx) - 1
    <3>1. CASE c[1] = 0
      BY <1>2, <1>3, <2>1, <3>1 DEF Distance
    <3>2. CASE c[1] # 0
      <4>1. Turns(c, ix) = Turns(c, idx)
        BY <1>3 DEF Turns
      <4>2. Turns(c, idx) \in Int
        <5>1. (c[2] - idx[2]) * S1 \in Int
          BY <1>2, <2>1, OneLess
        <5>. QED BY <1>2, <2>1, <5>1 DEF Turns
      <4>3. Turns(c, idx) * S0 \in Int
        BY <4>2, OneLess
      <4>. QED BY <1>2, <1>3, <3>2, <4>1, <4>3 DEF Distance
    <3>. QED BY <3>1, <3>2
  <2>5. due[c[3]] \in Nat /\ bound[c[3]] = due[c[3]] - 1
    BY <1>1, <2>1
  <2>. HIDE DEF bound
  <2>. QED BY <2>2, <2>3, <2>4, <2>5
<1>8. Holders(w2) \subseteq Pending
  BY <1>5 DEF Holders, Pending
<1>9. Advance.ix = ix /\ Advance.w = w2 /\ Advance.lost = misplaced
  BY <1>4
<1>10. InTime(w2, misplaced, ix, bound)
  BY <1>7 DEF InTime
<1>. QED BY <1>8, <1>9, <1>10 DEF OnCourse

\* The first stage drops the slot that wheel 0 reaches: whoever loses its last
\* copy there has at most the second in progress left.
LEMMA AdvanceStage ==
  ASSUME IInv, tickDue
  PROVE  Stage(Advance) /\ Advance.ix[1] < S1 /\ Advance.ix[2] < S2
<1> DEFINE ix == [idx EXCEPT ![0] = @ + 1]
           w2 == Without(wheels, 0, ix[0] % S0)
<1>1. /\ idx \in Hands /\ CopiesInPlace(wheels) /\ Ahead(wheels, misplaced, idx)
      /\ \A e \in Pending \ misplaced : Reaches(e, wheels, left, idx, 0)
      /\ left \in [Events -> 0 .. MaxTimeout]
  BY DEF IInv, TypeOK, Track, Pending
<1>2. /\ idx \in [Level -> Nat] /\ idx[0] \in Nat /\ idx[1] \in Nat /\ idx[2] \in Nat
      /\ idx[0] < S0 /\ idx[1] < S1 /\ idx[2] < S2
  BY <1>1 DEF Hands, Level
<1>3. /\ ix \in [Level -> Nat] /\ ix[0] = idx[0] + 1 /\ ix[1] = idx[1] /\ ix[2] = idx[2]
  BY <1>2 DEF Level
<1>4. Advance = [ix |-> ix, w |-> w2, lost |-> misplaced]
  BY DEF Advance
<1>5. ix[0] % S0 \in Nat /\ 0 \in Level
  BY <1>2, <1>3, Z3 DEF Level
<1>6. /\ CopiesInPlace(w2) /\ Holders(wheels) \subseteq Events
  BY <1>1, <1>5, WithoutSlot
<1>7. \A c \in wheels : c[1] \in Level /\ c[2] \in Nat /\ c[3] \in Events /\ (c[1] = 0 => c[2] < S0)
  BY <1>1 DEF CopiesInPlace, Places, Size
<1>8. \A c \in wheels : (c[1] = 0 /\ c[2] > idx[0]) =>
         \/ c[2] > ix[0]
         \/ c[2] = ix[0] % S0
  <2>1. \A n \in Nat : n < S0 /\ n > idx[0] => n > ix[0] \/ (n = ix[0] /\ n < S0)
    BY <1>2, <1>3
  <2>2. ix[0] < S0 => ix[0] % S0 = ix[0]
    BY <1>2, <1>3, Z3
  <2>. QED BY <1>7, <2>1, <2>2
<1>9. Ahead(w2, misplaced, ix)
  BY <1>1, <1>8 DEF Ahead, Without
<1>10. ASSUME NEW e \in Pending \ misplaced
       PROVE  left[e] <= 1 \/ (e \in Holders(w2) /\ Reaches(e, w2, left, ix, 1))
  <2>1. e \in Events /\ left[e] \in Nat
    BY <1>1, <1>6 DEF Pending
  <2>2. SUFFICES ASSUME left[e] > 1
                 PROVE  e \in Holders(w2) /\ Reaches(e, w2, left, ix, 1)
    BY <2>1
  <2>3. PICK c \in wheels : c[3] = e /\ (c[1] = 0 => c[2] >= left[e] + idx[0] - 0)
    BY <1>1, <2>1, <2>2 DEF Reaches
  <2>4. c[1] = 0 => c[2] > ix[0] /\ c[2] >= left[e] + ix[0] - 1
    BY <1>2, <1>3, <1>7, <2>1, <2>2, <2>3
  <2>5. c[1] = 0 => ix[0] < S0 /\ ix[0] % S0 = ix[0]
    BY <1>2, <1>3, <1>7, <2>4, Z3
  <2>6. c[1] = 0 => c[2] # ix[0] % S0
    BY <1>2, <1>3, <1>7, <2>4, <2>5
  <2>7. c \in w2
    BY <2>6 DEF Without
  <2>. QED BY <2>3, <2>4, <2>7 DEF Holders, Reaches
<1>11. Holders(w2) \subseteq Pending
  BY DEF Holders, Pending, Without
<1>12. \A e \in Holders(w2) \ misplaced : Reaches(e, w2, left, ix, 1)
  BY <1>10, <1>11 DEF Reaches
<1>13. \A e \in Pending \ misplaced : e \in Holders(w2) \/ left[e] <= 1
  BY <1>10
<1>14. Advance.ix = ix /\ Advance.w = w2 /\ Advance.lost = misplaced
  BY <1>4
<1>15. ix[0] <= S0 /\ ix[1] < S1 /\ ix[2] < S2 /\ ix[1] <= S1 /\ ix[2] <= S2
  BY <1>2, <1>3
<1>16. OnCourse(Advance)
  BY AdvanceOnCourse
<1>. HIDE DEF ix, w2
<1>. QED BY <1>3, <1>6, <1>9, <1>12, <1>13, <1>14, <1>15, <1>16 DEF Stage

\* A wheel that turns over has nothing in its first slot.
LEMMA WrapIsEmpty ==
  ASSUME NEW i \in {1, 2}, NEW st,
         st.ix \in [Level -> Nat], st.ix[1] <= S1, st.ix[2] <= S2, st.ix[i] < Size(i),
         i = 1 => st.ix[2] < S2,
         i = 2 => st.ix[0] = 0,
         CopiesInPlace(st.w),
         [st.ix EXCEPT ![i - 1] = 0, ![i] = @ + 1] \notin Hands
  PROVE  LET ix == [st.ix EXCEPT ![i - 1] = 0, ![i] = @ + 1]
         IN  ix[i] = Size(i) /\ Slot(st.w, i, ix[i] % Size(i)) = {}
<1> DEFINE ix == [st.ix EXCEPT ![i - 1] = 0, ![i] = @ + 1]
           s  == ix[i] % Size(i)
<1>1. st.ix[0] \in Nat /\ st.ix[1] \in Nat /\ st.ix[2] \in Nat
  BY DEF Level
<1>2. /\ ix \in [Level -> Nat] /\ ix[0] \in Nat /\ ix[0] < S0 /\ ix[i] = st.ix[i] + 1
      /\ i = 1 => ix[2] < S2
      /\ i = 2 => ix[1] = 0
  <2>1. CASE i = 1
    BY <1>1, <2>1 DEF Level
  <2>2. CASE i = 2
    BY <1>1, <2>2 DEF Level
  <2>. QED BY <2>1, <2>2
<1>3. ix \notin Hands
  OBVIOUS
<1>. HIDE DEF ix
<1>4. ix[i] = Size(i)
  <2>1. ~(ix[1] < S1 /\ ix[2] < S2)
    BY <1>2, <1>3 DEF Hands
  <2>2. CASE i = 1
    BY <1>1, <1>2, <2>1, <2>2 DEF Size
  <2>3. CASE i = 2
    BY <1>1, <1>2, <2>1, <2>3 DEF Size
  <2>. QED BY <2>2, <2>3
<1>5. s = 0
  <2>1. \A n \in Nat \ {0} : n % n = 0
    BY Z3
  <2>2. Size(i) \in Nat \ {0}
    BY SizesPositive DEF Level
  <2>. QED BY <1>4, <2>1, <2>2
<1>6. \A c \in st.w : ~(c[1] = i /\ c[2] = s)
  <2>1. \A c \in st.w : c[2] \in Nat /\ (c[1] # 0 => c[2] > 0)
    BY DEF CopiesInPlace, Places
  <2>. QED BY <1>5, <2>1
<1>. QED BY <1>4, <1>6 DEF Slot, ix

\* When wheel i advances the copies that stay are as far from the hands as before: a
\* turn of the lower wheel is a slot of this one.
LEMMA TurnOver ==
  ASSUME NEW i \in {1, 2}, NEW ix0 \in [Level -> Nat], ix0[1] <= S1, ix0[2] <= S2,
         i = 1 => ix0[0] = S0,
         i = 2 => ix0[0] = 0 /\ ix0[1] = S1,
         NEW c \in Level \X Nat \X Events, c[2] < Size(c[1]), c[2] > ix0[c[1]],
         c[1] = i => c[2] # ix0[i] + 1
  PROVE  LET ix == [ix0 EXCEPT ![i - 1] = 0, ![i] = @ + 1]
         IN  c[2] > ix[c[1]] /\ Distance(c, ix) = Distance(c, ix0)
<1> DEFINE ix == [ix0 EXCEPT ![i - 1] = 0, ![i] = @ + 1]
<1>1. /\ ix0[0] \in Nat /\ ix0[1] \in Nat /\ ix0[2] \in Nat /\ c[1] \in {0, 1, 2} /\ c[2] \in Nat
      /\ (c[2] - ix0[2]) * S1 \in Int
  <2>1. ix0[0] \in Nat /\ ix0[1] \in Nat /\ ix0[2] \in Nat /\ c[1] \in {0, 1, 2} /\ c[2] \in Nat
    BY DEF Level
  <2>. QED BY <2>1, OneLess
<1>2. CASE i = 1
  <2>1. ix[0] = 0 /\ ix[1] = ix0[1] + 1 /\ ix[2] = ix0[2]
    BY <1>2 DEF Level
  <2>. HIDE DEF ix
  <2>2. c[1] # 0
    BY <1>1, <1>2 DEF Size
  <2>3. c[2] > ix[c[1]]
    <3>1. CASE c[1] = 1
      BY <1>1, <1>2, <2>1, <3>1
    <3>2. CASE c[1] = 2
      BY <2>1, <3>2
    <3>. QED BY <1>1, <2>2, <3>1, <3>2
  <2>4. Turns(c, ix0) \in Int /\ Turns(c, ix) = Turns(c, ix0) - 1
    BY <1>1, <2>1 DEF Turns
  <2>5. Turns(c, ix) * S0 = Turns(c, ix0) * S0 - S0 /\ Turns(c, ix0) * S0 \in Int
    BY <2>4, OneLess
  <2>6. Distance(c, ix) = Turns(c, ix) * S0 - 0 /\ Distance(c, ix0) = Turns(c, ix0) * S0 - S0
    BY <1>2, <2>1, <2>2 DEF Distance
  <2>7. Distance(c, ix) = Distance(c, ix0)
    BY <2>5, <2>6
  <2>. QED BY <2>3, <2>7 DEF ix
<1>3. CASE i = 2
  <2>1. ix[0] = ix0[0] /\ ix[1] = 0 /\ ix[2] = ix0[2] + 1
    BY <1>3 DEF Level
  <2>. HIDE DEF ix
  <2>2. c[1] # 1
    BY <1>1, <1>3 DEF Size
  <2>3. c[2] > ix[c[1]]
    <3>1. CASE c[1] = 0
      BY <2>1, <3>1
    <3>2. CASE c[1] = 2
      BY <1>1, <1>3, <2>1, <3>2
    <3>. QED BY <1>1, <2>2, <3>1, <3>2
  <2>4. CASE c[1] = 0
    <3>1. Distance(c, ix) = Distance(c, ix0)
      BY <2>1, <2>4 DEF Distance
    <3>. QED BY <2>3, <3>1 DEF ix
  <2>5. CASE c[1] = 2
    <3>1. c[2] - ix0[2] \in Int /\ c[2] - ix[2] = (c[2] - ix0[2]) - 1
      BY <1>1, <2>1
    <3>2. (c[2] - ix[2]) * S1 = (c[2] - ix0[2]) * S1 - S1
      BY <3>1, OneLess
    <3>3. Turns(c, ix) = Turns(c, ix0)
      BY <1>1, <1>3, <2>1, <2>5, <3>2 DEF Turns
    <3>4. Distance(c, ix) = Distance(c, ix0)
      BY <2>1, <2>5, <3>3 DEF Distance
    <3>. QED BY <2>3, <3>4 DEF ix
  <2>. QED BY <1>1, <2>2, <2>4, <2>5
<1>. QED BY <1>2, <1>3

\* A cascade keeps the course: what it puts down is put no further than its deadline,
\* which is not later than the ticks it may still take.
LEMMA CascadeOnCourse ==
  ASSUME IInv, tickDue,
         NEW i \in {1, 2}, NEW st, Stage(st), st.ix[i] < Size(i),
         i = 1 => st.ix[0] = S0,
         i = 2 => st.ix[0] = 0 /\ st.ix[1] = S1,
         i = 1 => st.ix[2] < S2
  PROVE  OnCourse(Cascade(i, st))
<1> DEFINE ix == [st.ix EXCEPT ![i - 1] = 0, ![i] = @ + 1]
           s  == ix[i] % Size(i)
           es == Slot(st.w, i, s)
           rest == Without(st.w, i, s)
           new == Copies(es, left, ix)
           lost2 == st.lost \cup Lost(es, left, ix)
           bound == [e \in Events |-> due[e] - 1]
<1>1. Cascade(i, st) = [ix |-> ix, w |-> rest \cup new, lost |-> lost2]
  BY DEF Cascade
<1>2. /\ st.ix \in [Level -> Nat] /\ st.ix[1] <= S1 /\ st.ix[2] <= S2
      /\ CopiesInPlace(st.w) /\ OnCourse(st)
  BY DEF Stage
<1>3. /\ left \in [Events -> 0 .. MaxTimeout] /\ due \in [Events -> 0 .. MaxTimeout + 1]
      /\ \A e \in Pending \ misplaced : left[e] = 0 \/ left[e] + 1 <= due[e]
      /\ Pending \subseteq Events
  <2>1. /\ left \in [Events -> 0 .. MaxTimeout] /\ due \in [Events -> 0 .. MaxTimeout + 1]
        /\ \A e \in Pending \ misplaced : left[e] = 0 \/ left[e] + 1 <= due[e]
    BY DEF IInv, TypeOK, Timed
  <2>2. Pending \subseteq Events
    BY DEF IInv, TypeOK, Pending, Holders
  <2>. QED BY <2>1, <2>2
<1>4. /\ misplaced \subseteq st.lost /\ Holders(st.w) \subseteq Pending
      /\ InTime(st.w, st.lost, st.ix, bound)
      /\ \A e \in st.lost \ misplaced : st.ix \in Hands
  BY <1>2 DEF OnCourse
\* Before the cascade a hand is past its wheel, so nothing was lost in this tick.
<1>5. st.lost = misplaced
  <2>1. st.ix \notin Hands
    BY <1>2 DEF Hands, Level
  <2>. QED BY <1>4, <2>1
<1>6. es # {} => ix \in Hands
  BY <1>2, WrapIsEmpty
<1>7. es \subseteq Pending /\ rest \subseteq st.w
  BY <1>4 DEF Slot, Without, Holders
<1>8. ASSUME NEW c \in rest, c[3] \notin lost2
      PROVE  c[2] > ix[c[1]] /\ Distance(c, ix) <= bound[c[3]]
  <2>1. c \in st.w /\ c \in Level \X Nat \X Events
    BY <1>2, <1>7 DEF CopiesInPlace
  <2>2. c[2] < Size(c[1])
    BY <1>2, <2>1 DEF CopiesInPlace, Places
  <2>3. c[2] > st.ix[c[1]] /\ Distance(c, st.ix) <= bound[c[3]]
    BY <1>4, <1>8, <2>1 DEF InTime
  <2>4. c[1] = i => c[2] # st.ix[i] + 1
    <3>1. SUFFICES ASSUME c[1] = i, c[2] = st.ix[i] + 1
                   PROVE  FALSE
      OBVIOUS
    <3>2. ix[i] = st.ix[i] + 1
      BY <1>2 DEF Level
    <3>3. ix[i] < Size(i) /\ ix[i] \in Nat /\ Size(i) \in Nat \ {0}
      BY <2>1, <2>2, <3>1, <3>2, SizesPositive
    <3>4. \A m \in Nat, n \in Nat \ {0} : m < n => m % n = m
      BY Z3
    <3>5. s = c[2]
      BY <3>1, <3>2, <3>3, <3>4
    <3>. QED BY <3>1, <3>5 DEF Without
  <2>5. c[2] > ix[c[1]] /\ Distance(c, ix) = Distance(c, st.ix)
    BY <1>2, <2>1, <2>2, <2>3, <2>4, TurnOver
  <2>. QED BY <2>3, <2>5
<1>9. ASSUME NEW c \in new, c[3] \notin lost2
      PROVE  c[2] > ix[c[1]] /\ Distance(c, ix) <= bound[c[3]]
  <2>1. PICK e \in es : left[e] > 0 /\ c = <<Place(left[e], ix)[1], Place(left[e], ix)[2], e>>
    BY DEF Copies
  <2>. HIDE DEF ix, es, new, lost2
  <2>2. ix \in Hands /\ c[3] = e
    BY <1>6, <2>1
  <2>3. e \in Pending \ misplaced /\ e \in Events
    BY <1>3, <1>4, <1>7, <1>9, <2>2 DEF lost2
  <2>4. left[e] \in 1 .. MaxTimeout /\ due[e] \in Nat /\ left[e] + 1 <= due[e]
    BY <1>3, <2>1, <2>3
  <2>5. ~FallsThrough(left[e], ix)
    BY <1>9, <2>1, <2>2 DEF lost2, Lost
  <2>6. c[2] > ix[c[1]] /\ Distance(c, ix) <= left[e]
    BY <2>1, <2>2, <2>4, <2>5, PlaceNotLater
  <2>7. Distance(c, ix) \in Int
    <3>1. c \in Level \X Nat \X Events
      <4>1. Place(left[e], ix) \in Places
        BY <2>2, <2>4, PlaceInRange
      <4>. QED BY <2>1, <2>3, <4>1 DEF Places
    <3>. QED BY <2>2, <2>6, <3>1, AheadIsLater
  <2>8. bound[c[3]] = due[e] - 1
    BY <2>2, <2>3
  <2>. HIDE DEF bound
  <2>. QED BY <2>4, <2>6, <2>7, <2>8
<1>10. Holders(rest \cup new) \subseteq Pending
  <2>1. \A c \in new : c[3] \in es
    BY DEF Copies
  <2>2. \A c \in rest : c[3] \in Pending
    BY <1>4, <1>7 DEF Holders
  <2>. HIDE DEF new, rest, es
  <2>. QED BY <1>7, <2>1, <2>2 DEF Holders
<1>11. ASSUME NEW e \in lost2 \ misplaced
       PROVE  ix \in Hands /\ At(ix) + left[e] >= S0 * S1 * S2
  <2>1. e \in es /\ left[e] > 0 /\ FallsThrough(left[e], ix)
    BY <1>5, <1>11 DEF Lost
  <2>. HIDE DEF ix, es
  <2>2. ix \in Hands /\ left[e] \in 1 .. MaxTimeout
    BY <1>3, <1>6, <1>7, <2>1
  <2>. QED BY <2>1, <2>2, LostIsFar
<1>12. InTime(rest \cup new, lost2, ix, bound)
  <2>. HIDE DEF rest, new, lost2, ix, bound
  <2>. QED BY <1>8, <1>9 DEF InTime
<1>13. misplaced \subseteq lost2
  BY <1>4
<1> DEFINE after == Cascade(i, st)
<1>14. after.ix = ix /\ after.w = rest \cup new /\ after.lost = lost2
  BY <1>1
<1>. HIDE DEF rest, new, lost2, ix, after, bound
<1>15. OnCourse(after)
  BY <1>10, <1>11, <1>12, <1>13, <1>14 DEF OnCourse, bound
<1>. QED BY <1>15 DEF after

\* A cascade keeps the stage: the events of the emptied slot that still have time
\* left are placed again with what is left of it, and those without fire.
LEMMA CascadeStage ==
  ASSUME IInv, tickDue,
         NEW i \in {1, 2}, NEW st, Stage(st), st.ix[i] < Size(i),
         i = 1 => st.ix[0] = S0,
         i = 2 => st.ix[0] = 0 /\ st.ix[1] = S1,
         i = 1 => st.ix[2] < S2,
         left \in [Events -> 0 .. MaxTimeout]
  PROVE  /\ Stage(Cascade(i, st))
         /\ Cascade(i, st).ix = [st.ix EXCEPT ![i - 1] = 0, ![i] = @ + 1]
<1> DEFINE ix == [st.ix EXCEPT ![i - 1] = 0, ![i] = @ + 1]
           s  == ix[i] % Size(i)
           es == Slot(st.w, i, s)
           rest == Without(st.w, i, s)
           w2 == rest \cup Copies(es, left, ix)
           lost2 == st.lost \cup Lost(es, left, ix)
<1>1. Cascade(i, st) = [ix |-> ix, w |-> w2, lost |-> lost2]
  BY DEF Cascade
<1>2. /\ st.ix \in [Level -> Nat] /\ st.ix[0] \in Nat /\ st.ix[1] \in Nat /\ st.ix[2] \in Nat
      /\ st.ix[0] <= S0 /\ st.ix[1] <= S1 /\ st.ix[2] <= S2
      /\ CopiesInPlace(st.w) /\ Ahead(st.w, st.lost, st.ix)
      /\ \A e \in Holders(st.w) \ st.lost : Reaches(e, st.w, left, st.ix, 1)
      /\ \A e \in Pending \ misplaced : e \in Holders(st.w) \/ left[e] <= 1
  BY DEF Stage, Level
<1>3. /\ ix \in [Level -> Nat] /\ ix[0] = 0 /\ ix[i] = st.ix[i] + 1
      /\ ix[1] \in Nat /\ ix[2] \in Nat /\ ix[1] <= S1 /\ ix[2] <= S2
      /\ i = 1 => ix[2] < S2
      /\ i = 2 => ix[1] = 0
  BY <1>2 DEF Level, Size
<1>4. i \in Level /\ s \in Nat /\ Size(i) \in Nat \ {0}
  <2>1. i \in Level /\ Size(i) \in Nat \ {0} /\ ix[i] \in Nat
    BY <1>3, SizesPositive DEF Level
  <2>2. \A m \in Nat, n \in Nat \ {0} : m % n \in Nat
    BY Z3
  <2>. QED BY <2>1, <2>2
<1>5. /\ CopiesInPlace(rest) /\ es \subseteq Holders(st.w)
      /\ Holders(st.w) \subseteq Events
      /\ \A c \in st.w : c[3] \notin es => c \in rest
  BY <1>2, <1>4, WithoutSlot
<1>6. Ahead(rest, st.lost, ix)
  <2>1. \A c \in st.w : c[2] \in Nat /\ (c[1] = 0 => c[2] < S0)
    BY <1>2 DEF CopiesInPlace, Places, Size
  <2>2. \A c \in st.w : c[1] = 0 /\ c[3] \notin st.lost => c[2] > ix[0]
    BY <1>2, <1>3, <2>1 DEF Ahead
  <2>. QED BY <2>2 DEF Ahead, Without
<1>7. ASSUME ix \notin Hands PROVE es = {} /\ w2 = st.w /\ lost2 = st.lost
  <2>0. /\ st.ix \in [Level -> Nat] /\ st.ix[1] <= S1 /\ st.ix[2] <= S2
        /\ CopiesInPlace(st.w)
    BY <1>2
  <2>1. es = {}
    <3>1. es # {} => ix \in Hands
      BY <2>0, WrapIsEmpty
    <3>. QED BY <1>7, <3>1
  <2>2. rest = st.w
    <3>1. \A c \in st.w : ~(c[1] = i /\ c[2] = s)
      BY <2>1 DEF Slot
    <3>. QED BY <3>1 DEF Without
  <2>3. Copies(es, left, ix) = {} /\ Lost(es, left, ix) = {}
    BY <2>1 DEF Copies, Lost
  <2>. QED BY <2>1, <2>2, <2>3
<1>8. /\ CopiesInPlace(w2)
      /\ Ahead(w2, lost2, ix)
      /\ \A e \in es : left[e] > 0 => e \in Holders(w2)
      /\ \A e \in es : e \notin lost2 => Reaches(e, w2, left, ix, 0)
  <2>1. CASE ix \in Hands
    <3>1. es \in SUBSET Events
      BY <1>5
    <3>. QED BY <1>5, <1>6, <2>1, <3>1, InsertKeeps
  <2>2. CASE ix \notin Hands
    <3>1. rest = st.w
      BY <1>7, <2>2, <1>5 DEF Without
    <3>. QED BY <1>2, <1>6, <1>7, <2>2, <3>1
  <2>. QED BY <2>1, <2>2
<1>9. Holders(w2) \subseteq Holders(st.w)
  <2>1. Holders(rest) \subseteq Holders(st.w)
    BY DEF Holders, Without
  <2>2. \A c \in Copies(es, left, ix) : c[3] \in es
    BY DEF Copies
  <2>3. \A c \in w2 : c[3] \in Holders(st.w)
    BY <1>5, <2>1, <2>2 DEF Holders
  <2>. QED BY <2>3 DEF Holders
<1>. /\ st.lost \subseteq lost2 /\ rest \subseteq w2
     /\ Cascade(i, st).ix = ix /\ Cascade(i, st).w = w2 /\ Cascade(i, st).lost = lost2
     /\ ix = [st.ix EXCEPT ![i - 1] = 0, ![i] = @ + 1]
  BY <1>1
<1>. HIDE DEF ix, s, es, rest, w2, lost2
<1>10. ASSUME NEW e \in Holders(w2) \ lost2 PROVE Reaches(e, w2, left, ix, 1)
  <2>1. e \in Events /\ e \in Holders(st.w) /\ e \notin st.lost /\ left[e] \in Nat
    BY <1>5, <1>9, <1>10
  <2>2. CASE e \in es
    <3>1. Reaches(e, w2, left, ix, 0)
      BY <1>8, <1>10, <2>2
    <3>2. ix[0] <= ix[0] /\ 0 \in {0, 1} /\ 1 \in {0, 1} /\ 0 <= 1
      BY <1>3
    <3>. QED BY <1>3, <1>8, <2>1, <3>1, <3>2, ReachesMonotone
  <2>3. CASE e \notin es
    <3>1. \A c \in st.w : c[3] = e => c \in w2
      BY <1>5, <2>3
    <3>2. ix[0] <= st.ix[0] /\ 1 \in {0, 1} /\ 1 <= 1
      BY <1>2, <1>3
    <3>3. Reaches(e, st.w, left, st.ix, 1)
      BY <1>2, <2>1
    <3>. QED BY <1>2, <1>3, <2>1, <3>1, <3>2, <3>3, ReachesMonotone
  <2>. QED BY <2>2, <2>3
<1>11. ASSUME NEW e \in Pending \ misplaced PROVE e \in Holders(w2) \/ left[e] <= 1
  <2>1. CASE left[e] <= 1
    BY <2>1
  <2>2. CASE e \in Holders(st.w) /\ ~(left[e] <= 1)
    <3>1. e \in Events /\ left[e] \in Nat /\ left[e] > 0
      BY <1>5, <2>2
    <3>2. CASE e \in es
      BY <1>8, <3>1, <3>2
    <3>3. CASE e \notin es
      <4>1. PICK c \in st.w : c[3] = e
        BY <2>2 DEF Holders
      <4>. QED BY <1>5, <3>3, <4>1 DEF Holders
    <3>. QED BY <3>2, <3>3
  <2>. QED BY <1>2, <2>1, <2>2
<1>12. ix[0] <= S0
  BY <1>3
<1>13. OnCourse(Cascade(i, st))
  BY CascadeOnCourse
<1>. QED BY <1>3, <1>8, <1>10, <1>11, <1>12, <1>13 DEF Stage
-----------------------------------------------------------------------------
(***************************************************************************)
(* The steps of the wheel preserve the invariant.                          *)
(***************************************************************************)
LEMMA LastSlots ==
  ASSUME NEW w, CopiesInPlace(w), NEW c \in w, c[1] = 2
  PROVE  c[2] < S2
<1>1. <<c[1], c[2]>> \in Places
  BY DEF CopiesInPlace
<1>2. c[2] < Size(2)
  BY <1>1 DEF Places
<1>. QED BY <1>2 DEF Size

\* What a whole tick leaves: the stage after the cascades that were due, with the
\* hands inside their wheels again.
LEMMA TickStage ==
  ASSUME IInv, tickDue
  PROVE  Stage(AfterTick) /\ AfterTick.ix \in Hands
<1> DEFINE st0 == Advance
           st1 == IF st0.ix[0] = S0 THEN Cascade(1, st0) ELSE st0
           st2 == IF st0.ix[0] = S0 /\ st1.ix[1] = S1 THEN Cascade(2, st1) ELSE st1
           st3 == [st2 EXCEPT !.ix = IF st2.ix[2] = S2 THEN [st2.ix EXCEPT ![2] = 0] ELSE st2.ix]
<1>1. left \in [Events -> 0 .. MaxTimeout]
  BY DEF IInv, TypeOK
<1>2. Stage(st0) /\ st0.ix[1] < S1 /\ st0.ix[2] < S2
  BY AdvanceStage
<1>3. /\ Stage(st1) /\ st1.ix[2] < S2
      /\ st0.ix[0] = S0 => st1.ix[0] = 0
      /\ st0.ix[0] # S0 => st1.ix[0] < S0 /\ st1.ix[1] < S1
  <2>1. st0.ix \in [Level -> Nat] /\ st0.ix[0] \in Nat /\ st0.ix[0] <= S0
    BY <1>2 DEF Stage, Level
  <2>2. CASE st0.ix[0] # S0
    <3>1. st1 = st0
      BY <2>2
    <3>. HIDE DEF st0, st1
    <3>. QED BY <1>2, <2>1, <2>2, <3>1
  <2>3. CASE st0.ix[0] = S0
    <3>1. st1 = Cascade(1, st0)
      BY <2>3
    <3>2. st0.ix[1] < Size(1)
      BY <1>2 DEF Size
    <3>. HIDE DEF st0, st1
    <3>3. Stage(st1) /\ st1.ix = [st0.ix EXCEPT ![1 - 1] = 0, ![1] = @ + 1]
      BY <1>1, <1>2, <2>3, <3>1, <3>2, CascadeStage
    <3>4. st1.ix[0] = 0 /\ st1.ix[2] = st0.ix[2]
      BY <2>1, <3>3 DEF Level
    <3>. QED BY <1>2, <2>3, <3>3, <3>4
  <2>. QED BY <2>2, <2>3
<1>4. Stage(st2) /\ st2.ix[0] < S0 /\ st2.ix[1] < S1
  <2>. HIDE DEF st0, st1
  <2>1. /\ st1.ix \in [Level -> Nat] /\ st1.ix[0] \in Nat /\ st1.ix[1] \in Nat
        /\ st1.ix[1] <= S1
    BY <1>3 DEF Stage, Level
  <2>2. CASE st0.ix[0] = S0 /\ st1.ix[1] = S1
    <3>1. st2 = Cascade(2, st1)
      BY <2>2
    <3>2. st1.ix[2] < Size(2)
      BY <1>3 DEF Size
    <3>. HIDE DEF st2
    <3>3. Stage(st2) /\ st2.ix = [st1.ix EXCEPT ![2 - 1] = 0, ![2] = @ + 1]
      BY <1>1, <1>3, <2>2, <3>1, <3>2, CascadeStage
    <3>4. st2.ix[0] = 0 /\ st2.ix[1] = 0
      BY <1>3, <2>1, <2>2, <3>3 DEF Level
    <3>. QED BY <3>3, <3>4
  <2>3. CASE ~(st0.ix[0] = S0 /\ st1.ix[1] = S1)
    <3>1. st2 = st1
      BY <2>3
    <3>. HIDE DEF st2
    <3>. QED BY <1>3, <2>1, <2>3, <3>1
  <2>. QED BY <2>2, <2>3
<1>5. Stage(st3) /\ st3.ix \in Hands
  <2>. HIDE DEF st2
  <2>1. /\ st2.ix \in [Level -> Nat] /\ st2.ix[0] \in Nat /\ st2.ix[1] \in Nat
        /\ st2.ix[2] \in Nat /\ st2.ix[2] <= S2
    BY <1>4 DEF Stage, Level
  <2>2. /\ st3.ix \in [Level -> Nat]
        /\ st3.ix[0] = st2.ix[0] /\ st3.ix[1] = st2.ix[1] /\ st3.ix[2] < S2
    BY <2>1 DEF Level
  <2>3. st3.w = st2.w /\ st3.lost = st2.lost
    BY DEF st3
  <2>4. st3.ix[1] < S1 /\ st3.ix[0] < S0
    BY <1>4, <2>2
  <2>5. st3.ix \in Hands
    BY <2>2, <2>4 DEF Hands
  <2>11. /\ st2.ix[2] # S2 => st3.ix = st2.ix
         /\ st3.ix[2] = st2.ix[2] \/ st2.ix[2] = S2
    OBVIOUS
  <2>. HIDE DEF st3
  <2>6. /\ CopiesInPlace(st2.w) /\ Ahead(st2.w, st2.lost, st2.ix)
        /\ \A e \in Holders(st2.w) \ st2.lost : Reaches(e, st2.w, left, st2.ix, 1)
        /\ \A e \in Pending \ misplaced : e \in Holders(st2.w) \/ left[e] <= 1
    BY <1>4 DEF Stage
  <2>7. Ahead(st3.w, st3.lost, st3.ix)
    BY <2>2, <2>3, <2>6 DEF Ahead
  <2>8. \A e \in Holders(st3.w) \ st3.lost : Reaches(e, st3.w, left, st3.ix, 1)
    BY <2>2, <2>3, <2>6 DEF Reaches
  <2>9. st3.ix[0] <= S0 /\ st3.ix[1] <= S1 /\ st3.ix[2] <= S2
    <3>1. st3.ix[0] \in Nat /\ st3.ix[1] \in Nat /\ st3.ix[2] \in Nat
      BY <2>2 DEF Level
    <3>. QED BY <2>2, <2>4, <3>1
  <2>10. OnCourse(st3)
    <3>1. OnCourse(st2)
      BY <1>4 DEF Stage
    <3>2. \A c \in st2.w : c[3] \notin st2.lost => c[2] > st3.ix[c[1]]
      <4>0. \A c \in st2.w : c[1] \in {0, 1, 2} /\ c[2] \in Nat
        BY <2>6 DEF CopiesInPlace, Level
      <4>1. \A c \in st2.w : c[1] = 2 => c[2] < S2
        BY <2>6, LastSlots
      <4>2. \A c \in st2.w : c[3] \notin st2.lost => c[2] > st2.ix[c[1]]
        BY <3>1 DEF OnCourse, InTime
      <4>3. st3.ix[2] \in Nat /\ (st3.ix[2] = st2.ix[2] \/ st2.ix[2] = S2)
        BY <2>1, <2>2, <2>11 DEF Level
      <4>. QED BY <2>1, <2>2, <4>0, <4>1, <4>2, <4>3
    <3>3. ASSUME NEW c \in st2.w, c[3] \notin st2.lost
          PROVE  Distance(c, st3.ix) = Distance(c, st2.ix)
      <4>1. c[1] = 2 => st3.ix[2] = st2.ix[2]
        <5>0. c[1] = 2 => c[2] > st2.ix[2]
          BY <3>1, <3>3 DEF OnCourse, InTime
        <5>1. c[1] = 2 => c[2] < S2
          BY <2>6, <3>3, LastSlots
        <5>2. c[2] \in Nat
          BY <2>6, <3>3 DEF CopiesInPlace
        <5>. QED BY <2>1, <2>11, <5>0, <5>1, <5>2
      <4>2. c[1] \in {0, 1, 2}
        BY <2>6, <3>3 DEF CopiesInPlace, Level
      <4>. QED BY <2>2, <4>1, <4>2 DEF Distance, Turns
    <3>4. ASSUME NEW e \in st2.lost \ misplaced
          PROVE  st3.ix = st2.ix
      <4>1. st2.ix \in Hands
        BY <3>1, <3>4 DEF OnCourse
      <4>. QED BY <2>11, <4>1 DEF Hands
    <3>5. InTime(st3.w, st3.lost, st3.ix, [e \in Events |-> due[e] - 1])
      BY <2>3, <3>1, <3>2, <3>3 DEF OnCourse, InTime
    <3>. QED BY <2>3, <3>1, <3>4, <3>5 DEF OnCourse
  <2>. QED BY <2>2, <2>3, <2>5, <2>6, <2>7, <2>8, <2>9, <2>10 DEF Stage
<1>. QED BY <1>5 DEF AfterTick

\* The invariant holds initially.
LEMMA InitIInv == Init => IInv
<1> SUFFICES ASSUME Init PROVE IInv
  OBVIOUS
<1>1. /\ wheels = {} /\ idx = [i \in Level |-> 0] /\ left = [e \in Events |-> 0]
      /\ due = [e \in Events |-> 0] /\ tickDue = FALSE /\ misplaced = {}
  BY DEF Init
<1>2. TypeOK
  <2>1. idx \in [Level -> Nat] /\ wheels \subseteq Level \X Nat \X Events
    BY <1>1
  <2>2. 0 \in 0 .. MaxTimeout /\ 0 \in 0 .. MaxTimeout + 1
    OBVIOUS
  <2>3. left \in [Events -> 0 .. MaxTimeout] /\ due \in [Events -> 0 .. MaxTimeout + 1]
    BY <1>1, <2>2
  <2>4. misplaced \subseteq Pending /\ tickDue \in BOOLEAN
    BY <1>1
  <2>. QED BY <2>1, <2>3, <2>4 DEF TypeOK
<1>3. idx \in Hands
  BY <1>1 DEF Hands, Level
<1>4. CopiesInPlace(wheels) /\ Track(wheels, misplaced, left, idx, IF tickDue THEN 0 ELSE 1)
  BY <1>1 DEF CopiesInPlace, Track, Ahead, Holders
<1>5. Timed
  BY <1>1 DEF Timed, InTime, Pending, Holders
<1>. QED BY <1>2, <1>3, <1>4, <1>5 DEF IInv

\* The insertion that PostTimerEvent and RefreshTimeout share: one event gets a
\* deadline and a copy, the others keep theirs.
LEMMA InsertIInv ==
  ASSUME IInv, NEW e \in Events, NEW t \in 0 .. MaxTimeout,
         t > 0 \/ e \in Pending,
         left' = [left EXCEPT ![e] = t],
         wheels' = wheels \cup Copies({e}, left', idx),
         misplaced' = misplaced \cup Lost({e}, left', idx),
         due' \in [Events -> 0 .. MaxTimeout + 1],
         t + 1 <= due'[e], e \in Pending => due[e] <= due'[e],
         \A x \in Events : x # e => due'[x] = due[x],
         UNCHANGED <<idx, tickDue>>
  PROVE  IInv'
<1> DEFINE slack == IF tickDue THEN 0 ELSE 1
<1>1. /\ idx \in Hands /\ CopiesInPlace(wheels) /\ Ahead(wheels, misplaced, idx)
      /\ \A x \in Pending \ misplaced : Reaches(x, wheels, left, idx, slack)
      /\ left \in [Events -> 0 .. MaxTimeout]
      /\ misplaced \subseteq Pending /\ idx \in [Level -> Nat] /\ tickDue \in BOOLEAN
  BY DEF IInv, TypeOK, Track, Pending
<1>2. left' \in [Events -> 0 .. MaxTimeout] /\ left'[e] = t
  BY <1>1
<1>3. /\ CopiesInPlace(wheels') /\ Ahead(wheels', misplaced', idx)
      /\ Lost({e}, left', idx) \subseteq Holders(wheels')
      /\ left'[e] > 0 => e \in Holders(wheels')
      /\ e \notin misplaced' => Reaches(e, wheels', left', idx, 0)
  <2>1. {e} \in SUBSET Events
    OBVIOUS
  <2>. QED BY <1>1, <1>2, <2>1, InsertKeeps
<1>4. Pending \subseteq Holders(wheels')
  BY DEF Pending, Holders
<1>5. Holders(wheels') \subseteq Pending \cup {e}
  BY DEF Pending, Holders, Copies
<1>6. Holders(wheels') \subseteq Events
  <2>1. Pending \subseteq Events
    BY <1>1 DEF Pending, Holders, CopiesInPlace
  <2>. QED BY <1>5, <2>1
<1>7. ASSUME NEW x \in Holders(wheels') \ misplaced'
      PROVE  Reaches(x, wheels', left', idx, slack)
  <2>1. x \in Events /\ x \notin misplaced
    BY <1>6, <1>7
  <2>2. CASE x = e
    <3>1. Reaches(x, wheels', left', idx, 0)
      BY <1>3, <1>7, <2>2
    <3>2. idx[0] <= idx[0] /\ 0 \in {0, 1} /\ slack \in {0, 1} /\ 0 <= slack
      BY <1>1 DEF Level
    <3>. HIDE DEF slack
    <3> DEFINE w2 == wheels'
               lf2 == left'
    <3>3. CopiesInPlace(w2) /\ Reaches(x, w2, lf2, idx, 0) /\ lf2 \in [Events -> 0 .. MaxTimeout]
      BY <1>2, <1>3, <3>1
    <3>. HIDE DEF w2, lf2
    <3>4. Reaches(x, w2, lf2, idx, slack)
      BY <1>1, <2>1, <3>2, <3>3, ReachesMonotone
    <3>. QED BY <3>4 DEF w2, lf2
  <2>3. CASE x # e
    <3>1. x \in Pending /\ left'[x] = left[x]
      BY <1>1, <1>5, <2>1, <2>3
    <3>2. Reaches(x, wheels, left, idx, slack)
      BY <1>1, <2>1, <3>1
    <3>3. wheels \subseteq wheels'
      OBVIOUS
    <3>. HIDE DEF slack
    <3>. QED BY <3>1, <3>2, <3>3 DEF Reaches
  <2>. QED BY <2>2, <2>3
<1>8. TypeOK'
  <2>1. wheels' \subseteq Level \X Nat \X Events
    BY <1>3 DEF CopiesInPlace
  <2>2. misplaced' \subseteq Holders(wheels')
    BY <1>1, <1>3, <1>4
  <2>. QED BY <1>1, <1>2, <2>1, <2>2 DEF TypeOK, Pending
<1>9. Timed'
  <2>1. /\ InTime(wheels, misplaced, idx, due) /\ due \in [Events -> 0 .. MaxTimeout + 1]
        /\ \A x \in Pending \ misplaced : left[x] = 0 \/ left[x] + (IF tickDue THEN 1 ELSE 0) <= due[x]
        /\ \A x \in Events \ Pending : left[x] = 0
    BY DEF IInv, TypeOK, Timed
  <2>2. ASSUME NEW c \in wheels', c[3] \notin misplaced'
        PROVE  c[2] > idx[c[1]] /\ Distance(c, idx) <= due'[c[3]]
    <3>0. c \in Level \X Nat \X Events
      BY <1>3, <2>2 DEF CopiesInPlace
    <3>1. CASE c \in wheels
      <4>1. c[3] \notin misplaced /\ c[3] \in Pending /\ c[3] \in Events
        BY <2>2, <3>0, <3>1 DEF Pending, Holders
      <4>2. c[2] > idx[c[1]] /\ Distance(c, idx) <= due[c[3]]
        BY <2>1, <3>1, <4>1 DEF InTime
      <4>3. due[c[3]] \in Nat /\ due'[c[3]] \in Nat /\ due[c[3]] <= due'[c[3]]
        BY <2>1, <4>1
      <4>4. Distance(c, idx) \in Int
        BY <1>1, <3>0, <4>2, AheadIsLater
      <4>. QED BY <4>2, <4>3, <4>4
    <3>2. CASE c \in Copies({e}, left', idx)
      <4>1. /\ t > 0 /\ c = <<Place(t, idx)[1], Place(t, idx)[2], e>>
            /\ c[3] = e
        BY <1>2, <3>2 DEF Copies
      <4>2. ~FallsThrough(t, idx)
        BY <1>2, <2>2, <4>1 DEF Lost
      <4>3. t \in 1 .. MaxTimeout
        BY <4>1
      <4>4. c[2] > idx[c[1]] /\ Distance(c, idx) <= t
        BY <1>1, <4>1, <4>2, <4>3, PlaceNotLater
      <4>5. Distance(c, idx) \in Int
        BY <1>1, <3>0, <4>4, AheadIsLater
      <4>6. due'[e] \in Nat
        OBVIOUS
      <4>. QED BY <4>1, <4>3, <4>4, <4>5, <4>6
    <3>. QED BY <2>2, <3>1, <3>2
  <2>3. ASSUME NEW x \in Holders(wheels') \ misplaced'
        PROVE  left'[x] = 0 \/ left'[x] + (IF tickDue THEN 1 ELSE 0) <= due'[x]
    <3>1. x \in Events /\ x \notin misplaced
      BY <1>6, <2>3
    <3>2. CASE x = e
      <4>1. due'[e] \in Nat
        OBVIOUS
      <4>. QED BY <1>1, <1>2, <3>2, <4>1
    <3>3. CASE x # e
      <4>1. left'[x] = left[x] /\ due'[x] = due[x] /\ x \in Pending
        BY <1>1, <1>5, <3>1, <3>3, <2>3
      <4>. QED BY <2>1, <3>1, <4>1
    <3>. QED BY <3>2, <3>3
  <2>4. ASSUME NEW x \in Events, x \notin Holders(wheels')
        PROVE  left'[x] = 0
    <3>1. x \notin Pending
      BY <1>4, <2>4
    <3>2. CASE x = e
      BY <1>2, <1>3, <2>4, <3>1, <3>2
    <3>3. CASE x # e
      BY <1>1, <2>1, <3>1, <3>3
    <3>. QED BY <3>2, <3>3
  <2>. QED BY <2>2, <2>3, <2>4 DEF Timed, InTime, Pending
<1>. QED BY <1>1, <1>3, <1>7, <1>8, <1>9 DEF IInv, Track

\* An event that is armed and kept its place may still take a tick.
LEMMA DueLater ==
  ASSUME IInv
  PROVE  OnTime
<1> SUFFICES ASSUME NEW e \in Pending \ misplaced
             PROVE  due[e] > 0
  BY DEF OnTime
<1>1. PICK c \in wheels : c[3] = e
  BY DEF Pending, Holders
<1>2. c \in Level \X Nat \X Events /\ idx \in Hands
  BY DEF IInv, CopiesInPlace
<1>3. c[2] > idx[c[1]] /\ Distance(c, idx) <= due[e]
  BY <1>1 DEF IInv, Timed, InTime
<1>4. Distance(c, idx) \in Int /\ Distance(c, idx) >= 1
  BY <1>2, <1>3, AheadIsLater
<1>5. due[e] \in Nat
  BY <1>1, <1>2 DEF IInv, TypeOK
<1>. QED BY <1>3, <1>4, <1>5

\* Every step preserves the invariant.
LEMMA NextIInv == IInv /\ [Next]_vars => IInv'
<1> SUFFICES ASSUME IInv, [Next]_vars PROVE IInv'
  OBVIOUS
<1>1. /\ idx \in Hands /\ CopiesInPlace(wheels) /\ Ahead(wheels, misplaced, idx)
      /\ \A x \in Pending \ misplaced :
            Reaches(x, wheels, left, idx, IF tickDue THEN 0 ELSE 1)
      /\ left \in [Events -> 0 .. MaxTimeout]
      /\ due \in [Events -> 0 .. MaxTimeout + 1]
      /\ misplaced \subseteq Pending /\ idx \in [Level -> Nat] /\ tickDue \in BOOLEAN
  BY DEF IInv, TypeOK, Track, Pending
<1>2. ASSUME NEW e \in Events, NEW t \in SessionTimeouts, PostTimerEvent(e, t) PROVE IInv'
  <2>1. Capped(t) \in 0 .. MaxTimeout /\ Capped(t) > 0
    <3>1. t \in Nat
      OBVIOUS
    <3>. QED BY <1>2, <3>1 DEF Capped, PostTimerEvent
  <2>2. due' \in [Events -> 0 .. MaxTimeout + 1]
    BY <1>1, <1>2, <2>1 DEF PostTimerEvent
  <2>3. /\ Capped(t) + 1 <= due'[e] /\ e \notin Pending
        /\ \A x \in Events : x # e => due'[x] = due[x]
    BY <1>1, <1>2, <2>1 DEF PostTimerEvent
  <2>. QED BY <1>2, <2>1, <2>2, <2>3, InsertIInv DEF PostTimerEvent
<1>3. ASSUME NEW e \in Events, NEW t \in RefreshTimeouts, RefreshTimeout(e, t) PROVE IInv'
  <2>1. t \in 0 .. MaxTimeout
    OBVIOUS
  <2>2. due' \in [Events -> 0 .. MaxTimeout + 1]
    BY <1>1, <1>3, <2>1 DEF RefreshTimeout
  <2>3. /\ t + 1 <= due'[e] /\ due[e] <= due'[e]
        /\ \A x \in Events : x # e => due'[x] = due[x]
    <3>1. due[e] \in Nat /\ t \in Nat
      BY <1>1, <2>1
    <3>2. due' = [due EXCEPT ![e] = IF due[e] > t + 1 THEN due[e] ELSE t + 1]
      BY <1>3 DEF RefreshTimeout
    <3>3. due'[e] = IF due[e] > t + 1 THEN due[e] ELSE t + 1
      BY <1>1, <3>2
    <3>. QED BY <1>1, <3>1, <3>2, <3>3
  <2>. QED BY <1>3, <2>1, <2>2, <2>3, InsertIInv DEF RefreshTimeout
<1>4. CASE Tick
  <2>1. Stage(AfterTick) /\ AfterTick.ix \in Hands
    BY <1>4, TickStage DEF Tick
  <2> DEFINE st == AfterTick
  <2>. HIDE DEF st
  <2>2. /\ tickDue' = FALSE /\ idx' = st.ix /\ wheels' = st.w
        /\ misplaced' = st.lost \cap Holders(st.w)
        /\ left' = [e \in Events |-> IF e \in Holders(st.w) THEN left[e] ELSE 0]
        /\ due' = [e \in Events |-> IF e \in Holders(st.w) /\ due[e] > 0 THEN due[e] - 1 ELSE 0]
    BY <1>4 DEF Tick, st
  <2>3. /\ st.ix \in Hands /\ CopiesInPlace(st.w) /\ Ahead(st.w, st.lost, st.ix)
        /\ \A e \in Holders(st.w) \ st.lost : Reaches(e, st.w, left, st.ix, 1)
    BY <2>1 DEF Stage, st
  <2>4. Holders(st.w) \subseteq Events /\ st.ix \in [Level -> Nat]
    BY <2>3 DEF Holders, CopiesInPlace, Hands
  <2>5. /\ left' \in [Events -> 0 .. MaxTimeout]
        /\ due' \in [Events -> 0 .. MaxTimeout + 1]
    BY <1>1, <2>2
  <2>6. TypeOK'
    BY <2>2, <2>3, <2>4, <2>5 DEF TypeOK, Pending, CopiesInPlace
  <2>7. Ahead(st.w, misplaced', st.ix)
    BY <2>2, <2>3 DEF Ahead, Holders
  <2>8. ASSUME NEW e \in Holders(st.w) \ misplaced' PROVE Reaches(e, st.w, left', st.ix, 1)
    <3>1. Reaches(e, st.w, left, st.ix, 1) /\ left'[e] = left[e]
      BY <2>2, <2>3, <2>4, <2>8
    <3>. QED BY <3>1 DEF Reaches
  <2>9. Timed'
    <3>1. OnCourse(st)
      BY <2>1 DEF Stage, st
    <3>2. /\ \A e \in Pending \ misplaced : left[e] = 0 \/ left[e] + 1 <= due[e]
          /\ \A e \in Pending \ misplaced : due[e] > 0
      BY <1>4, DueLater DEF IInv, Timed, OnTime, Tick
    <3>3. ASSUME NEW e \in Holders(st.w) \ misplaced'
          PROVE  /\ e \in Pending \ misplaced /\ e \notin st.lost /\ e \in Events
                 /\ due[e] \in Nat /\ due'[e] = due[e] - 1 /\ left'[e] = left[e]
      <4>1. e \in Pending \ misplaced /\ e \notin st.lost /\ e \in Events
        BY <2>2, <2>4, <3>1, <3>3 DEF OnCourse
      <4>. QED BY <1>1, <2>2, <3>2, <3>3, <4>1
    <3>4. ASSUME NEW c \in st.w, c[3] \notin misplaced'
          PROVE  c[2] > st.ix[c[1]] /\ Distance(c, st.ix) <= due'[c[3]]
      <4>1. c[3] \in Holders(st.w) \ misplaced'
        BY <3>4 DEF Holders
      <4>2. c[3] \in Events /\ c[3] \notin st.lost /\ due'[c[3]] = due[c[3]] - 1
        BY <3>3, <4>1
      <4>. QED BY <3>1, <4>2 DEF OnCourse, InTime
    <3>5. ASSUME NEW e \in Holders(st.w) \ misplaced'
          PROVE  left'[e] = 0 \/ left'[e] + 0 <= due'[e]
      <4>1. left[e] = 0 \/ left[e] + 1 <= due[e]
        BY <3>2, <3>3, <3>5
      <4>2. left[e] \in Nat
        BY <1>1, <3>3, <3>5
      <4>. QED BY <3>3, <3>5, <4>1, <4>2
    <3>6. \A e \in Events : e \notin Holders(st.w) => left'[e] = 0
      BY <2>2
    <3>. QED BY <2>2, <3>4, <3>5, <3>6 DEF Timed, InTime, Pending
  <2>. QED BY <2>2, <2>3, <2>6, <2>7, <2>8, <2>9 DEF IInv, Track
<1>5. CASE ClockSecond
  <2>1. /\ tickDue' = TRUE /\ wheels' = wheels /\ idx' = idx /\ due' = due
        /\ misplaced' = misplaced
        /\ left' = [e \in Events |-> IF left[e] > 0 THEN left[e] - 1 ELSE 0]
    BY <1>5 DEF ClockSecond
  <2>2. left' \in [Events -> 0 .. MaxTimeout]
    BY <1>1, <2>1
  <2>3. TypeOK'
    BY <1>1, <2>1, <2>2 DEF TypeOK, Pending, CopiesInPlace
  <2>4. ASSUME NEW e \in Pending \ misplaced PROVE Reaches(e, wheels, left', idx, 0)
    <3>1. e \in Events /\ left[e] \in Nat /\ left'[e] \in Nat /\ idx[0] \in Nat
          /\ left'[e] = IF left[e] > 0 THEN left[e] - 1 ELSE 0
      BY <1>1, <2>1 DEF Pending, Holders, CopiesInPlace, Level
    <3>2. CASE left[e] <= 1
      BY <3>1, <3>2 DEF Reaches
    <3>3. CASE left[e] > 1
      <4>1. PICK c \in wheels : c[3] = e /\ (c[1] = 0 => c[2] >= left[e] + idx[0] - (IF tickDue THEN 0 ELSE 1))
        BY <1>1, <3>1, <3>3 DEF Reaches
      <4>2. c[2] \in Nat
        BY <1>1 DEF CopiesInPlace
      <4>3. c[1] = 0 => c[2] >= left'[e] + idx[0] - 0
        BY <1>1, <3>1, <3>3, <4>1, <4>2
      <4>. QED BY <4>1, <4>3 DEF Reaches
    <3>. QED BY <3>1, <3>2, <3>3
  <2>5. Timed'
    <3>1. /\ InTime(wheels, misplaced, idx, due)
          /\ \A e \in Pending \ misplaced : left[e] = 0 \/ left[e] + (IF tickDue THEN 1 ELSE 0) <= due[e]
          /\ \A e \in Events \ Pending : left[e] = 0
      BY DEF IInv, Timed
    <3>2. ASSUME NEW e \in Pending \ misplaced
          PROVE  left'[e] = 0 \/ left'[e] + 1 <= due[e]
      <4>1. e \in Events /\ left[e] \in Nat /\ due[e] \in Nat
            /\ left'[e] = IF left[e] > 0 THEN left[e] - 1 ELSE 0
        BY <1>1, <2>1 DEF Pending, Holders, CopiesInPlace
      <4>. QED BY <1>1, <3>1, <4>1
    <3>3. \A e \in Events \ Pending : left'[e] = 0
      BY <2>1, <3>1
    <3>. QED BY <2>1, <3>1, <3>2, <3>3 DEF Timed, InTime, Pending
  <2>. QED BY <1>1, <2>1, <2>3, <2>4, <2>5 DEF IInv, Track, Pending
<1>6. CASE UNCHANGED vars
  BY <1>6 DEF IInv, TypeOK, Track, Pending, Holders, CopiesInPlace, Ahead, Reaches, Timed, InTime, vars
<1>. QED BY <1>2, <1>3, <1>4, <1>5, <1>6 DEF Next
-----------------------------------------------------------------------------
(***************************************************************************)
(* Theorems.                                                               *)
(***************************************************************************)
\* The inductive invariant holds in every reachable state.
LEMMA Invariance == Spec => []IInv
BY InitIInv, NextIInv, PTL DEF Spec

\* The state of the wheel keeps its type: in particular every misplaced event is
\* still owned by a slot.
THEOREM TypeCorrect == Spec => []TypeOK
<1>1. IInv => TypeOK
  BY DEF IInv
<1>. QED BY <1>1, Invariance, PTL

\* No insertion and no tick indexes a wheel past its end (timer_wheel.cpp lines
\* 93, 124, 131 and 137), for wheels of any size.
THEOREM SlotsInRange == Spec => []SlotInRange
<1>1. IInv => SlotInRange
  <2> SUFFICES ASSUME IInv PROVE SlotInRange
    OBVIOUS
  <2>1. \A i \in Level : idx[i] < Size(i)
    BY DEF IInv, Hands, Level, Size
  <2>2. \A c \in wheels : c[2] < Size(c[1])
    BY DEF IInv, CopiesInPlace, Places
  <2>. QED BY <2>1, <2>2 DEF SlotInRange
<1>. QED BY <1>1, Invariance, PTL

\* No event that kept its place fires before the last second of its timeout.
THEOREM NeverTooEarly == Spec => NeverEarly
<1> DEFINE A == \A e \in Pending \ misplaced : e \notin Pending' => left[e] <= 1
<1>1. IInv /\ [Next]_vars => [A]_vars
  <2> SUFFICES ASSUME IInv, Next PROVE A \/ UNCHANGED vars
    BY DEF vars
  <2>1. CASE wheels \subseteq wheels'
    <3>1. Pending \subseteq Pending'
      BY <2>1 DEF Pending, Holders
    <3>. QED BY <3>1
  <2>2. CASE Tick
    <3>1. Stage(AfterTick) /\ wheels' = AfterTick.w
      BY <2>2, TickStage DEF Tick
    <3>. QED BY <3>1 DEF Stage, Pending
  <2>3. (\E e \in Events, t \in SessionTimeouts : PostTimerEvent(e, t)) => wheels \subseteq wheels'
    BY DEF PostTimerEvent
  <2>4. (\E e \in Events, t \in RefreshTimeouts : RefreshTimeout(e, t)) => wheels \subseteq wheels'
    BY DEF RefreshTimeout
  <2>5. ClockSecond => wheels \subseteq wheels'
    BY DEF ClockSecond
  <2>. QED BY <2>1, <2>2, <2>3, <2>4, <2>5 DEF Next
<1>. QED BY <1>1, Invariance, PTL DEF Spec, NeverEarly

\* An event that kept its place fires within one tick of the latest timeout it was
\* given, through every cascade and however late the ticks are.
THEOREM FiresOnTime == Spec => []OnTime
BY DueLater, Invariance, PTL

\* What an insertion for e does to the owned and the lost events.
LEMMA InsertAdds ==
  ASSUME IInv, NEW e \in Events, NEW t \in 0 .. MaxTimeout,
         left' = [left EXCEPT ![e] = t],
         wheels' = wheels \cup Copies({e}, left', idx),
         misplaced' = misplaced \cup Lost({e}, left', idx)
  PROVE  /\ left'[e] = t
         /\ misplaced' \in {misplaced, misplaced \cup {e}}
         /\ \A x \in misplaced' \ misplaced : x = e /\ t > 0 /\ FallsThrough(t, idx)
         /\ Pending \subseteq Pending' /\ Pending' \subseteq Pending \cup {e}
         /\ t > 0 => e \in Pending'
<1>1. left'[e] = t
  BY DEF IInv, TypeOK
<1>2. \A x \in Lost({e}, left', idx) : x = e /\ t > 0 /\ FallsThrough(t, idx)
  BY <1>1 DEF Lost
<1>3. misplaced' \in {misplaced, misplaced \cup {e}}
  BY <1>2
<1>4. Pending \subseteq Pending' /\ Pending' \subseteq Pending \cup {e}
  BY DEF Pending, Holders, Copies
<1>5. t > 0 => e \in Pending'
  <2>1. SUFFICES ASSUME t > 0 PROVE e \in Pending'
    OBVIOUS
  <2>2. PICK c \in Copies({e}, left', idx) : c[3] = e
    <3> DEFINE new == <<Place(left'[e], idx)[1], Place(left'[e], idx)[2], e>>
    <3>1. new \in Copies({e}, left', idx)
      BY <1>1, <2>1 DEF Copies
    <3>2. new[3] = e
      OBVIOUS
    <3>. HIDE DEF new
    <3>. QED BY <3>1, <3>2
  <2>3. \E d \in wheels' : d[3] = e
    BY <2>2
  <2>. QED BY <2>3 DEF Pending, Holders
<1>. QED BY <1>1, <1>2, <1>3, <1>4, <1>5

\* The timeouts that reach an insertion are at most MaxTimeout.
LEMMA CappedRange == \A t \in SessionTimeouts : Capped(t) \in 0 .. MaxTimeout
<1>1. \A t \in SessionTimeouts : t \in Nat
  OBVIOUS
<1>. QED BY <1>1 DEF Capped

\* What a tick does, seen from outside: who loses its last copy has at most the
\* second in progress left or was lost before, and who is lost now has its deadline
\* beyond the wrap.
LEMMA TickExpires ==
  ASSUME IInv, Tick
  PROVE  /\ Pending' \subseteq Pending
         /\ \A e \in Pending \ Pending' : left[e] <= 1 \/ e \in misplaced
         /\ left' = [e \in Events |-> IF e \in Pending' THEN left[e] ELSE 0]
         /\ misplaced \cap Pending' \subseteq misplaced' /\ misplaced' \subseteq Pending'
         /\ \A e \in misplaced' \ misplaced : At(idx') + left[e] >= S0 * S1 * S2
<1> DEFINE st == AfterTick
<1>1. Stage(st)
  BY TickStage DEF Tick
<1>2. /\ idx' = st.ix /\ wheels' = st.w
      /\ misplaced' = st.lost \cap Holders(st.w)
      /\ left' = [e \in Events |-> IF e \in Holders(st.w) THEN left[e] ELSE 0]
  BY DEF Tick
<1>. HIDE DEF st
<1>3. Pending' = Holders(st.w)
  BY <1>2 DEF Pending
<1>4. /\ misplaced \subseteq st.lost /\ Holders(st.w) \subseteq Pending
      /\ \A e \in st.lost \ misplaced : At(st.ix) + left[e] >= S0 * S1 * S2
      /\ \A e \in Pending \ misplaced : e \in Holders(st.w) \/ left[e] <= 1
  BY <1>1 DEF Stage, OnCourse
<1>5. \A e \in misplaced' \ misplaced : At(idx') + left[e] >= S0 * S1 * S2
  BY <1>2, <1>4
<1>. QED BY <1>2, <1>3, <1>4, <1>5

\* The insertion loop runs out of wheels only for deadlines beyond the next wrap of
\* the last wheel, when an event is added and when a cascade puts it down again.
THEOREM LostAcrossWrap == Spec => LostOnlyAcrossWrap
<1> DEFINE A == \A e \in Events :
                   (wheels' # wheels /\ e \in Pending' /\ (e \in misplaced' \ misplaced)) =>
                       Position' + left'[e] >= S0 * S1 * S2
<1>1. ASSUME IInv, Next PROVE A
  <2>1. ASSUME NEW e \in Events, NEW t \in 0 .. MaxTimeout,
               left' = [left EXCEPT ![e] = t],
               wheels' = wheels \cup Copies({e}, left', idx),
               misplaced' = misplaced \cup Lost({e}, left', idx),
               idx' = idx
        PROVE  A
    <3>1. /\ left'[e] = t
          /\ \A x \in misplaced' \ misplaced : x = e /\ t > 0 /\ FallsThrough(t, idx)
      BY <1>1, <2>1, InsertAdds
    <3>2. t > 0 /\ FallsThrough(t, idx) => At(idx) + t >= S0 * S1 * S2
      <4>1. idx \in Hands /\ (t > 0 => t \in 1 .. MaxTimeout)
        BY <1>1 DEF IInv
      <4>. QED BY <4>1, LostIsFar
    <3>3. Position' = At(idx)
      BY <2>1 DEF Position, At
    <3>. QED BY <3>1, <3>2, <3>3
  <2>2. ASSUME NEW e \in Events, NEW t \in SessionTimeouts, PostTimerEvent(e, t) PROVE A
    BY <2>1, <2>2, CappedRange DEF PostTimerEvent
  <2>3. ASSUME NEW e \in Events, NEW t \in RefreshTimeouts, RefreshTimeout(e, t) PROVE A
    <3>1. t \in 0 .. MaxTimeout
      OBVIOUS
    <3>. QED BY <2>1, <2>3, <3>1 DEF RefreshTimeout
  <2>4. CASE Tick
    <3>1. /\ \A e \in misplaced' \ misplaced : At(idx') + left[e] >= S0 * S1 * S2
          /\ left' = [e \in Events |-> IF e \in Pending' THEN left[e] ELSE 0]
      BY <1>1, <2>4, TickExpires
    <3>2. Position' = At(idx')
      BY DEF Position, At
    <3>3. \A e \in Events : e \in Pending' => left'[e] = left[e]
      BY <3>1
    <3>. QED BY <3>1, <3>2, <3>3
  <2>5. CASE ClockSecond
    BY <2>5 DEF ClockSecond
  <2>. QED BY <1>1, <2>2, <2>3, <2>4, <2>5 DEF Next
<1>2. IInv /\ [Next]_vars => [A]_vars
  BY <1>1
<1>. HIDE DEF A
<1>3. Spec => [][A]_vars
  BY <1>2, Invariance, PTL DEF Spec
<1>. QED BY <1>3 DEF LostOnlyAcrossWrap, A
-----------------------------------------------------------------------------
(***************************************************************************)
(* The refinement of the idle timer.                                       *)
(***************************************************************************)
\* What IdleTimer says of single steps: IdleSpec without its liveness part.
IdleSafety == Idle!Init /\ [][Idle!Next]_(Idle!vars)

\* Every step of the wheel is one of the idle timer, or none.
LEMMA IdleStep == IInv /\ [Next]_vars => [Idle!Next]_(Idle!vars)
<1> SUFFICES ASSUME IInv, [Next]_vars PROVE [Idle!Next]_(Idle!vars)
  OBVIOUS
<1> DEFINE timeouts == {Capped(t) : t \in SessionTimeouts} \cup RefreshTimeouts
<1>1. ASSUME NEW e \in Events, NEW t \in SessionTimeouts, PostTimerEvent(e, t)
      PROVE  Idle!Next
  <2>1. Capped(t) \in 0 .. MaxTimeout /\ Capped(t) > 0 /\ Capped(t) \in timeouts
    BY <1>1, CappedRange DEF PostTimerEvent
  <2>2. /\ misplaced' \in {misplaced, misplaced \cup {e}}
        /\ Pending \subseteq Pending' /\ Pending' \subseteq Pending \cup {e}
        /\ e \in Pending'
    BY <1>1, <2>1, InsertAdds DEF PostTimerEvent
  <2>3. Pending' = Pending \cup {e}
    BY <2>2
  <2>4. Idle!Arm(e, Capped(t))
    BY <1>1, <2>2, <2>3 DEF PostTimerEvent, Idle!Arm
  <2>. QED BY <2>1, <2>4 DEF Idle!Next
<1>2. ASSUME NEW e \in Events, NEW t \in RefreshTimeouts, RefreshTimeout(e, t)
      PROVE  Idle!Next
  <2>1. t \in 0 .. MaxTimeout /\ t \in timeouts
    OBVIOUS
  <2>2. /\ misplaced' \in {misplaced, misplaced \cup {e}}
        /\ Pending \subseteq Pending' /\ Pending' \subseteq Pending \cup {e}
    BY <1>2, <2>1, InsertAdds DEF RefreshTimeout
  <2>3. Pending' = Pending
    BY <1>2, <2>2 DEF RefreshTimeout
  <2>4. Idle!Rearm(e, t)
    BY <1>2, <2>2, <2>3 DEF RefreshTimeout, Idle!Rearm
  <2>. QED BY <2>1, <2>4 DEF Idle!Next
<1>3. CASE Tick
  <2> DEFINE es == Pending \ Pending'
  <2>1. /\ Pending' \subseteq Pending
        /\ \A e \in Pending \ Pending' : left[e] <= 1 \/ e \in misplaced
        /\ left' = [e \in Events |-> IF e \in Pending' THEN left[e] ELSE 0]
        /\ misplaced \cap Pending' \subseteq misplaced' /\ misplaced' \subseteq Pending'
    BY <1>3, TickExpires
  <2>2. /\ misplaced \subseteq Pending
        /\ \A e \in Events \ Pending : left[e] = 0
    BY DEF IInv, TypeOK, Timed
  <2>3. left' = [e \in Events |-> IF e \in es THEN 0 ELSE left[e]]
    BY <2>1, <2>2
  <2>4. Pending' = Pending \ es /\ misplaced \ es \subseteq misplaced'
    BY <2>1, <2>2
  <2>5. Idle!Expire(es)
    BY <2>1, <2>3, <2>4 DEF Idle!Expire
  <2>. QED BY <2>5 DEF Idle!Next
<1>4. CASE ClockSecond
  <2>1. Idle!Second
    BY <1>4 DEF ClockSecond, Idle!Second, Pending
  <2>. QED BY <2>1 DEF Idle!Next
<1>5. CASE UNCHANGED vars
  BY <1>5 DEF vars, Idle!vars, Pending
<1>. QED BY <1>1, <1>2, <1>3, <1>4, <1>5 DEF Next

\* The wheel implements the idle timer, as far as safety goes: an event expires
\* once, not more than the second in progress before its deadline unless it was
\* lost, and only a refresh moves the deadline.
THEOREM ImplementsIdle == Spec => IdleSafety
<1>1. Init => Idle!Init
  BY DEF Init, Idle!Init, Pending, Holders
<1>. QED BY <1>1, Invariance, IdleStep, PTL DEF Spec, IdleSafety
=============================================================================

---------------------------- MODULE JsonRpcProofs ----------------------------
(***************************************************************************)
(* Proofs about JSON-RPC over HTTP, for any number of calls and            *)
(* connections, bodies of any sizes and a buffer of any size.              *)
(***************************************************************************)
EXTENDS JsonRpc, TLAPS, WellFoundedInduction

USE JsonAssumption DEF JsonAssumption

-----------------------------------------------------------------------------
(***************************************************************************)
(* Sequences of pieces.                                                    *)
(***************************************************************************)
\* What a read takes from a buffer, and what it leaves there.
LEMMA Split ==
  ASSUME NEW S, NEW s \in Seq(S), NEW n \in 0 .. Len(s)
  PROVE  /\ Rest(s, n) \in Seq(S) /\ Len(Rest(s, n)) = Len(s) - n
         /\ \A i \in 1 .. Len(s) - n : Rest(s, n)[i] = s[n + i]
         /\ SubSeq(s, 1, n) \in Seq(S) /\ Len(SubSeq(s, 1, n)) = n
         /\ \A i \in 1 .. n : SubSeq(s, 1, n)[i] = s[i]
<1> DEFINE r == SubSeq(s, n + 1, Len(s))
           p == SubSeq(s, 1, n)
<1>1. n \in Nat /\ Len(s) \in Nat /\ n <= Len(s)
  OBVIOUS
<1>2. /\ r \in Seq(S) /\ Len(r) = Len(s) - n
      /\ \A i \in 1 .. Len(s) - n : r[i] = s[n + i]
  BY <1>1
<1>3. /\ p \in Seq(S) /\ Len(p) = n
      /\ \A i \in 1 .. n : p[i] = s[i]
  BY <1>1
<1>. QED BY <1>2, <1>3 DEF Rest

LEMMA Joined ==
  ASSUME NEW S, NEW a \in Seq(S), NEW b \in Seq(S)
  PROVE  /\ a \o b \in Seq(S) /\ Len(a \o b) = Len(a) + Len(b)
         /\ Len(a) \in Nat /\ Len(b) \in Nat
         /\ \A i \in 1 .. Len(a) : (a \o b)[i] = a[i]
         /\ \A i \in 1 .. Len(b) : (a \o b)[Len(a) + i] = b[i]
OBVIOUS

LEMMA SameSeq ==
  ASSUME NEW S, NEW s \in Seq(S), NEW t \in Seq(S), Len(s) = Len(t),
         \A i \in 1 .. Len(s) : s[i] = t[i]
  PROVE  s = t
OBVIOUS

\* A transfer moves pieces from the wire to the buffer and changes nothing of the two
\* together.
LEMMA Moved ==
  ASSUME NEW S, NEW a \in Seq(S), NEW b \in Seq(S), NEW n \in 0 .. Len(b)
  PROVE  (a \o SubSeq(b, 1, n)) \o Rest(b, n) = a \o b
<1> DEFINE p == SubSeq(b, 1, n)
           r == Rest(b, n)
<1>1. /\ p \in Seq(S) /\ Len(p) = n /\ \A i \in 1 .. n : p[i] = b[i]
      /\ r \in Seq(S) /\ Len(r) = Len(b) - n /\ \A i \in 1 .. Len(b) - n : r[i] = b[n + i]
      /\ n \in Nat /\ Len(b) \in Nat /\ n <= Len(b)
  BY Split
<1>. HIDE DEF p, r
<1> DEFINE ap == a \o p
           l == ap \o r
           m == a \o b
<1>2. /\ ap \in Seq(S) /\ Len(ap) = Len(a) + n /\ Len(a) \in Nat
      /\ \A i \in 1 .. Len(a) : ap[i] = a[i]
      /\ \A i \in 1 .. n : ap[Len(a) + i] = p[i]
  <2>1. a \in Seq(S) /\ p \in Seq(S) /\ Len(p) = n
    BY <1>1
  <2>2. ap \in Seq(S) /\ Len(ap) = Len(a) + Len(p) /\ Len(a) \in Nat
    BY <2>1
  <2>3. /\ \A i \in 1 .. Len(a) : ap[i] = a[i]
        /\ \A i \in 1 .. Len(p) : ap[Len(a) + i] = p[i]
    BY <2>1
  <2>. QED BY <2>1, <2>2, <2>3
<1>3. /\ m \in Seq(S) /\ Len(m) = Len(a) + Len(b)
      /\ \A i \in 1 .. Len(a) : m[i] = a[i]
      /\ \A i \in 1 .. Len(b) : m[Len(a) + i] = b[i]
  BY Joined
<1>. HIDE DEF ap, m
<1>4. /\ l \in Seq(S) /\ Len(l) = Len(ap) + Len(r)
      /\ \A i \in 1 .. Len(ap) : l[i] = ap[i]
      /\ \A i \in 1 .. Len(r) : l[Len(ap) + i] = r[i]
  <2>1. ap \in Seq(S) /\ r \in Seq(S)
    BY <1>1, <1>2
  <2>. QED BY <2>1, Joined
<1>. HIDE DEF l
<1>5. Len(l) = Len(m)
  BY <1>1, <1>2, <1>3, <1>4
<1>6. ASSUME NEW i \in 1 .. Len(l) PROVE l[i] = m[i]
  <2>1. CASE i <= Len(a)
    BY <1>1, <1>2, <1>3, <1>4, <2>1
  <2>2. CASE i > Len(a) /\ i <= Len(a) + n
    <3> DEFINE j == i - Len(a)
    <3>1. j \in 1 .. n /\ j \in 1 .. Len(b) /\ i = Len(a) + j /\ i \in 1 .. Len(ap)
      BY <1>1, <1>2, <2>2
    <3>. HIDE DEF j
    <3>2. l[i] = ap[i] /\ ap[Len(a) + j] = p[j] /\ p[j] = b[j] /\ m[Len(a) + j] = b[j]
      BY <1>1, <1>2, <1>3, <1>4, <3>1
    <3>. QED BY <3>1, <3>2
  <2>3. CASE i > Len(a) + n
    <3> DEFINE j == i - (Len(a) + n)
    <3>0. /\ Len(a) \in Nat /\ Len(b) \in Nat /\ n \in Nat /\ n <= Len(b)
          /\ Len(ap) = Len(a) + n /\ Len(r) = Len(b) - n
          /\ i \in 1 .. Len(ap) + Len(r)
      BY <1>1, <1>2, <1>4
    <3>1. j \in 1 .. Len(r) /\ n + j \in 1 .. Len(b) /\ i = Len(ap) + j /\ i = Len(a) + (n + j)
      BY <3>0, <2>3
    <3>. HIDE DEF j
    <3>2. l[Len(ap) + j] = r[j] /\ m[Len(a) + (n + j)] = b[n + j]
      BY <1>3, <1>4, <3>1
    <3>3. r[j] = b[n + j]
      BY <1>1, <3>1
    <3>. QED BY <3>1, <3>2, <3>3
  <2>. QED BY <1>1, <1>2, <2>1, <2>2, <2>3
<1>7. l = m
  BY <1>3, <1>4, <1>5, <1>6, SameSeq
<1>. QED BY <1>7 DEF l, m, ap, p, r

\* A read takes what it returns from the front of the two together.
LEMMA RestJoined ==
  ASSUME NEW S, NEW a \in Seq(S), NEW b \in Seq(S), NEW n \in 0 .. Len(a)
  PROVE  n \in 0 .. Len(a \o b) /\ Rest(a, n) \o b = Rest(a \o b, n)
<1> DEFINE r == Rest(a, n)
           l == r \o b
           m == a \o b
           t == Rest(m, n)
<1>1. /\ r \in Seq(S) /\ Len(r) = Len(a) - n /\ \A i \in 1 .. Len(a) - n : r[i] = a[n + i]
      /\ n \in Nat /\ Len(a) \in Nat /\ n <= Len(a)
  BY Split
<1>2. /\ m \in Seq(S) /\ Len(m) = Len(a) + Len(b) /\ Len(b) \in Nat
      /\ \A i \in 1 .. Len(a) : m[i] = a[i]
      /\ \A i \in 1 .. Len(b) : m[Len(a) + i] = b[i]
  BY Joined
<1>. HIDE DEF r, m
<1>3. /\ l \in Seq(S) /\ Len(l) = Len(r) + Len(b)
      /\ \A i \in 1 .. Len(r) : l[i] = r[i]
      /\ \A i \in 1 .. Len(b) : l[Len(r) + i] = b[i]
  <2>1. r \in Seq(S)
    BY <1>1
  <2>. QED BY <2>1, Joined
<1>4. n \in 0 .. Len(m)
  BY <1>1, <1>2
<1>5. /\ t \in Seq(S) /\ Len(t) = Len(m) - n /\ \A i \in 1 .. Len(m) - n : t[i] = m[n + i]
  <2>1. m \in Seq(S)
    BY <1>2
  <2>2. n \in Nat /\ Len(m) \in Nat /\ n <= Len(m)
    BY <1>4, <2>1
  <2>. QED BY <2>1, <2>2 DEF Rest
<1>. HIDE DEF l, t
<1>6. Len(l) = Len(t)
  BY <1>1, <1>2, <1>3, <1>5
<1>7. ASSUME NEW i \in 1 .. Len(l) PROVE l[i] = t[i]
  <2>1. CASE i <= Len(a) - n
    <3>1. i \in 1 .. Len(r) /\ i \in 1 .. Len(a) - n /\ n + i \in 1 .. Len(a)
          /\ i \in 1 .. Len(m) - n
      BY <1>1, <1>2, <2>1
    <3>. QED BY <1>1, <1>2, <1>3, <1>5, <3>1
  <2>2. CASE i > Len(a) - n
    <3> DEFINE j == i - (Len(a) - n)
    <3>1. j \in 1 .. Len(b) /\ i = Len(r) + j /\ n + i = Len(a) + j /\ i \in 1 .. Len(m) - n
      BY <1>1, <1>2, <1>3, <2>2
    <3>. HIDE DEF j
    <3>. QED BY <1>2, <1>3, <1>5, <3>1
  <2>. QED BY <1>1, <2>1, <2>2
<1>8. l = t
  BY <1>3, <1>5, <1>6, <1>7, SameSeq
<1>. QED BY <1>4, <1>8 DEF l, m, r, t

\* Every nonempty set of numbers has a least one.
LEMMA Least == ASSUME NEW S \in SUBSET Nat, S # {} PROVE \E p \in S : \A q \in S : p <= q
<1>1. PICK p \in S : \A q \in S : ~ (<<q, p>> \in OpToRel(<, Nat))
  BY NatLessThanWellFounded, WFMin
<1> DEFINE R == OpToRel(<, Nat)
<1>2. R = {ss \in Nat \X Nat : ss[1] < ss[2]}
  BY Zenon DEF OpToRel
<1>3. \A q \in S : <<q, p>> \notin R
  BY <1>1
<1>. HIDE DEF R
<1>4. ASSUME NEW q \in S PROVE p <= q
  <2>1. <<q, p>> \notin R /\ q \in Nat /\ p \in Nat
    BY <1>3
  <2>2. <<q, p>> \in Nat \X Nat /\ <<q, p>>[1] = q /\ <<q, p>>[2] = p
    BY <2>1
  <2>. QED BY <2>1, <2>2, <1>2
<1>. QED BY <1>4

\* The first header of a buffer ends in it.
LEMMA HeaderFound ==
  ASSUME NEW S, NEW b \in Seq(S)
  PROVE  /\ HeaderEnd(b) \in 0 .. Len(b)
         /\ HeaderEnd(b) # 0 => HeaderEnd(b) \in 1 .. Len(b) /\ b[HeaderEnd(b)].at = 0
<1>1. DOMAIN b = 1 .. Len(b) /\ Len(b) \in Nat
  OBVIOUS
<1>2. CASE \E i \in DOMAIN b : b[i].at = 0
  <2> DEFINE H == {i \in DOMAIN b : b[i].at = 0}
  <2>1. H \in SUBSET Nat /\ H # {}
    BY <1>1, <1>2
  <2>2. PICK p \in H : \A q \in H : p <= q
    <3>. HIDE DEF H
    <3>. QED BY <2>1, Least
  <2>3. p \in DOMAIN b /\ b[p].at = 0 /\ p \in Nat
    BY <1>1
  <2>4. \A j \in 1 .. p - 1 : b[j].at # 0
    <3>1. SUFFICES ASSUME NEW j \in 1 .. p - 1, b[j].at = 0 PROVE FALSE
      OBVIOUS
    <3>2. j \in 1 .. Len(b) /\ j < p /\ j \in Nat
      BY <1>1, <2>3
    <3>3. j \in H
      BY <1>1, <3>1, <3>2
    <3>. QED BY <2>2, <2>3, <3>2, <3>3
  <2>5. HeaderEnd(b) = CHOOSE i \in DOMAIN b : b[i].at = 0 /\ \A j \in 1 .. i - 1 : b[j].at # 0
    BY <1>2 DEF HeaderEnd
  <2>6. HeaderEnd(b) \in DOMAIN b /\ b[HeaderEnd(b)].at = 0
    BY <2>3, <2>4, <2>5
  <2>. QED BY <1>1, <2>6
<1>3. CASE ~ \E i \in DOMAIN b : b[i].at = 0
  BY <1>1, <1>3 DEF HeaderEnd
<1>. QED BY <1>2, <1>3
-----------------------------------------------------------------------------
(***************************************************************************)
(* The line of a connection: the responses on their way to the client, the *)
(* call whose handler runs and the requests on their way to it.            *)
(***************************************************************************)
Pieces == {p \in [call : Calls, at : Nat, size : BodySizes, error : BOOLEAN] : p.at <= p.size}

\* The order in which two pieces are written.
Before(p, q) == p.call < q.call \/ (p.call = q.call /\ p.at < q.at /\ p.size = q.size)

Ordered(s) == \A i \in DOMAIN s, j \in DOMAIN s : i < j => Before(s[i], s[j])

\* The responses R, the handler's call h (0 for none) and the requests Q of one
\* connection are of different calls, in their order, up to last.
Line(R, h, Q, last) ==
    /\ Ordered(R) /\ Ordered(Q) /\ h <= last
    /\ \A i \in DOMAIN R : R[i].call <= last /\ (h # 0 => R[i].call < h)
    /\ \A j \in DOMAIN Q : Q[j].call <= last /\ h < Q[j].call
    /\ \A i \in DOMAIN R, j \in DOMAIN Q : R[i].call < Q[j].call

\* The next header the client reads is of a call after f.
Above(f, R, h, Q) ==
    /\ \A i \in DOMAIN R : R[i].at = 0 => f < R[i].call
    /\ h # 0 => f < h
    /\ \A j \in DOMAIN Q : f < Q[j].call

\* So is the next piece of any kind.
AllAbove(f, R) == \A i \in DOMAIN R : f < R[i].call

Good(R, h, Q, last, F, G) ==
    /\ Line(R, h, Q, last)
    /\ \A f \in F : Above(f, R, h, Q)
    /\ \A f \in G : AllAbove(f, R)

\* t is a part of s.
Part(t, s) == \E d \in Nat : \A i \in DOMAIN t : d + i \in DOMAIN s /\ t[i] = s[d + i]

LEMMA PieceType ==
  /\ \A p \in Pieces : /\ p.call \in Nat /\ p.call > 0 /\ p.at \in Nat /\ p.size \in Nat
                       /\ p.at <= p.size
  /\ \A s \in Seq(Pieces) : DOMAIN s = 1 .. Len(s) /\ Len(s) \in Nat
  /\ \A s \in Seq(Pieces) : \A i \in DOMAIN s : s[i] \in Pieces /\ i \in Nat
<1>1. \A p \in Pieces : /\ p.call \in Nat /\ p.call > 0 /\ p.at \in Nat /\ p.size \in Nat
                        /\ p.at <= p.size
  <2> TAKE p \in Pieces
  <2>1. p.call \in Calls /\ p.at \in Nat /\ p.size \in BodySizes /\ p.at <= p.size
    BY DEF Pieces
  <2>2. p.call \in Nat /\ p.call > 0
    BY <2>1 DEF Calls
  <2>. QED BY <2>1, <2>2
<1>. QED BY <1>1

\* Parts of both sides, and a handler at most, keep the line.
LEMMA GoodPart ==
  ASSUME NEW R \in Seq(Pieces), NEW Q \in Seq(Pieces), NEW h \in Nat,
         NEW last \in Int, 0 <= last, NEW F \in SUBSET Int, NEW G \in SUBSET Int,
         Good(R, h, Q, last, F, G),
         NEW R2 \in Seq(Pieces), NEW Q2 \in Seq(Pieces), NEW h2 \in {h, 0},
         Part(R2, R), Part(Q2, Q)
  PROVE  Good(R2, h2, Q2, last, F, G)
<1>1. PICK d \in Nat : \A i \in DOMAIN R2 : d + i \in DOMAIN R /\ R2[i] = R[d + i]
  BY DEF Part
<1>2. PICK g \in Nat : \A j \in DOMAIN Q2 : g + j \in DOMAIN Q /\ Q2[j] = Q[g + j]
  BY DEF Part
<1>3. Ordered(R2)
  <2>1. SUFFICES ASSUME NEW i \in DOMAIN R2, NEW j \in DOMAIN R2, i < j
                 PROVE  Before(R2[i], R2[j])
    BY DEF Ordered
  <2>2. i \in Nat /\ j \in Nat /\ d + i < d + j
    BY <2>1
  <2>. QED BY <1>1, <2>2 DEF Good, Line, Ordered
<1>4. Ordered(Q2)
  <2>1. SUFFICES ASSUME NEW i \in DOMAIN Q2, NEW j \in DOMAIN Q2, i < j
                 PROVE  Before(Q2[i], Q2[j])
    BY DEF Ordered
  <2>2. i \in Nat /\ j \in Nat /\ g + i < g + j
    BY <2>1
  <2>. QED BY <1>2, <2>2 DEF Good, Line, Ordered
<1>5. ASSUME NEW i \in DOMAIN R2 PROVE R2[i].call <= last /\ (h2 # 0 => R2[i].call < h2)
  <2>1. d + i \in DOMAIN R /\ R2[i] = R[d + i] /\ R2[i].call \in Nat
    BY <1>1, PieceType
  <2>2. R[d + i].call <= last /\ (h # 0 => R[d + i].call < h)
    BY <2>1 DEF Good, Line
  <2>. QED BY <2>1, <2>2
<1>6. ASSUME NEW j \in DOMAIN Q2 PROVE Q2[j].call <= last /\ h2 < Q2[j].call
  <2>1. g + j \in DOMAIN Q /\ Q2[j] = Q[g + j] /\ Q2[j].call \in Nat /\ Q2[j].call > 0
    BY <1>2, PieceType
  <2>2. Q[g + j].call <= last /\ h < Q[g + j].call
    BY <2>1 DEF Good, Line
  <2>. QED BY <2>1, <2>2
<1>7. ASSUME NEW i \in DOMAIN R2, NEW j \in DOMAIN Q2 PROVE R2[i].call < Q2[j].call
  BY <1>1, <1>2 DEF Good, Line
<1>8. h2 <= last
  BY DEF Good, Line
<1>9. Line(R2, h2, Q2, last)
  BY <1>3, <1>4, <1>5, <1>6, <1>7, <1>8 DEF Line
<1>10. ASSUME NEW f \in F PROVE Above(f, R2, h2, Q2)
  <2>1. Above(f, R, h, Q)
    BY DEF Good
  <2>. QED BY <1>1, <1>2, <2>1 DEF Above
<1>11. ASSUME NEW f \in G PROVE AllAbove(f, R2)
  <2>1. AllAbove(f, R)
    BY DEF Good
  <2>. QED BY <1>1, <2>1 DEF AllAbove
<1>. QED BY <1>9, <1>10, <1>11 DEF Good

\* So does a later last call, and fewer calls to come after.
LEMMA GoodLess ==
  ASSUME NEW R \in Seq(Pieces), NEW Q \in Seq(Pieces), NEW h \in Nat,
         NEW last \in Int, NEW last2 \in Int, last <= last2,
         NEW F, NEW F2 \in SUBSET F, NEW G, NEW G2 \in SUBSET G,
         Good(R, h, Q, last, F, G)
  PROVE  Good(R, h, Q, last2, F2, G2)
<1>1. /\ \A i \in DOMAIN R : R[i].call \in Int
      /\ \A j \in DOMAIN Q : Q[j].call \in Int
  BY PieceType
<1>2. Line(R, h, Q, last2)
  BY <1>1 DEF Good, Line
<1>. QED BY <1>2 DEF Good

LEMMA GoodParts ==
  ASSUME NEW R \in Seq(Pieces), NEW R2 \in Seq(Pieces), NEW Q \in Seq(Pieces),
         NEW Q2 \in Seq(Pieces), NEW h \in Nat, NEW h2 \in {h, 0},
         NEW last \in Int, NEW last2 \in Int, last <= last2, 0 <= last,
         NEW F \in SUBSET Int, NEW F2 \in SUBSET F, NEW G \in SUBSET Int, NEW G2 \in SUBSET G,
         Part(R2, R), Part(Q2, Q), Good(R, h, Q, last, F, G)
  PROVE  Good(R2, h2, Q2, last2, F2, G2)
<1>1. Good(R2, h2, Q2, last, F, G)
  BY GoodPart
<1>2. h2 \in Nat
  OBVIOUS
<1>. QED BY <1>1, <1>2, GoodLess

\* The front and the rest of a sequence are parts of it, and so is the sequence.
LEMMA Parts ==
  ASSUME NEW s \in Seq(Pieces)
  PROVE  /\ Part(s, s) /\ Part(<<>>, s)
         /\ \A n \in 0 .. Len(s) : Part(Rest(s, n), s)
<1>1. Part(s, s)
  <2>1. 0 \in Nat /\ \A i \in DOMAIN s : 0 + i = i
    BY PieceType
  <2>. QED BY <2>1 DEF Part
<1>2. Part(<<>>, s)
  BY DEF Part
<1>3. ASSUME NEW n \in 0 .. Len(s) PROVE Part(Rest(s, n), s)
  <2>1. /\ Rest(s, n) \in Seq(Pieces) /\ Len(Rest(s, n)) = Len(s) - n
        /\ \A i \in 1 .. Len(s) - n : Rest(s, n)[i] = s[n + i]
    BY Split
  <2>2. DOMAIN Rest(s, n) = 1 .. Len(s) - n /\ DOMAIN s = 1 .. Len(s) /\ Len(s) \in Nat
        /\ n \in Nat
    BY <2>1, PieceType
  <2>3. \A i \in 1 .. Len(s) - n : n + i \in 1 .. Len(s)
    BY <2>2
  <2>. QED BY <2>1, <2>2, <2>3 DEF Part
<1>. QED BY <1>1, <1>2, <1>3

LEMMA JoinedParts ==
  ASSUME NEW a \in Seq(Pieces), NEW b \in Seq(Pieces)
  PROVE  Part(a, a \o b) /\ Part(b, a \o b)
<1> DEFINE m == a \o b
<1>1. /\ m \in Seq(Pieces) /\ Len(m) = Len(a) + Len(b) /\ Len(a) \in Nat /\ Len(b) \in Nat
      /\ \A i \in 1 .. Len(a) : m[i] = a[i]
      /\ \A i \in 1 .. Len(b) : m[Len(a) + i] = b[i]
  BY Joined
<1>2. DOMAIN m = 1 .. Len(a) + Len(b) /\ DOMAIN a = 1 .. Len(a) /\ DOMAIN b = 1 .. Len(b)
  BY <1>1, PieceType
<1>. HIDE DEF m
<1>3. Part(a, m)
  <2>1. Len(a) \in Nat /\ Len(b) \in Nat /\ 0 \in Nat
    BY <1>1
  <2>2. \A i \in 1 .. Len(a) : 0 + i = i /\ i \in 1 .. Len(a) + Len(b)
    BY <2>1
  <2>3. \A i \in DOMAIN a : 0 + i \in DOMAIN m /\ a[i] = m[0 + i]
    BY <1>1, <1>2, <2>2
  <2>. QED BY <2>1, <2>3 DEF Part
<1>4. Part(b, m)
  <2>1. \A i \in 1 .. Len(b) : Len(a) + i \in 1 .. Len(a) + Len(b)
    BY <1>1
  <2>. QED BY <1>1, <1>2, <2>1 DEF Part
<1>. QED BY <1>3, <1>4 DEF m

\* Behind the whole body of a call, or behind its header, come later pieces only.
LEMMA BehindBody ==
  ASSUME NEW s \in Seq(Pieces), Ordered(s), NEW n \in 1 .. Len(s),
         s[n].at = n, s[1].size = n, s[1].call = s[n].call
  PROVE  \A j \in DOMAIN s : j > n => s[1].call < s[j].call
<1> SUFFICES ASSUME NEW j \in DOMAIN s, j > n PROVE s[1].call < s[j].call
  OBVIOUS
<1>1. DOMAIN s = 1 .. Len(s) /\ 1 \in DOMAIN s /\ n \in DOMAIN s /\ n \in Nat /\ j \in Nat
  BY PieceType
<1>2. Before(s[n], s[j])
  BY <1>1 DEF Ordered
<1>3. n # 1 => Before(s[1], s[n])
  BY <1>1 DEF Ordered
<1>4. s[1] \in Pieces /\ s[n] \in Pieces /\ s[j] \in Pieces
  BY <1>1, PieceType
<1>5. s[n].size = n
  BY <1>3, <1>4, PieceType DEF Before
<1>6. s[j].at <= s[j].size /\ s[j].at \in Nat /\ s[j].size \in Nat
  BY <1>4, PieceType
<1>. QED BY <1>1, <1>2, <1>5, <1>6 DEF Before

LEMMA BehindHeader ==
  ASSUME NEW s \in Seq(Pieces), Ordered(s), NEW e \in 1 .. Len(s), s[e].at = 0,
         NEW j \in DOMAIN s, j > e
  PROVE  s[e].call <= s[j].call /\ (s[j].at = 0 => s[e].call < s[j].call)
<1>1. DOMAIN s = 1 .. Len(s) /\ e \in DOMAIN s /\ e \in Nat /\ j \in Nat
  BY PieceType
<1>2. Before(s[e], s[j])
  BY <1>1 DEF Ordered
<1>3. s[e] \in Pieces /\ s[j] \in Pieces
  BY <1>1, PieceType
<1>4. s[e].call \in Nat /\ s[j].call \in Nat
  BY <1>3, PieceType
<1>. QED BY <1>2, <1>4 DEF Before

\* What is said of every piece of the rest of a sequence.
LEMMA InRest ==
  ASSUME NEW s \in Seq(Pieces), NEW n \in 0 .. Len(s), NEW i \in DOMAIN Rest(s, n)
  PROVE  n + i \in DOMAIN s /\ n + i > n /\ Rest(s, n)[i] = s[n + i]
<1>1. /\ Rest(s, n) \in Seq(Pieces) /\ Len(Rest(s, n)) = Len(s) - n
      /\ \A k \in 1 .. Len(s) - n : Rest(s, n)[k] = s[n + k]
  BY Split
<1>2. DOMAIN Rest(s, n) = 1 .. Len(s) - n /\ DOMAIN s = 1 .. Len(s) /\ Len(s) \in Nat /\ n \in Nat
  BY <1>1, PieceType
<1>. QED BY <1>1, <1>2

\* The client reads a header.
LEMMA GoodHeader ==
  ASSUME NEW R \in Seq(Pieces), NEW Q \in Seq(Pieces), NEW h \in Nat, NEW last \in Nat,
         NEW F \in SUBSET Int, Good(R, h, Q, last, F, {}),
         NEW e \in 1 .. Len(R), R[e].at = 0
  PROVE  /\ R[e].call \in Nat /\ R[e].call <= last /\ \A f \in F : f < R[e].call
         /\ Good(Rest(R, e), h, Q, last, F \cup {R[e].call}, F)
<1> DEFINE r == Rest(R, e)
           c == R[e].call
<1>1. e \in 0 .. Len(R) /\ e \in DOMAIN R /\ R[e] \in Pieces
  BY PieceType
<1>2. r \in Seq(Pieces) /\ Part(r, R) /\ Part(Q, Q) /\ c \in Nat
  BY <1>1, Split, Parts, PieceType
<1>3. Ordered(R)
  BY DEF Good, Line
<1>4. \A f \in F : f < c
  BY <1>1 DEF Good, Above
<1>5. c <= last /\ (h # 0 => c < h) /\ \A j \in DOMAIN Q : c < Q[j].call
  BY <1>1 DEF Good, Line
<1>6. Good(r, h, Q, last, F, {})
  <2>. HIDE DEF r
  <2>1. /\ h \in {h, 0} /\ last \in Int /\ last <= last /\ 0 <= last
        /\ F \in SUBSET F /\ {} \in SUBSET {}
    OBVIOUS
  <2>. QED BY <1>2, <2>1, GoodParts
<1>7. ASSUME NEW i \in DOMAIN r PROVE c <= r[i].call /\ (r[i].at = 0 => c < r[i].call) /\ r[i].call \in Nat
  <2>1. e + i \in DOMAIN R /\ e + i > e /\ r[i] = R[e + i]
    BY <1>1, InRest
  <2>2. c <= R[e + i].call /\ (R[e + i].at = 0 => c < R[e + i].call)
    BY <1>3, <2>1, BehindHeader
  <2>3. R[e + i] \in Pieces
    BY <2>1, PieceType
  <2>. QED BY <2>1, <2>2, <2>3, PieceType
<1>. HIDE DEF r, c
<1>8. Above(c, r, h, Q)
  BY <1>5, <1>7 DEF Above
<1>9. ASSUME NEW f \in F PROVE AllAbove(f, r)
  BY <1>2, <1>4, <1>7 DEF AllAbove
<1>10. Good(r, h, Q, last, F \cup {c}, F)
  BY <1>6, <1>8, <1>9 DEF Good
<1>. QED BY <1>2, <1>4, <1>5, <1>10 DEF r, c

\* A whole body in front of a sequence.
Body(s, n) ==
    /\ n \in 1 .. Len(s) /\ s[1].size = n
    /\ \A i \in 1 .. n : s[i].at = i /\ s[i].call = s[1].call

LEMMA BodyInFront ==
  ASSUME NEW s \in Seq(Pieces), NEW n \in 1 .. Len(s), WholeBody(SubSeq(s, 1, n))
  PROVE  /\ Body(s, n) /\ SubSeq(s, 1, n)[1] = s[1]
<1> DEFINE b == SubSeq(s, 1, n)
<1>1. n \in 0 .. Len(s) /\ 1 \in 1 .. n /\ n \in Nat
  OBVIOUS
<1>2. /\ b \in Seq(Pieces) /\ Len(b) = n
      /\ \A i \in 1 .. n : b[i] = s[i]
  BY <1>1, Split
<1>. HIDE DEF b
<1>3. WholeBody(b)
  BY DEF b
<1>4. DOMAIN b = 1 .. n
  BY <1>2, PieceType
<1>5. b[1] = s[1]
  BY <1>1, <1>2
<1>6. n = s[1].size /\ \A i \in 1 .. n : s[i].at = i /\ s[i].call = s[1].call
  <2>1. Len(b) = b[1].size /\ \A i \in 1 .. n : b[i].at = i /\ b[i].call = b[1].call
    BY <1>3, <1>4 DEF WholeBody
  <2>. QED BY <1>2, <1>5, <2>1
<1>. QED BY <1>5, <1>6 DEF Body, b

LEMMA BodyJoined ==
  ASSUME NEW a \in Seq(Pieces), NEW b \in Seq(Pieces), NEW n \in 1 .. Len(a), Body(a, n)
  PROVE  Body(a \o b, n) /\ (a \o b)[1] = a[1]
<1> DEFINE m == a \o b
<1>1. /\ m \in Seq(Pieces) /\ Len(m) = Len(a) + Len(b) /\ Len(a) \in Nat /\ Len(b) \in Nat
      /\ \A i \in 1 .. Len(a) : m[i] = a[i]
  BY Joined
<1>. HIDE DEF m
<1>2. n \in 1 .. Len(m) /\ \A i \in 1 .. n : m[i] = a[i]
  BY <1>1
<1>3. m[1] = a[1]
  BY <1>2
<1>. QED BY <1>2, <1>3 DEF Body, m

\* Behind a whole body come pieces of later calls only.
LEMMA RestAbove ==
  ASSUME NEW s \in Seq(Pieces), Ordered(s), NEW n \in 1 .. Len(s), Body(s, n)
  PROVE  AllAbove(s[1].call, Rest(s, n))
<1>1. n \in 0 .. Len(s) /\ n \in 1 .. n
  OBVIOUS
<1>2. s[n].at = n /\ s[1].size = n /\ s[1].call = s[n].call
  BY <1>1 DEF Body
<1>3. ASSUME NEW i \in DOMAIN Rest(s, n) PROVE s[1].call < Rest(s, n)[i].call
  <2>1. n + i \in DOMAIN s /\ n + i > n /\ Rest(s, n)[i] = s[n + i]
    BY <1>1, InRest
  <2>. QED BY <1>2, <2>1, BehindBody
<1>. QED BY <1>3 DEF AllAbove

\* The client reads a whole body.
LEMMA GoodBody ==
  ASSUME NEW R \in Seq(Pieces), NEW Q \in Seq(Pieces), NEW h \in Nat, NEW last \in Nat,
         NEW F \in SUBSET Int, NEW G \in SUBSET Int, Good(R, h, Q, last, F, G),
         NEW n \in 1 .. Len(R), Body(R, n)
  PROVE  /\ R[1].call \in Nat /\ R[1].call <= last /\ \A f \in G : f < R[1].call
         /\ Good(Rest(R, n), h, Q, last, F \cup {R[1].call}, {})
<1> DEFINE r == Rest(R, n)
           c == R[1].call
<1>1. n \in 0 .. Len(R) /\ 1 \in DOMAIN R /\ R[1] \in Pieces
  BY PieceType
<1>2. r \in Seq(Pieces) /\ Part(r, R) /\ Part(Q, Q) /\ c \in Nat
  BY <1>1, Split, Parts, PieceType
<1>3. Ordered(R)
  BY DEF Good, Line
<1>4. \A f \in G : f < c
  BY <1>1 DEF Good, AllAbove
<1>5. c <= last /\ (h # 0 => c < h) /\ \A j \in DOMAIN Q : c < Q[j].call
  BY <1>1 DEF Good, Line
<1>6. Good(r, h, Q, last, F, {})
  <2>. HIDE DEF r
  <2>1. /\ h \in {h, 0} /\ last \in Int /\ last <= last /\ 0 <= last
        /\ F \in SUBSET F /\ {} \in SUBSET G
    OBVIOUS
  <2>. QED BY <1>2, <2>1, GoodParts
<1>7. AllAbove(c, r)
  BY <1>3, RestAbove
<1>. HIDE DEF r, c
<1>8. Above(c, r, h, Q)
  BY <1>5, <1>7 DEF Above, AllAbove
<1>9. Good(r, h, Q, last, F \cup {c}, {})
  BY <1>6, <1>8 DEF Good
<1>. QED BY <1>2, <1>4, <1>5, <1>9 DEF r, c

\* A message is a header and its body.
LEMMA MessageType ==
  ASSUME NEW c \in Calls, NEW size \in BodySizes, NEW error \in BOOLEAN
  PROVE  /\ Message(c, size, error) \in Seq(Pieces)
         /\ Len(Message(c, size, error)) = size + 1
         /\ \A i \in 1 .. size + 1 : /\ Message(c, size, error)[i].call = c
                                     /\ Message(c, size, error)[i].at = i - 1
                                     /\ Message(c, size, error)[i].size = size
<1> DEFINE m == Message(c, size, error)
<1>1. m = [i \in 1 .. size + 1 |-> [call |-> c, at |-> i - 1, size |-> size, error |-> error]]
  BY DEF Message
<1>2. size \in Nat /\ size + 1 \in Nat
  OBVIOUS
<1>3. ASSUME NEW i \in 1 .. size + 1
      PROVE  [call |-> c, at |-> i - 1, size |-> size, error |-> error] \in Pieces
  <2>1. i - 1 \in Nat /\ i - 1 <= size
    BY <1>2
  <2>. QED BY <2>1 DEF Pieces
<1>4. m \in Seq(Pieces) /\ Len(m) = size + 1
  <2>. HIDE DEF Pieces
  <2>1. m \in [1 .. size + 1 -> Pieces]
    BY <1>1, <1>3
  <2>. HIDE DEF m
  <2>. QED BY <1>2, <2>1
<1>5. \A i \in 1 .. size + 1 : m[i].call = c /\ m[i].at = i - 1 /\ m[i].size = size
  BY <1>1
<1>. QED BY <1>4, <1>5 DEF m

\* A message of a later call behind a sequence of pieces.
LEMMA OrderedMessage ==
  ASSUME NEW s \in Seq(Pieces), Ordered(s),
         NEW c \in Calls, NEW size \in BodySizes, NEW error \in BOOLEAN,
         \A i \in DOMAIN s : s[i].call < c
  PROVE  LET t == s \o Message(c, size, error)
         IN  /\ t \in Seq(Pieces) /\ Ordered(t)
             /\ \A i \in DOMAIN t : t[i].call = c \/ (i \in DOMAIN s /\ t[i] = s[i])
<1> DEFINE m == Message(c, size, error)
           t == s \o m
<1>1. /\ m \in Seq(Pieces) /\ Len(m) = size + 1
      /\ \A i \in 1 .. size + 1 : m[i].call = c /\ m[i].at = i - 1 /\ m[i].size = size
  <2>1. m \in Seq(Pieces)
    BY MessageType
  <2>2. Len(m) = size + 1
    BY MessageType
  <2>3. \A i \in 1 .. size + 1 : m[i].call = c /\ m[i].at = i - 1 /\ m[i].size = size
    BY MessageType
  <2>. QED BY <2>1, <2>2, <2>3
<1>. HIDE DEF m
<1>2. /\ t \in Seq(Pieces) /\ Len(t) = Len(s) + (size + 1) /\ Len(s) \in Nat /\ size \in Nat
      /\ \A i \in 1 .. Len(s) : t[i] = s[i]
      /\ \A i \in 1 .. size + 1 : t[Len(s) + i] = m[i]
  <2>1. m \in Seq(Pieces) /\ Len(m) = size + 1 /\ size \in Nat
    BY <1>1
  <2>2. t \in Seq(Pieces) /\ Len(t) = Len(s) + Len(m) /\ Len(s) \in Nat
    BY <2>1, Joined
  <2>3. /\ \A i \in 1 .. Len(s) : t[i] = s[i]
        /\ \A i \in 1 .. Len(m) : t[Len(s) + i] = m[i]
    BY <2>1, Joined
  <2>. QED BY <2>1, <2>2, <2>3
<1>3. DOMAIN t = 1 .. Len(s) + (size + 1) /\ DOMAIN s = 1 .. Len(s)
  BY <1>2, PieceType
<1>. HIDE DEF t
<1>4. ASSUME NEW i \in DOMAIN t
      PROVE  \/ i \in DOMAIN s /\ t[i] = s[i]
             \/ /\ i > Len(s) /\ t[i].call = c /\ t[i].size = size
                /\ t[i].at = i - Len(s) - 1
  <2>1. CASE i <= Len(s)
    BY <1>2, <1>3, <2>1
  <2>2. CASE i > Len(s)
    <3> DEFINE j == i - Len(s)
    <3>1. j \in 1 .. size + 1 /\ i = Len(s) + j
      BY <1>2, <1>3, <2>2
    <3>2. i - Len(s) - 1 = j - 1
      OBVIOUS
    <3>. HIDE DEF j
    <3>. QED BY <1>1, <1>2, <2>2, <3>1, <3>2
  <2>. QED BY <1>2, <1>3, <2>1, <2>2
<1>5. ASSUME NEW i \in DOMAIN t, NEW j \in DOMAIN t, i < j PROVE Before(t[i], t[j])
  <2>0. i \in Nat /\ j \in Nat /\ Len(s) \in Nat
    BY <1>2, <1>3
  <2>1. CASE j \in DOMAIN s /\ t[j] = s[j]
    <3>1. i \in DOMAIN s /\ t[i] = s[i]
      BY <1>2, <1>3, <1>5, <2>0, <2>1
    <3>. QED BY <1>5, <2>1, <3>1 DEF Ordered
  <2>2. CASE i \in DOMAIN s /\ t[i] = s[i] /\ t[j].call = c
    BY <2>2 DEF Before
  <2>3. CASE /\ i > Len(s) /\ t[i].call = c /\ t[i].size = size /\ t[i].at = i - Len(s) - 1
             /\ j > Len(s) /\ t[j].call = c /\ t[j].size = size /\ t[j].at = j - Len(s) - 1
    <3>1. i - Len(s) - 1 < j - Len(s) - 1
      BY <1>5, <2>0
    <3>. QED BY <2>3, <3>1 DEF Before
  <2>4. i > Len(s) => j \notin DOMAIN s
    BY <1>3, <1>5, <2>0
  <2>. QED BY <1>4, <2>1, <2>2, <2>3, <2>4
<1>. QED BY <1>2, <1>4, <1>5 DEF Ordered, t, m

\* The client sends a request.
LEMMA GoodSend ==
  ASSUME NEW R \in Seq(Pieces), NEW Q \in Seq(Pieces), NEW h \in Nat, NEW c \in Calls,
         NEW size \in BodySizes, NEW error \in BOOLEAN,
         NEW F \in SUBSET Int, NEW G \in SUBSET Int, Good(R, h, Q, c - 1, F, G),
         \A f \in F : f < c
  PROVE  Good(R, h, Q \o Message(c, size, error), c, F, G)
<1> DEFINE t == Q \o Message(c, size, error)
<1>1. c \in Nat /\ c - 1 \in Int /\ \A n \in Int : n <= c - 1 => n < c /\ n <= c
  BY DEF Calls
<1>2. /\ \A i \in DOMAIN R : R[i].call < c /\ R[i].call <= c /\ (h # 0 => R[i].call < h)
      /\ \A j \in DOMAIN Q : Q[j].call < c /\ Q[j].call <= c /\ h < Q[j].call
      /\ h < c /\ h <= c
  <2>1. /\ \A i \in DOMAIN R : R[i].call \in Int
        /\ \A j \in DOMAIN Q : Q[j].call \in Int
    BY PieceType
  <2>. QED BY <1>1, <2>1 DEF Good, Line
<1>3. Ordered(R) /\ Ordered(Q) /\ \A i \in DOMAIN R, j \in DOMAIN Q : R[i].call < Q[j].call
  BY DEF Good, Line
<1>4. /\ t \in Seq(Pieces) /\ Ordered(t)
      /\ \A j \in DOMAIN t : t[j].call = c \/ (j \in DOMAIN Q /\ t[j] = Q[j])
  BY <1>2, <1>3, OrderedMessage
<1>. HIDE DEF t
<1>5. Line(R, h, t, c)
  <2>1. ASSUME NEW j \in DOMAIN t PROVE t[j].call <= c /\ h < t[j].call
    BY <1>1, <1>2, <1>4
  <2>2. ASSUME NEW i \in DOMAIN R, NEW j \in DOMAIN t PROVE R[i].call < t[j].call
    BY <1>2, <1>3, <1>4
  <2>. QED BY <1>2, <1>3, <1>4, <2>1, <2>2 DEF Line
<1>6. ASSUME NEW f \in F PROVE Above(f, R, h, t)
  <2>1. Above(f, R, h, Q)
    BY DEF Good
  <2>. QED BY <1>4, <2>1 DEF Above
<1>7. \A f \in G : AllAbove(f, R)
  BY DEF Good
<1>. QED BY <1>5, <1>6, <1>7 DEF Good, t

\* The handler returns and its response is written.
LEMMA GoodRespond ==
  ASSUME NEW R \in Seq(Pieces), NEW Q \in Seq(Pieces), NEW h \in Calls, NEW last \in Int,
         NEW size \in BodySizes, NEW error \in BOOLEAN,
         NEW F \in SUBSET Int, NEW G \in SUBSET F, Good(R, h, Q, last, F, G)
  PROVE  Good(R \o Message(h, size, error), 0, Q, last, F, G)
<1> DEFINE t == R \o Message(h, size, error)
<1>1. h \in Nat /\ h # 0 /\ h > 0 /\ h <= last /\ 0 <= last
  <2>1. h \in Nat /\ h # 0 /\ h > 0 /\ h <= last
    BY DEF Calls, Good, Line
  <2>. QED BY <2>1
<1>2. /\ \A i \in DOMAIN R : R[i].call <= last /\ R[i].call < h
      /\ \A j \in DOMAIN Q : Q[j].call <= last /\ h < Q[j].call
      /\ \A i \in DOMAIN R, j \in DOMAIN Q : R[i].call < Q[j].call
      /\ Ordered(R) /\ Ordered(Q)
  BY <1>1 DEF Good, Line
<1>3. /\ t \in Seq(Pieces) /\ Ordered(t)
      /\ \A i \in DOMAIN t : t[i].call = h \/ (i \in DOMAIN R /\ t[i] = R[i])
  BY <1>2, OrderedMessage
<1>4. \A j \in DOMAIN Q : 0 < Q[j].call
  BY PieceType
<1>. HIDE DEF t
<1>5. Line(t, 0, Q, last)
  BY <1>1, <1>2, <1>3, <1>4 DEF Line
<1>6. \A f \in F : f < h
  BY <1>1 DEF Good, Above
<1>7. ASSUME NEW f \in F PROVE Above(f, t, 0, Q)
  <2>1. Above(f, R, h, Q)
    BY DEF Good
  <2>. QED BY <1>3, <1>6, <2>1 DEF Above
<1>8. ASSUME NEW f \in G PROVE AllAbove(f, t)
  <2>1. AllAbove(f, R) /\ f < h
    BY <1>6 DEF Good
  <2>. QED BY <1>3, <2>1 DEF AllAbove
<1>. QED BY <1>5, <1>7, <1>8 DEF Good, t

\* The server dispatches a request.
LEMMA GoodDispatch ==
  ASSUME NEW R \in Seq(Pieces), NEW Q \in Seq(Pieces), NEW last \in Int,
         NEW F \in SUBSET Int, NEW G \in SUBSET Int, Good(R, 0, Q, last, F, G),
         NEW n \in 1 .. Len(Q), Body(Q, n)
  PROVE  Q[1].call \in Calls /\ Good(R, Q[1].call, Rest(Q, n), last, F, G)
<1> DEFINE r == Rest(Q, n)
           c == Q[1].call
<1>1. n \in 0 .. Len(Q) /\ 1 \in DOMAIN Q /\ Q[1] \in Pieces
  BY PieceType
<1>2. c \in Calls /\ c \in Nat
  BY <1>1 DEF Pieces, Calls
<1>3. /\ \A i \in DOMAIN R : R[i].call <= last /\ R[i].call < c
      /\ \A j \in DOMAIN Q : Q[j].call <= last
      /\ \A i \in DOMAIN R, j \in DOMAIN Q : R[i].call < Q[j].call
      /\ Ordered(R) /\ Ordered(Q) /\ c <= last
  BY <1>1 DEF Good, Line
<1>4. \A j \in DOMAIN r : n + j \in DOMAIN Q /\ r[j] = Q[n + j]
  BY <1>1, InRest
<1>5. AllAbove(c, r)
  BY <1>3, RestAbove
<1>6. Ordered(r)
  <2>1. SUFFICES ASSUME NEW i \in DOMAIN r, NEW j \in DOMAIN r, i < j
                 PROVE  Before(r[i], r[j])
    BY DEF Ordered
  <2>2. r \in Seq(Pieces)
    BY <1>1, Split
  <2>3. i \in Nat /\ j \in Nat /\ n \in Nat
    BY <2>2, PieceType
  <2>4. n + i < n + j
    BY <2>1, <2>3
  <2>. QED BY <1>3, <1>4, <2>4 DEF Ordered
<1>. HIDE DEF r
<1>7. Line(R, c, r, last)
  <2>. HIDE DEF c
  <2>. QED BY <1>3, <1>4, <1>5, <1>6 DEF Line, AllAbove
<1>8. ASSUME NEW f \in F PROVE Above(f, R, c, r)
  <2>1. Above(f, R, 0, Q)
    BY DEF Good
  <2>. QED BY <1>1, <1>4, <2>1 DEF Above
<1>9. \A f \in G : AllAbove(f, R)
  BY DEF Good
<1>10. Good(R, c, r, last, F, G)
  BY <1>7, <1>8, <1>9 DEF Good
<1>. QED BY <1>2, <1>10 DEF r

LEMMA BehindBoth ==
  ASSUME NEW a \in Seq(Pieces), NEW b \in Seq(Pieces), NEW c \in Seq(Pieces)
  PROVE  a \o (b \o c) = (a \o b) \o c
<1> DEFINE ab == a \o b
           bc == b \o c
           l == a \o bc
           r == ab \o c
<1>1. /\ ab \in Seq(Pieces) /\ Len(ab) = Len(a) + Len(b) /\ Len(a) \in Nat /\ Len(b) \in Nat
      /\ \A i \in 1 .. Len(a) : ab[i] = a[i]
      /\ \A i \in 1 .. Len(b) : ab[Len(a) + i] = b[i]
  BY Joined
<1>2. /\ bc \in Seq(Pieces) /\ Len(bc) = Len(b) + Len(c) /\ Len(c) \in Nat
      /\ \A i \in 1 .. Len(b) : bc[i] = b[i]
      /\ \A i \in 1 .. Len(c) : bc[Len(b) + i] = c[i]
  BY Joined
<1>. HIDE DEF ab, bc
<1>3. /\ l \in Seq(Pieces) /\ Len(l) = Len(a) + Len(bc)
      /\ \A i \in 1 .. Len(a) : l[i] = a[i]
      /\ \A i \in 1 .. Len(bc) : l[Len(a) + i] = bc[i]
  <2>1. bc \in Seq(Pieces)
    BY <1>2
  <2>. QED BY <2>1, Joined
<1>4. /\ r \in Seq(Pieces) /\ Len(r) = Len(ab) + Len(c)
      /\ \A i \in 1 .. Len(ab) : r[i] = ab[i]
      /\ \A i \in 1 .. Len(c) : r[Len(ab) + i] = c[i]
  <2>1. ab \in Seq(Pieces)
    BY <1>1
  <2>. QED BY <2>1, Joined
<1>. HIDE DEF l, r
<1>5. Len(l) = Len(r)
  BY <1>1, <1>2, <1>3, <1>4
<1>6. ASSUME NEW i \in 1 .. Len(l) PROVE l[i] = r[i]
  <2>1. CASE i <= Len(a)
    <3>1. i \in 1 .. Len(a) /\ i \in 1 .. Len(ab)
      BY <1>1, <2>1
    <3>. QED BY <1>1, <1>3, <1>4, <3>1
  <2>2. CASE i > Len(a) /\ i <= Len(a) + Len(b)
    <3> DEFINE j == i - Len(a)
    <3>1. j \in 1 .. Len(b) /\ j \in 1 .. Len(bc) /\ i = Len(a) + j /\ i \in 1 .. Len(ab)
      BY <1>1, <1>2, <2>2
    <3>. HIDE DEF j
    <3>2. l[Len(a) + j] = bc[j] /\ bc[j] = b[j] /\ ab[Len(a) + j] = b[j] /\ r[i] = ab[i]
      BY <1>1, <1>2, <1>3, <1>4, <3>1
    <3>. QED BY <3>1, <3>2
  <2>3. CASE i > Len(a) + Len(b)
    <3> DEFINE j == i - (Len(a) + Len(b))
    <3>1. /\ j \in 1 .. Len(c) /\ i = Len(ab) + j
          /\ Len(b) + j \in 1 .. Len(bc) /\ i = Len(a) + (Len(b) + j)
      BY <1>1, <1>2, <1>3, <2>3
    <3>. HIDE DEF j
    <3>2. l[Len(a) + (Len(b) + j)] = bc[Len(b) + j] /\ r[Len(ab) + j] = c[j]
      BY <1>3, <1>4, <3>1
    <3>3. bc[Len(b) + j] = c[j]
      BY <1>2, <3>1
    <3>. QED BY <3>1, <3>2, <3>3
  <2>. QED BY <1>1, <2>1, <2>2, <2>3
<1>7. l = r
  BY <1>3, <1>4, <1>5, <1>6, SameSeq
<1>. QED BY <1>7 DEF l, r, ab, bc

LEMMA RestOfBoth ==
  ASSUME NEW a \in Seq(Pieces), NEW b \in Seq(Pieces), NEW n \in 0 .. Len(a)
  PROVE  n \in 0 .. Len(a \o b) /\ Rest(a, n) \o b = Rest(a \o b, n)
BY RestJoined

\* One step of a read.
LEMMA TransferType ==
  ASSUME NEW a \in Seq(Pieces), NEW b \in Seq(Pieces), NEW n \in Fits(a, b)
  PROVE  /\ a \o SubSeq(b, 1, n) \in Seq(Pieces) /\ Len(a \o SubSeq(b, 1, n)) <= BufferSize
         /\ Rest(b, n) \in Seq(Pieces)
         /\ (a \o SubSeq(b, 1, n)) \o Rest(b, n) = a \o b
<1>1. n \in 0 .. Len(b) /\ Len(a) + n <= BufferSize
  BY DEF Fits
<1>2. /\ Rest(b, n) \in Seq(Pieces)
      /\ SubSeq(b, 1, n) \in Seq(Pieces) /\ Len(SubSeq(b, 1, n)) = n
  BY <1>1, Split
<1>3. a \o SubSeq(b, 1, n) \in Seq(Pieces) /\ Len(a \o SubSeq(b, 1, n)) = Len(a) + n
  <2> DEFINE p == SubSeq(b, 1, n)
  <2>1. p \in Seq(Pieces) /\ Len(p) = n
    BY <1>2
  <2>. HIDE DEF p
  <2>2. a \o p \in Seq(Pieces) /\ Len(a \o p) = Len(a) + n
    BY <2>1
  <2>. QED BY <2>2 DEF p
<1>. QED BY <1>1, <1>2, <1>3, Moved

LEMMA FittingBound == \A n \in BodySizes : Fitting(n) \in 1 .. BufferSize
BY DEF Fitting

LEMMA GoodEmpty ==
  ASSUME NEW last \in Int, 0 <= last, NEW F, NEW G
  PROVE  Good(<<>>, 0, <<>>, last, F, G)
BY DEF Good, Line, Ordered, Above, AllAbove

-----------------------------------------------------------------------------
(***************************************************************************)
(* The inductive invariant.                                                *)
(***************************************************************************)
ClientTyped ==
    /\ pc \in {"idle", "send", "header", "body"} /\ call \in 0 .. MaxCalls
    /\ connected \in BOOLEAN /\ conn \in 0 .. MaxConns /\ need \in 0 .. BufferSize
    /\ buffer \in Seq(Pieces) /\ Len(buffer) <= BufferSize /\ hungUp \subseteq 1 .. conn
    /\ outcomes \in Seq(0 .. MaxCalls)
    /\ Len(outcomes) = IF pc = "idle" THEN call ELSE call - 1
    /\ pc = "body" => need > 0
    /\ conn = 0 => buffer = <<>> /\ pc = "idle" /\ ~connected

WireTyped ==
    /\ c2s \in [Conns -> Seq(Pieces)] /\ s2c \in [Conns -> Seq(Pieces)]
    /\ \A k \in Conns : k > conn => c2s[k] = <<>> /\ s2c[k] = <<>>

SessionTyped(k) ==
    /\ Len(readBuf[k]) <= BufferSize
    /\ reading[k] = "none" \/ (open[k] = "active" /\ handler[k] = 0)
    /\ open[k] = "active" => reading[k] # "none" \/ handler[k] # 0
    /\ open[k] = "none" => handler[k] = 0
    /\ reading[k] = "length" => want[k] > 0
    /\ k > conn => open[k] = "none" /\ readBuf[k] = <<>>

ServerTyped ==
    /\ main \in 0 .. MaxConns /\ sessionMap \in [Conns -> 0 .. MaxConns]
    /\ id \in [Conns -> Conns] /\ open \in [Conns -> {"none", "active", "closed"}]
    /\ state \in [Conns -> {"header", "body"}]
    /\ reading \in [Conns -> {"none", "delimiter", "length"}]
    /\ want \in [Conns -> 0 .. BufferSize] /\ readBuf \in [Conns -> Seq(Pieces)]
    /\ handler \in [Conns -> 0 .. MaxCalls] /\ closing \subseteq Conns
    /\ \A k \in Conns : SessionTyped(k)

Typed == ClientTyped /\ WireTyped /\ ServerTyped

\* A session that closes before it is stored is still to be erased, or its erasure
\* overtook the emplace.
MainIsLive ==
    main # 0 => open[main] # "none" /\ (open[main] = "closed" => main \in closing \cup overtaken)

ClosingIsClosed == \A k \in closing : open[k] = "closed"

\* What is stored is a session that was accepted, under its own id.
StoredAsOwn ==
    \A i \in Conns : sessionMap[i] # 0 =>
      id[sessionMap[i]] = i /\ open[sessionMap[i]] # "none" /\ main # sessionMap[i]

ClosedLeaves ==
    \A i \in Conns : sessionMap[i] # 0 /\ open[sessionMap[i]] = "closed"
                    => sessionMap[i] \in closing \cup overtaken

Unique(k) == \A o \in (1 .. conn) \ {k} : id[o] # id[k]

OpenStays ==
    \A k \in Conns : open[k] = "active" /\ main # k /\ Unique(k) => sessionMap[id[k]] = k

Sessions == MainIsLive /\ ClosingIsClosed /\ StoredAsOwn /\ ClosedLeaves /\ OpenStays

\* The pieces on their way to the client, those it has in its buffer first, and those on
\* their way to the method handlers.
Answers(k) == buffer \o s2c[k]
Requests(k) == readBuf[k] \o c2s[k]

\* The last call whose request was sent, and the last one that no header is to come of
\* while every call has read its own.
Asked == IF pc = "send" THEN call - 1 ELSE call
Settled == IF pc \in {"send", "header"} THEN call - 1 ELSE call

Returned == {outcomes[j] : j \in DOMAIN outcomes}

\* Calls that the next header comes after, and those that all that is left comes after
\* while a body is read.
Floors == Returned \cup {f \in {call - 1, Settled} : gaveUp = {}}
BodyFloors == {f \in Returned \cup {g \in {call - 1} : gaveUp = {}} : pc = "body"}

\* The connection the client uses, or used last, carries the calls in their order.
OnLine(k) == Good(Answers(k), handler[k], Requests(k), Asked, Floors, BodyFloors)

Replies ==
    /\ gaveUp \subseteq 1 .. Len(outcomes)
    /\ \A k \in Conns : k = conn => OnLine(k)
    /\ ResultIsOwn

IInv == Typed /\ Sessions /\ Replies

LEMMA InitIInv == Init => IInv
<1> SUFFICES ASSUME Init PROVE IInv
  OBVIOUS
<1>1. Typed
  <2>1. ClientTyped
    <3>1. 0 \in 0 .. MaxCalls /\ 0 \in 0 .. MaxConns /\ 0 \in 0 .. BufferSize /\ 0 <= BufferSize
      OBVIOUS
    <3>2. <<>> \in Seq(Pieces) /\ <<>> \in Seq(0 .. MaxCalls) /\ Len(<<>>) = 0
      OBVIOUS
    <3>3. /\ pc = "idle" /\ call = 0 /\ connected = FALSE /\ conn = 0 /\ need = 0
          /\ buffer = <<>> /\ outcomes = <<>> /\ hungUp = {}
      BY DEF Init
    <3>4. Len(outcomes) = call /\ Len(buffer) <= BufferSize /\ hungUp \subseteq 1 .. conn
      BY <3>1, <3>2, <3>3
    <3>. QED BY <3>1, <3>2, <3>3, <3>4 DEF ClientTyped
  <2>2. WireTyped
    BY DEF Init, WireTyped
  <2>3. ServerTyped
    BY DEF Init, ServerTyped, SessionTyped, Conns
  <2>. QED BY <2>1, <2>2, <2>3 DEF Typed
<1>2. Sessions
  BY DEF Init, Sessions, MainIsLive, ClosingIsClosed, StoredAsOwn, ClosedLeaves, OpenStays
<1>3. Replies
  BY DEF Init, Replies, ResultIsOwn, Conns
<1>. QED BY <1>1, <1>2, <1>3 DEF IInv

-----------------------------------------------------------------------------
(***************************************************************************)
(* The type invariant.                                                     *)
(***************************************************************************)
LEMMA Appended ==
  ASSUME NEW S, NEW s \in Seq(S), NEW e \in S
  PROVE  /\ Append(s, e) \in Seq(S) /\ Len(Append(s, e)) = Len(s) + 1 /\ Len(s) \in Nat
         /\ \A i \in 1 .. Len(s) : Append(s, e)[i] = s[i]
         /\ Append(s, e)[Len(s) + 1] = e
OBVIOUS

LEMMA Written ==
  ASSUME NEW s \in Seq(Pieces), NEW c \in Calls, NEW size \in BodySizes, NEW error \in BOOLEAN
  PROVE  s \o Message(c, size, error) \in Seq(Pieces)
<1> DEFINE m == Message(c, size, error)
<1>1. m \in Seq(Pieces)
  BY MessageType
<1>. HIDE DEF m
<1>2. s \o m \in Seq(Pieces)
  BY <1>1
<1>. QED BY <1>2 DEF m

LEMMA ResultType ==
  ASSUME NEW result \in Results
  PROVE  result.size \in BodySizes /\ result.error \in BOOLEAN
<1>1. CASE result \in [size : BodySizes, error : {FALSE}]
  BY <1>1
<1>2. CASE result = [size |-> 1, error |-> TRUE]
  BY <1>2
<1>. QED BY <1>1, <1>2 DEF Results

\* A call under way has a number and a connection.
LEMMA UnderWay ==
  ASSUME ClientTyped, pc # "idle"
  PROVE  /\ call \in Calls /\ conn \in Conns /\ Len(outcomes) = call - 1
         /\ call \in Nat /\ call - 1 \in Nat
<1>1. call - 1 = Len(outcomes) /\ Len(outcomes) \in Nat /\ call \in 0 .. MaxCalls
      /\ conn # 0 /\ conn \in 0 .. MaxConns
  BY DEF ClientTyped
<1>. QED BY <1>1 DEF Calls, Conns

LEMMA HeaderSize ==
  ASSUME NEW b \in Seq(Pieces), HeaderEnd(b) # 0
  PROVE  /\ HeaderEnd(b) \in 1 .. Len(b) /\ HeaderEnd(b) \in 0 .. Len(b)
         /\ b[HeaderEnd(b)] \in Pieces /\ b[HeaderEnd(b)].at = 0
         /\ Fitting(b[HeaderEnd(b)].size) \in 1 .. BufferSize
<1>1. HeaderEnd(b) \in 1 .. Len(b) /\ b[HeaderEnd(b)].at = 0
  BY HeaderFound
<1>2. b[HeaderEnd(b)] \in Pieces
  BY <1>1, PieceType
<1>3. b[HeaderEnd(b)].size \in BodySizes
  BY <1>2 DEF Pieces
<1>4. HeaderEnd(b) \in 0 .. Len(b)
  BY HeaderFound
<1>5. Fitting(b[HeaderEnd(b)].size) \in 1 .. BufferSize
  BY <1>3, FittingBound
<1>. QED BY <1>1, <1>2, <1>4, <1>5

\* What is left of a buffer is a buffer.
LEMMA RestFits ==
  ASSUME NEW b \in Seq(Pieces), Len(b) <= BufferSize, NEW n \in 0 .. Len(b)
  PROVE  Rest(b, n) \in Seq(Pieces) /\ Len(Rest(b, n)) <= BufferSize
<1>1. Rest(b, n) \in Seq(Pieces) /\ Len(Rest(b, n)) = Len(b) - n
  BY Split
<1>2. n \in Nat /\ Len(b) \in Nat
  OBVIOUS
<1>. QED BY <1>1, <1>2

\* A body that is returned is in the buffer.
LEMMA BodyIsThere ==
  ASSUME ClientTyped, pc = "body", ~Incomplete
  PROVE  need \in 1 .. Len(buffer) /\ need \in 0 .. Len(buffer)
<1>1. need \in Nat /\ need > 0 /\ buffer \in Seq(Pieces)
  BY DEF ClientTyped
<1>2. Len(buffer) \in Nat /\ ~(Len(buffer) < need)
  BY <1>1 DEF Incomplete
<1>. QED BY <1>1, <1>2

LEMMA RequestIsThere ==
  ASSUME ServerTyped, NEW k \in Conns, reading[k] = "length", Complete(k)
  PROVE  /\ want[k] \in 1 .. Len(readBuf[k]) /\ want[k] \in 0 .. Len(readBuf[k])
         /\ readBuf[k] \in Seq(Pieces) /\ readBuf[k][1] \in Pieces
         /\ SubSeq(readBuf[k], 1, want[k])[1] = readBuf[k][1]
<1>1. want[k] \in Nat /\ want[k] > 0 /\ readBuf[k] \in Seq(Pieces)
  BY DEF ServerTyped, SessionTyped
<1>2. Len(readBuf[k]) \in Nat /\ Len(readBuf[k]) >= want[k]
  BY <1>1 DEF Complete
<1>3. want[k] \in 1 .. Len(readBuf[k]) /\ want[k] \in 0 .. Len(readBuf[k]) /\ 1 \in 1 .. want[k]
      /\ 1 \in DOMAIN readBuf[k]
  BY <1>1, <1>2
<1>4. readBuf[k][1] \in Pieces
  BY <1>1, <1>3, PieceType
<1>5. \A i \in 1 .. want[k] : SubSeq(readBuf[k], 1, want[k])[i] = readBuf[k][i]
  BY <1>1, <1>3, Split
<1>. QED BY <1>1, <1>3, <1>4, <1>5

LEMMA ReturnTyped ==
  ASSUME ClientTyped, pc # "idle", NEW r \in 0 .. MaxCalls, Return(r), UNCHANGED call
  PROVE  /\ pc' = "idle" /\ need' = 0 /\ outcomes' = Append(outcomes, r)
         /\ outcomes' \in Seq(0 .. MaxCalls) /\ Len(outcomes') = call'
<1>1. outcomes \in Seq(0 .. MaxCalls) /\ Len(outcomes) = call - 1 /\ call \in Nat
  BY UnderWay DEF ClientTyped
<1>2. pc' = "idle" /\ need' = 0 /\ outcomes' = Append(outcomes, r)
  BY DEF Return
<1>3. Append(outcomes, r) \in Seq(0 .. MaxCalls) /\ Len(Append(outcomes, r)) = Len(outcomes) + 1
  BY <1>1, Appended
<1>. QED BY <1>1, <1>2, <1>3

LEMMA ClientTypedNext == ASSUME Typed, Next PROVE ClientTyped'
<1>0. ClientTyped /\ WireTyped /\ ServerTyped
  BY DEF Typed
<1>z. 0 \in 0 .. MaxCalls /\ 0 \in 0 .. BufferSize
  OBVIOUS
<1>1. CASE CallMethod
  <2>1. pc = "idle" /\ call \in 0 .. MaxCalls /\ call < MaxCalls /\ call' = call + 1
        /\ Len(outcomes) = call /\ outcomes \in Seq(0 .. MaxCalls) /\ conn \in 0 .. MaxConns
    BY <1>0, <1>1 DEF CallMethod, ClientTyped
  <2>2. call' \in 0 .. MaxCalls /\ call' - 1 = call
    BY <2>1
  <2>3. UNCHANGED <<buffer, hungUp>>
    BY <1>1 DEF CallMethod
  <2>4. CASE connected /\ pc' = "send" /\ UNCHANGED <<connected, conn, need, outcomes>>
    BY <1>0, <2>1, <2>2, <2>3, <2>4 DEF ClientTyped
  <2>5. CASE /\ conn < MaxConns /\ pc' = "send" /\ connected' = TRUE /\ conn' = conn + 1
             /\ UNCHANGED <<need, outcomes>>
    <3>1. conn' \in 0 .. MaxConns /\ conn' # 0 /\ 1 .. conn \subseteq 1 .. conn'
      BY <2>1, <2>5
    <3>2. hungUp' \subseteq 1 .. conn'
      BY <1>0, <2>3, <3>1 DEF ClientTyped
    <3>. QED BY <1>0, <2>1, <2>2, <2>3, <2>5, <3>1, <3>2 DEF ClientTyped
  <2>6. CASE Return(0) /\ UNCHANGED <<connected, conn>>
    <3>1. pc' = "idle" /\ need' = 0 /\ outcomes' = Append(outcomes, 0)
      BY <2>6 DEF Return
    <3>2. Append(outcomes, 0) \in Seq(0 .. MaxCalls) /\ Len(Append(outcomes, 0)) = call'
      BY <1>z, <2>1, Appended
    <3>. QED BY <1>0, <1>z, <2>2, <2>3, <2>6, <3>1, <3>2 DEF ClientTyped
  <2>. QED BY <1>1, <2>4, <2>5, <2>6 DEF CallMethod
<1>2. ASSUME NEW size \in BodySizes, SendRequest(size) PROVE ClientTyped'
  BY <1>0, <1>2 DEF SendRequest, ClientTyped
<1>3. CASE SendFails
  <2>1. Return(0) /\ pc # "idle" /\ UNCHANGED <<call, connected, conn, buffer, hungUp>>
    BY <1>3 DEF SendFails
  <2>2. /\ pc' = "idle" /\ need' = 0 /\ outcomes' \in Seq(0 .. MaxCalls)
        /\ Len(outcomes') = call'
    BY <1>0, <1>z, <2>1, ReturnTyped
  <2>. QED BY <1>0, <1>z, <2>1, <2>2 DEF ClientTyped
<1>4. CASE Transfer
  <2>1. conn \in Conns
    BY <1>0, <1>4, UnderWay DEF Transfer
  <2>2. PICK n \in Fits(buffer, s2c[conn]) : buffer' = buffer \o SubSeq(s2c[conn], 1, n)
    BY <1>4 DEF Transfer
  <2>3. buffer \in Seq(Pieces) /\ s2c[conn] \in Seq(Pieces)
    BY <1>0, <2>1 DEF ClientTyped, WireTyped
  <2>4. buffer' \in Seq(Pieces) /\ Len(buffer') <= BufferSize
    BY <2>2, <2>3, TransferType
  <2>5. UNCHANGED <<pc, call, connected, conn, need, outcomes, hungUp>> /\ conn # 0
    BY <1>0, <1>4 DEF Transfer, ClientTyped
  <2>. QED BY <1>0, <2>4, <2>5 DEF ClientTyped
<1>5. CASE ReadFails
  <2>1. Return(0) /\ pc # "idle" /\ UNCHANGED <<call, connected, conn, hungUp>>
        /\ (buffer' = buffer \/ buffer' = <<>>)
    BY <1>5 DEF ReadFails
  <2>2. /\ pc' = "idle" /\ need' = 0 /\ outcomes' \in Seq(0 .. MaxCalls)
        /\ Len(outcomes') = call'
    BY <1>0, <1>z, <2>1, ReturnTyped
  <2>3. buffer' \in Seq(Pieces) /\ Len(buffer') <= BufferSize
    <3>1. <<>> \in Seq(Pieces) /\ Len(<<>>) = 0 /\ 0 <= BufferSize
      OBVIOUS
    <3>2. buffer \in Seq(Pieces) /\ Len(buffer) <= BufferSize
      BY <1>0 DEF ClientTyped
    <3>. QED BY <2>1, <3>1, <3>2
  <2>4. conn' # 0
    BY <1>0, <2>1 DEF ClientTyped
  <2>. QED BY <1>0, <1>z, <2>1, <2>2, <2>3, <2>4 DEF ClientTyped
<1>6. CASE ReadHeader
  <2>1. /\ pc = "header" /\ HeaderEnd(buffer) # 0 /\ pc' = "body"
        /\ need' = Fitting(buffer[HeaderEnd(buffer)].size)
        /\ buffer' = Rest(buffer, HeaderEnd(buffer))
        /\ UNCHANGED <<call, connected, conn, outcomes, hungUp>>
    BY <1>6 DEF ReadHeader, Incomplete
  <2>2. buffer \in Seq(Pieces) /\ Len(buffer) <= BufferSize /\ conn # 0
    BY <1>0, <2>1 DEF ClientTyped
  <2>3. /\ HeaderEnd(buffer) \in 0 .. Len(buffer)
        /\ Fitting(buffer[HeaderEnd(buffer)].size) \in 1 .. BufferSize
    BY <2>1, <2>2, HeaderSize
  <2>4. need' \in 0 .. BufferSize /\ need' > 0
    BY <2>1, <2>3
  <2>5. buffer' \in Seq(Pieces) /\ Len(buffer') <= BufferSize
    BY <2>1, <2>2, <2>3, RestFits
  <2>. QED BY <1>0, <2>1, <2>2, <2>4, <2>5 DEF ClientTyped
<1>7. CASE ReadBody
  <2> DEFINE b == SubSeq(buffer, 1, need)
             r == IF WholeBody(b) /\ ~b[1].error THEN b[1].call ELSE 0
  <2>1. /\ pc = "body" /\ ~Incomplete /\ buffer' = Rest(buffer, need) /\ Return(r)
        /\ UNCHANGED <<call, connected, conn, hungUp>>
    BY <1>7 DEF ReadBody
  <2>2. /\ buffer \in Seq(Pieces) /\ Len(buffer) <= BufferSize /\ conn # 0
        /\ need \in 1 .. Len(buffer) /\ need \in 0 .. Len(buffer)
    BY <1>0, <2>1, BodyIsThere DEF ClientTyped
  <2>3. buffer' \in Seq(Pieces) /\ Len(buffer') <= BufferSize
    BY <2>1, <2>2, RestFits
  <2>4. r \in 0 .. MaxCalls
    <3>1. b \in Seq(Pieces) /\ Len(b) = need
      BY <2>2, Split
    <3>2. 1 \in DOMAIN b
      <4>. HIDE DEF b
      <4>. QED BY <2>2, <3>1
    <3>3. b[1] \in Pieces
      BY <3>1, <3>2, PieceType
    <3>4. b[1].call \in Calls
      <4>. HIDE DEF b
      <4>. QED BY <3>3 DEF Pieces
    <3>5. b[1].call \in 0 .. MaxCalls
      <4>. HIDE DEF b
      <4>. QED BY <3>4 DEF Calls
    <3>. HIDE DEF b
    <3>. QED BY <1>z, <3>5
  <2>5. /\ pc' = "idle" /\ need' = 0 /\ outcomes' \in Seq(0 .. MaxCalls)
        /\ Len(outcomes') = call'
    <3>. HIDE DEF r
    <3>. QED BY <1>0, <2>1, <2>4, ReturnTyped
  <2>. HIDE DEF b, r
  <2>. QED BY <1>0, <1>z, <2>1, <2>2, <2>3, <2>5 DEF ClientTyped
<1>8. CASE ChannelClose
  <2>1. /\ connected' = FALSE /\ hungUp' = hungUp \cup {conn}
        /\ UNCHANGED <<pc, call, conn, buffer, need, outcomes>>
    BY <1>8 DEF ChannelClose
  <2>2. conn \in 1 .. conn
    BY <1>0, <1>8 DEF ChannelClose, ClientTyped
  <2>3. hungUp' \subseteq 1 .. conn'
    BY <1>0, <2>1, <2>2 DEF ClientTyped
  <2>. QED BY <1>0, <2>1, <2>3 DEF ClientTyped
<1>9. CASE UNCHANGED client
  BY <1>0, <1>9 DEF client, ClientTyped
<1>10. CASE Emplace
  BY <1>9, <1>10 DEF Emplace
<1>11. ASSUME NEW k \in Conns, Accept(k) \/ TimerExpires(k) \/ SessionStep(k)
       PROVE  ClientTyped'
  <2>1. UNCHANGED client
    BY <1>11 DEF Accept, TimerExpires, SessionStep, Receive, OnHeader, OnBody, OnError,
                 OnReadOfNone, HandlerReturns, WriteFails, OnSessionClose
  <2>. QED BY <1>9, <2>1
<1>. QED BY <1>1, <1>2, <1>3, <1>4, <1>5, <1>6, <1>7, <1>8, <1>10, <1>11 DEF Next, ClientStep

LEMMA WireTypedNext == ASSUME Typed, Next PROVE WireTyped'
<1>0. ClientTyped /\ WireTyped /\ ServerTyped
  BY DEF Typed
<1>1. CASE CallMethod
  <2>1. UNCHANGED <<c2s, s2c>> /\ (conn' = conn \/ conn' = conn + 1) /\ conn \in Nat
    BY <1>0, <1>1 DEF CallMethod, ClientTyped
  <2>2. \A k \in Conns : k > conn' => k > conn
    BY <2>1 DEF Conns
  <2>. QED BY <1>0, <2>1, <2>2 DEF WireTyped
<1>2. ASSUME NEW size \in BodySizes, SendRequest(size) PROVE WireTyped'
  <2>1. /\ c2s' = c2s \/ c2s' = [c2s EXCEPT ![conn] = c2s[conn] \o Message(call, size, FALSE)]
        /\ UNCHANGED <<conn, s2c>>
    BY <1>2 DEF SendRequest
  <2>2. call \in Calls /\ conn \in Conns
    BY <1>0, <1>2, UnderWay DEF SendRequest
  <2>3. c2s[conn] \in Seq(Pieces)
    BY <1>0, <2>2 DEF WireTyped
  <2>4. c2s[conn] \o Message(call, size, FALSE) \in Seq(Pieces)
    BY <2>2, <2>3, Written
  <2>5. ~(conn > conn)
    BY <2>2 DEF Conns
  <2>. QED BY <1>0, <2>1, <2>2, <2>4, <2>5 DEF WireTyped
<1>3. CASE Transfer
  <2>1. conn \in Conns
    BY <1>0, <1>3, UnderWay DEF Transfer
  <2>2. PICK n \in Fits(buffer, s2c[conn]) :
          /\ s2c' = [s2c EXCEPT ![conn] = Rest(s2c[conn], n)]
          /\ UNCHANGED <<conn, c2s>>
    BY <1>3 DEF Transfer
  <2>3. buffer \in Seq(Pieces) /\ s2c[conn] \in Seq(Pieces)
    BY <1>0, <2>1 DEF ClientTyped, WireTyped
  <2>4. Rest(s2c[conn], n) \in Seq(Pieces)
    BY <2>3, TransferType
  <2>5. ~(conn > conn)
    BY <2>1 DEF Conns
  <2>. QED BY <1>0, <2>1, <2>2, <2>4, <2>5 DEF WireTyped
<1>4. CASE UNCHANGED <<conn, c2s, s2c>>
  BY <1>0, <1>4 DEF WireTyped
<1>5. CASE SendFails \/ ReadFails \/ ReadHeader \/ ReadBody \/ Emplace
  BY <1>4, <1>5 DEF SendFails, ReadFails, ReadHeader, ReadBody, Emplace, client
<1>6. ASSUME NEW k \in Conns, c2s' = [c2s EXCEPT ![k] = <<>>], UNCHANGED <<conn, s2c>>
      PROVE  WireTyped'
  BY <1>0, <1>6 DEF WireTyped
<1>7. CASE ChannelClose
  <2>1. s2c' = [s2c EXCEPT ![conn] = <<>>] /\ UNCHANGED <<conn, c2s>>
    BY <1>7 DEF ChannelClose
  <2>2. conn \in Conns /\ <<>> \in Seq(Pieces)
    BY <1>0, <1>7 DEF ChannelClose, ClientTyped, Conns
  <2>. QED BY <1>0, <2>1, <2>2 DEF WireTyped
<1>8. ASSUME NEW k \in Conns, Accept(k) \/ OnHeader(k) \/ OnSessionClose(k) PROVE WireTyped'
  BY <1>4, <1>8 DEF Accept, OnHeader, OnSessionClose, client
<1>9. ASSUME NEW k \in Conns, TimerExpires(k) \/ OnError(k) \/ OnReadOfNone(k) \/ WriteFails(k)
      PROVE  WireTyped'
  BY <1>6, <1>9 DEF TimerExpires, OnError, OnReadOfNone, WriteFails, Close, CloseSocket, client
<1>10. ASSUME NEW k \in Conns, OnBody(k) PROVE WireTyped'
  BY <1>4, <1>6, <1>10 DEF OnBody, Close, CloseSocket, client
<1>11. ASSUME NEW k \in Conns, Receive(k) PROVE WireTyped'
  <2>1. PICK n \in Fits(readBuf[k], c2s[k]) :
          /\ c2s' = [c2s EXCEPT ![k] = Rest(c2s[k], n)]
          /\ UNCHANGED <<client, s2c>>
    BY <1>11 DEF Receive
  <2>2. readBuf[k] \in Seq(Pieces) /\ c2s[k] \in Seq(Pieces)
    BY <1>0 DEF ServerTyped, WireTyped
  <2>3. Rest(c2s[k], n) \in Seq(Pieces)
    BY <2>1, <2>2, TransferType
  <2>4. k <= conn
    BY <1>0, <1>11 DEF Receive, ServerTyped, SessionTyped, ClientTyped, Conns
  <2>5. UNCHANGED <<conn, s2c>> /\ conn \in Nat
    BY <1>0, <2>1 DEF client, ClientTyped
  <2>6. ~(k > conn)
    BY <2>4, <2>5 DEF Conns
  <2>. QED BY <1>0, <2>1, <2>3, <2>5, <2>6 DEF WireTyped
<1>12. ASSUME NEW k \in Conns, NEW result \in Results, HandlerReturns(k, result)
       PROVE  WireTyped'
  <2>1. /\ s2c' = s2c \/ s2c' = [s2c EXCEPT ![k] = s2c[k] \o Message(handler[k], result.size, result.error)]
        /\ UNCHANGED <<client, c2s>> /\ handler[k] # 0
    BY <1>12 DEF HandlerReturns, WriteResponse
  <2>2. handler[k] \in Calls
    BY <1>0, <2>1 DEF ServerTyped, Calls
  <2>3. result.size \in BodySizes /\ result.error \in BOOLEAN
    BY ResultType
  <2>4. s2c[k] \in Seq(Pieces)
    BY <1>0 DEF WireTyped
  <2>5. s2c[k] \o Message(handler[k], result.size, result.error) \in Seq(Pieces)
    BY <2>2, <2>3, <2>4, Written
  <2>6. UNCHANGED <<conn, c2s>> /\ conn \in Nat
    BY <1>0, <2>1 DEF client, ClientTyped
  <2>7. ~(k > conn)
    BY <1>0, <2>1, <2>6 DEF ServerTyped, SessionTyped, Conns
  <2>. QED BY <1>0, <2>1, <2>5, <2>6, <2>7 DEF WireTyped
<1>. QED BY <1>1, <1>2, <1>3, <1>5, <1>7, <1>8, <1>9, <1>10, <1>11, <1>12
     DEF Next, ClientStep, SessionStep

\* A session whose socket is closed, whatever else the step does.
LEMMA ClosedTyped ==
  ASSUME Typed, NEW k \in Conns, k <= conn, CloseSocket(k), UNCHANGED conn,
         UNCHANGED <<main, id, state, handler>>,
         closing' \subseteq Conns, sessionMap' \in [Conns -> 0 .. MaxConns]
  PROVE  ServerTyped'
<1>1. ServerTyped /\ ClientTyped
  BY DEF Typed
<1>2. /\ open' = [open EXCEPT ![k] = "closed"] /\ reading' = [reading EXCEPT ![k] = "none"]
      /\ want' = [want EXCEPT ![k] = 0] /\ readBuf' = [readBuf EXCEPT ![k] = <<>>]
  BY DEF CloseSocket
<1>3. <<>> \in Seq(Pieces) /\ Len(<<>>) = 0 /\ 0 \in 0 .. BufferSize /\ 0 <= BufferSize
  OBVIOUS
<1>4. ASSUME NEW j \in Conns PROVE SessionTyped(j)'
  <2>1. SessionTyped(j)
    BY <1>1 DEF ServerTyped
  <2>2. CASE j = k
    <3>1. readBuf'[j] = <<>> /\ reading'[j] = "none" /\ open'[j] = "closed" /\ want'[j] = 0
      BY <1>1, <1>2, <2>2 DEF ServerTyped
    <3>2. ~(j > conn')
      BY <1>1, <2>2 DEF Conns, ClientTyped
    <3>. QED BY <1>3, <3>1, <3>2 DEF SessionTyped
  <2>3. CASE j # k
    <3>1. /\ readBuf'[j] = readBuf[j] /\ reading'[j] = reading[j] /\ open'[j] = open[j]
          /\ want'[j] = want[j] /\ handler'[j] = handler[j] /\ conn' = conn
      BY <1>1, <1>2, <2>3 DEF ServerTyped
    <3>. QED BY <2>1, <3>1 DEF SessionTyped
  <2>. QED BY <2>2, <2>3
<1>5. /\ open' \in [Conns -> {"none", "active", "closed"}]
      /\ reading' \in [Conns -> {"none", "delimiter", "length"}]
      /\ want' \in [Conns -> 0 .. BufferSize] /\ readBuf' \in [Conns -> Seq(Pieces)]
  BY <1>1, <1>2, <1>3 DEF ServerTyped
<1>. QED BY <1>1, <1>4, <1>5 DEF ServerTyped

\* A session that reads, runs a handler or is open was accepted.
LEMMA Accepted ==
  ASSUME Typed, NEW k \in Conns, reading[k] # "none" \/ handler[k] # 0 \/ open[k] # "none"
  PROVE  k <= conn /\ open[k] # "none"
<1>1. SessionTyped(k) /\ conn \in Nat
  BY DEF Typed, ServerTyped, ClientTyped
<1>2. open[k] # "none"
  BY <1>1 DEF SessionTyped
<1>. QED BY <1>1, <1>2 DEF SessionTyped, Conns

LEMMA ServerTypedNext == ASSUME Typed, Next PROVE ServerTyped'
<1>0. ClientTyped /\ WireTyped /\ ServerTyped
  BY DEF Typed
<1>1. CASE CallMethod
  <2>1. UNCHANGED <<main, open, reads, handler, closing, sessionMap>>
    BY <1>1 DEF CallMethod
  <2>2. /\ conn' = conn \/ conn' = conn + 1
        /\ \/ id' = id
           \/ /\ conn + 1 \in Conns
              /\ \E i \in {conn + 1} \cup {id[k] : k \in 1 .. conn} : id' = [id EXCEPT ![conn + 1] = i]
    BY <1>0, <1>1 DEF CallMethod, ClientTyped, Conns
  <2>3. id' \in [Conns -> Conns]
    <3>1. \A k \in 1 .. conn : id[k] \in Conns
      BY <1>0 DEF ClientTyped, ServerTyped, Conns
    <3>2. id \in [Conns -> Conns]
      BY <1>0 DEF ServerTyped
    <3>. QED BY <2>2, <3>1, <3>2
  <2>4. ASSUME NEW k \in Conns PROVE SessionTyped(k)'
    <3>1. SessionTyped(k)
      BY <1>0 DEF ServerTyped
    <3>2. k > conn' => k > conn
      BY <1>0, <2>2 DEF ClientTyped, Conns
    <3>. QED BY <2>1, <3>1, <3>2 DEF SessionTyped, reads
  <2>. QED BY <1>0, <2>1, <2>3, <2>4 DEF ServerTyped, reads
<1>2. CASE UNCHANGED <<conn, server>>
  BY <1>0, <1>2 DEF ServerTyped, SessionTyped, server, reads
<1>3. ASSUME NEW size \in BodySizes, SendRequest(size) PROVE ServerTyped'
  BY <1>2, <1>3 DEF SendRequest
<1>4. CASE SendFails \/ Transfer \/ ReadFails \/ ReadHeader \/ ReadBody \/ ChannelClose
  BY <1>2, <1>4 DEF SendFails, Transfer, ReadFails, ReadHeader, ReadBody, ChannelClose
<1>5. CASE Emplace
  <2>1. /\ main # 0 /\ main' = 0
        /\ sessionMap' = sessionMap \/ sessionMap' = [sessionMap EXCEPT ![id[main]] = main]
        /\ UNCHANGED <<client, id, open, reads, handler, closing>>
    BY <1>5 DEF Emplace
  <2>2. main \in 0 .. MaxConns /\ main \in Conns
    BY <1>0, <2>1 DEF ServerTyped, Conns
  <2>3. sessionMap' \in [Conns -> 0 .. MaxConns]
    BY <1>0, <2>1, <2>2 DEF ServerTyped
  <2>. QED BY <1>0, <2>1, <2>3 DEF ServerTyped, SessionTyped, reads, client
<1>6. ASSUME NEW k \in Conns, Accept(k) PROVE ServerTyped'
  <2>1. /\ k <= conn /\ open[k] = "none" /\ main' = k
        /\ open' = [open EXCEPT ![k] = "active"]
        /\ state' = [state EXCEPT ![k] = "header"] /\ reading' = [reading EXCEPT ![k] = "delimiter"]
        /\ UNCHANGED <<client, id, want, readBuf, handler, closing, sessionMap>>
    BY <1>6 DEF Accept
  <2>2. ASSUME NEW j \in Conns PROVE SessionTyped(j)'
    <3>1. SessionTyped(j)
      BY <1>0 DEF ServerTyped
    <3>2. CASE j = k
      <4>1. handler[j] = 0 /\ reading'[j] = "delimiter" /\ open'[j] = "active"
            /\ UNCHANGED <<handler, readBuf, conn, want>>
        BY <1>0, <2>1, <3>1, <3>2 DEF ServerTyped, SessionTyped, client
      <4>2. ~(j > conn)
        BY <1>0, <2>1, <3>2 DEF ClientTyped, Conns
      <4>. QED BY <3>1, <4>1, <4>2 DEF SessionTyped
    <3>3. CASE j # k
      <4>1. open'[j] = open[j] /\ reading'[j] = reading[j]
            /\ UNCHANGED <<handler, readBuf, conn, want>>
        BY <1>0, <2>1, <3>3 DEF ServerTyped, client
      <4>. QED BY <3>1, <4>1 DEF SessionTyped
    <3>. QED BY <3>2, <3>3
  <2>3. main' \in 0 .. MaxConns
    BY <2>1 DEF Conns
  <2>. QED BY <1>0, <2>1, <2>2, <2>3 DEF ServerTyped
<1>7. ASSUME NEW k \in Conns, TimerExpires(k) PROVE ServerTyped'
  <2>1. /\ CloseSocket(k) /\ sessionMap' = [sessionMap EXCEPT ![id[k]] = 0]
        /\ UNCHANGED <<conn, main, id, state, handler, closing>> /\ open[k] = "active"
    BY <1>7 DEF TimerExpires, client
  <2>2. k <= conn
    BY <2>1, Accepted
  <2>3. sessionMap' \in [Conns -> 0 .. MaxConns] /\ closing' \subseteq Conns
    BY <1>0, <2>1 DEF ServerTyped
  <2>. QED BY <2>1, <2>2, <2>3, ClosedTyped
<1>8. ASSUME NEW k \in Conns, OnReadOfNone(k) PROVE ServerTyped'
  <2>1. /\ CloseSocket(k) /\ reading[k] # "none"
        /\ UNCHANGED <<conn, main, id, state, handler, closing, sessionMap>>
    BY <1>8 DEF OnReadOfNone, client
  <2>2. k <= conn
    BY <2>1, Accepted
  <2>3. sessionMap' \in [Conns -> 0 .. MaxConns] /\ closing' \subseteq Conns
    BY <1>0, <2>1 DEF ServerTyped
  <2>. QED BY <2>1, <2>2, <2>3, ClosedTyped
<1>9. ASSUME NEW k \in Conns, reading[k] # "none", Close(k),
             UNCHANGED <<conn, main, id, state, handler, sessionMap>>
      PROVE  ServerTyped'
  <2>1. CloseSocket(k) /\ closing' = closing \cup {k}
    BY <1>9 DEF Close
  <2>2. k <= conn
    BY <1>9, Accepted
  <2>3. sessionMap' \in [Conns -> 0 .. MaxConns] /\ closing' \subseteq Conns
    BY <1>0, <1>9, <2>1 DEF ServerTyped
  <2>. QED BY <1>9, <2>1, <2>2, <2>3, ClosedTyped
<1>10. ASSUME NEW k \in Conns, OnError(k) \/ WriteFails(k) PROVE ServerTyped'
  BY <1>9, <1>10 DEF OnError, WriteFails, client
\* The steps of a session's thread that keep the connection open.
<1>11. ASSUME NEW k \in Conns, k <= conn, SessionTyped(k)',
              \A j \in Conns \ {k} : /\ reading'[j] = reading[j] /\ want'[j] = want[j]
                                     /\ readBuf'[j] = readBuf[j] /\ handler'[j] = handler[j],
              state' \in [Conns -> {"header", "body"}],
              reading' \in [Conns -> {"none", "delimiter", "length"}],
              want' \in [Conns -> 0 .. BufferSize], readBuf' \in [Conns -> Seq(Pieces)],
              handler' \in [Conns -> 0 .. MaxCalls],
              UNCHANGED <<conn, main, id, open, closing, sessionMap>>
       PROVE  ServerTyped'
  <2>1. ASSUME NEW j \in Conns \ {k} PROVE SessionTyped(j)'
    <3>1. SessionTyped(j)
      BY <1>0 DEF ServerTyped
    <3>. QED BY <1>11, <3>1 DEF SessionTyped
  <2>. QED BY <1>0, <1>11, <2>1 DEF ServerTyped
<1>12. ASSUME NEW k \in Conns, Receive(k) PROVE ServerTyped'
  <2>1. PICK n \in Fits(readBuf[k], c2s[k]) :
          /\ readBuf' = [readBuf EXCEPT ![k] = readBuf[k] \o SubSeq(c2s[k], 1, n)]
          /\ UNCHANGED <<conn, main, id, open, state, reading, want, handler, closing, sessionMap>>
    BY <1>12 DEF Receive, client
  <2>2. readBuf[k] \in Seq(Pieces) /\ c2s[k] \in Seq(Pieces) /\ readBuf \in [Conns -> Seq(Pieces)]
    BY <1>0 DEF ServerTyped, WireTyped
  <2> DEFINE b == readBuf[k] \o SubSeq(c2s[k], 1, n)
  <2>3. b \in Seq(Pieces) /\ Len(b) <= BufferSize
    BY <2>2, TransferType
  <2>. HIDE DEF b
  <2>4. readBuf' = [readBuf EXCEPT ![k] = b]
    BY <2>1 DEF b
  <2>5. k <= conn /\ SessionTyped(k) /\ conn \in Nat /\ ~(k > conn)
    BY <1>0, <1>12, Accepted DEF Receive, ServerTyped, ClientTyped, Conns
  <2>6. readBuf'[k] = b
    BY <2>2, <2>4
  <2>7. SessionTyped(k)'
    BY <2>1, <2>3, <2>5, <2>6 DEF SessionTyped
  <2>8. readBuf' \in [Conns -> Seq(Pieces)] /\ \A j \in Conns \ {k} : readBuf'[j] = readBuf[j]
    BY <2>2, <2>3, <2>4
  <2>. QED BY <1>0, <1>11, <2>1, <2>5, <2>7, <2>8 DEF ServerTyped
<1>13. ASSUME NEW k \in Conns, OnHeader(k) PROVE ServerTyped'
  <2> DEFINE e == HeaderEnd(readBuf[k])
             b == Rest(readBuf[k], e)
             w == Fitting(readBuf[k][e].size)
  <2>1. /\ reading[k] = "delimiter" /\ e # 0
        /\ state' = [state EXCEPT ![k] = "body"] /\ reading' = [reading EXCEPT ![k] = "length"]
        /\ want' = [want EXCEPT ![k] = w] /\ readBuf' = [readBuf EXCEPT ![k] = b]
        /\ UNCHANGED <<conn, main, id, open, handler, closing, sessionMap>>
    BY <1>13 DEF OnHeader, Complete, client
  <2>2. /\ readBuf[k] \in Seq(Pieces) /\ Len(readBuf[k]) <= BufferSize
        /\ readBuf \in [Conns -> Seq(Pieces)] /\ reading \in [Conns -> {"none", "delimiter", "length"}]
        /\ want \in [Conns -> 0 .. BufferSize] /\ state \in [Conns -> {"header", "body"}]
        /\ handler \in [Conns -> 0 .. MaxCalls]
    BY <1>0 DEF ServerTyped, SessionTyped
  <2>3. e \in 0 .. Len(readBuf[k]) /\ w \in 1 .. BufferSize
    BY <2>1, <2>2, HeaderSize
  <2>4. b \in Seq(Pieces) /\ Len(b) <= BufferSize
    BY <2>2, <2>3, RestFits
  <2>. HIDE DEF w, b, e
  <2>5. k <= conn /\ SessionTyped(k) /\ conn \in Nat /\ ~(k > conn)
    BY <1>0, <2>1, Accepted DEF ServerTyped, ClientTyped, Conns
  <2>6. w \in 0 .. BufferSize /\ w > 0
    BY <2>3
  <2>7. readBuf'[k] = b /\ want'[k] = w /\ reading'[k] = "length"
    BY <2>1, <2>2
  <2>8. SessionTyped(k)'
    BY <2>1, <2>4, <2>5, <2>6, <2>7 DEF SessionTyped
  <2>9. /\ state' \in [Conns -> {"header", "body"}] /\ want' \in [Conns -> 0 .. BufferSize]
        /\ reading' \in [Conns -> {"none", "delimiter", "length"}]
        /\ readBuf' \in [Conns -> Seq(Pieces)] /\ handler' \in [Conns -> 0 .. MaxCalls]
    BY <2>1, <2>2, <2>4, <2>6
  <2>10. \A j \in Conns \ {k} : /\ reading'[j] = reading[j] /\ want'[j] = want[j]
                                /\ readBuf'[j] = readBuf[j] /\ handler'[j] = handler[j]
    BY <2>1, <2>2
  <2>. QED BY <1>11, <2>1, <2>5, <2>8, <2>9, <2>10
<1>14. ASSUME NEW k \in Conns, OnBody(k) PROVE ServerTyped'
  <2>1. reading[k] = "length" /\ Complete(k) /\ UNCHANGED <<conn, main, id, state, sessionMap>>
    BY <1>14 DEF OnBody, client
  <2> DEFINE body == SubSeq(readBuf[k], 1, want[k])
             b == Rest(readBuf[k], want[k])
             c == body[1].call
  <2>2. CASE /\ handler' = [handler EXCEPT ![k] = c]
             /\ reading' = [reading EXCEPT ![k] = "none"] /\ want' = [want EXCEPT ![k] = 0]
             /\ readBuf' = [readBuf EXCEPT ![k] = b]
             /\ UNCHANGED <<open, closing>>
    <3>1. /\ readBuf[k] \in Seq(Pieces) /\ Len(readBuf[k]) <= BufferSize
          /\ readBuf \in [Conns -> Seq(Pieces)] /\ reading \in [Conns -> {"none", "delimiter", "length"}]
          /\ want \in [Conns -> 0 .. BufferSize] /\ state \in [Conns -> {"header", "body"}]
          /\ handler \in [Conns -> 0 .. MaxCalls]
      BY <1>0 DEF ServerTyped, SessionTyped
    <3>2. want[k] \in 0 .. Len(readBuf[k]) /\ readBuf[k][1] \in Pieces /\ body[1] = readBuf[k][1]
      BY <1>0, <2>1, RequestIsThere
    <3>3. b \in Seq(Pieces) /\ Len(b) <= BufferSize
      BY <3>1, <3>2, RestFits
    <3>4. readBuf[k][1].call \in Calls
      BY <3>2 DEF Pieces
    <3>. HIDE DEF body
    <3>5. c = readBuf[k][1].call
      BY <3>2
    <3>. HIDE DEF c, b
    <3>51. c \in 0 .. MaxCalls /\ c # 0
      BY <3>4, <3>5 DEF Calls
    <3>61. k <= conn /\ open[k] # "none"
      BY <2>1, Accepted
    <3>6. k <= conn /\ SessionTyped(k) /\ conn \in Nat /\ ~(k > conn) /\ open[k] # "none"
      BY <1>0, <3>61 DEF ServerTyped, ClientTyped, Conns
    <3>7. readBuf'[k] = b /\ want'[k] = 0 /\ reading'[k] = "none" /\ handler'[k] = c
      BY <2>2, <3>1
    <3>8. SessionTyped(k)'
      BY <2>1, <2>2, <3>3, <3>51, <3>6, <3>7 DEF SessionTyped
    <3>9. /\ state' \in [Conns -> {"header", "body"}] /\ want' \in [Conns -> 0 .. BufferSize]
          /\ reading' \in [Conns -> {"none", "delimiter", "length"}]
          /\ readBuf' \in [Conns -> Seq(Pieces)] /\ handler' \in [Conns -> 0 .. MaxCalls]
      BY <2>1, <2>2, <3>1, <3>3, <3>51
    <3>10. \A j \in Conns \ {k} : /\ reading'[j] = reading[j] /\ want'[j] = want[j]
                                  /\ readBuf'[j] = readBuf[j] /\ handler'[j] = handler[j]
      BY <2>2, <3>1
    <3>. QED BY <1>11, <2>1, <2>2, <3>6, <3>8, <3>9, <3>10
  <2>3. CASE Close(k) /\ UNCHANGED handler
    BY <1>9, <2>1, <2>3
  <2>. QED BY <1>14, <2>2, <2>3 DEF OnBody
<1>15. ASSUME NEW k \in Conns, NEW result \in Results, HandlerReturns(k, result)
       PROVE  ServerTyped'
  <2>1. /\ handler[k] # 0 /\ handler' = [handler EXCEPT ![k] = 0]
        /\ state' = [state EXCEPT ![k] = "header"]
        /\ reading' = IF open[k] = "closed" THEN reading ELSE [reading EXCEPT ![k] = "delimiter"]
        /\ UNCHANGED <<conn, main, id, open, want, readBuf, closing, sessionMap>>
    BY <1>15 DEF HandlerReturns, ReadHttpHeader, client
  <2>2. /\ state \in [Conns -> {"header", "body"}] /\ want \in [Conns -> 0 .. BufferSize]
        /\ reading \in [Conns -> {"none", "delimiter", "length"}] /\ readBuf \in [Conns -> Seq(Pieces)]
        /\ handler \in [Conns -> 0 .. MaxCalls] /\ open \in [Conns -> {"none", "active", "closed"}]
    BY <1>0 DEF ServerTyped
  <2>3. k <= conn /\ SessionTyped(k) /\ conn \in Nat /\ ~(k > conn) /\ open[k] # "none"
    BY <1>0, <2>1, Accepted DEF ServerTyped, ClientTyped, Conns
  <2>4. handler'[k] = 0 /\ reading[k] = "none"
    BY <2>1, <2>2, <2>3 DEF SessionTyped
  <2>5. \/ open[k] = "active" /\ reading'[k] = "delimiter"
        \/ open[k] = "closed" /\ reading' = reading
    BY <2>1, <2>2, <2>3
  <2>6. SessionTyped(k)'
    BY <2>1, <2>3, <2>4, <2>5 DEF SessionTyped
  <2>7. /\ state' \in [Conns -> {"header", "body"}] /\ want' \in [Conns -> 0 .. BufferSize]
        /\ reading' \in [Conns -> {"none", "delimiter", "length"}]
        /\ readBuf' \in [Conns -> Seq(Pieces)] /\ handler' \in [Conns -> 0 .. MaxCalls]
    BY <2>1, <2>2
  <2>8. \A j \in Conns \ {k} : /\ reading'[j] = reading[j] /\ want'[j] = want[j]
                               /\ readBuf'[j] = readBuf[j] /\ handler'[j] = handler[j]
    BY <2>1, <2>2
  <2>. QED BY <1>11, <2>1, <2>3, <2>6, <2>7, <2>8
<1>16. ASSUME NEW k \in Conns, OnSessionClose(k) PROVE ServerTyped'
  <2>1. /\ closing' = closing \ {k} /\ sessionMap' = [sessionMap EXCEPT ![id[k]] = 0]
        /\ UNCHANGED <<conn, main, id, open, reads, handler>>
    BY <1>16 DEF OnSessionClose, client
  <2>. QED BY <1>0, <2>1 DEF ServerTyped, SessionTyped, reads
<1>. QED BY <1>1, <1>3, <1>4, <1>5, <1>6, <1>7, <1>8, <1>10, <1>12, <1>13, <1>14, <1>15, <1>16
     DEF Next, ClientStep, SessionStep

LEMMA TypedNext == ASSUME Typed, [Next]_vars PROVE Typed'
<1>1. CASE Next
  BY <1>1, ClientTypedNext, WireTypedNext, ServerTypedNext DEF Typed
<1>2. CASE UNCHANGED vars
  BY <1>2 DEF Typed, ClientTyped, WireTyped, ServerTyped, SessionTyped, vars, client, server, reads
<1>. QED BY <1>1, <1>2

-----------------------------------------------------------------------------
(***************************************************************************)
(* The session map.                                                        *)
(***************************************************************************)
LEMMA StoredType ==
  ASSUME Typed, NEW i \in Conns, sessionMap[i] # 0
  PROVE  sessionMap[i] \in Conns
BY DEF Typed, ServerTyped, Conns

\* The socket of a session is closed, by the thread that also erases it or by one that
\* leaves this to a step of its own.
LEMMA ClosedSessions ==
  ASSUME Typed, Sessions, NEW k \in Conns, open[k] = "active",
         open' = [open EXCEPT ![k] = "closed"],
         UNCHANGED <<conn, main, id, overtaken>>,
         \/ closing' = closing \cup {k} /\ sessionMap' = sessionMap
         \/ closing' = closing /\ sessionMap' = sessionMap /\ main # k /\ sessionMap[id[k]] # k
         \/ closing' = closing /\ sessionMap' = [sessionMap EXCEPT ![id[k]] = 0] /\ main = 0
  PROVE  Sessions'
<1>1. /\ open \in [Conns -> {"none", "active", "closed"}] /\ closing \subseteq Conns
      /\ sessionMap \in [Conns -> 0 .. MaxConns] /\ id \in [Conns -> Conns] /\ main \in 0 .. MaxConns
  BY DEF Typed, ServerTyped
<1>2. k <= conn /\ k \in 1 .. conn
  BY Accepted DEF Conns
<1>3. open'[k] = "closed" /\ \A j \in Conns \ {k} : open'[j] = open[j]
  BY <1>1
<1>4. \A i \in Conns : sessionMap'[i] = 0 \/ sessionMap'[i] = sessionMap[i]
  BY <1>1
<1>5. main # 0 => main \in Conns
  BY <1>1 DEF Conns
<1>6. MainIsLive'
  BY <1>1, <1>3, <1>5 DEF Sessions, MainIsLive
<1>7. ClosingIsClosed'
  BY <1>1, <1>3 DEF Sessions, ClosingIsClosed
<1>8. StoredAsOwn'
  <2>1. SUFFICES ASSUME NEW i \in Conns, sessionMap'[i] # 0
                 PROVE  /\ id[sessionMap[i]] = i /\ open'[sessionMap[i]] # "none"
                        /\ main # sessionMap[i]
    BY <1>4 DEF StoredAsOwn
  <2>2. sessionMap[i] # 0 /\ sessionMap[i] \in Conns
    BY <1>4, <2>1, StoredType
  <2>. QED BY <1>3, <2>2 DEF Sessions, StoredAsOwn
<1>9. ClosedLeaves'
  <2>1. SUFFICES ASSUME NEW i \in Conns, sessionMap'[i] # 0, open'[sessionMap'[i]] = "closed"
                 PROVE  sessionMap'[i] \in closing' \cup overtaken
    BY DEF ClosedLeaves
  <2>2. sessionMap'[i] = sessionMap[i] /\ sessionMap[i] # 0 /\ sessionMap[i] \in Conns
    BY <1>4, <2>1, StoredType
  <2>3. id[sessionMap[i]] = i
    BY <2>2 DEF Sessions, StoredAsOwn
  <2>4. CASE sessionMap[i] = k
    <3>1. closing' = closing \cup {k}
      BY <1>1, <2>1, <2>2, <2>3, <2>4
    <3>. QED BY <2>2, <2>4, <3>1
  <2>5. CASE sessionMap[i] # k
    <3>1. sessionMap[i] \in closing \cup overtaken
      BY <1>3, <2>1, <2>2, <2>5 DEF Sessions, ClosedLeaves
    <3>. QED BY <2>2, <3>1
  <2>. QED BY <2>4, <2>5
<1>10. OpenStays'
  <2>1. SUFFICES ASSUME NEW j \in Conns, open'[j] = "active", main # j, Unique(j)
                 PROVE  sessionMap'[id[j]] = j
    BY DEF OpenStays, Unique
  <2>2. j # k /\ open[j] = "active"
    BY <1>3, <2>1
  <2>3. sessionMap[id[j]] = j
    BY <2>1, <2>2 DEF Sessions, OpenStays
  <2>4. id[j] # id[k] /\ id[j] \in Conns
    BY <1>1, <1>2, <2>1, <2>2 DEF Unique
  <2>. QED BY <1>1, <2>3, <2>4
<1>. QED BY <1>6, <1>7, <1>8, <1>9, <1>10 DEF Sessions

LEMMA SessionsNext == ASSUME Typed, Sessions, [Next]_vars PROVE Sessions'
<1>0. /\ open \in [Conns -> {"none", "active", "closed"}] /\ closing \subseteq Conns
      /\ sessionMap \in [Conns -> 0 .. MaxConns] /\ id \in [Conns -> Conns]
      /\ main \in 0 .. MaxConns /\ conn \in 0 .. MaxConns /\ conn \in Nat
  BY DEF Typed, ServerTyped, ClientTyped
<1>1. CASE UNCHANGED <<conn, main, id, open, closing, sessionMap, overtaken>>
  BY <1>1 DEF Sessions, MainIsLive, ClosingIsClosed, StoredAsOwn, ClosedLeaves, OpenStays, Unique
<1>2. CASE UNCHANGED vars
  BY <1>1, <1>2 DEF vars, client, server
<1>3. CASE CallMethod
  <2>1. UNCHANGED <<main, open, closing, sessionMap, overtaken>>
    BY <1>3 DEF CallMethod
  <2>2. \/ UNCHANGED <<conn, id>>
        \/ /\ conn + 1 \in Conns /\ conn' = conn + 1
           /\ \E i \in {conn + 1} \cup {id[k] : k \in 1 .. conn} : id' = [id EXCEPT ![conn + 1] = i]
    <3>1. \/ UNCHANGED <<conn, id>>
          \/ /\ conn < MaxConns /\ conn' = conn + 1
             /\ \E i \in {conn + 1} \cup {id[k] : k \in 1 .. conn} : id' = [id EXCEPT ![conn + 1] = i]
      BY <1>3 DEF CallMethod
    <3>2. conn < MaxConns => conn + 1 \in Conns
      BY <1>0 DEF Conns
    <3>. QED BY <3>1, <3>2
  <2>3. CASE UNCHANGED <<conn, id>>
    BY <1>1, <2>1, <2>3
  <2>4. CASE /\ conn + 1 \in Conns /\ conn' = conn + 1
             /\ \E i \in {conn + 1} \cup {id[k] : k \in 1 .. conn} : id' = [id EXCEPT ![conn + 1] = i]
    <3>1. \A k \in Conns : k # conn + 1 => id'[k] = id[k]
      BY <1>0, <2>4
    <3>2. \A k \in Conns : open[k] # "none" => k # conn + 1 /\ k \in 1 .. conn
      <4>1. SUFFICES ASSUME NEW k \in Conns, open[k] # "none" PROVE k # conn + 1 /\ k \in 1 .. conn
        OBVIOUS
      <4>2. k <= conn
        BY <4>1, Accepted
      <4>. QED BY <1>0, <4>2 DEF Conns
    <3>3. 1 .. conn \subseteq 1 .. conn' /\ 1 .. conn \subseteq Conns /\ conn + 1 \notin 1 .. conn
      <4>1. conn' = conn + 1 /\ conn \in Nat
        BY <1>0, <2>4
      <4>2. 1 .. conn \subseteq Conns
        BY <1>0 DEF Conns
      <4>. QED BY <4>1, <4>2
    <3>4. MainIsLive' /\ ClosingIsClosed' /\ ClosedLeaves'
      BY <2>1 DEF Sessions, MainIsLive, ClosingIsClosed, ClosedLeaves
    <3>5. StoredAsOwn'
      <4>1. SUFFICES ASSUME NEW i \in Conns, sessionMap[i] # 0
                     PROVE  /\ id'[sessionMap[i]] = i /\ open[sessionMap[i]] # "none"
                            /\ main # sessionMap[i]
        BY <2>1 DEF StoredAsOwn
      <4>2. sessionMap[i] \in Conns
        BY <4>1, StoredType
      <4>. QED BY <3>1, <3>2, <4>1, <4>2 DEF Sessions, StoredAsOwn
    <3>6. OpenStays'
      <4>1. SUFFICES ASSUME NEW k \in Conns, open[k] = "active", main # k, Unique(k)'
                     PROVE  sessionMap[id'[k]] = k
        BY <2>1 DEF OpenStays
      <4>2. k \in 1 .. conn /\ id'[k] = id[k]
        BY <3>1, <3>2, <4>1
      <4>3. Unique(k)
        <5>1. SUFFICES ASSUME NEW o \in (1 .. conn) \ {k} PROVE id[o] # id[k]
          BY DEF Unique
        <5>2. o \in (1 .. conn') \ {k} /\ id'[o] = id[o]
          BY <3>1, <3>3
        <5>3. id'[o] # id'[k]
          BY <4>1, <5>2 DEF Unique
        <5>. QED BY <4>2, <5>2, <5>3
      <4>. QED BY <4>1, <4>2, <4>3 DEF Sessions, OpenStays
    <3>. QED BY <3>4, <3>5, <3>6 DEF Sessions
  <2>. QED BY <2>2, <2>3, <2>4
<1>4. CASE ClientStep \/ ChannelClose
  BY <1>1, <1>4 DEF ClientStep, SendRequest, SendFails, Transfer, ReadFails, ReadHeader, ReadBody,
                    ChannelClose, server
<1>5. CASE Emplace
  <2>1. /\ main # 0 /\ main' = 0 /\ UNCHANGED <<conn, id, open, closing, overtaken>>
        /\ sessionMap' = IF sessionMap[id[main]] = 0 THEN [sessionMap EXCEPT ![id[main]] = main]
                         ELSE sessionMap
    BY <1>5 DEF Emplace, client
  <2>2. main \in Conns
    BY <1>0, <2>1 DEF Conns
  <2>3. open[main] # "none" /\ (open[main] = "closed" => main \in closing \cup overtaken)
    BY <2>1 DEF Sessions, MainIsLive
  <2>4. main \in 1 .. conn
    <3>1. main <= conn
      BY <2>2, <2>3, Accepted
    <3>. QED BY <2>2, <3>1 DEF Conns
  <2>5. id[main] \in Conns
    BY <1>0, <2>2
  <2>6. MainIsLive' /\ ClosingIsClosed'
    BY <2>1 DEF Sessions, MainIsLive, ClosingIsClosed
  <2>7. ASSUME NEW i \in Conns, sessionMap'[i] # 0
        PROVE  \/ sessionMap'[i] = sessionMap[i] /\ sessionMap[i] # 0 /\ sessionMap[i] \in Conns
               \/ sessionMap'[i] = main /\ i = id[main]
    <3>1. \/ sessionMap'[i] = sessionMap[i]
          \/ sessionMap'[i] = main /\ i = id[main]
      BY <1>0, <2>1, <2>5
    <3>. QED BY <2>7, <3>1, StoredType
  <2>8. StoredAsOwn'
    <3>1. SUFFICES ASSUME NEW i \in Conns, sessionMap'[i] # 0
                   PROVE  /\ id[sessionMap'[i]] = i /\ open[sessionMap'[i]] # "none"
                          /\ 0 # sessionMap'[i]
      BY <2>1 DEF StoredAsOwn
    <3>. QED BY <2>3, <2>7, <3>1 DEF Sessions, StoredAsOwn
  <2>9. ClosedLeaves'
    <3>1. SUFFICES ASSUME NEW i \in Conns, sessionMap'[i] # 0, open[sessionMap'[i]] = "closed"
                   PROVE  sessionMap'[i] \in closing \cup overtaken
      BY <2>1 DEF ClosedLeaves
    <3>. QED BY <2>3, <2>7, <3>1 DEF Sessions, ClosedLeaves
  <2>10. OpenStays'
    <3>1. SUFFICES ASSUME NEW k \in Conns, open[k] = "active", Unique(k)
                   PROVE  sessionMap'[id[k]] = k
      BY <2>1 DEF OpenStays, Unique
    <3>2. id[k] \in Conns
      BY <1>0
    <3>3. CASE k = main
      <4>1. sessionMap[id[main]] = 0
        <5>1. SUFFICES ASSUME sessionMap[id[main]] # 0 PROVE FALSE
          OBVIOUS
        <5> DEFINE s == sessionMap[id[main]]
        <5>2. s \in Conns /\ id[s] = id[main] /\ open[s] # "none" /\ main # s
          BY <2>5, <5>1, StoredType DEF Sessions, StoredAsOwn
        <5>. HIDE DEF s
        <5>3. s <= conn
          BY <5>2, Accepted
        <5>4. s \in (1 .. conn) \ {k}
          BY <3>3, <5>2, <5>3 DEF Conns
        <5>. QED BY <3>1, <3>3, <5>2, <5>4 DEF Unique
      <4>. QED BY <1>0, <2>1, <2>5, <3>3, <4>1
    <3>4. CASE k # main
      <4>1. sessionMap[id[k]] = k
        BY <3>1, <3>4 DEF Sessions, OpenStays
      <4>2. id[k] # id[main]
        BY <2>4, <3>1, <3>4 DEF Unique
      <4>. QED BY <1>0, <2>1, <3>2, <4>1, <4>2
    <3>. QED BY <3>3, <3>4
  <2>. QED BY <2>6, <2>8, <2>9, <2>10 DEF Sessions
<1>6. ASSUME NEW k \in Conns, Accept(k) PROVE Sessions'
  <2>1. /\ main = 0 /\ open[k] = "none" /\ main' = k /\ open' = [open EXCEPT ![k] = "active"]
        /\ UNCHANGED <<conn, id, closing, sessionMap, overtaken>>
    BY <1>6 DEF Accept, client
  <2>2. open'[k] = "active" /\ \A j \in Conns \ {k} : open'[j] = open[j]
    BY <1>0, <2>1
  <2>3. \A i \in Conns : sessionMap[i] # 0 => sessionMap[i] \in Conns \ {k}
    BY <2>1, StoredType DEF Sessions, StoredAsOwn
  <2>4. MainIsLive'
    BY <2>1, <2>2 DEF MainIsLive
  <2>5. ClosingIsClosed'
    BY <1>0, <2>1, <2>2 DEF Sessions, ClosingIsClosed
  <2>6. StoredAsOwn'
    BY <2>1, <2>2, <2>3 DEF Sessions, StoredAsOwn
  <2>7. ClosedLeaves'
    BY <2>1, <2>2, <2>3 DEF Sessions, ClosedLeaves
  <2>8. OpenStays'
    <3>1. SUFFICES ASSUME NEW j \in Conns, open'[j] = "active", k # j, Unique(j)
                   PROVE  sessionMap[id[j]] = j
      BY <2>1 DEF OpenStays, Unique
    <3>2. open[j] = "active" /\ main # j
      BY <2>1, <2>2, <3>1 DEF Conns
    <3>. QED BY <3>1, <3>2 DEF Sessions, OpenStays
  <2>. QED BY <2>4, <2>5, <2>6, <2>7, <2>8 DEF Sessions
<1>7. ASSUME NEW k \in Conns, TimerExpires(k) PROVE Sessions'
  <2>1. /\ open[k] = "active" /\ open' = [open EXCEPT ![k] = "closed"] /\ main = 0
        /\ UNCHANGED <<conn, main, id, overtaken>>
        /\ closing' = closing /\ sessionMap' = [sessionMap EXCEPT ![id[k]] = 0]
    BY <1>7 DEF TimerExpires, CloseSocket, client
  <2>. QED BY <2>1, ClosedSessions
<1>8. ASSUME NEW k \in Conns, OnReadOfNone(k) PROVE Sessions'
  <2>1. /\ reading[k] # "none" /\ open' = [open EXCEPT ![k] = "closed"]
        /\ main # k /\ sessionMap[id[k]] # k
        /\ UNCHANGED <<conn, main, id, overtaken>>
        /\ closing' = closing /\ sessionMap' = sessionMap
    BY <1>8 DEF OnReadOfNone, CloseSocket, Alive, client
  <2>2. open[k] = "active"
    BY <2>1 DEF Typed, ServerTyped, SessionTyped
  <2>. QED BY <2>1, <2>2, ClosedSessions
<1>9. ASSUME NEW k \in Conns, Close(k), reading[k] # "none",
             UNCHANGED <<conn, main, id, sessionMap, overtaken>>
      PROVE  Sessions'
  <2>1. open' = [open EXCEPT ![k] = "closed"] /\ closing' = closing \cup {k}
    BY <1>9 DEF Close, CloseSocket
  <2>2. open[k] = "active"
    BY <1>9 DEF Typed, ServerTyped, SessionTyped
  <2>. QED BY <1>9, <2>1, <2>2, ClosedSessions
<1>10. ASSUME NEW k \in Conns, OnError(k) \/ WriteFails(k) PROVE Sessions'
  BY <1>9, <1>10 DEF OnError, WriteFails, client
<1>11. ASSUME NEW k \in Conns, OnBody(k) PROVE Sessions'
  BY <1>1, <1>9, <1>11 DEF OnBody, client
<1>12. ASSUME NEW k \in Conns, Receive(k) \/ OnHeader(k) PROVE Sessions'
  BY <1>1, <1>12 DEF Receive, OnHeader, client
<1>13. ASSUME NEW k \in Conns, NEW result \in Results, HandlerReturns(k, result) PROVE Sessions'
  BY <1>1, <1>13 DEF HandlerReturns, client
<1>14. ASSUME NEW k \in Conns, OnSessionClose(k) PROVE Sessions'
  <2>1. /\ k \in closing /\ closing' = closing \ {k}
        /\ sessionMap' = [sessionMap EXCEPT ![id[k]] = 0]
        /\ overtaken' = IF main = k THEN overtaken \cup {k} ELSE overtaken
        /\ UNCHANGED <<conn, main, id, open>>
    BY <1>14 DEF OnSessionClose, client
  <2>2. open[k] = "closed"
    BY <2>1 DEF Sessions, ClosingIsClosed
  <2>3. k \in 1 .. conn /\ id[k] \in Conns
    <3>1. k <= conn
      BY <2>2, Accepted
    <3>. QED BY <1>0, <3>1 DEF Conns
  <2>4. \A i \in Conns : sessionMap'[i] # 0 =>
          sessionMap'[i] = sessionMap[i] /\ sessionMap[i] # 0 /\ i # id[k]
    BY <1>0, <2>1, <2>3
  <2>5. MainIsLive'
    BY <2>1 DEF Sessions, MainIsLive
  <2>6. ClosingIsClosed'
    BY <2>1 DEF Sessions, ClosingIsClosed
  <2>7. StoredAsOwn'
    BY <2>1, <2>4 DEF Sessions, StoredAsOwn
  <2>8. ClosedLeaves'
    <3>1. SUFFICES ASSUME NEW i \in Conns, sessionMap'[i] # 0, open[sessionMap'[i]] = "closed"
                   PROVE  sessionMap'[i] \in closing' \cup overtaken'
      BY <2>1 DEF ClosedLeaves
    <3>2. sessionMap[i] \in closing \cup overtaken /\ id[sessionMap[i]] = i
      BY <2>4, <3>1 DEF Sessions, ClosedLeaves, StoredAsOwn
    <3>3. sessionMap[i] # k
      BY <2>4, <3>1, <3>2
    <3>. QED BY <2>1, <2>4, <3>1, <3>2, <3>3
  <2>9. OpenStays'
    <3>1. SUFFICES ASSUME NEW j \in Conns, open[j] = "active", main # j, Unique(j)
                   PROVE  sessionMap'[id[j]] = j
      BY <2>1 DEF OpenStays, Unique
    <3>2. j # k /\ sessionMap[id[j]] = j
      BY <2>2, <3>1 DEF Sessions, OpenStays
    <3>3. id[j] # id[k] /\ id[j] \in Conns
      BY <1>0, <2>3, <3>1, <3>2 DEF Unique
    <3>. QED BY <1>0, <2>1, <3>2, <3>3
  <2>. QED BY <2>5, <2>6, <2>7, <2>8, <2>9 DEF Sessions
<1>. QED BY <1>2, <1>3, <1>4, <1>5, <1>6, <1>7, <1>8, <1>10, <1>11, <1>12, <1>13, <1>14
     DEF Next, SessionStep

-----------------------------------------------------------------------------
(***************************************************************************)
(* The line of the client's connection: what its steps and the server's    *)
(* leave of it.                                                            *)
(***************************************************************************)
LEMMA OnLineFacts ==
  ASSUME Typed, Replies, NEW k \in Conns, k = conn
  PROVE  /\ Answers(k) \in Seq(Pieces) /\ Requests(k) \in Seq(Pieces)
         /\ buffer \in Seq(Pieces) /\ s2c[k] \in Seq(Pieces)
         /\ readBuf[k] \in Seq(Pieces) /\ c2s[k] \in Seq(Pieces)
         /\ handler[k] \in Nat /\ Asked \in Int /\ 0 <= Asked
         /\ Floors \in SUBSET Int /\ BodyFloors \in SUBSET Int /\ BodyFloors \in SUBSET Floors
         /\ Good(Answers(k), handler[k], Requests(k), Asked, Floors, BodyFloors)
<1>0. ClientTyped /\ WireTyped /\ ServerTyped
  BY DEF Typed
<1>1. /\ buffer \in Seq(Pieces) /\ s2c[k] \in Seq(Pieces)
      /\ readBuf[k] \in Seq(Pieces) /\ c2s[k] \in Seq(Pieces) /\ handler[k] \in Nat
  BY <1>0 DEF ClientTyped, WireTyped, ServerTyped
<1>2. Answers(k) \in Seq(Pieces)
  <2>1. buffer \o s2c[k] \in Seq(Pieces)
    BY <1>1
  <2>. QED BY <2>1 DEF Answers
<1>3. Requests(k) \in Seq(Pieces)
  <2>1. readBuf[k] \o c2s[k] \in Seq(Pieces)
    BY <1>1
  <2>. QED BY <2>1 DEF Requests
<1>4. call \in Nat /\ (pc # "idle" => call - 1 \in Nat)
  BY <1>0, UnderWay DEF ClientTyped
<1>5. Asked \in Int /\ 0 <= Asked
  BY <1>4 DEF Asked
<1>6. \A j \in DOMAIN outcomes : outcomes[j] \in Int
  <2>1. outcomes \in Seq(0 .. MaxCalls)
    BY <1>0 DEF ClientTyped
  <2>2. \A j \in DOMAIN outcomes : outcomes[j] \in 0 .. MaxCalls
    BY <2>1
  <2>. QED BY <2>2
<1>7. Returned \in SUBSET Int /\ call - 1 \in Int /\ Settled \in Int
  BY <1>4, <1>6 DEF Returned, Settled
<1>8. Floors \in SUBSET Int /\ BodyFloors \in SUBSET Int /\ BodyFloors \in SUBSET Floors
  BY <1>7 DEF Floors, BodyFloors
<1>9. Good(Answers(k), handler[k], Requests(k), Asked, Floors, BodyFloors)
  BY DEF Replies, OnLine
<1>. QED BY <1>1, <1>2, <1>3, <1>5, <1>8, <1>9

\* Parts of the line, for a client that is as it was.
LEMMA PartsKeep ==
  ASSUME Typed, Replies, NEW k \in Conns, k = conn,
         NEW R \in Seq(Pieces), NEW Q \in Seq(Pieces), NEW h \in {handler[k], 0},
         Part(R, Answers(k)), Part(Q, Requests(k))
  PROVE  Good(R, h, Q, Asked, Floors, BodyFloors)
<1>1. /\ Answers(k) \in Seq(Pieces) /\ Requests(k) \in Seq(Pieces) /\ handler[k] \in Nat
      /\ Asked \in Int /\ Asked <= Asked /\ 0 <= Asked
      /\ Floors \in SUBSET Int /\ Floors \in SUBSET Floors
      /\ BodyFloors \in SUBSET Int /\ BodyFloors \in SUBSET BodyFloors
      /\ Good(Answers(k), handler[k], Requests(k), Asked, Floors, BodyFloors)
  BY OnLineFacts
<1> DEFINE A == Answers(k)
           T == Requests(k)
           l == Asked
           F == Floors
           G == BodyFloors
           g == handler[k]
<1>2. /\ A \in Seq(Pieces) /\ T \in Seq(Pieces) /\ g \in Nat /\ h \in {g, 0}
      /\ l \in Int /\ l <= l /\ 0 <= l /\ F \in SUBSET Int /\ F \in SUBSET F
      /\ G \in SUBSET Int /\ G \in SUBSET G /\ Part(R, A) /\ Part(Q, T) /\ Good(A, g, T, l, F, G)
  BY <1>1
<1>. HIDE DEF A, T, l, F, G, g
<1>3. Good(R, h, Q, l, F, G)
  BY <1>2, GoodPart
<1>. QED BY <1>3 DEF l, F, G

LEMMA ServerKeeps ==
  ASSUME Replies, UNCHANGED client,
         \A k \in Conns : k = conn =>
           Good(Answers(k)', handler'[k], Requests(k)', Asked, Floors, BodyFloors)
  PROVE  Replies'
<1>1. /\ Asked' = Asked /\ Floors' = Floors /\ BodyFloors' = BodyFloors /\ conn' = conn
      /\ UNCHANGED <<gaveUp, outcomes>>
  BY DEF client, Asked, Floors, BodyFloors, Returned, Settled
<1>2. ASSUME NEW k \in Conns, k = conn' PROVE OnLine(k)'
  BY <1>1, <1>2 DEF OnLine
<1>3. ResultIsOwn'
  BY <1>1 DEF Replies, ResultIsOwn
<1>. QED BY <1>1, <1>2, <1>3 DEF Replies

\* A step of session k.
LEMMA SessionKeeps ==
  ASSUME Typed, Replies, UNCHANGED client, NEW k \in Conns,
         \A j \in Conns \ {k} : /\ s2c'[j] = s2c[j] /\ c2s'[j] = c2s[j]
                                /\ readBuf'[j] = readBuf[j] /\ handler'[j] = handler[j],
         k = conn => Good(buffer \o s2c'[k], handler'[k], readBuf'[k] \o c2s'[k],
                          Asked, Floors, BodyFloors)
  PROVE  Replies'
<1>1. ASSUME NEW j \in Conns, j = conn
      PROVE  Good(Answers(j)', handler'[j], Requests(j)', Asked, Floors, BodyFloors)
  <2>1. buffer' = buffer
    BY DEF client
  <2>2. CASE j = k
    BY <1>1, <2>1, <2>2 DEF Answers, Requests
  <2>3. CASE j # k
    <3>1. Answers(j)' = Answers(j) /\ Requests(j)' = Requests(j) /\ handler'[j] = handler[j]
      BY <2>1, <2>3 DEF Answers, Requests
    <3>2. Good(Answers(j), handler[j], Requests(j), Asked, Floors, BodyFloors)
      BY <1>1, OnLineFacts
    <3>. QED BY <3>1, <3>2
  <2>. QED BY <2>2, <2>3
<1>. QED BY <1>1, ServerKeeps

LEMMA ClosedKeeps ==
  ASSUME Typed, Replies, UNCHANGED <<client, handler>>, NEW k \in Conns, CloseSocket(k)
  PROVE  Replies'
<1>1. /\ s2c' = s2c /\ c2s' = [c2s EXCEPT ![k] = <<>>] /\ readBuf' = [readBuf EXCEPT ![k] = <<>>]
      /\ c2s \in [Conns -> Seq(Pieces)] /\ readBuf \in [Conns -> Seq(Pieces)]
  BY DEF CloseSocket, Typed, WireTyped, ServerTyped
<1>2. \A j \in Conns \ {k} : /\ s2c'[j] = s2c[j] /\ c2s'[j] = c2s[j]
                             /\ readBuf'[j] = readBuf[j] /\ handler'[j] = handler[j]
  BY <1>1
<1>3. ASSUME k = conn
      PROVE  Good(buffer \o s2c'[k], handler'[k], readBuf'[k] \o c2s'[k], Asked, Floors, BodyFloors)
  <2>1. readBuf'[k] = <<>> /\ c2s'[k] = <<>> /\ handler'[k] = handler[k] /\ s2c'[k] = s2c[k]
    BY <1>1
  <2>2. <<>> \o <<>> = <<>> /\ <<>> \in Seq(Pieces)
    OBVIOUS
  <2>3. Answers(k) \in Seq(Pieces) /\ Requests(k) \in Seq(Pieces)
    BY <1>3, OnLineFacts
  <2>4. Part(Answers(k), Answers(k)) /\ Part(<<>>, Requests(k))
    BY <2>3, Parts
  <2>5. Good(Answers(k), handler[k], <<>>, Asked, Floors, BodyFloors)
    BY <1>3, <2>2, <2>3, <2>4, PartsKeep
  <2>. QED BY <2>1, <2>2, <2>5 DEF Answers
<1>. QED BY <1>2, <1>3, SessionKeeps

LEMMA RepliesServer ==
  ASSUME Typed, Replies, NEW k \in Conns,
         Emplace \/ Accept(k) \/ TimerExpires(k) \/ SessionStep(k)
  PROVE  Replies'
<1>0. /\ s2c \in [Conns -> Seq(Pieces)] /\ c2s \in [Conns -> Seq(Pieces)]
      /\ readBuf \in [Conns -> Seq(Pieces)] /\ handler \in [Conns -> 0 .. MaxCalls]
      /\ ClientTyped /\ ServerTyped
  BY DEF Typed, WireTyped, ServerTyped
<1>1. CASE UNCHANGED <<client, s2c, c2s, readBuf, handler>>
  <2>1. ASSUME k = conn
        PROVE  Good(buffer \o s2c'[k], handler'[k], readBuf'[k] \o c2s'[k],
                    Asked, Floors, BodyFloors)
    BY <1>1, <2>1, OnLineFacts DEF Answers, Requests
  <2>. QED BY <1>1, <2>1, SessionKeeps
<1>2. CASE Emplace \/ Accept(k) \/ OnSessionClose(k)
  BY <1>1, <1>2 DEF Emplace, Accept, OnSessionClose, reads
<1>3. CASE TimerExpires(k) \/ OnError(k) \/ OnReadOfNone(k) \/ WriteFails(k)
  BY <1>3, ClosedKeeps DEF TimerExpires, OnError, OnReadOfNone, WriteFails, Close
<1>4. CASE Receive(k)
  <2>1. PICK n \in Fits(readBuf[k], c2s[k]) :
          /\ readBuf' = [readBuf EXCEPT ![k] = readBuf[k] \o SubSeq(c2s[k], 1, n)]
          /\ c2s' = [c2s EXCEPT ![k] = Rest(c2s[k], n)]
          /\ UNCHANGED <<client, handler, s2c>>
    BY <1>4 DEF Receive
  <2>2. readBuf[k] \in Seq(Pieces) /\ c2s[k] \in Seq(Pieces)
    BY <1>0
  <2>3. (readBuf[k] \o SubSeq(c2s[k], 1, n)) \o Rest(c2s[k], n) = readBuf[k] \o c2s[k]
    BY <2>2, TransferType
  <2>4. readBuf'[k] = readBuf[k] \o SubSeq(c2s[k], 1, n) /\ c2s'[k] = Rest(c2s[k], n)
    BY <1>0, <2>1
  <2>5. readBuf'[k] \o c2s'[k] = readBuf[k] \o c2s[k]
    BY <2>3, <2>4
  <2>6. ASSUME k = conn
        PROVE  Good(buffer \o s2c'[k], handler'[k], readBuf'[k] \o c2s'[k],
                    Asked, Floors, BodyFloors)
    <3>1. Good(Answers(k), handler[k], Requests(k), Asked, Floors, BodyFloors)
      BY <2>6, OnLineFacts
    <3>. QED BY <2>1, <2>5, <3>1 DEF Answers, Requests
  <2>7. \A j \in Conns \ {k} : /\ s2c'[j] = s2c[j] /\ c2s'[j] = c2s[j]
                               /\ readBuf'[j] = readBuf[j] /\ handler'[j] = handler[j]
    BY <1>0, <2>1
  <2>. QED BY <2>1, <2>6, <2>7, SessionKeeps
<1>5. CASE OnHeader(k)
  <2> DEFINE e == HeaderEnd(readBuf[k])
  <2>1. /\ e # 0 /\ readBuf' = [readBuf EXCEPT ![k] = Rest(readBuf[k], e)]
        /\ UNCHANGED <<client, handler, s2c, c2s>>
    BY <1>5 DEF OnHeader, Complete
  <2>2. readBuf[k] \in Seq(Pieces) /\ c2s[k] \in Seq(Pieces) /\ readBuf'[k] = Rest(readBuf[k], e)
    BY <1>0, <2>1
  <2>3. e \in 0 .. Len(readBuf[k])
    BY <2>1, <2>2, HeaderSize
  <2>. HIDE DEF e
  <2>4. /\ e \in 0 .. Len(readBuf[k] \o c2s[k])
        /\ Rest(readBuf[k], e) \o c2s[k] = Rest(readBuf[k] \o c2s[k], e)
    BY <2>2, <2>3, RestOfBoth
  <2>5. ASSUME k = conn
        PROVE  Good(buffer \o s2c'[k], handler'[k], readBuf'[k] \o c2s'[k],
                    Asked, Floors, BodyFloors)
    <3>1. Answers(k) \in Seq(Pieces) /\ Requests(k) \in Seq(Pieces)
      BY <2>5, OnLineFacts
    <3>2. e \in 0 .. Len(Requests(k)) /\ readBuf'[k] \o c2s'[k] = Rest(Requests(k), e)
      BY <2>1, <2>2, <2>4 DEF Requests
    <3>3. /\ Part(Answers(k), Answers(k)) /\ Part(Rest(Requests(k), e), Requests(k))
          /\ Rest(Requests(k), e) \in Seq(Pieces)
      BY <3>1, <3>2, Parts, Split
    <3>4. Good(Answers(k), handler[k], Rest(Requests(k), e), Asked, Floors, BodyFloors)
      BY <2>5, <3>1, <3>3, PartsKeep
    <3>. QED BY <2>1, <3>2, <3>4 DEF Answers
  <2>6. \A j \in Conns \ {k} : /\ s2c'[j] = s2c[j] /\ c2s'[j] = c2s[j]
                               /\ readBuf'[j] = readBuf[j] /\ handler'[j] = handler[j]
    BY <1>0, <2>1
  <2>. QED BY <2>1, <2>5, <2>6, SessionKeeps
<1>6. CASE OnBody(k)
  <2> DEFINE body == SubSeq(readBuf[k], 1, want[k])
             n == want[k]
             q == readBuf[k] \o c2s[k]
  <2>1. reading[k] = "length" /\ Complete(k) /\ UNCHANGED client
    BY <1>6 DEF OnBody
  <2>2. CASE /\ WholeBody(body) /\ handler' = [handler EXCEPT ![k] = body[1].call]
             /\ readBuf' = [readBuf EXCEPT ![k] = Rest(readBuf[k], n)]
             /\ UNCHANGED <<c2s, s2c>>
    <3>1. /\ n \in 1 .. Len(readBuf[k]) /\ n \in 0 .. Len(readBuf[k])
          /\ readBuf[k] \in Seq(Pieces) /\ c2s[k] \in Seq(Pieces)
          /\ body[1] = readBuf[k][1]
      BY <1>0, <2>1, RequestIsThere
    <3>2. Body(readBuf[k], n)
      BY <2>2, <3>1, BodyInFront
    <3>3. Body(q, n) /\ q[1] = readBuf[k][1] /\ q \in Seq(Pieces)
      <4>1. q \in Seq(Pieces)
        BY <3>1
      <4>. QED BY <3>1, <3>2, <4>1, BodyJoined
    <3>4. n \in 1 .. Len(q)
      BY <3>3 DEF Body
    <3>5. Rest(readBuf[k], n) \o c2s[k] = Rest(q, n)
      BY <3>1, RestOfBoth
    <3>6. handler'[k] = q[1].call /\ readBuf'[k] = Rest(readBuf[k], n) /\ c2s'[k] = c2s[k]
      BY <1>0, <2>2, <3>1, <3>3
    <3>7. handler[k] = 0
      BY <1>0, <2>1 DEF ServerTyped, SessionTyped
    <3>. HIDE DEF body, n, q
    <3>8. ASSUME k = conn
          PROVE  Good(buffer \o s2c'[k], handler'[k], readBuf'[k] \o c2s'[k],
                      Asked, Floors, BodyFloors)
      <4>1. /\ Answers(k) \in Seq(Pieces) /\ Asked \in Int
            /\ Floors \in SUBSET Int /\ BodyFloors \in SUBSET Int
            /\ Good(Answers(k), 0, q, Asked, Floors, BodyFloors)
        BY <3>7, <3>8, OnLineFacts DEF Requests, q
      <4>2. Good(Answers(k), q[1].call, Rest(q, n), Asked, Floors, BodyFloors)
        BY <3>3, <3>4, <4>1, GoodDispatch
      <4>. QED BY <2>2, <3>5, <3>6, <4>2 DEF Answers
    <3>9. \A j \in Conns \ {k} : /\ s2c'[j] = s2c[j] /\ c2s'[j] = c2s[j]
                                 /\ readBuf'[j] = readBuf[j] /\ handler'[j] = handler[j]
      BY <1>0, <2>2
    <3>. QED BY <2>1, <3>8, <3>9, SessionKeeps
  <2>3. CASE CloseSocket(k) /\ UNCHANGED handler
    BY <2>1, <2>3, ClosedKeeps
  <2>. QED BY <1>6, <2>2, <2>3 DEF OnBody, Close
<1>7. ASSUME NEW result \in Results, HandlerReturns(k, result) PROVE Replies'
  <2> DEFINE m == Message(handler[k], result.size, result.error)
  <2>1. /\ handler[k] # 0 /\ handler' = [handler EXCEPT ![k] = 0]
        /\ s2c' = s2c \/ s2c' = [s2c EXCEPT ![k] = s2c[k] \o m]
        /\ UNCHANGED <<client, readBuf, c2s>>
    BY <1>7 DEF HandlerReturns, WriteResponse
  <2>2. handler[k] \in Calls /\ handler'[k] = 0
    BY <1>0, <2>1 DEF Calls
  <2>3. result.size \in BodySizes /\ result.error \in BOOLEAN
    BY ResultType
  <2>4. m \in Seq(Pieces)
    BY <2>2, <2>3, MessageType
  <2>5. ASSUME k = conn
        PROVE  Good(buffer \o s2c'[k], handler'[k], readBuf'[k] \o c2s'[k],
                    Asked, Floors, BodyFloors)
    <3>1. /\ Answers(k) \in Seq(Pieces) /\ Requests(k) \in Seq(Pieces) /\ Asked \in Int
          /\ buffer \in Seq(Pieces) /\ s2c[k] \in Seq(Pieces)
          /\ Floors \in SUBSET Int /\ BodyFloors \in SUBSET Floors
          /\ Good(Answers(k), handler[k], Requests(k), Asked, Floors, BodyFloors)
      BY <2>5, OnLineFacts
    <3>2. CASE s2c' = s2c
      <4>1. Part(Answers(k), Answers(k)) /\ Part(Requests(k), Requests(k)) /\ 0 \in {handler[k], 0}
        BY <3>1, Parts
      <4>2. Good(Answers(k), 0, Requests(k), Asked, Floors, BodyFloors)
        BY <2>5, <3>1, <4>1, PartsKeep
      <4>. QED BY <2>1, <2>2, <3>2, <4>2 DEF Answers, Requests
    <3>3. CASE s2c' = [s2c EXCEPT ![k] = s2c[k] \o m]
      <4>1. s2c'[k] = s2c[k] \o m
        BY <1>0, <3>3
      <4>2. buffer \o s2c'[k] = Answers(k) \o m
        <5> DEFINE a == buffer
                   b == s2c[k]
        <5>1. a \in Seq(Pieces) /\ b \in Seq(Pieces) /\ m \in Seq(Pieces)
          BY <2>4, <3>1
        <5>. HIDE DEF m, a, b
        <5>2. a \o (b \o m) = (a \o b) \o m
          BY <5>1, BehindBoth
        <5>. QED BY <4>1, <5>2 DEF Answers, a, b
      <4>3. Good(Answers(k) \o m, 0, Requests(k), Asked, Floors, BodyFloors)
        BY <2>2, <2>3, <3>1, GoodRespond
      <4>. QED BY <2>1, <2>2, <4>2, <4>3 DEF Requests
    <3>. QED BY <2>1, <3>2, <3>3
  <2>6. \A j \in Conns \ {k} : /\ s2c'[j] = s2c[j] /\ c2s'[j] = c2s[j]
                               /\ readBuf'[j] = readBuf[j] /\ handler'[j] = handler[j]
    BY <1>0, <2>1
  <2>. QED BY <2>1, <2>5, <2>6, SessionKeeps
<1>. QED BY <1>2, <1>3, <1>4, <1>5, <1>6, <1>7 DEF SessionStep

\* A call that returns "" while no header of it or of a later call is to come.
LEMMA GoodFails ==
  ASSUME NEW R \in Seq(Pieces), NEW Q \in Seq(Pieces), NEW h \in Nat,
         NEW last \in Int, NEW F \in SUBSET Int, NEW G, Good(R, h, Q, last, F, G),
         NEW X \in SUBSET Int, X # {} => last \in F
  PROVE  Good(R, h, Q, last, F \cup X \cup {0}, G)
<1>1. /\ \A i \in DOMAIN R : R[i].call \in Int /\ R[i].call > 0
      /\ \A j \in DOMAIN Q : Q[j].call \in Int /\ Q[j].call > 0
  BY PieceType
<1>2. /\ Line(R, h, Q, last) /\ \A f \in F : Above(f, R, h, Q)
      /\ \A f \in G : AllAbove(f, R)
  BY DEF Good
<1>4. ASSUME NEW x \in X PROVE Above(x, R, h, Q)
  <2>1. Above(last, R, h, Q)
    BY <1>2
  <2>. QED BY <1>1, <1>2, <2>1 DEF Above, Line
<1>5. Above(0, R, h, Q)
  <2>1. h # 0 => 0 < h
    OBVIOUS
  <2>. QED BY <1>1, <2>1 DEF Above
<1>. QED BY <1>2, <1>4, <1>5 DEF Good

\* What a result that is appended has to satisfy.
LEMMA OwnAppended ==
  ASSUME ResultIsOwn, outcomes \in Seq(0 .. MaxCalls), NEW r \in 0 .. MaxCalls,
         outcomes' = Append(outcomes, r), gaveUp \subseteq gaveUp',
         gaveUp \subseteq 1 .. Len(outcomes),
         r # 0 => /\ r <= Len(outcomes) + 1 /\ \A f \in Returned : f < r
                  /\ gaveUp = {} => r = Len(outcomes) + 1
  PROVE  ResultIsOwn'
<1> DEFINE n == Len(outcomes)
<1>1. /\ n \in Nat /\ DOMAIN outcomes = 1 .. n /\ DOMAIN outcomes' = 1 .. n + 1
      /\ \A i \in 1 .. n : outcomes'[i] = outcomes[i]
      /\ outcomes'[n + 1] = r
  <2>1. Append(outcomes, r) \in Seq(0 .. MaxCalls) /\ Len(Append(outcomes, r)) = Len(outcomes) + 1
    BY Appended
  <2>2. /\ \A i \in 1 .. Len(outcomes) : Append(outcomes, r)[i] = outcomes[i]
        /\ Append(outcomes, r)[Len(outcomes) + 1] = r /\ Len(outcomes) \in Nat
    BY Appended
  <2>3. DOMAIN Append(outcomes, r) = 1 .. Len(outcomes) + 1 /\ DOMAIN outcomes = 1 .. Len(outcomes)
    BY <2>1, <2>2
  <2>. QED BY <2>1, <2>2, <2>3
<1>. HIDE DEF n
<1>2. gaveUp \subseteq 1 .. n
  BY DEF n
<1>3. SUFFICES ASSUME NEW j \in 1 .. n + 1, outcomes'[j] # 0
               PROVE  /\ outcomes'[j] <= j
                      /\ \A i \in 1 .. j - 1 : outcomes'[i] < outcomes'[j]
                      /\ (\A c \in gaveUp' : c >= j) => outcomes'[j] = j
  BY <1>1 DEF ResultIsOwn
<1>4. CASE j \in 1 .. n
  <2>1. /\ outcomes[j] <= j /\ \A i \in 1 .. j - 1 : outcomes[i] < outcomes[j]
        /\ (\A c \in gaveUp : c >= j) => outcomes[j] = j
    BY <1>1, <1>3, <1>4 DEF ResultIsOwn
  <2>2. \A i \in 1 .. j - 1 : i \in 1 .. n
    BY <1>1, <1>4
  <2>. QED BY <1>1, <1>4, <2>1, <2>2
<1>5. CASE j = n + 1
  <2>1. outcomes'[j] = r /\ r # 0
    BY <1>1, <1>3, <1>5
  <2>2. r <= n + 1 /\ (\A f \in Returned : f < r) /\ (gaveUp = {} => r = n + 1)
    BY <2>1 DEF n
  <2>3. \A i \in 1 .. j - 1 : i \in 1 .. n
    BY <1>1, <1>5
  <2>4. \A i \in 1 .. j - 1 : outcomes'[i] < r
    BY <1>1, <2>2, <2>3 DEF Returned
  <2>5. ASSUME \A c \in gaveUp' : c >= j PROVE gaveUp = {}
    <3>1. \A c \in gaveUp : c \in 1 .. n /\ c >= n + 1
      BY <1>2, <1>5, <2>5
    <3>. QED BY <1>1, <3>1
  <2>. QED BY <1>5, <2>1, <2>2, <2>4, <2>5
<1>. QED BY <1>1, <1>4, <1>5

\* The floors after a call has returned r.
LEMMA FloorsAfter ==
  ASSUME outcomes \in Seq(0 .. MaxCalls), NEW r \in 0 .. MaxCalls,
         outcomes' = Append(outcomes, r), pc' = "idle"
  PROVE  /\ Floors' \subseteq Returned \cup {r} \cup {f \in {call' - 1, call'} : gaveUp' = {}}
         /\ BodyFloors' = {} /\ Asked' = call' /\ Len(outcomes') = Len(outcomes) + 1
         /\ Len(outcomes) \in Nat
<1>1. Append(outcomes, r) \in Seq(0 .. MaxCalls) /\ Len(Append(outcomes, r)) = Len(outcomes) + 1
  BY Appended
<1>2. /\ \A i \in 1 .. Len(outcomes) : Append(outcomes, r)[i] = outcomes[i]
      /\ Append(outcomes, r)[Len(outcomes) + 1] = r /\ Len(outcomes) \in Nat
  BY Appended
<1>3. DOMAIN Append(outcomes, r) = 1 .. Len(outcomes) + 1 /\ DOMAIN outcomes = 1 .. Len(outcomes)
  BY <1>1, <1>2
<1>4. ASSUME NEW j \in DOMAIN outcomes' PROVE outcomes'[j] \in Returned \cup {r}
  <2>1. j \in 1 .. Len(outcomes) \/ j = Len(outcomes) + 1
    BY <1>2, <1>3
  <2>. QED BY <1>2, <1>3, <2>1 DEF Returned
<1>5. Returned' \subseteq Returned \cup {r}
  BY <1>4 DEF Returned
<1>6. Settled' = call' /\ Asked' = call'
  BY DEF Settled, Asked
<1>7. Floors' \subseteq Returned \cup {r} \cup {f \in {call' - 1, call'} : gaveUp' = {}}
  BY <1>5, <1>6 DEF Floors
<1>8. BodyFloors' = {}
  BY DEF BodyFloors
<1>. QED BY <1>1, <1>2, <1>6, <1>7, <1>8

\* A call returns "".
LEMMA RepliesReturn ==
  ASSUME Typed, Replies, outcomes' = Append(outcomes, 0), pc' = "idle",
         gaveUp \subseteq gaveUp', gaveUp' \subseteq 1 .. Len(outcomes) + 1,
         UNCHANGED conn, call' \in Nat, call' >= Asked,
         gaveUp' = {} => /\ call' # Settled => Asked \in Floors
                         /\ call' - 1 \in Floors,
         \A k \in Conns : k = conn =>
           /\ Answers(k)' \in Seq(Pieces) /\ Requests(k)' \in Seq(Pieces)
           /\ Part(Answers(k)', Answers(k)) /\ Part(Requests(k)', Requests(k))
           /\ handler'[k] = handler[k]
  PROVE  Replies'
<1>1. outcomes \in Seq(0 .. MaxCalls) /\ 0 \in 0 .. MaxCalls
  BY DEF Typed, ClientTyped
<1>2. /\ Floors' \subseteq Returned \cup {0} \cup {f \in {call' - 1, call'} : gaveUp' = {}}
      /\ BodyFloors' = {} /\ Asked' = call' /\ Len(outcomes') = Len(outcomes) + 1
      /\ Len(outcomes) \in Nat
  BY <1>1, FloorsAfter
<1>3. ResultIsOwn'
  BY <1>1, OwnAppended DEF Replies
<1>4. ASSUME NEW k \in Conns, k = conn PROVE OnLine(k)'
  <2> DEFINE F == Floors
             F2 == Floors'
             l == Asked
             c == call'
             X == {f \in {c} : gaveUp' = {} /\ c # Settled}
             G == BodyFloors
             h == handler[k]
             R2 == Answers(k)'
             Q2 == Requests(k)'
  <2>0. R2 \in Seq(Pieces) /\ Q2 \in Seq(Pieces) /\ Part(R2, Answers(k)) /\ Part(Q2, Requests(k))
    BY <1>4
  <2>. HIDE DEF R2, Q2
  <2>1. /\ R2 \in Seq(Pieces) /\ Q2 \in Seq(Pieces) /\ h \in Nat /\ l \in Int /\ c \in Int /\ l <= c
        /\ F \in SUBSET Int /\ X \in SUBSET Int
    BY <1>4, <2>0, OnLineFacts
  <2>2. Good(R2, h, Q2, l, F, G)
    <3>1. h \in {handler[k], 0}
      OBVIOUS
    <3>. QED BY <1>4, <2>0, <3>1, PartsKeep
  <2>3. X # {} => l \in F
    OBVIOUS
  <2>4. F2 \subseteq F \cup X \cup {0}
    <3>1. gaveUp' = {} => gaveUp = {}
      OBVIOUS
    <3>2. Returned \subseteq F /\ (gaveUp = {} => Settled \in F)
      BY DEF Floors
    <3>3. gaveUp' = {} => c - 1 \in F /\ c \in F \cup X
      BY <3>1, <3>2
    <3>. QED BY <1>2, <3>2, <3>3
  <2>. HIDE DEF F, F2, l, c, X, G, h
  <2>5. Good(R2, h, Q2, l, F \cup X \cup {0}, G)
    BY <2>1, <2>2, <2>3, GoodFails
  <2> DEFINE FX == F \cup X \cup {0}
             E == {}
  <2>6. F2 \in SUBSET FX /\ E \in SUBSET G /\ Good(R2, h, Q2, l, FX, G)
    BY <2>4, <2>5
  <2>. HIDE DEF FX, E
  <2>7. Good(R2, h, Q2, c, F2, E)
    BY <2>1, <2>6, GoodLess
  <2>. QED BY <1>2, <1>4, <2>7 DEF OnLine, F2, c, h, E, R2, Q2
<1>5. gaveUp' \subseteq 1 .. Len(outcomes')
  BY <1>2
<1>. QED BY <1>3, <1>4, <1>5 DEF Replies

LEMMA RepliesCall == ASSUME Typed, Replies, CallMethod PROVE Replies'
<1>0. ClientTyped /\ WireTyped /\ ServerTyped
  BY DEF Typed
<1>1. /\ pc = "idle" /\ call' = call + 1 /\ call \in Nat /\ conn \in 0 .. MaxConns
      /\ UNCHANGED <<buffer, gaveUp, reads, handler, c2s, s2c>>
  BY <1>0 DEF CallMethod, ClientTyped
<1>2. /\ Asked = call /\ Settled = call /\ readBuf' = readBuf
      /\ gaveUp \subseteq 1 .. Len(outcomes) /\ ResultIsOwn /\ Len(outcomes) \in Nat
  BY <1>0, <1>1 DEF Asked, Settled, reads, Replies, ClientTyped
<1>3. ASSUME NEW k \in Conns
      PROVE  Answers(k)' = Answers(k) /\ Requests(k)' = Requests(k) /\ handler'[k] = handler[k]
  BY <1>1, <1>2 DEF Answers, Requests
<1>4. ASSUME pc' = "send", outcomes' = outcomes
      PROVE  /\ Asked' = Asked /\ Floors' \subseteq Floors /\ BodyFloors' = {}
             /\ gaveUp' \subseteq 1 .. Len(outcomes') /\ ResultIsOwn'
  <2>1. Asked' = call /\ call' - 1 = call /\ Settled' = call /\ Returned' = Returned
    BY <1>1, <1>4 DEF Asked, Settled, Returned
  <2>2. Floors' \subseteq Floors
    BY <1>1, <1>2, <2>1 DEF Floors
  <2>3. BodyFloors' = {}
    BY <1>4 DEF BodyFloors
  <2>4. ResultIsOwn'
    BY <1>1, <1>2, <1>4 DEF ResultIsOwn
  <2>. QED BY <1>1, <1>2, <1>4, <2>1, <2>2, <2>3, <2>4
<1>5. CASE pc' = "send" /\ UNCHANGED <<conn, outcomes>>
  <2>1. ASSUME NEW k \in Conns, k = conn PROVE OnLine(k)'
    <3> DEFINE R == Answers(k)
               Q == Requests(k)
               h == handler[k]
               l == Asked
               F == Floors
               F2 == Floors'
               G == BodyFloors
               E == {}
    <3>1. /\ R \in Seq(Pieces) /\ Q \in Seq(Pieces) /\ h \in Nat /\ l \in Int /\ l <= l
          /\ F2 \in SUBSET F /\ E \in SUBSET G /\ Good(R, h, Q, l, F, G)
      BY <1>4, <1>5, <2>1, OnLineFacts
    <3>. HIDE DEF R, Q, h, l, F, F2, G, E
    <3>2. Good(R, h, Q, l, F2, E)
      BY <3>1, GoodLess
    <3>. QED BY <1>3, <1>4, <1>5, <3>2 DEF OnLine, R, Q, h, l, F2, E
  <2>. QED BY <1>4, <1>5, <2>1 DEF Replies
<1>6. CASE /\ ~connected /\ conn < MaxConns
           /\ pc' = "send" /\ conn' = conn + 1 /\ UNCHANGED outcomes
  <2>1. ASSUME NEW k \in Conns, k = conn + 1 PROVE OnLine(k)'
    <3>1. k > conn
      BY <1>1, <2>1
    <3>2. s2c[k] = <<>> /\ c2s[k] = <<>> /\ readBuf[k] = <<>> /\ handler[k] = 0
          /\ buffer \in Seq(Pieces)
      BY <1>0, <3>1 DEF WireTyped, ServerTyped, SessionTyped, ClientTyped
    <3>3. Answers(k)' = buffer /\ Requests(k)' = <<>> /\ handler'[k] = 0
      <4>1. buffer \o <<>> = buffer
        BY <3>2
      <4>2. <<>> \o <<>> = <<>>
        OBVIOUS
      <4>. QED BY <1>3, <3>2, <4>1, <4>2 DEF Answers, Requests
    <3>4. CASE conn = 0
      <4>1. buffer = <<>>
        BY <1>0, <3>4 DEF ClientTyped
      <4>2. Asked' \in Int /\ 0 <= Asked'
        BY <1>1, <1>2, <1>4, <1>6
      <4>3. Good(<<>>, 0, <<>>, Asked', Floors', BodyFloors')
        BY <4>2, GoodEmpty
      <4>. QED BY <3>3, <4>1, <4>3 DEF OnLine
    <3>5. CASE conn # 0
      <4> DEFINE R == Answers(conn)
                 Q == Requests(conn)
                 h == handler[conn]
                 l == Asked
                 F == Floors
                 F2 == Floors'
                 G == BodyFloors
                 E == {}
                 b == buffer
      <4>0. conn \in Conns
        BY <1>1, <3>5 DEF Conns
      <4>1. /\ R \in Seq(Pieces) /\ Q \in Seq(Pieces) /\ h \in Nat
            /\ l \in Int /\ 0 <= l /\ l <= l
            /\ b \in Seq(Pieces) /\ s2c[conn] \in Seq(Pieces)
            /\ F \in SUBSET Int /\ F2 \in SUBSET F /\ G \in SUBSET Int /\ E \in SUBSET G
            /\ Good(R, h, Q, l, F, G)
        BY <1>4, <1>6, <4>0, OnLineFacts
      <4>2. Part(b, b \o s2c[conn])
        BY <4>1, JoinedParts
      <4>3. Part(b, R)
        BY <4>2 DEF Answers
      <4>4. Part(<<>>, Q) /\ <<>> \in Seq(Pieces) /\ 0 \in {h, 0} /\ 0 \in Nat
        BY <4>1, Parts
      <4>. HIDE DEF R, Q, h, l, F, F2, G, E, b
      <4>5. Good(b, 0, <<>>, l, F, G)
        BY <4>1, <4>3, <4>4, GoodPart
      <4>6. Good(b, 0, <<>>, l, F2, E)
        BY <4>1, <4>4, <4>5, GoodLess
      <4>. QED BY <1>4, <1>6, <3>3, <4>6 DEF OnLine, l, F2, E, b
    <3>. QED BY <3>4, <3>5
  <2>. QED BY <1>4, <1>6, <2>1 DEF Replies
<1>7. CASE Return(0) /\ UNCHANGED conn
  <2>1. outcomes' = Append(outcomes, 0) /\ pc' = "idle" /\ gaveUp' = gaveUp
    BY <1>1, <1>7 DEF Return
  <2>2. /\ call' \in Nat /\ call' >= Asked /\ gaveUp' \subseteq 1 .. Len(outcomes) + 1
    BY <1>1, <1>2
  <2>3. gaveUp' = {} => call' - 1 \in Floors /\ Asked \in Floors
    BY <1>1, <1>2 DEF Floors
  <2>4. \A k \in Conns : k = conn =>
          /\ Answers(k)' \in Seq(Pieces) /\ Requests(k)' \in Seq(Pieces)
          /\ Part(Answers(k)', Answers(k)) /\ Part(Requests(k)', Requests(k))
          /\ handler'[k] = handler[k]
    BY <1>3, OnLineFacts, Parts
  <2>. QED BY <1>7, <2>1, <2>2, <2>3, <2>4, RepliesReturn
<1>. QED BY <1>5, <1>6, <1>7 DEF CallMethod

\* Every step of the client but CallMethod and the request itself: the server is as it was.
LEMMA RepliesSend ==
  ASSUME Typed, Replies, NEW size \in BodySizes, SendRequest(size)
  PROVE  Replies'
<1>0. ClientTyped /\ WireTyped /\ ServerTyped
  BY DEF Typed
<1>1. /\ pc = "send" /\ pc' = "header"
      /\ c2s' = IF open[conn] = "closed" THEN c2s
                ELSE [c2s EXCEPT ![conn] = c2s[conn] \o Message(call, size, FALSE)]
      /\ UNCHANGED <<call, conn, buffer, outcomes, gaveUp, readBuf, handler, s2c>>
  BY DEF SendRequest, server, reads
<1>2. call \in Calls /\ conn \in Conns /\ Len(outcomes) = call - 1 /\ call \in Nat
  BY <1>0, <1>1, UnderWay
<1>3. Asked = call - 1 /\ Asked' = call /\ Settled = call - 1 /\ Settled' = call - 1
      /\ Returned' = Returned /\ BodyFloors' = {}
  BY <1>1 DEF Asked, Settled, Returned, BodyFloors
<1>4. Floors' = Floors
  BY <1>1, <1>3 DEF Floors
<1>5. \A f \in Floors : f < call
  <2>1. \A j \in DOMAIN outcomes : outcomes[j] \in Nat /\ (outcomes[j] # 0 => outcomes[j] <= j)
        /\ j <= call - 1 /\ j \in Nat
    <3>1. outcomes \in Seq(0 .. MaxCalls)
      BY <1>0 DEF ClientTyped
    <3>2. DOMAIN outcomes = 1 .. call - 1 /\ \A j \in DOMAIN outcomes : outcomes[j] \in 0 .. MaxCalls
      BY <1>2, <3>1
    <3>. QED BY <1>2, <3>2 DEF Replies, ResultIsOwn
  <2>2. 0 < call
    BY <1>2 DEF Calls
  <2>3. \A j \in DOMAIN outcomes : outcomes[j] < call
    BY <1>2, <2>1, <2>2
  <2>. QED BY <1>2, <1>3, <2>3 DEF Floors, Returned
<1>6. OnLine(conn)'
  <2> DEFINE R == Answers(conn)
             Q == Requests(conn)
             h == handler[conn]
             l == Asked
             F == Floors
             G == BodyFloors
             c == call
             E == {}
             error == FALSE
  <2>1. /\ R \in Seq(Pieces) /\ Q \in Seq(Pieces) /\ h \in Nat /\ l \in Int
        /\ c \in Calls /\ c \in Int /\ l = c - 1 /\ l <= c /\ c <= c /\ error \in BOOLEAN
        /\ F \in SUBSET Int /\ F \in SUBSET F /\ G \in SUBSET Int /\ E \in SUBSET G
        /\ Good(R, h, Q, l, F, G)
    BY <1>2, <1>3, OnLineFacts
  <2>2. \A f \in F : f < c
    BY <1>5
  <2>3. Answers(conn)' = R /\ handler'[conn'] = h
    BY <1>1 DEF Answers
  <2>4. CASE open[conn] = "closed"
    <3>1. Requests(conn)' = Q
      BY <1>1, <2>4 DEF Requests
    <3>. HIDE DEF R, Q, h, l, F, G, E, c
    <3>2. /\ R \in Seq(Pieces) /\ Q \in Seq(Pieces) /\ h \in Nat /\ l \in Int /\ c \in Int
          /\ l <= c /\ F \in SUBSET F /\ E \in SUBSET G /\ Good(R, h, Q, l, F, G)
      BY <2>1
    <3>3. Good(R, h, Q, c, F, E)
      BY <3>2, GoodLess
    <3>. QED BY <1>1, <1>3, <1>4, <2>3, <3>1, <3>3 DEF OnLine, F, E, c
  <2>5. CASE open[conn] # "closed"
    <3> DEFINE m == Message(c, size, error)
               QM == Q \o m
    <3>1. c2s'[conn] = c2s[conn] \o m /\ readBuf' = readBuf
      BY <1>0, <1>1, <1>2, <2>5 DEF WireTyped
    <3>2. m \in Seq(Pieces) /\ readBuf[conn] \in Seq(Pieces) /\ c2s[conn] \in Seq(Pieces)
      <4>1. m \in Seq(Pieces)
        <5>. HIDE DEF c, error
        <5>. QED BY <2>1, MessageType
      <4>. QED BY <1>2, <4>1, OnLineFacts
    <3>3. Requests(conn)' = QM
      <4> DEFINE a == readBuf[conn]
                 b == c2s[conn]
      <4>1. a \in Seq(Pieces) /\ b \in Seq(Pieces) /\ m \in Seq(Pieces)
        BY <3>2
      <4>. HIDE DEF a, b, m
      <4>2. a \o (b \o m) = (a \o b) \o m
        BY <4>1, BehindBoth
      <4>. QED BY <1>1, <3>1, <4>2 DEF Requests, a, b
    <3>4. QM \in Seq(Pieces)
      <4>. HIDE DEF Q, c, error
      <4>. QED BY <2>1, Written
    <3>5. Good(R, h, QM, c, F, G)
      <4>. HIDE DEF R, Q, h, F, G, c, error, l
      <4>1. Good(R, h, Q, c - 1, F, G)
        BY <2>1
      <4>. QED BY <2>1, <2>2, <4>1, GoodSend
    <3>. HIDE DEF R, Q, h, F, G, E, c, QM
    <3>6. Good(R, h, QM, c, F, E)
      BY <2>1, <3>4, <3>5, GoodLess
    <3>. QED BY <1>1, <1>3, <1>4, <2>3, <3>3, <3>6 DEF OnLine, F, E, c
  <2>. QED BY <2>4, <2>5
<1>7. gaveUp' \subseteq 1 .. Len(outcomes') /\ ResultIsOwn'
  BY <1>1 DEF Replies, ResultIsOwn
<1>. QED BY <1>1, <1>6, <1>7 DEF Replies

\* The steps of a call that end it with "".
LEMMA RepliesFails == ASSUME Typed, Replies, SendFails \/ ReadFails PROVE Replies'
<1>0. ClientTyped /\ WireTyped /\ ServerTyped
  BY DEF Typed
<1>1. /\ pc # "idle" /\ Return(0)
      /\ UNCHANGED <<call, conn, readBuf, handler, c2s, s2c>>
  BY DEF SendFails, ReadFails, server, reads
<1>2. /\ call \in Nat /\ conn \in Conns /\ Len(outcomes) = call - 1
      /\ outcomes' = Append(outcomes, 0) /\ pc' = "idle"
      /\ gaveUp \subseteq 1 .. Len(outcomes) /\ call \in 1 .. Len(outcomes) + 1
      /\ Len(outcomes) \in Nat
  BY <1>0, <1>1, UnderWay DEF Return, Replies, Calls
<1>3. \A k \in Conns : Requests(k)' = Requests(k) /\ handler'[k] = handler[k]
  BY <1>1 DEF Requests
<1>4. call' \in Nat /\ call' >= Asked
  BY <1>1, <1>2 DEF Asked
<1>5. ASSUME UNCHANGED buffer, NEW k \in Conns, k = conn
      PROVE  /\ Answers(k)' \in Seq(Pieces) /\ Requests(k)' \in Seq(Pieces)
             /\ Part(Answers(k)', Answers(k)) /\ Part(Requests(k)', Requests(k))
             /\ handler'[k] = handler[k]
  <2>1. Answers(k)' = Answers(k)
    BY <1>1, <1>5 DEF Answers
  <2>2. Answers(k) \in Seq(Pieces) /\ Requests(k) \in Seq(Pieces)
    BY <1>5, OnLineFacts
  <2>3. Part(Answers(k), Answers(k)) /\ Part(Requests(k), Requests(k))
    BY <2>2, Parts
  <2>. QED BY <1>3, <2>1, <2>2, <2>3
<1>6. CASE SendFails
  <2>1. pc = "send" /\ UNCHANGED <<gaveUp, buffer>>
    BY <1>6 DEF SendFails
  <2>2. Asked = call - 1 /\ (gaveUp = {} => call - 1 \in Floors)
    BY <2>1 DEF Asked, Floors
  <2>3. gaveUp \subseteq gaveUp' /\ gaveUp' \subseteq 1 .. Len(outcomes) + 1
    BY <1>2, <2>1
  <2>4. gaveUp' = {} => (call' # Settled => Asked \in Floors) /\ call' - 1 \in Floors
    BY <1>1, <2>1, <2>2
  <2>. QED BY <1>1, <1>2, <1>4, <1>5, <2>1, <2>3, <2>4, RepliesReturn
<1>7. CASE ReadFails /\ pc = "header"
  <2>1. gaveUp' = gaveUp \cup {call} /\ UNCHANGED buffer
    BY <1>7 DEF ReadFails
  <2>2. gaveUp \subseteq gaveUp' /\ gaveUp' \subseteq 1 .. Len(outcomes) + 1 /\ gaveUp' # {}
    BY <1>2, <2>1
  <2>. QED BY <1>1, <1>2, <1>4, <1>5, <2>1, <2>2, RepliesReturn
<1>8. CASE ReadFails /\ pc = "body"
  <2>1. gaveUp' = gaveUp /\ buffer' = <<>>
    BY <1>8 DEF ReadFails
  <2>2. gaveUp \subseteq gaveUp' /\ gaveUp' \subseteq 1 .. Len(outcomes) + 1
    BY <1>2, <2>1
  <2>3. Settled = call /\ (gaveUp = {} => call - 1 \in Floors)
    BY <1>8 DEF Settled, Floors
  <2>4. gaveUp' = {} => (call' # Settled => Asked \in Floors) /\ call' - 1 \in Floors
    BY <1>1, <2>1, <2>3
  <2>5. ASSUME NEW k \in Conns, k = conn
        PROVE  /\ Answers(k)' \in Seq(Pieces) /\ Requests(k)' \in Seq(Pieces)
               /\ Part(Answers(k)', Answers(k)) /\ Part(Requests(k)', Requests(k))
               /\ handler'[k] = handler[k]
    <3>1. /\ Requests(k) \in Seq(Pieces) /\ buffer \in Seq(Pieces) /\ s2c[k] \in Seq(Pieces)
      BY <2>5, OnLineFacts
    <3>2. <<>> \o s2c[k] = s2c[k]
      BY <3>1
    <3>3. Answers(k)' = s2c[k]
      BY <1>1, <2>1, <3>2 DEF Answers
    <3>4. Part(s2c[k], Answers(k)) /\ Part(Requests(k), Requests(k))
      <4> DEFINE a == buffer
                 b == s2c[k]
      <4>1. a \in Seq(Pieces) /\ b \in Seq(Pieces)
        BY <3>1
      <4>. HIDE DEF a, b
      <4>2. Part(b, a \o b)
        BY <4>1, JoinedParts
      <4>. QED BY <3>1, <4>2, Parts DEF Answers, a, b
    <3>. QED BY <1>3, <3>1, <3>3, <3>4
  <2>. QED BY <1>1, <1>2, <1>4, <2>2, <2>4, <2>5, RepliesReturn
<1>. QED BY <1>6, <1>7, <1>8 DEF ReadFails

LEMMA RepliesHeader == ASSUME Typed, Replies, ReadHeader PROVE Replies'
<1> DEFINE e == HeaderEnd(buffer)
           k == conn
<1>0. ClientTyped /\ WireTyped /\ ServerTyped
  BY DEF Typed
<1>1. /\ pc = "header" /\ e # 0 /\ pc' = "body" /\ buffer' = Rest(buffer, e)
      /\ UNCHANGED <<call, conn, outcomes, gaveUp, readBuf, handler, c2s, s2c>>
  BY DEF ReadHeader, Incomplete, server, reads
<1>2. k \in Conns /\ call \in Nat
  BY <1>0, <1>1, UnderWay
<1>3. Asked = call /\ Asked' = call /\ Settled' = call /\ Returned' = Returned
  BY <1>1 DEF Asked, Settled, Returned
<1>4. /\ Floors' \subseteq Floors \cup {f \in {call} : gaveUp = {}}
      /\ BodyFloors' \subseteq Floors
  BY <1>1, <1>3 DEF Floors, BodyFloors
<1>5. gaveUp = {} => call - 1 \in Floors
  BY DEF Floors
<1> DEFINE R == Answers(k)
           Q == Requests(k)
           h == handler[k]
           F == Floors
           G == BodyFloors
           l == Asked
           a == buffer
           b == s2c[k]
           E == {}
<1>6. /\ R \in Seq(Pieces) /\ Q \in Seq(Pieces) /\ h \in Nat /\ l \in Int /\ l \in Nat /\ l <= l
      /\ F \in SUBSET Int /\ F \in SUBSET F /\ G \in SUBSET Int /\ E \in SUBSET G
      /\ a \in Seq(Pieces) /\ b \in Seq(Pieces) /\ Good(R, h, Q, l, F, G)
  BY <1>2, <1>3, OnLineFacts
<1>7. e \in 1 .. Len(a) /\ e \in 0 .. Len(a) /\ a[e].at = 0 /\ R = a \o b
  <2>1. R = a \o b
    BY DEF Answers
  <2>. QED BY <1>1, <1>6, <2>1, HeaderSize
<1>8. Answers(k)' = Rest(a, e) \o b /\ Requests(k)' = Q /\ handler'[k] = h
  BY <1>1 DEF Answers, Requests
<1>. HIDE DEF e, R, Q, h, F, G, l, a, b, E, k
<1>9. e \in 1 .. Len(R) /\ R[e] = a[e]
  <2>1. Len(R) = Len(a) + Len(b) /\ Len(a) \in Nat /\ Len(b) \in Nat
    BY <1>6, <1>7
  <2>2. R[e] = a[e]
    BY <1>6, <1>7
  <2>. QED BY <1>7, <2>1, <2>2
<1>10. Rest(a, e) \o b = Rest(R, e)
  BY <1>6, <1>7, RestOfBoth
<1>11. Good(R, h, Q, l, F, E)
  BY <1>6, GoodLess
<1>12. /\ R[e].call \in Nat /\ R[e].call <= l /\ \A f \in F : f < R[e].call
       /\ Good(Rest(R, e), h, Q, l, F \cup {R[e].call}, F)
  <2>1. R[e].at = 0 /\ Good(R, h, Q, l, F, {})
    BY <1>7, <1>9, <1>11 DEF E
  <2>. QED BY <1>6, <1>9, <2>1, GoodHeader
<1> DEFINE r == Rest(R, e)
           FC == F \cup {R[e].call}
           F2 == Floors'
           G2 == BodyFloors'
<1>13. gaveUp = {} => R[e].call = call
  <2>1. ASSUME gaveUp = {} PROVE call - 1 < R[e].call
    BY <1>5, <1>12, <2>1 DEF F
  <2>2. R[e].call <= call
    BY <1>3, <1>12 DEF l
  <2>. QED BY <1>2, <1>12, <2>1, <2>2
<1>14. F2 \in SUBSET FC /\ G2 \in SUBSET F
  BY <1>4, <1>13 DEF F
<1>15. r \in Seq(Pieces)
  BY <1>6, <1>9, Split
<1>16. Good(r, h, Q, l, FC, F)
  BY <1>12
<1>. HIDE DEF r, FC, F2, G2
<1>17. Good(r, h, Q, l, F2, G2)
  BY <1>6, <1>14, <1>15, <1>16, GoodLess
<1>18. OnLine(k)'
  <2>1. /\ Answers(k)' = r /\ Requests(k)' = Q /\ handler'[k] = h /\ Asked' = l
        /\ F2 = Floors' /\ G2 = BodyFloors'
    BY <1>3, <1>8, <1>10 DEF r, l, F2, G2
  <2>2. handler'[k'] = h
    BY <1>1, <2>1 DEF k
  <2>. QED BY <1>17, <2>1, <2>2 DEF OnLine, k
<1>19. gaveUp' \subseteq 1 .. Len(outcomes') /\ ResultIsOwn'
  BY <1>1 DEF Replies, ResultIsOwn
<1>. QED BY <1>1, <1>18, <1>19 DEF Replies, k

LEMMA RepliesBody == ASSUME Typed, Replies, ReadBody PROVE Replies'
<1> DEFINE n == need
           k == conn
           body == SubSeq(buffer, 1, n)
           result == IF WholeBody(body) /\ ~body[1].error THEN body[1].call ELSE 0
<1>0. ClientTyped /\ WireTyped /\ ServerTyped
  BY DEF Typed
<1>1. /\ pc = "body" /\ ~Incomplete /\ buffer' = Rest(buffer, n) /\ Return(result)
      /\ UNCHANGED <<call, conn, gaveUp, readBuf, handler, c2s, s2c>>
  BY DEF ReadBody, server, reads
<1>2. /\ k \in Conns /\ call \in Nat /\ Len(outcomes) = call - 1 /\ pc' = "idle"
      /\ outcomes' = Append(outcomes, result) /\ outcomes \in Seq(0 .. MaxCalls)
      /\ n \in 1 .. Len(buffer) /\ n \in 0 .. Len(buffer) /\ Len(outcomes) \in Nat
      /\ gaveUp \subseteq 1 .. Len(outcomes) /\ ResultIsOwn
  BY <1>0, <1>1, UnderWay, BodyIsThere DEF Return, ClientTyped, Replies
<1>3. Asked = call /\ Settled = call /\ (gaveUp = {} => call \in Floors /\ call - 1 \in Floors)
  BY <1>1 DEF Asked, Settled, Floors
<1>4. /\ Returned \subseteq Floors /\ Returned \subseteq BodyFloors
      /\ gaveUp = {} => call - 1 \in BodyFloors
  BY <1>1 DEF Floors, BodyFloors
<1> DEFINE R == Answers(k)
           Q == Requests(k)
           h == handler[k]
           F == Floors
           G == BodyFloors
           l == Asked
           a == buffer
           b == s2c[k]
<1>5. /\ R \in Seq(Pieces) /\ Q \in Seq(Pieces) /\ h \in Nat /\ l \in Int /\ l \in Nat /\ l <= l
      /\ F \in SUBSET Int /\ F \in SUBSET F /\ G \in SUBSET Int
      /\ a \in Seq(Pieces) /\ b \in Seq(Pieces) /\ Good(R, h, Q, l, F, G)
  <2>1. conn \in Conns /\ l \in Nat
    BY <1>2, <1>3
  <2>. QED BY <2>1, OnLineFacts
<1>6. /\ R = a \o b /\ Answers(k)' = Rest(a, n) \o b /\ Requests(k)' = Q /\ handler'[k] = h
      /\ n \in 1 .. Len(a) /\ n \in 0 .. Len(a)
  BY <1>1, <1>2 DEF Answers, Requests
<1>7. Rest(a, n) \o b = Rest(R, n) /\ n \in 0 .. Len(R)
  <2>. HIDE DEF a, b, R, n
  <2>. QED BY <1>5, <1>6, RestOfBoth
<1>8. Rest(R, n) \in Seq(Pieces) /\ Part(Rest(R, n), R)
  <2>. HIDE DEF R, n
  <2>. QED BY <1>5, <1>7, Split, Parts
<1>9. CASE result = 0
  <2>1. outcomes' = Append(outcomes, 0) /\ call' \in Nat /\ call' >= Asked
        /\ gaveUp \subseteq gaveUp' /\ gaveUp' \subseteq 1 .. Len(outcomes) + 1
    <3>. HIDE DEF result
    <3>. QED BY <1>1, <1>2, <1>3, <1>9
  <2>2. gaveUp' = {} => (call' # Settled => Asked \in Floors) /\ call' - 1 \in Floors
    BY <1>1, <1>3
  <2>3. /\ Answers(k)' \in Seq(Pieces) /\ Requests(k)' \in Seq(Pieces)
        /\ Part(Answers(k)', Answers(k)) /\ Part(Requests(k)', Requests(k))
        /\ handler'[k] = handler[k]
    <3>1. Part(Q, Q)
      BY <1>5, Parts
    <3>. HIDE DEF a, b, n
    <3>. QED BY <1>5, <1>6, <1>7, <1>8, <3>1
  <2>. QED BY <1>1, <1>2, <2>1, <2>2, <2>3, RepliesReturn
<1>10. CASE result # 0
  <2>1. WholeBody(body) /\ result = body[1].call
    BY <1>10
  <2>2. Body(a, n) /\ body[1] = a[1]
    <3>1. a \in Seq(Pieces) /\ n \in 1 .. Len(a) /\ WholeBody(SubSeq(a, 1, n))
      BY <1>5, <1>6, <2>1
    <3>. HIDE DEF a, n
    <3>2. Body(a, n) /\ SubSeq(a, 1, n)[1] = a[1]
      BY <3>1, BodyInFront
    <3>. QED BY <3>2 DEF a
  <2>3. Body(R, n) /\ R[1] = a[1]
    <3>. HIDE DEF a, b, n, R
    <3>1. Body(a \o b, n) /\ (a \o b)[1] = a[1]
      BY <1>5, <1>6, <2>2, BodyJoined
    <3>. QED BY <1>6, <3>1
  <2> DEFINE c == R[1].call
  <2>4. result = c
    <3>. HIDE DEF result, body, R
    <3>. QED BY <2>1, <2>2, <2>3
  <2>. HIDE DEF R, Q, h, F, G, l, a, b, n, k, body, result
  <2>5. n \in 1 .. Len(R)
    BY <2>3 DEF Body
  <2>6. /\ R[1].call \in Nat /\ R[1].call <= l /\ \A f \in G : f < R[1].call
        /\ Good(Rest(R, n), h, Q, l, F \cup {R[1].call}, {})
    BY <1>5, <2>3, <2>5, GoodBody
  <2>7. gaveUp = {} => c = call
    <3>1. ASSUME gaveUp = {} PROVE call - 1 < c
      BY <1>4, <2>6, <3>1 DEF G
    <3>2. c <= call /\ c \in Nat
      BY <1>3, <2>6 DEF l
    <3>. QED BY <1>2, <3>1, <3>2
  <2>8. c <= Len(outcomes) + 1 /\ (gaveUp = {} => c = Len(outcomes) + 1)
    BY <1>2, <1>3, <2>6, <2>7 DEF l
  <2>9. \A f \in Returned : f < c
    BY <1>4, <2>6 DEF G
  <2>10. c \in 0 .. MaxCalls
    <3>1. call \in 0 .. MaxCalls
      BY <1>0 DEF ClientTyped
    <3>. QED BY <1>3, <2>6, <3>1 DEF l
  <2>11. outcomes' = Append(outcomes, c) /\ gaveUp' = gaveUp /\ gaveUp \subseteq gaveUp'
    BY <1>1, <1>2, <2>4
  <2>. HIDE DEF c
  <2>12. ResultIsOwn'
    BY <1>2, <2>8, <2>9, <2>10, <2>11, OwnAppended
  <2>13. /\ Floors' \subseteq Returned \cup {c} \cup {f \in {call' - 1, call'} : gaveUp' = {}}
         /\ BodyFloors' = {} /\ Asked' = call' /\ Len(outcomes') = Len(outcomes) + 1
    BY <1>2, <2>10, <2>11, FloorsAfter
  <2> DEFINE r == Rest(R, n)
             FC == F \cup {c}
             F2 == Floors'
             E == {}
  <2>14. F2 \in SUBSET FC /\ E \in SUBSET {}
    BY <1>1, <1>3, <1>4, <2>13 DEF F
  <2>15. Good(r, h, Q, l, FC, {}) /\ r \in Seq(Pieces)
    BY <1>8, <2>6 DEF c
  <2>16. Asked' = l /\ F2 = Floors' /\ E = BodyFloors' /\ Answers(k)' = r /\ Requests(k)' = Q
         /\ handler'[k] = h
    BY <1>1, <1>3, <1>6, <1>7, <2>13 DEF l
  <2>. HIDE DEF r, FC, F2, E
  <2>17. Good(r, h, Q, l, F2, E)
    BY <1>5, <2>14, <2>15, GoodLess
  <2>18. OnLine(k)'
    BY <1>1, <2>16, <2>17 DEF OnLine, k
  <2>19. gaveUp' \subseteq 1 .. Len(outcomes')
    BY <1>2, <2>11, <2>13
  <2>. QED BY <1>1, <2>12, <2>18, <2>19 DEF Replies, k
<1>. QED BY <1>9, <1>10

\* The steps that move pieces to the client, or lose those on their way.
LEMMA RepliesWire == ASSUME Typed, Replies, Transfer \/ ChannelClose PROVE Replies'
<1>0. ClientTyped /\ WireTyped /\ ServerTyped
  BY DEF Typed
<1>1. /\ conn \in Conns
      /\ UNCHANGED <<pc, call, conn, outcomes, gaveUp, readBuf, handler, c2s>>
  <2>1. CASE Transfer
    BY <1>0, <2>1, UnderWay DEF Transfer, server, reads
  <2>2. CASE ChannelClose
    <3>1. conn # 0 /\ conn \in 0 .. MaxConns
      BY <1>0, <2>2 DEF ChannelClose, ClientTyped
    <3>2. conn \in Conns
      BY <3>1 DEF Conns
    <3>. QED BY <2>2, <3>2 DEF ChannelClose, server, reads
  <2>. QED BY <2>1, <2>2
<1>2. /\ Asked' = Asked /\ Floors' = Floors /\ BodyFloors' = BodyFloors
      /\ Requests(conn)' = Requests(conn) /\ handler'[conn] = handler[conn]
      /\ gaveUp' \subseteq 1 .. Len(outcomes') /\ ResultIsOwn'
  BY <1>1 DEF Asked, Floors, BodyFloors, Returned, Settled, Requests, Replies, ResultIsOwn
<1>3. /\ Answers(conn) \in Seq(Pieces) /\ Requests(conn) \in Seq(Pieces)
      /\ buffer \in Seq(Pieces) /\ s2c[conn] \in Seq(Pieces)
      /\ Good(Answers(conn), handler[conn], Requests(conn), Asked, Floors, BodyFloors)
  BY <1>1, OnLineFacts
<1>4. Good(Answers(conn)', handler[conn], Requests(conn), Asked, Floors, BodyFloors)
  <2>1. CASE Transfer
    <3>1. PICK n \in Fits(buffer, s2c[conn]) :
            /\ buffer' = buffer \o SubSeq(s2c[conn], 1, n)
            /\ s2c' = [s2c EXCEPT ![conn] = Rest(s2c[conn], n)]
      BY <2>1 DEF Transfer
    <3>2. (buffer \o SubSeq(s2c[conn], 1, n)) \o Rest(s2c[conn], n) = buffer \o s2c[conn]
      BY <1>3, TransferType
    <3>3. s2c'[conn] = Rest(s2c[conn], n)
      BY <1>0, <1>1, <3>1 DEF WireTyped
    <3>4. Answers(conn)' = Answers(conn)
      BY <1>1, <3>1, <3>2, <3>3 DEF Answers
    <3>. QED BY <1>3, <3>4
  <2>2. CASE ChannelClose
    <3>1. s2c'[conn] = <<>> /\ buffer' = buffer
      BY <1>0, <1>1, <2>2 DEF ChannelClose, WireTyped
    <3> DEFINE a == buffer
               b == s2c[conn]
    <3>2. a \in Seq(Pieces) /\ b \in Seq(Pieces) /\ Answers(conn) = a \o b
          /\ Answers(conn)' = a \o <<>>
      BY <1>1, <1>3, <3>1 DEF Answers
    <3>. HIDE DEF a, b
    <3>3. a \o <<>> = a
      BY <3>2
    <3>4. Part(a, a \o b)
      BY <3>2, JoinedParts
    <3>5. Part(a, Answers(conn)) /\ Part(Requests(conn), Requests(conn))
          /\ handler[conn] \in {handler[conn], 0}
      BY <1>3, <3>2, <3>4, Parts
    <3>6. Good(a, handler[conn], Requests(conn), Asked, Floors, BodyFloors)
      BY <1>1, <1>3, <3>2, <3>5, PartsKeep
    <3>. QED BY <3>2, <3>3, <3>6
  <2>. QED BY <2>1, <2>2
<1>5. OnLine(conn)'
  BY <1>1, <1>2, <1>4 DEF OnLine
<1>. QED BY <1>1, <1>2, <1>5 DEF Replies

LEMMA RepliesNext == ASSUME Typed, Replies, [Next]_vars PROVE Replies'
<1>1. CASE CallMethod
  BY <1>1, RepliesCall
<1>2. ASSUME NEW size \in BodySizes, SendRequest(size) PROVE Replies'
  BY <1>2, RepliesSend
<1>3. CASE SendFails \/ ReadFails
  BY <1>3, RepliesFails
<1>4. CASE ReadHeader
  BY <1>4, RepliesHeader
<1>5. CASE ReadBody
  BY <1>5, RepliesBody
<1>6. CASE Transfer \/ ChannelClose
  BY <1>6, RepliesWire
<1>7. ASSUME NEW k \in Conns, Accept(k) \/ TimerExpires(k) \/ SessionStep(k) PROVE Replies'
  BY <1>7, RepliesServer
<1>8. CASE Emplace
  <2>1. main # 0 /\ main \in 0 .. MaxConns
    BY <1>8 DEF Emplace, Typed, ServerTyped
  <2>2. main \in Conns
    BY <2>1 DEF Conns
  <2>. QED BY <1>8, <2>2, RepliesServer
<1>9. CASE UNCHANGED vars
  BY <1>9 DEF vars, client, server, reads, Replies, ResultIsOwn, OnLine, Answers, Requests, Asked,
              Floors, BodyFloors, Returned, Settled
<1>. QED BY <1>1, <1>2, <1>3, <1>4, <1>5, <1>6, <1>7, <1>8, <1>9 DEF Next, ClientStep

LEMMA NextIInv == IInv /\ [Next]_vars => IInv'
BY TypedNext, SessionsNext, RepliesNext DEF IInv

-----------------------------------------------------------------------------
\* The types, and what belongs together: no more than a buffer is read ahead, a session
\* reads or runs a handler as long as its connection is open, never both, and every call
\* but the one under way has returned once.
THEOREM TypeCorrect == Spec => []TypeOK
<1>1. IInv => TypeOK
  BY DEF IInv, Typed, ClientTyped, WireTyped, ServerTyped, SessionTyped, TypeOK
<1>. QED BY <1>1, InitIInv, NextIInv, PTL DEF Spec

\* A closed session leaves session_map_ unless its close overtook its emplace, and an open
\* one stays there unless another session has its id (OnSessionClose, the accept
\* callback's emplace and the timer).
THEOREM MapCorrect == Spec => []MapIsLive
<1>1. IInv => MapIsLive
  BY DEF IInv, Sessions, ClosedLeaves, OpenStays, Unique, MapIsLive
<1>. QED BY <1>1, InitIInv, NextIInv, PTL DEF Spec

\* What CallMethod returns comes in the order of the calls, of no later call, and is the
\* call's own until a call gives up before it has read a header.
THEOREM ResultsInOrder == Spec => []ResultIsOwn
<1>1. IInv => ResultIsOwn
  BY DEF IInv, Replies
<1>. QED BY <1>1, InitIInv, NextIInv, PTL DEF Spec
=============================================================================

---------------------------- MODULE PbCoderProofs ----------------------------
(***************************************************************************)
(* Theorems about PbCoder, for every message and every limit.              *)
(***************************************************************************)
EXTENDS PbCoder, TLAPS

\* Concatenation of three sequences, element by element.
LEMMA Concat3 ==
    ASSUME NEW S, NEW a \in Seq(S), NEW b \in Seq(S), NEW c \in Seq(S)
    PROVE  /\ a \o b \o c \in Seq(S) /\ Len(a \o b \o c) = Len(a) + Len(b) + Len(c)
           /\ \A i \in 1 .. Len(a) : (a \o b \o c)[i] = a[i]
           /\ \A i \in 1 .. Len(b) : (a \o b \o c)[Len(a) + i] = b[i]
           /\ \A i \in 1 .. Len(c) : (a \o b \o c)[Len(a) + Len(b) + i] = c[i]
<1>1. a \o b \in Seq(S) /\ Len(a \o b) = Len(a) + Len(b)
      /\ Len(a) \in Nat /\ Len(b) \in Nat /\ Len(c) \in Nat
  OBVIOUS
<1>2. /\ \A i \in 1 .. Len(a) : (a \o b)[i] = a[i]
      /\ \A i \in 1 .. Len(b) : (a \o b)[Len(a) + i] = b[i]
  OBVIOUS
<1> DEFINE ab == a \o b
<1>3. /\ ab \o c \in Seq(S) /\ Len(ab \o c) = Len(ab) + Len(c)
      /\ \A i \in 1 .. Len(ab) : (ab \o c)[i] = ab[i]
      /\ \A i \in 1 .. Len(c) : (ab \o c)[Len(ab) + i] = c[i]
  <2>1. ab \in Seq(S)
    BY <1>1
  <2> HIDE DEF ab
  <2> QED
    BY <2>1
<1>4. \A i \in 1 .. Len(a) : i \in 1 .. Len(ab)
  BY <1>1
<1>5. \A i \in 1 .. Len(b) : Len(a) + i \in 1 .. Len(ab)
  BY <1>1
<1> QED
  BY <1>1, <1>2, <1>3, <1>4, <1>5

\* A field is found again at its place.
LEMMA SubstrOf ==
    ASSUME NEW S, NEW s \in Seq(S), NEW t \in Seq(S), NEW idx \in Nat,
           idx + Len(t) <= Len(s), \A i \in 1 .. Len(t) : s[idx + i] = t[i]
    PROVE  Substr(s, idx, Len(t)) = t
<1> DEFINE u == SubSeq(s, idx + 1, idx + Len(t))
<1>1. u \in Seq(S) /\ Len(u) = Len(t) /\ \A i \in 1 .. Len(t) : u[i] = s[idx + i]
  OBVIOUS
<1>2. u = t
  <2> HIDE DEF u
  <2> QED
    BY <1>1
<1> QED
  BY <1>2 DEF Substr

USE CoderAssumption

\* A request within the limit arrives field by field as it was sent.
THEOREM RequestRoundTrip ==
    ASSUME NEW req \in Request, RequestFits(req)
    PROVE  DecodeRequest(Read(EncodeRequest(req))) = req
<1> DEFINE a == req.msg_id
           b == req.service_full_name
           c == req.param
           chars == a \o b \o c
<1>1. /\ a \in Seq(Char) /\ b \in Seq(Char) /\ c \in Seq(Char)
      /\ Len(a) \in Nat /\ Len(b) \in Nat /\ Len(c) \in Nat
  BY DEF Request
<1>2. /\ chars \in Seq(Char) /\ Len(chars) = Len(a) + Len(b) + Len(c)
      /\ \A i \in 1 .. Len(a) : chars[0 + i] = a[i]
      /\ \A i \in 1 .. Len(b) : chars[Len(a) + i] = b[i]
      /\ \A i \in 1 .. Len(c) : chars[(Len(a) + Len(b)) + i] = c[i]
  <2> HIDE DEF a, b, c
  <2>1. /\ chars \in Seq(Char) /\ Len(chars) = Len(a) + Len(b) + Len(c)
        /\ \A i \in 1 .. Len(a) : chars[i] = a[i]
        /\ \A i \in 1 .. Len(b) : chars[Len(a) + i] = b[i]
        /\ \A i \in 1 .. Len(c) : chars[Len(a) + Len(b) + i] = c[i]
    BY <1>1, Concat3
  <2>2. \A i \in 1 .. Len(a) : 0 + i = i
    OBVIOUS
  <2> HIDE DEF chars
  <2> QED
    BY <2>1, <2>2
<1> DEFINE message == EncodeRequest(req)
<1>3. /\ message.total_len - IntSize <= BufferSize
      /\ message.chars = chars /\ message.lens = <<Len(a), Len(b), Len(c)>>
  <2>1. message.total_len = 4 * IntSize + (Len(a) + Len(b) + Len(c))
    BY DEF EncodeRequest, RequestSize
  <2>2. 3 * IntSize + (Len(a) + Len(b) + Len(c)) <= BufferSize
    BY DEF RequestFits, RequestSize
  <2>3. message.chars = chars /\ message.lens = <<Len(a), Len(b), Len(c)>>
    BY DEF EncodeRequest
  <2> HIDE DEF a, b, c, message
  <2> QED
    BY <1>1, <2>1, <2>2, <2>3
<1>4. Read(message) = message
  BY <1>3 DEF Read
<1>5. 3 * IntSize + Len(chars) <= kMaxRequestSize
  BY <1>1, <1>2 DEF RequestFits, RequestSize
<1> HIDE DEF a, b, c, chars, message
<1>6. /\ Substr(chars, 0, Len(a)) = a
      /\ Substr(chars, Len(a), Len(b)) = b
      /\ Substr(chars, Len(a) + Len(b), Len(c)) = c
  <2>1. /\ 0 \in Nat /\ 0 + Len(a) <= Len(chars)
        /\ Len(a) + Len(b) <= Len(chars)
        /\ Len(a) + Len(b) \in Nat /\ (Len(a) + Len(b)) + Len(c) <= Len(chars)
    BY <1>1, <1>2
  <2>2. Substr(chars, 0, Len(a)) = a
    BY <1>1, <1>2, <2>1, SubstrOf
  <2>3. Substr(chars, Len(a), Len(b)) = b
    BY <1>1, <1>2, <2>1, SubstrOf
  <2>4. Substr(chars, Len(a) + Len(b), Len(c)) = c
    BY <1>1, <1>2, <2>1, SubstrOf
  <2> QED
    BY <2>2, <2>3, <2>4
<1>7. DecodeRequest(message) = [msg_id |-> a, service_full_name |-> b, param |-> c]
  BY <1>1, <1>2, <1>3, <1>5, <1>6 DEF DecodeRequest
<1>8. req = [msg_id |-> a, service_full_name |-> b, param |-> c]
  BY DEF Request, a, b, c
<1> QED
  BY <1>4, <1>7, <1>8 DEF message

\* A response within the limit arrives field by field as it was sent.
THEOREM ResponseRoundTrip ==
    ASSUME NEW resp \in Response, ResponseFits(resp)
    PROVE  DecodeResponse(Read(EncodeResponse(resp))) = resp
<1> DEFINE a == resp.msg_id
           b == resp.result
           c == [k \in 1 .. IntSize |-> resp.error_code]
           chars == a \o b \o c
<1>1. a \in Seq(Char) /\ b \in Seq(Char) /\ c \in Seq(Char)
  BY DEF Response
<1>2. /\ a \in Seq(Char) /\ b \in Seq(Char) /\ c \in Seq(Char) /\ Len(c) = IntSize
      /\ Len(a) \in Nat /\ Len(b) \in Nat /\ c[1] = resp.error_code
  BY DEF Response
<1>3. /\ chars \in Seq(Char) /\ Len(chars) = Len(a) + Len(b) + IntSize
      /\ \A i \in 1 .. Len(a) : chars[0 + i] = a[i]
      /\ \A i \in 1 .. Len(b) : chars[Len(a) + i] = b[i]
      /\ chars[Len(a) + Len(b) + 1] = resp.error_code
  <2> HIDE DEF a, b, c
  <2>1. /\ chars \in Seq(Char) /\ Len(chars) = Len(a) + Len(b) + Len(c)
        /\ \A i \in 1 .. Len(a) : chars[i] = a[i]
        /\ \A i \in 1 .. Len(b) : chars[Len(a) + i] = b[i]
        /\ \A i \in 1 .. Len(c) : chars[Len(a) + Len(b) + i] = c[i]
    BY <1>1, Concat3
  <2>2. 1 \in 1 .. Len(c) /\ \A i \in 1 .. Len(a) : 0 + i = i
    BY <1>2
  <2> HIDE DEF chars
  <2> QED
    BY <1>2, <2>1, <2>2
<1> DEFINE message == EncodeResponse(resp)
<1>4. /\ message.total_len - IntSize <= BufferSize
      /\ message.chars = chars /\ message.lens = <<Len(a), Len(b)>>
  <2>1. message.total_len = 3 * IntSize + (Len(a) + Len(b) + IntSize)
    BY DEF EncodeResponse, ResponseSize
  <2>2. 2 * IntSize + (Len(a) + Len(b) + IntSize) <= BufferSize
    BY DEF ResponseFits, ResponseSize
  <2>3. message.chars = chars /\ message.lens = <<Len(a), Len(b)>>
    BY DEF EncodeResponse
  <2> HIDE DEF a, b, c, message
  <2> QED
    BY <1>2, <2>1, <2>2, <2>3
<1>5. Read(message) = message
  BY <1>4 DEF Read
<1>6. 2 * IntSize + Len(chars) <= kMaxResponseSize
  BY <1>2, <1>3 DEF ResponseFits, ResponseSize
<1> HIDE DEF a, b, c, chars, message
<1>7. Substr(chars, 0, Len(a)) = a /\ Substr(chars, Len(a), Len(b)) = b
  <2>1. 0 \in Nat /\ 0 + Len(a) <= Len(chars) /\ Len(a) + Len(b) <= Len(chars)
    BY <1>2, <1>3
  <2>2. Substr(chars, 0, Len(a)) = a
    BY <1>2, <1>3, <2>1, SubstrOf
  <2>3. Substr(chars, Len(a), Len(b)) = b
    BY <1>2, <1>3, <2>1, SubstrOf
  <2> QED
    BY <2>2, <2>3
<1>8. DecodeResponse(message) = [msg_id |-> a, result |-> b, error_code |-> resp.error_code]
  BY <1>2, <1>3, <1>4, <1>6, <1>7 DEF DecodeResponse
<1>9. resp = [msg_id |-> a, result |-> b, error_code |-> resp.error_code]
  BY DEF Response, a, b
<1> QED
  BY <1>5, <1>8, <1>9 DEF message

\* A request over the limit reaches the server cut, with a size that its decoder
\* accepts; the lengths inside give it away.
THEOREM LongRequestRejected ==
    ASSUME NEW req \in Request, ~RequestFits(req)
    PROVE  DecodeRequest(Read(EncodeRequest(req))) = NoMessage
<1> DEFINE message == EncodeRequest(req)
           n == BufferSize - 3 * IntSize
           cut == SubSeq(message.chars, 1, n)
<1>1. /\ Len(req.msg_id) \in Nat /\ Len(req.service_full_name) \in Nat /\ Len(req.param) \in Nat
      /\ message.chars \in Seq(Char) /\ Len(message.chars) = RequestSize(req)
  BY Concat3 DEF Request, EncodeRequest, RequestSize
<1>2. n \in Nat /\ n < RequestSize(req) /\ ~(message.total_len - IntSize <= BufferSize)
  <2>1. message.total_len = 4 * IntSize + RequestSize(req) /\ RequestSize(req) \in Nat
    <3>1. message.total_len = 4 * IntSize + RequestSize(req)
      BY DEF EncodeRequest
    <3>2. RequestSize(req) \in Nat
      <4>1. /\ Len(req.msg_id) \in Nat /\ Len(req.service_full_name) \in Nat
            /\ Len(req.param) \in Nat
        BY <1>1
      <4>2. \A x, y, z \in Nat : x + y + z \in Nat
        OBVIOUS
      <4> QED
        BY <4>1, <4>2, Zenon DEF RequestSize
    <3> QED
      BY <3>1, <3>2
  <2>2. ~(3 * IntSize + RequestSize(req) <= BufferSize)
    BY DEF RequestFits
  <2> HIDE DEF message
  <2> QED
    BY <2>1, <2>2
<1>3. /\ message.lens = <<Len(req.msg_id), Len(req.service_full_name), Len(req.param)>>
      /\ Len(message.lens) = 3
  BY DEF EncodeRequest
<1>4. Len(cut) = n
  <2> HIDE DEF message
  <2> QED
    BY <1>1, <1>2
<1>5. Read(message).chars = cut /\ Read(message).lens = message.lens
  BY <1>2, <1>3 DEF Read, EncodeRequest
<1>6. message.lens[1] + message.lens[2] + message.lens[3] # Len(cut)
  <2>1. message.lens[1] + message.lens[2] + message.lens[3] = RequestSize(req)
    BY <1>3 DEF RequestSize
  <2> HIDE DEF message, cut
  <2> QED
    BY <1>2, <1>4, <2>1
<1> HIDE DEF message, cut, n
<1> QED
  BY <1>5, <1>6 DEF DecodeRequest, message

\* So is a response over the limit.
THEOREM LongResponseRejected ==
    ASSUME NEW resp \in Response, ~ResponseFits(resp)
    PROVE  DecodeResponse(Read(EncodeResponse(resp))) = NoMessage
<1> DEFINE message == EncodeResponse(resp)
           n == BufferSize - 2 * IntSize
           cut == SubSeq(message.chars, 1, n)
           code == [k \in 1 .. IntSize |-> resp.error_code]
<1>1. /\ Len(resp.msg_id) \in Nat /\ Len(resp.result) \in Nat
      /\ message.chars \in Seq(Char) /\ Len(message.chars) = ResponseSize(resp)
  <2>1. code \in Seq(Char) /\ Len(code) = IntSize
    BY DEF Response
  <2>2. resp.msg_id \in Seq(Char) /\ resp.result \in Seq(Char)
    BY DEF Response
  <2>3. message.chars = resp.msg_id \o resp.result \o code
    BY DEF EncodeResponse
  <2>4. Len(resp.msg_id) \in Nat /\ Len(resp.result) \in Nat
    BY <2>2
  <2> HIDE DEF code, message
  <2>5. /\ message.chars \in Seq(Char)
        /\ Len(message.chars) = Len(resp.msg_id) + Len(resp.result) + Len(code)
    <3>1. code \in Seq(Char)
      BY <2>1
    <3> QED
      BY <2>2, <2>3, <3>1, Concat3
  <2> QED
    BY <2>1, <2>4, <2>5 DEF ResponseSize
<1>2. n \in Nat /\ n < ResponseSize(resp) /\ ~(message.total_len - IntSize <= BufferSize)
  <2>1. message.total_len = 3 * IntSize + ResponseSize(resp) /\ ResponseSize(resp) \in Nat
    <3>1. message.total_len = 3 * IntSize + ResponseSize(resp)
      BY DEF EncodeResponse
    <3>2. ResponseSize(resp) \in Nat
      <4>1. Len(resp.msg_id) \in Nat /\ Len(resp.result) \in Nat /\ IntSize \in Nat
        BY <1>1
      <4>2. \A x, y, z \in Nat : x + y + z \in Nat
        OBVIOUS
      <4> QED
        BY <4>1, <4>2, Zenon DEF ResponseSize
    <3> QED
      BY <3>1, <3>2
  <2>2. ~(2 * IntSize + ResponseSize(resp) <= BufferSize)
    BY DEF ResponseFits
  <2> HIDE DEF message
  <2> QED
    BY <2>1, <2>2
<1>3. message.lens = <<Len(resp.msg_id), Len(resp.result)>> /\ Len(message.lens) = 2
  BY DEF EncodeResponse
<1>4. Len(cut) = n
  <2> HIDE DEF message
  <2> QED
    BY <1>1, <1>2
<1>5. Read(message).chars = cut /\ Read(message).lens = message.lens
  BY <1>2, <1>3 DEF Read, EncodeResponse
<1>6. message.lens[1] + message.lens[2] + IntSize # Len(cut)
  <2>1. message.lens[1] + message.lens[2] + IntSize = ResponseSize(resp)
    BY <1>3 DEF ResponseSize
  <2> HIDE DEF message, cut
  <2> QED
    BY <1>2, <1>4, <2>1
<1> HIDE DEF message, cut, n
<1> QED
  BY <1>5, <1>6 DEF DecodeResponse, message
=============================================================================

------------------------------- MODULE PbCoder -------------------------------
(***************************************************************************)
(* The messages of src/src/net/net_data.{h,cpp} and their encoding in      *)
(* src/src/net/pb/pb_coder.cpp, with the read of an encoded message by the *)
(* other side.                                                             *)
(*                                                                         *)
(* A field is a sequence of characters.  Of an encoded message the int32   *)
(* fields keep their value and count IntSize bytes each; an error code,    *)
(* which follows the characters, is IntSize characters.                    *)
(***************************************************************************)
EXTENDS Integers, Sequences

CONSTANTS
    Char,             \* the characters of a field; error codes are among them
    IntSize,          \* sizeof(int32_t)
    kMaxRequestSize,
    kMaxResponseSize,
    BufferSize,       \* kDefaultBufferSize, the limit of a read buffer
    NoMessage         \* nullptr

Request == [msg_id : Seq(Char), service_full_name : Seq(Char), param : Seq(Char)]
Response == [msg_id : Seq(Char), result : Seq(Char), error_code : Char]

ASSUME CoderAssumption ==
    /\ IntSize \in Nat \ {0} /\ BufferSize \in Nat
    /\ kMaxRequestSize = BufferSize /\ kMaxResponseSize = BufferSize
    /\ 3 * IntSize <= BufferSize
    /\ NoMessage \notin Request /\ NoMessage \notin Response

-----------------------------------------------------------------------------
\* Request::GetSize and Response::GetSize.
RequestSize(req) == Len(req.msg_id) + Len(req.service_full_name) + Len(req.param)
ResponseSize(resp) == Len(resp.msg_id) + Len(resp.result) + IntSize

EncodeRequest(req) ==
    [total_len |-> 4 * IntSize + RequestSize(req),
     lens |-> <<Len(req.msg_id), Len(req.service_full_name), Len(req.param)>>,
     chars |-> req.msg_id \o req.service_full_name \o req.param]

EncodeResponse(resp) ==
    [total_len |-> 3 * IntSize + ResponseSize(resp),
     lens |-> <<Len(resp.msg_id), Len(resp.result)>>,
     chars |-> resp.msg_id \o resp.result \o [k \in 1 .. IntSize |-> resp.error_code]]

\* What the other side's read of total_len - kTotalLenSize bytes delivers: a read
\* that fills the buffer completes with what fits.
Read(message) ==
    LET size == message.total_len - IntSize
        ints == Len(message.lens) * IntSize
    IN  IF size <= BufferSize
        THEN message
        ELSE [message EXCEPT !.chars = SubSeq(@, 1, BufferSize - ints)]

\* req_str.substr(idx, len)
Substr(chars, idx, len) == SubSeq(chars, idx + 1, idx + len)

DecodeRequest(message) ==
    LET chars == message.chars
        lens == message.lens
        size == 3 * IntSize + Len(chars)
    IN  IF size > kMaxRequestSize \/ lens[1] + lens[2] + lens[3] # Len(chars)
        THEN NoMessage
        ELSE [msg_id |-> Substr(chars, 0, lens[1]),
              service_full_name |-> Substr(chars, lens[1], lens[2]),
              param |-> Substr(chars, lens[1] + lens[2], lens[3])]

\* Mutant: the lengths are not compared with the size; substr takes what there is.
DecodeResponseUnchecked(message) ==
    LET chars == message.chars
        lens == message.lens
        end == IF lens[1] + lens[2] <= Len(chars) THEN lens[1] + lens[2] ELSE Len(chars)
    IN  [msg_id |-> Substr(chars, 0, lens[1]),
         result |-> SubSeq(chars, lens[1] + 1, end),
         error_code |-> chars[Len(chars)]]

DecodeResponse(message) ==
    LET chars == message.chars
        lens == message.lens
        size == 2 * IntSize + Len(chars)
    IN  IF size > kMaxResponseSize \/ lens[1] + lens[2] + IntSize # Len(chars)
        THEN NoMessage
        ELSE [msg_id |-> Substr(chars, 0, lens[1]),
              result |-> Substr(chars, lens[1], lens[2]),
              error_code |-> chars[lens[1] + lens[2] + 1]]

\* The size of a message that its encoder writes and the other side's decoder takes.
RequestFits(req) == 3 * IntSize + RequestSize(req) <= kMaxRequestSize
ResponseFits(resp) == 2 * IntSize + ResponseSize(resp) <= kMaxResponseSize
=============================================================================

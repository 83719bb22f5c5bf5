---------------------------- MODULE PbCallProofs ----------------------------
(***************************************************************************)
(* Calls through the coder, the dispatcher and the services, for any       *)
(* calls, names, sizes, services and changes of the service map.           *)
(***************************************************************************)
EXTENDS PbCall, PbCoderProofs

\* What is on its way: encoded messages.
Encoded == [total_len : Nat, lens : Seq(Nat), chars : Seq(Char)]

\* A pool thread in Dispatch, with its reference to a service.
Dispatching == [pc : {"found", "running"}, service : Services, request : Request,
                dangling : BOOLEAN]

\* What the application registered is what the map holds.
MapIsBound == \A n \in Names : bound[n] = Lookup(n)

\* Nothing has happened of a call that was not made.
BeforeSend(c) ==
    pc[c] = "idle" =>
      /\ request[c] = NoMessage /\ reply[c] = NoMessage /\ handler[c] = Idle
      /\ ~failed[c] /\ response[c] = <<>> /\ computed[c] = <<>> /\ found[c] = {}

\* A call that waits is a request, a handler or a reply; what was bound to its name
\* at any moment since it began is recorded.
Waiting(c) ==
    pc[c] = "waiting" =>
      /\ ServiceName(name[c]) \in Names /\ bound[ServiceName(name[c])] \in registered[c]
      /\ ~failed[c] /\ response[c] = <<>>

RequestOnItsWay(c) ==
    request[c] # NoMessage =>
      /\ pc[c] = "waiting" /\ reply[c] = NoMessage /\ handler[c] = Idle /\ computed[c] = <<>>
      /\ \E req \in Request :
            request[c] = EncodeRequest(req) /\ req.service_full_name = name[c]

\* The service that Dispatch refers to was registered since the call began, and its
\* entry is in the map unless the reference dangles.
InDispatch(c) ==
    handler[c] # Idle =>
      /\ ~crashed => pc[c] = "waiting" /\ request[c] = NoMessage /\ reply[c] = NoMessage
      /\ computed[c] = <<>>
      /\ c \notin raced => handler[c].service \in registered[c]
      /\ ~crashed /\ handler[c].pc = "found" /\ ~handler[c].dangling =>
            ServiceName(name[c]) \in DOMAIN service_map

\* A reply holds the whole result that was computed, before it is cut by the read.
ReplyOnItsWay(c) ==
    reply[c] # NoMessage =>
      /\ pc[c] = "waiting" /\ request[c] = NoMessage
      /\ reply[c] # Closed =>
            \E resp \in Response : reply[c] = EncodeResponse(resp) /\ resp.result = computed[c]

Returned(c) == pc[c] = "done" /\ ~failed[c] => response[c] = computed[c]
Current(c) == c \notin raced => found[c] \subseteq registered[c]

Call(c) ==
    /\ BeforeSend(c) /\ Waiting(c) /\ RequestOnItsWay(c) /\ InDispatch(c) /\ ReplyOnItsWay(c)
    /\ Returned(c) /\ Current(c)

\* The variables, with the calls they are functions of.
Typed ==
    /\ DOMAIN service_map \subseteq Names
    /\ \A n \in DOMAIN service_map : service_map[n] \in Services
    /\ changing \in BOOLEAN /\ changes \in 0 .. MaxChanges /\ crashed \in BOOLEAN
    /\ deferred \subseteq Calls /\ raced \subseteq Calls /\ setFailed \subseteq Calls
    /\ bound \in [Names -> Services \cup {None}]
    /\ pc \in [Calls -> {"idle", "waiting", "done"}] /\ failed \in [Calls -> BOOLEAN]
    /\ name \in [Calls -> Seq(Char \cup {None})]
    /\ handler \in [Calls -> {Idle} \cup Dispatching]
    /\ request \in [Calls -> {NoMessage} \cup Encoded]
    /\ reply \in [Calls -> {NoMessage, Closed} \cup Encoded]
    /\ found \in [Calls -> SUBSET (Services \cup {None})]
    /\ registered \in [Calls -> SUBSET (Services \cup {None})]
    /\ response \in [Calls -> Seq(Char)] /\ computed \in [Calls -> Seq(Char)]

IInv == Typed /\ MapIsBound /\ \A c \in Calls : Call(c)

-----------------------------------------------------------------------------
USE CallAssumption DEF CallAssumption

ReplyCodes == {kNoError, kServiceNotFound, kFunctionNotFound, kInvaliadRequest, kUnknown}

LEMMA CodesAreChars == ReplyCodes \subseteq Char
BY DEF ReplyCodes, kNoError, kServiceNotFound, kFunctionNotFound, kInvaliadRequest, kUnknown

\* An encoded message is none of the marks that stand for the absence of one.
LEMMA EncodedIsMessage ==
    ASSUME NEW m \in Encoded
    PROVE  m # NoMessage /\ m # Closed
BY DEF Encoded

LEMMA SizesTyped ==
    ASSUME NEW i \in Nat, NEW a \in Nat, NEW b \in Nat, NEW c \in Nat
    PROVE  4 * i + (a + b + c) \in Nat /\ 3 * i + (a + b + i) \in Nat
OBVIOUS

LEMMA RequestEncoded ==
    ASSUME NEW req \in Request
    PROVE  EncodeRequest(req) \in Encoded
<1>1. /\ req.msg_id \in Seq(Char) /\ req.service_full_name \in Seq(Char) /\ req.param \in Seq(Char)
      /\ IntSize \in Nat
  BY CoderAssumption DEF Request, CoderAssumption
<1>2. /\ Len(req.msg_id) \in Nat /\ Len(req.service_full_name) \in Nat /\ Len(req.param) \in Nat
      /\ req.msg_id \o req.service_full_name \o req.param \in Seq(Char)
  BY <1>1
<1>3. <<Len(req.msg_id), Len(req.service_full_name), Len(req.param)>> \in Seq(Nat)
  BY <1>2
<1>4. 4 * IntSize + RequestSize(req) \in Nat
  BY <1>1, <1>2, SizesTyped DEF RequestSize
<1> QED BY <1>2, <1>3, <1>4 DEF EncodeRequest, Encoded

LEMMA ResponseEncoded ==
    ASSUME NEW resp \in Response
    PROVE  EncodeResponse(resp) \in Encoded
<1> DEFINE code == [k \in 1 .. IntSize |-> resp.error_code]
<1>1. /\ resp.msg_id \in Seq(Char) /\ resp.result \in Seq(Char) /\ resp.error_code \in Char
      /\ IntSize \in Nat
  BY CoderAssumption DEF Response, CoderAssumption
<1>2. code \in Seq(Char)
  BY <1>1
<1>3. /\ Len(resp.msg_id) \in Nat /\ Len(resp.result) \in Nat
      /\ resp.msg_id \o resp.result \o code \in Seq(Char)
  <2> HIDE DEF code
  <2> QED BY <1>1, <1>2
<1>4. <<Len(resp.msg_id), Len(resp.result)>> \in Seq(Nat)
  BY <1>3
<1>5. 3 * IntSize + ResponseSize(resp) \in Nat
  BY <1>1, <1>3, SizesTyped DEF ResponseSize
<1> QED BY <1>3, <1>4, <1>5 DEF EncodeResponse, Encoded

\* The other side has the whole message, or nothing.
LEMMA RequestArrives ==
    ASSUME NEW req \in Request
    PROVE  DecodeRequest(Read(EncodeRequest(req))) \in {req, NoMessage}
BY RequestRoundTrip, LongRequestRejected, Zenon

LEMMA ResponseArrives ==
    ASSUME NEW resp \in Response
    PROVE  DecodeResponse(Read(EncodeResponse(resp))) \in {resp, NoMessage}
BY ResponseRoundTrip, LongResponseRejected, Zenon

LEMMA CopiesTyped ==
    ASSUME NEW n \in Nat, NEW x \in Char
    PROVE  Copies(n, x) \in Seq(Char)
BY DEF Copies

\* A handler is idle, or in Dispatch.
LEMMA HandlerStates ==
    ASSUME NEW h \in {Idle} \cup Dispatching
    PROVE  /\ h = Idle <=> h.pc = "idle"
           /\ h # Idle => h \in Dispatching
BY DEF Idle, Dispatching

-----------------------------------------------------------------------------
\* A step that leaves a call, the map and the process alone keeps what is said of it.
SameFor(c) ==
    /\ pc'[c] = pc[c] /\ name'[c] = name[c] /\ request'[c] = request[c] /\ reply'[c] = reply[c]
    /\ handler'[c] = handler[c] /\ failed'[c] = failed[c] /\ response'[c] = response[c]
    /\ computed'[c] = computed[c] /\ found'[c] = found[c] /\ registered'[c] = registered[c]
    /\ (c \in raced' <=> c \in raced)
SameMap == service_map' = service_map /\ bound' = bound

LEMMA Kept ==
    ASSUME NEW c \in Calls, Call(c), SameFor(c), SameMap, crashed' = crashed
    PROVE  Call(c)'
<1>1. BeforeSend(c)'
  BY DEF Call, BeforeSend, SameFor
<1>2. Waiting(c)'
  BY DEF Call, Waiting, SameFor, SameMap
<1>3. RequestOnItsWay(c)'
  BY DEF Call, RequestOnItsWay, SameFor
<1>4. InDispatch(c)'
  BY DEF Call, InDispatch, SameFor, SameMap
<1>5. ReplyOnItsWay(c)'
  BY DEF Call, ReplyOnItsWay, SameFor
<1>6. Returned(c)' /\ Current(c)'
  BY DEF Call, Returned, Current, SameFor
<1> QED BY <1>1, <1>2, <1>3, <1>4, <1>5, <1>6 DEF Call

LEMMA MapKept ==
    ASSUME MapIsBound, SameMap
    PROVE  MapIsBound'
BY DEF MapIsBound, SameMap, Lookup

\* What is looked up under the name of a call that waits was registered since it began.
LEMMA LookupRegistered ==
    ASSUME MapIsBound, NEW c \in Calls, Waiting(c), pc[c] = "waiting"
    PROVE  Lookup(ServiceName(name[c])) \in registered[c]
BY DEF MapIsBound, Waiting

LEMMA LookupTyped ==
    ASSUME Typed, NEW n
    PROVE  /\ Lookup(n) \in Services \cup {None}
           /\ Lookup(n) # None => n \in DOMAIN service_map
           /\ n \in DOMAIN service_map => Lookup(n) \in Services
BY DEF Typed, Lookup

-----------------------------------------------------------------------------
LEMMA InitIInv == Init => IInv
<1> SUFFICES ASSUME Init PROVE IInv
  OBVIOUS
<1>1. PICK names \in SUBSET Registrable : service_map \in [names -> Services]
  BY DEF Init
<1>2. Registrable \subseteq Names
  BY DEF Registrable, Names
<1>3. DOMAIN service_map \subseteq Names /\ \A n \in DOMAIN service_map : service_map[n] \in Services
  BY <1>1, <1>2
<1>4. \A n \in Names : Lookup(n) \in Services \cup {None}
  BY <1>3 DEF Lookup
<1>5. Typed
  <2>1. /\ changing \in BOOLEAN /\ changes \in 0 .. MaxChanges /\ crashed \in BOOLEAN
        /\ deferred \subseteq Calls /\ raced \subseteq Calls /\ setFailed \subseteq Calls
    <3>1. 0 \in 0 .. MaxChanges
      OBVIOUS
    <3>2. changing = FALSE /\ changes = 0 /\ crashed = FALSE /\ deferred = {} /\ raced = {}
          /\ setFailed = {}
      BY DEF Init
    <3> QED BY <3>1, <3>2
  <2>2. bound \in [Names -> Services \cup {None}]
    BY <1>4 DEF Init
  <2>3. /\ pc \in [Calls -> {"idle", "waiting", "done"}] /\ failed \in [Calls -> BOOLEAN]
        /\ handler \in [Calls -> {Idle} \cup Dispatching]
        /\ request \in [Calls -> {NoMessage} \cup Encoded]
        /\ reply \in [Calls -> {NoMessage, Closed} \cup Encoded]
        /\ found \in [Calls -> SUBSET (Services \cup {None})]
        /\ registered \in [Calls -> SUBSET (Services \cup {None})]
    BY DEF Init
  <2>4. <<None>> \in Seq(Char \cup {None}) /\ <<>> \in Seq(Char)
    OBVIOUS
  <2>5. /\ name \in [Calls -> Seq(Char \cup {None})]
        /\ response \in [Calls -> Seq(Char)] /\ computed \in [Calls -> Seq(Char)]
    BY <2>4 DEF Init
  <2> QED BY <1>3, <2>1, <2>2, <2>3, <2>5 DEF Typed
<1>6. MapIsBound
  BY DEF Init, MapIsBound
<1>7. ASSUME NEW c \in Calls
      PROVE  Call(c)
  <2>1. /\ pc[c] = "idle" /\ request[c] = NoMessage /\ reply[c] = NoMessage /\ handler[c] = Idle
        /\ failed[c] = FALSE /\ response[c] = <<>> /\ computed[c] = <<>> /\ found[c] = {}
    BY DEF Init
  <2> QED BY <2>1 DEF Call, BeforeSend, Waiting, RequestOnItsWay, InDispatch, ReplyOnItsWay,
                      Returned, Current
<1> QED BY <1>5, <1>6, <1>7 DEF IInv

-----------------------------------------------------------------------------
\* The client.
LEMMA SendStep ==
    ASSUME IInv, NEW c \in Calls, NEW req \in Request, Send(c, req),
           ServiceName(req.service_full_name) \in Names
    PROVE  IInv'
<1> DEFINE n == ServiceName(req.service_full_name)
           m == EncodeRequest(req)
<1>1. Typed /\ MapIsBound /\ Call(c)
  BY DEF IInv
<1>2. /\ pc[c] = "idle"
      /\ pc' = [pc EXCEPT ![c] = "waiting"]
      /\ name' = [name EXCEPT ![c] = req.service_full_name]
      /\ request' = [request EXCEPT ![c] = m]
      /\ registered' = [registered EXCEPT ![c] = {bound[n]}]
      /\ UNCHANGED <<service_map, changing, changes, bound, handler, deferred, crashed, reply,
                     failed, response, found, raced, computed, setFailed>>
  BY Zenon DEF Send
<1>3. m \in Encoded /\ m # NoMessage
  BY RequestEncoded, EncodedIsMessage
<1>4. bound[n] \in Services \cup {None}
  BY <1>1 DEF Typed
<1>5. Typed'
  <2>1. req.service_full_name \in Seq(Char \cup {None})
    BY DEF Request
  <2> HIDE DEF m, n
  <2>2. /\ pc' \in [Calls -> {"idle", "waiting", "done"}]
        /\ name' \in [Calls -> Seq(Char \cup {None})]
        /\ request' \in [Calls -> {NoMessage} \cup Encoded]
        /\ registered' \in [Calls -> SUBSET (Services \cup {None})]
    BY <1>1, <1>2, <1>3, <1>4, <2>1 DEF Typed
  <2> QED BY <1>1, <1>2, <2>2 DEF Typed
<1>6. /\ pc'[c] = "waiting" /\ name'[c] = req.service_full_name /\ request'[c] = m
      /\ registered'[c] = {bound[n]}
  BY <1>1, <1>2 DEF Typed
<1>7. Call(c)'
  <2>1. /\ reply'[c] = NoMessage /\ handler'[c] = Idle /\ ~failed'[c]
        /\ response'[c] = <<>> /\ computed'[c] = <<>> /\ found'[c] = {}
    BY <1>1, <1>2 DEF Call, BeforeSend
  <2>2. Waiting(c)'
    BY <1>2, <1>6, <2>1 DEF Waiting
  <2>3. RequestOnItsWay(c)'
    BY <1>6, <2>1 DEF RequestOnItsWay
  <2> QED BY <1>6, <2>1, <2>2, <2>3
      DEF Call, BeforeSend, InDispatch, ReplyOnItsWay, Returned, Current
<1>8. ASSUME NEW o \in Calls, o # c
      PROVE  Call(o)'
  <2>1. SameFor(o) /\ SameMap /\ crashed' = crashed
    BY <1>1, <1>2, <1>8 DEF Typed, SameFor, SameMap
  <2>2. Call(o)
    BY DEF IInv
  <2> QED BY <2>1, <2>2, Kept
<1>9. MapIsBound'
  BY <1>1, <1>2, MapKept DEF SameMap
<1> QED BY <1>5, <1>7, <1>8, <1>9 DEF IInv

LEMMA CallMethodStep ==
    ASSUME IInv, NEW c \in Calls, NEW n \in FullNames, NEW size \in ParamSizes,
           CallMethod(c, n, size)
    PROVE  IInv'
<1> DEFINE req == [msg_id |-> <<"111">>, service_full_name |-> n, param |-> Copies(size, c)]
<1>1. Copies(size, c) \in Seq(Char)
  BY CopiesTyped
<1>2. "111" \in Char /\ n \in Seq(Char)
  OBVIOUS
<1>3. <<"111">> \in Seq(Char)
  BY <1>2
<1>4. req \in Request /\ req.service_full_name = n
  BY <1>1, <1>2, <1>3 DEF Request
<1>5. ServiceName(n) \in Names
  BY DEF Names
<1>6. Send(c, req)
  BY DEF CallMethod
<1> QED
  <2> HIDE DEF req
  <2> QED BY <1>4, <1>5, <1>6, SendStep

LEMMA SendHeartBeatStep ==
    ASSUME IInv, NEW c \in Calls, SendHeartBeat(c)
    PROVE  IInv'
<1> DEFINE req == [msg_id |-> <<"HEARTBEAT">>, service_full_name |-> <<"PING">>, param |-> <<>>]
<1>1. "HEARTBEAT" \in Char /\ "PING" \in Char
  OBVIOUS
<1>2. <<"HEARTBEAT">> \in Seq(Char) /\ <<"PING">> \in Seq(Char) /\ <<>> \in Seq(Char)
  BY <1>1
<1>3. req \in Request /\ req.service_full_name = <<"PING">>
  BY <1>2 DEF Request
<1>4. ServiceName(<<"PING">>) \in Names
  BY DEF Names
<1>5. Send(c, req)
  BY DEF SendHeartBeat
<1> QED
  <2> HIDE DEF req
  <2> QED BY <1>3, <1>4, <1>5, SendStep

\* The client has the whole result or fails; the handler of a server that died may
\* still be there.
LEMMA ReadResponseStep ==
    ASSUME IInv, NEW c \in Calls, ReadResponse(c)
    PROVE  IInv'
<1> DEFINE resp == IF reply[c] = Closed THEN NoMessage ELSE DecodeResponse(Read(reply[c]))
<1>1. Typed /\ MapIsBound /\ Call(c)
  BY DEF IInv
<1>2. /\ pc[c] = "waiting" /\ reply[c] # NoMessage
      /\ pc' = [pc EXCEPT ![c] = "done"]
      /\ reply' = [reply EXCEPT ![c] = NoMessage]
      /\ UNCHANGED <<service_map, changing, changes, bound, registered, handler, deferred, crashed,
                     name, request, found, raced, computed, setFailed>>
  BY Zenon DEF ReadResponse, registry
<1>3. \/ failed' = [failed EXCEPT ![c] = TRUE] /\ response' = response
      \/ response' = [response EXCEPT ![c] = computed[c]] /\ failed' = failed
  <2>1. \/ resp = NoMessage /\ failed' = [failed EXCEPT ![c] = TRUE] /\ response' = response
        \/ resp # NoMessage /\ response' = [response EXCEPT ![c] = resp.result] /\ failed' = failed
    BY Zenon DEF ReadResponse
  <2>2. ASSUME resp # NoMessage
        PROVE  resp.result = computed[c]
    <3>1. reply[c] # Closed
      BY <2>2
    <3>2. PICK r \in Response : reply[c] = EncodeResponse(r) /\ r.result = computed[c]
      BY <1>1, <1>2, <3>1 DEF Call, ReplyOnItsWay
    <3>3. resp \in {r, NoMessage}
      BY <3>1, <3>2, ResponseArrives
    <3> QED BY <2>2, <3>2, <3>3
  <2> HIDE DEF resp
  <2> QED BY <2>1, <2>2
<1> HIDE DEF resp
<1>4. /\ pc'[c] = "done" /\ reply'[c] = NoMessage
      /\ ~failed'[c] => response'[c] = computed[c]
  BY <1>1, <1>2, <1>3 DEF Typed
<1>5. Typed'
  <2>1. computed[c] \in Seq(Char)
    BY <1>1 DEF Typed
  <2>2. failed' \in [Calls -> BOOLEAN] /\ response' \in [Calls -> Seq(Char)]
    BY <1>1, <1>3, <2>1 DEF Typed
  <2>3. /\ pc' \in [Calls -> {"idle", "waiting", "done"}]
        /\ reply' \in [Calls -> {NoMessage, Closed} \cup Encoded]
    BY <1>1, <1>2 DEF Typed
  <2> QED BY <1>1, <1>2, <2>2, <2>3 DEF Typed
<1>6. Call(c)'
  <2>1. request'[c] = NoMessage
    BY <1>1, <1>2 DEF Call, ReplyOnItsWay
  <2>2. InDispatch(c)'
    BY <1>1, <1>2 DEF Call, InDispatch
  <2>3. Returned(c)' /\ Current(c)'
    BY <1>1, <1>2, <1>4 DEF Call, Returned, Current
  <2> QED BY <1>4, <2>1, <2>2, <2>3 DEF Call, BeforeSend, Waiting, RequestOnItsWay, ReplyOnItsWay
<1>7. ASSUME NEW o \in Calls, o # c
      PROVE  Call(o)'
  <2>1. failed'[o] = failed[o] /\ response'[o] = response[o]
    BY <1>1, <1>3, <1>7 DEF Typed
  <2>2. SameFor(o) /\ SameMap /\ crashed' = crashed
    BY <1>1, <1>2, <1>7, <2>1 DEF Typed, SameFor, SameMap
  <2>3. Call(o)
    BY DEF IInv
  <2> QED BY <2>2, <2>3, Kept
<1>8. MapIsBound'
  BY <1>1, <1>2, MapKept DEF SameMap
<1> QED BY <1>5, <1>6, <1>7, <1>8 DEF IInv

-----------------------------------------------------------------------------
\* The steps of a pool thread with a call: what it does to the others and to the map.
PoolStep(c) ==
    /\ \A o \in Calls : o # c => request'[o] = request[o] /\ reply'[o] = reply[o]
    /\ \A o \in Calls : o # c =>
          /\ handler'[o] = handler[o] /\ found'[o] = found[o] /\ computed'[o] = computed[o]
          /\ (o \in raced' <=> o \in raced)
    /\ UNCHANGED <<service_map, changing, changes, bound, registered, crashed,
                   pc, name, failed, response, setFailed>>

LEMMA OthersKept ==
    ASSUME IInv, NEW c \in Calls, PoolStep(c), NEW o \in Calls, o # c
    PROVE  Call(o)'
<1>1. SameFor(o) /\ SameMap /\ crashed' = crashed
  BY DEF PoolStep, SameFor, SameMap
<1>2. Call(o)
  BY DEF IInv
<1> QED BY <1>1, <1>2, Kept

LEMMA PoolTyped ==
    ASSUME Typed, NEW c, PoolStep(c), deferred' \subseteq Calls, raced' \subseteq Calls,
           handler' \in [Calls -> {Idle} \cup Dispatching],
           request' \in [Calls -> {NoMessage} \cup Encoded],
           reply' \in [Calls -> {NoMessage, Closed} \cup Encoded],
           found' \in [Calls -> SUBSET (Services \cup {None})],
           computed' \in [Calls -> Seq(Char)]
    PROVE  Typed'
BY DEF Typed, PoolStep

LEMMA PoolIInv ==
    ASSUME IInv, NEW c \in Calls, PoolStep(c), Typed', Call(c)'
    PROVE  IInv'
<1>1. \A o \in Calls : o # c => Call(o)'
  BY OthersKept
<1>2. MapIsBound'
  BY MapKept DEF IInv, PoolStep, SameMap
<1> QED BY <1>1, <1>2 DEF IInv

\* An answer of the dispatcher or of the service.
LEMMA AnswerTyped ==
    ASSUME NEW msg_id \in Seq(Char), NEW result \in Seq(Char), NEW code \in ReplyCodes
    PROVE  [msg_id |-> msg_id, result |-> result, error_code |-> code] \in Response
BY CodesAreChars DEF Response

Answers(c, result) ==
    \E resp \in Response : reply'[c] = EncodeResponse(resp) /\ resp.result = result
ReplyTyped == reply' \in [Calls -> {NoMessage, Closed} \cup Encoded]

LEMMA Answer ==
    ASSUME Typed, NEW c \in Calls, NEW msg_id \in Seq(Char), NEW result \in Seq(Char),
           NEW code \in ReplyCodes, Respond(c, msg_id, result, code)
    PROVE  ReplyTyped /\ Answers(c, result)
<1> DEFINE resp == [msg_id |-> msg_id, result |-> result, error_code |-> code]
<1>1. resp \in Response /\ resp.result = result
  BY AnswerTyped
<1>2. reply' = [reply EXCEPT ![c] = EncodeResponse(resp)]
  BY Zenon DEF Respond
<1> HIDE DEF resp
<1>3. EncodeResponse(resp) \in Encoded
  BY <1>1, ResponseEncoded
<1> DEFINE m == EncodeResponse(resp)
<1>4. reply'[c] = m
  <2> HIDE DEF m
  <2> QED BY <1>2 DEF Typed, m
<1>5. reply' \in [Calls -> {NoMessage, Closed} \cup Encoded]
  <2>1. m \in Encoded /\ reply' = [reply EXCEPT ![c] = m]
    BY <1>2, <1>3
  <2> HIDE DEF m
  <2> QED BY <2>1 DEF Typed
<1> QED BY <1>1, <1>4, <1>5 DEF ReplyTyped, Answers

\* What is on its way to a call that the pool thread of its session has taken.
Taken(c) ==
    /\ pc[c] = "waiting" /\ reply[c] = NoMessage /\ handler[c] = Idle /\ computed[c] = <<>>
    /\ Waiting(c) /\ Current(c) /\ request'[c] = NoMessage

\* A call that is answered at once.
LEMMA Answered ==
    ASSUME IInv, NEW c \in Calls, pc[c] = "waiting", Waiting(c), PoolStep(c),
           request'[c] = NoMessage, handler'[c] = Idle, Current(c)',
           \/ reply'[c] = Closed
           \/ \E resp \in Response : reply'[c] = EncodeResponse(resp) /\ resp.result = computed'[c]
    PROVE  Call(c)'
<1>1. pc'[c] = "waiting" /\ Waiting(c)'
  BY DEF Waiting, PoolStep
<1>2. ReplyOnItsWay(c)'
  BY <1>1 DEF ReplyOnItsWay
<1> QED BY <1>1, <1>2 DEF Call, BeforeSend, RequestOnItsWay, InDispatch, Returned

LEMMA RejectStep ==
    ASSUME IInv, NEW c \in Calls, Taken(c), Reject(c), PoolStep(c),
           request' \in [Calls -> {NoMessage} \cup Encoded], deferred' = deferred
    PROVE  IInv'
<1>1. Typed
  BY DEF IInv
<1>2. reply' = [reply EXCEPT ![c] = Closed] /\ UNCHANGED <<handler, found, raced, computed>>
  BY DEF Reject
<1>3. reply' \in [Calls -> {NoMessage, Closed} \cup Encoded] /\ reply'[c] = Closed
  BY <1>1, <1>2 DEF Typed
<1>4. Typed'
  <2>1. /\ handler' \in [Calls -> {Idle} \cup Dispatching]
        /\ found' \in [Calls -> SUBSET (Services \cup {None})]
        /\ computed' \in [Calls -> Seq(Char)]
        /\ deferred' \subseteq Calls /\ raced' \subseteq Calls
    BY <1>1, <1>2 DEF Typed
  <2> QED BY <1>1, <1>3, <2>1, PoolTyped
<1>5. /\ pc[c] = "waiting" /\ Waiting(c) /\ request'[c] = NoMessage /\ handler'[c] = Idle
      /\ Current(c)'
  BY <1>2 DEF Taken, Current, PoolStep
<1>6. Call(c)'
  BY <1>3, <1>5, Answered, Zenon
<1> QED BY <1>4, <1>6, PoolIInv

LEMMA HeartBeatStep ==
    ASSUME IInv, NEW c \in Calls, Taken(c), NEW req \in Request, HeartBeat(c, req), PoolStep(c),
           request' \in [Calls -> {NoMessage} \cup Encoded], deferred' = deferred
    PROVE  IInv'
<1>1. Typed
  BY DEF IInv
<1>2. /\ Respond(c, req.msg_id, <<"PONG">>, kNoError)
      /\ computed' = [computed EXCEPT ![c] = <<"PONG">>]
      /\ UNCHANGED <<handler, found, raced>>
  BY DEF HeartBeat
<1>3. req.msg_id \in Seq(Char) /\ kNoError \in ReplyCodes
  BY DEF Request, ReplyCodes
<1>4. <<"PONG">> \in Seq(Char)
  <2>1. "PONG" \in Char
    OBVIOUS
  <2> QED BY <2>1
<1>5. ReplyTyped /\ Answers(c, <<"PONG">>)
  BY <1>1, <1>2, <1>3, <1>4, Answer, Zenon
<1>6. computed'[c] = <<"PONG">> /\ computed' \in [Calls -> Seq(Char)]
  BY <1>1, <1>2, <1>4 DEF Typed
<1>7. Typed'
  <2>1. /\ handler' \in [Calls -> {Idle} \cup Dispatching]
        /\ found' \in [Calls -> SUBSET (Services \cup {None})]
        /\ deferred' \subseteq Calls /\ raced' \subseteq Calls
    BY <1>1, <1>2 DEF Typed
  <2> QED BY <1>1, <1>5, <1>6, <2>1, PoolTyped DEF ReplyTyped
<1>8. /\ pc[c] = "waiting" /\ Waiting(c) /\ request'[c] = NoMessage /\ handler'[c] = Idle
      /\ Current(c)'
  BY <1>2 DEF Taken, Current, PoolStep
<1>9. \E resp \in Response : reply'[c] = EncodeResponse(resp) /\ resp.result = computed'[c]
  BY <1>5, <1>6 DEF Answers
<1>10. Call(c)'
  BY <1>8, <1>9, Answered, Zenon
<1> QED BY <1>7, <1>10, PoolIInv

\* An error of Dispatch: the service computed nothing.
LEMMA ErrorStep ==
    ASSUME IInv, NEW c \in Calls, Taken(c), NEW msg_id \in Seq(Char), NEW code \in ReplyCodes,
           Respond(c, msg_id, <<>>, code), PoolStep(c),
           request' \in [Calls -> {NoMessage} \cup Encoded],
           UNCHANGED <<deferred, handler, computed>>,
           found' \in [Calls -> SUBSET (Services \cup {None})], raced' \subseteq Calls,
           Current(c)'
    PROVE  IInv'
<1>1. Typed
  BY DEF IInv
<1>2. <<>> \in Seq(Char)
  OBVIOUS
<1>3. ReplyTyped /\ Answers(c, <<>>)
  BY <1>1, <1>2, Answer, Zenon
<1>4. Typed'
  <2>1. /\ handler' \in [Calls -> {Idle} \cup Dispatching]
        /\ computed' \in [Calls -> Seq(Char)]
        /\ deferred' \subseteq Calls
    BY <1>1 DEF Typed
  <2> QED BY <1>1, <1>3, <2>1, PoolTyped DEF ReplyTyped
<1>5. /\ pc[c] = "waiting" /\ Waiting(c) /\ request'[c] = NoMessage /\ handler'[c] = Idle
      /\ computed'[c] = <<>>
  BY DEF Taken
<1>6. \E resp \in Response : reply'[c] = EncodeResponse(resp) /\ resp.result = computed'[c]
  BY <1>3, <1>5 DEF Answers
<1>7. Call(c)'
  BY <1>5, <1>6, Answered, Zenon
<1> QED BY <1>4, <1>7, PoolIInv

\* The parts of Dispatch that take the request but reply with an error, or refer to
\* the entry of the map.
Errs(c, req) ==
    /\ \E code \in ReplyCodes : Respond(c, req.msg_id, <<>>, code)
    /\ UNCHANGED <<handler, computed>>

Refers(c, service, req) ==
    /\ service # None
    /\ handler' = [handler EXCEPT ![c] =
         [pc |-> "found", service |-> service, request |-> req, dangling |-> FALSE]]
    /\ UNCHANGED <<reply, computed>>

Finds(c, n, service) ==
    /\ raced' = IF changing THEN raced \cup {c} ELSE raced
    /\ service \in {Lookup(ServiceName(n))} \cup (IF changing THEN {None} ELSE {})
    /\ found' = [found EXCEPT ![c] = {service}]

LEMMA DispatchCases ==
    ASSUME NEW c, NEW req, Dispatch(c, req)
    PROVE  \/ Errs(c, req) /\ UNCHANGED <<found, raced>>
           \/ \E service : /\ Finds(c, req.service_full_name, service)
                           /\ Errs(c, req) \/ Refers(c, service, req)
<1>1. ASSUME NEW code \in ReplyCodes, Respond(c, req.msg_id, <<>>, code),
             UNCHANGED <<handler, computed>>
      PROVE  Errs(c, req)
  BY <1>1, Zenon DEF Errs
<1>2. /\ kFunctionNotFound \in ReplyCodes /\ kServiceNotFound \in ReplyCodes
      /\ kInvaliadRequest \in ReplyCodes
  BY DEF ReplyCodes
<1>3. CASE Len(req.service_full_name) = 1 /\ Respond(c, req.msg_id, <<>>, kFunctionNotFound)
           /\ UNCHANGED <<handler, computed>> /\ UNCHANGED <<found, raced>>
  BY <1>1, <1>2, <1>3, Zenon
<1>4. CASE /\ raced' = IF changing THEN raced \cup {c} ELSE raced
           /\ \E service \in {Lookup(ServiceName(req.service_full_name))}
                             \cup (IF changing THEN {None} ELSE {}) :
                /\ found' = [found EXCEPT ![c] = {service}]
                /\ \/ /\ service = None
                      /\ Respond(c, req.msg_id, <<>>, kServiceNotFound)
                      /\ UNCHANGED <<handler, computed>>
                   \/ /\ service # None /\ MethodName(req.service_full_name) \notin Methods
                      /\ Respond(c, req.msg_id, <<>>, kFunctionNotFound)
                      /\ UNCHANGED <<handler, computed>>
                   \/ /\ service # None /\ MethodName(req.service_full_name) \in Methods
                      /\ Respond(c, req.msg_id, <<>>, kInvaliadRequest)
                      /\ UNCHANGED <<handler, computed>>
                   \/ Refers(c, service, req)
  <2>1. PICK service \in {Lookup(ServiceName(req.service_full_name))}
                         \cup (IF changing THEN {None} ELSE {}) :
          /\ found' = [found EXCEPT ![c] = {service}]
          /\ \/ /\ service = None
                /\ Respond(c, req.msg_id, <<>>, kServiceNotFound)
                /\ UNCHANGED <<handler, computed>>
             \/ /\ service # None /\ MethodName(req.service_full_name) \notin Methods
                /\ Respond(c, req.msg_id, <<>>, kFunctionNotFound)
                /\ UNCHANGED <<handler, computed>>
             \/ /\ service # None /\ MethodName(req.service_full_name) \in Methods
                /\ Respond(c, req.msg_id, <<>>, kInvaliadRequest)
                /\ UNCHANGED <<handler, computed>>
             \/ Refers(c, service, req)
    BY <1>4, Zenon
  <2>2. Finds(c, req.service_full_name, service)
    BY <1>4, <2>1, Zenon DEF Finds
  <2>3. Errs(c, req) \/ Refers(c, service, req)
    BY <1>1, <1>2, <2>1, Zenon
  <2> QED BY <2>2, <2>3, Zenon
<1> QED BY <1>3, <1>4, Zenon DEF Dispatch, Refers

\* What is found was registered since the call began, unless the find met a change.
LEMMA FindsCurrent ==
    ASSUME IInv, NEW c \in Calls, Taken(c), NEW service, Finds(c, name[c], service), PoolStep(c)
    PROVE  /\ service \in Services \cup {None}
           /\ found' \in [Calls -> SUBSET (Services \cup {None})] /\ raced' \subseteq Calls
           /\ Current(c)'
           /\ c \notin raced' => service \in registered'[c]
           /\ service # None => ServiceName(name[c]) \in DOMAIN service_map
<1>1. Typed /\ MapIsBound
  BY DEF IInv
<1>2. Lookup(ServiceName(name[c])) \in registered[c]
  BY <1>1, LookupRegistered DEF Taken
<1>3. /\ service = Lookup(ServiceName(name[c])) \/ (changing /\ service = None)
      /\ found' = [found EXCEPT ![c] = {service}]
  BY DEF Finds
<1>4. /\ service \in Services \cup {None}
      /\ service # None => ServiceName(name[c]) \in DOMAIN service_map
  BY <1>1, <1>3, LookupTyped
<1>5. raced' \subseteq Calls /\ (changing => c \in raced')
  <2>1. CASE changing
    BY <1>1, <2>1 DEF Finds, Typed
  <2>2. CASE ~changing
    BY <1>1, <2>2 DEF Finds, Typed
  <2> QED BY <2>1, <2>2
<1>6. c \notin raced' => service \in registered'[c]
  BY <1>2, <1>3, <1>5 DEF PoolStep
<1>7. found'[c] = {service} /\ found' \in [Calls -> SUBSET (Services \cup {None})]
  BY <1>1, <1>3, <1>4 DEF Typed
<1>8. Current(c)'
  BY <1>6, <1>7 DEF Current
<1> QED BY <1>4, <1>5, <1>6, <1>7, <1>8

LEMMA DispatchStep ==
    ASSUME IInv, NEW c \in Calls, Taken(c), NEW req \in Request, Dispatch(c, req), PoolStep(c),
           req.service_full_name = name[c], ~crashed,
           request' \in [Calls -> {NoMessage} \cup Encoded], deferred' = deferred
    PROVE  IInv'
<1>1. Typed
  BY DEF IInv
<1>2. req.msg_id \in Seq(Char)
  BY DEF Request
<1>3. CASE Errs(c, req) /\ UNCHANGED <<found, raced>>
  <2>1. PICK code \in ReplyCodes : Respond(c, req.msg_id, <<>>, code)
    BY <1>3 DEF Errs
  <2>2. /\ found' \in [Calls -> SUBSET (Services \cup {None})] /\ raced' \subseteq Calls
        /\ Current(c)'
    BY <1>1, <1>3 DEF Typed, Taken, Current, PoolStep
  <2>3. UNCHANGED <<deferred, handler, computed>>
    BY <1>3 DEF Errs
  <2> QED BY <1>2, <2>1, <2>2, <2>3, ErrorStep, Zenon
<1>4. ASSUME NEW service, Finds(c, name[c], service), Errs(c, req)
      PROVE  IInv'
  <2>1. PICK code \in ReplyCodes : Respond(c, req.msg_id, <<>>, code)
    BY <1>4 DEF Errs
  <2>2. /\ found' \in [Calls -> SUBSET (Services \cup {None})] /\ raced' \subseteq Calls
        /\ Current(c)'
    BY <1>4, FindsCurrent
  <2>3. UNCHANGED <<deferred, handler, computed>>
    BY <1>4 DEF Errs
  <2> QED BY <1>2, <2>1, <2>2, <2>3, ErrorStep, Zenon
<1>5. ASSUME NEW service, Finds(c, name[c], service), Refers(c, service, req)
      PROVE  IInv'
  <2> DEFINE h == [pc |-> "found", service |-> service, request |-> req, dangling |-> FALSE]
  <2>1. /\ service \in Services \cup {None}
        /\ found' \in [Calls -> SUBSET (Services \cup {None})] /\ raced' \subseteq Calls
        /\ Current(c)'
        /\ c \notin raced' => service \in registered'[c]
        /\ service # None => ServiceName(name[c]) \in DOMAIN service_map
    BY <1>5, FindsCurrent
  <2>2. /\ service # None /\ handler' = [handler EXCEPT ![c] = h]
        /\ UNCHANGED <<reply, computed>>
    BY <1>5 DEF Refers
  <2>3. h \in Dispatching
    BY <2>1, <2>2 DEF Dispatching
  <2>4. h.service = service /\ h.pc = "found"
    OBVIOUS
  <2> HIDE DEF h
  <2>5. handler'[c] = h /\ handler' \in [Calls -> {Idle} \cup Dispatching]
    BY <1>1, <2>2, <2>3 DEF Typed
  <2>6. Typed'
    <3>1. /\ reply' \in [Calls -> {NoMessage, Closed} \cup Encoded]
          /\ computed' \in [Calls -> Seq(Char)]
          /\ deferred' \subseteq Calls
      BY <1>1, <2>2 DEF Typed
    <3> QED BY <1>1, <2>1, <2>5, <3>1, PoolTyped
  <2>7. /\ pc'[c] = "waiting" /\ reply'[c] = NoMessage /\ computed'[c] = <<>>
        /\ request'[c] = NoMessage /\ Waiting(c)'
    BY <2>2 DEF Taken, PoolStep, Waiting
  <2>8. InDispatch(c)'
    <3>1. c \notin raced' => handler'[c].service \in registered'[c]
      BY <2>1, <2>4, <2>5
    <3>2. ServiceName(name'[c]) \in DOMAIN service_map'
      BY <2>1, <2>2 DEF PoolStep
    <3> QED BY <2>7, <3>1, <3>2 DEF InDispatch
  <2>9. Call(c)'
    BY <2>1, <2>7, <2>8 DEF Call, BeforeSend, RequestOnItsWay, ReplyOnItsWay, Returned
  <2> QED BY <2>6, <2>9, PoolIInv
<1> QED BY <1>3, <1>4, <1>5, DispatchCases

LEMMA OnSessionReadStep ==
    ASSUME IInv, NEW c \in Calls, OnSessionRead(c)
    PROVE  IInv'
<1> DEFINE req == DecodeRequest(Read(request[c]))
<1>1. Typed /\ Call(c)
  BY DEF IInv
<1>2. /\ ~crashed /\ request[c] # NoMessage
      /\ request' = [request EXCEPT ![c] = NoMessage]
      /\ UNCHANGED <<service_map, changing, changes, bound, registered, deferred, crashed,
                     pc, name, failed, response, setFailed>>
  BY Zenon DEF OnSessionRead, registry, client
<1>3. \/ req = NoMessage /\ Reject(c)
      \/ req # NoMessage /\ HeartBeat(c, req)
      \/ req # NoMessage /\ Dispatch(c, req)
  BY Zenon DEF OnSessionRead
<1>4. PICK r \in Request : request[c] = EncodeRequest(r) /\ r.service_full_name = name[c]
  BY <1>1, <1>2 DEF Call, RequestOnItsWay
<1>5. req # NoMessage => req \in Request /\ req.service_full_name = name[c]
  BY <1>4, RequestArrives
<1> HIDE DEF req
<1>6. request'[c] = NoMessage /\ request' \in [Calls -> {NoMessage} \cup Encoded]
  BY <1>1, <1>2 DEF Typed
<1>7. Taken(c)
  BY <1>1, <1>2, <1>6 DEF Call, RequestOnItsWay, Taken
<1>8. \A o \in Calls : o # c => request'[o] = request[o]
  BY <1>1, <1>2 DEF Typed
<1>9. CASE req = NoMessage /\ Reject(c)
  <2>1. PoolStep(c)
    BY <1>1, <1>2, <1>8, <1>9 DEF Reject, PoolStep, Typed
  <2> QED BY <1>2, <1>6, <1>7, <1>9, <2>1, RejectStep
<1>10. CASE req # NoMessage /\ HeartBeat(c, req)
  <2>1. PoolStep(c)
    BY <1>1, <1>2, <1>8, <1>10 DEF HeartBeat, Respond, PoolStep, Typed
  <2> QED BY <1>2, <1>5, <1>6, <1>7, <1>10, <2>1, HeartBeatStep
<1>11. CASE req # NoMessage /\ Dispatch(c, req)
  <2>1. PoolStep(c)
    <3>1. ASSUME Errs(c, req)
          PROVE  /\ \A o \in Calls : o # c => reply'[o] = reply[o] /\ handler'[o] = handler[o]
                 /\ computed' = computed
      BY <1>1, <3>1 DEF Errs, Respond, Typed
    <3>2. ASSUME NEW service, Refers(c, service, req)
          PROVE  /\ \A o \in Calls : o # c => reply'[o] = reply[o] /\ handler'[o] = handler[o]
                 /\ computed' = computed
      BY <1>1, <3>2 DEF Refers, Typed
    <3>3. ASSUME NEW service, Finds(c, req.service_full_name, service)
          PROVE  \A o \in Calls : o # c =>
                    found'[o] = found[o] /\ (o \in raced' <=> o \in raced)
      BY <1>1, <3>3 DEF Finds, Typed
    <3>4. /\ \A o \in Calls : o # c => reply'[o] = reply[o] /\ handler'[o] = handler[o]
          /\ computed' = computed
          /\ \A o \in Calls : o # c => found'[o] = found[o] /\ (o \in raced' <=> o \in raced)
      BY <1>11, <3>1, <3>2, <3>3, DispatchCases
    <3> QED BY <1>2, <1>8, <3>4 DEF PoolStep
  <2> QED BY <1>2, <1>5, <1>6, <1>7, <1>11, <2>1, DispatchStep
<1> QED BY <1>3, <1>9, <1>10, <1>11

\* The call goes to what the reference names: the entry of the map as it is now, or
\* the service that was found there before it went.
LEMMA CallServiceStep ==
    ASSUME IInv, NEW c \in Calls, CallService(c)
    PROVE  IInv'
<1> DEFINE service == IF handler[c].dangling THEN handler[c].service
                      ELSE Lookup(ServiceName(name[c]))
           h == [handler[c] EXCEPT !.pc = "running", !.service = service]
<1>1. Typed /\ MapIsBound /\ Call(c)
  BY DEF IInv
<1>2. /\ ~crashed /\ handler[c].pc = "found"
      /\ handler' = [handler EXCEPT ![c].pc = "running", ![c].service = service]
      /\ found' = [found EXCEPT ![c] = {service}]
      /\ UNCHANGED <<service_map, changing, changes, bound, registered, deferred, crashed,
                     pc, name, failed, response, request, reply, raced, computed, setFailed>>
  BY Zenon DEF CallService, registry, client
<1>3. handler[c] \in Dispatching /\ handler[c] # Idle
  BY <1>1, <1>2, HandlerStates DEF Typed
<1>4. /\ pc[c] = "waiting" /\ request[c] = NoMessage /\ reply[c] = NoMessage /\ computed[c] = <<>>
      /\ c \notin raced => handler[c].service \in registered[c]
      /\ ~handler[c].dangling => ServiceName(name[c]) \in DOMAIN service_map
  BY <1>1, <1>2, <1>3 DEF Call, InDispatch
<1>5. service \in Services /\ (c \notin raced => service \in registered[c])
  <2>1. CASE handler[c].dangling
    BY <1>3, <1>4, <2>1 DEF Dispatching
  <2>2. CASE ~handler[c].dangling
    <3>1. service = Lookup(ServiceName(name[c]))
      BY <2>2
    <3>2. Lookup(ServiceName(name[c])) \in registered[c]
      BY <1>1, <1>4, LookupRegistered DEF Call
    <3> QED BY <1>1, <1>4, <2>2, <3>1, <3>2, LookupTyped
  <2> QED BY <2>1, <2>2
<1> HIDE DEF service
<1>6. h \in Dispatching /\ h.service = service /\ h.pc = "running"
  BY <1>3, <1>5 DEF Dispatching
<1>7. handler' = [handler EXCEPT ![c] = h]
  BY <1>1, <1>2, <1>3 DEF Typed, Dispatching
<1> HIDE DEF h
<1>8. handler'[c] = h /\ handler' \in [Calls -> {Idle} \cup Dispatching]
  BY <1>1, <1>6, <1>7 DEF Typed
<1>9. found'[c] = {service} /\ found' \in [Calls -> SUBSET (Services \cup {None})]
  BY <1>1, <1>2, <1>5 DEF Typed
<1>10. PoolStep(c)
  BY <1>1, <1>2, <1>7 DEF PoolStep, Typed
<1>11. Typed'
  <2>1. /\ request' \in [Calls -> {NoMessage} \cup Encoded]
        /\ reply' \in [Calls -> {NoMessage, Closed} \cup Encoded]
        /\ computed' \in [Calls -> Seq(Char)]
        /\ deferred' \subseteq Calls /\ raced' \subseteq Calls
    BY <1>1, <1>2 DEF Typed
  <2> QED BY <1>1, <1>8, <1>9, <1>10, <2>1, PoolTyped
<1>12. Call(c)'
  <2>1. /\ pc'[c] = "waiting" /\ request'[c] = NoMessage /\ reply'[c] = NoMessage
        /\ computed'[c] = <<>>
    BY <1>2, <1>4
  <2>2. c \notin raced' => service \in registered'[c]
    BY <1>2, <1>5
  <2>3. InDispatch(c)'
    BY <1>6, <1>8, <2>1, <2>2 DEF InDispatch
  <2>4. Waiting(c)' /\ Current(c)'
    BY <1>1, <1>2, <1>9, <2>2 DEF Call, Waiting, Current
  <2> QED BY <2>1, <2>3, <2>4 DEF Call, BeforeSend, RequestOnItsWay, ReplyOnItsWay, Returned
<1> QED BY <1>10, <1>11, <1>12, PoolIInv

\* The response goes with the whole result that the service gave, or with none.
LEMMA ServiceReturnsStep ==
    ASSUME IInv, NEW c \in Calls, NEW size \in ResultSizes, ServiceReturns(c, size)
    PROVE  IInv'
<1> DEFINE req == handler[c].request
           result == IF req.param = <<>> THEN <<>> ELSE Copies(size, req.param[1])
<1>1. Typed /\ Call(c)
  BY DEF IInv
<1>2. /\ ~crashed /\ handler[c].pc = "running"
      /\ handler' = [handler EXCEPT ![c] = Idle]
      /\ UNCHANGED <<service_map, changing, changes, bound, registered, crashed,
                     pc, name, failed, response, request, found, raced, setFailed>>
  BY Zenon DEF ServiceReturns, registry, client
<1>3. \/ /\ Respond(c, req.msg_id, result, kNoError)
         /\ computed' = [computed EXCEPT ![c] = result] /\ deferred' = deferred
      \/ /\ Respond(c, req.msg_id, <<>>, kNoError)
         /\ deferred' = deferred \cup {c} /\ computed' = computed
      \/ /\ Respond(c, req.msg_id, <<>>, kUnknown)
         /\ deferred' = deferred /\ computed' = computed
  BY Zenon DEF ServiceReturns
<1>4. handler[c] \in Dispatching /\ handler[c] # Idle
  BY <1>1, <1>2, HandlerStates DEF Typed
<1>5. /\ pc[c] = "waiting" /\ request[c] = NoMessage /\ computed[c] = <<>>
  BY <1>1, <1>2, <1>4 DEF Call, InDispatch
<1>6. req.msg_id \in Seq(Char) /\ req.param \in Seq(Char)
  BY <1>4 DEF Dispatching, Request
<1>7. result \in Seq(Char) /\ <<>> \in Seq(Char)
  <2>1. CASE req.param = <<>>
    BY <2>1
  <2>2. CASE req.param # <<>>
    <3>1. req.param[1] \in Char
      <4> HIDE DEF req
      <4> QED BY <1>6, <2>2
    <3>2. size \in Nat
      OBVIOUS
    <3> QED BY <2>2, <3>1, <3>2, CopiesTyped
  <2> QED BY <2>1, <2>2
<1>8. kNoError \in ReplyCodes /\ kUnknown \in ReplyCodes
  BY DEF ReplyCodes
<1> HIDE DEF req, result
<1>9. /\ computed' \in [Calls -> Seq(Char)] /\ deferred' \subseteq Calls
      /\ \A o \in Calls : o # c => computed'[o] = computed[o]
  BY <1>1, <1>3, <1>7 DEF Typed
<1>10. ReplyTyped /\ Answers(c, computed'[c])
  <2>1. CASE /\ Respond(c, req.msg_id, result, kNoError)
             /\ computed' = [computed EXCEPT ![c] = result]
    <3>1. ReplyTyped /\ Answers(c, result)
      BY <1>1, <1>6, <1>7, <1>8, <2>1, Answer, Zenon
    <3>2. computed'[c] = result
      BY <1>1, <2>1 DEF Typed
    <3> QED BY <3>1, <3>2
  <2>2. CASE /\ Respond(c, req.msg_id, <<>>, kNoError) \/ Respond(c, req.msg_id, <<>>, kUnknown)
             /\ computed' = computed
    <3>1. ReplyTyped /\ Answers(c, <<>>)
      BY <1>1, <1>6, <1>7, <1>8, <2>2, Answer, Zenon
    <3> QED BY <1>5, <2>2, <3>1
  <2> QED BY <1>3, <2>1, <2>2
<1>11. \A o \in Calls : o # c => reply'[o] = reply[o]
  BY <1>1, <1>3 DEF Respond, Typed
<1>12. handler'[c] = Idle /\ handler' \in [Calls -> {Idle} \cup Dispatching]
  BY <1>1, <1>2 DEF Typed
<1>13. PoolStep(c)
  BY <1>1, <1>2, <1>9, <1>11 DEF PoolStep, Typed
<1>14. Typed'
  <2>1. /\ request' \in [Calls -> {NoMessage} \cup Encoded]
        /\ found' \in [Calls -> SUBSET (Services \cup {None})] /\ raced' \subseteq Calls
    BY <1>1, <1>2 DEF Typed
  <2> QED BY <1>1, <1>9, <1>10, <1>12, <1>13, <2>1, PoolTyped DEF ReplyTyped
<1>15. Call(c)'
  <2>1. Waiting(c) /\ Current(c)' /\ request'[c] = NoMessage
    BY <1>1, <1>2, <1>5 DEF Call, Current
  <2>2. \E resp \in Response : reply'[c] = EncodeResponse(resp) /\ resp.result = computed'[c]
    BY <1>10 DEF Answers
  <2> QED BY <1>5, <1>12, <1>13, <2>1, <2>2, Answered, Zenon
<1> QED BY <1>13, <1>14, <1>15, PoolIInv

-----------------------------------------------------------------------------
\* The steps that change no call.
LEMMA StillIInv ==
    ASSUME IInv, Typed', UNCHANGED <<service_map, bound, crashed, pc, name, request, reply, handler,
                                     failed, response, computed, found, registered, raced>>
    PROVE  IInv'
<1>1. ASSUME NEW o \in Calls
      PROVE  Call(o)'
  <2>1. SameFor(o) /\ SameMap /\ crashed' = crashed
    BY DEF SameFor, SameMap
  <2>2. Call(o)
    BY DEF IInv
  <2> QED BY <2>1, <2>2, Kept
<1>2. MapIsBound'
  BY MapKept DEF IInv, SameMap
<1> QED BY <1>1, <1>2 DEF IInv

LEMMA SetFailedStep ==
    ASSUME IInv, NEW c \in Calls, SetFailed(c)
    PROVE  IInv'
<1>1. /\ setFailed' = setFailed \cup {c}
      /\ UNCHANGED <<service_map, changing, changes, bound, registered, handler, deferred, crashed,
                     pc, name, failed, response, request, reply, found, raced, computed>>
  BY Zenon DEF SetFailed, registry, client
<1>2. Typed'
  <2>1. setFailed' \subseteq Calls
    BY <1>1 DEF IInv, Typed
  <2> QED BY <1>1, <2>1 DEF IInv, Typed
<1> QED BY <1>1, <1>2, StillIInv

LEMMA BeginChangeStep ==
    ASSUME IInv, BeginChange
    PROVE  IInv'
<1>1. /\ changes < MaxChanges /\ changing' = TRUE /\ changes' = changes + 1
      /\ UNCHANGED <<service_map, bound, registered, handler, deferred, crashed,
                     pc, name, failed, response, request, reply, found, raced, computed, setFailed>>
  BY Zenon DEF BeginChange, client
<1>2. changing' \in BOOLEAN /\ changes' \in 0 .. MaxChanges
  <2>1. changes \in 0 .. MaxChanges /\ MaxChanges \in Nat
    BY DEF IInv, Typed
  <2> QED BY <1>1, <2>1
<1>3. Typed'
  BY <1>1, <1>2 DEF IInv, Typed
<1> QED BY <1>1, <1>3, StillIInv

\* The process dies: the calls that have no reply find the connection closed.
LEMMA UseFreedStep ==
    ASSUME IInv, NEW c \in Calls, UseFreed(c)
    PROVE  IInv'
<1>1. Typed
  BY DEF IInv
<1>2. /\ crashed' = TRUE
      /\ request' = [o \in Calls |-> NoMessage]
      /\ reply' = [o \in Calls |-> IF pc[o] = "waiting" /\ reply[o] = NoMessage
                                   THEN Closed ELSE reply[o]]
      /\ UNCHANGED <<service_map, changing, changes, bound, registered, handler, deferred,
                     pc, name, failed, response, found, raced, computed, setFailed>>
  BY Zenon DEF UseFreed, Crash, registry, client
<1>3. Typed'
  <2>1. crashed' \in BOOLEAN /\ request' \in [Calls -> {NoMessage} \cup Encoded]
    BY <1>2
  <2>2. reply' \in [Calls -> {NoMessage, Closed} \cup Encoded]
    BY <1>1, <1>2 DEF Typed
  <2> QED BY <1>1, <1>2, <2>1, <2>2 DEF Typed
<1>4. ASSUME NEW o \in Calls
      PROVE  Call(o)'
  <2>1. Call(o)
    BY DEF IInv
  <2>2. /\ request'[o] = NoMessage
        /\ reply'[o] = reply[o] \/ (pc[o] = "waiting" /\ reply'[o] = Closed)
    BY <1>2
  <2>3. BeforeSend(o)'
    BY <1>2, <2>1, <2>2 DEF Call, BeforeSend
  <2>4. Waiting(o)' /\ Returned(o)' /\ Current(o)'
    BY <1>2, <2>1 DEF Call, Waiting, Returned, Current
  <2>5. InDispatch(o)'
    BY <1>2, <2>1 DEF Call, InDispatch
  <2>6. ReplyOnItsWay(o)'
    <3>1. CASE reply'[o] = reply[o]
      BY <1>2, <2>1, <2>2, <3>1 DEF Call, ReplyOnItsWay
    <3>2. CASE pc[o] = "waiting" /\ reply'[o] = Closed
      BY <1>2, <2>2, <3>2 DEF ReplyOnItsWay
    <3> QED BY <2>2, <3>1, <3>2
  <2> QED BY <2>2, <2>3, <2>4, <2>5, <2>6 DEF Call, RequestOnItsWay
<1>5. MapIsBound'
  BY <1>2, MapKept DEF IInv, SameMap
<1> QED BY <1>3, <1>4, <1>5 DEF IInv

-----------------------------------------------------------------------------
\* A change of the map: what it binds is what the map holds, and the handlers that
\* refer to an entry that goes have a reference that dangles.
LEMMA ChangeStep ==
    ASSUME IInv, NEW n \in Names, NEW service \in Services \cup {None}, NEW map, NEW freed,
           Change(n, service, map, freed),
           "idle" \notin freed,
           DOMAIN map \subseteq Names, \A m \in DOMAIN map : map[m] \in Services,
           IF service = None THEN n \notin DOMAIN map ELSE n \in DOMAIN map /\ map[n] = service,
           \A m : m # n => /\ m \in DOMAIN map <=> m \in DOMAIN service_map
                           /\ m \in DOMAIN map => map[m] = service_map[m],
           n \in DOMAIN map \/ "found" \in freed
    PROVE  IInv'
<1>1. Typed /\ MapIsBound
  BY DEF IInv
<1>2. /\ changing' = FALSE
      /\ service_map' = map
      /\ bound' = [bound EXCEPT ![n] = service]
      /\ registered' = [c \in Calls |-> IF pc[c] = "waiting" /\ ServiceName(name[c]) = n
                                        THEN registered[c] \cup {service} ELSE registered[c]]
      /\ handler' = [c \in Calls |-> IF handler[c].pc \in freed /\ ServiceName(name[c]) = n
                                     THEN [handler[c] EXCEPT !.dangling = TRUE] ELSE handler[c]]
      /\ UNCHANGED <<changes, deferred, crashed, pc, name, failed, response, request, reply,
                     found, raced, computed, setFailed>>
  BY Zenon DEF Change, client
<1>3. bound'[n] = service /\ \A m \in Names : m # n => bound'[m] = bound[m]
  BY <1>1, <1>2 DEF Typed
<1>4. MapIsBound'
  <2>1. ASSUME NEW m \in Names
        PROVE  bound'[m] = Lookup(m)'
    <3>1. Lookup(m)' = IF m \in DOMAIN map THEN map[m] ELSE None
      BY <1>2 DEF Lookup
    <3>2. CASE m = n
      BY <1>3, <3>1, <3>2
    <3>3. CASE m # n
      BY <1>1, <1>3, <3>1, <3>3 DEF MapIsBound, Lookup
    <3> QED BY <3>2, <3>3
  <2> QED BY <2>1 DEF MapIsBound
\* A handler that is not idle keeps its place and its service.
<1>5. ASSUME NEW c \in Calls
      PROVE  /\ handler'[c] \in {Idle} \cup Dispatching
             /\ handler[c] = Idle <=> handler'[c] = Idle
             /\ handler[c] # Idle => /\ handler'[c].service = handler[c].service
                                     /\ handler'[c].pc = handler[c].pc
                                     /\ ~handler'[c].dangling => ~handler[c].dangling
                                     /\ handler[c].pc \in freed /\ ServiceName(name[c]) = n =>
                                           handler'[c].dangling
  <2> DEFINE h == handler[c]
             d == [h EXCEPT !.dangling = TRUE]
  <2>1. h \in {Idle} \cup Dispatching
    BY <1>1 DEF Typed
  <2>2. handler'[c] = IF h.pc \in freed /\ ServiceName(name[c]) = n THEN d ELSE h
    BY <1>2
  <2>3. CASE h.pc \in freed /\ ServiceName(name[c]) = n
    <3>1. h \in Dispatching /\ h # Idle
      BY <2>1, <2>3, HandlerStates
    <3>2. d \in Dispatching /\ d.service = h.service /\ d.pc = h.pc /\ d.dangling = TRUE
      BY <3>1 DEF Dispatching
    <3>3. handler'[c] = d
      BY <2>2, <2>3
    <3>4. d # Idle
      BY <3>2, HandlerStates DEF Dispatching, Idle
    <3> HIDE DEF d
    <3> QED BY <3>1, <3>2, <3>3, <3>4
  <2>4. CASE ~(h.pc \in freed /\ ServiceName(name[c]) = n)
    <3>1. handler'[c] = h
      BY <2>2, <2>4
    <3> QED BY <2>1, <2>4, <3>1
  <2> QED BY <2>3, <2>4
<1>6. Typed'
  <2>1. handler' \in [Calls -> {Idle} \cup Dispatching]
    <3>1. \A c \in Calls : handler'[c] \in {Idle} \cup Dispatching
      BY <1>5
    <3>2. DOMAIN handler' = Calls /\ handler' = [c \in Calls |-> handler'[c]]
      BY <1>2
    <3> QED BY <3>1, <3>2
  <2>2. registered' \in [Calls -> SUBSET (Services \cup {None})]
    BY <1>1, <1>2 DEF Typed
  <2>3. bound' \in [Names -> Services \cup {None}]
    BY <1>1, <1>2 DEF Typed
  <2>4. /\ DOMAIN service_map' \subseteq Names
        /\ \A m \in DOMAIN service_map' : service_map'[m] \in Services
        /\ changing' \in BOOLEAN
    BY <1>2
  <2> QED BY <1>1, <1>2, <2>1, <2>2, <2>3, <2>4 DEF Typed
<1>7. ASSUME NEW c \in Calls
      PROVE  Call(c)'
  <2>1. Call(c)
    BY DEF IInv
  <2>2. /\ registered[c] \subseteq registered'[c]
        /\ pc[c] = "waiting" /\ ServiceName(name[c]) = n => service \in registered'[c]
    BY <1>2
  <2>3. BeforeSend(c)'
    BY <1>2, <1>5, <2>1 DEF Call, BeforeSend
  <2>4. Waiting(c)'
    BY <1>2, <1>3, <2>1, <2>2 DEF Call, Waiting
  <2>5. RequestOnItsWay(c)'
    BY <1>2, <1>5, <2>1 DEF Call, RequestOnItsWay
  <2>6. InDispatch(c)'
    <3> SUFFICES ASSUME handler'[c] # Idle
                 PROVE  /\ ~crashed => /\ pc[c] = "waiting" /\ request[c] = NoMessage
                                       /\ reply[c] = NoMessage
                        /\ computed[c] = <<>>
                        /\ c \notin raced => handler'[c].service \in registered'[c]
                        /\ ~crashed /\ handler'[c].pc = "found" /\ ~handler'[c].dangling =>
                              ServiceName(name[c]) \in DOMAIN map
      BY <1>2 DEF InDispatch
    <3>1. handler[c] # Idle
      BY <1>5
    <3>2. /\ ~crashed => pc[c] = "waiting" /\ request[c] = NoMessage /\ reply[c] = NoMessage
          /\ computed[c] = <<>>
          /\ c \notin raced => handler'[c].service \in registered'[c]
      BY <1>5, <2>1, <2>2, <3>1 DEF Call, InDispatch
    <3>3. ASSUME ~crashed, handler'[c].pc = "found", ~handler'[c].dangling
          PROVE  ServiceName(name[c]) \in DOMAIN map
      <4>1. handler[c].pc = "found" /\ ~handler[c].dangling
        BY <1>5, <3>1, <3>3
      <4>2. ServiceName(name[c]) \in DOMAIN service_map
        BY <2>1, <3>1, <3>3, <4>1 DEF Call, InDispatch
      <4>3. CASE ServiceName(name[c]) = n
        <5>1. "found" \notin freed
          BY <1>5, <3>1, <3>3, <4>1, <4>3
        <5> QED BY <4>3, <5>1
      <4>4. CASE ServiceName(name[c]) # n
        BY <4>2, <4>4
      <4> QED BY <4>3, <4>4
    <3> QED BY <3>2, <3>3
  <2>7. ReplyOnItsWay(c)'
    BY <1>2, <2>1 DEF Call, ReplyOnItsWay
  <2>8. Returned(c)' /\ Current(c)'
    BY <1>2, <2>1, <2>2 DEF Call, Returned, Current
  <2> QED BY <2>3, <2>4, <2>5, <2>6, <2>7, <2>8 DEF Call
<1> QED BY <1>4, <1>6, <1>7 DEF IInv

LEMMA RegistrableNames == Registrable \subseteq Names
BY DEF Registrable, Names

LEMMA RegisterStep ==
    ASSUME IInv, NEW n \in Registrable, NEW service \in Services, RegisterService(n, service)
    PROVE  IInv'
<1> DEFINE map == [m \in DOMAIN service_map \cup {n} |->
                     IF m = n THEN service ELSE service_map[m]]
           freed == {"running"}
<1>1. n \in Names /\ service # None /\ service \in Services \cup {None}
  BY RegistrableNames
<1>2. Change(n, service, map, freed)
  BY DEF RegisterService
<1>3. DOMAIN map \subseteq Names /\ \A m \in DOMAIN map : map[m] \in Services
  BY <1>1 DEF IInv, Typed
<1>4. n \in DOMAIN map /\ map[n] = service /\ "idle" \notin freed
  OBVIOUS
<1>5. \A m : m # n => /\ m \in DOMAIN map <=> m \in DOMAIN service_map
                      /\ m \in DOMAIN map => map[m] = service_map[m]
  OBVIOUS
<1> HIDE DEF map, freed
<1> QED BY <1>1, <1>2, <1>3, <1>4, <1>5, ChangeStep

LEMMA UnRegisterStep ==
    ASSUME IInv, NEW n \in Registrable, UnRegisterService(n)
    PROVE  IInv'
<1> DEFINE map == [m \in DOMAIN service_map \ {n} |-> service_map[m]]
           freed == {"found", "running"}
<1>1. n \in Names /\ None \in Services \cup {None}
  BY RegistrableNames
<1>2. Change(n, None, map, freed)
  BY DEF UnRegisterService
<1>3. DOMAIN map \subseteq Names /\ \A m \in DOMAIN map : map[m] \in Services
  BY DEF IInv, Typed
<1>4. n \notin DOMAIN map /\ "idle" \notin freed /\ "found" \in freed
  OBVIOUS
<1>5. \A m : m # n => /\ m \in DOMAIN map <=> m \in DOMAIN service_map
                      /\ m \in DOMAIN map => map[m] = service_map[m]
  OBVIOUS
<1> HIDE DEF map, freed
<1> QED BY <1>1, <1>2, <1>3, <1>4, <1>5, ChangeStep

-----------------------------------------------------------------------------
LEMMA NextIInv == IInv /\ [Next]_vars => IInv'
<1> SUFFICES ASSUME IInv, [Next]_vars PROVE IInv'
  OBVIOUS
<1>1. ASSUME NEW c \in Calls, NEW n \in FullNames, NEW size \in ParamSizes, CallMethod(c, n, size)
      PROVE  IInv'
  BY <1>1, CallMethodStep
<1>2. ASSUME NEW c \in Calls, SendHeartBeat(c)
      PROVE  IInv'
  BY <1>2, SendHeartBeatStep
<1>3. ASSUME NEW c \in Calls, ReadResponse(c)
      PROVE  IInv'
  BY <1>3, ReadResponseStep
<1>4. ASSUME NEW c \in Calls, Handles(c)
      PROVE  IInv'
  BY <1>4, OnSessionReadStep, CallServiceStep, ServiceReturnsStep DEF Handles
<1>5. ASSUME NEW c \in Calls, SetFailed(c) \/ UseFreed(c)
      PROVE  IInv'
  BY <1>5, SetFailedStep, UseFreedStep
<1>6. ASSUME BeginChange
      PROVE  IInv'
  BY <1>6, BeginChangeStep
<1>7. ASSUME NEW n \in Registrable, UnRegisterService(n) \/ \E s \in Services : RegisterService(n, s)
      PROVE  IInv'
  BY <1>7, RegisterStep, UnRegisterStep
<1>8. CASE UNCHANGED vars
  <2>1. UNCHANGED <<service_map, changing, changes, bound, registered, handler, deferred, crashed,
                    pc, name, failed, response, request, reply, found, raced, computed, setFailed>>
    BY <1>8 DEF vars, registry, client
  <2>2. Typed'
    BY <2>1 DEF IInv, Typed
  <2> QED BY <2>1, <2>2, StillIInv
<1> QED BY <1>1, <1>2, <1>3, <1>4, <1>5, <1>6, <1>7, <1>8, Zenon DEF Next

LEMMA Invariant == Spec => []IInv
BY InitIInv, NextIInv, PTL DEF Spec

LEMMA IInvTypeOK == IInv => TypeOK
<1> SUFFICES ASSUME IInv PROVE TypeOK
  OBVIOUS
<1>1. Typed
  BY DEF IInv
<1>2. ASSUME NEW c \in Calls
      PROVE  /\ handler[c] = Idle \/ (handler[c].pc \in {"found", "running"}
                                      /\ handler[c].service \in Services
                                      /\ handler[c].dangling \in BOOLEAN)
             /\ request[c] # NoMessage \/ reply[c] # NoMessage => pc[c] = "waiting"
             /\ found[c] \cup registered[c] \subseteq Services \cup {None}
             /\ response[c] \in Seq(Char) /\ computed[c] \in Seq(Char)
  <2>1. Call(c)
    BY DEF IInv
  <2>2. request[c] # NoMessage \/ reply[c] # NoMessage => pc[c] = "waiting"
    BY <2>1 DEF Call, RequestOnItsWay, ReplyOnItsWay
  <2>3. handler[c] \in {Idle} \cup Dispatching
    BY <1>1 DEF Typed
  <2>4. handler[c] = Idle \/ (handler[c].pc \in {"found", "running"}
                              /\ handler[c].service \in Services
                              /\ handler[c].dangling \in BOOLEAN)
    BY <2>3 DEF Dispatching
  <2>5. /\ found[c] \cup registered[c] \subseteq Services \cup {None}
        /\ response[c] \in Seq(Char) /\ computed[c] \in Seq(Char)
    BY <1>1 DEF Typed
  <2> QED BY <2>2, <2>4, <2>5
<1> QED BY <1>1, <1>2 DEF TypeOK, Typed

\* The variables of the server and of the clients have their types.
THEOREM TypeCorrect == Spec => []TypeOK
BY Invariant, IInvTypeOK, PTL

\* However the application's thread registers, replaces and unregisters services while
\* pool threads dispatch, a call that no change of the map met in its lookup goes to a
\* service that was registered under its name since it began, or is refused because
\* there was none.
THEOREM LookupCurrent == Spec => []LookupIsCurrent
<1>1. IInv => LookupIsCurrent
  BY DEF IInv, Call, Current, LookupIsCurrent
<1> QED BY <1>1, Invariant, PTL

\* For any sizes of names, parameters and results, a call that does not fail has the
\* whole result of its service, or nothing when none gave one: what exceeds the limits
\* is cut by the read, and never taken for a message.
THEOREM ResultWhole == Spec => []ResultIsServices
<1>1. IInv => ResultIsServices
  BY DEF IInv, Call, Returned, ResultIsServices
<1> QED BY <1>1, Invariant, PTL
=============================================================================

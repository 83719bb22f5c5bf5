------------------------------- MODULE PbCall -------------------------------
(***************************************************************************)
(* Calls from PbRpcChannel::CallMethod to the service and back: the limits *)
(* of the coder, PbServer::OnSessionRead, PbRpcDispatcher with services    *)
(* that the application's thread registers and unregisters while the pool  *)
(* threads dispatch, and the controllers of both sides.                    *)
(*                                                                         *)
(* Every call has a connection of its own, whose session is on a pool      *)
(* thread of its own: calls one after the other, timeouts and lost         *)
(* connections are in RpcChannel, the session's own steps in PbServer.  A  *)
(* full name is the sequence of its parts; a parameter repeats the call's  *)
(* number, a result what the service read there.                           *)
(***************************************************************************)
EXTENDS PbCoder, FiniteSets

CONSTANTS
    Calls,         \* the calls, each of a client's thread
    FullNames,     \* full names of the methods they call
    Services,      \* service objects, all with the methods Methods
    Methods,
    ParamSizes, ResultSizes,
    MaxChanges,    \* bound: registrations after the server's start
    None, Closed

ASSUME CallAssumption ==
    /\ Calls \cup {"kNoError", "kServiceNotFound", "kFunctionNotFound", "kInvaliadRequest",
                  "kUnknown", "111", "HEARTBEAT", "PING", "PONG"} \subseteq Char
    /\ FullNames \subseteq Seq(Char) \ {<<>>}
    /\ ParamSizes \cup ResultSizes \subseteq Nat /\ MaxChanges \in Nat
    /\ None \notin Services /\ Closed # NoMessage
    /\ \A m \in {NoMessage, Closed} :
          m \notin [total_len : Nat, lens : Seq(Nat), chars : Seq(Char)]

\* enum class NetErrorCode, as characters of a message.
kNoError == "kNoError"
kServiceNotFound == "kServiceNotFound"
kFunctionNotFound == "kFunctionNotFound"
kInvaliadRequest == "kInvaliadRequest"
kUnknown == "kUnknown"

VARIABLES
    service_map,   \* service_map_ of the dispatcher
    changing,      \* the application's thread is inside a change of service_map_
    changes,       \* registrations so far
    handler,       \* the pool thread of a call's session, in Dispatch
    deferred,      \* calls whose service kept done and response for later
    crashed,       \* the server's process died of an access to freed memory
    pc,            \* the thread of a call: idle, waiting for the response, or done
    name,          \* the full name that is called
    request,       \* the encoded request on its way, or NoMessage
    reply,         \* the encoded response on its way, Closed or NoMessage
    failed,        \* is_failed_ of the call's controller
    response,      \* what was parsed into the call's response message
    bound,         \* history: the service that the application registered, by name
    registered,    \* history: what was bound to the called name since the call began
    found,         \* history: what the dispatcher found there
    raced,         \* history: calls whose lookup met a change of the map
    computed,      \* history: the result that the service gave
    setFailed      \* history: calls whose service called SetFailed

client == <<pc, name, failed, response>>
registry == <<service_map, changing, changes, bound, registered>>
vars == <<registry, handler, deferred, crashed, client, request, reply, found, raced, computed,
          setFailed>>

Copies(n, x) == [k \in 1 .. n |-> x]
Idle == [pc |-> "idle"]

\* GetServiceAndMethod splits a full name at its first point.
ServiceName(n) == n[1]
MethodName(n) == SubSeq(n, 2, Len(n))

\* service_map_.find
Lookup(n) == IF n \in DOMAIN service_map THEN service_map[n] ELSE None

\* The connections of a server that died are closed.
Crash ==
    /\ crashed' = TRUE
    /\ request' = [c \in Calls |-> NoMessage]
    /\ reply' = [c \in Calls |-> IF pc[c] = "waiting" /\ reply[c] = NoMessage
                                 THEN Closed ELSE reply[c]]

-----------------------------------------------------------------------------
Send(c, req) ==
    /\ pc[c] = "idle" /\ ~crashed
    /\ pc' = [pc EXCEPT ![c] = "waiting"]
    /\ name' = [name EXCEPT ![c] = req.service_full_name]
    /\ request' = [request EXCEPT ![c] = EncodeRequest(req)]
    /\ registered' = [registered EXCEPT ![c] = {bound[ServiceName(req.service_full_name)]}]
    /\ UNCHANGED <<service_map, changing, changes, bound, handler, deferred, crashed, reply,
                   failed, response, found, raced, computed, setFailed>>

\* PbRpcChannel::CallMethod up to the read of the response.
CallMethod(c, n, size) ==
    Send(c, [msg_id |-> <<"111">>, service_full_name |-> n, param |-> Copies(size, c)])

\* PbClient::SendHeartBeat
SendHeartBeat(c) ==
    Send(c, [msg_id |-> <<"HEARTBEAT">>, service_full_name |-> <<"PING">>, param |-> <<>>])

\* Mutant: the response stays in the read buffer.
ReadResponseKeeps(c) ==
    /\ pc[c] = "waiting" /\ reply[c] # NoMessage
    /\ pc' = [pc EXCEPT ![c] = "done"]
    /\ LET resp == IF reply[c] = Closed THEN NoMessage ELSE DecodeResponse(Read(reply[c]))
       IN  IF resp = NoMessage
           THEN failed' = [failed EXCEPT ![c] = TRUE] /\ UNCHANGED response
           ELSE response' = [response EXCEPT ![c] = resp.result] /\ UNCHANGED failed
    /\ UNCHANGED <<registry, handler, deferred, crashed, name, request, reply, found, raced, computed,
                   setFailed>>

\* ReadResponse and the rest of CallMethod.  The error code of the response is not
\* looked at, and an empty result parses as a message.
ReadResponse(c) ==
    /\ pc[c] = "waiting" /\ reply[c] # NoMessage
    /\ pc' = [pc EXCEPT ![c] = "done"]
    /\ reply' = [reply EXCEPT ![c] = NoMessage]
    /\ LET resp == IF reply[c] = Closed THEN NoMessage ELSE DecodeResponse(Read(reply[c]))
       IN  IF resp = NoMessage
           THEN failed' = [failed EXCEPT ![c] = TRUE] /\ UNCHANGED response
           ELSE response' = [response EXCEPT ![c] = resp.result] /\ UNCHANGED failed
    /\ UNCHANGED <<registry, handler, deferred, crashed, name, request, found, raced, computed,
                   setFailed>>

-----------------------------------------------------------------------------
\* WriteResponse of what Dispatch returned.
Respond(c, msg_id, result, error_code) ==
    reply' = [reply EXCEPT ![c] = EncodeResponse([msg_id |-> msg_id, result |-> result,
                                                  error_code |-> error_code])]

\* OnSessionRead of a request that does not decode.
Reject(c) ==
    /\ reply' = [reply EXCEPT ![c] = Closed]
    /\ UNCHANGED <<handler, found, raced, computed>>

HeartBeat(c, req) ==
    /\ Respond(c, req.msg_id, <<"PONG">>, kNoError)
    /\ computed' = [computed EXCEPT ![c] = <<"PONG">>]
    /\ UNCHANGED <<handler, found, raced>>

\* Dispatch up to the call: the name has no point, the service is not registered or
\* does not have the method, the parameter does not parse, or the pool thread has a
\* reference to the entry of the map.
\* A find during a change may miss the entry.
Dispatch(c, req) ==
    LET n == req.service_full_name
        Error(code) == Respond(c, req.msg_id, <<>>, code) /\ UNCHANGED <<handler, computed>>
    IN  \/ /\ Len(n) = 1
           /\ Error(kFunctionNotFound) /\ UNCHANGED <<found, raced>>
        \/ /\ Len(n) > 1
           /\ raced' = IF changing THEN raced \cup {c} ELSE raced
           /\ \E service \in {Lookup(ServiceName(n))} \cup (IF changing THEN {None} ELSE {}) :
                /\ found' = [found EXCEPT ![c] = {service}]
                /\ \/ service = None /\ Error(kServiceNotFound)
                   \/ /\ service # None /\ MethodName(n) \notin Methods
                      /\ Error(kFunctionNotFound)
                   \/ /\ service # None /\ MethodName(n) \in Methods
                      /\ Error(kInvaliadRequest)
                   \/ /\ service # None /\ MethodName(n) \in Methods
                      /\ handler' = [handler EXCEPT ![c] =
                           [pc |-> "found", service |-> service, request |-> req,
                            dangling |-> FALSE]]
                      /\ UNCHANGED <<reply, computed>>

\* Mutant: a request that does not decode is dropped.
OnSessionReadDrops(c) ==
    /\ ~crashed /\ request[c] # NoMessage
    /\ request' = [request EXCEPT ![c] = NoMessage]
    /\ LET req == DecodeRequest(Read(request[c]))
       IN  \/ req = NoMessage /\ UNCHANGED <<reply, handler, found, raced, computed>>
           \/ req # NoMessage /\ req.msg_id = <<"HEARTBEAT">> /\ HeartBeat(c, req)
           \/ req # NoMessage /\ req.msg_id # <<"HEARTBEAT">> /\ Dispatch(c, req)
    /\ UNCHANGED <<registry, deferred, crashed, client, setFailed>>

\* PbSession::OnRequest and PbServer::OnSessionRead.
OnSessionRead(c) ==
    /\ ~crashed /\ request[c] # NoMessage
    /\ request' = [request EXCEPT ![c] = NoMessage]
    /\ LET req == DecodeRequest(Read(request[c]))
       IN  \/ req = NoMessage /\ Reject(c)
           \/ req # NoMessage /\ req.msg_id = <<"HEARTBEAT">> /\ HeartBeat(c, req)
           \/ req # NoMessage /\ req.msg_id # <<"HEARTBEAT">> /\ Dispatch(c, req)
    /\ UNCHANGED <<registry, deferred, crashed, client, setFailed>>

\* service_ptr->CallMethod: the reference still names an entry, of which the service
\* may have been replaced, or it dangles.
CallService(c) ==
    /\ ~crashed /\ handler[c].pc = "found"
    /\ LET service == IF handler[c].dangling THEN handler[c].service
                      ELSE Lookup(ServiceName(name[c]))
       IN  /\ handler' = [handler EXCEPT ![c].pc = "running", ![c].service = service]
           /\ found' = [found EXCEPT ![c] = {service}]
    /\ UNCHANGED <<registry, deferred, crashed, client, request, reply, raced, computed, setFailed>>

\* The service fails its controller, which is the dispatcher's own.
SetFailed(c) ==
    /\ ~crashed /\ handler[c].pc = "running" /\ c \notin setFailed
    /\ setFailed' = setFailed \cup {c}
    /\ UNCHANGED <<registry, handler, deferred, crashed, client, request, reply, found, raced,
                   computed>>

\* The service returns, after done->Run() or before it; Dispatch serializes the
\* response as it is then, or cannot.
ServiceReturns(c, size) ==
    /\ ~crashed /\ handler[c].pc = "running"
    /\ LET req == handler[c].request
           result == IF req.param = <<>> THEN <<>> ELSE Copies(size, req.param[1])
       IN  \/ /\ Respond(c, req.msg_id, result, kNoError)
              /\ computed' = [computed EXCEPT ![c] = result]
              /\ UNCHANGED deferred
           \/ /\ Respond(c, req.msg_id, <<>>, kNoError)
              /\ deferred' = deferred \cup {c}
              /\ UNCHANGED computed
          \/ /\ Respond(c, req.msg_id, <<>>, kUnknown)
              /\ UNCHANGED <<deferred, computed>>
    /\ handler' = [handler EXCEPT ![c] = Idle]
    /\ UNCHANGED <<registry, crashed, client, request, found, raced, setFailed>>

\* A pool thread, or a service, uses what was freed or is being changed, and the
\* process dies of it: the map and its entries, a service that lost its last reference,
\* or the done and response of a Dispatch that has returned.  The use that goes
\* unnoticed is no step.
UseFreed(c) ==
    /\ ~crashed
    /\ \/ handler[c].pc # "idle" /\ handler[c].dangling
       \/ changing /\ (handler[c].pc = "found" \/ request[c] # NoMessage)
       \/ c \in deferred
    /\ Crash
    /\ UNCHANGED <<registry, handler, deferred, client, found, raced, computed, setFailed>>

-----------------------------------------------------------------------------
\* The application's thread enters RegisterService or UnRegisterService, which take
\* no lock.
BeginChange ==
    /\ ~crashed /\ ~changing /\ changes < MaxChanges
    /\ changing' = TRUE /\ changes' = changes + 1
    /\ UNCHANGED <<service_map, bound, registered, handler, deferred, crashed, client, request,
                   reply, found, raced, computed, setFailed>>

\* The change of the map, which leaves the handlers in freed with an object that is gone.
Change(n, service, map, freed) ==
    /\ ~crashed /\ changing
    /\ changing' = FALSE
    /\ service_map' = map
    /\ bound' = [bound EXCEPT ![n] = service]
    /\ registered' = [c \in Calls |-> IF pc[c] = "waiting" /\ ServiceName(name[c]) = n
                                      THEN registered[c] \cup {service} ELSE registered[c]]
    /\ handler' = [c \in Calls |-> IF handler[c].pc \in freed /\ ServiceName(name[c]) = n
                                   THEN [handler[c] EXCEPT !.dangling = TRUE] ELSE handler[c]]
    /\ UNCHANGED <<changes, deferred, crashed, client, request, reply, found, raced, computed,
                   setFailed>>

\* The map's reference is the only one: a service that is replaced is destroyed.
RegisterService(n, service) ==
    Change(n, service,
           [m \in DOMAIN service_map \cup {n} |-> IF m = n THEN service ELSE service_map[m]],
           {"running"})

\* Mutant: the entry stays in the map.
UnRegisterKeeps(n) == Change(n, None, service_map, {})

UnRegisterService(n) ==
    Change(n, None, [m \in DOMAIN service_map \ {n} |-> service_map[m]], {"found", "running"})

-----------------------------------------------------------------------------
Names == {ServiceName(n) : n \in FullNames \cup {<<"PING">>}}

\* Those that a dispatch looks up.
Registrable == {ServiceName(n) : n \in {m \in FullNames : Len(m) > 1}}

\* The services registered before the server starts.
Init ==
    /\ \E names \in SUBSET Registrable : service_map \in [names -> Services]
    /\ changing = FALSE /\ changes = 0
    /\ handler = [c \in Calls |-> Idle] /\ deferred = {} /\ crashed = FALSE
    /\ pc = [c \in Calls |-> "idle"] /\ name = [c \in Calls |-> <<None>>]
    /\ request = [c \in Calls |-> NoMessage] /\ reply = [c \in Calls |-> NoMessage]
    /\ failed = [c \in Calls |-> FALSE] /\ response = [c \in Calls |-> <<>>]
    /\ bound = [n \in Names |-> Lookup(n)]
    /\ registered = [c \in Calls |-> {}] /\ found = [c \in Calls |-> {}] /\ raced = {}
    /\ computed = [c \in Calls |-> <<>>] /\ setFailed = {}

Handles(c) ==
    \/ OnSessionRead(c)
    \/ CallService(c)
    \/ \E size \in ResultSizes : ServiceReturns(c, size)

Next ==
    \/ \E c \in Calls :
        \/ \E n \in FullNames, size \in ParamSizes : CallMethod(c, n, size)
        \/ SendHeartBeat(c) \/ ReadResponse(c)
        \/ Handles(c) \/ SetFailed(c) \/ UseFreed(c)
    \/ BeginChange
    \/ \E n \in Registrable : UnRegisterService(n) \/ \E s \in Services : RegisterService(n, s)

\* The pool threads run and services return; a client reads what arrives.
Fairness == \A c \in Calls : WF_vars(Handles(c)) /\ WF_vars(ReadResponse(c))

Spec == Init /\ [][Next]_vars /\ Fairness

-----------------------------------------------------------------------------
\* Type invariant.
TypeOK ==
    /\ DOMAIN service_map \subseteq Names /\ \A n \in DOMAIN service_map : service_map[n] \in Services
    /\ changing \in BOOLEAN /\ changes \in 0 .. MaxChanges /\ crashed \in BOOLEAN
    /\ deferred \cup raced \cup setFailed \subseteq Calls
    /\ bound \in [Names -> Services \cup {None}]
    /\ pc \in [Calls -> {"idle", "waiting", "done"}] /\ failed \in [Calls -> BOOLEAN]
    /\ \A c \in Calls :
        /\ handler[c] = Idle \/ (handler[c].pc \in {"found", "running"}
                                 /\ handler[c].service \in Services /\ handler[c].dangling \in BOOLEAN)
        /\ request[c] # NoMessage \/ reply[c] # NoMessage => pc[c] = "waiting"
        /\ found[c] \cup registered[c] \subseteq Services \cup {None}
        /\ response[c] \in Seq(Char) /\ computed[c] \in Seq(Char)

\* A call is dispatched to a service that was registered under its name, or refused
\* because there was none, at some moment since it began: a service is not called any
\* more after it was unregistered or replaced, however the changes and the dispatch
\* interleave.  Nothing is promised when the lookup itself meets a change of the map.
LookupIsCurrent ==
    \A c \in Calls : pc[c] = "done" /\ c \notin raced => found[c] \subseteq registered[c]

\* A call that does not fail has the whole result that the service gave for this call,
\* or nothing when no service gave one in time: never a part of a result, whatever
\* the sizes of parameter and result.
ResultIsServices ==
    \A c \in Calls : pc[c] = "done" /\ ~failed[c] => response[c] = computed[c]

\* Every call returns: the server answers it or closes the connection.
CallReturns == \A c \in Calls : pc[c] = "waiting" ~> pc[c] = "done"

\* pb_rpc_controller.h line 69: SetFailed causes Failed() to return true on the client
\* side.
FailureIsReported == \A c \in Calls : pc[c] = "done" /\ c \in setFailed => failed[c]
=============================================================================

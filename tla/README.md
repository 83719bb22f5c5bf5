# A TLA+ verification project for jlrpc

jlrpc is a small RPC framework over asio and protobuf: a server with a pool of
`io_context` threads, sessions that read length-prefixed protobuf frames, an idle timer
made of hierarchical timer wheels, and a blocking client channel. This directory models
it in TLA+, checks it with TLC and proves with TLAPS, for every value of the constants, every
safety property that the checks establish on small instances. Paths below are relative to `src/src/`.

## 1. Inventory

| Component | State | Operations | Interacts with | What makes it correct |
|---|---|---|---|---|
| **Timer wheel** `net/timer_wheel.{h,cpp}`: `TimerEvent`, `TimerWheel`, `SessionTimerManager` | `wheels_` (three levels of slots, each a set of `shared_ptr<TimerEvent>`), `wheel_idx_`, `arrive_time` of each event, the 1 s steady timer | `PostTimerEvent`, `AddTimerEvent`, `RefreshTimeout`, `Tick` with its cascades | one wheel per pool thread; a session holds a `weak_ptr` to its event; the event's destructor closes the session | slots exist; an event that is refreshed never fires before its deadline; one that is not does fire, in time |
| **AsyncConnection** `net/tcp_connection.{h,cpp}` | `state_`, `is_reading_`, `read_buffer_`, `write_queue_` | `AsyncReadLen`, `AsyncReadUtil`, `AsyncWrite`, `DoWrite`, `OnRead`, `Close` | the socket (asio), the session's callbacks | one read at a time; exact frame lengths; messages in order, none lost; the close callback once |
| **Client** `SyncConnection`, `net/pb/pb_client`, `net/pb/pb_rpc_channel` | `state_`, `read_buffer_`, the call under way, the controller's `is_failed_` | `CallMethod` = `Connect`, `SendRequest`, `ReadResponse`, `done->Run()` | the server, over TCP; the controller and the closure | a call returns; a success has an answer, the call's own; no answer is used twice |
| **Server** `net/acceptor`, `net/pb/pb_server`, `net/pb/pb_session` | `session_map_` (main thread), `PbSession::state_`, `context_`, the session's references | accept, `OnSessionRead`, `OnSessionWrite`, `OnSessionClose`, the idle callback | main thread and pool threads, by posted lambdas | one reader per session; one answer per request; the map holds the live sessions; sessions are reclaimed |
| **Lifecycle** `net/tcp_server`, `net/io_context_pool` | `is_stop_`, threads, work guards, `ioct_map_` | `Start`, `Stop`, `Run`, signal handler | everything above | Stop ends every thread once; no self-join |
| **Controller and closure** `net/pb/pb_rpc_controller`, `pb_rpc_closure.h` | `is_failed_`, `is_finished_`, `cancel_state_` | `Reset`, `SetFailed`, `StartCancel`, `NotifyOnCancel` | the channel and the service | a failure is told to the caller; `done` outlives its use |
| **Coder** `net/pb/pb_coder`, `net/net_data` | none | encode and decode of requests and responses | session and client | decode after encode is the identity, through a reader with a limited buffer; what does not fit is rejected whole |
| **Dispatcher** `net/pb/pb_rpc_dispatcher` | `service_map_` | `RegisterService`, `UnRegisterService`, `Dispatch` | session threads, the application's thread | one response to every request; the service that is called is registered |
| **JSON-RPC** `net/json_rpc/*` (not in the build) | `session_map_` under a mutex, `JsonSession::state_`, the connection's read buffer | `CallMethod`, `OnRead`, `OnSessionRead`, `OnSessionClose`, the idle callback | main thread (accept, one timer wheel) and pool threads | a result is the call's own; the map holds the open sessions; requests are dispatched or the session closes |
| **Utilities**, demos, notes, generated code | | | | no property of the system |

The behaviours that are hard here, each listed at its line under `hazards` in
`PROJECT.json`:

* *Order across threads.* The main thread owns the map, each pool thread its sessions, and
  all coordination is by lambdas posted with a session id, a weak pointer or a raw `this`.
* *Lifetimes.* A session lives as long as the map, a posted lambda or a running handler
  holds it; the timer event lives as long as a wheel slot holds a copy of it.
* *Completions after a close,* and closes from the idle timer, a read error and a write
  error.
* *Time.* Refreshes leave stale copies in the wheels; ticks may be late; the insertion
  carries an interval through three wheels whose hands are anywhere.
* *Retries on the client.* A call that timed out leaves its response on the connection; one
  that did not fit the buffer leaves the rest of it.
* *Unlocked registration.* Services come and go on the application's thread while the pool
  threads look them up and call them.

## 2. Modules

| Module | Models | Composes |
|---|---|---|
| `TimerWheel` | `TimerWheel`, `TimerEvent`, `SessionTimerManager::PostTimerEvent` and the refresh in `PbServer::OnSessionRead` | implements `IdleTimer` |
| `IdleTimer` | abstract specification: an armed event expires, and not before its deadline | |
| `TimerWheelProofs` | theorems about `TimerWheel` | |
| `AsyncConnection` | one `AsyncConnection` with its handler queue, socket and peer | implements `OrderedWriter` |
| `AsyncConnectionProofs` | theorems about `AsyncConnection` | |
| `OrderedWriter` | abstract specification: messages reach the wire in order until the connection closes | |
| `RpcChannel` | `PbRpcChannel::CallMethod` over `PbClient` and `SyncConnection` | an in-order server, as `PbServer` is |
| `RpcChannelProofs` | theorems about `RpcChannel` | |
| `PbServer` | acceptor, server and sessions over the threads | what `OrderedWriter` and `IdleTimer` promise |
| `PbServerProofs` | theorems about `PbServer` | |
| `PbCoder` | the messages of `net_data`, their encoding, the limited read, the decoding | |
| `PbCoderProofs` | theorems about `PbCoder` | |
| `PbCall`, `MCPbCall` | calls and heartbeats from the client to the service and back, with `PbRpcDispatcher`, registrations and both controllers | extends `PbCoder`; what `RpcChannel` and `PbServer` say of a connection |
| `PbCallProofs` | theorems about `PbCall` | cites `PbCoderProofs` |
| `JsonRpc` | `JsonRpcChannel`, `JsonClient`, `JsonSession`, `JsonServer` | what `AsyncConnection` and `OrderedWriter` promise |
| `JsonRpcProofs` | theorems about `JsonRpc` | |
| `ServerLifecycle` | `Server::Start`/`Stop`, `IoContextPool::Run`/`Stop`, the destructors | pool threads with the sessions and wheels they own |
| `ServerLifecycleProofs` | theorems about `ServerLifecycle` | |

`PROJECT.json` maps every definition to its lines. Constants are given their values in the
`.cfg` files; only `PbCall`, whose names are sequences, needs an MC module.

### TimerWheel

| Model | Code |
|---|---|
| `wheels`, a set of `<<level, slot, event>>` | `wheels_`; a slot is a set of `shared_ptr`, and only which events a slot holds matters |
| `idx` | `wheel_idx_` |
| `left[e]` | `arrive_time - GetCurrTimeSec()`, 0 once it is not positive |
| `tickDue` | the 1 s timer of `Start` has expired; it is re-armed after every `Tick`, so at least a second passes between two ticks, and possibly more |
| `Place`, `Carry1..3` | the loop of `AddTimerEventUnSafe`, unrolled over the three wheels, with its fall-through: when the last carry is not 0, `wheel_idx` is still 0 and the slot is the one computed for the last wheel |
| `PostTimerEvent(e, t)` | constructor of `TimerEvent` (the cap) and `AddTimerEvent`, in the posted lambda |
| `RefreshTimeout(e, t)` | `RefreshTimeout` and `AddTimerEvent` of a locked `TimerEventWeak`; old copies stay |
| `Tick` = `Advance`, `Cascade` | the whole of `Tick`: advance wheel 0, drop its slot, and as long as the wheel is at its size reset it, advance the next one and re-insert its slot; the last wheel wraps |
| `due`, `misplaced` | history: the ticks an event may still take; events the loop had no wheel for |

A second of clock time is `ClockSecond`. Two reads of the clock in one handler are taken to
fall in the same second. A `PostTimerEvent` with no time left (a session timeout of 0)
fires inside the call and is not an action.

### AsyncConnection

`ready` is the io_context's FIFO: posted lambdas of `AsyncWrite` and completions of
reads and writes. `RunRead`, `RunPosted` and `RunWrote` are the handlers; `AsyncReadLen`,
`AsyncReadUtil`, `AsyncWrite` and `Close` are the calls of the session, possible between any
two handlers. The callbacks are those both servers install: an error closes the connection.
The stream is numbered by bytes, so that `read_buffer_` is the interval
`consumed + 1 .. fetched`. asio's operations (`Fetch`, `ReadCompletes`, `WriteCompletes`) and
the peer are external and modelled from how the code uses them: `transfer_exactly` never
asks for more than the missing bytes, an operation on a closed socket completes with an
error, a close aborts what is outstanding.

`AsyncReadLen` starts with the bytes that are already buffered, although the comment at
`net/tcp_connection.h:132` says that it does not read `read_buffer_`; the model follows the
code.

### RpcChannel

One action per point at which `CallMethod` can wait or fail. `pc` is where the calling thread
is. Responses are sequences of `<<call, k>>`, so a read that starts in the middle of a frame
is seen to be misaligned; what a misaligned length field holds is any of `GarbageLens`.
A response has `BodySize` bytes, or `LongSize` when its result is over the limit of the reader: the
read then stops at the full buffer without an error, what it got does not decode, and the rest stays
on the connection for the next call (`long` holds these calls). A write that times out may have sent a
part of the request (`whole = FALSE`); the server completes it with the bytes of the next one, answers
or closes (`ServeGarbled`). `ndebug` says whether `assert` is compiled in: `PbClient::SendRequest` asserts that the
write succeeded, and without asserts `CallMethod` goes on to read a response.
A call that has to connect may meet an exception (`ConnectThrows`): the address does not parse, or the
peer has reset the new connection when `ConnectionInfo` asks for its `remote_endpoint()`. `Connect` is
called outside the `try` of `CallMethod`, so the exception goes to the caller and `done` does not run;
`thrown` holds these calls, and the properties that speak of what a call reports speak of the other ones
(`Finished`). Heartbeats are in `PbCall`, `SyncReadUtil` and an explicit `Close` in `JsonRpc`:
`CallMethod` uses none of them.

### PbServer

`mainQ` and `poolQ[t]` are the FIFOs of the threads. A handler is an action: `EraseSession` on the main
thread and the accept callback, which is two, `OnAccept` and `AcceptReturns`, because the pool thread may
run what the callback posts while that still holds `session_ptr` (`accepting`): the first read, and even
the close and the erase it posts. Between its two posts the pool thread can run `Arm` only, which
touches nothing the callback uses, and the event is due `kDefaultSessionTimeout` ticks later; `Arm` (the lambda of `PostTimerEvent`), `Start`,
`ReadTotalLen`, `ReadRequest`, `ReadRejected`, `WriteFailed`, `Ignored`, `Fire` on a pool
thread. `Alive(s)` is what keeps a session's object: the map, its accept callback until that
returns, or the lambda of `PostTimerEvent` until it has run. A session whose id was taken (`homeless`)
has the last two only. The lambda of `Session::Start` captures a raw `this`; when
it runs after the destruction of its session the outcome is undefined, and the model lets it
have no effect (`dangling` records it) or end the process (`DanglingStartCrashes`). `Ids` are
the hashes of the 4-tuples: two connections that live at the same time differ, one that is
gone may be followed by one with the same id. The connection and the timer are used through
what `AsyncConnection` and `TimerWheel` are shown to promise: completions in order, one close,
an event that expires after the last refresh unless a refresh overtakes the tick.

### PbCoder and PbCall

`PbCoder` has the operators of the coder: a field is a sequence of `Char`, an `int32_t` keeps its value
and counts `IntSize` bytes. `Read` is what the reader on the other side delivers: the frame, or
the part of it that its buffer holds. The assumption `CoderAssumption` says what the code's constants
satisfy: both decode limits are the size of the buffer, 4 KiB.

`PbCall` follows each call on a connection of its own: several calls in a row, timeouts and lost
connections are in `RpcChannel`, the steps of a session in `PbServer`.

| Model | Code |
|---|---|
| `service_map` | `PbRpcDispatcher::service_map_`; the map's reference to a service is the only one, as in the demos |
| `BeginChange`, `RegisterService`, `UnRegisterService` | the two calls on the application's thread, from their first access to the map to their last; they take no lock |
| `OnSessionRead` = `Reject`, `HeartBeat` or `Dispatch` | `PbSession::OnRequest`, `PbServer::OnSessionRead` and `Dispatch` up to the call of the service, with every error it answers |
| `CallService`, `ServiceReturns` | `service_ptr->CallMethod`, and `Dispatch` after it; `service_ptr` is a reference into the map |
| `deferred` | calls whose service returned and kept `done` and the response: both are gone when `Dispatch` returns |
| `UseFreed` | a use of freed memory that ends the process; one that goes unnoticed has no effect |
| `bound`, `registered`, `found`, `computed` | history: what the application registered, what it had registered for a call while that was under way, what the dispatcher found, what the service computed |

A name is the sequence of its parts, because `GetServiceAndMethod` splits at the first point. A service
returns a result of any of `ResultSizes` made of the call's own parameter, so that a part of a result or
another call's result is told apart from the result. A lookup that meets a change of the map may miss
the entry (`raced`); nothing is promised of it.

### JsonRpc

The sources are not in the build: they use a `TcpConnection`, `ConnectionPtr` and
`SetTimeoutCallback` that no longer exist and do not compile. They are modelled over the current
`SyncConnection` and `AsyncConnection`, without these classes' asserts on the calling thread.

A message is a header piece, which ends in the delimiter and holds the length, and `size` pieces of
body. `Transfer` and `Receive` move any number of pieces that fit the buffer: `async_read_until` may
fetch more than it returns, `async_read` of a length never does, and a full buffer ends either one.
`HeaderEnd` is the end of the first header; whatever precedes it becomes the first line, which neither
`DecodeRequest` nor `DecodeResponse` looks at.

| Model | Code |
|---|---|
| `CallMethod`, `SendRequest`/`SendFails`, `ReadHeader`, `ReadBody`, `ReadFails` | `JsonRpcChannel::CallMethod` over `JsonClient`; its id `method_<g_id>` is written and never compared |
| `Accept`, `Emplace` | the connection callback, which calls `Start` (and so reads) before it stores the session, under a mutex |
| `TimerExpires` | the `TimerEvent` of the one wheel on the main thread closes the session, whatever its pool thread does |
| `OnHeader`, `OnBody`, `HandlerReturns`, `OnError`, `WriteFails` | `JsonSession::OnRead` and `JsonServer::OnSessionRead`/`OnSessionWrite` on the pool thread |
| `Close`, `OnSessionClose` | the close, then the erase by id, which may come before `Emplace` (`overtaken`) |

### ServerLifecycle

`mainPc` is where the thread that runs `Start` is, up to the destruction of the server by its owner
(`Destroy`: the members before `tcp_server_`; `DestroyServer`: `~Server`, which calls `Stop`). `stage`
and `next` are where each thread is in `Stop`; `CallStop`, `StopPool`, `JoinNext` and `StopReturns` are
its steps. `is_stop_` is a plain bool, so two calls of `Stop` interleave between any two of them.
`JoinNext` ends the process (`broken`) when `join` cannot succeed: no such thread, a thread that is
joined already or being joined, or the calling thread. A pool thread that returns from `run()`
destroys its thread-local wheel, whose events fire (`WorkerFinishes`). `Callers` are the threads
other than the main one that call `Stop`, each once: some other thread, or a pool thread out of a
handler. A second `Start` is not modelled.

## 3. Runs

| Run | Checks | Result and bounds |
|---|---|---|
| `wheel_small` | `TypeOK`, `SlotInRange`, `OnTime`, `NeverEarly`, `LostOnlyAcrossWrap` | passes; two events on wheels of 4, 2, 2 slots. A full turn is 16 seconds, so every pair of hands and every cascade, the double one included, happens; the timeouts 2, 5 and 20 start in wheel 0, in wheel 1 or 2, and at the cap |
| `wheel_refines` | `IdleSpec` | passes; one event, wheels of 6, 3, 2, timeouts that land in each wheel; safety and liveness of the abstract timer |
| `wheel_day` | `SupportsAllTimeouts` | violated, see the findings |
| `connection` | `TypeOK`, `CloseOnce`, `OneReader`, `BytesAccounted`, `NothingLost`, `LenReadsExact`, `WriterSpec` | passes; a 3-byte buffer, 5 bytes, read lengths 0, 2 and 5 (the last larger than the buffer), two delimiters, 3 writes (one on the wire, one queued, one posted), 3 handlers pending |
| `rpc_channel` | `TypeOK`, `AnswersInOrder`, `SuccessHasAnswer`, `OwnAnswerUntilTimeout`, `CallReturns` | passes; three calls, so that a call can time out, the next be answered with its response, and a third follow, each able to find the connect fail or throw as long as none has connected; the short responses can be cut at every place, the long ones are over the buffer |
| `rpc_stale` | `SuccessIsOwnAnswer` | violated, see the findings |
| `rpc_eof` | `EofIsDisconnected` | violated, see the findings |
| `pb_server` | `TypeOK`, `OneReader`, `StateMatchesRead`, `ContextSet`, `OneAnswerEach`, `EraseRemovesOwn`, `MapIsLive`, `DanglingStarts`, `SessionReclaimed` | passes; two sessions that may share an id, on two threads, two requests by one of them or one by each: the second can be accepted before, while and after the first is closed and erased, and read, fail and close before its accept callback returns |
| `lifecycle` | `TypeOK`, `JoinsFail`, `ServerOutlivesHandlers`, `Quiescent`, `StartEnds` | passes; two pool threads with a session each; Stop from a signal, the destructor, another thread and the second pool thread, and `main_ioct_` stopped by its owner, in every combination |
| `pb_call` | `TypeOK`, `LookupIsCurrent`, `ResultIsServices`, `CallReturns` | passes; two calls of a method, a missing method, a name without a point or a heartbeat; a limit of 8 with parameters and results of a size within it and one over it; two services, two changes of the map before, between and during the two dispatches |
| `call_failed` | `FailureIsReported` | violated, see the findings |
| `json` | `TypeOK`, `ResultIsOwn`, `MapIsLive`, `RequestsSettled` | passes; three calls over two connections, with the same id or two; bodies of 1 and 3 pieces and a buffer of 2, so that a body fits it, or is cut and its rest is met by the next call |

Bounds. `MaxBytes`, `MaxWrites` and `MaxReady` bound the environment and the length of the
FIFO in `AsyncConnection`, `MaxCalls` the number of calls in `RpcChannel`, `MaxRequests` the
frames per connection in `PbServer` and `MaxFrames` those of all connections (a second request of one
session shows what follows the first, a request of each how two sessions meet; both together add only
their products, four million states that were checked once for the safety properties), `MaxChanges` the registrations after the start of the server in
`PbCall`, `MaxCalls` and `MaxConns` the calls and connections in `JsonRpc`. Sessions are used once; a connection that reuses a
4-tuple is another member of `Sessions` with the same id. `TimerWheel` has no such bound: its
state is finite because times are relative. `CHECK_DEADLOCK FALSE` is in the cfgs of `RpcChannel`, `PbCall` and `JsonRpc` (they
stop after the last call, in a failed assert or after a crash), of `PbServer` (it stops when its clients
are gone, or when the process has ended) and of `ServerLifecycle` (it ends).

Fairness. In every module the threads run the handlers that are ready (`WF` of the handlers):
an `io_context` that runs does. Clocks go on (`ClockSecond`, and `Expire` in `PbServer`). In
`AsyncConnection` the network settles every write, with success or an error, as TCP does in
the end. Nothing is assumed of the peer: it may be silent for ever. In `RpcChannel` only the
calling thread is fair, which includes the expiry of the timeout of `Wait`; the server owes
nothing. In `PbCall` services return; the client's thread reads what has arrived, as the timeout of
`Wait` is not in this module. In `JsonRpc` the threads of the server are fair and method handlers return; the
client owes nothing. Without that assumption of the application a handler that never returns blocks
its pool thread, and every session of it, for ever.

What the passing runs show, beyond types:

* *Wheel.* No index ever leaves its wheel, even on the fall-through path. An event that found a
  wheel fires within one tick of its latest deadline (`OnTime`) and, although `Tick` drops
  copies without looking at `arrive_time`, never more than the second in progress early
  (`NeverEarly`): a stale copy is always followed by a later one. Only events
  whose deadline lies beyond the next wrap of the last wheel find no wheel.
* *Connection.* Between the post, the queue (which doubles as the flag that a write is under
  way) and the completion no message is lost, repeated or overtaken; `is_reading_` never
  sticks; a read by length that fits the buffer is exact whatever `AsyncReadUtil` left over.
* *Channel.* Even with misaligned reads no response is used twice or before its call; until
  a call times out, a success carries its own answer; `CallMethod` runs `done` unless the assert of
  `SendRequest` fails or `Connect` throws, which it does only before any call has connected.
* *Server.* Exactly one thing reads a live session; `context_` is set before it is cast; every
  dispatched request is answered once or its connection closes; the posted erase removes the
  session that closed although it names it by an id that may be reused, because `emplace` keeps
  the old session. There is one way round it: a session that `emplace` refused and that closes
  before its accept callback returns still posts its erase, which takes the stored session of that id
  out of the map. A `Start` on a destroyed session happens in three ways only: its id was taken,
  another's erase took it out of the map, or a write error closed it.
* *Calls.* Whatever the sizes, a call that does not fail has the whole result its service gave, or the
  empty result of an error; a request or result over the limit fails the call and nothing
  else. However registrations and dispatches interleave, the service that is called was registered
  under its name at some moment of the call. Every call is answered or its connection closes. On the way
  the model shows where the process may die (`UseFreed`): a service replaced or unregistered while
  it is looked up or called, and one that keeps `done` past its return.
* *JSON-RPC.* Results never come out of order, whatever timed out. A body that was given up or cut is
  skipped together with the next header; only a call that gave up before its header makes a later one
  return a stale result. A request that follows another one in the same bytes is dispatched all the
  same, although `ReadHttpHeader` runs twice. The map holds every open session that has its id alone;
  a session that closes before `Emplace` runs stays in the map for ever, closed.
* *Lifecycle.* The signal handler runs on the thread that runs `main_ioct_`, waits there for every
  pool thread, and `Start` still returns. After a signal every pool thread is joined once and has
  closed its armed sessions, and no handler outlives the server. The exceptions are named by the
  properties: a `Stop` on another thread lets `Start` return while it is still joining, as `is_stop_` is
  set last, so that the destructor stops and joins again; and when the owner stops
  `main_ioct_` itself the session map and the dispatcher go before the pool is joined.

## 4. Findings

* `wheel_day` (bug): `timer_wheel.h:19` promises timeouts of up to a day. A deadline beyond the
  next wrap of the hour wheel leaves the insertion loop without a wheel; the event lands in
  a slot of wheel 0 and the session is closed within a minute. Timeouts
  of hours are cut to seconds whenever they cross the wrap, once per 24 h of uptime; the 30 s refreshes of
  `PbServer` that cross it come a few seconds early or up to 24 s late.
* `rpc_stale` (bug): the channel keeps its connection after a timeout and does not compare
  message ids, so the next call succeeds with the previous call's answer.
* `rpc_eof` (divergence): after the end of the stream `IsConnected` stays true and the channel
  never reconnects.
* `call_failed` (divergence): `pb_rpc_controller.h:69` promises that a service's `SetFailed` causes
  `Failed()` on the client side. `Dispatch` gives the service a controller of its own and never looks
  at it.

Seen in the passing runs, and contradicted by no document: an exception of `Connect` leaves `CallMethod`
without `done` and without `SetFailed` (`CallReturns` names the case); a session whose id was taken is
destroyed as soon as nothing runs of it, or closes inside its accept callback and evicts the session
stored under its id (`EraseRemovesOwn`, `MapIsLive`, `DanglingStarts` name it); a client that resets
before its accept handler runs ends `main_ioct_.run()` with an exception (`AcceptThrows`).

Also read, without a run: the client never looks at the error code of a response, so a call of a
service that is not registered succeeds with an empty message; `GetServiceAndMethod` splits at the
first point, so a service in a proto package is never found; `NotifyOnCancel` keeps no callback and
`is_finished_` is not initialised; `JsonRpcChannel::CallMethod` ignores its timeout argument and its
`g_id` is a static without a lock; `AsyncConnection::OnConnect` tests `connect_callback_` and calls
`close_callback_`, but nothing in the library connects an `AsyncConnection`.

## 5. Proofs

`TimerWheelProofs` proves, for wheels of any size, any set of events and any timeouts:

* `TypeCorrect`: `Spec => []TypeOK`;
* `SlotsInRange`: `Spec => []SlotInRange`;
* `NeverTooEarly`: `Spec => NeverEarly`;
* `FiresOnTime` (`OnTime`): an event that kept its place fires within one tick of the latest
  timeout it was given;
* `LostAcrossWrap` (`LostOnlyAcrossWrap`): only a deadline beyond the next wrap of the last wheel
  can be lost;
* `ImplementsIdle`: the safety part of `IdleSpec`. Every step of the wheel is a step of `IdleTimer`
  or changes nothing of it.

They rest on `WheelAssumption`, declared in `TimerWheel` and evaluated by its runs: the sizes
are positive, `2 * S2 <= S0` (with 24 and 60 it holds; the slot that the fall-through puts into
wheel 0 is a quotient of at most `S2` plus a hand below `S2`), `MaxTimeout` is at most one turn
of all wheels, and refreshes use at most `MaxTimeout`.

*The invariant.* `TypeOK /\ SlotInRange` is not inductive and says nothing of time. `IInv` adds

* the hands are inside their wheels (`Hands`) and every copy is in a slot that exists, not
  the first slot of an upper wheel (`CopiesInPlace`);
* `Track`: every event that kept its place has a copy *ahead* of the hands (`Ahead`) which
  `Reaches` the event's deadline: the seconds the hands need to get to that copy, counted through the
  cascades, are at least `left[e]`, with a slack of 1 while the tick of the current second has been
  taken and 0 while it is due.

`Track` is what `NeverEarly` needs: `Tick` may drop stale copies at will as long as the copy that
tracks the deadline is somewhere further on. Insertion establishes it from the carries
(`PlaceInRange`, `InsertKeeps`); a tick preserves it in three stages that follow the code:
`AdvanceStage` for wheel 0, `CascadeStage` for each wheel that turns, and the wrap
(`TickStage`). The arithmetic (`DivZero`, `DivBelow`, `CarryBounds`) is stated once. `NextIInv`
puts the actions together and `Invariance` lifts it to `Spec => []IInv`.

`Timed` is the upper bound next to the lower bound of `Track`. While `Track` asks for one copy that is far
enough, `Timed` asks of *every* copy of an event that kept its place that the hands get to it within
`due` ticks (`InTime`): stale copies may be dropped at any time, but none may be further than the one
that counts. It also relates `left` to `due`, which `NeverEarly` and the refinement use: a tick that has
run out of `due` has run out of time too. Through a tick `OnCourse` says the same of every stage, with one
tick less, and that what the stage lost has its deadline beyond the wrap.

`AsyncConnectionProofs` proves, for any buffer, read lengths, delimiters and number of messages, from
`ConnAssumption` (the types of the constants; the buffer is not empty):

* `TypeCorrect`, `ClosedOnce` (`CloseOnce`), `SingleReader` (`OneReader`), `Accounted`
  (`BytesAccounted`), `NoneLost` (`NothingLost`);
* `ImplementsWriter`: the safety part of `WriterSpec`. Every step of the connection is a step of
  `OrderedWriter` or changes nothing of it;
* `ExactReads` (`LenReadsExact`), from `IInv` and `Partial`: while a read by length is under way the
  buffer holds no more than its length.

*The invariant.* These are not inductive, as most are about handlers that have not run yet. `IInv` has
four parts. `Typed` bounds what a completion claims by what is buffered. `Reads` says that
`is_reading_` stands for the read under way or its one completion in the FIFO. `Writes` says the same
of the write queue, which doubles as the flag of a write: on a live connection it is not empty exactly
when the write of its front is under way or the completion of that write has not run. `Ordered` numbers
the messages: the wire holds 1, 2, ..., the queue goes on from there (its front is still in the queue while
the completion that pops it has not run: `Popped`), and the posted lambdas hold the rest, in order
(`Posts`). Each action changes the FIFO by `Append` and `Tail` only, so lemmas say once what these do
to the handlers of a kind (`AppendKind`, `TailKind`, `FineSeq`, `PostsSeq`); `Closes` is the step of
everything that closes a live connection. That the delimiter `async_read_until` reports is in the
buffer needs the least element of a set of numbers (`Least`).

`RpcChannelProofs` proves, for any number of calls, any sizes and any contents of a garbled
length field, from `ChannelAssumption` (a normal response fits the buffer, a long one does not):

* `TypeCorrect`, `InOrder` (`AnswersInOrder`) and `Answered` (`SuccessHasAnswer`), from `IInv`. That
  results are in order is not inductive: it needs that everything which can still become a result is
  in order and later than every result so far. `StreamOrder` orders the bytes in the buffer and on
  the way, `RequestOrder` puts the unanswered requests after them, `NotAhead` bounds all of them by
  the call under way, `UsedUp` says that nothing of a call up to the last result is left, and `Sized` and
  `InCall` are what its steps need of frames and of control. Misaligned reads are covered: they take
  bytes from the front and only shorten what is left. A call that an exception of `Connect` left enters the
history with no result, so that the n-th entry stays the n-th call's.
* `OwnAnswer` (`OwnAnswerUntilTimeout`), from a second invariant on top of `IInv`: `Own`, which holds
  until a call gave up or a response was over the buffer, says that the connection holds no bytes and
  requests but the call's own, and `Aligned`, that the bytes not read yet start where the read
  under way expects them to.

`PbCoderProofs` proves for every message, of any length and over any characters, from `CoderAssumption`
(the two decode limits are the size of the receive buffer):

* `RequestRoundTrip`, `ResponseRoundTrip`: what fits is decoded to the message that was encoded;
* `LongRequestRejected`, `LongResponseRejected`: what does not fit is cut by the reader, and the cut
  frame is always rejected: no prefix of a message decodes to another message.

Their lemmas say what `Substr` cuts out of a concatenation of three fields (`Concat3`, `SubstrOf`).

`ServerLifecycleProofs` proves, for any size of the pool and any set of other threads that call
`Stop`, from `LifecycleAssumption` (the pool has a thread; the main thread is neither in it nor one of
the others): `TypeCorrect`, `JoinsSucceed` (`JoinsFail`), `HandlersFirst` (`ServerOutlivesHandlers`) and
`AllJoined` (`Quiescent`).

*The invariant.* `Joins` and `Sessions` hold in every run: what is joined has ended, a session leaves the map
only when it is closed. `Orderly` holds until `Stop` did something on another thread (`foreign`): the main
thread is the only one in `Stop` (`OneStopper`), the joined threads are exactly those before its loop index
(`JoinedSoFar`), and the main thread leaves `Run` only after `Stop` unless the owner stopped its io_context
(`StopFirst`). That a join fails, or a handler uses a destroyed server, is then ruled out in one of the two cases,
and the properties name the other: a foreign `Stop`, or an owner that stops `main_ioct_` itself.

`PbServerProofs` proves, for any finite set of sessions, any ids, pool threads and number of requests, from
`ServerAssumption`: `TypeCorrect`, `ReaderIsUnique` (`OneReader`), `StateFollowsRead`
(`StateMatchesRead`), `ContextFirst` (`ContextSet`), `AnswersOnce` (`OneAnswerEach`), `EraseIsOwn`
(`EraseRemovesOwn`), `MapCorrect` (`MapIsLive`) and `DanglingBounded` (`DanglingStarts`).

*The invariant.* It is `TypeOK`, `Placed` (a handler of a session is in the FIFO of the thread its connection
belongs to, and only there), `EraseRemovesOwn` and, for each session, `Session`: facts about the order of
its own handlers in its own FIFO. `ArmFirst`: the lambda of `PostTimerEvent` is before `Start` and before every
completion. `Reader`: one of `Start`, an outstanding read or its completion, never two. `Parsing`: what
`state_` says is what that read waits for. `TickLast`: a tick that fires is behind `Start`, so a
session is closed before its `Start` by a write error only. `Mapped`: a session posts its erase once, and until
that has run its id still names it, unless the session is `Lost`: refused by `emplace`, or evicted by the erase of
a lost one. So only a lost session removes another's entry, and the first to do so was refused; this is what makes
the erase safe as long as no id was taken. `Reader` and `Answered` speak of a session that somebody holds (`Alive`):
the accept callback is one of the holders, and its return can end the session's life at any point (`AliveKept`,
`AliveStays`), which is why at most one reader, but not exactly one, is proved of the others. `Counted` and
`Answered` balance frames, requests and responses. A step appends to one FIFO or takes its head, and concerns one
session: `AppendFacts`, `TailFacts` and `OtherFifo` say that the facts of the others do not change, and each action then
has a lemma about its own session (`...Step`).

`PbCallProofs` proves, for any calls, names, sizes, services and number of registrations, from
`CallAssumption` (the codes are characters, a name is not empty, the marks for "nothing sent" and "closed" are no
messages) and `CoderAssumption`: `TypeCorrect`, `LookupCurrent` (`LookupIsCurrent`) and `ResultWhole`
(`ResultIsServices`).

*The invariant.* `MapIsBound` keeps the map equal to the registrations that returned. `Call` follows one call: its
request, handler and reply exclude each other, the request is the encoding of what the caller passed
(`RequestOnItsWay`), the reference in `Dispatch` is to a service registered since the call began,
unless a change of the map raced with the lookup (`InDispatch`), and the reply is the encoding of the whole result (`ReplyOnItsWay`). That the client
decodes this result or fails is cited from `ResponseRoundTrip` and `LongResponseRejected` of `PbCoderProofs`: the
proof composes the coder with the dispatcher.

`JsonRpcProofs` proves, for any number of calls and connections, bodies of any sizes and a buffer of any size, from
`JsonAssumption` (the buffer and the bodies are not empty, and a body can be a single piece): `TypeCorrect`,
`MapCorrect` (`MapIsLive`) and `ResultsInOrder` (`ResultIsOwn`).

*The invariant.* `Typed` has the types in three parts. `Sessions` is what `MapIsLive` needs: what is in the map was accepted
and is under its own id (`StoredAsOwn`); an open session whose id nobody else has is there, unless the main thread is still in its
accept callback (`OpenStays`, `MainIsLive`); and a closed one that is still there has its erase to come or
overtook its emplace (`ClosedLeaves`). `Replies` is what `ResultIsOwn` needs: on the client's connection,
everything that can still become a result is one line of calls in increasing order up to the last one asked.
`OnLine` states it over the responses in the buffer and on the way (`Answers`), the running handler
and the requests on the way (`Requests`). Headers and bodies are pieces that a limited read may separate, so
the order is that of pieces (`Before`), and two bounds are kept below the line: what the next header must be after
(`Floors`: the results returned and, while no call gave up, the last one settled), and, while a body is read, what every piece must be
after (`BodyFloors`). Lemmas say what each move of a piece does to a line: `GoodLess`, `GoodHeader`,
`GoodBody`, `GoodSend`, `GoodDispatch`, `GoodRespond`, `GoodFails`.

Only model-checked: liveness (`SessionReclaimed`, `StartEnds`, `CallReturns`, `RequestsSettled` and the liveness
part of `IdleSpec` and `WriterSpec`), which rests on fairness and so on `ENABLED`, out of the prover's
reach. A property that a run finds violated has its counterexample from that run; nothing is proved of it.

## 6. Not modelled, and why

* `TimerWheel::Cancel` and `ResetTimerEvent`: the wheel is a private member of a manager that calls neither.
* `AsyncConnection::Connect`, `Cancel`: the library calls neither on an asynchronous connection. The
  overloads of `SyncConnection`'s reads and writes that throw: the library uses those with an `error_code`.
* Frames without a body (total length 4): `AsyncReadLen(0)` then calls `OnRead` inside
  `PbSession::OnRequest` before `state_` changes. The encoder never produces one.
* The lengths of a frame as 32-bit sums that wrap, and lengths that are negative: the encoders write neither.
* Cancellation (`StartCancel`, `NotifyOnCancel`, `IsFinished`): nothing in the library calls it, and no
  cancellation is sent to the server; there is no behaviour to model beyond three assignments.
* In JSON-RPC: changes of the registered methods (as in `PbCall`, and here too without a lock), requests
  that a write cuts short, method handlers that throw, `Start` and `Stop` (as in `ServerLifecycle`),
  and functions that nothing calls.
* Threads as memory: a data race is modelled where it has an outcome (`service_map_`, the raw `this` of
  `Start`, `is_stop_`), not in `ioct_map_`, which is written and never read.
* Logging, id generation, demos and generated code: no property depends on them. Protobuf and JSON parsing
  are external: a message "parses" or does not.

## 7. Plan

Done, in this order: timer wheel, connection, channel, server, lifecycle, coder, calls and dispatcher,
JSON-RPC; then the proofs of the safety properties of all of them, and of the safety of both
refinements. Worth doing next: cancellation, once the library uses it.

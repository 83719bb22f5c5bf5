----------------------------- MODULE TimerWheel -----------------------------
(***************************************************************************)
(* The hierarchical timer wheel of src/src/net/timer_wheel.{h,cpp}, one    *)
(* per pool thread, that closes idle sessions.                             *)
(*                                                                         *)
(* A TimerEvent is owned by the wheel slots that hold a copy of its        *)
(* shared_ptr, the session keeps a weak_ptr only: the event "fires" (its   *)
(* destructor runs the callback) when its last copy is dropped.  A refresh *)
(* changes arrive_time and inserts one more copy; old copies stay.         *)
(*                                                                         *)
(* wheels_ is a set of copies <<level, slot, event>>.  The clock is        *)
(* relative: left[e] is arrive_time - GetCurrTimeSec(), floored at 0, and  *)
(* tickDue says that the second has changed since the last Tick, which is  *)
(* what expires_after(1s), re-armed after every Tick, guarantees before    *)
(* the next one.  Ticks may be late by any amount, and two reads of the    *)
(* clock in one handler fall in the same second.                           *)
(***************************************************************************)
EXTENDS Integers, FiniteSets

CONSTANTS
    Events,           \* TimerEvent objects
    S0, S1, S2,       \* sizes of the three wheels: 60, 60 and 24
    MaxTimeout,       \* kMaxTimeoutSec
    SessionTimeouts,  \* values of ISession::timeout_
    RefreshTimeouts   \* arguments of RefreshTimeout: 30 in PbServer

ASSUME WheelAssumption ==
    /\ S0 \in Nat \ {0} /\ S1 \in Nat \ {0} /\ S2 \in Nat \ {0}
    /\ 2 * S2 <= S0
    /\ MaxTimeout \in Nat /\ MaxTimeout <= S0 * S1 * S2
    /\ SessionTimeouts \subseteq Nat
    /\ RefreshTimeouts \subseteq 0 .. MaxTimeout

VARIABLES
    wheels,    \* wheels_: the set of copies <<level, slot, event>>
    idx,       \* wheel_idx_
    left,      \* seconds until arrive_time, 0 once it is reached
    tickDue,   \* the timer_ of Start() has expired
    due,       \* history: the number of ticks within which the event must fire
    misplaced  \* history: pending events the insertion loop ran out of wheels for

vars == <<wheels, idx, left, tickDue, due, misplaced>>

Level == 0 .. 2

Size(i) == IF i = 0 THEN S0 ELSE IF i = 1 THEN S1 ELSE S2

Holders(w) == {c[3] : c \in w}

\* The events some slot still owns: exactly those a TimerEventWeak can lock.
Pending == Holders(wheels)

-----------------------------------------------------------------------------
(***************************************************************************)
(* AddTimerEventUnSafe: the interval is carried from wheel to wheel until  *)
(* it fits.  When it fits in none, the loop leaves wheel_idx 0 and the     *)
(* slot computed for the last wheel.                                       *)
(***************************************************************************)
Carry1(interval, ix) == (interval + ix[0]) \div S0
Carry2(interval, ix) == (Carry1(interval, ix) + ix[1]) \div S1
\* Mutant: the last wheel is taken to be one slot further than it is.
Carry3Ahead(interval, ix) == (Carry2(interval, ix) + ix[2] + 1) \div S2

Carry3(interval, ix) == (Carry2(interval, ix) + ix[2]) \div S2

FallsThrough(interval, ix) ==
    /\ Carry1(interval, ix) # 0
    /\ Carry2(interval, ix) # 0
    /\ Carry3(interval, ix) # 0

Place(interval, ix) ==
    IF Carry1(interval, ix) = 0 THEN <<0, interval + ix[0]>>
    ELSE IF Carry2(interval, ix) = 0 THEN <<1, Carry1(interval, ix) + ix[1]>>
    ELSE IF Carry3(interval, ix) = 0 THEN <<2, Carry2(interval, ix) + ix[2]>>
    ELSE <<0, Carry2(interval, ix) + ix[2]>>

\* The copies that AddTimerEventUnSafe inserts for the events of es.
Copies(es, lf, ix) ==
    {<<Place(lf[e], ix)[1], Place(lf[e], ix)[2], e>> : e \in {x \in es : lf[x] > 0}}

Lost(es, lf, ix) == {e \in es : lf[e] > 0 /\ FallsThrough(lf[e], ix)}

-----------------------------------------------------------------------------
\* Mutant: the timeout of the session is not capped.
Uncapped(t) == t

\* The body of the lambda of PostTimerEvent: TimerEvent's constructor, then
\* AddTimerEvent.  An event with no time left is dropped, and fires, at once.
Capped(t) == IF t < MaxTimeout THEN t ELSE MaxTimeout

PostTimerEvent(e, t) ==
    /\ e \notin Pending
    /\ Capped(t) > 0
    /\ left' = [left EXCEPT ![e] = Capped(t)]
    /\ wheels' = wheels \cup Copies({e}, left', idx)
    /\ misplaced' = misplaced \cup Lost({e}, left', idx)
    /\ due' = [due EXCEPT ![e] = Capped(t) + 1]
    /\ UNCHANGED <<idx, tickDue>>

\* Mutant: the deadline is refreshed and the event is not added again.
RefreshOnly(e, t) ==
    /\ e \in Pending
    /\ left' = [left EXCEPT ![e] = t]
    /\ due' = [due EXCEPT ![e] = IF @ > t + 1 THEN @ ELSE t + 1]
    /\ UNCHANGED <<wheels, idx, tickDue, misplaced>>

\* PbServer::OnSessionRead on an event its weak_ptr still locks: RefreshTimeout
\* and AddTimerEvent.  The copies of earlier insertions stay where they are.
RefreshTimeout(e, t) ==
    /\ e \in Pending
    /\ left' = [left EXCEPT ![e] = t]
    /\ wheels' = wheels \cup Copies({e}, left', idx)
    /\ misplaced' = misplaced \cup Lost({e}, left', idx)
    /\ due' = [due EXCEPT ![e] = IF @ > t + 1 THEN @ ELSE t + 1]
    /\ UNCHANGED <<idx, tickDue>>

Slot(w, i, s) == {c[3] : c \in {d \in w : d[1] = i /\ d[2] = s}}

Without(w, i, s) == {c \in w : ~(c[1] = i /\ c[2] = s)}

\* Mutant: the slot is looked up before the hand advances.
CascadeOldSlot(i, st) ==
    LET ix == [st.ix EXCEPT ![i - 1] = 0, ![i] = @ + 1]
        s  == st.ix[i] % Size(i)
        es == Slot(st.w, i, s)
    IN  [ix   |-> ix,
         w    |-> Without(st.w, i, s) \cup Copies(es, left, ix),
         lost |-> st.lost \cup Lost(es, left, ix)]

\* Mutant: the slot that goes down is not emptied.
CascadeKept(i, st) ==
    LET ix == [st.ix EXCEPT ![i - 1] = 0, ![i] = @ + 1]
        es == Slot(st.w, i, ix[i] % Size(i))
    IN  [ix   |-> ix,
         w    |-> st.w \cup Copies(es, left, ix),
         lost |-> st.lost \cup Lost(es, left, ix)]

\* Mutant: the lower wheel is not reset.
CascadeNoReset(i, st) ==
    LET ix == [st.ix EXCEPT ![i] = @ + 1]
        s  == ix[i] % Size(i)
        es == Slot(st.w, i, s)
    IN  [ix   |-> ix,
         w    |-> Without(st.w, i, s) \cup Copies(es, left, ix),
         lost |-> st.lost \cup Lost(es, left, ix)]

\* One round of the loop of Tick: wheel i - 1 is back at 0, wheel i advances
\* and the events of its new slot go down to the lower wheels.
Cascade(i, st) ==
    LET ix == [st.ix EXCEPT ![i - 1] = 0, ![i] = @ + 1]
        s  == ix[i] % Size(i)
        es == Slot(st.w, i, s)
    IN  [ix   |-> ix,
         w    |-> Without(st.w, i, s) \cup Copies(es, left, ix),
         lost |-> st.lost \cup Lost(es, left, ix)]

Advance ==
    LET ix == [idx EXCEPT ![0] = @ + 1]
    IN  [ix |-> ix, w |-> Without(wheels, 0, ix[0] % S0), lost |-> misplaced]

AfterTick ==
    LET st0 == Advance
        st1 == IF st0.ix[0] = S0 THEN Cascade(1, st0) ELSE st0
        st2 == IF st0.ix[0] = S0 /\ st1.ix[1] = S1 THEN Cascade(2, st1) ELSE st1
    IN  [st2 EXCEPT !.ix = IF st2.ix[2] = S2 THEN [st2.ix EXCEPT ![2] = 0] ELSE st2.ix]

\* The events that lose their last copy in this tick fire after the unlock.
Tick ==
    /\ tickDue
    /\ tickDue' = FALSE
    /\ idx' = AfterTick.ix
    /\ wheels' = AfterTick.w
    /\ misplaced' = AfterTick.lost \cap Holders(AfterTick.w)
    /\ left' = [e \in Events |-> IF e \in Holders(AfterTick.w) THEN left[e] ELSE 0]
    /\ due' = [e \in Events |->
                 IF e \in Holders(AfterTick.w) /\ due[e] > 0 THEN due[e] - 1 ELSE 0]

\* A second of the steady clock passes.
ClockSecond ==
    /\ tickDue' = TRUE
    /\ left' = [e \in Events |-> IF left[e] > 0 THEN left[e] - 1 ELSE 0]
    /\ UNCHANGED <<wheels, idx, due, misplaced>>

-----------------------------------------------------------------------------
Init ==
    /\ wheels = {}
    /\ idx = [i \in Level |-> 0]
    /\ left = [e \in Events |-> 0]
    /\ due = [e \in Events |-> 0]
    /\ tickDue = FALSE
    /\ misplaced = {}

Next ==
    \/ \E e \in Events, t \in SessionTimeouts : PostTimerEvent(e, t)
    \/ \E e \in Events, t \in RefreshTimeouts : RefreshTimeout(e, t)
    \/ Tick
    \/ ClockSecond

\* The io_context keeps running its ready handlers and the clock keeps going.
Fairness == WF_vars(Tick) /\ WF_vars(ClockSecond)

Spec == Init /\ [][Next]_vars /\ Fairness
-----------------------------------------------------------------------------
\* Type invariant.
TypeOK ==
    /\ wheels \subseteq Level \X Nat \X Events
    /\ idx \in [Level -> Nat]
    /\ left \in [Events -> 0 .. MaxTimeout]
    /\ tickDue \in BOOLEAN
    /\ due \in [Events -> 0 .. MaxTimeout + 1]
    /\ misplaced \subseteq Pending

\* No wheel is ever indexed past its end, by the insertion of an event or by
\* the hands of the wheels: an insertion that runs out of wheels (timer_wheel.cpp
\* line 93 with the slot of the last round) still lands inside wheel 0.
SlotInRange ==
    /\ \A i \in Level : idx[i] < Size(i)
    /\ \A c \in wheels : c[2] < Size(c[1])

\* A refresh never shortens the life of a session and neither does a cascade:
\* Tick drops the copies of a slot without looking at arrive_time, yet an event
\* that kept its place fires at most the second in progress early.
NeverEarly ==
    [][\A e \in Pending \ misplaced : e \notin Pending' => left[e] <= 1]_vars

\* An event that kept its place fires within one tick of the latest timeout it
\* was given, however its copies cascaded and however late the ticks are.
OnTime == \A e \in Pending \ misplaced : due[e] > 0

\* Ticks since the hands last stood at 0 together (a day of the real wheel).
Position == (idx[2] * S1 + idx[1]) * S0 + idx[0]

\* The insertion loop runs out of wheels for deadlines beyond the next wrap of the
\* last wheel only, whatever the sizes and the hands.
LostOnlyAcrossWrap ==
    [][\A e \in Events :
          (wheels' # wheels /\ e \in Pending' /\ (e \in misplaced' \ misplaced)) =>
              Position' + left'[e] >= S0 * S1 * S2]_vars

\* The wheel is an idle timer that loses the deadlines of misplaced events and
\* of no others; the liveness part says that every event fires in the end.
Idle == INSTANCE IdleTimer WITH
            Timeouts <- {Capped(t) : t \in SessionTimeouts} \cup RefreshTimeouts,
            armed <- Pending, loose <- misplaced

IdleSpec == Idle!Spec

\* timer_wheel.h line 19: timeouts of up to a day are supported.  An event never
\* fires more than the second in progress before its arrive_time.
SupportsAllTimeouts ==
    [][\A e \in Pending : e \notin Pending' => left[e] <= 1]_vars
=============================================================================

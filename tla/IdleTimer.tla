----------------------------- MODULE IdleTimer ------------------------------
(***************************************************************************)
(* What the server expects of the timers of src/src/net/timer_wheel.h: an  *)
(* armed event expires once, not more than the second in progress before   *)
(* its deadline, and does expire unless it is re-armed for ever.  The      *)
(* events of loose are exempt from the deadline: the wheel lost it.        *)
(***************************************************************************)
EXTENDS Integers

CONSTANTS Events, Timeouts

VARIABLES
    armed,  \* events that have not expired
    left,   \* seconds until the deadline
    loose   \* armed events whose deadline is not kept

vars == <<armed, left, loose>>

TypeOK ==
    /\ armed \subseteq Events
    /\ left \in [Events -> Nat]
    /\ loose \subseteq armed

Init == armed = {} /\ left = [e \in Events |-> 0] /\ loose = {}

Arm(e, t) ==
    /\ e \notin armed
    /\ armed' = armed \cup {e}
    /\ left' = [left EXCEPT ![e] = t]
    /\ loose' \in {loose, loose \cup {e}}

Rearm(e, t) ==
    /\ e \in armed
    /\ left' = [left EXCEPT ![e] = t]
    /\ loose' \in {loose, loose \cup {e}}
    /\ UNCHANGED armed

Expire(es) ==
    /\ \A e \in es : left[e] <= 1 \/ e \in loose
    /\ armed' = armed \ es
    /\ left' = [e \in Events |-> IF e \in es THEN 0 ELSE left[e]]
    /\ loose \ es \subseteq loose'
    /\ loose' \subseteq armed'

Second ==
    /\ left' = [e \in Events |-> IF left[e] > 0 THEN left[e] - 1 ELSE 0]
    /\ UNCHANGED <<armed, loose>>

Next ==
    \/ \E e \in Events, t \in Timeouts : Arm(e, t) \/ Rearm(e, t)
    \/ \E es \in SUBSET armed : Expire(es)
    \/ Second

RearmAny(e) == \E t \in Timeouts : Rearm(e, t)

\* An armed event expires unless it is re-armed again and again.
Expires(e) == []<><<RearmAny(e)>>_vars \/ (e \in armed ~> e \notin armed)

Spec == Init /\ [][Next]_vars /\ \A e \in Events : Expires(e)
=============================================================================

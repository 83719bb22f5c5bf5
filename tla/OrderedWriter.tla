--------------------------- MODULE OrderedWriter ----------------------------
(***************************************************************************)
(* What AsyncConnection::AsyncWrite promises its caller: the messages      *)
(* reach the socket in the order of the calls, each once, without gaps,    *)
(* until the connection is closed; and they do reach it unless it is.      *)
(***************************************************************************)
EXTENDS Naturals, Sequences

VARIABLES
    accepted,  \* number of calls so far; message i is that of the i-th call
    wire,      \* messages written to the socket, in order
    open

vars == <<accepted, wire, open>>

TypeOK == accepted \in Nat /\ wire \in Seq(Nat) /\ open \in BOOLEAN

Init == accepted = 0 /\ wire = <<>> /\ open = TRUE

Submit == accepted' = accepted + 1 /\ UNCHANGED <<wire, open>>

Deliver ==
    /\ open
    /\ Len(wire) < accepted
    /\ wire' = Append(wire, Len(wire) + 1)
    /\ UNCHANGED <<accepted, open>>

Shut == open /\ open' = FALSE /\ UNCHANGED <<accepted, wire>>

Next == Submit \/ Deliver \/ Shut

\* Whatever is accepted is written or the connection closes.
Fairness == WF_vars(Deliver)

Spec == Init /\ [][Next]_vars /\ Fairness
=============================================================================

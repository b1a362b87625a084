----------------------------- MODULE UdpService -----------------------------
(***************************************************************************)
(* What a UDP rule promises its visitors, whoever relays the packets: at   *)
(* most Limit visitors hold a place, and an answer goes to the visitor     *)
(* whose packet it answers, while that visitor holds a place.  How long a  *)
(* place is kept is not said here.                                         *)
(***************************************************************************)
EXTENDS Naturals, FiniteSets

CONSTANTS
    Visitors,
    Limit       \* max_conns of the rule; 0 is no limit

VARIABLES
    inside,     \* visitors that hold a place
    answered    \* <<asker, receiver>> of the answer a step has given out

Init == inside = {} /\ answered = {}

(* v's packet is taken; the same step may give up the places of others.    *)
Enter(v, gone) ==
    /\ v \notin inside
    /\ Limit > 0 => Cardinality(inside) < Limit
    /\ inside' = (inside \ gone) \cup {v}
    /\ answered' = {}

Leave(gone) ==
    /\ inside' = inside \ gone
    /\ answered' = {}

Answer(v) ==
    /\ v \in inside
    /\ answered' = {<<v, v>>}
    /\ UNCHANGED inside

Next ==
    \/ \E gone \in SUBSET Visitors : Leave(gone) \/ \E v \in Visitors : Enter(v, gone)
    \/ \E v \in Visitors : Answer(v)

Spec == Init /\ [][Next]_<<inside, answered>>
=============================================================================

---------------------------- MODULE OrderedList ----------------------------
(***************************************************************************)
(* What tinyos::list::List promises: a list kept sorted by contents, equal *)
(* contents in order of arrival, of which only a prefix can be woken and   *)
(* any member can leave.                                                   *)
(***************************************************************************)
EXTENDS Integers, SequencesExt

CONSTANTS Nodes, Keys

VARIABLES order,   \* the waiting nodes with their keys, smallest first
          woken    \* nodes woken, whose future has not resolved yet

vars == <<order, woken>>

Waiting == {e.node : e \in ToSet(order)}

Init == order = <<>> /\ woken = {}

\* A node arrives, after every node that is not larger.
Join(n, k) ==
    /\ n \notin Waiting \cup woken
    /\ order' = SelectSeq(order, LAMBDA e : e.key <= k) \o <<[node |-> n, key |-> k]>>
                  \o SelectSeq(order, LAMBDA e : e.key > k)
    /\ UNCHANGED woken

\* The first i nodes are woken.
Wake(i) ==
    /\ order' = SubSeq(order, i + 1, Len(order))
    /\ woken' = woken \cup {order[j].node : j \in 1 .. i}

\* A woken node's future resolves, or is dropped.
Leave(n) ==
    /\ n \in woken
    /\ woken' = woken \ {n}
    /\ UNCHANGED order

\* A waiting node is dropped.
Abandon(n) ==
    /\ n \in Waiting
    /\ order' = SelectSeq(order, LAMBDA e : e.node # n)
    /\ UNCHANGED woken

Next ==
    \/ \E n \in Nodes : (\E k \in Keys : Join(n, k)) \/ Leave(n) \/ Abandon(n)
    \/ \E i \in 1 .. Len(order) : Wake(i)

Spec == Init /\ [][Next]_vars
=============================================================================

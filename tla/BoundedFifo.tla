---------------------------- MODULE BoundedFifo ----------------------------
(***************************************************************************)
(* What a queue of tinyos::spsc promises to its two endpoints: a FIFO of   *)
(* at most Capacity elements, where a push appends, a pop delivers the     *)
(* oldest element, and dropping the queue discards what is left.           *)
(***************************************************************************)
EXTENDS Naturals, Sequences

CONSTANTS Values,    \* the elements moved through the queue
          Capacity   \* the number of elements that fit

VARIABLES queue,     \* elements pushed and not yet popped, oldest first
          out        \* the elements delivered by the last pop: <<>> or <<v>>

fifoVars == <<queue, out>>

FifoInit ==
    /\ queue = <<>>
    /\ out = <<>>

FifoPush(v) ==
    /\ Len(queue) < Capacity
    /\ queue' = Append(queue, v)
    /\ UNCHANGED out

FifoPop ==
    /\ queue # <<>>
    /\ out' = <<Head(queue)>>
    /\ queue' = Tail(queue)

FifoDrop ==
    /\ queue' = <<>>
    /\ UNCHANGED out

FifoNext ==
    \/ \E v \in Values : FifoPush(v)
    \/ FifoPop
    \/ FifoDrop

FifoSpec == FifoInit /\ [][FifoNext]_fifoVars
=============================================================================

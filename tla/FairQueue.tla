----------------------------- MODULE FairQueue -----------------------------
(***************************************************************************)
(* The fair queue of kernel/async_task.rs: one list of tasks per owner and *)
(* a queue of owners that says who is served next.  BTreeMap `map` is a    *)
(* total function here: an owner without an entry has the empty list,      *)
(* because the code creates an entry with its first task and removes it    *)
(* with its last.                                                          *)
(***************************************************************************)
EXTENDS Integers, Sequences, FiniteSets

CONSTANT
    Owners          \* virtual machines that issue tasks

None == << >>       \* no task; a task is a tuple

-----------------------------------------------------------------------------
(* The operations, on a queue q = [len, map, queue]. *)

new == [len |-> 0, map |-> [o \in Owners |-> << >>], queue |-> << >>]

is_empty(q) == \A o \in Owners : q.map[o] = << >>

push_back(q, o, t) ==
    [len   |-> q.len + 1,
     map   |-> [q.map EXCEPT ![o] = Append(@, t)],
     queue |-> IF q.map[o] = << >> THEN Append(q.queue, o) ELSE q.queue]

\* The task at the front, None when there is no owner or the owner has no task.
front(q) ==
    IF q.queue = << >> \/ q.map[Head(q.queue)] = << >>
    THEN None
    ELSE Head(q.map[Head(q.queue)])

PopStaysFront(q) ==
    LET o == Head(q.queue) IN
    IF front(q) = None THEN q ELSE
    [len   |-> q.len - 1,
     map   |-> [q.map EXCEPT ![o] = Tail(@)],
     queue |-> IF Len(q.map[o]) > 1 THEN q.queue ELSE Tail(q.queue)]

\* The queue after pop_front; what is popped is front(q).
pop_front(q) ==
    IF q.queue = << >> THEN q
    ELSE LET o    == Head(q.queue)
             rest == Tail(q.queue)
         IN  IF q.map[o] = << >>
             THEN [q EXCEPT !.queue = rest]
             ELSE [len   |-> q.len - 1,
                   map   |-> [q.map EXCEPT ![o] = Tail(@)],
                   queue |-> IF Len(q.map[o]) > 1 THEN Append(rest, o) ELSE rest]

\* extract_if takes the elements that satisfy the predicate OUT of the list, and
\* what it took out, as many copies of o as there were, becomes the queue.
remove(q, o) ==
    IF q.map[o] = << >> THEN q
    ELSE [len   |-> q.len - Len(q.map[o]),
          map   |-> [q.map EXCEPT ![o] = << >>],
          queue |-> [i \in 1..Cardinality({j \in DOMAIN q.queue : q.queue[j] = o}) |-> o]]
=============================================================================

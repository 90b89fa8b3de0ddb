--------------------------- MODULE FairQueueUse ---------------------------
(***************************************************************************)
(* The fair queue on its own: any order of pushes, pops and removals.      *)
(***************************************************************************)
EXTENDS FairQueue, SequencesExt, Functions

CONSTANTS
    MaxTasks,       \* bound: tasks pushed per owner
    WithRemove      \* BOOLEAN: an owner may be removed

VARIABLES
    q,          \* the FairQueue
    pushed,     \* how many tasks each owner has pushed: names the next one
    gone,       \* tasks that were removed
    passed      \* per owner: tasks of others popped while its front task waits

vars == <<q, pushed, gone, passed>>

Init ==
    /\ q = new
    /\ pushed = [o \in Owners |-> 0]
    /\ gone = {}
    /\ passed = [o \in Owners |-> 0]

Push(o) ==
    /\ pushed[o] < MaxTasks
    /\ pushed' = [pushed EXCEPT ![o] = @ + 1]
    /\ q' = push_back(q, o, <<o, pushed'[o]>>)
    /\ UNCHANGED <<gone, passed>>

Pop ==
    /\ q.queue # << >>
    /\ q' = pop_front(q)
    /\ passed' = [o \in Owners |->
                    IF front(q) = None                             THEN passed[o]
                    ELSE IF q.map[o] = << >> \/ o = front(q)[1] THEN 0
                    ELSE passed[o] + 1]
    /\ UNCHANGED <<pushed, gone>>

RemoveOwner(o) ==
    /\ WithRemove
    /\ gone' = gone \cup ToSet(q.map[o])
    /\ q' = remove(q, o)
    /\ passed' = [passed EXCEPT ![o] = 0]
    /\ UNCHANGED pushed

Next == \/ \E o \in Owners : Push(o) \/ RemoveOwner(o)
        \/ Pop

Spec == Init /\ [][Next]_vars

-----------------------------------------------------------------------------
(* Properties. *)

\* len() is the number of tasks held, through any mix of pushes, pops and removals.
LenMatches == q.len = Cardinality(UNION {ToSet(q.map[o]) : o \in Owners})

\* No task of a removed owner is ever in the queue again: pop_front cannot return it.
RemovedNeverServed == \A o \in Owners : ToSet(q.map[o]) \cap gone = {}

\* The queue of owners names each owner that has tasks, once, and nobody else:
\* front().unwrap() and pop_front() find a task whenever is_empty() is false.
QueueMatchesMap ==
    /\ IsInjective(q.queue)
    /\ ToSet(q.queue) = {o \in Owners : q.map[o] # << >>}

\* Removing an owner removes that owner and its tasks: an owner that still has tasks
\* is still in the queue of owners, and its tasks can be served.
OthersStayQueued == \A o \in Owners : q.map[o] # << >> => o \in ToSet(q.queue)

\* Fairness of service: while the front task of an owner waits, every other owner
\* is served at most once.
BoundedBypass == \A o \in Owners : passed[o] < Cardinality(Owners)

\* Tasks of one owner are popped in the order they were pushed.
FifoPerOwner ==
    \A o \in Owners : \A i, j \in DOMAIN q.map[o] : i < j => q.map[o][i][2] < q.map[o][j][2]

=============================================================================

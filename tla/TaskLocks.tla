------------------------------ MODULE TaskLocks ------------------------------
(***************************************************************************)
(* The order in which the functions of kernel/async_task.rs take the spin  *)
(* locks of their lists, on several cores.  A function is the sequence of  *)
(* its acquisitions ("+") and releases ("-"); what it does in between is   *)
(* in AsyncTasks.  Spin locks have no owner that could take one twice and  *)
(* no queue: a core that finds a lock taken tries again.                   *)
(***************************************************************************)
EXTENDS Integers, Sequences, FiniteSets

CONSTANTS
    Cores,          \* the physical cores
    WithRemoval     \* BOOLEAN: some core may remove a VM

Locks == {"ipi", "io", "status", "task", "info"}
Free  == "free"

Acq(l) == <<"+", l>>
Rel(l) == <<"-", l>>
Guarded(l) == <<Acq(l), Rel(l)>>

\* add_async_task: both lists, the status in between, then the wait for room.
AddTaskSwapped ==
    <<Acq("io"), Acq("ipi")>> \o Guarded("status") \o <<Rel("ipi"), Rel("io")>> \o Guarded("ipi")

AddTask ==
    <<Acq("ipi"), Acq("io")>> \o Guarded("status") \o <<Rel("ipi"), Rel("io")>> \o Guarded("ipi")

\* One round of async_task_exe that polls an IPI task or an I/O task, and the last
\* round, where the status is set under both lists.
ExePollIpi ==
    Guarded("status") \o <<Acq("ipi"), Acq("io"), Rel("ipi"), Rel("io")>> \o Guarded("task")
      \o Guarded("ipi") \o Guarded("status")

ExePollIo ==
    Guarded("status") \o <<Acq("ipi"), Acq("io"), Rel("ipi"), Rel("io")>> \o Guarded("task")
      \o Guarded("io") \o Guarded("status")

ExeEmpty ==
    Guarded("status") \o <<Acq("ipi"), Acq("io")>> \o Guarded("status") \o <<Rel("io"), Rel("ipi")>>

\* finish_async_task, and update_used_info after it.
FinishTask ==
    <<Acq("ipi"), Acq("io"), Rel("io"), Rel("ipi")>> \o Guarded("info")

\* set_front_io_task_state: the task's own lock under the list's.
SetFront == <<Acq("io")>> \o Guarded("task") \o <<Rel("io")>>

\* remove_vm_async_task; guards are dropped in the reverse of their declaration.
RemoveTasks == <<Acq("io"), Acq("ipi"), Rel("ipi"), Rel("io")>>

Functions == {AddTask, ExePollIpi, ExePollIo, ExeEmpty, FinishTask, SetFront}
                \cup (IF WithRemoval THEN {RemoveTasks} ELSE {})

VARIABLES
    holder,     \* who holds each lock
    todo        \* what is left of the function each core is in

lockVars == <<holder, todo>>

LocksInit ==
    /\ holder = [l \in Locks |-> Free]
    /\ todo = [c \in Cores |-> << >>]

Call(c) ==
    /\ todo[c] = << >>
    /\ \E f \in Functions : todo' = [todo EXCEPT ![c] = f]
    /\ UNCHANGED holder

Acquire(c) ==
    /\ todo[c] # << >> /\ Head(todo[c])[1] = "+"
    /\ holder[Head(todo[c])[2]] = Free
    /\ holder' = [holder EXCEPT ![Head(todo[c])[2]] = c]
    /\ todo' = [todo EXCEPT ![c] = Tail(@)]

Release(c) ==
    /\ todo[c] # << >> /\ Head(todo[c])[1] = "-"
    /\ holder' = [holder EXCEPT ![Head(todo[c])[2]] = Free]
    /\ todo' = [todo EXCEPT ![c] = Tail(@)]

LocksNext == \E c \in Cores : Call(c) \/ Acquire(c) \/ Release(c)

LocksSpec == LocksInit /\ [][LocksNext]_lockVars

-----------------------------------------------------------------------------
\* Core c spins on a lock that d holds.
WaitsFor(c, d) ==
    todo[c] # << >> /\ Head(todo[c])[1] = "+" /\ holder[Head(todo[c])[2]] = d

\* No circular wait: there is no set of cores each of which spins on a lock held
\* by another of them, or by a core that returned without releasing it: the
\* functions of async_task.rs other than remove_vm_async_task take the five locks in
\* one order.
NoCircularWait ==
    \A S \in (SUBSET Cores) \ {{}} :
        ~ \A c \in S : \E d \in S \cup {e \in Cores : todo[e] = << >>} : WaitsFor(c, d)
=============================================================================

----------------------------- MODULE MCExecutor -----------------------------
(***************************************************************************)
(* The two ways the documentation gives to use the executor: interrupts    *)
(* masked while tasks run (the parameters of the configuration), and       *)
(* handlers that preempt tasks which then wait with until_racy.  A         *)
(* behaviour uses one of them.                                             *)
(***************************************************************************)
EXTENDS Executor

CONSTANT NPreempted     \* tasks, when handlers preempt them

ASSUME MaskedAssumption == Policy = "Masked"
ASSUME PreemptedAssumption == NPreempted \in Nat \ {0}

VARIABLE preempting

Preempted == INSTANCE Executor WITH NTasks <- NPreempted, Policy <- "Filtered", Racy <- TRUE

MCInit ==
    \/ preempting = FALSE /\ Init
    \/ preempting = TRUE /\ Preempted!Init

MCNext ==
    /\ IF preempting THEN Preempted!Next ELSE Next
    /\ UNCHANGED preempting

MCFairness ==
    /\ WF_vars(~preempting /\ Run)
    /\ WF_vars(preempting /\ Preempted!Run)
    /\ \A i \in Irqs : WF_vars(~preempting /\ Isr(i))
    /\ \A i \in Preempted!Irqs : WF_vars(preempting /\ Preempted!Isr(i))
    /\ WF_vars(~preempting /\ Raise(Tick))
    /\ WF_vars(preempting /\ Preempted!Raise(Preempted!Tick))

MCSpec == MCInit /\ [][MCNext]_<<vars, preempting>> /\ MCFairness

\* No wake-up is lost: whenever the event of a suspended task is there, the
\* task is due to be polled (Notify::until with interrupts masked, until_racy
\* under preemption, and the capture of WAKE_BITS by the executor).
WakesReachTasks == IF preempting THEN Preempted!NoLostWake ELSE NoLostWake

\* With interrupts masked the processor is not put to sleep while a task is
\* due (the idle hook runs before they are let in).
AwakeWhileDue == ~preempting => NeverSleepsOnWork

Polled(task) == InTask /\ cur = task

Suspended(task, reasons) == task \in DOMAIN await /\ await[task] \in reasons /\ ~Polled(task)

\* As long as tasks keep returning to the executor, a task whose event was
\* provided gets to see it (under preemption the next SysTick ends a sleep of
\* the processor that began in between), and one that sleeps or yields is
\* polled again.
TasksServed ==
    Cooperative =>
        \A task \in 0 .. NTasks - 1 :
            /\ (Suspended(task, {"event"}) /\ event[task])
                 ~> ~(task \in DOMAIN event /\ event[task])
            /\ Suspended(task, {"timer", "yield"}) ~> Polled(task)
=============================================================================

----------------------------- MODULE Mediation -----------------------------
(***************************************************************************)
(* The mediated block device and the pieces it is built from, in the       *)
(* settings in which the code is meant to work: requests with handlers of  *)
(* one core at a time, requests with all VMs on one core, the fair queue   *)
(* alone with and without removal of owners, and the locks of the task     *)
(* lists alone.  A behaviour is one of these settings.                     *)
(***************************************************************************)
EXTENDS TaskLocks

CONSTANTS NVms, MaxReqs, Outstanding, Limit,      \* AsyncTasks
          NOwners, MaxTasks                       \* FairQueueUse

MediationConstants == {NVms, MaxReqs, NOwners, MaxTasks} \subseteq Nat

ASSUME MediationAssumption == MediationConstants

VARIABLES setting

VARIABLES avail, last, used, ipiList, ioList, info, state, status, msgs, svc,
          performed, pc, ctx                      \* AsyncTasks
VARIABLES q, pushed, gone, passed                 \* FairQueueUse

Serial == INSTANCE AsyncTasks WITH
              Owners <- 1..NVms, Placement <- "serial", Kinds <- {"rw", "id"}
Shared == INSTANCE AsyncTasks WITH
              Owners <- 1..NVms, Placement <- "shared", Kinds <- {"rw", "id", "bad"}
Queue == INSTANCE FairQueueUse WITH Owners <- 1..NOwners, WithRemove <- FALSE
Removals == INSTANCE FairQueueUse WITH Owners <- 1..NOwners, WithRemove <- TRUE

asyncVars == <<avail, last, used, ipiList, ioList, info, state, status, msgs,
               svc, performed, pc, ctx>>
queueVars == <<q, pushed, gone, passed>>
vars == <<setting, asyncVars, queueVars, lockVars>>

Init ==
    /\ setting \in {"serial", "shared", "queue", "removals", "locks"}
    /\ Serial!Init /\ Queue!Init /\ LocksInit

Next ==
    /\ UNCHANGED setting
    /\ CASE setting = "serial" -> Serial!Next
         [] setting = "shared" -> Shared!Next
         [] OTHER -> UNCHANGED asyncVars
    /\ CASE setting = "queue" -> Queue!Next
         [] setting = "removals" -> Removals!Next
         [] OTHER -> UNCHANGED queueVars
    /\ IF setting = "locks" THEN LocksNext ELSE UNCHANGED lockVars

\* The fairness of AsyncTasks, in the setting that promises progress.
Fairness ==
    /\ \A c \in 0..NVms :
         WF_asyncVars(/\ setting = "serial"
                      /\ \/ Serial!Step(c)
                         \/ c > 0 /\ (Serial!AddIpiTask(c) \/ Serial!WaitRoom(c)))
    /\ WF_asyncVars(setting = "serial" /\ \E c \in 0..NVms : Serial!TakeIpi(c))
    /\ WF_asyncVars(setting = "serial" /\ \E t \in Serial!Tasks : Serial!Complete(t))

Spec == Init /\ [][Next]_vars /\ Fairness

\* While the front task of an owner waits in a FairQueue, fewer tasks of others
\* are served than there are owners (pop_front moves the owner to the back), and
\* an owner's tasks are popped in the order they were pushed.  It rests on the
\* queue of owners naming exactly the owners that have tasks.  After
\* FairQueue::remove no task the owner had before is ever popped, and len is the
\* number of tasks still held.
BoundedBypass ==
    /\ setting = "queue" =>
         Queue!BoundedBypass /\ Queue!FifoPerOwner /\ Queue!QueueMatchesMap
    /\ Removals!RemovedNeverServed /\ Removals!LenMatches

\* No assertion of async_task.rs fails, in either placement.
NoPanic == Serial!NoPanic

\* What a guest finds in its used ring was performed, and in the order issued: the
\* report of the service VM, which names no task, finds the task it is about at the
\* front (mediated_blk_notify_handler), and finish_async_task the record of it.
NoFalseCompletion ==
    /\ Shared!NoFalseCompletion
    /\ Shared!InOrder
    /\ Shared!OneAtATime
    /\ Shared!InfoMatchesTasks

\* Every request inside the VM's region is eventually in the used ring.
RequestServed == setting = "serial" => Serial!RequestServed
=============================================================================

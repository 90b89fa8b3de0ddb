------------------------------- MODULE MCSpsc -------------------------------
(***************************************************************************)
(* Small instance of Spsc: two distinguishable elements and a storage of   *)
(* three slots (full at two).  Half of the behaviours interleave the two   *)
(* endpoints freely, as Preempt = "both" says; in the others both are      *)
(* tasks of one executor, which is where blocking operations are live.     *)
(***************************************************************************)
EXTENDS Spsc

VARIABLE tasksOnly

Tasks == INSTANCE Spsc WITH Preempt <- "none"

MCInit == Init /\ tasksOnly \in BOOLEAN

MCNext ==
    /\ \/ ~tasksOnly /\ Next
       \/ tasksOnly /\ Tasks!Next
    /\ UNCHANGED tasksOnly

MCSpec ==
    /\ MCInit /\ [][MCNext]_<<vars, tasksOnly>>
    /\ WF_vars(tasksOnly /\ Tasks!PusherStep)
    /\ WF_vars(tasksOnly /\ Tasks!PopperStep)
    /\ SF_vars(tasksOnly /\ Tasks!PusherRepoll)
    /\ SF_vars(tasksOnly /\ Tasks!PopperRepoll)

\* Between tasks, whoever is blocked in pop() or reserve() is polled again once
\* there is an element, or room, for it (Notify::until and the notify calls at
\* the end of Entry::push and try_pop).
NoTaskStranded == tasksOnly => PopperNotStranded /\ PusherNotStranded
=============================================================================

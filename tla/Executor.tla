------------------------------ MODULE Executor ------------------------------
(***************************************************************************)
(* tinyos::task: the executor loop, wakers coalesced into the bits of one  *)
(* word, Notify with its two ways of waiting, the timer list, and the      *)
(* interrupts that make it all go on. Tasks share one Notify; task t waits *)
(* for its own event, which interrupt t or another task provides.          *)
(* A handler runs to completion, so it is one step; between which steps of *)
(* the executor it may run is the Interrupts policy.                       *)
(***************************************************************************)
EXTENDS Integers, FiniteSets

CONSTANTS NTasks,
          WordBits,   \* usize::BITS, lowered so that wakers coalesce
          Policy,     \* "Masked" or "Filtered"
          Racy,       \* tasks wait with until_racy rather than until
          Systick,    \* the systick feature
          MaxSleep    \* ticks a task sleeps at most

ASSUME ExecutorAssumption ==
    /\ NTasks \in Nat \ {0} /\ WordBits \in Nat \ {0} /\ MaxSleep \in Nat
    /\ Policy \in {"Masked", "Filtered"}
    /\ Racy \in BOOLEAN /\ Systick \in BOOLEAN

Tasks == 0 .. NTasks - 1
Bits == 0 .. WordBits - 1
Tick == NTasks                      \* the SysTick interrupt
Irqs == Tasks \cup {Tick}

VARIABLES wakeBits,   \* WAKE_BITS
          mask,       \* the bits captured for this round
          pc,         \* where the executor or the polled task is
          cur,        \* index of the task being polled
          sub,        \* the mask of the Notify
          await,      \* what each task is suspended at
          event,      \* the conditions the tasks wait for
          timer,      \* ticks left of each sleeping task, -1 once woken
          irq         \* pending interrupts

vars == <<wakeBits, mask, pc, cur, sub, await, event, timer, irq>>

Labels == {"scan", "capture", "visit", "cond", "subscribe", "recheck", "work",
           "check", "idle", "wfi", "window"}

TypeOK ==
    /\ wakeBits \subseteq Bits /\ mask \subseteq Bits /\ sub \subseteq Bits
    /\ pc \in Labels
    /\ cur \in 0 .. NTasks
    /\ pc \in {"cond", "subscribe", "recheck", "work"} => cur \in Tasks
    /\ await \in [Tasks -> {"start", "event", "timer", "yield"}]
    /\ event \in [Tasks -> BOOLEAN]
    /\ timer \in [Tasks -> -1 .. MaxSleep]
    /\ irq \subseteq Irqs

\* wake_mask_for_index: tasks a word apart share a bit.
Bit(t) == t % WordBits

Init ==
    /\ wakeBits \in SUBSET Bits     \* initial_mask
    /\ mask = {} /\ sub = {} /\ irq = {}
    /\ pc = "scan" /\ cur = 0
    /\ await = [t \in Tasks |-> "start"]
    /\ event = [t \in Tasks |-> FALSE]
    /\ timer = [t \in Tasks |-> 0]

Wake(bits) == wakeBits' = wakeBits \cup bits
-----------------------------------------------------------------------------
\* Timers are woken when the executor scans the list; get_timer_list.
ScanTimersForgetsWake ==
    /\ pc = "scan"
    /\ LET due == IF Systick THEN {t \in Tasks : await[t] = "timer" /\ timer[t] = 0}
                             ELSE {}
       IN  /\ timer' = [t \in Tasks |-> IF t \in due THEN -1 ELSE timer[t]]
           /\ UNCHANGED wakeBits
    /\ pc' = "capture"
    /\ UNCHANGED <<mask, cur, sub, await, event, irq>>
ScanTimers ==
    /\ pc = "scan"
    /\ LET due == IF Systick THEN {t \in Tasks : await[t] = "timer" /\ timer[t] = 0}
                             ELSE {}
       IN  /\ timer' = [t \in Tasks |-> IF t \in due THEN -1 ELSE timer[t]]
           /\ Wake({Bit(t) : t \in due})
    /\ pc' = "capture"
    /\ UNCHANGED <<mask, cur, sub, await, event, irq>>

\* WAKE_BITS.swap(0)
CaptureNotAtomic ==
    /\ pc = "capture"
    /\ mask' \in {wakeBits, {}} /\ wakeBits' = {}
    /\ pc' = "visit" /\ cur' = 0
    /\ UNCHANGED <<sub, await, event, timer, irq>>
Capture ==
    /\ pc = "capture"
    /\ mask' = wakeBits /\ wakeBits' = {}
    /\ pc' = "visit" /\ cur' = 0
    /\ UNCHANGED <<sub, await, event, timer, irq>>

\* The for loop: the next task whose bit was captured is polled where it was
\* suspended. Polling one whose timer still runs does nothing.
PollsEvent == IF Racy THEN "subscribe" ELSE "cond"
Visit ==
    /\ pc = "visit"
    /\ LET polled == {t \in cur .. NTasks - 1 :
                        Bit(t) \in mask /\ ~(await[t] = "timer" /\ timer[t] # -1)}
       IN  IF polled = {}
           THEN cur' = 0 /\ mask' = {} /\ pc' = "check" /\ UNCHANGED timer
           ELSE /\ cur' \in polled /\ \A t \in polled : cur' <= t
                /\ pc' = IF await[cur'] = "event" THEN PollsEvent ELSE "work"
                /\ timer' = [timer EXCEPT ![cur'] = 0]
                /\ UNCHANGED mask
    /\ UNCHANGED <<wakeBits, sub, await, event, irq>>

Pending == pc' = "visit" /\ cur' = cur + 1

\* Until::poll, first half.
Cond ==
    /\ pc = "cond"
    /\ pc' = IF event[cur] THEN "work" ELSE "subscribe"
    /\ event' = [event EXCEPT ![cur] = FALSE]
    /\ UNCHANGED <<wakeBits, mask, cur, sub, await, timer, irq>>

\* Until::poll, second half; or UntilRacy::poll, first half.
Subscribe ==
    /\ pc = "subscribe"
    /\ sub' = sub \cup {Bit(cur)}
    /\ IF Racy THEN pc' = "recheck" /\ UNCHANGED cur ELSE Pending
    /\ UNCHANGED <<wakeBits, mask, await, event, timer, irq>>

\* UntilRacy::poll, second half.
Recheck ==
    /\ pc = "recheck"
    /\ IF event[cur] THEN pc' = "work" /\ UNCHANGED cur ELSE Pending
    /\ event' = [event EXCEPT ![cur] = FALSE]
    /\ UNCHANGED <<wakeBits, mask, sub, await, timer, irq>>

\* Notify::notify
NotifyAll == Wake(sub) /\ sub' = {}
-----------------------------------------------------------------------------
\* What a task may do when its await resolves, up to its next await.
AwaitEvent ==
    /\ pc = "work"
    /\ await' = [await EXCEPT ![cur] = "event"]
    /\ pc' = PollsEvent
    /\ UNCHANGED <<wakeBits, mask, cur, sub, event, timer, irq>>

\* It signals another task, and goes on.
Signal(u) ==
    /\ pc = "work" /\ u # cur
    /\ event' = [event EXCEPT ![u] = TRUE]
    /\ NotifyAll
    /\ await' = [await EXCEPT ![cur] = "event"]
    /\ pc' = PollsEvent
    /\ UNCHANGED <<mask, cur, timer, irq>>

\* sleep_for(d): the node joins the timer list.
Sleep(d) ==
    /\ pc = "work" /\ Systick
    /\ await' = [await EXCEPT ![cur] = "timer"]
    /\ timer' = [timer EXCEPT ![cur] = d]
    /\ Pending
    /\ UNCHANGED <<wakeBits, mask, sub, event, irq>>

\* yield_cpu().await
YieldCpu ==
    /\ pc = "work"
    /\ await' = [await EXCEPT ![cur] = "yield"]
    /\ Wake({Bit(cur)})
    /\ Pending
    /\ UNCHANGED <<mask, sub, event, timer, irq>>
-----------------------------------------------------------------------------
\* WAKE_BITS.load() == 0
CheckAlwaysIdle ==
    /\ pc = "check"
    /\ pc' = "idle"
    /\ UNCHANGED <<wakeBits, mask, cur, sub, await, event, timer, irq>>
Check ==
    /\ pc = "check"
    /\ pc' = IF wakeBits = {} THEN "idle" ELSE "window"
    /\ UNCHANGED <<wakeBits, mask, cur, sub, await, event, timer, irq>>

\* The idle hook executes WFI. A handler that ran before does not end it.
IdleHook ==
    /\ pc = "idle"
    /\ pc' = "wfi"
    /\ UNCHANGED <<wakeBits, mask, cur, sub, await, event, timer, irq>>

\* The processor sleeps: a pending interrupt ends it, masked or not.
WaitForInterrupt ==
    /\ pc = "wfi" /\ irq # {}
    /\ pc' = "window"
    /\ UNCHANGED <<wakeBits, mask, cur, sub, await, event, timer, irq>>

\* A device or the SysTick timer asks for an interrupt.
Raise(i) ==
    /\ i \notin irq
    /\ i = Tick => Systick
    /\ irq' = irq \cup {i}
    /\ UNCHANGED <<wakeBits, mask, pc, cur, sub, await, event, timer>>

\* The handlers of interrupts S: SysTick counts, the others notify.
Handlers(S) ==
    /\ irq' = irq \ S
    /\ timer' = [t \in Tasks |-> IF Tick \in S /\ timer[t] > 0 THEN timer[t] - 1 ELSE timer[t]]
    /\ event' = [t \in Tasks |-> event[t] \/ t \in S]
    /\ IF S \cap Tasks # {} THEN NotifyAll ELSE UNCHANGED <<wakeBits, sub>>

\* A handler that the policy lets preempt the executor and the tasks.
\* Returning from it ends a WFI.
Isr(i) ==
    /\ Policy = "Filtered" /\ i \in irq
    /\ Handlers({i})
    /\ pc' = IF pc = "wfi" THEN "window" ELSE pc
    /\ UNCHANGED <<mask, cur, await>>

\* Outside Interrupts::scope: the isb lets all that is pending run.
Window ==
    /\ pc = "window"
    /\ Handlers(irq)
    /\ pc' = "scan"
    /\ UNCHANGED <<mask, cur, await>>

Run ==
    \/ ScanTimers \/ Capture \/ Visit
    \/ Cond \/ Subscribe \/ Recheck
    \/ AwaitEvent \/ (\E u \in Tasks : Signal(u)) \/ (\E d \in 0 .. MaxSleep : Sleep(d)) \/ YieldCpu
    \/ Check \/ IdleHook \/ WaitForInterrupt \/ Window

Next == Run \/ \E i \in Irqs : Raise(i) \/ Isr(i)

Spec == Init /\ [][Next]_vars

\* The processor goes on, takes the interrupts that are pending, and SysTick
\* keeps ticking if it is there at all. Devices owe nothing.
Fairness ==
    /\ WF_vars(Run)
    /\ \A i \in Irqs : WF_vars(Isr(i))
    /\ WF_vars(Raise(Tick))

FairSpec == Spec /\ Fairness
-----------------------------------------------------------------------------
InTask == pc \in {"cond", "subscribe", "recheck", "work"}

\* Task t was captured in mask and is still to be polled in this round.
StillToPoll(t) == Bit(t) \in mask /\ (IF InTask THEN t > cur ELSE t >= cur)

\* Task t is suspended waiting for its event.
Parked(t) == await[t] = "event" /\ ~(InTask /\ cur = t)

\* Whenever the event of a suspended task is there, the task is due to be
\* polled: no event falls between the check of the condition and the
\* subscription, wherever the interrupt comes.
NoLostWake ==
    \A t \in Tasks : Parked(t) /\ event[t] => Bit(t) \in wakeBits \/ StillToPoll(t)

\* The processor is not put to sleep while a task is due: "If none of the
\* futures woke each other, we're relying on an interrupt to set bits".
NeverSleepsOnWork == pc = "wfi" /\ irq = {} => wakeBits = {}

\* Tasks are cooperative: they keep returning to the executor.
Cooperative == []<>(~InTask)
=============================================================================

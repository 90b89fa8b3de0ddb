--------------------------- MODULE ExecutorProofs ---------------------------
(***************************************************************************)
(* No wake-up is lost by the executor, for any number of tasks and any     *)
(* word width, if interrupts are masked or tasks wait with until_racy.     *)
(***************************************************************************)
EXTENDS Executor, TLAPS

\* A suspended task is reachable: its waker is with the Notify, or it is due.
Registered ==
    \A t \in Tasks : Parked(t) => Bit(t) \in sub \cup wakeBits \/ StillToPoll(t)

\* Nothing is captured outside the loop over the tasks.
MaskScope == pc # "visit" /\ ~InTask => mask = {}

\* What the two halves of Until::poll and UntilRacy::poll rely on.
HalfPolled ==
    /\ pc = "cond" => ~Racy
    /\ pc = "subscribe" /\ ~Racy => ~event[cur]
    /\ pc = "recheck" => Racy /\ Bit(cur) \in sub \cup wakeBits

IndInv == TypeOK /\ Registered /\ NoLostWake /\ MaskScope /\ HalfPolled

LEMMA BitType == \A t \in Tasks : Bit(t) \in Bits
BY ExecutorAssumption DEF Tasks, Bits, Bit

LEMMA InitInv == Init => IndInv
BY ExecutorAssumption
   DEF Init, IndInv, TypeOK, Registered, NoLostWake, MaskScope, HalfPolled, Parked, InTask,
       StillToPoll, Tasks, Labels

\* Type correctness does not depend on how tasks wait.
LEMMA TypeInv == TypeOK /\ [Next]_vars => TypeOK'
<1> SUFFICES ASSUME TypeOK, [Next]_vars PROVE TypeOK'
  OBVIOUS
<1> USE ExecutorAssumption, BitType DEF TypeOK, Labels
<1>t. \A t \in Tasks : t \in 0 .. NTasks /\ t + 1 \in 0 .. NTasks  BY DEF Tasks
<1>1. CASE ScanTimers  BY <1>1 DEF ScanTimers, Wake
<1>2. CASE Capture  BY <1>2 DEF Capture
<1>3. CASE Visit
  <2>1. cur' \in 0 .. NTasks /\ (pc' # "check" => cur' \in Tasks)
    BY <1>3 DEF Visit, Tasks
  <2>2. timer' \in [Tasks -> -1 .. MaxSleep]  BY <1>3 DEF Visit
  <2>3. QED BY <1>3, <2>1, <2>2 DEF Visit, PollsEvent
<1>4. CASE Cond  BY <1>4 DEF Cond
<1>5. CASE Subscribe  BY <1>5, <1>t DEF Subscribe, Pending
<1>6. CASE Recheck  BY <1>6, <1>t DEF Recheck, Pending
<1>7. CASE AwaitEvent  BY <1>7 DEF AwaitEvent, PollsEvent
<1>8. ASSUME NEW u \in Tasks, Signal(u) PROVE TypeOK'
  BY <1>8 DEF Signal, NotifyAll, Wake, PollsEvent
<1>9. ASSUME NEW d \in 0 .. MaxSleep, Sleep(d) PROVE TypeOK'
  BY <1>9, <1>t DEF Sleep, Pending
<1>10. CASE YieldCpu  BY <1>10, <1>t DEF YieldCpu, Pending, Wake
<1>11. CASE Check  BY <1>11 DEF Check
<1>12. CASE IdleHook  BY <1>12 DEF IdleHook
<1>13. CASE WaitForInterrupt  BY <1>13 DEF WaitForInterrupt
<1>14. ASSUME NEW S \in SUBSET Irqs, Handlers(S)
       PROVE  /\ wakeBits' \subseteq Bits /\ sub' \subseteq Bits /\ irq' \subseteq Irqs
              /\ event' \in [Tasks -> BOOLEAN] /\ timer' \in [Tasks -> -1 .. MaxSleep]
  <2>1. timer' \in [Tasks -> -1 .. MaxSleep]  BY <1>14 DEF Handlers
  <2>2. event' \in [Tasks -> BOOLEAN]
    BY <1>14, Zenon DEF Handlers
  <2>3. QED BY <1>14, <2>1, <2>2 DEF Handlers, NotifyAll, Wake
<1>15. CASE Window  BY <1>14, <1>15 DEF Window
<1>16. ASSUME NEW i \in Irqs, Isr(i) PROVE TypeOK'
  <2>1. {i} \in SUBSET Irqs  OBVIOUS
  <2>2. QED BY <1>14, <1>16, <2>1 DEF Isr
<1>17. ASSUME NEW i \in Irqs, Raise(i) PROVE TypeOK'
  BY <1>17 DEF Raise
<1>18. CASE UNCHANGED vars  BY <1>18 DEF vars
<1>19. QED
  BY <1>1, <1>2, <1>3, <1>4, <1>5, <1>6, <1>7, <1>8, <1>9, <1>10, <1>11, <1>12, <1>13,
     <1>15, <1>16, <1>17, <1>18 DEF Next, Run

\* The part of the invariant that is about wake-ups. A preempting handler is
\* harmless to it if the task subscribed first.
WakeInv == Registered /\ NoLostWake /\ MaskScope /\ HalfPolled

LEMMA WakeStep ==
  ASSUME Policy = "Masked" \/ Racy, TypeOK, WakeInv, [Next]_vars, TypeOK'
  PROVE  WakeInv'
<1> USE ExecutorAssumption
<1> USE DEF WakeInv, Registered, NoLostWake, MaskScope, HalfPolled, Parked, StillToPoll, InTask
<1>t. /\ cur \in Int /\ cur' \in Int /\ Tasks \subseteq Int
      /\ \A t, u \in Tasks : t > u <=> t >= u + 1
  BY DEF TypeOK, Tasks
<1>1. CASE ScanTimers  BY <1>1, <1>t DEF ScanTimers, Wake
<1>2. CASE Capture
  <2>1. \A t \in Tasks : t >= 0  BY DEF Tasks
  <2>2. QED BY <1>2, <2>1 DEF Capture
<1>3. CASE Visit
  <2> DEFINE polled == {t \in cur .. NTasks - 1 :
                          Bit(t) \in mask /\ ~(await[t] = "timer" /\ timer[t] # -1)}
  <2>1. \A t \in Tasks : Parked(t) /\ StillToPoll(t) => t \in polled
    BY <1>3, <1>t DEF Visit, Tasks
  <2>2. pc = "visit" /\ UNCHANGED <<wakeBits, sub, await, event>>  BY <1>3 DEF Visit
  <2>3. CASE polled = {}
    <3>1. cur' = 0 /\ mask' = {} /\ pc' = "check"  BY <1>3, <2>3 DEF Visit
    <3>2. QED BY <2>1, <2>2, <2>3, <3>1
  <2>4. CASE polled # {}
    <3>1. /\ cur' \in polled /\ \A t \in polled : cur' <= t
          /\ pc' = IF await[cur'] = "event" THEN PollsEvent ELSE "work"
          /\ mask' = mask
      BY <1>3, <2>4 DEF Visit
    <3>2. pc' \in {"cond", "subscribe", "work"} /\ (pc' = "cond" => ~Racy)
          /\ (pc' = "subscribe" => Racy)
      BY <3>1 DEF PollsEvent
    <3>3. \A t \in polled : t # cur' => t > cur'  BY <3>1, <1>t
    <3>4. QED BY <2>1, <2>2, <3>1, <3>2, <3>3
  <2>5. QED BY <2>3, <2>4
<1>4. CASE Cond  BY <1>4, <1>t DEF Cond, TypeOK
<1>5. CASE Subscribe
  <2>1. pc = "subscribe" /\ cur \in Tasks  BY <1>5 DEF Subscribe, TypeOK
  <2>2. CASE Racy
    BY <1>5, <1>t, <2>1, <2>2 DEF Subscribe
  <2>3. CASE ~Racy
    <3>1. /\ pc' = "visit" /\ cur' = cur + 1 /\ sub' = sub \cup {Bit(cur)} /\ ~event[cur]
          /\ UNCHANGED <<wakeBits, mask, await, event>>
      BY <1>5, <2>3 DEF Subscribe, Pending
    <3>2. QED BY <1>t, <2>1, <3>1
  <2>4. QED BY <2>2, <2>3
<1>6. CASE Recheck
  <2>1. pc = "recheck" /\ cur \in Tasks  BY <1>6 DEF Recheck, TypeOK
  <2>2. CASE event[cur]
    BY <1>6, <1>t, <2>1, <2>2 DEF Recheck, TypeOK
  <2>3. CASE ~event[cur]
    <3>1. /\ pc' = "visit" /\ cur' = cur + 1 /\ event' = event
          /\ UNCHANGED <<wakeBits, mask, sub, await>>
      BY <1>6, <2>3 DEF Recheck, Pending, TypeOK
    <3>2. QED BY <1>t, <2>1, <2>3, <3>1
  <2>4. QED BY <2>2, <2>3
<1>7. CASE AwaitEvent  BY <1>7, <1>t DEF AwaitEvent, PollsEvent, TypeOK
<1>8. ASSUME NEW u \in Tasks, Signal(u) PROVE WakeInv'
  <2>1. /\ cur \in Tasks /\ u # cur /\ cur' = cur /\ mask' = mask /\ pc = "work"
        /\ wakeBits' = wakeBits \cup sub /\ sub' = {}
        /\ pc' \in {"cond", "subscribe"} /\ (pc' = "cond" => ~Racy) /\ (pc' = "subscribe" => Racy)
        /\ \A t \in Tasks : t # cur => await'[t] = await[t]
    BY <1>8 DEF Signal, NotifyAll, Wake, PollsEvent, TypeOK
  <2>2. QED BY <1>t, <2>1
<1>9. ASSUME NEW d \in 0 .. MaxSleep, Sleep(d) PROVE WakeInv'
  <2>1. /\ cur \in Tasks /\ cur' = cur + 1 /\ pc = "work" /\ pc' = "visit"
        /\ UNCHANGED <<wakeBits, mask, sub, event>>
        /\ await'[cur] = "timer" /\ \A t \in Tasks : t # cur => await'[t] = await[t]
    BY <1>9 DEF Sleep, Pending, TypeOK
  <2>2. QED BY <1>t, <2>1
<1>10. CASE YieldCpu
  <2>1. /\ cur \in Tasks /\ cur' = cur + 1 /\ pc = "work" /\ pc' = "visit"
        /\ wakeBits \subseteq wakeBits' /\ UNCHANGED <<mask, sub, event>>
        /\ await'[cur] = "yield" /\ \A t \in Tasks : t # cur => await'[t] = await[t]
    BY <1>10 DEF YieldCpu, Pending, Wake, TypeOK
  <2>2. QED BY <1>t, <2>1
<1>11. CASE Check  BY <1>11, <1>t DEF Check
<1>12. CASE IdleHook  BY <1>12, <1>t DEF IdleHook
<1>13. CASE WaitForInterrupt  BY <1>13, <1>t DEF WaitForInterrupt
<1>14. ASSUME NEW S \in SUBSET Irqs, Handlers(S)
       PROVE  /\ wakeBits \subseteq wakeBits' /\ sub \cup wakeBits = sub' \cup wakeBits'
              /\ \A t \in Tasks : event'[t] # event[t] => sub \subseteq wakeBits'
  BY <1>14 DEF Handlers, NotifyAll, Wake, TypeOK
<1>15. CASE Window
  <2>1. /\ pc = "window" /\ pc' = "scan" /\ UNCHANGED <<mask, cur, await>>
        /\ wakeBits \subseteq wakeBits' /\ sub \cup wakeBits = sub' \cup wakeBits'
        /\ \A t \in Tasks : event'[t] # event[t] => sub \subseteq wakeBits'
    BY <1>14, <1>15 DEF Window, TypeOK
  <2>2. QED BY <1>t, <2>1
<1>16. ASSUME NEW i \in Irqs, Isr(i) PROVE WakeInv'
  <2>1. {i} \in SUBSET Irqs /\ Racy  BY <1>16 DEF Isr
  <2>2. /\ pc' = (IF pc = "wfi" THEN "window" ELSE pc) /\ UNCHANGED <<mask, cur, await>>
        /\ wakeBits \subseteq wakeBits' /\ sub \cup wakeBits = sub' \cup wakeBits'
        /\ \A t \in Tasks : event'[t] # event[t] => sub \subseteq wakeBits'
    BY <1>14, <1>16, <2>1 DEF Isr
  <2>3. QED BY <1>t, <2>1, <2>2
<1>17. ASSUME NEW i \in Irqs, Raise(i) PROVE WakeInv'
  BY <1>17, <1>t DEF Raise
<1>18. CASE UNCHANGED vars  BY <1>18, <1>t DEF vars
<1>19. QED
  BY <1>1, <1>2, <1>3, <1>4, <1>5, <1>6, <1>7, <1>8, <1>9, <1>10, <1>11, <1>12, <1>13,
     <1>15, <1>16, <1>17, <1>18 DEF Next, Run

LEMMA IndStep ==
  ASSUME Policy = "Masked" \/ Racy, IndInv, [Next]_vars
  PROVE  IndInv'
BY TypeInv, WakeStep DEF IndInv, WakeInv

\* With interrupts masked, or with until_racy, no event is lost: a suspended
\* task whose event has been provided is due to be polled.
THEOREM ExecutorNoLostWake ==
  ASSUME Policy = "Masked" \/ Racy
  PROVE  Spec => [](TypeOK /\ NoLostWake)
<1>1. Init => IndInv  BY InitInv
<1>2. IndInv /\ [Next]_vars => IndInv'  BY IndStep
<1>3. IndInv => TypeOK /\ NoLostWake  BY DEF IndInv
<1>4. QED BY <1>1, <1>2, <1>3, PTL DEF Spec

\* With interrupts masked nothing can set a wake bit between the test of
\* WAKE_BITS and the WFI.
IdleInv == TypeOK /\ (pc \in {"idle", "wfi"} => wakeBits = {})

LEMMA IdleStep ==
  ASSUME Policy = "Masked", IdleInv, [Next]_vars
  PROVE  IdleInv'
<1> SUFFICES pc' \in {"idle", "wfi"} => wakeBits' = {}
  BY TypeInv DEF IdleInv
<1> USE DEF IdleInv
<1>1. CASE Run
  BY <1>1 DEF Run, ScanTimers, Capture, Visit, Cond, Subscribe, Recheck, AwaitEvent, Signal,
     Sleep, YieldCpu, Check, IdleHook, WaitForInterrupt, Window, Pending, PollsEvent
<1>2. ASSUME NEW i \in Irqs, Raise(i) PROVE pc' \in {"idle", "wfi"} => wakeBits' = {}
  BY <1>2 DEF Raise
<1>3. ASSUME NEW i \in Irqs, Isr(i) PROVE FALSE
  BY <1>3 DEF Isr
<1>4. CASE UNCHANGED vars  BY <1>4 DEF vars
<1>5. QED BY <1>1, <1>2, <1>3, <1>4 DEF Next

\* With interrupts masked the processor never sleeps while a task is due.
THEOREM ExecutorNeverSleepsOnWork ==
  ASSUME Policy = "Masked"
  PROVE  Spec => []NeverSleepsOnWork
<1>1. Init => IdleInv  BY InitInv DEF IndInv, IdleInv, Init
<1>2. IdleInv /\ [Next]_vars => IdleInv'  BY IdleStep
<1>3. IdleInv => NeverSleepsOnWork  BY DEF IdleInv, NeverSleepsOnWork
<1>4. QED BY <1>1, <1>2, <1>3, PTL DEF Spec
=============================================================================

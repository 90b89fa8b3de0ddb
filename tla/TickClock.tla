----------------------------- MODULE TickClock -----------------------------
(***************************************************************************)
(* tinyos::time: a counter of two words, advanced by the SysTick handler   *)
(* and read by TickTime::now() with three loads, the handler preempting it *)
(* wherever it likes. The handler is the highest priority: once started it *)
(* finishes before the reader goes on.                                     *)
(***************************************************************************)
EXTENDS Integers

CONSTANTS Radix,      \* 2^32, lowered so that TICK wraps
          MaxTime     \* ticks modelled, the counter not wrapping as a whole

VARIABLES TICK, EPOCH,
          isr,        \* the handler is about to carry into EPOCH
          pc, e, t,   \* now(): where it is, and its locals
          ret,        \* what the last call of now() returned
          ticks,      \* ticks so far
          began       \* ticks when this call of now() began

vars == <<TICK, EPOCH, isr, pc, e, t, ret, ticks, began>>

Words == 0 .. Radix - 1

TypeOK ==
    /\ TICK \in Words /\ EPOCH \in Words /\ e \in Words /\ t \in Words
    /\ isr \in BOOLEAN
    /\ pc \in {"idle", "tick", "epoch", "again"}
    /\ ret \in 0 .. MaxTime /\ ticks \in 0 .. MaxTime /\ began \in 0 .. MaxTime

Init ==
    /\ TICK = 0 /\ EPOCH = 0 /\ isr = FALSE
    /\ pc = "idle" /\ e = 0 /\ t = 0
    /\ ret = 0 /\ ticks = 0 /\ began = 0

\* SysTick: TICK.fetch_add(1)
SysTick ==
    /\ ~isr /\ ticks < MaxTime
    /\ TICK' = (TICK + 1) % Radix
    /\ isr' = (TICK = Radix - 1)
    /\ ticks' = ticks + 1
    /\ UNCHANGED <<EPOCH, pc, e, t, ret, began>>

\* SysTick: EPOCH.fetch_add(1)
Carry ==
    /\ isr
    /\ EPOCH' = (EPOCH + 1) % Radix
    /\ isr' = FALSE
    /\ UNCHANGED <<TICK, pc, e, t, ret, ticks, began>>

\* now(): the first load of EPOCH
LoadEpoch ==
    /\ pc = "idle" /\ ~isr
    /\ e' = EPOCH
    /\ pc' = "tick"
    /\ began' = ticks
    /\ UNCHANGED <<TICK, EPOCH, isr, t, ret, ticks>>

LoadTick ==
    /\ pc = "tick" /\ ~isr
    /\ t' = TICK
    /\ pc' = "epoch"
    /\ UNCHANGED <<TICK, EPOCH, isr, e, ret, ticks, began>>

\* The second load of EPOCH, and the answer if the two agree; otherwise the
\* loop starts again with its first load.
ReloadIgnored ==
    /\ pc = "epoch" /\ ~isr
    /\ ret' = e * Radix + t /\ pc' = "idle" /\ UNCHANGED e
    /\ UNCHANGED <<TICK, EPOCH, isr, t, ticks, began>>
ReloadEpoch ==
    /\ pc = "epoch" /\ ~isr
    /\ IF EPOCH = e
       THEN ret' = e * Radix + t /\ pc' = "idle" /\ UNCHANGED e
       ELSE pc' = "again" /\ UNCHANGED <<ret, e>>
    /\ UNCHANGED <<TICK, EPOCH, isr, t, ticks, began>>

Again ==
    /\ pc = "again" /\ ~isr
    /\ e' = EPOCH
    /\ pc' = "tick"
    /\ UNCHANGED <<TICK, EPOCH, isr, t, ret, ticks, began>>

Next == SysTick \/ Carry \/ LoadEpoch \/ LoadTick \/ ReloadEpoch \/ Again

Spec == Init /\ [][Next]_vars
-----------------------------------------------------------------------------
\* now() answers with a time at which it was running: not one from before the
\* call, and not one that is still to come, however many ticks and carries
\* fall between its loads.
NowIsNow ==
    [][pc = "epoch" /\ pc' = "idle" => began <= ret' /\ ret' <= ticks]_vars

\* Time as now() tells it never runs backwards.
Monotonic == [][ret <= ret']_vars
=============================================================================

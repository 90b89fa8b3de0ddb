------------------------------- MODULE Timers -------------------------------
(***************************************************************************)
(* Sleeping, deadlines and periodic gates of tinyos::time, as the executor *)
(* serves them: it reads the clock and wakes what is due once per round,   *)
(* then polls tasks. Ticks are counted between rounds, or also during them *)
(* when the SysTick handler may preempt. A task is polled for many other   *)
(* reasons (coalesced wakers), so any poll may come in any round.          *)
(***************************************************************************)
EXTENDS Integers, FiniteSets

CONSTANTS Tasks,
          Policy,     \* "Masked" or "Filtered"
          Interval,   \* of every PeriodicGate
          MaxDelay,   \* longest relative deadline
          MaxTime     \* ticks modelled

VARIABLES now,        \* the tick counter
          phase,      \* "window" between rounds, "scan", then "polls"
          job,        \* what each task awaits
          limiter,    \* its sleep_until future
          deadline,
          outcome,    \* how its last await ended
          gate        \* next and the number of releases of its PeriodicGate

vars == <<now, phase, job, limiter, deadline, outcome, gate>>

Jobs == {"none", "sleep", "limited", "gate"}
Gate == [next : 0 .. MaxTime + Interval, start : 0 .. MaxTime, releases : 0 .. MaxTime + 1]

TypeOK ==
    /\ now \in 0 .. MaxTime
    /\ phase \in {"window", "scan", "polls"}
    /\ job \in [Tasks -> Jobs]
    /\ limiter \in [Tasks -> {"fresh", "listed", "fired"}]
    /\ deadline \in [Tasks -> 0 .. MaxTime + MaxDelay + Interval]
    /\ outcome \in [Tasks -> {"none", "slept", "Some", "None"}]
    /\ gate \in [Tasks -> Gate]

Init ==
    /\ now = 0 /\ phase = "scan"
    /\ job = [t \in Tasks |-> "none"]
    /\ limiter = [t \in Tasks |-> "fresh"]
    /\ deadline = [t \in Tasks |-> 0]
    /\ outcome = [t \in Tasks |-> "none"]
    /\ gate = [t \in Tasks |-> [next |-> 0, start |-> 0, releases |-> 0]]

\* SysTick
Tick ==
    /\ now < MaxTime
    /\ Policy = "Masked" => phase = "window"
    /\ now' = now + 1
    /\ UNCHANGED <<phase, job, limiter, deadline, outcome, gate>>

\* tl.wake_while(|&t| t <= now)
Due(t) == limiter[t] = "listed" /\ deadline[t] <= now
Scan ==
    /\ phase = "scan"
    /\ limiter' = [t \in Tasks |-> IF Due(t) THEN "fired" ELSE limiter[t]]
    /\ phase' = "polls"
    /\ UNCHANGED <<now, job, deadline, outcome, gate>>

\* The round ends; the next begins.
EndRound ==
    /\ phase = "polls" /\ phase' = "window"
    /\ UNCHANGED <<now, job, limiter, deadline, outcome, gate>>
BeginRound ==
    /\ phase = "window" /\ phase' = "scan"
    /\ UNCHANGED <<now, job, limiter, deadline, outcome, gate>>

\* A future is created: sleep_for, with_timeout, or PeriodicGate::next_time.
Create(t, j, at) ==
    /\ phase = "polls" /\ job[t] = "none"
    /\ job' = [job EXCEPT ![t] = j]
    /\ limiter' = [limiter EXCEPT ![t] = "fresh"]
    /\ deadline' = [deadline EXCEPT ![t] = at]
    /\ outcome' = [outcome EXCEPT ![t] = "none"]
    /\ UNCHANGED <<now, phase, gate>>

SleepFor(t, d) == Create(t, "sleep", now + d)
WithTimeout(t, d) == Create(t, "limited", now + d)
NextTime(t) == Create(t, "gate", gate[t].next)

\* PeriodicGate::new_shift
NewGate(t, d) ==
    /\ phase = "polls" /\ job[t] = "none" /\ now + d <= MaxTime
    /\ gate' = [gate EXCEPT ![t] = [next |-> now + d, start |-> now + d, releases |-> 0]]
    /\ UNCHANGED <<now, phase, job, limiter, deadline, outcome>>

\* sleep_until: the clock is read at the first poll only; after that the node
\* in the timer list decides.
LimiterReady(t) ==
    \/ limiter[t] = "fresh" /\ now >= deadline[t]
    \/ limiter[t] = "fired"
JoinTimerList(t) == limiter' = [limiter EXCEPT ![t] = "listed"]

Resolve(t, how) ==
    /\ job' = [job EXCEPT ![t] = "none"]
    /\ limiter' = [limiter EXCEPT ![t] = "fresh"]
    /\ outcome' = [outcome EXCEPT ![t] = how]
    /\ UNCHANGED <<now, phase, deadline>>

\* sleep_until().await
PollSleep(t) ==
    /\ phase = "polls" /\ job[t] = "sleep"
    /\ IF LimiterReady(t)
       THEN Resolve(t, "slept") /\ UNCHANGED gate
       ELSE JoinTimerList(t) /\ UNCHANGED <<now, phase, job, deadline, outcome, gate>>

\* TimeLimited::poll, the wrapped future resolving or not.
PollLimited(t) ==
    /\ phase = "polls" /\ job[t] = "limited"
    /\ \/ LimiterReady(t) /\ Resolve(t, "None") /\ UNCHANGED gate
       \/ ~LimiterReady(t) /\ Resolve(t, "Some") /\ UNCHANGED gate
       \/ /\ ~LimiterReady(t) /\ JoinTimerList(t)
          /\ UNCHANGED <<now, phase, job, deadline, outcome, gate>>

\* PeriodicGate::next_time().await
PollGate(t) ==
    /\ phase = "polls" /\ job[t] = "gate"
    /\ IF LimiterReady(t)
       THEN /\ Resolve(t, "slept")
            /\ gate' = [gate EXCEPT ![t] = [next |-> @.next + Interval, start |-> @.start,
                                           releases |-> @.releases + 1]]
       ELSE JoinTimerList(t) /\ UNCHANGED <<now, phase, job, deadline, outcome, gate>>

\* The future is dropped; its node leaves the list.
Cancel(t) ==
    /\ phase = "polls" /\ job[t] # "none"
    /\ Resolve(t, "none") /\ UNCHANGED gate

Next ==
    \/ Tick \/ Scan \/ EndRound \/ BeginRound
    \/ \E t \in Tasks :
         \/ \E d \in 0 .. MaxDelay : SleepFor(t, d) \/ WithTimeout(t, d) \/ NewGate(t, d)
         \/ NextTime(t)
         \/ PollSleep(t) \/ PollLimited(t) \/ PollGate(t) \/ Cancel(t)

Spec == Init /\ [][Next]_vars

-----------------------------------------------------------------------------
\* with_deadline: "If poll is called at or after `deadline`, the future
\* resolves to `None`": never to what the wrapped future produced.
DeadlineHolds ==
    [][\A k \in Tasks :
         outcome[k] # "Some" /\ outcome'[k] = "Some" => now < deadline[k]]_vars

\* No await ends before its time: neither a sleep, nor a timeout, nor a gate.
NotEarly ==
    [][\A k \in Tasks :
         outcome'[k] \in {"slept", "None"} /\ outcome[k] = "none" => now >= deadline[k]]_vars

\* A PeriodicGate does not drift, whenever its futures are polled or dropped:
\* release number n came no earlier than n - 1 intervals after the start, and
\* the next is due exactly n intervals after it.
GateKeepsPhase ==
    \A t \in Tasks :
        LET g == gate[t] IN
        /\ g.next = g.start + g.releases * Interval
        /\ g.releases > 0 => now >= g.start + (g.releases - 1) * Interval

=============================================================================

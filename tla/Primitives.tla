---------------------------- MODULE Primitives ----------------------------
(***************************************************************************)
(* The primitives of the tinyos library side by side: its three locks, the *)
(* intrusive list they wait in, the tick clock, the timers and the watch.  *)
(* They share no state, so interleaving them would show nothing: each      *)
(* behaviour exercises one of them, in use, and leaves the rest as they    *)
(* were created.                                                           *)
(***************************************************************************)
EXTENDS WaitList

CONSTANTS Nodes, Keys, None,                        \* IntrusiveList
          Radix, ClockTime,                         \* TickClock
          Sleepers, Interval, MaxDelay, MaxTime,    \* Timers
          Receivers, Versions                       \* Watch

\* The counter of the clock does not wrap as a whole.
ASSUME TimeAssumption ==
    /\ Radix \in Nat \ {0} /\ ClockTime \in Nat /\ ClockTime < Radix * Radix
    /\ Interval \in Nat /\ MaxDelay \in Nat /\ MaxTime \in Nat

\* A receiver that marks the value unseen during an update lags by two.
ASSUME WatchAssumption == Versions \in Nat /\ Versions >= 3

VARIABLES inUse

VARIABLES state, mWaiters, mFut                     \* Mutex
VARIABLES available, sWaiters, sFut, total          \* Semaphore
VARIABLES readers, rWaiters, rFut, access           \* RwLock
VARIABLES mem, future, key, cleanups                \* IntrusiveList
VARIABLES TICK, EPOCH, isr, clockPc, e, t, ret, ticks, began      \* TickClock
VARIABLES now, phase, job, limiter, deadline, outcome, gate       \* Timers
VARIABLES version, borrow, seen, waiting, woken, news             \* Watch

Mutex == INSTANCE Mutex WITH waiters <- mWaiters, fut <- mFut
Semaphore == INSTANCE Semaphore WITH waiters <- sWaiters, fut <- sFut
Splittable == INSTANCE RwLock WITH waiters <- rWaiters, fut <- rFut
Whole == INSTANCE RwLock WITH waiters <- rWaiters, fut <- rFut, Splitting <- FALSE
List == INSTANCE IntrusiveList
Clock == INSTANCE TickClock WITH MaxTime <- ClockTime, pc <- clockPc
\* With interrupts masked while tasks run, the use of deadlines that keeps them.
Timers == INSTANCE Timers WITH Tasks <- Sleepers, Policy <- "Masked"
Watch == INSTANCE Watch

mutexVars == <<state, mWaiters, mFut>>
semaphoreVars == <<available, sWaiters, sFut, total>>
rwlockVars == <<readers, rWaiters, rFut, access>>
listVars == <<mem, future, key, cleanups>>
clockVars == <<TICK, EPOCH, isr, clockPc, e, t, ret, ticks, began>>
timersVars == <<now, phase, job, limiter, deadline, outcome, gate>>
watchVars == <<version, borrow, seen, waiting, woken, news>>
primitivesVars == <<inUse, mutexVars, semaphoreVars, rwlockVars, listVars,
                    clockVars, timersVars, watchVars>>

PrimitivesInit ==
    /\ inUse \in {"mutex", "semaphore", "rwlock", "split", "list", "clock", "timers", "watch"}
    /\ Mutex!Init /\ Semaphore!Init /\ Whole!Init /\ List!Init
    /\ Clock!Init /\ Timers!Init /\ Watch!Init

PrimitivesNext ==
    /\ UNCHANGED inUse
    /\ IF inUse = "mutex" THEN Mutex!Next ELSE UNCHANGED mutexVars
    /\ IF inUse = "semaphore" THEN Semaphore!Next ELSE UNCHANGED semaphoreVars
    /\ IF inUse = "rwlock" THEN Whole!Next
       ELSE IF inUse = "split" THEN Splittable!Next ELSE UNCHANGED rwlockVars
    /\ IF inUse = "list" THEN List!Next ELSE UNCHANGED listVars
    /\ IF inUse = "clock" THEN Clock!Next ELSE UNCHANGED clockVars
    /\ IF inUse = "timers" THEN Timers!Next ELSE UNCHANGED timersVars
    /\ IF inUse = "watch" THEN Watch!Next ELSE UNCHANGED watchVars

PrimitivesSpec ==
    /\ PrimitivesInit /\ [][PrimitivesNext]_primitivesVars
    /\ Mutex!Fairness /\ Semaphore!Fairness /\ Whole!Fairness

\* Nobody gets in between: a future that just arrived never takes a Mutex that is
\* owned or waited for, not even between an unlock and the poll of the one it woke;
\* acquire serves in order of arrival; a writer that is granted a RwLock has it
\* alone, and readers only overtake waiting writers by splitting a guard.
NoInterloper ==
    /\ Mutex!NoInterloper
    /\ Semaphore!ServedInOrder
    /\ Splittable!WriterIsAlone
    /\ Splittable!NoReaderOvertakes

\* Whoever waits has a reason to: no permit of a Semaphore lies idle while a
\* future waits (release_multiple), and whoever heads the wait list of a RwLock
\* could not have the lock now, also after a waiting writer gave up
\* (process_exclusive_cancellation).
QueueIsBlocked == Semaphore!NoIdlePermit /\ Splittable!QueueIsBlocked

\* A List is a sequence sorted by key that serves equal keys in order of arrival
\* (the search for the insertion point in WaitForDetach::poll), and a cleanup runs
\* exactly when a future is dropped between its wake and its next poll.  Its links
\* agree in both directions and lead to no node that was dropped.
ListRefinement == List!ListRefinement /\ List!CleanupOnlyAfterWake /\ []List!LinkValid

\* TickTime::now() returns a time at which the call was running, although the
\* SysTick handler may carry from TICK into EPOCH between its loads; so time as it
\* tells it never runs backwards.  A poll of with_deadline at or after the deadline never gives the result of
\* the wrapped future, with interrupts masked while tasks run; no sleep, timeout
\* or gate ends before its time, and a PeriodicGate does not drift.
TimeKept ==
    /\ Clock!NowIsNow /\ Clock!Monotonic
    /\ Timers!DeadlineHolds /\ Timers!NotEarly /\ []Timers!GateKeepsPhase

\* No receiver of a Watch misses an update: is_changed tells whether there was one,
\* across the wrap of the count, and a receiver suspended in changed() with an
\* update to see was woken (Sender::send_modify, mark_as_unseen).
NoMissedUpdate == Watch!ChangeIsSeen /\ Watch!NoMissedUpdate

\* Nobody owns a Mutex or a RwLock together with somebody it excludes, futures
\* that were granted the lock and not polled since included; the counter of a
\* RwLock says who owns it; and permits of a Semaphore neither vanish nor multiply,
\* whichever futures are dropped between being granted one and being polled.
Exclusion ==
    /\ Mutex!MutualExclusion /\ Splittable!Exclusion /\ Splittable!CounterMatches
    /\ Semaphore!PermitsConserved

\* Every future waiting for a lock is served or gives up, whatever the others
\* cancel; a RwLock whose guards are split again and again is not in this.
EveryWaiterServed ==
    /\ Mutex!EveryWaiterServed
    /\ Semaphore!EveryWaiterServed
    /\ inUse = "rwlock" => Whole!EveryWaiterServed
=============================================================================

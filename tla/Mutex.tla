------------------------------- MODULE Mutex -------------------------------
(***************************************************************************)
(* tinyos::mutex. Everything runs on the executor's one thread, so each    *)
(* poll, drop and try_lock is one action; what interleaves is the order in *)
(* which futures are polled, woken and dropped. Unlocking hands the mutex  *)
(* to the head waiter without clearing the flag: that future is "granted"  *)
(* until it is polled (it then holds a permit) or dropped (its cleanup     *)
(* unlocks again).                                                         *)
(***************************************************************************)
EXTENDS WaitList

VARIABLES state,     \* the AtomicUsize: 0 unlocked, 1 locked
          waiters,   \* the wait list
          fut        \* where each future is in its life

vars == <<state, waiters, fut>>

Phase == {"idle", "waiting", "granted", "holding"}

TypeOK ==
    /\ state \in {0, 1}
    /\ waiters \in Seq(Futures)
    /\ fut \in [Futures -> Phase]

\* Mutex::create
Init ==
    /\ state = 0
    /\ waiters = <<>>
    /\ fut = [f \in Futures |-> "idle"]

Owns(f) == fut[f] \in {"granted", "holding"}

\* Mutex::unlock, on behalf of a future that leaves fut as `after`.
UnlockAlwaysClears(after) ==
    /\ state' = 0
    /\ waiters' = IF waiters = <<>> THEN waiters ELSE WakeN(waiters, 1)
    /\ fut' = IF waiters = <<>> THEN after
              ELSE [after EXCEPT ![waiters[1]] = "granted"]
Unlock(after) ==
    IF waiters = <<>>
    THEN /\ state' = 0
         /\ fut' = after
         /\ UNCHANGED waiters
    ELSE /\ waiters' = WakeN(waiters, 1)
         /\ fut' = [after EXCEPT ![waiters[1]] = "granted"]
         /\ UNCHANGED state

\* try_lock, and the same test in try_lock_assuming_cancel_safe.
TryLock(f) ==
    /\ fut[f] = "idle"
    /\ state = 0
    /\ state' = 1
    /\ fut' = [fut EXCEPT ![f] = "holding"]
    /\ UNCHANGED waiters

\* First poll of lock(): the fast path, or join the wait list.
Lock(f) ==
    \/ TryLock(f)
    \/ /\ fut[f] = "idle"
       /\ state = 1
       /\ waiters' = Append(waiters, f)
       /\ fut' = [fut EXCEPT ![f] = "waiting"]
       /\ UNCHANGED state

\* A later poll finds the node detached and returns the permit. (A poll that
\* finds it attached only refreshes the waker.)
PollGranted(f) ==
    /\ fut[f] = "granted"
    /\ fut' = [fut EXCEPT ![f] = "holding"]
    /\ UNCHANGED <<state, waiters>>

\* ActionPermit or MutexGuard dropped.
DropPermit(f) ==
    /\ fut[f] = "holding"
    /\ Unlock([fut EXCEPT ![f] = "idle"])

\* lock() dropped while waiting: Drop for Node unlinks it.
CancelWaiting(f) ==
    /\ fut[f] = "waiting"
    /\ waiters' = Without(waiters, f)
    /\ fut' = [fut EXCEPT ![f] = "idle"]
    /\ UNCHANGED state

\* lock() dropped after it was woken and before it was polled: the cleanup
\* closure unlocks.
CancelGrantedForgets(f) ==
    /\ fut[f] = "granted"
    /\ fut' = [fut EXCEPT ![f] = "idle"]
    /\ UNCHANGED <<state, waiters>>
CancelGranted(f) ==
    /\ fut[f] = "granted"
    /\ Unlock([fut EXCEPT ![f] = "idle"])

Next ==
    \E f \in Futures :
        \/ Lock(f) \/ PollGranted(f) \/ DropPermit(f)
        \/ CancelWaiting(f) \/ CancelGranted(f)

Spec == Init /\ [][Next]_vars

\* A woken task is polled; a permit is not kept for ever.
Fairness ==
    /\ \A f \in Futures : WF_vars(PollGranted(f)) /\ WF_vars(DropPermit(f))

FairSpec == Spec /\ Fairness
-----------------------------------------------------------------------------
\* The wait list holds exactly the waiting futures, each once.
ListMatches ==
    /\ Distinct(waiters)
    /\ Members(waiters) = {f \in Futures : fut[f] = "waiting"}

\* At most one future owns the mutex, counting one that was woken and not yet
\* polled, and the flag is set exactly while one does (the debug_assert after
\* the await in lock()).
MutualExclusion ==
    /\ \A f, g \in Futures : Owns(f) /\ Owns(g) => f = g
    /\ state = 1 <=> \E f \in Futures : Owns(f)

\* Nobody waits for a mutex that no future is going to unlock.
NoStrandedWaiter == waiters # <<>> => \E f \in Futures : Owns(f)

\* A future that just arrived never takes the mutex past a waiting one, even
\* while the rightful owner has been woken but not polled ("no interloper can
\* steal the mutex from the new rightful owner").
NoInterloper ==
    [][\A f \in Futures :
         fut[f] = "idle" /\ fut'[f] = "holding"
           => waiters = <<>> /\ \A g \in Futures : ~Owns(g)]_vars

\* Every waiter is served or gives up, whatever the others cancel.
EveryWaiterServed ==
    \A f \in Futures : fut[f] = "waiting" ~> fut[f] # "waiting"
=============================================================================

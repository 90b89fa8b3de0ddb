------------------------------- MODULE RwLock -------------------------------
(***************************************************************************)
(* tinyos::rwlock. One counter tells how the lock is held: n > 0 shared    *)
(* permits, or -n > 0 exclusive ones (an exclusive permit can be split by  *)
(* map_split). Releasing passes the lock on by changing the counter for    *)
(* the woken futures ("granted") before they are polled. Futures and the   *)
(* guards split off from them are the same set of identifiers.             *)
(***************************************************************************)
EXTENDS WaitList

VARIABLES readers,   \* the Cell<isize>
          waiters,   \* the wait list
          fut,       \* where each future or guard is in its life
          access     \* the access it asked for, or last had

vars == <<readers, waiters, fut, access>>

Phase == {"idle", "waiting", "granted", "holding"}

TypeOK ==
    /\ readers \in -(MaxReaders + 1) .. MaxReaders
    /\ waiters \in Seq(Futures)
    /\ fut \in [Futures -> Phase]
    /\ access \in [Futures -> {"Shared", "Exclusive"}]

\* RwLock::new
Init ==
    /\ readers = 0
    /\ waiters = <<>>
    /\ fut = [f \in Futures |-> "idle"]
    /\ access = [f \in Futures |-> "Shared"]

Owns(f, a) == fut[f] \in {"granted", "holding"} /\ access[f] = a
Owners(a) == {f \in Futures : Owns(f, a)}

\* The head of list w asks for access a (the predicate of wake_head_if).
HeadIs(w, a) == w # <<>> /\ access[w[1]] = a

\* wake_while stops after n shared heads of list w, having counted up from r.
StopsAfter(w, n, r) ==
    /\ \A i \in 1 .. n : access[w[i]] = "Shared"
    /\ r + n <= MaxReaders
    /\ n < Len(w) /\ r + n < MaxReaders => access[w[n + 1]] = "Exclusive"

\* Detach the first n nodes of w, r being the counter they are granted.
Wake(w, n, r, after) ==
    /\ waiters' = WakeN(w, n)
    /\ readers' = r
    /\ fut' = [f \in Futures |->
                 IF f \in FirstN(w, n) THEN "granted" ELSE after[f]]

\* The wake-frenzy of release_exclusive and process_exclusive_cancellation.
WakeShared(w, r, after) ==
    \E n \in 0 .. Len(w) : StopsAfter(w, n, r) /\ Wake(w, n, r + n, after)

\* release_exclusive
ReleaseExclusive(after) ==
    IF readers = -1
    THEN IF HeadIs(waiters, "Exclusive")
         THEN Wake(waiters, 1, -1, after)
         ELSE WakeShared(waiters, 0, after)
    ELSE Wake(waiters, 0, readers + 1, after)

\* release_shared
ReleaseSharedForgetsWriter(after) ==
    IF readers = 1 /\ HeadIs(waiters, "Exclusive") THEN Wake(waiters, 1, 0, after)
    ELSE Wake(waiters, 0, readers - 1, after)
ReleaseShared(after) ==
    IF readers = 1 /\ HeadIs(waiters, "Exclusive") THEN Wake(waiters, 1, -1, after)
    ELSE IF readers = MaxReaders /\ HeadIs(waiters, "Shared")
    THEN Wake(waiters, 1, MaxReaders, after)
    ELSE Wake(waiters, 0, readers - 1, after)

Release(f) ==
    LET after == [fut EXCEPT ![f] = "idle"] IN
    /\ IF access[f] = "Shared" THEN ReleaseShared(after) ELSE ReleaseExclusive(after)
    /\ UNCHANGED access
-----------------------------------------------------------------------------
\* try_lock_shared: not past a waiter, not above isize::MAX.
SharedFree == waiters = <<>> /\ readers \in 0 .. MaxReaders - 1
\* try_lock_exclusive
ExclusiveFree == readers = 0

Join(f, a) ==
    /\ waiters' = Append(waiters, f)
    /\ fut' = [fut EXCEPT ![f] = "waiting"]
    /\ access' = [access EXCEPT ![f] = a]
    /\ UNCHANGED readers

Take(f, a, r) ==
    /\ readers' = r
    /\ fut' = [fut EXCEPT ![f] = "holding"]
    /\ access' = [access EXCEPT ![f] = a]
    /\ UNCHANGED waiters

TryLockShared(f) ==
    /\ fut[f] = "idle" /\ SharedFree
    /\ Take(f, "Shared", readers + 1)

\* First poll of lock_shared().
LockShared(f) ==
    \/ TryLockShared(f)
    \/ fut[f] = "idle" /\ ~SharedFree /\ Join(f, "Shared")

TryLockExclusive(f) ==
    /\ fut[f] = "idle" /\ ExclusiveFree
    /\ Take(f, "Exclusive", -1)

\* First poll of lock_exclusive().
LockExclusive(f) ==
    \/ TryLockExclusive(f)
    \/ fut[f] = "idle" /\ ~ExclusiveFree /\ Join(f, "Exclusive")

\* A later poll finds the node detached.
PollGranted(f) ==
    /\ fut[f] = "granted"
    /\ fut' = [fut EXCEPT ![f] = "holding"]
    /\ UNCHANGED <<readers, waiters, access>>

\* map_split: Clone for SharedInternal or ExclusiveInternal, which panics when
\* the counter is at its limit.
MapSplit(f, g) ==
    /\ Splitting
    /\ fut[f] = "holding" /\ fut[g] = "idle"
    /\ IF access[f] = "Shared"
       THEN readers < MaxReaders /\ Take(g, "Shared", readers + 1)
       ELSE readers > -(MaxReaders + 1) /\ Take(g, "Exclusive", readers - 1)

\* Drop for SharedInternal or ExclusiveInternal.
DropGuard(f) == fut[f] = "holding" /\ Release(f)

\* A lock future dropped after it was granted and before it was polled: the
\* cleanup closure releases, and disarms the trap.
CancelGranted(f) == fut[f] = "granted" /\ Release(f)

\* lock_shared() dropped while waiting: its node is unlinked.
CancelShared(f) ==
    /\ fut[f] = "waiting" /\ access[f] = "Shared"
    /\ Wake(Without(waiters, f), 0, readers, [fut EXCEPT ![f] = "idle"])
    /\ UNCHANGED access

\* lock_exclusive() dropped while waiting: its node is unlinked, then the trap
\* runs process_exclusive_cancellation.
CancelExclusiveNoTrap(f) ==
    /\ fut[f] = "waiting" /\ access[f] = "Exclusive"
    /\ Wake(Without(waiters, f), 0, readers, [fut EXCEPT ![f] = "idle"])
    /\ UNCHANGED access
CancelExclusive(f) ==
    /\ fut[f] = "waiting" /\ access[f] = "Exclusive"
    /\ LET after == [fut EXCEPT ![f] = "idle"]
           rest == Without(waiters, f)
       IN  IF readers >= 0 THEN WakeShared(rest, readers, after)
                           ELSE Wake(rest, 0, readers, after)
    /\ UNCHANGED access

Next ==
    \/ \E f \in Futures :
         \/ LockShared(f) \/ LockExclusive(f)
         \/ PollGranted(f) \/ DropGuard(f)
         \/ CancelGranted(f) \/ CancelShared(f) \/ CancelExclusive(f)
    \/ \E f, g \in Futures : MapSplit(f, g)

Spec == Init /\ [][Next]_vars

\* A woken task is polled; a guard is not kept for ever.
Fairness ==
    /\ \A f \in Futures : WF_vars(PollGranted(f)) /\ WF_vars(DropGuard(f))

FairSpec == Spec /\ Fairness
-----------------------------------------------------------------------------
\* The wait list holds exactly the waiting futures, each once.
ListMatches ==
    /\ Distinct(waiters)
    /\ Members(waiters) = {f \in Futures : fut[f] = "waiting"}

\* The counter says how the lock is held, futures woken but not polled
\* included: the asserts in release_shared and release_exclusive hold.
CounterMatches ==
    /\ readers >= 0 => Owners("Exclusive") = {} /\ readers = Cardinality(Owners("Shared"))
    /\ readers <= 0 => Owners("Shared") = {} /\ readers + Cardinality(Owners("Exclusive")) = 0

\* A writer never shares the guarded data with a reader.
Exclusion == Owners("Shared") = {} \/ Owners("Exclusive") = {}

\* Nobody is woken to write while anybody else holds or was granted the lock.
WriterIsAlone ==
    [][\A f \in Futures :
         fut[f] = "waiting" /\ fut'[f] = "granted" /\ access[f] = "Exclusive"
           => \A g \in Futures \ {f} : fut'[g] \notin {"granted", "holding"}]_vars

\* A queue is only there for a reason: the lock is held; and while readers
\* hold it and more would fit, the first in line is a writer ("restore the
\* invariant that any sequence of shared claims is coalesced").
QueueIsBlocked ==
    waiters # <<>> =>
        /\ readers # 0
        /\ readers \in 1 .. MaxReaders - 1 => access[waiters[1]] = "Exclusive"

\* While anybody waits, the only way to become a reader without waiting one's
\* turn is to split a guard: arrivals do not overtake a waiting writer.
NoReaderOvertakes ==
    [][\A g \in Futures :
         /\ fut[g] = "idle" /\ fut'[g] = "holding" /\ access'[g] = "Shared"
         /\ \E w \in Futures : fut[w] = "waiting"
         => \E f \in Futures : fut[f] = "holding" /\ access[f] = "Shared" /\ Splitting]_vars

\* Every waiter is served or gives up, whatever the others cancel.
EveryWaiterServed ==
    \A f \in Futures : fut[f] = "waiting" ~> fut[f] # "waiting"
=============================================================================

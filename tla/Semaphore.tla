----------------------------- MODULE Semaphore -----------------------------
(***************************************************************************)
(* tinyos::semaphore. A released permit goes to the head waiter if there   *)
(* is one, else to `available`. A future that was handed a permit and is   *)
(* dropped before it is polled releases it again.                          *)
(*                                                                         *)
(* The permits that exist are counted by the history variable `total`: it  *)
(* grows only when a permit is released that was never acquired            *)
(* (Semaphore::release, out_of_band_release), up to MaxPermits.            *)
(***************************************************************************)
EXTENDS WaitList

VARIABLES available, waiters, fut, total

vars == <<available, waiters, fut, total>>

Phase == {"idle", "waiting", "granted", "holding"}

TypeOK ==
    /\ available \in 0 .. MaxPermits
    /\ waiters \in Seq(Futures)
    /\ fut \in [Futures -> Phase]
    /\ total \in Nat

\* Semaphore::new
Init ==
    /\ available = InitialPermits
    /\ waiters = <<>>
    /\ fut = [f \in Futures |-> "idle"]
    /\ total = InitialPermits

Owns(f) == fut[f] \in {"granted", "holding"}
Owners == {f \in Futures : Owns(f)}

Minimum(a, b) == IF a <= b THEN a ELSE b

\* release_multiple(n): wake up to n waiters, add the rest to `available`,
\* where an overflow panics. `after` is fut as the caller leaves it.
ReleaseMultiple(n, after) ==
    LET k == Minimum(n, Len(waiters)) IN
    /\ available + (n - k) <= MaxPermits
    /\ waiters' = WakeN(waiters, k)
    /\ fut' = [f \in Futures |->
                 IF f \in FirstN(waiters, k) THEN "granted" ELSE after[f]]
    /\ available' = available + (n - k)

\* try_acquire: checked_sub.
TryAcquire(f) ==
    /\ fut[f] = "idle"
    /\ available > 0
    /\ available' = available - 1
    /\ fut' = [fut EXCEPT ![f] = "holding"]
    /\ UNCHANGED <<waiters, total>>

\* First poll of acquire().
Acquire(f) ==
    \/ TryAcquire(f)
    \/ /\ fut[f] = "idle"
       /\ available = 0
       /\ waiters' = Append(waiters, f)
       /\ fut' = [fut EXCEPT ![f] = "waiting"]
       /\ UNCHANGED <<available, total>>

PollGranted(f) ==
    /\ fut[f] = "granted"
    /\ fut' = [fut EXCEPT ![f] = "holding"]
    /\ UNCHANGED <<available, waiters, total>>

\* Permit dropped, or release() by the code that acquired.
DropPermit(f) ==
    /\ fut[f] = "holding"
    /\ ReleaseMultiple(1, [fut EXCEPT ![f] = "idle"])
    /\ UNCHANGED total

\* acquire() dropped while waiting.
CancelWaiting(f) ==
    /\ fut[f] = "waiting"
    /\ waiters' = Without(waiters, f)
    /\ fut' = [fut EXCEPT ![f] = "idle"]
    /\ UNCHANGED <<available, total>>

\* acquire() dropped after it was handed a permit: the cleanup releases it.
CancelGranted(f) ==
    /\ fut[f] = "granted"
    /\ ReleaseMultiple(1, [fut EXCEPT ![f] = "idle"])
    /\ UNCHANGED total

\* out_of_band_release(n): permits nobody acquired.
OutOfBandRelease(n) ==
    /\ ReleaseMultiple(n, fut)
    /\ total' = total + n

Next ==
    \/ \E f \in Futures :
         \/ Acquire(f) \/ PollGranted(f) \/ DropPermit(f)
         \/ CancelWaiting(f) \/ CancelGranted(f)
    \/ \E n \in 1 .. MaxPermits - total : OutOfBandRelease(n)

Spec == Init /\ [][Next]_vars

\* A woken task is polled; a permit is not kept for ever.
Fairness ==
    /\ \A f \in Futures : WF_vars(PollGranted(f)) /\ WF_vars(DropPermit(f))

FairSpec == Spec /\ Fairness
-----------------------------------------------------------------------------
\* The wait list holds exactly the waiting futures, each once.
ListMatches ==
    /\ Distinct(waiters)
    /\ Members(waiters) = {f \in Futures : fut[f] = "waiting"}

\* Permits are neither lost nor made up: those available plus those owned (a
\* future woken but not polled owns one) are all that were ever created.
PermitsConserved == available + Cardinality(Owners) = total

\* Nobody waits while a permit is available; in particular releasing several
\* permits at once wakes as many waiters as there are permits, and try_acquire
\* cannot overtake a waiter.
NoIdlePermit == waiters # <<>> => available = 0

\* Waiters are served in the order they arrived: one that is woken leaves
\* nobody behind who was ahead of it.
ServedInOrder ==
    [][\A i, j \in 1 .. Len(waiters) :
         i < j /\ fut'[waiters[j]] = "granted" => fut'[waiters[i]] # "waiting"]_vars

\* Every waiter is served or gives up, if there is a permit to go round.
EveryWaiterServed ==
    \A f \in Futures : fut[f] = "waiting" /\ total > 0 ~> fut[f] # "waiting"
=============================================================================

------------------------------ MODULE WaitList ------------------------------
(***************************************************************************)
(* The wait list of tinyos::list as its users see it: the sequence of the  *)
(* waiting futures, head first. All waiters of a Mutex, a Semaphore or a   *)
(* RwLock compare equal, so joining appends. IntrusiveList models how the  *)
(* list is linked in memory and shows that it is such a sequence.  The     *)
(* parameters of the three are here, with what is assumed of them.         *)
(***************************************************************************)
EXTENDS Integers, Sequences, FiniteSets

CONSTANTS Futures,          \* lock and acquire futures, and the guards and
                            \* permits they resolve to
          InitialPermits,   \* of a Semaphore
          MaxPermits,       \* usize::MAX, lowered so that TLC reaches it
          MaxReaders,       \* isize::MAX, lowered likewise
          Splitting         \* whether RwLock guards are split with map_split

ASSUME SemaphoreAssumption ==
    /\ IsFiniteSet(Futures)
    /\ InitialPermits \in Nat /\ MaxPermits \in Nat
    /\ InitialPermits <= MaxPermits

ASSUME RwLockAssumption ==
    /\ IsFiniteSet(Futures)
    /\ MaxReaders \in Nat /\ MaxReaders >= 2
    /\ Splitting \in BOOLEAN

\* The futures in list s.
Members(s) == {s[i] : i \in 1 .. Len(s)}

\* No future is in the list twice.
Distinct(s) == \A i, j \in 1 .. Len(s) : s[i] = s[j] => i = j

\* The list after the node of x is dropped (Drop for Node).
Without(s, x) ==
    LET k == CHOOSE k \in 1 .. Len(s) : s[k] = x
    IN  [i \in 1 .. Len(s) - 1 |-> IF i < k THEN s[i] ELSE s[i + 1]]

\* The first n futures in the list.
FirstN(s, n) == {s[i] : i \in 1 .. n}

\* The list after the first n nodes are woken (wake_head_if n times).
WakeN(s, n) == [i \in 1 .. Len(s) - n |-> s[i + n]]
=============================================================================

---------------------------- MODULE TinyosProofs ----------------------------
(***************************************************************************)
(* What the runs of the tinyos library check on small instances, for every *)
(* value of the constants: each primitive keeps its own invariant whatever *)
(* it is used for, and the properties of Primitives and MCExecutor follow. *)
(***************************************************************************)
EXTENDS Primitives, MCExecutor, SequenceTheorems, FiniteSetTheorems, TLAPS

SplitP == INSTANCE RwLockProofs WITH waiters <- rWaiters, fut <- rFut
WholeP == INSTANCE RwLockProofs WITH waiters <- rWaiters, fut <- rFut, Splitting <- FALSE

-----------------------------------------------------------------------------
(* The wait lists.                                                         *)

\* The three locks speak of their wait lists in the same terms.
LEMMA SameLists ==
  /\ \A s : Mutex!Members(s) = Members(s) /\ Semaphore!Members(s) = Members(s)
  /\ \A s : /\ Mutex!Distinct(s) <=> Distinct(s)
            /\ Semaphore!Distinct(s) <=> Distinct(s)
  /\ \A s, x : Mutex!Without(s, x) = Without(s, x) /\ Semaphore!Without(s, x) = Without(s, x)
  /\ \A s, n : /\ Mutex!FirstN(s, n) = FirstN(s, n) /\ Semaphore!FirstN(s, n) = FirstN(s, n)
               /\ Mutex!WakeN(s, n) = WakeN(s, n) /\ Semaphore!WakeN(s, n) = WakeN(s, n)
  /\ \A S : Semaphore!Cardinality(S) = Cardinality(S)
BY DEF Mutex!Members, Members, Semaphore!Members, Mutex!Distinct, Distinct, Semaphore!Distinct,
    Mutex!Without, Without, Semaphore!Without, Mutex!FirstN, FirstN, Semaphore!FirstN,
    Mutex!WakeN, WakeN, Semaphore!WakeN, Semaphore!Cardinality, Cardinality

\* The lemmas about wait lists are in RwLockProofs.
LEMMA SameTerms ==
  /\ \A s : /\ SplitP!Members(s) = Members(s) /\ SplitP!Distinct(s) = Distinct(s)
            /\ SplitP!IsFiniteSet(s) = IsFiniteSet(s) /\ SplitP!Cardinality(s) = Cardinality(s)
  /\ \A s, x : /\ SplitP!Without(s, x) = Without(s, x) /\ SplitP!FirstN(s, x) = FirstN(s, x)
               /\ SplitP!WakeN(s, x) = WakeN(s, x)
BY DEF SplitP!Members, Members, SplitP!Distinct, Distinct, SplitP!Without, Without,
    SplitP!FirstN, FirstN, SplitP!WakeN, WakeN, SplitP!IsFiniteSet, IsFiniteSet,
    SplitP!Cardinality, Cardinality

LEMMA JoinProperties ==
  ASSUME NEW S, NEW s \in Seq(S), Distinct(s), NEW x \in S, x \notin Members(s)
  PROVE  /\ Append(s, x) \in Seq(S)
         /\ Distinct(Append(s, x))
         /\ Members(Append(s, x)) = Members(s) \cup {x}
         /\ Append(s, x) # <<>>
         /\ s # <<>> => Append(s, x)[1] = s[1]
         /\ s = <<>> => Append(s, x)[1] = x
<1>1. SplitP!Distinct(s) /\ x \notin SplitP!Members(s)  BY SameTerms
<1> USE <1>1, SemaphoreAssumption, RwLockAssumption, SplitP!JoinProperties
    DEF SplitP!IsFiniteSet, IsFiniteSet
<1>2. Append(s, x) \in Seq(S) /\ Append(s, x) # <<>>  OBVIOUS
<1>3. SplitP!Distinct(Append(s, x))  OBVIOUS
<1>4. SplitP!Members(Append(s, x)) = SplitP!Members(s) \cup {x}  OBVIOUS
<1>5. s # <<>> => Append(s, x)[1] = s[1]  OBVIOUS
<1>6. s = <<>> => Append(s, x)[1] = x  OBVIOUS
<1>7. QED BY <1>2, <1>3, <1>4, <1>5, <1>6, SameTerms

LEMMA WakeProperties ==
  ASSUME NEW S, NEW s \in Seq(S), Distinct(s), NEW n \in 0 .. Len(s)
  PROVE  /\ WakeN(s, n) \in Seq(S)
         /\ Len(WakeN(s, n)) = Len(s) - n
         /\ Distinct(WakeN(s, n))
         /\ Members(WakeN(s, n)) = Members(s) \ FirstN(s, n)
BY SemaphoreAssumption, RwLockAssumption, SameTerms,
   SplitP!WakeProperties DEF SplitP!IsFiniteSet, IsFiniteSet

LEMMA FirstNProperties ==
  ASSUME NEW S, NEW s \in Seq(S), Distinct(s), NEW n \in 0 .. Len(s)
  PROVE  /\ IsFiniteSet(FirstN(s, n))
         /\ Cardinality(FirstN(s, n)) = n
         /\ FirstN(s, n) \subseteq Members(s)
         /\ FirstN(s, n) \subseteq S
BY SemaphoreAssumption, RwLockAssumption, SameTerms,
   SplitP!FirstNProperties DEF SplitP!IsFiniteSet, IsFiniteSet

LEMMA DropProperties ==
  ASSUME NEW S, NEW s \in Seq(S), Distinct(s), NEW x \in Members(s)
  PROVE  /\ Without(s, x) \in Seq(S)
         /\ Distinct(Without(s, x))
         /\ Members(Without(s, x)) = Members(s) \ {x}
         /\ Len(Without(s, x)) = Len(s) - 1
         /\ x # s[1] => Without(s, x) # <<>> /\ Without(s, x)[1] = s[1]
BY SemaphoreAssumption, RwLockAssumption, SameTerms,
   SplitP!DropProperties DEF SplitP!IsFiniteSet, IsFiniteSet

-----------------------------------------------------------------------------
(* The mutex: exclusion for any set of futures and any order of polls, drops *)
(* and cancellations.                                                      *)

MutexInv == Mutex!TypeOK /\ Mutex!ListMatches /\ Mutex!MutualExclusion /\ Mutex!NoStrandedWaiter

LEMMA MutexInitInv == Mutex!Init => MutexInv
<1> SUFFICES ASSUME Mutex!Init PROVE MutexInv
  OBVIOUS
<1>1. Mutex!TypeOK  BY DEF Mutex!Init, Mutex!TypeOK, Mutex!Phase
<1>2. Mutex!ListMatches  BY DEF Mutex!Init, Mutex!ListMatches, Mutex!Distinct, Mutex!Members
<1>3. Mutex!MutualExclusion /\ Mutex!NoStrandedWaiter
  BY DEF Mutex!Init, Mutex!MutualExclusion, Mutex!NoStrandedWaiter, Mutex!Owns
<1>4. QED BY <1>1, <1>2, <1>3 DEF MutexInv

\* Unlock, called for the owner f with f put back to "idle", either frees the
\* mutex or makes the head waiter its only owner.
LEMMA UnlockKeepsInv ==
  ASSUME MutexInv, NEW f \in Futures, Mutex!Owns(f), Mutex!Unlock([mFut EXCEPT ![f] = "idle"])
  PROVE  MutexInv'
<1> DEFINE after == [mFut EXCEPT ![f] = "idle"]
<1> USE DEF MutexInv
<1>1. after \in [Futures -> Mutex!Phase]
      /\ (\A g \in Futures : after[g] \notin {"granted", "holding"})
      /\ (\A g \in Futures : after[g] = "waiting" <=> mFut[g] = "waiting")
      /\ after[f] = "idle"
  BY DEF Mutex!TypeOK, Mutex!Phase, Mutex!MutualExclusion, Mutex!Owns
<1>2. CASE mWaiters = <<>>
  <2>1. state' = 0 /\ mFut' = after /\ mWaiters' = mWaiters
    BY <1>2 DEF Mutex!Unlock
  <2>2. Mutex!TypeOK'  BY <1>1, <2>1 DEF Mutex!TypeOK
  <2>3. Mutex!ListMatches'  BY <1>1, <2>1 DEF Mutex!ListMatches, Mutex!Members, Mutex!Distinct
  <2>4. Mutex!MutualExclusion' /\ Mutex!NoStrandedWaiter'
    BY <1>1, <1>2, <2>1 DEF Mutex!MutualExclusion, Mutex!NoStrandedWaiter, Mutex!Owns
  <2>5. QED BY <2>2, <2>3, <2>4
<1>3. CASE mWaiters # <<>>
  <2> DEFINE h == mWaiters[1]
  <2>1. /\ mWaiters' = Mutex!WakeN(mWaiters, 1) /\ mFut' = [after EXCEPT ![h] = "granted"]
        /\ state' = state
    BY <1>3 DEF Mutex!Unlock
  <2>2. Len(mWaiters) \in Nat /\ 1 \in 0 .. Len(mWaiters) /\ 1 \in 1 .. Len(mWaiters)
    BY <1>3, EmptySeq DEF Mutex!TypeOK
  <2>3. h \in Futures /\ mFut[h] = "waiting" /\ Mutex!FirstN(mWaiters, 1) = {h}
    BY <2>2 DEF Mutex!ListMatches, Mutex!Members, Mutex!TypeOK, Mutex!FirstN
  <2>4. /\ mWaiters' \in Seq(Futures) /\ Mutex!Distinct(mWaiters')
        /\ Mutex!Members(mWaiters') = Mutex!Members(mWaiters) \ {h}
    <3>1. mWaiters \in Seq(Futures) /\ Mutex!Distinct(mWaiters)
      BY DEF Mutex!TypeOK, Mutex!ListMatches
    <3>2. Mutex!Members(Mutex!WakeN(mWaiters, 1))
            = Mutex!Members(mWaiters) \ Mutex!FirstN(mWaiters, 1)
          /\ Mutex!WakeN(mWaiters, 1) \in Seq(Futures) /\ Mutex!Distinct(Mutex!WakeN(mWaiters, 1))
      BY <2>2, <3>1, SameLists, WakeProperties
    <3>3. QED BY <2>1, <2>3, <3>2
  <2>5. Mutex!TypeOK'
    BY <1>1, <2>1, <2>3, <2>4 DEF Mutex!TypeOK, Mutex!Phase
  <2>6. Mutex!ListMatches'
    BY <1>1, <2>1, <2>3, <2>4 DEF Mutex!ListMatches
  <2>7. state = 1 BY DEF Mutex!MutualExclusion
  <2>8. Mutex!MutualExclusion' /\ Mutex!NoStrandedWaiter'
    BY <1>1, <2>1, <2>3, <2>7 DEF Mutex!MutualExclusion, Mutex!NoStrandedWaiter, Mutex!Owns
  <2>9. QED BY <2>5, <2>6, <2>8
<1>4. QED BY <1>2, <1>3

LEMMA MutexNextInv == MutexInv /\ [Mutex!Next]_(Mutex!vars) => MutexInv'
<1> SUFFICES ASSUME MutexInv, [Mutex!Next]_(Mutex!vars) PROVE MutexInv'
  OBVIOUS
<1> USE DEF MutexInv
<1>1. ASSUME NEW f \in Futures, Mutex!TryLock(f) PROVE MutexInv'
  <2>1. Mutex!TypeOK' BY <1>1 DEF Mutex!TypeOK, Mutex!TryLock, Mutex!Phase
  <2>2. Mutex!ListMatches' BY <1>1 DEF Mutex!ListMatches, Mutex!TypeOK, Mutex!TryLock
  <2>3. Mutex!MutualExclusion' /\ Mutex!NoStrandedWaiter'
    BY <1>1
       DEF Mutex!MutualExclusion, Mutex!NoStrandedWaiter, Mutex!Owns, Mutex!TypeOK, Mutex!TryLock
  <2>4. QED BY <2>1, <2>2, <2>3
<1>2. ASSUME NEW f \in Futures, mFut[f] = "idle", state = 1,
             mWaiters' = Append(mWaiters, f), mFut' = [mFut EXCEPT ![f] = "waiting"],
             UNCHANGED state
      PROVE  MutexInv'
  <2>1. f \notin Mutex!Members(mWaiters)  BY <1>2 DEF Mutex!ListMatches
  <2>2. /\ mWaiters' \in Seq(Futures) /\ Mutex!Distinct(mWaiters')
        /\ Mutex!Members(mWaiters') = Mutex!Members(mWaiters) \cup {f}
    BY <1>2, <2>1, SameLists, JoinProperties DEF Mutex!TypeOK, Mutex!ListMatches
  <2>3. Mutex!TypeOK' BY <1>2, <2>2 DEF Mutex!TypeOK, Mutex!Phase
  <2>4. Mutex!ListMatches' BY <1>2, <2>2 DEF Mutex!ListMatches, Mutex!TypeOK
  <2>5. Mutex!MutualExclusion' /\ Mutex!NoStrandedWaiter'
    BY <1>2 DEF Mutex!MutualExclusion, Mutex!NoStrandedWaiter, Mutex!Owns, Mutex!TypeOK
  <2>6. QED BY <2>3, <2>4, <2>5
<1>3. ASSUME NEW f \in Futures, Mutex!PollGranted(f) PROVE MutexInv'
  <2>1. Mutex!TypeOK' BY <1>3 DEF Mutex!TypeOK, Mutex!PollGranted, Mutex!Phase
  <2>2. Mutex!ListMatches' BY <1>3 DEF Mutex!ListMatches, Mutex!TypeOK, Mutex!PollGranted
  <2>3. Mutex!MutualExclusion' /\ Mutex!NoStrandedWaiter'
    BY <1>3
       DEF Mutex!MutualExclusion, Mutex!NoStrandedWaiter, Mutex!Owns, Mutex!TypeOK,
           Mutex!PollGranted
  <2>4. QED BY <2>1, <2>2, <2>3
<1>4. ASSUME NEW f \in Futures, Mutex!DropPermit(f) \/ Mutex!CancelGranted(f) PROVE MutexInv'
  BY <1>4, UnlockKeepsInv DEF Mutex!DropPermit, Mutex!CancelGranted, Mutex!Owns
<1>5. ASSUME NEW f \in Futures, Mutex!CancelWaiting(f) PROVE MutexInv'
  <2>1. f \in Mutex!Members(mWaiters)  BY <1>5 DEF Mutex!CancelWaiting, Mutex!ListMatches
  <2>2. /\ mWaiters' \in Seq(Futures) /\ Mutex!Distinct(mWaiters')
        /\ Mutex!Members(mWaiters') = Mutex!Members(mWaiters) \ {f}
    BY <1>5, <2>1, SameLists, DropProperties
       DEF Mutex!TypeOK, Mutex!ListMatches, Mutex!CancelWaiting
  <2>3. Mutex!TypeOK' BY <1>5, <2>2 DEF Mutex!TypeOK, Mutex!Phase, Mutex!CancelWaiting
  <2>4. Mutex!ListMatches' BY <1>5, <2>2 DEF Mutex!ListMatches, Mutex!TypeOK, Mutex!CancelWaiting
  <2>5. mWaiters # <<>>
    BY <2>1 DEF Mutex!Members
  <2>6. Mutex!MutualExclusion' /\ Mutex!NoStrandedWaiter'
    BY <1>5, <2>5
       DEF Mutex!MutualExclusion, Mutex!NoStrandedWaiter, Mutex!Owns, Mutex!TypeOK,
           Mutex!CancelWaiting
  <2>7. QED BY <2>3, <2>4, <2>6
<1>6. CASE UNCHANGED Mutex!vars
  BY <1>6
     DEF Mutex!vars, Mutex!TypeOK, Mutex!ListMatches, Mutex!MutualExclusion,
         Mutex!NoStrandedWaiter, Mutex!Owns
<1>7. QED
  BY <1>1, <1>2, <1>3, <1>4, <1>5, <1>6 DEF Mutex!Next, Mutex!Lock

\* At most one future owns the mutex, the flag agrees, and no waiter is left
\* behind, however locks are cancelled.
THEOREM MutexCorrect ==
  Mutex!Spec =>
    [](/\ Mutex!TypeOK /\ Mutex!ListMatches
       /\ Mutex!MutualExclusion /\ Mutex!NoStrandedWaiter)
<1>1. QED BY MutexInitInv, MutexNextInv, PTL DEF Mutex!Spec, MutexInv

\* A step that takes the mutex without waiting finds it unowned and unwanted.
LEMMA InterloperStep ==
  ASSUME MutexInv, [Mutex!Next]_(Mutex!vars), NEW f \in Futures,
         mFut[f] = "idle", mFut'[f] = "holding"
  PROVE  mWaiters = <<>> /\ \A g \in Futures : ~Mutex!Owns(g)
<1>1. Mutex!TryLock(f)
  <2>1. CASE UNCHANGED Mutex!vars  BY <2>1 DEF Mutex!vars
  <2>2. ASSUME NEW g \in Futures, mFut[g] # "idle" \/ g # f,
               Mutex!Lock(g) \/ Mutex!PollGranted(g) \/ Mutex!CancelWaiting(g)
        PROVE  FALSE
    BY <2>2
       DEF Mutex!Lock, Mutex!TryLock, Mutex!PollGranted, Mutex!CancelWaiting, MutexInv,
           Mutex!TypeOK
  <2>3. ASSUME NEW g \in Futures, Mutex!DropPermit(g) \/ Mutex!CancelGranted(g)
        PROVE  FALSE
    <3>1. mFut'[f] \in {"granted", mFut[f], "idle"}
      BY <2>3 DEF Mutex!DropPermit, Mutex!CancelGranted, Mutex!Unlock, MutexInv, Mutex!TypeOK
    <3>2. QED BY <3>1
  <2>4. Mutex!Lock(f) => Mutex!TryLock(f)
    BY DEF Mutex!Lock, MutexInv, Mutex!TypeOK
  <2>5. Mutex!PollGranted(f) \/ Mutex!CancelWaiting(f) => FALSE
    BY DEF Mutex!PollGranted, Mutex!CancelWaiting
  <2>6. QED BY <2>1, <2>2, <2>3, <2>4, <2>5 DEF Mutex!Next
<1>2. QED
  BY <1>1 DEF MutexInv, Mutex!MutualExclusion, Mutex!NoStrandedWaiter, Mutex!TryLock

\* No interloper: taking the mutex without waiting happens only when nobody
\* owns it and nobody waits for it.
THEOREM MutexNoInterloper == Mutex!Spec => Mutex!NoInterloper
<1>1. MutexInv /\ [Mutex!Next]_(Mutex!vars) =>
        [\A f \in Futures :
           mFut[f] = "idle" /\ mFut'[f] = "holding"
             => mWaiters = <<>> /\ \A g \in Futures : ~Mutex!Owns(g)]_(Mutex!vars)
  BY InterloperStep
<1>2. QED BY <1>1, MutexInitInv, MutexNextInv, PTL DEF Mutex!Spec, Mutex!NoInterloper

-----------------------------------------------------------------------------
(* The semaphore: permits are conserved, for any number of futures and       *)
(* permits and any order of polls, drops and cancellations.                *)

SemaphoreInv ==
    /\ Semaphore!TypeOK /\ Semaphore!ListMatches
    /\ Semaphore!PermitsConserved /\ Semaphore!NoIdlePermit

\* The owners are finitely many.
LEMMA OwnersFinite ==
  IsFiniteSet(Semaphore!Owners) /\ Cardinality(Semaphore!Owners) \in Nat
<1>1. Semaphore!Owners \subseteq Futures  BY DEF Semaphore!Owners
<1>2. QED BY <1>1, SemaphoreAssumption, FS_Subset, FS_CardinalityType

LEMMA SemaphoreInitInv == Semaphore!Init => SemaphoreInv
<1> SUFFICES ASSUME Semaphore!Init PROVE SemaphoreInv
  OBVIOUS
<1> USE SemaphoreAssumption DEF Semaphore!Init
<1>1. Semaphore!TypeOK  BY DEF Semaphore!TypeOK, Semaphore!Phase
<1>2. Semaphore!ListMatches  BY DEF Semaphore!ListMatches, Semaphore!Distinct, Semaphore!Members
<1>3. Semaphore!Owners = {}  BY DEF Semaphore!Owners, Semaphore!Owns
<1>4. Semaphore!PermitsConserved  BY <1>3, FS_EmptySet
  DEF Semaphore!PermitsConserved, Semaphore!Cardinality, Cardinality
<1>5. QED BY <1>1, <1>2, <1>4 DEF SemaphoreInv, Semaphore!NoIdlePermit

\* Releasing n permits, when `lost` owners give one up (one, or none):
\* the permits released are granted to the head waiters or become available.
LEMMA ReleaseKeepsInv ==
  ASSUME SemaphoreInv, NEW n \in Nat, n > 0, NEW after \in [Futures -> Semaphore!Phase],
         \A f \in Futures : after[f] = "waiting" <=> sFut[f] = "waiting",
         NEW lost \in Nat, total' \in Nat,
         Cardinality({f \in Futures : after[f] \in {"granted", "holding"}}) + lost
            = Cardinality(Semaphore!Owners),
         total' = total + n - lost,
         Semaphore!ReleaseMultiple(n, after)
  PROVE  SemaphoreInv'
<1> DEFINE k == Semaphore!Minimum(n, Len(sWaiters))
           G == Semaphore!FirstN(sWaiters, k)
           A == {f \in Futures : after[f] \in {"granted", "holding"}}
<1> USE DEF SemaphoreInv
<1>1. k \in 0 .. Len(sWaiters) /\ k <= n /\ (k < n => k = Len(sWaiters)) /\ Len(sWaiters) \in Nat
  BY DEF Semaphore!Minimum, Semaphore!TypeOK
<1>2. /\ available + (n - k) <= MaxPermits
      /\ sWaiters' = Semaphore!WakeN(sWaiters, k)
      /\ sFut' = [f \in Futures |-> IF f \in G THEN "granted" ELSE after[f]]
      /\ available' = available + (n - k)
  BY DEF Semaphore!ReleaseMultiple
<1>3. sWaiters \in Seq(Futures) /\ Semaphore!Distinct(sWaiters)
  BY DEF Semaphore!TypeOK, Semaphore!ListMatches
<1>4. /\ IsFiniteSet(G) /\ Cardinality(G) = k
      /\ G \subseteq Semaphore!Members(sWaiters) /\ G \subseteq Futures
  BY <1>1, <1>3, SameLists, FirstNProperties
<1>5. /\ sWaiters' \in Seq(Futures) /\ Len(sWaiters') = Len(sWaiters) - k
      /\ Semaphore!Distinct(sWaiters')
      /\ Semaphore!Members(sWaiters') = Semaphore!Members(sWaiters) \ G
  BY <1>1, <1>2, <1>3, SameLists, WakeProperties
<1> HIDE DEF k, G, A
<1>6. Semaphore!TypeOK'
  BY <1>1, <1>2, <1>5, SemaphoreAssumption DEF Semaphore!TypeOK, Semaphore!Phase
<1>7. Semaphore!ListMatches'
  BY <1>2, <1>4, <1>5 DEF Semaphore!ListMatches
<1>8. Semaphore!Owners' = A \cup G /\ A \cap G = {}
  BY <1>2, <1>4 DEF Semaphore!Owners, Semaphore!Owns, A, Semaphore!ListMatches
<1>9. IsFiniteSet(A) /\ Cardinality(A) \in Nat /\ IsFiniteSet(A \cap G)
  <2>1. A \subseteq Futures  BY DEF A
  <2>2. QED BY <1>8, <2>1, SemaphoreAssumption, FS_Subset, FS_CardinalityType, FS_EmptySet
<1>10. Cardinality(Semaphore!Owners') = Cardinality(A) + k
  <2>1. Cardinality(A \cup G) = Cardinality(A) + Cardinality(G) - Cardinality(A \cap G)
    BY <1>4, <1>9, FS_Union
  <2>2. Cardinality(A \cap G) = 0  BY <1>8, FS_EmptySet
  <2>3. Cardinality(A \cup G) = Cardinality(A) + k
    BY <1>1, <1>4, <1>9, <2>1, <2>2
  <2>4. QED BY <1>8, <2>3
<1>11. Semaphore!PermitsConserved'
  <2>1. available + Cardinality(Semaphore!Owners) = total /\ available \in Nat
    BY SameLists DEF Semaphore!PermitsConserved, Semaphore!TypeOK
  <2>2. available' + Cardinality(Semaphore!Owners') = total'
    <3>1. Cardinality(A) + lost = Cardinality(Semaphore!Owners)  BY DEF A
    <3>2. k \in Nat /\ total \in Nat  BY <1>1 DEF Semaphore!TypeOK
    <3>3. available' + (Cardinality(A) + k) = total'  BY <1>2, <1>9, <2>1, <3>1, <3>2
    <3>4. QED BY <1>10, <3>3
  <2>3. QED BY <2>2, SameLists DEF Semaphore!PermitsConserved
<1>12. Semaphore!NoIdlePermit'
  <2>1. CASE k = Len(sWaiters)
    <3>1. sWaiters' = <<>>  BY <1>5, <2>1, EmptySeq
    <3>2. QED BY <3>1 DEF Semaphore!NoIdlePermit
  <2>2. CASE k = n /\ k # Len(sWaiters)
    <3>1. sWaiters # <<>>  BY <1>1, <2>2, EmptySeq
    <3>2. QED BY <1>2, <2>2, <3>1 DEF Semaphore!NoIdlePermit
  <2>3. QED BY <1>1, <2>1, <2>2
<1>13. QED BY <1>6, <1>7, <1>11, <1>12

LEMMA SemaphoreNextInv == SemaphoreInv /\ [Semaphore!Next]_(Semaphore!vars) => SemaphoreInv'
<1> SUFFICES ASSUME SemaphoreInv, [Semaphore!Next]_(Semaphore!vars) PROVE SemaphoreInv'
  OBVIOUS
<1> USE SemaphoreAssumption DEF SemaphoreInv
<1>1. ASSUME NEW f \in Futures, Semaphore!TryAcquire(f) PROVE SemaphoreInv'
  <2>1. Semaphore!TypeOK' BY <1>1 DEF Semaphore!TypeOK, Semaphore!TryAcquire, Semaphore!Phase
  <2>2. Semaphore!ListMatches' BY <1>1
    DEF Semaphore!ListMatches, Semaphore!TypeOK, Semaphore!TryAcquire
  <2>3. Semaphore!Owners' = Semaphore!Owners \cup {f} /\ f \notin Semaphore!Owners
    BY <1>1 DEF Semaphore!TryAcquire, Semaphore!Owners, Semaphore!Owns, Semaphore!TypeOK
  <2>4. Cardinality(Semaphore!Owners') = Cardinality(Semaphore!Owners) + 1
    BY <2>3, OwnersFinite, FS_AddElement
  <2>5. Semaphore!PermitsConserved' /\ Semaphore!NoIdlePermit'
    BY <1>1, <2>4, OwnersFinite
       DEF Semaphore!PermitsConserved, Semaphore!NoIdlePermit, Semaphore!TryAcquire,
           Semaphore!TypeOK, Semaphore!Cardinality, Cardinality
  <2>6. QED BY <2>1, <2>2, <2>5
<1>2. ASSUME NEW f \in Futures, sFut[f] = "idle", available = 0,
             sWaiters' = Append(sWaiters, f), sFut' = [sFut EXCEPT ![f] = "waiting"],
             UNCHANGED <<available, total>>
      PROVE  SemaphoreInv'
  <2>1. f \notin Semaphore!Members(sWaiters)  BY <1>2 DEF Semaphore!ListMatches
  <2>2. /\ sWaiters' \in Seq(Futures) /\ Semaphore!Distinct(sWaiters')
        /\ Semaphore!Members(sWaiters') = Semaphore!Members(sWaiters) \cup {f}
    BY <1>2, <2>1, SameLists, JoinProperties DEF Semaphore!TypeOK, Semaphore!ListMatches
  <2>3. Semaphore!TypeOK' BY <1>2, <2>2 DEF Semaphore!TypeOK, Semaphore!Phase
  <2>4. Semaphore!ListMatches' BY <1>2, <2>2 DEF Semaphore!ListMatches, Semaphore!TypeOK
  <2>5. Semaphore!Owners' = Semaphore!Owners  BY <1>2
    DEF Semaphore!Owners, Semaphore!Owns, Semaphore!TypeOK
  <2>6. Semaphore!PermitsConserved' /\ Semaphore!NoIdlePermit'
    BY <1>2, <2>5
       DEF Semaphore!PermitsConserved, Semaphore!NoIdlePermit, Semaphore!Cardinality, Cardinality
  <2>7. QED BY <2>3, <2>4, <2>6
<1>3. ASSUME NEW f \in Futures, Semaphore!PollGranted(f) PROVE SemaphoreInv'
  <2>1. Semaphore!TypeOK' BY <1>3 DEF Semaphore!TypeOK, Semaphore!PollGranted, Semaphore!Phase
  <2>2. Semaphore!ListMatches' BY <1>3
    DEF Semaphore!ListMatches, Semaphore!TypeOK, Semaphore!PollGranted
  <2>3. Semaphore!Owners' = Semaphore!Owners  BY <1>3
    DEF Semaphore!PollGranted, Semaphore!Owners, Semaphore!Owns, Semaphore!TypeOK
  <2>4. Semaphore!PermitsConserved' /\ Semaphore!NoIdlePermit'
    BY <1>3, <2>3
       DEF Semaphore!PermitsConserved, Semaphore!NoIdlePermit, Semaphore!PollGranted,
           Semaphore!Cardinality, Cardinality
  <2>5. QED BY <2>1, <2>2, <2>4
<1>4. ASSUME NEW f \in Futures, Semaphore!DropPermit(f) \/ Semaphore!CancelGranted(f)
      PROVE  SemaphoreInv'
  <2> DEFINE after == [sFut EXCEPT ![f] = "idle"]
  <2>1. /\ f \in Semaphore!Owners /\ Semaphore!ReleaseMultiple(1, after) /\ total' = total
        /\ sFut[f] # "waiting"
    BY <1>4 DEF Semaphore!DropPermit, Semaphore!CancelGranted, Semaphore!Owners, Semaphore!Owns
  <2>2. /\ after \in [Futures -> Semaphore!Phase]
        /\ \A g \in Futures : after[g] = "waiting" <=> sFut[g] = "waiting"
        /\ {g \in Futures : after[g] \in {"granted", "holding"}} = Semaphore!Owners \ {f}
    BY <2>1 DEF Semaphore!TypeOK, Semaphore!Phase, Semaphore!Owners, Semaphore!Owns
  <2>3. Cardinality(Semaphore!Owners \ {f}) + 1 = Cardinality(Semaphore!Owners)
    <3>1. Cardinality(Semaphore!Owners \ {f}) = Cardinality(Semaphore!Owners) - 1
      BY <2>1, OwnersFinite, FS_RemoveElement
    <3>2. QED BY <3>1, OwnersFinite
  <2>4. total' = total + 1 - 1 /\ total' \in Nat
    BY <2>1 DEF Semaphore!TypeOK
  <2> HIDE DEF after
  <2>5. QED BY <2>1, <2>2, <2>3, <2>4, ReleaseKeepsInv
<1>5. ASSUME NEW f \in Futures, Semaphore!CancelWaiting(f) PROVE SemaphoreInv'
  <2>1. f \in Semaphore!Members(sWaiters)  BY <1>5
    DEF Semaphore!CancelWaiting, Semaphore!ListMatches
  <2>2. /\ sWaiters' \in Seq(Futures) /\ Semaphore!Distinct(sWaiters')
        /\ Semaphore!Members(sWaiters') = Semaphore!Members(sWaiters) \ {f}
    BY <1>5, <2>1, SameLists, DropProperties
       DEF Semaphore!TypeOK, Semaphore!ListMatches, Semaphore!CancelWaiting
  <2>3. Semaphore!TypeOK' BY <1>5, <2>2
    DEF Semaphore!TypeOK, Semaphore!Phase, Semaphore!CancelWaiting
  <2>4. Semaphore!ListMatches' BY <1>5, <2>2
    DEF Semaphore!ListMatches, Semaphore!TypeOK, Semaphore!CancelWaiting
  <2>5. sWaiters # <<>>  BY <2>1 DEF Semaphore!Members
  <2>6. Semaphore!Owners' = Semaphore!Owners  BY <1>5
    DEF Semaphore!CancelWaiting, Semaphore!Owners, Semaphore!Owns, Semaphore!TypeOK
  <2>7. Semaphore!PermitsConserved' /\ Semaphore!NoIdlePermit'
    BY <1>5, <2>5, <2>6
       DEF Semaphore!PermitsConserved, Semaphore!NoIdlePermit, Semaphore!CancelWaiting,
           Semaphore!Cardinality, Cardinality
  <2>8. QED BY <2>3, <2>4, <2>7
<1>6. ASSUME NEW n \in 1 .. MaxPermits - total, Semaphore!OutOfBandRelease(n) PROVE SemaphoreInv'
  <2>1. n \in Nat /\ n > 0 /\ total \in Nat  BY DEF Semaphore!TypeOK
  <2>2. total' = total + n - 0 /\ total' \in Nat /\ Semaphore!ReleaseMultiple(n, sFut)
    BY <1>6, <2>1 DEF Semaphore!OutOfBandRelease
  <2>3. {f \in Futures : sFut[f] \in {"granted", "holding"}} = Semaphore!Owners
    BY DEF Semaphore!Owners, Semaphore!Owns
  <2>4. Cardinality(Semaphore!Owners) + 0 = Cardinality(Semaphore!Owners)
    BY OwnersFinite
  <2>5. sFut \in [Futures -> Semaphore!Phase]  BY DEF Semaphore!TypeOK
  <2>6. QED BY <2>1, <2>2, <2>3, <2>4, <2>5, ReleaseKeepsInv
<1>7. CASE UNCHANGED Semaphore!vars
  BY <1>7
     DEF Semaphore!vars, Semaphore!TypeOK, Semaphore!ListMatches, Semaphore!PermitsConserved,
         Semaphore!NoIdlePermit, Semaphore!Owners, Semaphore!Owns, Semaphore!Cardinality,
         Cardinality
<1>8. QED
  BY <1>1, <1>2, <1>3, <1>4, <1>5, <1>6, <1>7 DEF Semaphore!Next, Semaphore!Acquire

\* Permits are never lost or made up, and nobody waits while one is available.
THEOREM SemaphoreCorrect ==
  Semaphore!Spec =>
    [](/\ Semaphore!TypeOK /\ Semaphore!ListMatches
       /\ Semaphore!PermitsConserved /\ Semaphore!NoIdlePermit)
<1>1. QED BY SemaphoreInitInv, SemaphoreNextInv, PTL DEF Semaphore!Spec, SemaphoreInv

\* A step that grants a permit to a future grants one to everybody ahead of it.
LEMMA InOrderStep ==
  ASSUME SemaphoreInv, [Semaphore!Next]_(Semaphore!vars),
         NEW i \in 1 .. Len(sWaiters), NEW j \in 1 .. Len(sWaiters),
         i < j, sFut'[sWaiters[j]] = "granted"
  PROVE  sFut'[sWaiters[i]] # "waiting"
<1> DEFINE a == sWaiters[i]
           b == sWaiters[j]
<1>1. /\ a \in Futures /\ b \in Futures /\ sFut[a] = "waiting" /\ sFut[b] = "waiting"
      /\ sFut \in [Futures -> Semaphore!Phase] /\ Len(sWaiters) \in Nat
  BY DEF SemaphoreInv, Semaphore!TypeOK, Semaphore!ListMatches, Semaphore!Members
<1>2. \A k \in 1 .. Len(sWaiters) : sWaiters[k] = b => k = j
  BY DEF SemaphoreInv, Semaphore!ListMatches, Semaphore!Distinct
<1>3. ASSUME NEW f \in Futures,
             Semaphore!Acquire(f) \/ Semaphore!PollGranted(f) \/ Semaphore!CancelWaiting(f)
      PROVE  FALSE
  BY <1>1, <1>3
     DEF Semaphore!Acquire, Semaphore!TryAcquire, Semaphore!PollGranted, Semaphore!CancelWaiting
<1>4. ASSUME NEW n \in Nat, NEW after \in [Futures -> Semaphore!Phase],
             Semaphore!ReleaseMultiple(n, after),
             after[b] = sFut[b]
      PROVE  sFut'[a] # "waiting"
  <2> DEFINE k == Semaphore!Minimum(n, Len(sWaiters))
  <2>1. k \in 0 .. Len(sWaiters)  BY <1>1 DEF Semaphore!Minimum
  <2>2. sFut' = [f \in Futures |-> IF f \in Semaphore!FirstN(sWaiters, k) THEN "granted" ELSE after[f]]
    BY <1>4 DEF Semaphore!ReleaseMultiple
  <2> HIDE DEF k
  <2>3. b \in Semaphore!FirstN(sWaiters, k)  BY <1>1, <1>4, <2>2
  <2>4. j <= k  BY <1>1, <1>2, <2>1, <2>3 DEF Semaphore!FirstN
  <2>5. a \in Semaphore!FirstN(sWaiters, k)  BY <2>1, <2>4 DEF Semaphore!FirstN
  <2>6. QED BY <1>1, <2>2, <2>5
<1>5. ASSUME NEW f \in Futures, Semaphore!DropPermit(f) \/ Semaphore!CancelGranted(f)
      PROVE  sFut'[a] # "waiting"
  <2>1. /\ [sFut EXCEPT ![f] = "idle"] \in [Futures -> Semaphore!Phase] /\ sFut[f] # "waiting"
        /\ Semaphore!ReleaseMultiple(1, [sFut EXCEPT ![f] = "idle"])
    BY <1>1, <1>5 DEF Semaphore!DropPermit, Semaphore!CancelGranted, Semaphore!Phase
  <2>2. [sFut EXCEPT ![f] = "idle"][b] = sFut[b]  BY <1>1, <2>1
  <2>3. QED BY <1>4, <2>1, <2>2
<1>6. ASSUME NEW n \in 1 .. MaxPermits - total, Semaphore!OutOfBandRelease(n)
      PROVE  sFut'[a] # "waiting"
  BY <1>1, <1>4, <1>6, SemaphoreAssumption
     DEF Semaphore!OutOfBandRelease, SemaphoreInv, Semaphore!TypeOK
<1>7. CASE UNCHANGED Semaphore!vars  BY <1>1, <1>7 DEF Semaphore!vars
<1>8. QED BY <1>3, <1>5, <1>6, <1>7 DEF Semaphore!Next

\* Waiters get their permits in the order in which they began to wait.
THEOREM SemaphoreServedInOrder == Semaphore!Spec => Semaphore!ServedInOrder
<1>1. SemaphoreInv /\ [Semaphore!Next]_(Semaphore!vars) =>
        [\A i, j \in 1 .. Len(sWaiters) :
           i < j /\ sFut'[sWaiters[j]] = "granted" => sFut'[sWaiters[i]] # "waiting"]_(Semaphore!vars)
  BY InOrderStep
<1>2. QED BY <1>1, SemaphoreInitInv, SemaphoreNextInv, PTL
  DEF Semaphore!Spec, Semaphore!ServedInOrder

-----------------------------------------------------------------------------
(* The read-write lock, whose invariant is proved in RwLockProofs, and the *)
(* three locks together.                                                   *)

\* Splitting is a constant of PrimitivesNext only: with it or without, the invariant of a
\* RwLock is the same formula.
LEMMA RwLockPart ==
  /\ PrimitivesInit => SplitP!Init
  /\ [PrimitivesNext]_primitivesVars => [SplitP!Next]_(SplitP!vars) \/ [WholeP!Next]_(WholeP!vars)
  /\ SplitP!IndInv <=> WholeP!IndInv
  /\ SplitP!IndInv => SplitP!CounterMatches /\ SplitP!Exclusion /\ SplitP!QueueIsBlocked
  /\ SplitP!CounterMatches /\ SplitP!Exclusion /\ SplitP!QueueIsBlocked
       => Splittable!CounterMatches /\ Splittable!Exclusion /\ Splittable!QueueIsBlocked
<1>1. PrimitivesInit => SplitP!Init
  BY DEF PrimitivesInit, Whole!Init, SplitP!Init
<1>2. Splittable!Next => SplitP!Next
  BY DEF
    Splittable!LockShared, SplitP!LockShared, Splittable!LockExclusive,
    SplitP!LockExclusive, Splittable!TryLockShared, SplitP!TryLockShared,
    Splittable!TryLockExclusive, SplitP!TryLockExclusive, Splittable!PollGranted,
    SplitP!PollGranted, Splittable!DropGuard, SplitP!DropGuard, Splittable!CancelGranted,
    SplitP!CancelGranted, Splittable!CancelShared, SplitP!CancelShared,
    Splittable!CancelExclusive, SplitP!CancelExclusive, Splittable!MapSplit,
    SplitP!MapSplit, Splittable!Release, SplitP!Release, Splittable!ReleaseShared,
    SplitP!ReleaseShared, Splittable!ReleaseExclusive, SplitP!ReleaseExclusive,
    Splittable!WakeShared, SplitP!WakeShared, Splittable!StopsAfter, SplitP!StopsAfter,
    Splittable!Wake, SplitP!Wake, Splittable!HeadIs, SplitP!HeadIs, Splittable!Take,
    SplitP!Take, Splittable!Join, SplitP!Join, Splittable!SharedFree, SplitP!SharedFree,
    Splittable!ExclusiveFree, SplitP!ExclusiveFree, Splittable!Next, SplitP!Next,
    Splittable!Without, SplitP!Without, Splittable!WakeN, SplitP!WakeN, Splittable!FirstN,
    SplitP!FirstN
<1>3. Whole!Next => WholeP!Next
  BY DEF
    Whole!LockShared, WholeP!LockShared, Whole!LockExclusive, WholeP!LockExclusive,
    Whole!TryLockShared, WholeP!TryLockShared, Whole!TryLockExclusive,
    WholeP!TryLockExclusive, Whole!PollGranted, WholeP!PollGranted, Whole!DropGuard,
    WholeP!DropGuard, Whole!CancelGranted, WholeP!CancelGranted, Whole!CancelShared,
    WholeP!CancelShared, Whole!CancelExclusive, WholeP!CancelExclusive, Whole!MapSplit,
    WholeP!MapSplit, Whole!Release, WholeP!Release, Whole!ReleaseShared,
    WholeP!ReleaseShared, Whole!ReleaseExclusive, WholeP!ReleaseExclusive,
    Whole!WakeShared, WholeP!WakeShared, Whole!StopsAfter, WholeP!StopsAfter, Whole!Wake,
    WholeP!Wake, Whole!HeadIs, WholeP!HeadIs, Whole!Take, WholeP!Take, Whole!Join,
    WholeP!Join, Whole!SharedFree, WholeP!SharedFree, Whole!ExclusiveFree,
    WholeP!ExclusiveFree, Whole!Next, WholeP!Next, Whole!Without, WholeP!Without,
    Whole!WakeN, WholeP!WakeN, Whole!FirstN, WholeP!FirstN
<1>4. [PrimitivesNext]_primitivesVars => [SplitP!Next]_(SplitP!vars) \/ [WholeP!Next]_(WholeP!vars)
  BY <1>2, <1>3 DEF PrimitivesNext, primitivesVars, rwlockVars, SplitP!vars, WholeP!vars
<1>5. SplitP!IndInv <=> WholeP!IndInv
  BY DEF
    SplitP!IndInv, WholeP!IndInv, SplitP!TypeOK, WholeP!TypeOK, SplitP!Phase, WholeP!Phase,
    SplitP!ListMatches, WholeP!ListMatches, SplitP!Distinct, WholeP!Distinct,
    SplitP!Members, WholeP!Members, SplitP!CounterMatches, WholeP!CounterMatches,
    SplitP!QueueIsBlocked, WholeP!QueueIsBlocked, SplitP!Owners, WholeP!Owners,
    SplitP!Owns, WholeP!Owns, SplitP!Cardinality, WholeP!Cardinality
<1>6. SplitP!IndInv => SplitP!CounterMatches /\ SplitP!Exclusion /\ SplitP!QueueIsBlocked
  BY RwLockAssumption DEF SplitP!IndInv, SplitP!TypeOK, SplitP!CounterMatches, SplitP!Exclusion
<1>7. SplitP!CounterMatches /\ SplitP!Exclusion /\ SplitP!QueueIsBlocked
        => Splittable!CounterMatches /\ Splittable!Exclusion /\ Splittable!QueueIsBlocked
  BY DEF
    Splittable!CounterMatches, SplitP!CounterMatches, Splittable!Exclusion,
    SplitP!Exclusion, Splittable!QueueIsBlocked, SplitP!QueueIsBlocked, Splittable!Owners,
    SplitP!Owners, Splittable!Owns, SplitP!Owns, Splittable!Cardinality, SplitP!Cardinality
<1>8. QED BY <1>1, <1>4, <1>5, <1>6, <1>7

\* A step of the primitives is a step of each lock, or leaves it alone.
LEMMA LockSteps ==
  /\ PrimitivesInit => Mutex!Init /\ Semaphore!Init
  /\ [PrimitivesNext]_primitivesVars =>
       [Mutex!Next]_(Mutex!vars) /\ [Semaphore!Next]_(Semaphore!vars)
BY
   DEF PrimitivesInit, PrimitivesNext, primitivesVars, mutexVars, semaphoreVars, Mutex!vars,
       Semaphore!vars

\* The invariants of the three locks, proved in their own modules.
LocksInv == MutexInv /\ SemaphoreInv /\ SplitP!IndInv

LEMMA LocksInvariant == PrimitivesSpec => []LocksInv
<1> USE SemaphoreAssumption, RwLockAssumption
    DEF IsFiniteSet,   SplitP!IsFiniteSet,
        WholeP!IsFiniteSet
<1>1. PrimitivesInit => LocksInv
  <2>1. Mutex!Init => MutexInv  BY MutexInitInv
  <2>2. Semaphore!Init => SemaphoreInv  BY SemaphoreInitInv
  <2>3. SplitP!Init => SplitP!IndInv  BY SplitP!InitInv
  <2>4. QED BY <2>1, <2>2, <2>3, LockSteps, RwLockPart DEF LocksInv
<1>2. LocksInv /\ [PrimitivesNext]_primitivesVars => LocksInv'
  <2>1. MutexInv /\ [Mutex!Next]_(Mutex!vars) => MutexInv'  BY MutexNextInv
  <2>2. SemaphoreInv /\ [Semaphore!Next]_(Semaphore!vars) => SemaphoreInv'
    BY SemaphoreNextInv
  <2>3. SplitP!IndInv /\ [SplitP!Next]_(SplitP!vars) => SplitP!IndInv'  BY SplitP!NextInv
  <2>4. WholeP!IndInv /\ [WholeP!Next]_(WholeP!vars) => WholeP!IndInv'  BY WholeP!NextInv
  <2>5. (SplitP!IndInv <=> WholeP!IndInv)'  BY RwLockPart, PTL
  <2>6. QED BY <2>1, <2>2, <2>3, <2>4, <2>5, LockSteps, RwLockPart DEF LocksInv
<1>3. QED BY <1>1, <1>2, PTL DEF PrimitivesSpec

\* Exclusion, for every number of futures, permits and readers and whatever is
\* cancelled: nobody owns a Mutex or RwLock together with somebody it excludes,
\* and permits are conserved.
THEOREM ExclusionHolds == PrimitivesSpec => []Exclusion
<1>1. MutexInv => Mutex!MutualExclusion  BY DEF MutexInv
<1>2. SemaphoreInv => Semaphore!PermitsConserved /\ Semaphore!NoIdlePermit
  BY DEF SemaphoreInv
<1>3. LocksInv => Exclusion
  BY <1>1, <1>2, LockSteps, RwLockPart DEF LocksInv, Exclusion
<1>4. QED BY <1>3, LocksInvariant, PTL

\* No permit lies idle while a future waits, and whoever heads the wait list of a
\* RwLock could not have the lock now, with any number of futures.
THEOREM QueueIsBlockedHolds == PrimitivesSpec => []QueueIsBlocked
<1>1. SemaphoreInv => Semaphore!PermitsConserved /\ Semaphore!NoIdlePermit
  BY DEF SemaphoreInv
<1>2. LocksInv => QueueIsBlocked
  BY <1>1, LockSteps, RwLockPart DEF LocksInv, QueueIsBlocked
<1>3. QED BY <1>2, LocksInvariant, PTL

\* Nobody gets in between, whatever the number of futures: arrivals do not take a
\* Mutex that is owned or waited for, acquire serves in order of arrival, a writer
\* is granted a RwLock alone and only a split guard lets a reader overtake.
THEOREM NoInterloperHolds == PrimitivesSpec => NoInterloper
<1> USE SemaphoreAssumption, RwLockAssumption
    DEF IsFiniteSet,   SplitP!IsFiniteSet,
        WholeP!IsFiniteSet
<1>1. LocksInv /\ [PrimitivesNext]_primitivesVars =>
        [\A f \in Futures :
           mFut[f] = "idle" /\ mFut'[f] = "holding"
             => mWaiters = <<>> /\ \A g \in Futures : ~Mutex!Owns(g)]_(Mutex!vars)
  <2>1. MutexInv /\ [Mutex!Next]_(Mutex!vars) =>
          [\A f \in Futures :
             mFut[f] = "idle" /\ mFut'[f] = "holding"
               => mWaiters = <<>> /\ \A g \in Futures : ~Mutex!Owns(g)]_(Mutex!vars)
    BY InterloperStep
  <2>2. QED BY <2>1, LockSteps DEF LocksInv, Mutex!Owns, Mutex!vars
<1>2. LocksInv /\ [PrimitivesNext]_primitivesVars =>
        [\A i, j \in 1 .. Len(sWaiters) :
           i < j /\ sFut'[sWaiters[j]] = "granted"
             => sFut'[sWaiters[i]] # "waiting"]_(Semaphore!vars)
  BY InOrderStep, LockSteps DEF LocksInv
<1>3. LocksInv /\ [PrimitivesNext]_primitivesVars =>
        [\A f \in Futures :
           rFut[f] = "waiting" /\ rFut'[f] = "granted" /\ access[f] = "Exclusive"
             => \A g \in Futures \ {f} : rFut'[g] \notin {"granted", "holding"}]_(Splittable!vars)
  BY SplitP!WriterAloneStep, WholeP!WriterAloneStep, RwLockPart DEF LocksInv
<1>4. LocksInv /\ [PrimitivesNext]_primitivesVars =>
        [\A g \in Futures :
           /\ rFut[g] = "idle" /\ rFut'[g] = "holding" /\ access'[g] = "Shared"
           /\ \E w \in Futures : rFut[w] = "waiting"
           => \E f \in Futures :
                rFut[f] = "holding" /\ access[f] = "Shared" /\ Splitting]_(Splittable!vars)
  BY SplitP!OvertakingStep, WholeP!OvertakingStep, RwLockPart DEF LocksInv
<1>5. QED
  BY <1>1, <1>2, <1>3, <1>4, LocksInvariant, PTL
     DEF PrimitivesSpec, NoInterloper, Mutex!NoInterloper, Semaphore!ServedInOrder,
         Splittable!WriterIsAlone, Splittable!NoReaderOvertakes

-----------------------------------------------------------------------------
(* The watch.                                                              *)

\* A receiver's count lags behind the shared one by the updates it did not see,
\* modulo the width of the word.
Lags(r) ==
    \/ version = seen[r] + news[r]
    \/ version = seen[r] + news[r] - Versions

\* While a send_modify runs every receiver can take one more update.
RoomToSend == borrow.kind = "mut" => Watch!InStep

WatchInv ==
    /\ Watch!TypeOK
    /\ \A r \in Receivers : Lags(r)
    /\ RoomToSend
    /\ Watch!NoMissedUpdate

\* Counting up and down within a word of the version.
LEMMA WordSteps ==
  \A x \in Watch!Words :
    /\ (x + 1) % Versions = IF x = Versions - 1 THEN 0 ELSE x + 1
    /\ (x - 1) % Versions = IF x = 0 THEN Versions - 1 ELSE x - 1
BY WatchAssumption DEF Watch!Words

\* The count tells an update from none because a receiver lags by less than a
\* whole turn.
LEMMA LagIsSeen == WatchInv => Watch!ChangeIsSeen
BY WatchAssumption
   DEF WatchInv, Watch!TypeOK, Watch!Words, Watch!ChangeIsSeen, Watch!IsChanged, Lags

LEMMA WatchStep == WatchInv /\ [Watch!Next]_watchVars => WatchInv'
<1> SUFFICES ASSUME WatchInv, [Watch!Next]_watchVars PROVE WatchInv'
  OBVIOUS
<1> USE WatchAssumption
    DEF WatchInv, Watch!TypeOK, Watch!Words, Lags, RoomToSend, Watch!InStep, Watch!NoMissedUpdate,
        Watch!Free
<1>1. CASE Watch!SendBegin  BY <1>1 DEF Watch!SendBegin
<1>2. CASE Watch!SendEnd
  <2>1. version' = IF version = Versions - 1 THEN 0 ELSE version + 1
    BY <1>2, WordSteps DEF Watch!SendEnd
  <2>2. news' = [r \in Receivers |-> news[r] + 1] /\ \A r \in Receivers : news[r] < Versions - 1
    BY <1>2 DEF Watch!SendEnd
  <2>3. news' \in [Receivers -> 0 .. Versions - 1] /\ \A r \in Receivers : Lags(r)'
    BY <1>2, <2>1, <2>2 DEF Watch!SendEnd
  <2>4. QED BY <1>2, <2>1, <2>3 DEF Watch!SendEnd
<1>3. ASSUME NEW r \in Receivers, Watch!Changed(r) PROVE WatchInv'
  <2>1. CASE Watch!IsChanged(r)
    BY <1>3, <2>1 DEF Watch!Changed, Watch!MarkAsSeen
  <2>2. CASE ~Watch!IsChanged(r)
    <3>1. news[r] = 0  BY <2>2, LagIsSeen DEF Watch!ChangeIsSeen
    <3>2. QED BY <1>3, <2>2, <3>1 DEF Watch!Changed
  <2>3. QED BY <2>1, <2>2
<1>4. ASSUME NEW r \in Receivers, Watch!CancelChanged(r) PROVE WatchInv'
  BY <1>4 DEF Watch!CancelChanged
<1>5. ASSUME NEW r \in Receivers, Watch!GlimpseBegin(r) PROVE WatchInv'
  BY <1>5 DEF Watch!GlimpseBegin
<1>6. ASSUME NEW r \in Receivers, Watch!GlimpseEnd(r) PROVE WatchInv'
  BY <1>6 DEF Watch!GlimpseEnd, Watch!Returned
<1>7. ASSUME NEW r \in Receivers, Watch!GlimpseAndUpdateEnd(r) PROVE WatchInv'
  BY <1>7 DEF Watch!GlimpseAndUpdateEnd, Watch!Returned, Watch!MarkAsSeen
<1>8. ASSUME NEW r \in Receivers, Watch!MarkAsUnseen(r) PROVE WatchInv'
  BY <1>8, WordSteps DEF Watch!MarkAsUnseen
<1>9. CASE UNCHANGED watchVars  BY <1>9 DEF watchVars
<1>10. QED
  BY <1>1, <1>2, <1>3, <1>4, <1>5, <1>6, <1>7, <1>8, <1>9 DEF Watch!Next

\* No receiver of a Watch misses an update, for any number of receivers and any
\* width of the count that leaves room for the updates a receiver may lag.
THEOREM NoMissedUpdateHolds == PrimitivesSpec => []NoMissedUpdate
<1>1. PrimitivesInit => WatchInv
  BY WatchAssumption
     DEF PrimitivesInit, WatchInv, Watch!Init, Watch!TypeOK, Watch!Words, Watch!Free, Lags, RoomToSend,
         Watch!NoMissedUpdate
<1>2. [PrimitivesNext]_primitivesVars => [Watch!Next]_watchVars  BY
  DEF PrimitivesNext, primitivesVars
<1>3. WatchInv => NoMissedUpdate  BY LagIsSeen DEF WatchInv, NoMissedUpdate
<1>4. QED BY <1>1, <1>2, <1>3, WatchStep, PTL DEF PrimitivesSpec

-----------------------------------------------------------------------------
(* Time.                                                                   *)

\* The two words hold the ticks, less the carry the handler still owes; now()
\* holds no epoch from the future, and what it has read adds up to a time of
\* this call unless the epoch moved on.
ClockInv ==
    /\ TICK \in 0 .. Radix - 1 /\ EPOCH \in 0 .. Radix - 1 /\ e \in Int /\ t \in Int
    /\ isr \in BOOLEAN /\ ticks \in 0 .. ClockTime /\ ret \in Int /\ began \in Int
    /\ ticks = EPOCH * Radix + TICK + (IF isr THEN Radix ELSE 0)
    /\ isr => TICK = 0
    /\ ret <= ticks
    /\ clockPc \in {"tick", "epoch", "again"} => ret <= began /\ began <= ticks
    /\ clockPc \in {"tick", "epoch"} => e <= EPOCH
    /\ clockPc = "epoch" /\ e = EPOCH => began <= e * Radix + t /\ e * Radix + t <= ticks

\* There is an epoch left to carry into.
LEMMA RoomToCarry == ClockInv /\ isr => EPOCH + 1 < Radix
<1> SUFFICES ASSUME ClockInv, isr, EPOCH = Radix - 1 PROVE FALSE
  BY TimeAssumption DEF ClockInv
<1>1. ticks = (Radix - 1) * Radix + Radix  BY TimeAssumption DEF ClockInv
<1>2. (Radix - 1) * Radix + Radix = Radix * Radix  BY TimeAssumption
<1>3. QED BY <1>1, <1>2, TimeAssumption DEF ClockInv

LEMMA ClockStep == ClockInv /\ [Clock!Next]_clockVars => ClockInv'
<1> SUFFICES ASSUME ClockInv, [Clock!Next]_clockVars PROVE ClockInv'
  OBVIOUS
<1> USE TimeAssumption DEF ClockInv
<1>1. CASE Clock!SysTick
  <2>1. TICK' = IF TICK = Radix - 1 THEN 0 ELSE TICK + 1  BY <1>1 DEF Clock!SysTick
  <2>2. isr' \in BOOLEAN /\ (isr' <=> TICK = Radix - 1)  BY <1>1 DEF Clock!SysTick
  <2>3. ~isr /\ ticks' = ticks + 1 /\ UNCHANGED <<EPOCH, clockPc, e, t, ret, began>>
    BY <1>1 DEF Clock!SysTick
  <2>4. ticks' = EPOCH' * Radix + TICK' + (IF isr' THEN Radix ELSE 0)
    BY <2>1, <2>2, <2>3
  <2>5. ticks' \in 0 .. ClockTime  BY <1>1 DEF Clock!SysTick
  <2>6. clockPc' = "epoch" /\ e' = EPOCH' =>
          began' <= e' * Radix + t' /\ e' * Radix + t' <= ticks'
    <3>1. e * Radix \in Int  OBVIOUS
    <3>2. QED BY <2>3, <3>1
  <2>7. QED BY <2>1, <2>2, <2>3, <2>4, <2>5, <2>6
<1>2. CASE Clock!Carry
  <2>1. EPOCH' = EPOCH + 1 /\ EPOCH' \in 0 .. Radix - 1
    BY <1>2, RoomToCarry DEF Clock!Carry
  <2>2. EPOCH' * Radix = EPOCH * Radix + Radix  BY <2>1
  <2>3. /\ isr /\ ~isr' /\ isr' \in BOOLEAN
        /\ UNCHANGED <<TICK, clockPc, e, t, ret, ticks, began>>
    BY <1>2 DEF Clock!Carry
  <2>4. ticks' = EPOCH' * Radix + TICK' + (IF isr' THEN Radix ELSE 0)
    BY <2>2, <2>3
  <2>5. clockPc' \in {"tick", "epoch"} => e' < EPOCH'  BY <2>1, <2>3
  <2>6. QED BY <2>1, <2>3, <2>4, <2>5
<1>3. CASE Clock!LoadEpoch  BY <1>3 DEF Clock!LoadEpoch
<1>4. CASE Clock!LoadTick  BY <1>4 DEF Clock!LoadTick
<1>5. CASE Clock!ReloadEpoch  BY <1>5 DEF Clock!ReloadEpoch
<1>6. CASE Clock!Again  BY <1>6 DEF Clock!Again
<1>7. CASE UNCHANGED clockVars  BY <1>7 DEF clockVars
<1>8. QED BY <1>1, <1>2, <1>3, <1>4, <1>5, <1>6, <1>7 DEF Clock!Next

\* A node of the timer list that fired was due; after the scan of a round none
\* that is due is left in it; a gate is awaited for its next release.
TimersInv ==
    /\ now \in Nat /\ deadline \in [Sleepers -> Int]
    /\ gate \in [Sleepers -> [next : Int, start : Int, releases : Nat]]
    /\ outcome \in [Sleepers -> {"none", "slept", "Some", "None"}]
    /\ limiter \in [Sleepers -> {"fresh", "listed", "fired"}]
    /\ job \in [Sleepers -> Timers!Jobs]
    /\ \A k \in Sleepers :
         /\ limiter[k] = "fired" => deadline[k] <= now
         /\ limiter[k] = "listed" /\ phase = "polls" => now < deadline[k]
         /\ job[k] = "gate" => deadline[k] = gate[k].next
    /\ Timers!GateKeepsPhase

LEMMA TimersStep == TimersInv /\ [Timers!Next]_timersVars => TimersInv'
<1> SUFFICES ASSUME TimersInv, [Timers!Next]_timersVars PROVE TimersInv'
  OBVIOUS
<1> USE TimeAssumption DEF TimersInv, Timers!GateKeepsPhase, Timers!Jobs
<1>1. CASE Timers!Tick  BY <1>1 DEF Timers!Tick
<1>2. CASE Timers!Scan  BY <1>2 DEF Timers!Scan, Timers!Due
<1>3. CASE Timers!EndRound  BY <1>3 DEF Timers!EndRound
<1>4. CASE Timers!BeginRound  BY <1>4 DEF Timers!BeginRound
<1>5. ASSUME NEW k \in Sleepers, NEW j \in {"sleep", "limited", "gate"}, NEW at \in Int,
             j = "gate" => at = gate[k].next, Timers!Create(k, j, at)
      PROVE  TimersInv'
  BY <1>5 DEF Timers!Create
<1>6. ASSUME NEW k \in Sleepers, NEW d \in 0 .. MaxDelay, Timers!NewGate(k, d) PROVE TimersInv'
  BY <1>6 DEF Timers!NewGate
<1>7. ASSUME NEW k \in Sleepers, NEW how \in {"none", "slept", "Some", "None"},
             Timers!Resolve(k, how), UNCHANGED gate
      PROVE  TimersInv'
  BY <1>7 DEF Timers!Resolve
<1>8. ASSUME NEW k \in Sleepers, phase = "polls", ~Timers!LimiterReady(k), Timers!JoinTimerList(k),
             UNCHANGED <<now, phase, job, deadline, outcome, gate>>
      PROVE  TimersInv'
  BY <1>8 DEF Timers!JoinTimerList, Timers!LimiterReady
<1>9. ASSUME NEW k \in Sleepers, Timers!PollGate(k), Timers!LimiterReady(k) PROVE TimersInv'
  <2>1. now >= gate[k].next
    BY <1>9 DEF Timers!PollGate, Timers!LimiterReady
  <2> DEFINE G == [next |-> gate[k].next + Interval, start |-> gate[k].start,
                   releases |-> gate[k].releases + 1]
  <2>2. gate[k] \in [next : Int, start : Int, releases : Nat]  OBVIOUS
  <2>3. gate' = [gate EXCEPT ![k] = G]
    BY <1>9 DEF Timers!PollGate
  <2>4. G.next = gate[k].next + Interval /\ G.start = gate[k].start
        /\ G.releases = gate[k].releases + 1 /\ G.releases - 1 = gate[k].releases
    BY <2>2
  <2>5. G \in [next : Int, start : Int, releases : Nat]  BY <2>2
  <2>6. (gate[k].releases + 1) * Interval = gate[k].releases * Interval + Interval
    BY <2>2
  <2> HIDE DEF G
  <2>7. G.next = G.start + G.releases * Interval /\ now >= G.start + (G.releases - 1) * Interval
    BY <2>1, <2>2, <2>4, <2>6
  <2>8. phase = "polls" /\ Timers!Resolve(k, "slept")  BY <1>9 DEF Timers!PollGate
  <2>9. Timers!GateKeepsPhase'
    BY <2>3, <2>7, <2>8 DEF Timers!Resolve
  <2>10. QED BY <2>3, <2>5, <2>8, <2>9 DEF Timers!Resolve
<1>10. CASE UNCHANGED timersVars  BY <1>10 DEF timersVars
<1>11. QED
  <2>1. ASSUME NEW k \in Sleepers, NEW d \in 0 .. MaxDelay,
               Timers!SleepFor(k, d) \/ Timers!WithTimeout(k, d)
        PROVE  TimersInv'
    BY <1>5, <2>1 DEF Timers!SleepFor, Timers!WithTimeout
  <2>2. ASSUME NEW k \in Sleepers, Timers!NextTime(k) PROVE TimersInv'
    BY <1>5, <2>2 DEF Timers!NextTime
  <2>3. ASSUME NEW k \in Sleepers, Timers!PollSleep(k) PROVE TimersInv'
    BY <1>7, <1>8, <2>3 DEF Timers!PollSleep
  <2>4. ASSUME NEW k \in Sleepers, Timers!PollLimited(k) PROVE TimersInv'
    BY <1>7, <1>8, <2>4 DEF Timers!PollLimited
  <2>5. ASSUME NEW k \in Sleepers, Timers!PollGate(k) PROVE TimersInv'
    BY <1>8, <1>9, <2>5 DEF Timers!PollGate
  <2>6. ASSUME NEW k \in Sleepers, Timers!Cancel(k) PROVE TimersInv'
    BY <1>7, <2>6 DEF Timers!Cancel
  <2>7. QED
    BY <1>1, <1>2, <1>3, <1>4, <1>6, <1>10, <2>1, <2>2, <2>3, <2>4, <2>5, <2>6 DEF Timers!Next

\* How an await of task k ends.
LEMMA AwaitEnds ==
  ASSUME TimersInv, [Timers!Next]_timersVars, NEW k \in Sleepers, outcome'[k] # outcome[k]
  PROVE  /\ outcome'[k] = "Some" => now < deadline[k]
         /\ outcome'[k] \in {"slept", "None"} => now >= deadline[k]
<1> USE TimeAssumption DEF TimersInv
<1>1. ASSUME NEW m \in Sleepers, Timers!PollSleep(m) \/ Timers!PollGate(m) \/ Timers!PollLimited(m)
      PROVE  /\ m = k /\ phase = "polls"
             /\ outcome'[k] = "Some" <=> ~Timers!LimiterReady(k)
             /\ outcome'[k] \in {"slept", "None"} <=> Timers!LimiterReady(k)
  BY <1>1 DEF Timers!PollSleep, Timers!PollGate, Timers!PollLimited, Timers!Resolve
<1>2. ASSUME outcome'[k] # "none" PROVE \E m \in Sleepers : Timers!PollSleep(m) \/ Timers!PollGate(m) \/ Timers!PollLimited(m)
  BY <1>2 DEF Timers!Next, Timers!Tick, Timers!Scan, Timers!EndRound, Timers!BeginRound,
     Timers!SleepFor, Timers!WithTimeout, Timers!NextTime, Timers!Create, Timers!NewGate,
     Timers!Cancel, Timers!Resolve, timersVars
<1>3. phase = "polls" => (Timers!LimiterReady(k) <=> now >= deadline[k])
  BY DEF Timers!LimiterReady
<1>4. QED BY <1>1, <1>2, <1>3

\* Time is kept, whatever the size of a word, the number of tasks and where the
\* handler comes: now() tells a time of the call and never runs backwards,
\* deadlines hold, nothing ends early and gates do not drift.
THEOREM TimeKeptHolds == PrimitivesSpec => TimeKept
<1>1. PrimitivesInit => ClockInv /\ TimersInv
  <2>1. Clock!Init => ClockInv
    <3> SUFFICES ASSUME Clock!Init PROVE ClockInv
      OBVIOUS
    <3>1. 0 * Radix + 0 + 0 = 0 /\ 0 \in 0 .. Radix - 1 /\ 0 \in 0 .. ClockTime
      BY TimeAssumption
    <3>2. ticks = EPOCH * Radix + TICK + (IF isr THEN Radix ELSE 0)  BY <3>1 DEF Clock!Init
    <3>3. isr \in BOOLEAN /\ ~isr  BY DEF Clock!Init
    <3>4. /\ TICK = 0 /\ EPOCH = 0 /\ e = 0 /\ t = 0 /\ ret = 0 /\ ticks = 0 /\ began = 0
          /\ clockPc = "idle"
      BY DEF Clock!Init
    <3>5. QED BY <3>1, <3>2, <3>3, <3>4 DEF ClockInv
  <2>2. 0 * Interval = 0  BY TimeAssumption
  <2>3. Timers!Init => TimersInv
    BY <2>2, TimeAssumption DEF Timers!Init, TimersInv, Timers!GateKeepsPhase, Timers!Jobs
  <2>4. QED BY <2>1, <2>3 DEF PrimitivesInit
<1>2. [PrimitivesNext]_primitivesVars => [Clock!Next]_clockVars /\ [Timers!Next]_timersVars
  BY DEF PrimitivesNext, primitivesVars, clockVars, timersVars
<1>3. ClockInv /\ [Clock!Next]_clockVars =>
        /\ [clockPc = "epoch" /\ clockPc' = "idle" => began <= ret' /\ ret' <= ticks]_(Clock!vars)
        /\ [ret <= ret']_(Clock!vars)
  <2>1. ASSUME ClockInv, Clock!ReloadEpoch
        PROVE  /\ clockPc' = "idle" => began <= ret' /\ ret' <= ticks
               /\ ret <= ret'
    BY <2>1, TimeAssumption DEF ClockInv, Clock!ReloadEpoch
  <2>2. ASSUME ClockInv, [Clock!Next]_clockVars, ~Clock!ReloadEpoch
        PROVE  ret' = ret /\ ~(clockPc = "epoch" /\ clockPc' = "idle")
    BY <2>2 DEF Clock!Next, Clock!SysTick, Clock!Carry, Clock!LoadEpoch, Clock!LoadTick,
      Clock!Again, clockVars
  <2>3. QED BY <2>1, <2>2 DEF ClockInv
<1>4. TimersInv /\ [Timers!Next]_timersVars =>
        /\ [\A k \in Sleepers :
              outcome[k] # "Some" /\ outcome'[k] = "Some" => now < deadline[k]]_(Timers!vars)
        /\ [\A k \in Sleepers :
              outcome'[k] \in {"slept", "None"} /\ outcome[k] = "none"
                => now >= deadline[k]]_(Timers!vars)
  BY AwaitEnds
<1>5. TimersInv => Timers!GateKeepsPhase  BY DEF TimersInv
<1>6. PrimitivesSpec => [](ClockInv /\ TimersInv)
  BY <1>1, <1>2, ClockStep, TimersStep, PTL DEF PrimitivesSpec
<1>7. PrimitivesSpec => Clock!NowIsNow  BY <1>2, <1>3, <1>6, PTL DEF PrimitivesSpec, Clock!NowIsNow
<1>8. PrimitivesSpec => Clock!Monotonic  BY <1>2, <1>3, <1>6, PTL
  DEF PrimitivesSpec, Clock!Monotonic
<1>9. PrimitivesSpec => Timers!DeadlineHolds  BY <1>2, <1>4, <1>6, PTL
  DEF PrimitivesSpec, Timers!DeadlineHolds
<1>10. PrimitivesSpec => Timers!NotEarly  BY <1>2, <1>4, <1>6, PTL
  DEF PrimitivesSpec, Timers!NotEarly
<1>11. PrimitivesSpec => []Timers!GateKeepsPhase  BY <1>5, <1>6, PTL
<1>12. QED BY <1>7, <1>8, <1>9, <1>10, <1>11 DEF TimeKept

-----------------------------------------------------------------------------
(* The executor, in the two ways of using it.                              *)

MaskedP == INSTANCE ExecutorProofs
PreemptedP == INSTANCE ExecutorProofs
    WITH NTasks <- NPreempted, Policy <- "Filtered", Racy <- TRUE

LEMMA MaskedPart ==
  /\ Init => MaskedP!Init
  /\ [Next]_vars => [MaskedP!Next]_(MaskedP!vars)
  /\ MaskedP!NoLostWake => NoLostWake
  /\ MaskedP!IdleInv => NeverSleepsOnWork
<1> USE DEF Tasks, MaskedP!Tasks, Bits, MaskedP!Bits, Tick, MaskedP!Tick,
    Irqs, MaskedP!Irqs, Bit, MaskedP!Bit, vars, MaskedP!vars
<1>1. Init => MaskedP!Init  BY DEF Init, MaskedP!Init
<1>2. Next => MaskedP!Next
  BY DEF Next, MaskedP!Next, Run, MaskedP!Run, ScanTimers, MaskedP!ScanTimers,
    Capture, MaskedP!Capture, Visit, MaskedP!Visit, Cond, MaskedP!Cond,
    Subscribe, MaskedP!Subscribe, Recheck, MaskedP!Recheck, AwaitEvent,
    MaskedP!AwaitEvent, Signal, MaskedP!Signal, Sleep, MaskedP!Sleep, YieldCpu,
    MaskedP!YieldCpu, Check, MaskedP!Check, IdleHook, MaskedP!IdleHook,
    WaitForInterrupt, MaskedP!WaitForInterrupt, Window, MaskedP!Window,
    Raise, MaskedP!Raise, Isr, MaskedP!Isr, Handlers, MaskedP!Handlers,
    NotifyAll, MaskedP!NotifyAll, Wake, MaskedP!Wake, Pending, MaskedP!Pending,
    PollsEvent, MaskedP!PollsEvent
<1>3. MaskedP!NoLostWake => NoLostWake
  BY DEF NoLostWake, MaskedP!NoLostWake, Parked, MaskedP!Parked, StillToPoll,
    MaskedP!StillToPoll, InTask, MaskedP!InTask
<1>4. MaskedP!IdleInv => NeverSleepsOnWork
  BY DEF MaskedP!IdleInv, NeverSleepsOnWork
<1>5. QED BY <1>1, <1>2, <1>3, <1>4

LEMMA PreemptedPart ==
  /\ Preempted!Init => PreemptedP!Init
  /\ [Preempted!Next]_vars => [PreemptedP!Next]_(PreemptedP!vars)
  /\ PreemptedP!NoLostWake => Preempted!NoLostWake
<1> USE DEF Preempted!Tasks, PreemptedP!Tasks, Preempted!Bits, PreemptedP!Bits,
    Preempted!Tick, PreemptedP!Tick, Preempted!Irqs, PreemptedP!Irqs,
    Preempted!Bit, PreemptedP!Bit, vars, PreemptedP!vars
<1>1. Preempted!Init => PreemptedP!Init  BY DEF Preempted!Init, PreemptedP!Init
<1>2. Preempted!Next => PreemptedP!Next
  BY DEF Preempted!Next, PreemptedP!Next, Preempted!Run, PreemptedP!Run,
    Preempted!ScanTimers, PreemptedP!ScanTimers,
    Preempted!Capture, PreemptedP!Capture, Preempted!Visit, PreemptedP!Visit,
    Preempted!Cond, PreemptedP!Cond, Preempted!Subscribe, PreemptedP!Subscribe,
    Preempted!Recheck, PreemptedP!Recheck, Preempted!AwaitEvent,
    PreemptedP!AwaitEvent, Preempted!Signal, PreemptedP!Signal, Preempted!Sleep,
    PreemptedP!Sleep, Preempted!YieldCpu, PreemptedP!YieldCpu, Preempted!Check,
    PreemptedP!Check, Preempted!IdleHook, PreemptedP!IdleHook,
    Preempted!WaitForInterrupt, PreemptedP!WaitForInterrupt, Preempted!Window,
    PreemptedP!Window, Preempted!Raise, PreemptedP!Raise, Preempted!Isr,
    PreemptedP!Isr, Preempted!Handlers, PreemptedP!Handlers,
    Preempted!NotifyAll, PreemptedP!NotifyAll, Preempted!Wake, PreemptedP!Wake,
    Preempted!Pending, PreemptedP!Pending, Preempted!PollsEvent, PreemptedP!PollsEvent
<1>3. PreemptedP!NoLostWake => Preempted!NoLostWake
  BY DEF Preempted!NoLostWake, PreemptedP!NoLostWake, Preempted!Parked,
    PreemptedP!Parked, Preempted!StillToPoll, PreemptedP!StillToPoll,
    Preempted!InTask, PreemptedP!InTask
<1>4. QED BY <1>1, <1>2, <1>3

\* The invariant of the executor in either use.
WakeKept == IF preempting THEN PreemptedP!IndInv ELSE MaskedP!IndInv

\* No wake-up is lost, for any number of tasks and any word width, in either of
\* the ways the documentation gives to use the executor.
THEOREM WakesReachTasksHolds == MCSpec => []WakesReachTasks
<1> USE ExecutorAssumption, MaskedAssumption, PreemptedAssumption
<1>1. MCInit => WakeKept
  <2>1. MaskedP!Init => MaskedP!IndInv  BY MaskedP!InitInv
  <2>2. PreemptedP!Init => PreemptedP!IndInv  BY PreemptedP!InitInv
  <2>3. QED BY <2>1, <2>2, MaskedPart, PreemptedPart DEF MCInit, WakeKept
<1>2. WakeKept /\ [MCNext]_<<vars, preempting>> => WakeKept'
  <2>1. MaskedP!IndInv /\ [MaskedP!Next]_(MaskedP!vars) => MaskedP!IndInv'
    BY MaskedP!IndStep
  <2>2. PreemptedP!IndInv /\ [PreemptedP!Next]_(PreemptedP!vars) => PreemptedP!IndInv'
    BY PreemptedP!IndStep
  <2>3. QED BY <2>1, <2>2, MaskedPart, PreemptedPart DEF MCNext, WakeKept
<1>3. WakeKept => WakesReachTasks
  BY MaskedPart, PreemptedPart DEF WakeKept, MaskedP!IndInv, PreemptedP!IndInv, WakesReachTasks
<1>4. QED BY <1>1, <1>2, <1>3, PTL DEF MCSpec

\* With interrupts masked the processor does not sleep while a task is due,
\* whatever the number of tasks.
THEOREM AwakeWhileDueHolds == MCSpec => []AwakeWhileDue
<1> USE ExecutorAssumption, MaskedAssumption, PreemptedAssumption
<1> DEFINE I == ~preempting => MaskedP!IdleInv
<1>1. MCInit => I
  <2>1. MaskedP!Init => MaskedP!IdleInv
    BY MaskedP!InitInv DEF MaskedP!IndInv, MaskedP!IdleInv, MaskedP!Init
  <2>2. QED BY <2>1, MaskedPart DEF MCInit
<1>2. I /\ [MCNext]_<<vars, preempting>> => I'
  <2>1. MaskedP!IdleInv /\ [MaskedP!Next]_(MaskedP!vars) => MaskedP!IdleInv'
    BY MaskedP!IdleStep
  <2>2. QED BY <2>1, MaskedPart DEF MCNext
<1>3. I => AwakeWhileDue  BY MaskedPart DEF AwakeWhileDue
<1>4. QED BY <1>1, <1>2, <1>3, PTL DEF MCSpec
=============================================================================

---------------------------- MODULE RwLockProofs ----------------------------
(***************************************************************************)
(* Readers and writers exclude each other in RwLock, and a queue never     *)
(* forms behind a lock that could be granted, for any number of futures    *)
(* and any limit on readers above one.                                     *)
(***************************************************************************)
EXTENDS RwLock, SequenceTheorems, FiniteSetTheorems, TLAPS

-----------------------------------------------------------------------------
(* What joining, waking and dropping do to a wait list without duplicates: *)
(* the mutex and the semaphore rest on it as well.                         *)

\* Joining adds the future at the tail.
LEMMA JoinProperties ==
  ASSUME NEW S, NEW s \in Seq(S), Distinct(s), NEW x \in S, x \notin Members(s)
  PROVE  /\ Append(s, x) \in Seq(S)
         /\ Distinct(Append(s, x))
         /\ Members(Append(s, x)) = Members(s) \cup {x}
         /\ Append(s, x) # <<>>
         /\ s # <<>> => Append(s, x)[1] = s[1]
         /\ s = <<>> => Append(s, x)[1] = x
<1>1. Len(Append(s, x)) = Len(s) + 1 /\ Len(s) \in Nat
  OBVIOUS
<1>2. \A i \in 1 .. Len(s) : Append(s, x)[i] = s[i] /\ s[i] \in S
  OBVIOUS
<1>3. Append(s, x)[Len(s) + 1] = x
  OBVIOUS
<1>4. Distinct(Append(s, x))
  BY <1>1, <1>2, <1>3 DEF Distinct, Members
<1>5. Members(Append(s, x)) = Members(s) \cup {x}
  <2>1. ASSUME NEW y \in Members(Append(s, x)) PROVE y \in Members(s) \cup {x}
    BY <1>1, <1>2, <1>3, <2>1 DEF Members
  <2>2. ASSUME NEW y \in Members(s) PROVE y \in Members(Append(s, x))
    BY <1>1, <1>2, <2>2 DEF Members
  <2>3. x \in Members(Append(s, x))
    BY <1>1, <1>3 DEF Members
  <2>4. QED BY <2>1, <2>2, <2>3
<1>6. (s = <<>> => Len(s) = 0) /\ (s # <<>> => 1 \in 1 .. Len(s))
  BY EmptySeq
<1>7. Append(s, x) \in Seq(S) /\ Append(s, x) # <<>>
  BY <1>1
<1>8. s # <<>> => Append(s, x)[1] = s[1]
  BY <1>2, <1>6
<1>9. s = <<>> => Append(s, x)[1] = x
  <2>1. ASSUME s = <<>> PROVE Append(s, x)[1] = x
    <3>1. Len(s) + 1 = 1  BY <1>6, <2>1
    <3>2. QED BY <1>3, <3>1
  <2>2. QED BY <2>1
<1>10. QED BY <1>4, <1>5, <1>7, <1>8, <1>9

\* Waking removes the futures at the head, and no others.
LEMMA WakeProperties ==
  ASSUME NEW S, NEW s \in Seq(S), Distinct(s), NEW n \in 0 .. Len(s)
  PROVE  /\ WakeN(s, n) \in Seq(S)
         /\ Len(WakeN(s, n)) = Len(s) - n
         /\ Distinct(WakeN(s, n))
         /\ Members(WakeN(s, n)) = Members(s) \ FirstN(s, n)
<1>1. Len(s) \in Nat /\ \A i \in 1 .. Len(s) : s[i] \in S
  OBVIOUS
<1>2. WakeN(s, n) \in Seq(S) /\ Len(WakeN(s, n)) = Len(s) - n
  BY <1>1 DEF WakeN
<1>3. \A i \in 1 .. Len(s) - n : WakeN(s, n)[i] = s[i + n]
  BY <1>1 DEF WakeN
<1>4. Distinct(WakeN(s, n))
  BY <1>1, <1>2, <1>3 DEF Distinct
<1>5. ASSUME NEW y \in Members(WakeN(s, n))
      PROVE  y \in Members(s) /\ y \notin {s[i] : i \in 1 .. n}
  BY <1>1, <1>2, <1>3, <1>5 DEF Members, Distinct
<1>6. ASSUME NEW y \in Members(s), y \notin {s[i] : i \in 1 .. n}
      PROVE  y \in Members(WakeN(s, n))
  <2>1. PICK k \in 1 .. Len(s) : y = s[k]  BY <1>6 DEF Members
  <2>2. k > n  BY <1>6, <2>1
  <2>3. k - n \in 1 .. Len(s) - n /\ WakeN(s, n)[k - n] = y
    BY <1>1, <1>3, <2>1, <2>2
  <2>4. QED BY <1>2, <2>3 DEF Members
<1>7. QED BY <1>2, <1>4, <1>5, <1>6 DEF FirstN

\* The first n futures of a list are n futures, all of them in the list.
LEMMA FirstNProperties ==
  ASSUME NEW S, NEW s \in Seq(S), Distinct(s), NEW n \in 0 .. Len(s)
  PROVE  /\ IsFiniteSet(FirstN(s, n))
         /\ Cardinality(FirstN(s, n)) = n
         /\ FirstN(s, n) \subseteq Members(s)
         /\ FirstN(s, n) \subseteq S
<1> DEFINE T == FirstN(s, n)
           b == [i \in 1 .. n |-> s[i]]
<1>1. n \in Nat /\ \A i \in 1 .. n : i \in 1 .. Len(s) /\ s[i] \in S
  OBVIOUS
<1>2. b \in [1 .. n -> T]  BY DEF FirstN
<1>3. \A i, j \in 1 .. n : b[i] = b[j] => i = j
  BY <1>1 DEF Distinct
<1>4. \A y \in T : \E i \in 1 .. n : b[i] = y
  BY DEF FirstN
<1>5. b \in Bijection(1 .. n, T)
  BY <1>2, <1>3, <1>4 DEF Bijection, Injection, Surjection, IsInjective
<1>6. ExistsBijection(1 .. n, T)
  BY <1>5 DEF ExistsBijection
<1>7. IsFiniteSet(T) /\ Cardinality(T) = n
  BY <1>1, <1>6, FS_CountingElements, FS_NatBijection
<1>8. T \subseteq Members(s) /\ T \subseteq S
  BY <1>1 DEF FirstN, Members
<1>9. QED BY <1>7, <1>8

\* Dropping a waiting node removes that future, and no other.
LEMMA DropProperties ==
  ASSUME NEW S, NEW s \in Seq(S), Distinct(s), NEW x \in Members(s)
  PROVE  /\ Without(s, x) \in Seq(S)
         /\ Distinct(Without(s, x))
         /\ Members(Without(s, x)) = Members(s) \ {x}
         /\ Len(Without(s, x)) = Len(s) - 1
         /\ x # s[1] => Without(s, x) # <<>> /\ Without(s, x)[1] = s[1]
<1> DEFINE k == CHOOSE j \in 1 .. Len(s) : s[j] = x
           w == Without(s, x)
<1>1. Len(s) \in Nat /\ \A i \in 1 .. Len(s) : s[i] \in S
  OBVIOUS
<1>2. k \in 1 .. Len(s) /\ s[k] = x
  BY DEF Members
<1>3. w = [i \in 1 .. Len(s) - 1 |-> IF i < k THEN s[i] ELSE s[i + 1]]
  BY DEF Without
<1> HIDE DEF k, w
<1>4. w \in Seq(S) /\ Len(w) = Len(s) - 1
  BY <1>1, <1>2, <1>3
<1>5. \A i \in 1 .. Len(s) - 1 : w[i] = IF i < k THEN s[i] ELSE s[i + 1]
  BY <1>3
<1>6. Distinct(w)
  BY <1>1, <1>2, <1>4, <1>5 DEF Distinct
<1>7. ASSUME NEW y \in Members(w) PROVE y \in Members(s) /\ y # x
  BY <1>1, <1>2, <1>4, <1>5, <1>7 DEF Members, Distinct
<1>8. ASSUME NEW y \in Members(s), y # x PROVE y \in Members(w)
  <2>1. PICK j \in 1 .. Len(s) : y = s[j]  BY <1>8 DEF Members
  <2>2. j # k  BY <1>2, <1>8, <2>1
  <2>3. CASE j < k
    BY <1>1, <1>2, <1>4, <1>5, <2>1, <2>3 DEF Members
  <2>4. CASE j > k
    <3>1. j - 1 \in 1 .. Len(s) - 1 /\ w[j - 1] = s[j]
      BY <1>1, <1>2, <1>5, <2>1, <2>4
    <3>2. QED BY <1>4, <2>1, <3>1 DEF Members
  <2>5. QED BY <2>2, <2>3, <2>4, <1>2
<1>9. x # s[1] => w # <<>> /\ w[1] = s[1]
  BY <1>1, <1>2, <1>4, <1>5
<1>10. QED BY <1>4, <1>6, <1>7, <1>8, <1>9 DEF w

-----------------------------------------------------------------------------
(* The lock.                                                               *)

IndInv == TypeOK /\ ListMatches /\ CounterMatches /\ QueueIsBlocked

\* The owners that a release leaves, before it wakes anybody.
Left(after, a) ==
    {f \in Futures : after[f] \in {"granted", "holding"} /\ access[f] = a}

\* Any set of futures is finite.
LEMMA FuturesFinite ==
  ASSUME NEW S, S \subseteq Futures
  PROVE  IsFiniteSet(S) /\ Cardinality(S) \in Nat
BY RwLockAssumption, FS_Subset, FS_CardinalityType

\* Sizes of the sets with no member and with one.
LEMMA SmallSets ==
  /\ \A S : S = {} => Cardinality(S) = 0
  /\ \A S, x : S = {x} => Cardinality(S) = 1
  /\ \A S : IsFiniteSet(S) /\ Cardinality(S) = 0 => S = {}
BY FS_EmptySet, FS_Singleton

\* Removing or adding one future changes the size by one.
LEMMA OneMoreOrLess ==
  ASSUME NEW S, S \subseteq Futures, NEW x \in Futures
  PROVE  /\ x \in S => Cardinality(S \ {x}) = Cardinality(S) - 1
         /\ x \notin S => Cardinality(S \cup {x}) = Cardinality(S) + 1
BY FuturesFinite, FS_RemoveElement, FS_AddElement

LEMMA OwnersFinite ==
  ASSUME NEW a
  PROVE  IsFiniteSet(Owners(a)) /\ Cardinality(Owners(a)) \in Nat
BY FuturesFinite DEF Owners

LEMMA InitInv == Init => IndInv
<1> SUFFICES ASSUME Init PROVE IndInv
  OBVIOUS
<1> USE RwLockAssumption DEF Init
<1>1. TypeOK  BY DEF TypeOK, Phase
<1>2. ListMatches  BY DEF ListMatches, Distinct, Members
<1>3. Owners("Shared") = {} /\ Owners("Exclusive") = {}  BY DEF Owners, Owns
<1>4. CounterMatches  BY <1>3, SmallSets DEF CounterMatches
<1>5. QED BY <1>1, <1>2, <1>4 DEF IndInv, QueueIsBlocked

\* What waking the first n of list w does to the list and to the owners.
LEMMA WakeResult ==
  ASSUME TypeOK, NEW w \in Seq(Futures), Distinct(w), NEW after \in [Futures -> Phase],
         Members(w) = {f \in Futures : after[f] = "waiting"},
         NEW n \in 0 .. Len(w), NEW r \in -(MaxReaders + 1) .. MaxReaders,
         Wake(w, n, r, after), access' = access
  PROVE  /\ TypeOK' /\ ListMatches' /\ readers' = r
         /\ Len(waiters') = Len(w) - n
         /\ n < Len(w) => waiters'[1] = w[n + 1]
         /\ \A a : Owners(a)' = Left(after, a) \cup {f \in FirstN(w, n) : access[f] = a}
         /\ Left(after, "Shared") \cap FirstN(w, n) = {}
<1> USE RwLockAssumption
<1>1. /\ waiters' = WakeN(w, n) /\ readers' = r
      /\ fut' = [f \in Futures |-> IF f \in FirstN(w, n) THEN "granted" ELSE after[f]]
  BY DEF Wake
<1>2. FirstN(w, n) \subseteq Members(w) /\ FirstN(w, n) \subseteq Futures
  BY FirstNProperties
<1>3. /\ WakeN(w, n) \in Seq(Futures) /\ Len(WakeN(w, n)) = Len(w) - n
      /\ Distinct(WakeN(w, n)) /\ Members(WakeN(w, n)) = Members(w) \ FirstN(w, n)
  BY WakeProperties
<1>4. TypeOK'  BY <1>1, <1>3 DEF TypeOK, Phase
<1>5. ListMatches'  BY <1>1, <1>2, <1>3 DEF ListMatches
<1>6. n < Len(w) => waiters'[1] = w[n + 1]
  BY <1>1 DEF WakeN
<1>7. \A a : Owners(a)' = Left(after, a) \cup {f \in FirstN(w, n) : access[f] = a}
  BY <1>1, <1>2 DEF Owners, Owns, Left
<1>8. Left(after, "Shared") \cap FirstN(w, n) = {}
  BY <1>2 DEF Left
<1>9. QED BY <1>1, <1>3, <1>4, <1>5, <1>6, <1>7, <1>8

\* Granting the lock to the writer at the head, when nobody owns it any more.
LEMMA WakeWriterKeepsInv ==
  ASSUME TypeOK, NEW w \in Seq(Futures), Distinct(w), NEW after \in [Futures -> Phase],
         Members(w) = {f \in Futures : after[f] = "waiting"},
         HeadIs(w, "Exclusive"), Wake(w, 1, -1, after), access' = access,
         Left(after, "Shared") = {}, Left(after, "Exclusive") = {}
  PROVE  IndInv'
<1> USE RwLockAssumption
<1>1. 1 \in 0 .. Len(w) /\ 1 \in 1 .. Len(w) /\ -1 \in -(MaxReaders + 1) .. MaxReaders
  BY EmptySeq DEF HeadIs
<1>2. FirstN(w, 1) = {w[1]}  BY DEF FirstN
<1>3. /\ TypeOK' /\ ListMatches' /\ readers' = -1
      /\ \A a : Owners(a)' = Left(after, a) \cup {f \in FirstN(w, 1) : access[f] = a}
  BY <1>1, WakeResult
<1>4. Owners("Shared")' = {} /\ Owners("Exclusive")' = {w[1]}
  BY <1>2, <1>3 DEF HeadIs
<1>n. Cardinality(Owners("Exclusive")') = 1  BY <1>4, SmallSets
<1>5. CounterMatches'
  BY <1>3, <1>4, <1>n DEF CounterMatches
<1>6. QueueIsBlocked'  BY <1>3 DEF QueueIsBlocked
<1>7. QED BY <1>3, <1>5, <1>6 DEF IndInv

\* Granting it to the readers at the head, r of them owning it already.
LEMMA WakeSharedKeepsInv ==
  ASSUME TypeOK, NEW w \in Seq(Futures), Distinct(w), NEW after \in [Futures -> Phase],
         Members(w) = {f \in Futures : after[f] = "waiting"},
         NEW r \in 0 .. MaxReaders, r = 0 => ~HeadIs(w, "Exclusive"),
         WakeShared(w, r, after), access' = access,
         Cardinality(Left(after, "Shared")) = r, Left(after, "Exclusive") = {}
  PROVE  IndInv'
<1> USE RwLockAssumption
<1>1. PICK n \in 0 .. Len(w) : StopsAfter(w, n, r) /\ Wake(w, n, r + n, after)
  BY DEF WakeShared
<1> DEFINE G == FirstN(w, n)
           L == Left(after, "Shared")
<1>2. r + n \in -(MaxReaders + 1) .. MaxReaders /\ r + n >= 0 /\ Len(w) \in Nat
  BY <1>1 DEF StopsAfter
<1>3. /\ TypeOK' /\ ListMatches' /\ readers' = r + n
      /\ Len(waiters') = Len(w) - n
      /\ n < Len(w) => waiters'[1] = w[n + 1]
      /\ \A a : Owners(a)' = Left(after, a) \cup {f \in G : access[f] = a}
      /\ L \cap G = {}
  BY <1>1, <1>2, WakeResult
<1>4. IsFiniteSet(G) /\ Cardinality(G) = n  BY FirstNProperties
<1>5. \A f \in G : access[f] = "Shared"  BY <1>1 DEF StopsAfter, FirstN
<1>6. Owners("Shared")' = L \cup G /\ Owners("Exclusive")' = {}
  BY <1>3, <1>5
<1>7. IsFiniteSet(L)  BY FuturesFinite DEF Left
<1>8. Cardinality(L \cup G) = r + n
  <2>1. Cardinality(L \cup G) = Cardinality(L) + Cardinality(G) - Cardinality(L \cap G)
    BY <1>4, <1>7, FS_Union
  <2>2. Cardinality(L \cap G) = 0  BY <1>3, SmallSets
  <2>3. QED BY <1>4, <2>1, <2>2
<1>9. r + n = 0 => L \cup G = {}
  <2>1. IsFiniteSet(L \cup G)  BY <1>4, <1>7, FS_Union
  <2>2. QED BY <1>8, <2>1, SmallSets
<1>n. Cardinality(Owners("Shared")') = r + n /\ Cardinality(Owners("Exclusive")') = 0
  BY <1>6, <1>8, SmallSets, Zenon
<1>10. CounterMatches'
  BY <1>2, <1>3, <1>6, <1>9, <1>n DEF CounterMatches
<1>11. QueueIsBlocked'
  <2> SUFFICES ASSUME waiters' # <<>>
               PROVE  /\ r + n # 0
                      /\ r + n \in 1 .. MaxReaders - 1 => access[waiters'[1]] = "Exclusive"
    BY <1>3 DEF QueueIsBlocked
  <2>1. waiters' \in Seq(Futures)  BY <1>3 DEF TypeOK
  <2>2. n < Len(w)  BY <1>2, <1>3, <2>1, EmptySeq
  <2>3. r + n < MaxReaders => access[w[n + 1]] = "Exclusive"
    BY <1>1, <2>2 DEF StopsAfter
  <2>4. r + n = 0 => HeadIs(w, "Exclusive") /\ r = 0
    BY <1>2, <2>2, <2>3 DEF HeadIs
  <2>5. QED BY <1>2, <1>3, <2>2, <2>3, <2>4
<1>12. QED BY <1>3, <1>10, <1>11 DEF IndInv

\* A release or a cancellation that wakes nobody.
LEMMA WakeNobodyKeepsInv ==
  ASSUME TypeOK, NEW w \in Seq(Futures), Distinct(w), NEW after \in [Futures -> Phase],
         Members(w) = {f \in Futures : after[f] = "waiting"},
         NEW r \in -(MaxReaders + 1) .. MaxReaders,
         Wake(w, 0, r, after), access' = access,
         r >= 0 => Left(after, "Exclusive") = {} /\ r = Cardinality(Left(after, "Shared")),
         r <= 0 => Left(after, "Shared") = {} /\ r + Cardinality(Left(after, "Exclusive")) = 0,
         w # <<>> => /\ r # 0
                     /\ r \in 1 .. MaxReaders - 1 => access[w[1]] = "Exclusive"
  PROVE  IndInv'
<1> USE RwLockAssumption
<1>1. 0 \in 0 .. Len(w) /\ Len(w) \in Nat  OBVIOUS
<1>2. FirstN(w, 0) = {}  BY DEF FirstN
<1>3. /\ TypeOK' /\ ListMatches' /\ readers' = r
      /\ Len(waiters') = Len(w) - 0
      /\ 0 < Len(w) => waiters'[1] = w[0 + 1]
      /\ \A a : Owners(a)' = Left(after, a) \cup {f \in FirstN(w, 0) : access[f] = a}
  BY <1>1, WakeResult
<1>4. Owners("Shared")' = Left(after, "Shared") /\ Owners("Exclusive")' = Left(after, "Exclusive")
  BY <1>2, <1>3
<1>5. CounterMatches'
  BY <1>3, <1>4 DEF CounterMatches
<1>6. QueueIsBlocked'
  <2> SUFFICES ASSUME waiters' # <<>>
               PROVE  /\ r # 0
                      /\ r \in 1 .. MaxReaders - 1 => access[waiters'[1]] = "Exclusive"
    BY <1>3 DEF QueueIsBlocked
  <2>1. waiters' \in Seq(Futures)  BY <1>3 DEF TypeOK
  <2>2. 0 < Len(w) /\ w # <<>>  BY <1>1, <1>3, <2>1, EmptySeq
  <2>3. QED BY <1>3, <2>2
<1>7. QED BY <1>3, <1>5, <1>6 DEF IndInv

\* Dropping a guard, or a granted future, of owner f.
LEMMA ReleaseKeepsInv ==
  ASSUME IndInv, NEW f \in Futures, fut[f] \in {"granted", "holding"}, Release(f)
  PROVE  IndInv'
<1> DEFINE after == [fut EXCEPT ![f] = "idle"]
<1> USE RwLockAssumption DEF IndInv
<1>1. /\ TypeOK /\ access' = access
      /\ waiters \in Seq(Futures) /\ Distinct(waiters) /\ after \in [Futures -> Phase]
      /\ Members(waiters) = {g \in Futures : after[g] = "waiting"}
  BY DEF Release, TypeOK, ListMatches, Phase
<1>2. \A a \in {"Shared", "Exclusive"} :
        Left(after, a) = IF a = access[f] THEN Owners(a) \ {f} ELSE Owners(a)
  BY DEF Left, Owners, Owns, TypeOK
<1>3. f \in Owners(access[f])  BY DEF Owners, Owns
<1>4. waiters # <<>> /\ ~HeadIs(waiters, "Exclusive") => HeadIs(waiters, "Shared")
  <2>1. ASSUME waiters # <<>> PROVE waiters[1] \in Futures
    BY <1>1, <2>1, EmptySeq
  <2>2. QED BY <2>1 DEF HeadIs, TypeOK
<1>5. CASE access[f] = "Shared"
  <2>1. /\ readers > 0 /\ readers = Cardinality(Owners("Shared"))
        /\ Owners("Exclusive") = {} /\ readers \in Int
    BY <1>3, <1>5 DEF CounterMatches, TypeOK
  <2>2. Cardinality(Owners("Shared") \ {f}) = readers - 1
    BY <1>3, <1>5, <2>1, OneMoreOrLess DEF Owners
  <2>3. Left(after, "Shared") = Owners("Shared") \ {f} /\ Left(after, "Exclusive") = {}
    BY <1>2, <1>5, <2>1
  <2>a. IsFiniteSet(Owners("Shared") \ {f})
    BY OwnersFinite, FS_RemoveElement
  <2> HIDE DEF after
  <2>4. CASE readers = 1 /\ HeadIs(waiters, "Exclusive")
    <3>1. Wake(waiters, 1, -1, after)
      BY <1>5, <2>4 DEF Release, ReleaseShared, after
    <3>2. Left(after, "Shared") = {}
      BY <2>2, <2>3, <2>4, <2>a, SmallSets
    <3>3. QED BY <1>1, <2>3, <2>4, <3>1, <3>2, WakeWriterKeepsInv
  <2>5. CASE readers = MaxReaders /\ HeadIs(waiters, "Shared") /\ readers # 1
    <3> DEFINE h == waiters[1]
               L == Owners("Shared") \ {f}
    <3>1. Wake(waiters, 1, MaxReaders, after)
      BY <1>5, <2>5 DEF Release, ReleaseShared, after
    <3>2. /\ 1 \in 0 .. Len(waiters) /\ 1 \in 1 .. Len(waiters)
          /\ MaxReaders \in -(MaxReaders + 1) .. MaxReaders
      BY <1>1, <2>5, EmptySeq DEF HeadIs
    <3>3. FirstN(waiters, 1) = {h}  BY DEF FirstN
    <3>4. /\ TypeOK' /\ ListMatches' /\ readers' = MaxReaders
          /\ \A a : Owners(a)' = Left(after, a) \cup {g \in FirstN(waiters, 1) : access[g] = a}
          /\ Left(after, "Shared") \cap FirstN(waiters, 1) = {}
      BY <1>1, <3>1, <3>2, WakeResult
    <3>5. Owners("Shared")' = L \cup {h} /\ Owners("Exclusive")' = {} /\ h \notin L
      BY <2>3, <2>5, <3>3, <3>4 DEF HeadIs
    <3>b. h \in Futures  BY <1>1, <3>2
    <3>6. Cardinality(L \cup {h}) = MaxReaders
      BY <2>2, <2>5, <3>5, <3>b, OneMoreOrLess DEF Owners
    <3>n. Cardinality(Owners("Shared")') = MaxReaders  BY <3>5, <3>6, Zenon
    <3>7. CounterMatches'  BY <3>4, <3>5, <3>n DEF CounterMatches
    <3>8. QueueIsBlocked'  BY <3>4 DEF QueueIsBlocked
    <3>9. QED BY <3>4, <3>7, <3>8
  <2>6. CASE ~(readers = 1 /\ HeadIs(waiters, "Exclusive"))
             /\ ~(readers = MaxReaders /\ HeadIs(waiters, "Shared") /\ readers # 1)
    <3>1. Wake(waiters, 0, readers - 1, after)
      BY <1>5, <2>6 DEF Release, ReleaseShared, after
    <3>2. readers - 1 \in -(MaxReaders + 1) .. MaxReaders /\ readers - 1 >= 0
      BY <2>1 DEF TypeOK
    <3>3. waiters # <<>> => /\ readers - 1 # 0
                            /\ readers - 1 \in 1 .. MaxReaders - 1 => access[waiters[1]] = "Exclusive"
      BY <1>4, <2>1, <2>6 DEF QueueIsBlocked, HeadIs, TypeOK
    <3>4. readers - 1 <= 0 => Left(after, "Shared") = {}
      BY <2>1, <2>2, <2>3, <2>a, SmallSets
    <3>5. readers - 1 <= 0 => (readers - 1) + Cardinality(Left(after, "Exclusive")) = 0
      BY <2>1, <2>3, <3>2, SmallSets
    <3>6. QED BY <1>1, <2>2, <2>3, <3>1, <3>2, <3>3, <3>4, <3>5, WakeNobodyKeepsInv
  <2>7. QED BY <2>4, <2>5, <2>6
<1>6. CASE access[f] = "Exclusive"
  <2>1. /\ readers < 0 /\ readers + Cardinality(Owners("Exclusive")) = 0
        /\ Owners("Shared") = {} /\ readers \in Int
    BY <1>3, <1>6, OwnersFinite DEF CounterMatches, TypeOK
  <2>2. readers + Cardinality(Owners("Exclusive") \ {f}) = -1
    <3>1. Cardinality(Owners("Exclusive") \ {f}) = Cardinality(Owners("Exclusive")) - 1
      BY <1>3, <1>6, OneMoreOrLess DEF Owners
    <3>2. QED BY <2>1, <3>1, OwnersFinite
  <2>3. Left(after, "Exclusive") = Owners("Exclusive") \ {f} /\ Left(after, "Shared") = {}
    BY <1>2, <1>6, <2>1
  <2>a. IsFiniteSet(Owners("Exclusive") \ {f})
    BY OwnersFinite, FS_RemoveElement
  <2>b. readers = -1 => Left(after, "Exclusive") = {}
    <3>1. Cardinality(Owners("Exclusive") \ {f}) \in Nat  BY FuturesFinite DEF Owners
    <3>2. readers = -1 => Cardinality(Owners("Exclusive") \ {f}) = 0  BY <2>2, <3>1
    <3>3. QED BY <2>3, <2>a, <3>2, SmallSets, Zenon
  <2> HIDE DEF after
  <2>4. CASE readers = -1 /\ HeadIs(waiters, "Exclusive")
    <3>1. Wake(waiters, 1, -1, after)
      BY <1>6, <2>4 DEF Release, ReleaseExclusive, after
    <3>2. QED BY <1>1, <2>3, <2>4, <2>b, <3>1, WakeWriterKeepsInv
  <2>5. CASE readers = -1 /\ ~HeadIs(waiters, "Exclusive")
    <3>1. WakeShared(waiters, 0, after)
      BY <1>6, <2>5 DEF Release, ReleaseExclusive, after
    <3>2. Cardinality(Left(after, "Shared")) = 0  BY <2>3, SmallSets
    <3>3. QED BY <1>1, <2>5, <2>b, <3>1, <3>2, WakeSharedKeepsInv
  <2>6. CASE readers # -1
    <3>1. Wake(waiters, 0, readers + 1, after)
      BY <1>6, <2>6 DEF Release, ReleaseExclusive, after
    <3>2. readers + 1 \in -(MaxReaders + 1) .. MaxReaders /\ readers + 1 < 0
      BY <2>1, <2>6 DEF TypeOK
    <3>3. (readers + 1) + Cardinality(Left(after, "Exclusive")) = 0
      BY <2>1, <2>2, <2>3, FuturesFinite DEF Owners
    <3>4. QED BY <1>1, <2>3, <3>1, <3>2, <3>3, WakeNobodyKeepsInv
  <2>7. QED BY <2>4, <2>5, <2>6
<1>7. QED BY <1>5, <1>6 DEF TypeOK

\* A future that takes the lock at once, or a guard split off.
LEMMA TakeKeepsInv ==
  ASSUME IndInv, NEW f \in Futures, fut[f] = "idle",
         \/ /\ readers \in 0 .. MaxReaders - 1 /\ Take(f, "Shared", readers + 1)
            /\ waiters = <<>> \/ readers > 0
         \/ /\ readers \in -MaxReaders .. 0 /\ Take(f, "Exclusive", readers - 1)
  PROVE  IndInv'
<1> USE RwLockAssumption DEF IndInv
<1>1. /\ waiters' = waiters /\ fut' = [fut EXCEPT ![f] = "holding"]
      /\ \E a \in {"Shared", "Exclusive"} : access' = [access EXCEPT ![f] = a]
  BY DEF Take
<1>2. f \notin Members(waiters)  BY DEF ListMatches
<1>3. TypeOK'  BY DEF Take, TypeOK, Phase
<1>4. ListMatches'  BY <1>1, <1>2 DEF ListMatches, TypeOK
<1>5. waiters # <<>> => waiters[1] # f /\ access'[waiters[1]] = access[waiters[1]]
  <2>1. ASSUME waiters # <<>> PROVE waiters[1] \in Members(waiters)
    <3>1. 1 \in 1 .. Len(waiters)  BY <2>1, EmptySeq DEF TypeOK
    <3>2. QED BY <3>1 DEF Members
  <2>2. QED BY <1>1, <1>2, <2>1 DEF ListMatches, TypeOK
<1>6. CASE readers \in 0 .. MaxReaders - 1 /\ Take(f, "Shared", readers + 1)
           /\ (waiters = <<>> \/ readers > 0)
  <2>1. /\ Owners("Shared")' = Owners("Shared") \cup {f} /\ f \notin Owners("Shared")
        /\ Owners("Exclusive")' = Owners("Exclusive")
    BY <1>6 DEF Take, Owners, Owns, TypeOK
  <2>2. Cardinality(Owners("Shared") \cup {f}) = Cardinality(Owners("Shared")) + 1
    BY <2>1, OwnersFinite, FS_AddElement
  <2>3. readers' = readers + 1  BY <1>6 DEF Take
  <2>n. Cardinality(Owners("Shared")') = Cardinality(Owners("Shared")) + 1
    BY <2>1, <2>2, Zenon
  <2>m. Cardinality(Owners("Shared")) \in Nat  BY OwnersFinite
  <2>4. CounterMatches'
    BY <1>6, <2>1, <2>3, <2>n, <2>m DEF CounterMatches
  <2>5. QueueIsBlocked'
    BY <1>1, <1>5, <1>6, <2>3 DEF QueueIsBlocked
  <2>6. QED BY <1>3, <1>4, <2>4, <2>5
<1>7. CASE readers \in -MaxReaders .. 0 /\ Take(f, "Exclusive", readers - 1)
  <2>1. /\ Owners("Exclusive")' = Owners("Exclusive") \cup {f} /\ f \notin Owners("Exclusive")
        /\ Owners("Shared")' = Owners("Shared")
    BY <1>7 DEF Take, Owners, Owns, TypeOK
  <2>2. Cardinality(Owners("Exclusive") \cup {f}) = Cardinality(Owners("Exclusive")) + 1
    BY <2>1, OwnersFinite, FS_AddElement
  <2>3. readers' = readers - 1  BY <1>7 DEF Take
  <2>n. Cardinality(Owners("Exclusive")') = Cardinality(Owners("Exclusive")) + 1
    BY <2>1, <2>2, Zenon
  <2>m. Cardinality(Owners("Exclusive")) \in Nat  BY OwnersFinite
  <2>4. CounterMatches'
    BY <1>7, <2>1, <2>3, <2>n, <2>m DEF CounterMatches
  <2>5. QueueIsBlocked'
    BY <1>7, <2>3 DEF QueueIsBlocked
  <2>6. QED BY <1>3, <1>4, <2>4, <2>5
<1>8. QED BY <1>6, <1>7

\* A future that joins the wait list.
LEMMA JoinKeepsInv ==
  ASSUME IndInv, NEW f \in Futures, fut[f] = "idle",
         NEW a \in {"Shared", "Exclusive"}, Join(f, a),
         readers # 0 \/ waiters # <<>>,
         a = "Shared" => waiters # <<>> \/ readers \notin 0 .. MaxReaders - 1
  PROVE  IndInv'
<1> USE RwLockAssumption DEF IndInv
<1>1. /\ waiters' = Append(waiters, f) /\ fut' = [fut EXCEPT ![f] = "waiting"]
      /\ access' = [access EXCEPT ![f] = a] /\ readers' = readers
  BY DEF Join
<1>2. f \notin Members(waiters)  BY DEF ListMatches
<1>3. /\ waiters' \in Seq(Futures) /\ Distinct(waiters')
      /\ Members(waiters') = Members(waiters) \cup {f}
      /\ waiters # <<>> => waiters'[1] = waiters[1]
      /\ waiters = <<>> => waiters'[1] = f
  BY <1>1, <1>2, JoinProperties DEF TypeOK, ListMatches
<1>4. TypeOK'  BY <1>1, <1>3 DEF TypeOK, Phase
<1>5. ListMatches'  BY <1>1, <1>3 DEF ListMatches, TypeOK
<1>6. Owners("Shared")' = Owners("Shared") /\ Owners("Exclusive")' = Owners("Exclusive")
  BY <1>1 DEF Owners, Owns, TypeOK
<1>7. CounterMatches'  BY <1>1, <1>6 DEF CounterMatches
<1>8. CASE waiters # <<>>
  <2>1. 1 \in 1 .. Len(waiters)  BY <1>8, EmptySeq DEF TypeOK
  <2>2. waiters[1] # f /\ waiters[1] \in Futures  BY <1>2, <2>1 DEF Members, TypeOK
  <2>3. access'[waiters[1]] = access[waiters[1]]  BY <1>1, <2>2 DEF TypeOK
  <2>4. QueueIsBlocked'  BY <1>1, <1>3, <1>8, <2>3 DEF QueueIsBlocked
  <2>5. QED BY <1>4, <1>5, <1>7, <2>4
<1>9. CASE waiters = <<>>
  <2>1. readers # 0 /\ (a = "Shared" => readers \notin 1 .. MaxReaders - 1)
    BY <1>9
  <2>2. access'[waiters'[1]] = a  BY <1>1, <1>3, <1>9 DEF TypeOK
  <2>3. QueueIsBlocked'  BY <1>1, <2>1, <2>2 DEF QueueIsBlocked
  <2>4. QED BY <1>4, <1>5, <1>7, <2>3
<1>10. QED BY <1>8, <1>9

\* Dropping a future that is still in the wait list.
LEMMA CancelKeepsInv ==
  ASSUME IndInv, NEW f \in Futures, CancelShared(f) \/ CancelExclusive(f)
  PROVE  IndInv'
<1> DEFINE after == [fut EXCEPT ![f] = "idle"]
           rest == Without(waiters, f)
<1> USE RwLockAssumption DEF IndInv
<1>1. fut[f] = "waiting" /\ access' = access
  BY DEF CancelShared, CancelExclusive
<1>2. f \in Members(waiters)  BY <1>1 DEF ListMatches
<1>3. waiters # <<>>  BY <1>2 DEF Members
<1>4. readers # 0 /\ (readers \in 1 .. MaxReaders - 1 => access[waiters[1]] = "Exclusive")
  BY <1>3 DEF QueueIsBlocked
<1>5. /\ rest \in Seq(Futures) /\ Distinct(rest) /\ Members(rest) = Members(waiters) \ {f}
      /\ f # waiters[1] => rest[1] = waiters[1]
  BY <1>2, DropProperties DEF TypeOK, ListMatches
<1>6. after \in [Futures -> Phase] /\ Members(rest) = {g \in Futures : after[g] = "waiting"}
  BY <1>1, <1>5 DEF TypeOK, ListMatches, Phase
<1>7. Left(after, "Shared") = Owners("Shared") /\ Left(after, "Exclusive") = Owners("Exclusive")
  BY <1>1 DEF Left, Owners, Owns, TypeOK
<1>8. readers \in -(MaxReaders + 1) .. MaxReaders /\ TypeOK  BY DEF TypeOK
<1> HIDE DEF after, rest
<1>9. CASE CancelShared(f)
  <2>1. Wake(rest, 0, readers, after) /\ access[f] = "Shared"
    BY <1>9 DEF CancelShared, after, rest
  <2>2. readers \in 1 .. MaxReaders - 1 => access[rest[1]] = "Exclusive"
    BY <1>4, <1>5, <2>1
  <2>3. QED BY <1>1, <1>4, <1>5, <1>6, <1>7, <1>8, <2>1, <2>2, WakeNobodyKeepsInv DEF CounterMatches
<1>10. CASE CancelExclusive(f) /\ readers < 0
  <2>1. Wake(rest, 0, readers, after)
    BY <1>8, <1>10 DEF CancelExclusive, after, rest
  <2>2. readers \notin 1 .. MaxReaders - 1  BY <1>8, <1>10
  <2>3. QED BY <1>1, <1>4, <1>5, <1>6, <1>7, <1>8, <2>1, <2>2, WakeNobodyKeepsInv DEF CounterMatches
<1>11. CASE CancelExclusive(f) /\ readers >= 0
  <2>1. WakeShared(rest, readers, after)
    BY <1>11 DEF CancelExclusive, after, rest
  <2>2. readers \in 0 .. MaxReaders /\ Cardinality(Left(after, "Shared")) = readers
        /\ Left(after, "Exclusive") = {}
    BY <1>7, <1>8, <1>11 DEF CounterMatches
  <2>3. QED BY <1>1, <1>4, <1>5, <1>6, <1>8, <2>1, <2>2, WakeSharedKeepsInv
<1>12. QED BY <1>8, <1>9, <1>10, <1>11

LEMMA NextInv == IndInv /\ [Next]_vars => IndInv'
<1> SUFFICES ASSUME IndInv, [Next]_vars PROVE IndInv'
  OBVIOUS
<1> USE RwLockAssumption
<1>t. readers \in Int /\ readers \in -(MaxReaders + 1) .. MaxReaders
  BY DEF IndInv, TypeOK
<1>1. ASSUME NEW f \in Futures, LockShared(f) PROVE IndInv'
  <2>1. CASE TryLockShared(f)
    BY <2>1, TakeKeepsInv DEF TryLockShared, SharedFree
  <2>2. CASE fut[f] = "idle" /\ ~SharedFree /\ Join(f, "Shared")
    BY <2>2, JoinKeepsInv DEF SharedFree
  <2>3. QED BY <1>1, <2>1, <2>2 DEF LockShared
<1>2. ASSUME NEW f \in Futures, LockExclusive(f) PROVE IndInv'
  <2>1. CASE TryLockExclusive(f)
    <3>1. fut[f] = "idle" /\ readers \in -MaxReaders .. 0 /\ Take(f, "Exclusive", readers - 1)
      BY <2>1 DEF TryLockExclusive, ExclusiveFree
    <3>2. QED BY <3>1, TakeKeepsInv
  <2>2. CASE fut[f] = "idle" /\ ~ExclusiveFree /\ Join(f, "Exclusive")
    BY <2>2, JoinKeepsInv DEF ExclusiveFree
  <2>3. QED BY <1>2, <2>1, <2>2 DEF LockExclusive
<1>3. ASSUME NEW f \in Futures, PollGranted(f) PROVE IndInv'
  <2> USE <1>3 DEF IndInv, PollGranted
  <2>1. TypeOK' BY DEF TypeOK, Phase
  <2>2. ListMatches' BY DEF ListMatches, TypeOK
  <2>3. Owners("Shared")' = Owners("Shared") /\ Owners("Exclusive")' = Owners("Exclusive")
    BY DEF Owners, Owns, TypeOK
  <2>4. CounterMatches' BY <2>3 DEF CounterMatches
  <2>5. QueueIsBlocked' BY DEF QueueIsBlocked
  <2>6. QED BY <2>1, <2>2, <2>4, <2>5
<1>4. ASSUME NEW f \in Futures, DropGuard(f) \/ CancelGranted(f) PROVE IndInv'
  BY <1>4, ReleaseKeepsInv DEF DropGuard, CancelGranted
<1>5. ASSUME NEW f \in Futures, CancelShared(f) \/ CancelExclusive(f) PROVE IndInv'
  BY <1>5, CancelKeepsInv
<1>6. ASSUME NEW f \in Futures, NEW g \in Futures, MapSplit(f, g) PROVE IndInv'
  <2>1. f \in Owners(access[f]) /\ access[f] \in {"Shared", "Exclusive"}
    BY <1>6 DEF MapSplit, Owners, Owns, IndInv, TypeOK
  <2>2. CASE access[f] = "Shared"
    <3>1. readers > 0  BY <1>t, <2>1, <2>2 DEF IndInv, CounterMatches
    <3>2. fut[g] = "idle" /\ readers \in 0 .. MaxReaders - 1 /\ Take(g, "Shared", readers + 1)
      BY <1>6, <1>t, <2>2, <3>1 DEF MapSplit
    <3>3. QED BY <3>1, <3>2, TakeKeepsInv
  <2>3. CASE access[f] = "Exclusive"
    <3>1. readers < 0  BY <1>t, <2>1, <2>3 DEF IndInv, CounterMatches
    <3>2. fut[g] = "idle" /\ readers \in -MaxReaders .. 0 /\ Take(g, "Exclusive", readers - 1)
      BY <1>6, <1>t, <2>3, <3>1 DEF MapSplit
    <3>3. QED BY <3>2, TakeKeepsInv
  <2>4. QED BY <2>1, <2>2, <2>3
<1>7. CASE UNCHANGED vars
  BY <1>7 DEF vars, IndInv, TypeOK, ListMatches, CounterMatches, QueueIsBlocked, Owners, Owns
<1>8. QED BY <1>1, <1>2, <1>3, <1>4, <1>5, <1>6, <1>7 DEF Next

\* Readers and writers exclude each other, the counter always tells who owns
\* the lock, and nobody queues for a lock that could be granted.
THEOREM RwLockCorrect ==
  Spec => [](TypeOK /\ ListMatches /\ CounterMatches /\ Exclusion /\ QueueIsBlocked)
<1>1. IndInv => TypeOK /\ ListMatches /\ CounterMatches /\ Exclusion /\ QueueIsBlocked
  BY RwLockAssumption DEF IndInv, TypeOK, CounterMatches, Exclusion
<1>2. QED BY <1>1, InitInv, NextInv, PTL DEF Spec

\* A step that grants the lock to a waiting writer leaves the counter at -1.
LEMMA WriterGranted ==
  ASSUME IndInv, [Next]_vars, NEW f \in Futures,
         fut[f] = "waiting", fut'[f] = "granted", access[f] = "Exclusive"
  PROVE  readers' = -1 /\ access'[f] = "Exclusive"
<1> USE RwLockAssumption
<1>t. /\ fut \in [Futures -> Phase] /\ access \in [Futures -> {"Shared", "Exclusive"}]
      /\ waiters \in Seq(Futures) /\ Len(waiters) \in Nat
  BY DEF IndInv, TypeOK
<1>1. ASSUME NEW g \in Futures, \/ LockShared(g) \/ LockExclusive(g) \/ PollGranted(g)
                                 \/ CancelShared(g)
      PROVE  FALSE
  BY <1>t, <1>1
     DEF LockShared, TryLockShared, LockExclusive, TryLockExclusive, Take, Join, PollGranted,
         CancelShared, Wake, FirstN
<1>2. ASSUME NEW g \in Futures, NEW h \in Futures, MapSplit(g, h) PROVE FALSE
  BY <1>t, <1>2 DEF MapSplit, Take
<1>3. ASSUME NEW w, NEW n, NEW r, NEW after \in [Futures -> Phase], Wake(w, n, r, after),
             after[f] # "granted"
      PROVE  f \in FirstN(w, n)
  BY <1>3 DEF Wake
<1>4. ASSUME NEW w \in Seq(Futures), NEW r, NEW after \in [Futures -> Phase],
             WakeShared(w, r, after), after[f] # "granted"
      PROVE  FALSE
  <2>1. PICK n \in 0 .. Len(w) : StopsAfter(w, n, r) /\ Wake(w, n, r + n, after)
    BY <1>4 DEF WakeShared
  <2>2. f \in FirstN(w, n)  BY <1>3, <1>4, <2>1
  <2>3. QED BY <2>1, <2>2 DEF StopsAfter, FirstN
<1>5. ASSUME NEW g \in Futures, CancelExclusive(g) PROVE FALSE
  <2> DEFINE after == [fut EXCEPT ![g] = "idle"]
             rest == Without(waiters, g)
  <2>1. after \in [Futures -> Phase] /\ after[f] # "granted"  BY <1>t DEF Phase
  <2>2. rest \in Seq(Futures)
    <3>1. g \in Members(waiters)  BY <1>5 DEF CancelExclusive, IndInv, ListMatches
    <3>2. QED BY <1>t, <3>1, DropProperties DEF IndInv, ListMatches
  <2>3. WakeShared(rest, readers, after) \/ Wake(rest, 0, readers, after)
    BY <1>5 DEF CancelExclusive
  <2> HIDE DEF after, rest
  <2>4. FirstN(rest, 0) = {}  BY DEF FirstN
  <2>5. QED BY <1>3, <1>4, <2>1, <2>2, <2>3, <2>4
<1>6. ASSUME NEW g \in Futures, DropGuard(g) \/ CancelGranted(g)
      PROVE  readers' = -1 /\ access'[f] = "Exclusive"
  <2> DEFINE after == [fut EXCEPT ![g] = "idle"]
  <2>1. after \in [Futures -> Phase] /\ after[f] # "granted"  BY <1>t DEF Phase
  <2>2. access' = access /\ (ReleaseShared(after) \/ ReleaseExclusive(after))
    BY <1>6 DEF DropGuard, CancelGranted, Release
  <2> HIDE DEF after
  <2>3. \A r : ~Wake(waiters, 0, r, after)
    BY <1>3, <2>1 DEF FirstN
  <2>4. ~WakeShared(waiters, 0, after)  BY <1>4, <1>t, <2>1
  <2>5. ASSUME HeadIs(waiters, "Shared"), Wake(waiters, 1, MaxReaders, after) PROVE FALSE
    <3>1. f \in FirstN(waiters, 1)  BY <1>3, <2>1, <2>5
    <3>2. QED BY <2>5, <3>1 DEF HeadIs, FirstN
  <2>6. Wake(waiters, 1, -1, after)
    BY <2>2, <2>3, <2>4, <2>5 DEF ReleaseShared, ReleaseExclusive
  <2>7. QED BY <2>2, <2>6 DEF Wake
<1>7. CASE UNCHANGED vars  BY <1>7 DEF vars
<1>8. QED BY <1>1, <1>2, <1>5, <1>6, <1>7 DEF Next

\* A writer that is granted the lock has it alone.
LEMMA WriterAloneStep ==
  ASSUME IndInv, [Next]_vars, NEW f \in Futures,
         fut[f] = "waiting", fut'[f] = "granted", access[f] = "Exclusive",
         NEW g \in Futures \ {f}
  PROVE  fut'[g] \notin {"granted", "holding"}
<1> USE RwLockAssumption
<1>1. readers' = -1 /\ access'[f] = "Exclusive" /\ IndInv'  BY WriterGranted, NextInv
<1>2. Owners("Shared")' = {} /\ Cardinality(Owners("Exclusive")') = 1
  <2>1. Cardinality(Owners("Exclusive")') \in Nat  BY FuturesFinite DEF Owners
  <2>2. QED BY <1>1, <2>1 DEF IndInv, CounterMatches
<1>3. Owners("Exclusive")' = {f}
  <2>1. IsFiniteSet(Owners("Exclusive")')  BY FuturesFinite DEF Owners
  <2>2. \E x : Owners("Exclusive")' = {x}  BY <1>2, <2>1, FS_Singleton
  <2>3. f \in Owners("Exclusive")'  BY <1>1 DEF Owners, Owns
  <2>4. QED BY <2>2, <2>3
<1>4. access'[g] \in {"Shared", "Exclusive"}  BY <1>1 DEF IndInv, TypeOK
<1>5. QED BY <1>2, <1>3, <1>4 DEF Owners, Owns

\* Whoever becomes a reader without waiting while others wait has split a guard.
LEMMA OvertakingStep ==
  ASSUME IndInv, [Next]_vars, NEW g \in Futures,
         fut[g] = "idle", fut'[g] = "holding", access'[g] = "Shared",
         NEW w \in Futures, fut[w] = "waiting"
  PROVE  \E f \in Futures : fut[f] = "holding" /\ access[f] = "Shared" /\ Splitting
<1>t. /\ fut \in [Futures -> Phase] /\ access \in [Futures -> {"Shared", "Exclusive"}]
      /\ waiters # <<>>
  BY DEF IndInv, TypeOK, ListMatches, Members
<1>1. ASSUME NEW f \in Futures, LockShared(f) \/ LockExclusive(f) \/ PollGranted(f) PROVE FALSE
  BY <1>t, <1>1
     DEF LockShared, TryLockShared, SharedFree, LockExclusive, TryLockExclusive, Take, Join,
         PollGranted
<1>2. ASSUME NEW ws, NEW n, NEW r, NEW f \in Futures, Wake(ws, n, r, [fut EXCEPT ![f] = "idle"])
      PROVE  FALSE
  <2>1. fut'[g] \in {"granted", "idle"}  BY <1>2, <1>t DEF Wake
  <2>2. QED BY <2>1
<1>3. ASSUME NEW f \in Futures, \/ DropGuard(f) \/ CancelGranted(f)
                                 \/ CancelShared(f) \/ CancelExclusive(f)
      PROVE  FALSE
  BY <1>2, <1>3
     DEF DropGuard, CancelGranted, Release, ReleaseShared, ReleaseExclusive, CancelShared,
         CancelExclusive, WakeShared
<1>4. ASSUME NEW f \in Futures, NEW h \in Futures, MapSplit(f, h)
      PROVE  fut[f] = "holding" /\ access[f] = "Shared" /\ Splitting
  BY <1>t, <1>4 DEF MapSplit, Take
<1>5. CASE UNCHANGED vars  BY <1>5 DEF vars
<1>6. QED BY <1>1, <1>3, <1>4, <1>5 DEF Next

\* A writer is granted the lock alone, and arrivals do not overtake waiters.
THEOREM RwLockFair == Spec => WriterIsAlone /\ NoReaderOvertakes
<1>1. IndInv /\ [Next]_vars =>
        [\A f \in Futures :
           fut[f] = "waiting" /\ fut'[f] = "granted" /\ access[f] = "Exclusive"
             => \A g \in Futures \ {f} : fut'[g] \notin {"granted", "holding"}]_vars
  BY WriterAloneStep
<1>2. IndInv /\ [Next]_vars =>
        [\A g \in Futures :
           /\ fut[g] = "idle" /\ fut'[g] = "holding" /\ access'[g] = "Shared"
           /\ \E w \in Futures : fut[w] = "waiting"
           => \E f \in Futures : fut[f] = "holding" /\ access[f] = "Shared" /\ Splitting]_vars
  BY OvertakingStep
<1>3. QED BY <1>1, <1>2, InitInv, NextInv, PTL DEF Spec, WriterIsAlone, NoReaderOvertakes
=============================================================================

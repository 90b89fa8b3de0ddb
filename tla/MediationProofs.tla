-------------------------- MODULE MediationProofs --------------------------
(***************************************************************************)
(* The mediated block device and the fair queue of kernel/async_task.rs,   *)
(* for any number of VMs and requests, of owners and tasks.                *)
(*                                                                         *)
(* The fair queue.  HoldsInv is the invariant of every history of pushes,  *)
(* pops and removals, TurnsInv that of histories without removals:         *)
(* FairQueue::remove keeps the removed owner in the queue of owners and    *)
(* drops the others, which may have tasks (the run "fair_queue_stranded"). *)
(*                                                                         *)
(* The block device.  AsyncInv says of the data that the service VM works  *)
(* on the foremost request only, that a message to it means that no        *)
(* request waits, and that requests wait in the order of the ring (Globals)*)
(* and of each context what it knows at its program point (Knows).  A step *)
(* is taken while all others are in their guests, where they know nothing: *)
(* the one lemma per action is about the context that moves.               *)
(***************************************************************************)
EXTENDS Mediation, SequenceTheorems, FiniteSetTheorems, TLAPS

\* The owners and, as pairs of owner and number, their tasks.
Own == 1 .. NOwners
Numbers == Own \X Nat

\* The tasks of an owner, and of all.
Held(o) == {q.map[o][i] : i \in 1 .. Len(q.map[o])}
AllHeld == UNION {Held(o) : o \in Own}

\* Who holds what: lists of tasks, and counters.
QueueTypes ==
    /\ q \in [len : Nat, map : [Own -> Seq(Numbers)], queue : Seq(Own)]
    /\ pushed \in [Own -> Nat]
    /\ gone \in SUBSET Numbers
    /\ passed \in [Own -> Nat]

\* An owner's tasks are its own, numbered as it pushed them.
Numbered ==
    /\ \A o \in Own : \A i \in 1 .. Len(q.map[o]) :
         q.map[o][i][1] = o /\ q.map[o][i][2] \in 1 .. pushed[o]
    /\ \A o \in Own : \A i, j \in 1 .. Len(q.map[o]) :
         i < j => q.map[o][i][2] < q.map[o][j][2]

RemovedAreOld ==
    /\ \A t \in gone : t[2] \in 1 .. pushed[t[1]]
    /\ \A o \in Own : Held(o) \cap gone = {}

\* len counts the tasks held.
Counted == IsFiniteSet(AllHeld) /\ q.len = Cardinality(AllHeld)

\* Holds in every history.
HoldsInv == QueueTypes /\ Numbered /\ RemovedAreOld /\ Counted

\* Who waits, and how long it may still take.
TurnsInv ==
    /\ \A i, j \in 1 .. Len(q.queue) : q.queue[i] = q.queue[j] => i = j
    /\ \A o \in Own : q.map[o] # << >> <=> \E i \in 1 .. Len(q.queue) : q.queue[i] = o
    /\ \A o \in Own : q.map[o] = << >> => passed[o] = 0
    /\ \A i \in 1 .. Len(q.queue) : passed[q.queue[i]] + i <= NOwners

\* The inductive invariant of the module.
FInv == HoldsInv /\ (setting = "queue" => TurnsInv)

-----------------------------------------------------------------------------
\* push_back, pop_front (an owner without tasks is dropped, a task is taken) and
\* remove, whichever instance performs them.
PushStep(o) ==
    /\ pushed' = [pushed EXCEPT ![o] = @ + 1]
    /\ q' = [len   |-> q.len + 1,
             map   |-> [q.map EXCEPT ![o] = Append(@, <<o, pushed[o] + 1>>)],
             queue |-> IF q.map[o] = << >> THEN Append(q.queue, o) ELSE q.queue]
    /\ gone' = gone /\ passed' = passed

DropFront ==
    /\ q.queue # << >> /\ q.map[Head(q.queue)] = << >>
    /\ q' = [q EXCEPT !.queue = Tail(q.queue)]
    /\ pushed' = pushed /\ gone' = gone /\ passed' = passed

PopStep ==
    LET h == Head(q.queue) IN
    /\ q.queue # << >> /\ q.map[h] # << >>
    /\ q' = [len   |-> q.len - 1,
             map   |-> [q.map EXCEPT ![h] = Tail(@)],
             queue |-> IF Len(q.map[h]) > 1 THEN Append(Tail(q.queue), h) ELSE Tail(q.queue)]
    /\ passed' = [o \in Own |-> IF q.map[o] = << >> \/ o = Head(q.map[h])[1]
                                THEN 0 ELSE passed[o] + 1]
    /\ pushed' = pushed /\ gone' = gone

RemoveStep(o) ==
    /\ gone' = gone \cup Held(o)
    /\ \/ q.map[o] = << >> /\ q' = q
       \/ \E m \in Nat : 
            q' = [len |-> q.len - Len(q.map[o]), map |-> [q.map EXCEPT ![o] = << >>],
                  queue |-> [i \in 1 .. m |-> o]]
    /\ passed' = [passed EXCEPT ![o] = 0]
    /\ pushed' = pushed

\* A task is never mistaken for None.
LEMMA TaskIsSome == \A t \in Numbers : t # << >>
BY DEF Numbers

\* push_back of either instance.
LEMMA PushIs ==
  ASSUME QueueTypes, NEW o \in Own, Queue!Push(o) \/ Removals!Push(o)
  PROVE  PushStep(o)
BY DEF QueueTypes, Queue!Push, Removals!Push, PushStep, Queue!push_back, Removals!push_back

\* pop_front of either instance: it takes a task, or drops an owner that has none.
LEMMA PopIs ==
  ASSUME QueueTypes, Queue!Pop \/ Removals!Pop
  PROVE  DropFront \/ PopStep
<1>1. q.queue # << >> /\ UNCHANGED <<pushed, gone>> /\ q' = Queue!pop_front(q)
      /\ passed' = [o \in Own |->
                    IF Queue!front(q) = << >>                            THEN passed[o]
                    ELSE IF q.map[o] = << >> \/ o = Queue!front(q)[1] THEN 0
                    ELSE passed[o] + 1]
  BY DEF Queue!Pop, Removals!Pop, Queue!pop_front, Removals!pop_front, Queue!front, Removals!front,
     Queue!None, Removals!None, Own
<1>2. Head(q.queue) \in Own
  BY <1>1, HeadTailProperties DEF QueueTypes
<1> DEFINE h == Head(q.queue)
<1>3. CASE q.map[h] = << >>
  <2>1. Queue!front(q) = << >>  BY <1>3 DEF Queue!front, Queue!None
  <2>2. passed' = passed  BY <1>1, <2>1 DEF QueueTypes
  <2>3. q' = [q EXCEPT !.queue = Tail(q.queue)]  BY <1>1, <1>3 DEF Queue!pop_front
  <2>4. QED BY <1>1, <1>3, <2>2, <2>3 DEF DropFront
<1>4. CASE q.map[h] # << >>
  <2>1. Queue!front(q) = Head(q.map[h])  BY <1>1, <1>4 DEF Queue!front
  <2>2. Head(q.map[h]) \in Numbers  BY <1>2, <1>4, HeadTailProperties DEF QueueTypes
  <2>3. Head(q.map[h]) # << >>  BY <2>2, TaskIsSome
  <2>4. passed' = [o \in Own |-> IF q.map[o] = << >> \/ o = Head(q.map[h])[1]
                                 THEN 0 ELSE passed[o] + 1]
    BY <1>1, <2>1, <2>3
  <2>5. q' = [len   |-> q.len - 1,
             map   |-> [q.map EXCEPT ![h] = Tail(@)],
             queue |-> IF Len(q.map[h]) > 1 THEN Append(Tail(q.queue), h) ELSE Tail(q.queue)]
    BY <1>1, <1>4 DEF Queue!pop_front
  <2>6. QED BY <1>1, <1>4, <2>4, <2>5 DEF PopStep
<1>5. QED BY <1>3, <1>4

\* remove takes all tasks of the owner.
LEMMA RemoveIs ==
  ASSUME QueueTypes, NEW o \in Own, Removals!RemoveOwner(o)
  PROVE  RemoveStep(o)
<1>1. Removals!ToSet(q.map[o]) = Held(o)
  BY LenProperties DEF Removals!ToSet, Held, QueueTypes
<1> DEFINE D == {j \in DOMAIN q.queue : q.queue[j] = o}
<1>2. Removals!Cardinality(D) \in Nat
  <2>1. DOMAIN q.queue = 1 .. Len(q.queue) /\ Len(q.queue) \in Nat  BY LenProperties DEF QueueTypes
  <2>2. IsFiniteSet(1 .. Len(q.queue))  BY <2>1, FS_Interval
  <2>3. Cardinality(D) \in Nat
    BY <2>1, <2>2, FS_Subset, FS_CardinalityType
  <2>4. Removals!Cardinality(D) = Cardinality(D)  BY DEF Removals!Cardinality, Cardinality
  <2>5. QED BY <2>3, <2>4
<1>3. QED BY <1>1, <1>2 DEF Removals!RemoveOwner, Removals!remove, RemoveStep

-----------------------------------------------------------------------------
\* The tasks of an owner differ: there are as many as the list is long.
LEMMA HeldSize ==
  ASSUME HoldsInv, NEW o \in Own
  PROVE  IsFiniteSet(Held(o)) /\ Cardinality(Held(o)) = Len(q.map[o]) /\ Held(o) \subseteq Numbers
<1> DEFINE s == q.map[o]
           f == [i \in 1 .. Len(s) |-> s[i]]
<1>1. s \in Seq(Numbers) /\ Len(s) \in Nat /\ \A i \in 1 .. Len(s) : s[i] \in Numbers
  BY DEF HoldsInv, QueueTypes
<1>2. ASSUME NEW i \in 1 .. Len(s), NEW j \in 1 .. Len(s), s[i] = s[j] PROVE i = j
  <2>1. s[i][2] = s[j][2] /\ s[i][2] \in Nat  BY <1>1, <1>2 DEF Numbers
  <2>2. ~(i < j) /\ ~(j < i)  BY <2>1 DEF HoldsInv, Numbered
  <2>3. QED BY <1>1, <2>2
<1>3. f \in Bijection(1 .. Len(s), Held(o))
  BY <1>2 DEF Bijection, Injection, Surjection, IsInjective, Held
<1>4. IsFiniteSet(1 .. Len(s)) /\ Cardinality(1 .. Len(s)) = Len(s)
  <2>1. /\ IsFiniteSet(1 .. Len(s))
        /\ Cardinality(1 .. Len(s)) = IF 1 > Len(s) THEN 0 ELSE Len(s) - 1 + 1
    BY <1>1, FS_Interval
  <2>2. QED BY <1>1, <2>1
<1>5. ExistsBijection(1 .. Len(s), Held(o))  BY <1>3 DEF ExistsBijection
<1>6. IsFiniteSet(Held(o)) /\ Cardinality(Held(o)) = Len(s)  BY <1>4, <1>5, FS_Bijection
<1>7. QED BY <1>1, <1>6 DEF Held

\* The pushed task is a new one, the highest number of its owner.
LEMMA PushHolds ==
  ASSUME HoldsInv, NEW o \in Own, PushStep(o)
  PROVE  HoldsInv'
<1> DEFINE t == <<o, pushed[o] + 1>>
           s == q.map[o]
           m == [q.map EXCEPT ![o] = Append(s, t)]
<1> USE DEF HoldsInv
<1>1. pushed[o] \in Nat /\ t \in Numbers /\ t[1] = o /\ t[2] = pushed[o] + 1
      /\ s = q.map[o] /\ s \in Seq(Numbers) /\ Len(s) \in Nat
      /\ q.map \in [Own -> Seq(Numbers)] /\ q.queue \in Seq(Own) /\ q.len \in Nat
      /\ pushed \in [Own -> Nat]
  BY DEF QueueTypes, Numbers
<1>2. /\ Append(s, t) \in Seq(Numbers) /\ Len(Append(s, t)) = Len(s) + 1
      /\ \A i \in 1 .. Len(s) : Append(s, t)[i] = s[i]
      /\ Append(s, t)[Len(s) + 1] = t
  BY <1>1
<1>3. /\ q'.len = q.len + 1 /\ q'.map = m
      /\ q' = [len |-> q.len + 1, map |-> m, queue |-> q'.queue]
      /\ q'.queue \in Seq(Own)
      /\ pushed' = [pushed EXCEPT ![o] = @ + 1]
      /\ gone' = gone /\ passed' = passed
  BY <1>1 DEF PushStep
<1>4. m \in [Own -> Seq(Numbers)] /\ m[o] = Append(s, t)
      /\ \A p \in Own : p # o => m[p] = q.map[p]
  BY <1>1, <1>2
<1>5. /\ pushed' \in [Own -> Nat] /\ pushed'[o] = pushed[o] + 1
      /\ \A p \in Own : p # o => pushed'[p] = pushed[p]
  BY <1>1, <1>3
<1> HIDE DEF m, s, t
<1>6. QueueTypes'
  BY <1>1, <1>3, <1>4, <1>5 DEF QueueTypes
<1>7. Numbered'
  <2>1. ASSUME NEW p \in Own, NEW i \in 1 .. Len(m[p])
        PROVE  m[p][i][1] = p /\ m[p][i][2] \in 1 .. pushed'[p]
    <3>1. CASE p # o
      BY <1>4, <1>5, <2>1, <3>1 DEF Numbered
    <3>2. CASE p = o /\ i = Len(s) + 1
      BY <1>1, <1>2, <1>4, <1>5, <3>2
    <3>3. CASE p = o /\ i \in 1 .. Len(s)
      <4>1. s[i][1] = o /\ s[i][2] \in 1 .. pushed[o]  BY <1>1, <3>3 DEF Numbered
      <4>2. m[p][i] = s[i]  BY <1>2, <1>4, <3>3
      <4>3. pushed'[p] = pushed[o] + 1  BY <1>5, <3>3
      <4>4. QED BY <1>1, <3>3, <4>1, <4>2, <4>3
    <3>4. QED BY <1>1, <1>2, <1>4, <3>1, <3>2, <3>3
  <2>2. ASSUME NEW p \in Own, NEW i \in 1 .. Len(m[p]), NEW j \in 1 .. Len(m[p]), i < j
        PROVE  m[p][i][2] < m[p][j][2]
    <3>1. CASE p # o
      BY <1>4, <2>2, <3>1 DEF Numbered
    <3>2. CASE p = o /\ j = Len(s) + 1
      <4>1. i \in 1 .. Len(s)  BY <1>1, <2>2, <3>2, <1>2, <1>4
      <4>2. s[i][2] \in 1 .. pushed[o]  BY <1>1, <4>1 DEF Numbered
      <4>3. m[p][i] = s[i] /\ m[p][j] = t  BY <1>2, <1>4, <3>2, <4>1
      <4>4. QED BY <1>1, <4>2, <4>3
    <3>3. CASE p = o /\ j \in 1 .. Len(s)
      <4>1. i \in 1 .. Len(s)  BY <1>1, <2>2, <3>3, <1>2, <1>4
      <4>2. s[i][2] < s[j][2]  BY <1>1, <2>2, <3>3, <4>1 DEF Numbered
      <4>3. m[p][i] = s[i] /\ m[p][j] = s[j]  BY <1>2, <1>4, <3>3, <4>1
      <4>4. QED BY <4>2, <4>3
    <3>4. QED BY <1>1, <1>2, <1>4, <3>1, <3>2, <3>3
  <2>3. QED BY <1>3, <2>1, <2>2 DEF Numbered
<1>8. Held(o)' = Held(o) \cup {t} /\ \A p \in Own : p # o => Held(p)' = Held(p)
  <2>1. \A p \in Own : p # o => Held(p)' = Held(p)
    BY <1>3, <1>4 DEF Held
  <2>2. Held(o)' = {Append(s, t)[i] : i \in 1 .. Len(s) + 1}
    BY <1>2, <1>3, <1>4 DEF Held
  <2>3. {Append(s, t)[i] : i \in 1 .. Len(s) + 1} = {s[i] : i \in 1 .. Len(s)} \cup {t}
    <3>1. ASSUME NEW x \in {Append(s, t)[i] : i \in 1 .. Len(s) + 1}
          PROVE  x \in {s[i] : i \in 1 .. Len(s)} \cup {t}
      BY <1>1, <1>2
    <3>2. ASSUME NEW x \in {s[i] : i \in 1 .. Len(s)} \cup {t}
          PROVE  x \in {Append(s, t)[i] : i \in 1 .. Len(s) + 1}
      BY <1>1, <1>2
    <3>3. QED BY <3>1, <3>2
  <2>4. QED BY <1>1, <2>1, <2>2, <2>3 DEF Held
<1>9. t \notin AllHeld /\ t \notin gone
  <2>1. ASSUME NEW p \in Own, t \in Held(p) PROVE FALSE
    <3>1. PICK i \in 1 .. Len(q.map[p]) : q.map[p][i] = t  BY <2>1 DEF Held
    <3>2. t[1] = p /\ t[2] \in 1 .. pushed[p]  BY <3>1 DEF Numbered
    <3>3. QED BY <1>1, <3>2
  <2>2. t \notin AllHeld  BY <2>1 DEF AllHeld
  <2>3. t \notin gone
    <3>1. ASSUME t \in gone PROVE FALSE
      <4>1. t[2] \in 1 .. pushed[t[1]]  BY <3>1 DEF RemovedAreOld
      <4>2. QED BY <1>1, <4>1
    <3>2. QED BY <3>1
  <2>4. QED BY <2>2, <2>3
<1>10. RemovedAreOld'
  <2>1. ASSUME NEW x \in gone PROVE x[2] \in 1 .. pushed'[x[1]]
    <3>1. x[1] \in Own /\ x[2] \in 1 .. pushed[x[1]]
      BY DEF RemovedAreOld, QueueTypes, Numbers
    <3>2. CASE x[1] = o  BY <1>1, <1>5, <3>1, <3>2
    <3>3. CASE x[1] # o  BY <1>5, <3>1, <3>3
    <3>4. QED BY <3>2, <3>3
  <2>2. ASSUME NEW p \in Own PROVE Held(p)' \cap gone = {}
    BY <1>8, <1>9 DEF RemovedAreOld
  <2>3. QED BY <1>3, <2>1, <2>2 DEF RemovedAreOld
<1>11. AllHeld' = AllHeld \cup {t}
  BY <1>8 DEF AllHeld
<1>12. Counted'
  <2>1. IsFiniteSet(AllHeld \cup {t}) /\ Cardinality(AllHeld \cup {t}) = Cardinality(AllHeld) + 1
    BY <1>9, FS_AddElement DEF Counted
  <2>2. QED BY <1>3, <1>11, <2>1 DEF Counted
<1>13. QED BY <1>6, <1>7, <1>10, <1>12

\* pop_front takes one task out, the oldest of its owner.
LEMMA PopHolds ==
  ASSUME HoldsInv, PopStep
  PROVE  HoldsInv'
<1> DEFINE h == Head(q.queue)
           s == q.map[h]
           t == Head(s)
           m == [q.map EXCEPT ![h] = Tail(s)]
<1> USE DEF HoldsInv
<1>1. /\ h \in Own /\ Tail(q.queue) \in Seq(Own)
      /\ q.map \in [Own -> Seq(Numbers)] /\ q.len \in Nat /\ passed \in [Own -> Nat]
      /\ s = q.map[h] /\ s \in Seq(Numbers) /\ s # << >> /\ Len(s) \in Nat /\ Len(s) > 0
  <2>1. q.queue # << >> /\ q.queue \in Seq(Own) /\ q.map \in [Own -> Seq(Numbers)] /\ s # << >>
        /\ q.len \in Nat /\ passed \in [Own -> Nat]
    BY DEF PopStep, QueueTypes
  <2>2. h \in Own /\ Tail(q.queue) \in Seq(Own)  BY <2>1, HeadTailProperties
  <2>3. s \in Seq(Numbers)  BY <2>1, <2>2
  <2>4. Len(s) \in Nat \ {0}  BY <2>1, <2>3, EmptySeq
  <2>5. QED BY <2>1, <2>2, <2>3, <2>4
<1>2. /\ Tail(s) \in Seq(Numbers) /\ Len(Tail(s)) = Len(s) - 1 /\ t = s[1] /\ t \in Numbers
      /\ \A i \in 1 .. Len(s) - 1 : Tail(s)[i] = s[i + 1]
  <2>1. t = s[1]  BY <1>1
  <2>2. QED BY <1>1, <2>1, HeadTailProperties
<1>3. /\ q'.len = q.len - 1 /\ q'.map = m
      /\ q' = [len |-> q.len - 1, map |-> m, queue |-> q'.queue]
      /\ q'.queue \in Seq(Own)
      /\ passed' \in [Own -> Nat] /\ gone' = gone /\ pushed' = pushed
  BY <1>1 DEF PopStep
<1>4. m \in [Own -> Seq(Numbers)] /\ m[h] = Tail(s)
      /\ \A p \in Own : p # h => m[p] = q.map[p]
  BY <1>1, <1>2
<1> HIDE DEF m, t, s, h
<1>5. Numbered'
  <2>1. ASSUME NEW p \in Own, NEW i \in 1 .. Len(m[p])
        PROVE  \E k \in 1 .. Len(q.map[p]) :
                 m[p][i] = q.map[p][k] /\ k = (IF p = h THEN i + 1 ELSE i)
    <3>1. CASE p # h  BY <1>4, <2>1, <3>1
    <3>2. CASE p = h
      <4>1. Len(m[p]) = Len(s) - 1 /\ m[p] = Tail(s)  BY <1>2, <1>4, <3>2
      <4>2. i + 1 \in 1 .. Len(s) /\ i \in 1 .. Len(s) - 1  BY <1>1, <2>1, <4>1
      <4>3. QED BY <1>1, <1>2, <3>2, <4>1, <4>2
    <3>3. QED BY <3>1, <3>2
  <2>2. ASSUME NEW p \in Own, NEW i \in 1 .. Len(m[p])
        PROVE  m[p][i][1] = p /\ m[p][i][2] \in 1 .. pushed[p]
    <3>1. PICK k \in 1 .. Len(q.map[p]) : m[p][i] = q.map[p][k] /\ k = (IF p = h THEN i + 1 ELSE i)
      BY <2>1
    <3>2. q.map[p][k][1] = p /\ q.map[p][k][2] \in 1 .. pushed[p]  BY <3>1 DEF Numbered
    <3>3. QED BY <3>1, <3>2
  <2>3. ASSUME NEW p \in Own, NEW i \in 1 .. Len(m[p]), NEW j \in 1 .. Len(m[p]), i < j
        PROVE  m[p][i][2] < m[p][j][2]
    <3>1. PICK k \in 1 .. Len(q.map[p]) : m[p][i] = q.map[p][k] /\ k = (IF p = h THEN i + 1 ELSE i)
      BY <2>1
    <3>2. PICK l \in 1 .. Len(q.map[p]) : m[p][j] = q.map[p][l] /\ l = (IF p = h THEN j + 1 ELSE j)
      BY <2>1
    <3>3. k < l  BY <2>3, <3>1, <3>2
    <3>4. QED BY <3>1, <3>2, <3>3 DEF Numbered
  <2>4. QED BY <1>3, <2>2, <2>3 DEF Numbered
<1>5a. PICK g \in Own : g = h  BY <1>1
<1>5b. \A p \in Own : Held(p)' = {m[p][i] : i \in 1 .. Len(m[p])}
  BY <1>3 DEF Held
<1>6. t \in Held(g) /\ Held(g)' = Held(g) \ {t} /\ \A p \in Own : p # g => Held(p)' = Held(p)
  <2>1. t \in Held(g)
    <3>1. 1 \in 1 .. Len(q.map[g]) /\ t = q.map[g][1]  BY <1>1, <1>2, <1>5a
    <3>2. QED BY <3>1 DEF Held
  <2>2. ASSUME NEW i \in 1 .. Len(s), s[i] = t PROVE i = 1
    <3>1. s[i][2] \in Nat /\ s[1][2] \in Nat /\ 1 \in 1 .. Len(s)
      <4>1. s[i] \in Numbers /\ s[1] \in Numbers /\ 1 \in 1 .. Len(s)  BY <1>1, <1>2, <2>2
      <4>2. \A x \in Numbers : x[2] \in Nat  BY DEF Numbers
      <4>3. QED BY <4>1, <4>2
    <3>2. 1 < i => s[1][2] < s[i][2]  BY <1>1, <2>2, <3>1 DEF Numbered
    <3>3. QED BY <1>2, <2>2, <3>1, <3>2
  <2>3. Held(g)' = {Tail(s)[i] : i \in 1 .. Len(s) - 1}
    <3>1. m[g] = Tail(s) /\ Len(Tail(s)) = Len(s) - 1  BY <1>2, <1>4, <1>5a
    <3>2. QED BY <3>1, <1>5b
  <2>4. ASSUME NEW x \in {Tail(s)[i] : i \in 1 .. Len(s) - 1} PROVE x \in Held(g) \ {t}
    <3>1. PICK i \in 1 .. Len(s) - 1 : x = s[i + 1]  BY <1>2
    <3>2. i + 1 \in 1 .. Len(s) /\ i + 1 # 1  BY <1>1, <3>1
    <3>3. QED BY <1>1, <1>5a, <2>2, <3>1, <3>2 DEF Held
  <2>5. ASSUME NEW x \in Held(g) \ {t} PROVE x \in {Tail(s)[i] : i \in 1 .. Len(s) - 1}
    <3>1. PICK i \in 1 .. Len(s) : x = s[i]  BY <1>1, <1>5a DEF Held
    <3>2. i # 1  BY <1>2, <3>1
    <3>3. i - 1 \in 1 .. Len(s) - 1 /\ (i - 1) + 1 = i  BY <1>1, <3>1, <3>2
    <3>4. x = Tail(s)[i - 1]  BY <1>2, <3>1, <3>3
    <3>5. QED BY <3>3, <3>4
  <2>6. Held(g)' = Held(g) \ {t}
    <3>1. {Tail(s)[i] : i \in 1 .. Len(s) - 1} \subseteq Held(g) \ {t}  BY <2>4
    <3>2. Held(g) \ {t} \subseteq {Tail(s)[i] : i \in 1 .. Len(s) - 1}  BY <2>5
    <3>3. QED BY <2>3, <3>1, <3>2
  <2>7. \A p \in Own : p # g => Held(p)' = Held(p)
    <3>1. ASSUME NEW p \in Own, p # g PROVE Held(p)' = Held(p)
      <4>1. m[p] = q.map[p]  BY <1>4, <1>5a, <3>1
      <4>2. Held(p)' = {m[p][i] : i \in 1 .. Len(m[p])}  BY <1>5b
      <4>3. Held(p) = {q.map[p][i] : i \in 1 .. Len(q.map[p])}  BY DEF Held
      <4>4. QED BY <4>1, <4>2, <4>3
    <3>2. QED BY <3>1
  <2>8. QED BY <2>1, <2>6, <2>7
<1>7. RemovedAreOld'
  <2>1. ASSUME NEW p \in Own PROVE Held(p)' \subseteq Held(p)
    BY <1>6
  <2>2. QED BY <1>3, <2>1 DEF RemovedAreOld
<1>8. AllHeld' = AllHeld \ {t} /\ t \in AllHeld
  <2>1. \A p \in Own : p # g => t \notin Held(p)
    <3>1. \A p \in Own : \A x \in Held(p) : x[1] = p  BY DEF Held, Numbered
    <3>2. t[1] = g  BY <1>6, <3>1
    <3>3. QED BY <3>1, <3>2
  <2>2. \A p \in Own : Held(p)' = Held(p) \ {t}  BY <1>6, <2>1
  <2>3. QED BY <1>1, <1>6, <2>2 DEF AllHeld
<1>9. Counted' /\ q'.len \in Nat
  <2>1. IsFiniteSet(AllHeld \ {t}) /\ Cardinality(AllHeld \ {t}) = Cardinality(AllHeld) - 1
    BY <1>8, FS_RemoveElement DEF Counted
  <2>2. Cardinality(AllHeld \ {t}) \in Nat  BY <2>1, FS_CardinalityType
  <2>3. QED BY <1>3, <1>8, <2>1, <2>2 DEF Counted
<1>10. QueueTypes'
  BY <1>3, <1>4, <1>9 DEF QueueTypes
<1>11. QED BY <1>5, <1>7, <1>9, <1>10

\* Dropping an owner without tasks changes no list.
LEMMA DropHolds ==
  ASSUME HoldsInv, DropFront
  PROVE  HoldsInv'
<1> USE DEF HoldsInv
<1>1. q.queue \in Seq(Own) /\ q.queue # << >>  BY DEF QueueTypes, DropFront
<1>2. Tail(q.queue) \in Seq(Own)  BY <1>1, HeadTailProperties
<1>3. q'.map = q.map /\ q'.len = q.len /\ UNCHANGED <<pushed, gone, passed>>
  BY DEF DropFront, QueueTypes
<1>4. QueueTypes'  BY <1>2 DEF DropFront, QueueTypes
<1>5. \A o \in Own : Held(o)' = Held(o)  BY <1>3 DEF Held
<1>6. AllHeld' = AllHeld  BY <1>5 DEF AllHeld
<1>7. Numbered' /\ RemovedAreOld' /\ Counted'
  BY <1>3, <1>5, <1>6 DEF Numbered, RemovedAreOld, Counted
<1>8. QED BY <1>4, <1>7

\* remove takes as many off len as the owner had tasks.
LEMMA RemoveHolds ==
  ASSUME HoldsInv, NEW o \in Own, RemoveStep(o)
  PROVE  HoldsInv'
<1> USE DEF HoldsInv
<1> DEFINE s == q.map[o]
<1>1. /\ q.map \in [Own -> Seq(Numbers)] /\ q.len \in Nat /\ s \in Seq(Numbers) /\ Len(s) \in Nat
      /\ passed' \in [Own -> Nat] /\ gone' = gone \cup Held(o) /\ pushed' = pushed
  BY DEF QueueTypes, RemoveStep
<1>2. IsFiniteSet(Held(o)) /\ Cardinality(Held(o)) = Len(s) /\ Held(o) \subseteq Numbers
  BY HeldSize
<1>3. \A p \in Own : \A x \in Held(p) : x[1] = p /\ x[2] \in 1 .. pushed[p]
  BY DEF Held, Numbered
<1>4. q'.map \in [Own -> Seq(Numbers)] /\ q'.map[o] = << >> /\ q'.queue \in Seq(Own)
      /\ q' = [len |-> q'.len, map |-> q'.map, queue |-> q'.queue]
      /\ (\A p \in Own : p # o => q'.map[p] = q.map[p])
      /\ q'.len = q.len - Len(s)
  <2>1. CASE q.map[o] = << >> /\ q' = q
    <3>1. Len(s) = 0  BY <2>1, EmptySeq
    <3>2. QED BY <1>1, <2>1, <3>1 DEF QueueTypes
  <2>2. ASSUME NEW k \in Nat,
               q' = [len |-> q.len - Len(s), map |-> [q.map EXCEPT ![o] = << >>],
                     queue |-> [i \in 1 .. k |-> o]]
        PROVE  /\ q'.map \in [Own -> Seq(Numbers)] /\ q'.map[o] = << >> /\ q'.queue \in Seq(Own)
               /\ q' = [len |-> q'.len, map |-> q'.map, queue |-> q'.queue]
               /\ \A p \in Own : p # o => q'.map[p] = q.map[p]
               /\ q'.len = q.len - Len(s)
    <3>1. [i \in 1 .. k |-> o] \in Seq(Own)  OBVIOUS
    <3>2. << >> \in Seq(Numbers)  BY EmptySeq
    <3>3. QED BY <1>1, <2>2, <3>1, <3>2
  <2>3. QED BY <2>1, <2>2 DEF RemoveStep
<1>5. Held(o)' = {} /\ \A p \in Own : p # o => Held(p)' = Held(p)
  <2>1. Len(<< >>) = 0  BY EmptySeq
  <2>2. QED BY <1>4, <2>1 DEF Held
<1>6. AllHeld' = AllHeld \ Held(o)
  <2>1. \A p \in Own : p # o => Held(p) \cap Held(o) = {}  BY <1>3
  <2>2. QED BY <1>5, <2>1 DEF AllHeld
<1>7. Numbered'
  <2>1. 1 .. Len(<< >>) = {}  BY EmptySeq
  <2>2. QED BY <1>1, <1>4, <2>1 DEF Numbered
<1>8. RemovedAreOld'
  <2>1. \A x \in gone' : x[2] \in 1 .. pushed'[x[1]]
    BY <1>1, <1>3 DEF RemovedAreOld
  <2>2. ASSUME NEW p \in Own PROVE Held(p)' \cap gone' = {}
    <3>1. CASE p = o  BY <1>5, <3>1
    <3>2. CASE p # o
      <4>1. Held(p) \cap Held(o) = {}  BY <1>3, <3>2
      <4>2. QED BY <1>1, <1>5, <3>2, <4>1 DEF RemovedAreOld
    <3>3. QED BY <3>1, <3>2
  <2>3. QED BY <2>1, <2>2 DEF RemovedAreOld
<1>9. Counted' /\ q'.len \in Nat
  <2> DEFINE R == AllHeld \ Held(o)
  <2>1. IsFiniteSet(R)  BY FS_Subset DEF Counted
  <2>2. R \cup Held(o) = AllHeld /\ R \cap Held(o) = {}  BY DEF AllHeld
  <2>3. Cardinality(R \cup Held(o)) = Cardinality(R) + Cardinality(Held(o)) - Cardinality(R \cap Held(o))
    BY <1>2, <2>1, FS_Union
  <2>4. Cardinality(R) \in Nat  BY <2>1, FS_CardinalityType
  <2>5. Cardinality(R \cap Held(o)) = 0  BY <2>2, FS_EmptySet
  <2> HIDE DEF R
  <2>6. Cardinality(R) = q.len - Len(s)
    <3>1. Cardinality(R \cup Held(o)) = q.len  BY <2>2 DEF Counted
    <3>2. QED BY <1>1, <1>2, <2>3, <2>4, <2>5, <3>1
  <2>7. QED BY <1>4, <1>6, <2>1, <2>4, <2>6 DEF Counted, R
<1>10. QueueTypes'
  <2>1. gone' \in SUBSET Numbers  BY <1>1, <1>2 DEF QueueTypes
  <2>2. QED BY <1>1, <1>4, <1>9, <2>1 DEF QueueTypes
<1>11. QED BY <1>7, <1>8, <1>9, <1>10

-----------------------------------------------------------------------------
\* A queue that names no owner twice is no longer than there are owners.
LEMMA QueueFits ==
  ASSUME MediationConstants, NEW s \in Seq(Own),
         \A i, j \in 1 .. Len(s) : s[i] = s[j] => i = j
  PROVE  Len(s) <= NOwners
<1>1. Len(s) \in Nat /\ s \in [1 .. Len(s) -> Own]  BY LenProperties
<1>2. s \in Injection(1 .. Len(s), Own)  BY <1>1 DEF Injection, IsInjective
<1>3. IsFiniteSet(Own) /\ Cardinality(Own) = NOwners
  <2>1. NOwners \in Nat  BY DEF MediationConstants
  <2>2. IsFiniteSet(Own) /\ Cardinality(Own) = IF 1 > NOwners THEN 0 ELSE NOwners - 1 + 1
    BY <2>1, FS_Interval DEF Own
  <2>3. QED BY <2>1, <2>2
<1>4. Cardinality(1 .. Len(s)) <= Cardinality(Own)  BY <1>2, <1>3, FS_Injection
<1>5. Cardinality(1 .. Len(s)) = Len(s)
  <2>1. Cardinality(1 .. Len(s)) = IF 1 > Len(s) THEN 0 ELSE Len(s) - 1 + 1  BY <1>1, FS_Interval
  <2>2. QED BY <1>1, <2>1
<1>6. QED BY <1>3, <1>4, <1>5

\* An owner queues up with its first task, and at the end.
LEMMA PushTurns ==
  ASSUME MediationConstants, HoldsInv, TurnsInv, NEW o \in Own, PushStep(o)
  PROVE  TurnsInv'
<1> DEFINE s == q.queue
           t == <<o, pushed[o] + 1>>
<1>1. s = q.queue /\ s \in Seq(Own) /\ Len(s) \in Nat /\ q.map \in [Own -> Seq(Numbers)] /\ passed \in [Own -> Nat]
      /\ \A i \in 1 .. Len(s) : s[i] \in Own
  BY DEF HoldsInv, QueueTypes
<1>2. /\ q'.map = [q.map EXCEPT ![o] = Append(q.map[o], t)] /\ passed' = passed
      /\ q'.queue = IF q.map[o] = << >> THEN Append(s, o) ELSE s
  BY DEF PushStep
<1>3. q'.map[o] # << >> /\ \A p \in Own : p # o => q'.map[p] = q.map[p]
  <2>1. q.map[o] \in Seq(Numbers) /\ t \in Numbers  BY <1>1 DEF HoldsInv, QueueTypes, Numbers
  <2>2. Append(q.map[o], t) # << >>
    <3>1. Len(Append(q.map[o], t)) = Len(q.map[o]) + 1 /\ Len(q.map[o]) \in Nat  BY <2>1
    <3>2. Len(Append(q.map[o], t)) # 0  BY <3>1
    <3>3. QED BY <3>2, EmptySeq
  <2>3. QED BY <1>1, <1>2, <2>2
<1>4. CASE q.map[o] # << >>
  BY <1>2, <1>3, <1>4 DEF TurnsInv
<1>5. CASE q.map[o] = << >>
  <2> DEFINE r == Append(s, o)
  <2>1. /\ r \in Seq(Own) /\ Len(r) = Len(s) + 1 /\ r[Len(s) + 1] = o
        /\ \A i \in 1 .. Len(s) : r[i] = s[i]
    BY <1>1
  <2>2. \A i \in 1 .. Len(s) : s[i] # o  BY <1>5 DEF TurnsInv
  <2> HIDE DEF r, s
  <2>3. \A i, j \in 1 .. Len(r) : r[i] = r[j] => i = j
    <3>1. \A i, j \in 1 .. Len(s) : s[i] = s[j] => i = j  BY <1>1 DEF TurnsInv
    <3>2. \A i \in 1 .. Len(r) : i = Len(s) + 1 \/ i \in 1 .. Len(s)  BY <1>1, <2>1
    <3>3. ASSUME NEW i \in 1 .. Len(r), NEW j \in 1 .. Len(r), r[i] = r[j] PROVE i = j
      <4>1. CASE i \in 1 .. Len(s) /\ j \in 1 .. Len(s)  BY <2>1, <3>1, <3>3, <4>1
      <4>2. CASE i = Len(s) + 1 /\ j = Len(s) + 1  BY <4>2
      <4>3. CASE i \in 1 .. Len(s) /\ j = Len(s) + 1  BY <2>1, <2>2, <3>3, <4>3
      <4>4. CASE i = Len(s) + 1 /\ j \in 1 .. Len(s)  BY <2>1, <2>2, <3>3, <4>4
      <4>5. QED BY <3>2, <4>1, <4>2, <4>3, <4>4
    <3>4. QED BY <3>3
  <2>4. Len(r) <= NOwners  BY <2>1, <2>3, QueueFits
  <2>5. ASSUME NEW p \in Own PROVE q'.map[p] # << >> <=> \E i \in 1 .. Len(r) : r[i] = p
    <3>1. CASE p = o
      <4>1. Len(s) + 1 \in 1 .. Len(r)  BY <1>1, <2>1
      <4>2. QED BY <1>3, <2>1, <3>1, <4>1
    <3>2. CASE p # o
      <4>1. (\E i \in 1 .. Len(r) : r[i] = p) <=> (\E i \in 1 .. Len(s) : s[i] = p)
        <5>1. \A i \in 1 .. Len(r) : i = Len(s) + 1 \/ i \in 1 .. Len(s)  BY <1>1, <2>1
        <5>2. \A i \in 1 .. Len(s) : i \in 1 .. Len(r)  BY <1>1, <2>1
        <5>3. QED BY <2>1, <3>2, <5>1, <5>2
      <4>2. QED BY <1>1, <1>3, <3>2, <4>1 DEF TurnsInv
    <3>3. QED BY <3>1, <3>2
  <2>6. \A p \in Own : q'.map[p] = << >> => passed[p] = 0  BY <1>3 DEF TurnsInv
  <2>7. \A i \in 1 .. Len(r) : passed[r[i]] + i <= NOwners
    <3>1. passed[o] = 0  BY <1>5 DEF TurnsInv
    <3>2. ASSUME NEW i \in 1 .. Len(r) PROVE passed[r[i]] + i <= NOwners
      <4>1. CASE i = Len(s) + 1  BY <1>1, <2>1, <2>4, <3>1, <4>1
      <4>2. CASE i \in 1 .. Len(s)  BY <1>1, <2>1, <4>2 DEF TurnsInv
      <4>3. i = Len(s) + 1 \/ i \in 1 .. Len(s)  BY <1>1, <2>1
      <4>4. QED BY <4>1, <4>2, <4>3
    <3>3. QED BY <3>2
  <2>8. q'.queue = r  BY <1>2, <1>5 DEF r
  <2>9. QED BY <1>2, <2>3, <2>5, <2>6, <2>7, <2>8 DEF TurnsInv
<1>6. QED BY <1>4, <1>5

\* Without removals pop_front always finds a task: every owner queued has one.
LEMMA DropNever == QueueTypes /\ TurnsInv => ~DropFront
<1> SUFFICES ASSUME QueueTypes, TurnsInv, DropFront PROVE FALSE
  OBVIOUS
<1>1. q.queue \in Seq(Own) /\ q.queue # << >>  BY DEF QueueTypes, DropFront
<1>2. Len(q.queue) \in Nat \ {0} /\ Head(q.queue) = q.queue[1] /\ Head(q.queue) \in Own
  BY <1>1, EmptySeq, HeadTailProperties
<1>3. 1 \in 1 .. Len(q.queue)  BY <1>2
<1>4. q.map[Head(q.queue)] # << >>  BY <1>2, <1>3 DEF TurnsInv
<1>5. QED BY <1>4 DEF DropFront

\* The owner served goes to the back, everyone else one place forward.
LEMMA PopTurns ==
  ASSUME MediationConstants, HoldsInv, TurnsInv, PopStep
  PROVE  TurnsInv'
<1> DEFINE s == q.queue
           h == Head(s)
           r == Tail(s)
<1>1. /\ s \in Seq(Own) /\ s # << >> /\ Len(s) \in Nat \ {0}
      /\ q.map \in [Own -> Seq(Numbers)] /\ passed \in [Own -> Nat]
      /\ \A i \in 1 .. Len(s) : s[i] \in Own
  <2>1. s \in Seq(Own) /\ s # << >>  BY DEF HoldsInv, QueueTypes, PopStep
  <2>2. Len(s) \in Nat \ {0}  BY <2>1, EmptySeq
  <2>3. QED BY <2>1, <2>2 DEF HoldsInv, QueueTypes
<1>2. /\ h = s[1] /\ h \in Own /\ r \in Seq(Own) /\ Len(r) = Len(s) - 1
      /\ \A i \in 1 .. Len(s) - 1 : r[i] = s[i + 1]
  BY <1>1, HeadTailProperties
<1>3. q.map[h] \in Seq(Numbers) /\ q.map[h] # << >> /\ Len(q.map[h]) \in Nat \ {0}
  <2>1. q.map[h] \in Seq(Numbers) /\ q.map[h] # << >>  BY <1>1, <1>2 DEF PopStep
  <2>2. QED BY <2>1, EmptySeq
<1>4. Head(q.map[h])[1] = h
  <2>1. 1 \in 1 .. Len(q.map[h]) /\ Head(q.map[h]) = q.map[h][1]  BY <1>3
  <2>2. QED BY <1>2, <2>1 DEF HoldsInv, Numbered
<1>5. /\ q'.map = [q.map EXCEPT ![h] = Tail(q.map[h])]
      /\ q'.queue = IF Len(q.map[h]) > 1 THEN Append(r, h) ELSE r
      /\ passed' = [o \in Own |-> IF q.map[o] = << >> \/ o = h THEN 0 ELSE passed[o] + 1]
  BY <1>4 DEF PopStep
<1>6. /\ q'.map[h] = Tail(q.map[h])
      /\ q'.map[h] # << >> <=> Len(q.map[h]) > 1
      /\ \A p \in Own : p # h => q'.map[p] = q.map[p]
  <2>1. q'.map[h] = Tail(q.map[h])  BY <1>1, <1>2, <1>5
  <2>2. Tail(q.map[h]) \in Seq(Numbers) /\ Len(Tail(q.map[h])) = Len(q.map[h]) - 1
    BY <1>3, HeadTailProperties
  <2>3. Tail(q.map[h]) # << >> <=> Len(q.map[h]) > 1
    <3>1. Tail(q.map[h]) # << >> => Len(Tail(q.map[h])) \in Nat \ {0}  BY <2>2, EmptySeq
    <3>2. Tail(q.map[h]) = << >> => Len(Tail(q.map[h])) = 0
      <4>1. Len(<< >>) = 0  BY EmptySeq
      <4>2. QED BY <4>1
    <3>3. Len(Tail(q.map[h])) # 0 <=> Len(q.map[h]) > 1
      <4>1. PICK n \in Nat \ {0} : n = Len(q.map[h])  BY <1>3
      <4>2. Len(Tail(q.map[h])) = n - 1  BY <2>2, <4>1
      <4>3. n - 1 # 0 <=> n > 1  OBVIOUS
      <4>4. QED BY <4>1, <4>2, <4>3
    <3>4. QED BY <3>1, <3>2, <3>3
  <2>4. QED BY <1>1, <1>2, <1>5, <2>1, <2>3
<1>7. \A i, j \in 1 .. Len(s) : s[i] = s[j] => i = j  BY DEF TurnsInv
<1>8. Len(s) <= NOwners  BY <1>1, <1>7, QueueFits
<1>9. \A i \in 1 .. Len(r) : i + 1 \in 1 .. Len(s) /\ r[i] = s[i + 1] /\ r[i] # h /\ r[i] \in Own
  BY <1>1, <1>2, <1>7
<1>10. \A i, j \in 1 .. Len(r) : r[i] = r[j] => i = j
  BY <1>7, <1>9
<1>11. \A p \in Own : p # h =>
         (q.map[p] # << >> <=> \E i \in 1 .. Len(r) : r[i] = p)
  <2>1. ASSUME NEW p \in Own, p # h, NEW i \in 1 .. Len(s), s[i] = p
        PROVE  \E k \in 1 .. Len(r) : r[k] = p
    <3>1. i # 1  BY <1>2, <2>1
    <3>2. i - 1 \in 1 .. Len(r) /\ (i - 1) + 1 = i  BY <1>1, <1>2, <2>1, <3>1
    <3>3. r[i - 1] = p  BY <1>2, <2>1, <3>2
    <3>4. QED BY <3>2, <3>3
  <2>2. QED BY <1>9, <2>1 DEF TurnsInv
<1>12. \A i \in 1 .. Len(r) : passed'[r[i]] + i <= NOwners
  <2>1. ASSUME NEW i \in 1 .. Len(r) PROVE passed'[r[i]] + i <= NOwners
    <3>1. passed[s[i + 1]] + (i + 1) <= NOwners /\ passed[s[i + 1]] \in Nat
      BY <1>1, <1>9 DEF TurnsInv
    <3>2. passed'[r[i]] \in {0, passed[s[i + 1]] + 1}  BY <1>5, <1>9
    <3>3. i \in Nat /\ NOwners \in Nat /\ i + 1 <= NOwners
      BY <3>1 DEF MediationConstants
    <3>4. QED BY <3>1, <3>2, <3>3
  <2>2. QED BY <2>1
<1>13. \A p \in Own : q'.map[p] = << >> => passed'[p] = 0
  BY <1>2, <1>5, <1>6
<1> HIDE DEF h, r
<1>14. CASE Len(q.map[h]) > 1
  <2> DEFINE u == Append(r, h)
  <2>1. /\ u \in Seq(Own) /\ Len(u) = Len(r) + 1 /\ u[Len(r) + 1] = h /\ Len(r) \in Nat
        /\ \A i \in 1 .. Len(r) : u[i] = r[i]
    BY <1>2
  <2> HIDE DEF u
  <2>2. \A i, j \in 1 .. Len(u) : u[i] = u[j] => i = j
    BY <1>9, <1>10, <2>1
  <2>3. ASSUME NEW p \in Own PROVE q'.map[p] # << >> <=> \E i \in 1 .. Len(u) : u[i] = p
    <3>1. CASE p = h
      <4>1. Len(r) + 1 \in 1 .. Len(u)  BY <2>1
      <4>2. QED BY <1>6, <1>14, <2>1, <3>1, <4>1
    <3>2. CASE p # h
      <4>1. (\E i \in 1 .. Len(u) : u[i] = p) <=> (\E i \in 1 .. Len(r) : r[i] = p)
        BY <2>1, <3>2
      <4>2. QED BY <1>6, <1>11, <3>2, <4>1
    <3>3. QED BY <3>1, <3>2
  <2>4. ASSUME NEW i \in 1 .. Len(u) PROVE passed'[u[i]] + i <= NOwners
    <3>1. CASE i = Len(r) + 1
      <4>1. passed'[h] = 0  BY <1>2, <1>5
      <4>2. QED BY <1>1, <1>2, <1>8, <2>1, <3>1, <4>1
    <3>2. CASE i \in 1 .. Len(r)  BY <1>12, <2>1, <3>2
    <3>3. QED BY <2>1, <3>1, <3>2
  <2>5. q'.queue = u  BY <1>5, <1>14 DEF u
  <2>6. QED BY <1>13, <2>2, <2>3, <2>4, <2>5 DEF TurnsInv
<1>15. CASE ~(Len(q.map[h]) > 1)
  <2>1. q'.queue = r  BY <1>5, <1>15
  <2>2. ASSUME NEW p \in Own PROVE q'.map[p] # << >> <=> \E i \in 1 .. Len(r) : r[i] = p
    BY <1>6, <1>9, <1>11, <1>15
  <2>3. QED BY <1>10, <1>12, <1>13, <2>1, <2>2 DEF TurnsInv
<1>16. QED BY <1>14, <1>15

-----------------------------------------------------------------------------
\* The empty queue satisfies the invariant.
LEMMA FairInit == MediationConstants /\ Init => FInv
<1> SUFFICES ASSUME MediationConstants, Queue!Init PROVE FInv
  BY DEF Init
<1>1. q = [len |-> 0, map |-> [o \in Own |-> << >>], queue |-> << >>]
      /\ pushed = [o \in Own |-> 0] /\ gone = {} /\ passed = [o \in Own |-> 0]
  BY DEF Queue!Init, Queue!new, Own
<1>2. << >> \in Seq(Numbers) /\ << >> \in Seq(Own) /\ 1 .. Len(<< >>) = {}
  BY EmptySeq
<1>3. QueueTypes  BY <1>1, <1>2 DEF QueueTypes
<1>4. \A o \in Own : q.map[o] = << >>  BY <1>1
<1>5. Numbered  BY <1>2, <1>4 DEF Numbered
<1>6. \A o \in Own : Held(o) = {}  BY <1>2, <1>4 DEF Held
<1>7. RemovedAreOld  BY <1>1, <1>6 DEF RemovedAreOld
<1>8. AllHeld = {}  BY <1>6 DEF AllHeld
<1>9. Counted
  <2>1. IsFiniteSet({}) /\ Cardinality({}) = 0  BY FS_EmptySet
  <2>2. QED BY <1>1, <1>8, <2>1 DEF Counted
<1>10. TurnsInv
  BY <1>1, <1>2, <1>4 DEF TurnsInv
<1>11. QED BY <1>3, <1>5, <1>7, <1>9, <1>10 DEF FInv, HoldsInv

\* Every operation of the fair queue keeps the invariant, and so do the other parts.
LEMMA FairStep == MediationConstants /\ FInv /\ [Next]_vars => FInv'
<1> SUFFICES ASSUME MediationConstants, FInv, [Next]_vars PROVE FInv'
  OBVIOUS
<1>1. setting' = setting  BY DEF Next, vars
<1>2. HoldsInv /\ QueueTypes  BY DEF FInv, HoldsInv
<1>3. CASE UNCHANGED queueVars
  <2>1. q' = q /\ pushed' = pushed /\ gone' = gone /\ passed' = passed
    BY <1>3 DEF queueVars
  <2>2. \A o \in Own : Held(o)' = Held(o)  BY <2>1 DEF Held
  <2>3. AllHeld' = AllHeld  BY <2>2 DEF AllHeld
  <2>4. HoldsInv'
    BY <1>2, <2>1, <2>2, <2>3 DEF HoldsInv, QueueTypes, Numbered, RemovedAreOld, Counted
  <2>5. TurnsInv' = TurnsInv  BY <2>1 DEF TurnsInv
  <2>6. QED BY <1>1, <2>4, <2>5 DEF FInv
<1>4. CASE setting = "queue" /\ Queue!Next
  <2>1. TurnsInv  BY <1>4 DEF FInv
  <2>2. ASSUME NEW o \in Own, Queue!Push(o) PROVE FInv'
    <3>1. PushStep(o)  BY <1>2, <2>2, PushIs
    <3>2. HoldsInv'  BY <1>2, <3>1, PushHolds
    <3>3. TurnsInv'  BY <1>2, <2>1, <3>1, PushTurns
    <3>4. QED BY <3>2, <3>3 DEF FInv
  <2>3. ASSUME Queue!Pop PROVE FInv'
    <3>1. PopStep  BY <1>2, <2>1, <2>3, PopIs, DropNever
    <3>2. HoldsInv'  BY <1>2, <3>1, PopHolds
    <3>3. TurnsInv'  BY <1>2, <2>1, <3>1, PopTurns
    <3>4. QED BY <3>2, <3>3 DEF FInv
  <2>4. (\E o \in Own : Queue!Push(o)) \/ Queue!Pop
    BY <1>4 DEF Queue!Next, Queue!RemoveOwner, Own
  <2>5. QED BY <2>2, <2>3, <2>4
<1>5. CASE setting = "removals" /\ Removals!Next
  <2>1. ASSUME NEW o \in Own, Removals!Push(o) PROVE HoldsInv'
    <3>1. PushStep(o)  BY <1>2, <2>1, PushIs
    <3>2. QED BY <1>2, <3>1, PushHolds
  <2>2. ASSUME Removals!Pop PROVE HoldsInv'
    <3>1. PopStep \/ DropFront  BY <1>2, <2>2, PopIs
    <3>2. QED BY <1>2, <3>1, PopHolds, DropHolds
  <2>3. ASSUME NEW o \in Own, Removals!RemoveOwner(o) PROVE HoldsInv'
    <3>1. RemoveStep(o)  BY <1>2, <2>3, RemoveIs
    <3>2. QED BY <1>2, <3>1, RemoveHolds
  <2>4. (\E o \in Own : Removals!Push(o) \/ Removals!RemoveOwner(o)) \/ Removals!Pop
    BY <1>5 DEF Removals!Next, Own
  <2>5. HoldsInv'  BY <2>1, <2>2, <2>3, <2>4
  <2>6. setting' # "queue"  BY <1>1, <1>5
  <2>7. QED BY <2>5, <2>6 DEF FInv
<1>6. QED BY <1>3, <1>4, <1>5 DEF Next, vars

\* The invariant implies every part of BoundedBypass.
LEMMA FairImplies == MediationConstants /\ FInv => BoundedBypass
<1> SUFFICES ASSUME MediationConstants, FInv PROVE BoundedBypass
  OBVIOUS
<1>1. HoldsInv /\ QueueTypes  BY DEF FInv, HoldsInv
<1>2. \A o \in Own : q.map[o] \in Seq(Numbers) /\ DOMAIN q.map[o] = 1 .. Len(q.map[o])
  BY <1>1, LenProperties DEF QueueTypes
<1>3. \A o \in Own : Removals!ToSet(q.map[o]) = Held(o)
  BY <1>2 DEF Removals!ToSet, Held
<1>4. Removals!RemovedNeverServed
  BY <1>1, <1>3 DEF Removals!RemovedNeverServed, HoldsInv, RemovedAreOld, Own
<1>5. Removals!LenMatches
  <2>1. UNION {Removals!ToSet(q.map[o]) : o \in Own} = AllHeld  BY <1>3 DEF AllHeld
  <2>2. \A S : Removals!Cardinality(S) = Cardinality(S)
    BY DEF Removals!Cardinality, Cardinality
  <2>3. Removals!Cardinality(AllHeld) = q.len  BY <1>1, <2>2 DEF HoldsInv, Counted
  <2>4. QED BY <2>1, <2>3 DEF Removals!LenMatches, Own
<1>6. ASSUME setting = "queue"
      PROVE  Queue!BoundedBypass /\ Queue!FifoPerOwner /\ Queue!QueueMatchesMap
  <2>1. TurnsInv  BY <1>6 DEF FInv
  <2>2. q.queue \in Seq(Own) /\ DOMAIN q.queue = 1 .. Len(q.queue)
    BY <1>1, LenProperties DEF QueueTypes
  <2>3. Queue!FifoPerOwner
    BY <1>1, <1>2 DEF Queue!FifoPerOwner, HoldsInv, Numbered, Own
  <2>4. Queue!IsInjective(q.queue)
    BY <2>1, <2>2 DEF Queue!IsInjective, TurnsInv
  <2>5. Queue!ToSet(q.queue) = {o \in Own : q.map[o] # << >>}
    <3>1. Queue!ToSet(q.queue) = {q.queue[i] : i \in 1 .. Len(q.queue)}
      BY <2>2 DEF Queue!ToSet
    <3>2. \A i \in 1 .. Len(q.queue) : q.queue[i] \in Own  BY <2>2
    <3>3. QED BY <2>1, <3>1, <3>2 DEF TurnsInv
  <2>6. Queue!QueueMatchesMap  BY <2>4, <2>5 DEF Queue!QueueMatchesMap, Own
  <2>7. Queue!Cardinality(1 .. NOwners) = NOwners
    <3>1. Queue!Cardinality(1 .. NOwners) = Cardinality(1 .. NOwners)
      <4>1. \A S : Queue!Cardinality(S) = Cardinality(S)
        BY DEF Queue!Cardinality, Cardinality
      <4>2. QED BY <4>1
    <3>2. NOwners \in Nat  BY DEF MediationConstants
    <3>3. Cardinality(1 .. NOwners) = IF 1 > NOwners THEN 0 ELSE NOwners - 1 + 1
      BY <3>2, FS_Interval
    <3>4. QED BY <3>1, <3>2, <3>3
  <2>8. ASSUME NEW o \in Own PROVE passed[o] < NOwners
    <3>1. CASE q.map[o] = << >>
      <4>1. passed[o] = 0  BY <2>1, <3>1 DEF TurnsInv
      <4>2. o \in Nat /\ 1 <= o /\ o <= NOwners /\ NOwners \in Nat
        BY DEF Own, MediationConstants
      <4>3. QED BY <4>1, <4>2
    <3>2. CASE q.map[o] # << >>
      <4>1. PICK i \in 1 .. Len(q.queue) : q.queue[i] = o  BY <2>1, <3>2 DEF TurnsInv
      <4>2. passed[o] + i <= NOwners  BY <2>1, <4>1 DEF TurnsInv
      <4>3. passed[o] \in Nat /\ i \in Nat /\ i >= 1 /\ NOwners \in Nat
        BY <1>1, <2>2, <4>1 DEF QueueTypes, MediationConstants
      <4>4. QED BY <4>2, <4>3
    <3>3. QED BY <3>1, <3>2
  <2>9. Queue!BoundedBypass  BY <2>7, <2>8 DEF Queue!BoundedBypass, Own
  <2>10. QED BY <2>3, <2>6, <2>9
<1>7. QED BY <1>4, <1>5, <1>6 DEF BoundedBypass

\* In FairQueue the front task of an owner waits for fewer tasks of others than there
\* are owners, an owner's tasks are popped in the order pushed, and a removed owner's
\* tasks are never popped and no longer counted, for any number of owners and tasks.
THEOREM BoundedBypassHolds == Spec => []BoundedBypass
  BY MediationAssumption, FairInit, FairStep, FairImplies, PTL DEF Spec

-----------------------------------------------------------------------------
\* The mediated block device.
\* The guest VMs, the contexts and what they hold.
Guests == 1 .. NVms
Contexts == 0 .. NVms
IoTasks == {"io"} \X Guests \X Nat
AnyTask == {"ipi", "io"} \X Guests \X Nat
Locals == [need : BOOLEAN, task : AnyTask \cup {<< >>}, done : BOOLEAN,
           vm : Contexts, batch : Seq(Nat), by : {"exe", "handler"}]
NoLocals == [need |-> FALSE, task |-> << >>, done |-> FALSE, vm |-> 0,
             batch |-> << >>, by |-> "exe"]
Labels == {"guest", "kick", "room", "enter", "pick", "handle", "poll", "after",
           "finish", "publish", "scan", "request", "info"}

\* Some request waits, and the one that is served next.
Waiting == ioList.queue # << >>
Foremost == Head(ioList.map[Head(ioList.queue)])

\* The request numbers of tasks.
Issued(s) == [i \in DOMAIN s |-> s[i][3]]

\* Shape of the data and of the contexts.
DataTypes ==
    /\ avail \in [Guests -> Seq({"rw", "id", "bad"})]
    /\ last \in [Guests -> Nat] /\ used \in [Guests -> Seq(Nat)] /\ info \in [Guests -> Seq(Nat)]
    /\ \A v \in Guests : last[v] <= Len(avail[v]) /\ Len(avail[v]) <= MaxReqs
    /\ ipiList \in Seq({"ipi"} \X Guests \X Nat)
    /\ ioList \in [len : Int, map : [Guests -> Seq(IoTasks)], queue : Seq(Guests)]
    /\ state \in [{"ipi", "io"} \X Guests \X (1 .. MaxReqs) -> {"Pending", "Running", "Finish"}]
    /\ msgs \in Seq(Guests)
ControlTypes == pc \in [Contexts -> Labels] /\ ctx \in [Contexts -> Locals]

\* The queue of owners names each VM that has a request waiting, once.
Queued(f) ==
    /\ \A i, j \in 1 .. Len(f.queue) : f.queue[i] = f.queue[j] => i = j
    /\ \A v \in Guests : f.map[v] # << >> <=> \E i \in 1 .. Len(f.queue) : f.queue[i] = v

\* The waiting requests of a VM are its own, read from its ring, in the order
\* issued; those in its used ring were issued before them.
Ordered ==
    \A v \in Guests :
      /\ \A i \in 1 .. Len(ioList.map[v]) :
           ioList.map[v][i][2] = v /\ ioList.map[v][i][3] \in 1 .. last[v]
      /\ \A i, j \in 1 .. Len(ioList.map[v]) :
           i < j => ioList.map[v][i][3] < ioList.map[v][j][3]
      /\ \A i \in 1 .. Len(used[v]) : used[v][i] \in 1 .. last[v]
      /\ \A i, j \in 1 .. Len(used[v]) : i < j => used[v][i] < used[v][j]
      /\ \A i \in 1 .. Len(used[v]) : \A j \in 1 .. Len(ioList.map[v]) :
           used[v][i] < ioList.map[v][j][3]

\* While a message to the service VM is under way, no request waits.
OneMessage == msgs # << >> => Len(msgs) = 1 /\ ipiList # << >> /\ ~Waiting

\* What the service VM works on is the foremost request.
WithService == \A t \in svc : Waiting /\ t = Foremost /\ state[t] = "Running"

\* A finished read or write was performed, one in the used ring too.
Performed ==
    \A v \in Guests :
      /\ \A n \in 1 .. MaxReqs :
           state[<<"io", v, n>>] = "Finish" =>
             n <= Len(avail[v]) /\ (avail[v][n] = "rw" => <<"io", v, n>> \in performed)
      /\ \A i \in 1 .. Len(used[v]) :
           avail[v][used[v][i]] = "rw" => <<"io", v, used[v][i]>> \in performed

\* The used-info list of a VM matches its requests, but for one just added or taken.
Changing(c, v) == \/ pc[c] = "info" /\ ctx[c].vm = v
                  \/ pc[c] = "publish" /\ ctx[c].task[2] = v
Recorded == \A v \in Guests : info[v] = Issued(ioList.map[v]) \/ \E c \in Contexts : Changing(c, v)

\* A request to be read from the ring is newer than those waiting and those served.
NewerThan(v, n) ==
    /\ n \in 1 .. last[v]
    /\ \A k \in 1 .. Len(ioList.map[v]) : ioList.map[v][k][3] < n
    /\ \A k \in 1 .. Len(used[v]) : used[v][k] < n

\* What a context knows at each point of its way through the hypervisor.
IpiTask(c) == ctx[c].task # << >> /\ ctx[c].task[1] = "ipi"
Chosen(c) == Waiting /\ ctx[c].task = Foremost
Reading(c) == /\ ipiList # << >> /\ msgs = << >> /\ ctx[c].vm \in Guests /\ ~ctx[c].done
              /\ ctx[c].by = "exe" => c = 0 /\ IpiTask(c)
Sorted(b) == \A i, j \in 1 .. Len(b) : i < j => b[i] < b[j]

AtRest(c) == pc[c] \in {"guest", "kick"} => ctx[c] = NoLocals
AtEnter(c) == pc[c] = "enter" => msgs = << >> /\ ctx[c] = NoLocals
AtRoom(c) == pc[c] = "room" => ctx[c].by = "exe" /\ ~ctx[c].done /\ (ctx[c].need => msgs = << >>)
AtPick(c) == pc[c] = "pick" => ctx[c].by = "exe" /\ ~ctx[c].done /\ msgs = << >>
AtHandle(c) ==
    pc[c] \in {"handle", "poll"} =>
      /\ ctx[c].by = "exe" /\ ~ctx[c].done /\ msgs = << >>
      /\ IF IpiTask(c) THEN ipiList # << >> /\ ~Waiting ELSE Chosen(c)
      /\ pc[c] = "poll" /\ ~IpiTask(c) => state[ctx[c].task] = "Running"
AtAfter(c) ==
    pc[c] = "after" =>
      /\ ctx[c].by = "exe"
      /\ IF IpiTask(c) THEN ipiList # << >> /\ (msgs = << >> \/ (c # 0 /\ ~ctx[c].done))
                       ELSE msgs = << >> /\ Chosen(c)
                            /\ (ctx[c].done => state[ctx[c].task] = "Finish")
AtFinish(c) ==
    pc[c] = "finish" =>
      /\ msgs = << >>
      /\ IF ctx[c].by = "handler" \/ IpiTask(c) THEN ipiList # << >>
         ELSE Chosen(c) /\ state[ctx[c].task] = "Finish"
AtPublish(c) ==
    pc[c] = "publish" =>
      LET t == ctx[c].task IN
      /\ ctx[c].by = "exe" /\ msgs = << >>
      /\ t \in IoTasks /\ t[3] \in 1 .. last[t[2]] /\ state[t] = "Finish"
      /\ \A k \in 1 .. Len(used[t[2]]) : used[t[2]][k] < t[3]
      /\ \A k \in 1 .. Len(ioList.map[t[2]]) : t[3] < ioList.map[t[2]][k][3]
      /\ info[t[2]] # << >> /\ Head(info[t[2]]) = t[3]
      /\ Tail(info[t[2]]) = Issued(ioList.map[t[2]])
AtScan(c) == pc[c] = "scan" => Reading(c)
AtRequest(c) ==
    pc[c] = "request" =>
      Reading(c) /\ Sorted(ctx[c].batch) /\ \A i \in 1 .. Len(ctx[c].batch) : NewerThan(ctx[c].vm, ctx[c].batch[i])
AtInfo(c) ==
    pc[c] = "info" =>
      /\ Reading(c) /\ Sorted(ctx[c].batch) /\ ctx[c].batch # << >>
      /\ \A i \in 2 .. Len(ctx[c].batch) : NewerThan(ctx[c].vm, ctx[c].batch[i])
      /\ Issued(ioList.map[ctx[c].vm]) = Append(info[ctx[c].vm], Head(ctx[c].batch))

\* All of it: at each program point one conjunct says something.
Knows(c) ==
    /\ AtRest(c) /\ AtEnter(c) /\ AtRoom(c) /\ AtPick(c) /\ AtHandle(c) /\ AtAfter(c)
    /\ AtFinish(c) /\ AtPublish(c) /\ AtScan(c) /\ AtRequest(c) /\ AtInfo(c)

\* What holds of the data at every moment.
Globals ==
    /\ DataTypes /\ Queued(ioList) /\ Ordered /\ OneMessage /\ WithService /\ Performed

\* The inductive invariant of the device.
AsyncInv == Globals /\ ControlTypes /\ Recorded /\ \A c \in Contexts : Knows(c)

\* A step of one context, while the others are in their guests.
Alone(c) == \A d \in Contexts \ {c} : pc[d] \in {"guest", "kick"}
Moves(c) ==
    /\ Alone(c)
    /\ pc' = [pc EXCEPT ![c] = pc'[c]] /\ pc'[c] \in Labels
    /\ ctx' = [ctx EXCEPT ![c] = ctx'[c]] /\ ctx'[c] \in Locals
\* All but status, pc and ctx.
data == <<avail, last, used, info, ipiList, ioList, state, msgs, svc, performed>>

-----------------------------------------------------------------------------
\* A step that changes no data keeps what is said of the data.
LEMMA SameGlobals ==
  ASSUME Globals, UNCHANGED data
  PROVE  Globals'
<1>1. /\ avail' = avail /\ last' = last /\ used' = used /\ info' = info /\ ipiList' = ipiList
      /\ ioList' = ioList /\ state' = state /\ msgs' = msgs /\ svc' = svc /\ performed' = performed
  BY DEF data
<1>2. DataTypes'  BY <1>1 DEF Globals, DataTypes
<1>3. Queued(ioList)'  BY <1>1 DEF Globals, Queued
<1>4. Ordered'  BY <1>1 DEF Globals, Ordered
<1>5. OneMessage'  BY <1>1 DEF Globals, OneMessage, Waiting
<1>6. WithService'  BY <1>1 DEF Globals, WithService, Waiting, Foremost
<1>7. Performed'  BY <1>1 DEF Globals, Performed
<1>8. QED BY <1>2, <1>3, <1>4, <1>5, <1>6, <1>7 DEF Globals

\* At each program point a context knows one thing only.
LEMMA Arrived ==
  ASSUME NEW c \in Contexts
  PROVE  /\ pc'[c] \in {"guest", "kick"} /\ AtRest(c)' => Knows(c)'
         /\ pc'[c] = "enter" /\ AtEnter(c)' => Knows(c)'
         /\ pc'[c] = "room" /\ AtRoom(c)' => Knows(c)'
         /\ pc'[c] = "pick" /\ AtPick(c)' => Knows(c)'
         /\ pc'[c] \in {"handle", "poll"} /\ AtHandle(c)' => Knows(c)'
         /\ pc'[c] = "after" /\ AtAfter(c)' => Knows(c)'
         /\ pc'[c] = "finish" /\ AtFinish(c)' => Knows(c)'
         /\ pc'[c] = "publish" /\ AtPublish(c)' => Knows(c)'
         /\ pc'[c] = "scan" /\ AtScan(c)' => Knows(c)'
         /\ pc'[c] = "request" /\ AtRequest(c)' => Knows(c)'
         /\ pc'[c] = "info" /\ AtInfo(c)' => Knows(c)'
BY DEF Knows, AtRest, AtEnter, AtRoom, AtPick, AtHandle, AtAfter, AtFinish, AtPublish, AtScan,
   AtRequest, AtInfo

\* A step of one context has to establish what is said of the data, of the context
\* itself and of the used-info lists: the others are in their guests, without locals.
LEMMA Assemble ==
  ASSUME AsyncInv, NEW c \in Contexts, Moves(c), Globals', Knows(c)',
         \A v \in Guests : info'[v] = Issued(ioList'.map[v]) \/ Changing(c, v)'
  PROVE  AsyncInv'
<1>1. \A d \in Contexts \ {c} : pc'[d] = pc[d] /\ ctx'[d] = ctx[d] /\ pc[d] \in {"guest", "kick"}
  BY DEF Moves, Alone, AsyncInv, ControlTypes
<1>2. ASSUME NEW d \in Contexts \ {c} PROVE Knows(d)'
  <2>1. ctx[d] = NoLocals  BY <1>1 DEF AsyncInv, Knows, AtRest
  <2>2. AtRest(d)'  BY <1>1, <2>1 DEF AtRest, NoLocals
  <2>3. QED BY <1>1, <2>2, Arrived
<1>3. \A d \in Contexts : Knows(d)'  BY <1>2
<1>4. ControlTypes'  BY DEF Moves, AsyncInv, ControlTypes
<1>5. Recorded'  BY DEF Recorded
<1>6. QED BY <1>3, <1>4, <1>5 DEF AsyncInv

\* But for a context between the two locks, the used-info lists match.
LEMMA Quiet ==
  ASSUME AsyncInv, NEW c \in Contexts, Alone(c), pc[c] \notin {"info", "publish"}
  PROVE  \A v \in Guests : info[v] = Issued(ioList.map[v])
BY DEF AsyncInv, Recorded, Changing, Alone

\* In the middle of a change, the lists of the other VMs match.
LEMMA QuietElse ==
  ASSUME AsyncInv, NEW c \in Contexts, Alone(c)
  PROVE  \A v \in Guests : ~Changing(c, v) => info[v] = Issued(ioList.map[v])
BY DEF AsyncInv, Recorded, Changing, Alone

\* A step that only moves its context.
LEMMA OnlyMoves ==
  ASSUME AsyncInv, NEW c \in Contexts, Moves(c), UNCHANGED data, Knows(c)',
         pc[c] \notin {"info", "publish"}
  PROVE  AsyncInv'
<1>1. Globals'  BY SameGlobals DEF AsyncInv
<1>2. \A v \in Guests : info'[v] = Issued(ioList'.map[v])
  BY Quiet DEF Moves, data
<1>3. QED BY <1>1, <1>2, Assemble

\* front and is_empty, where the queue of owners names the VMs with requests.
LEMMA FrontIs ==
  ASSUME DataTypes, Queued(ioList)
  PROVE  /\ Waiting => /\ Shared!front(ioList) = Foremost /\ Foremost \in IoTasks /\ Foremost # << >>
                       /\ Head(ioList.queue) \in Guests
                       /\ ioList.map[Head(ioList.queue)] \in Seq(IoTasks) \ {<< >>}
                       /\ Foremost = ioList.map[Head(ioList.queue)][1]
                       /\ 1 \in 1 .. Len(ioList.map[Head(ioList.queue)])
         /\ Shared!is_empty(ioList) <=> ~Waiting
         /\ ~Waiting => Shared!front(ioList) = << >>
<1>1. ioList.queue \in Seq(Guests) /\ ioList.map \in [Guests -> Seq(IoTasks)]  BY DEF DataTypes
<1>2. ASSUME Waiting
      PROVE  /\ Shared!front(ioList) = Foremost /\ Foremost \in IoTasks /\ Foremost # << >>
             /\ Head(ioList.queue) \in Guests
             /\ ioList.map[Head(ioList.queue)] \in Seq(IoTasks) \ {<< >>}
             /\ Foremost = ioList.map[Head(ioList.queue)][1]
             /\ 1 \in 1 .. Len(ioList.map[Head(ioList.queue)])
             /\ ~Shared!is_empty(ioList)
  <2>1. /\ Head(ioList.queue) \in Guests /\ Head(ioList.queue) = ioList.queue[1]
        /\ 1 \in 1 .. Len(ioList.queue)
    <3>1. Len(ioList.queue) \in Nat \ {0}  BY <1>1, <1>2, EmptySeq DEF Waiting
    <3>2. QED BY <1>1, <1>2, <3>1, HeadTailProperties DEF Waiting
  <2>2. ioList.map[Head(ioList.queue)] # << >>  BY <2>1 DEF Queued
  <2>3. PICK s \in Seq(IoTasks) \ {<< >>} : s = ioList.map[Head(ioList.queue)]
    BY <1>1, <2>1, <2>2
  <2>4. Head(s) \in IoTasks /\ Len(s) \in Nat \ {0} /\ Head(s) = s[1]
    BY EmptySeq, HeadTailProperties
  <2>5. Head(s) # << >>  BY <2>4 DEF IoTasks
  <2>6. Shared!front(ioList) = Head(s)  BY <1>2, <2>2, <2>3 DEF Shared!front, Waiting
  <2>7. ~Shared!is_empty(ioList)  BY <2>1, <2>2 DEF Shared!is_empty, Guests
  <2>8. QED BY <2>1, <2>3, <2>4, <2>5, <2>6, <2>7 DEF Foremost
<1>3. ASSUME ~Waiting PROVE Shared!is_empty(ioList) /\ Shared!front(ioList) = << >>
  <2>1. ioList.queue = << >>  BY <1>3 DEF Waiting
  <2>2. 1 .. Len(ioList.queue) = {}  BY <2>1, EmptySeq
  <2>3. Shared!is_empty(ioList)  BY <2>2 DEF Queued, Shared!is_empty, Guests
  <2>4. QED BY <2>1, <2>3 DEF Shared!front, Shared!None
<1>4. QED BY <1>2, <1>3
\* The foremost request was read from the ring of its VM.
LEMMA ForemostIs ==
  ASSUME Globals, Waiting
  PROVE  /\ Foremost \in IoTasks /\ Foremost[2] \in Guests /\ Foremost[3] \in 1 .. last[Foremost[2]]
         /\ Foremost = <<"io", Foremost[2], Foremost[3]>> /\ Foremost[3] \in 1 .. MaxReqs
         /\ Foremost[3] <= Len(avail[Foremost[2]])
         /\ Foremost \in {"ipi", "io"} \X Guests \X (1 .. MaxReqs)
         /\ Foremost[2] = Head(ioList.queue) /\ Foremost # << >> /\ Foremost[1] = "io"
<1>1. /\ Foremost \in IoTasks /\ Head(ioList.queue) \in Guests
      /\ Foremost = ioList.map[Head(ioList.queue)][1]
      /\ 1 \in 1 .. Len(ioList.map[Head(ioList.queue)])
  BY FrontIs DEF Globals
<1>2. Foremost[2] = Head(ioList.queue) /\ Foremost[3] \in 1 .. last[Head(ioList.queue)]
  BY <1>1 DEF Globals, Ordered
<1>3. PICK v \in Guests, n \in Nat : Foremost = <<"io", v, n>>  BY <1>1 DEF IoTasks
<1>4. v = Head(ioList.queue) /\ n \in 1 .. last[v]  BY <1>2, <1>3
<1>5. last[v] \in Nat /\ Len(avail[v]) \in Nat /\ MaxReqs \in Nat
      /\ last[v] <= Len(avail[v]) /\ Len(avail[v]) <= MaxReqs
  BY MediationAssumption DEF MediationConstants, Globals, DataTypes
<1>6. n \in 1 .. MaxReqs /\ n <= Len(avail[v])  BY <1>4, <1>5
<1>7. QED BY <1>1, <1>3, <1>4, <1>6

\* The parts of the invariant that a step leaves alone.
LEMMA SameOrder ==
  ASSUME Globals, ioList' = ioList, last' = last, used' = used
  PROVE  Queued(ioList)' /\ Ordered' /\ Waiting' = Waiting /\ Foremost' = Foremost
BY DEF Globals, Queued, Ordered, Waiting, Foremost

\* The locals of a context in its guest.
LEMMA NoLocalsIs == NoLocals \in Locals /\ Shared!NoLocals = NoLocals
<1>1. << >> \in Seq(Nat)  BY EmptySeq
<1>2. QED BY <1>1, MediationAssumption
             DEF NoLocals, Locals, Contexts, MediationConstants, Shared!NoLocals, Shared!None

\* Leaving the hypervisor.
LEMMA Returns ==
  ASSUME ControlTypes, NEW c \in Contexts, Alone(c), Shared!Return(c)
  PROVE  Moves(c) /\ pc'[c] = "guest" /\ Knows(c)'
<1>1. pc' = [pc EXCEPT ![c] = "guest"] /\ ctx' = [ctx EXCEPT ![c] = NoLocals]
  BY NoLocalsIs DEF Shared!Return, Shared!Goto
<1>2. Moves(c) /\ pc'[c] = "guest" /\ ctx'[c] = NoLocals
  BY <1>1, NoLocalsIs DEF Moves, ControlTypes, Labels
<1>3. AtRest(c)'  BY <1>2 DEF AtRest, NoLocals
<1>4. QED BY <1>2, <1>3, Arrived

\* A step that goes on to another place with the same locals, or with others.
LEMMA GoesOn ==
  ASSUME ControlTypes, NEW c \in Contexts, Alone(c), NEW l \in Labels, NEW x \in Locals,
         Shared!Goto(c, l), (ctx' = ctx /\ x = ctx[c]) \/ ctx' = [ctx EXCEPT ![c] = x]
  PROVE  Moves(c) /\ pc'[c] = l /\ ctx'[c] = x
BY DEF Shared!Goto, Moves, ControlTypes

\* Where finish_async_task returns to.
LEMMA Continues ==
  ASSUME ControlTypes, NEW c \in Contexts, Alone(c), Shared!Continue(c), msgs' = << >>
  PROVE  Moves(c) /\ pc'[c] \in {"guest", "enter", "pick"} /\ Knows(c)'
<1>1. CASE Shared!Return(c)
  BY <1>1, Returns
<1>2. ASSUME NEW l \in {"enter", "pick"}, Shared!Goto(c, l), ctx' = [ctx EXCEPT ![c] = NoLocals]
      PROVE  Moves(c) /\ pc'[c] \in {"guest", "enter", "pick"} /\ Knows(c)'
  <2>1. Moves(c) /\ pc'[c] = l /\ ctx'[c] = NoLocals
    <3>1. l \in Labels  BY DEF Labels
    <3>2. QED BY <1>2, <3>1, NoLocalsIs, GoesOn
  <2>2. AtEnter(c)' /\ AtPick(c)'  BY <2>1 DEF AtEnter, AtPick, NoLocals
  <2>3. QED BY <2>1, <2>2, Arrived
<1>3. QED BY <1>1, <1>2, NoLocalsIs DEF Shared!Continue

-----------------------------------------------------------------------------
\* Lists of requests and their numbers.
\* The numbers of a list of requests.
LEMMA IssuedIs ==
  ASSUME NEW s \in Seq(IoTasks)
  PROVE  /\ Issued(s) \in Seq(Nat) /\ Len(Issued(s)) = Len(s)
         /\ \A i \in 1 .. Len(s) : Issued(s)[i] = s[i][3]
<1>1. Len(s) \in Nat /\ DOMAIN s = 1 .. Len(s) /\ \A i \in 1 .. Len(s) : s[i] \in IoTasks
  BY LenProperties
<1>2. \A t \in IoTasks : t[3] \in Nat  BY DEF IoTasks
<1>3. PICK n \in Nat : n = Len(s)  BY <1>1
<1>4. Issued(s) = [i \in 1 .. n |-> s[i][3]]  BY <1>1, <1>3 DEF Issued
<1>5. \A i \in 1 .. n : s[i][3] \in Nat  BY <1>1, <1>2, <1>3
<1>6. [i \in 1 .. n |-> s[i][3]] \in Seq(Nat) /\ Len([i \in 1 .. n |-> s[i][3]]) = n
  BY <1>5
<1>7. QED BY <1>3, <1>4, <1>6

\* The numbers after one more request.
LEMMA IssuedAppend ==
  ASSUME NEW s \in Seq(IoTasks), NEW t \in IoTasks
  PROVE  Issued(Append(s, t)) = Append(Issued(s), t[3])
<1>1. /\ Append(s, t) \in Seq(IoTasks) /\ Len(Append(s, t)) = Len(s) + 1 /\ Len(s) \in Nat
      /\ \A i \in 1 .. Len(s) : Append(s, t)[i] = s[i]
      /\ Append(s, t)[Len(s) + 1] = t
  BY AppendProperties, LenProperties
<1>2. t[3] \in Nat  BY DEF IoTasks
<1>3. PICK r \in Seq(IoTasks) : r = Append(s, t)  BY <1>1
<1>4. /\ Issued(r) \in Seq(Nat) /\ Len(Issued(r)) = Len(r)
      /\ \A i \in 1 .. Len(r) : Issued(r)[i] = r[i][3]
  BY IssuedIs
<1>5. /\ Issued(s) \in Seq(Nat) /\ Len(Issued(s)) = Len(s)
      /\ \A i \in 1 .. Len(s) : Issued(s)[i] = s[i][3]
  BY IssuedIs
<1>6. PICK u \in Seq(Nat) : u = Issued(s)  BY <1>5
<1>7. PICK w \in Seq(Nat) : w = Append(u, t[3])  BY <1>2, AppendProperties
<1>8. Len(w) = Len(u) + 1 /\ w[Len(u) + 1] = t[3] /\ \A i \in 1 .. Len(u) : w[i] = u[i]
  BY <1>2, <1>7, AppendProperties
<1>9. Len(Issued(r)) = Len(w)  BY <1>1, <1>3, <1>4, <1>5, <1>6, <1>8
<1>10. ASSUME NEW i \in 1 .. Len(Issued(r)) PROVE Issued(r)[i] = w[i]
  <2>1. i \in 1 .. Len(s) \/ i = Len(s) + 1  BY <1>1, <1>3, <1>4
  <2>2. Issued(r)[i] = r[i][3]  BY <1>4
  <2>3. CASE i \in 1 .. Len(s)  BY <1>1, <1>3, <1>5, <1>6, <1>8, <2>2, <2>3
  <2>4. CASE i = Len(s) + 1  BY <1>1, <1>3, <1>5, <1>6, <1>8, <2>2, <2>4
  <2>5. QED BY <2>1, <2>3, <2>4
<1>11. Issued(r) = w  BY <1>4, <1>9, <1>10, SeqEqual
<1>12. QED BY <1>3, <1>6, <1>7, <1>11

\* The numbers after the first request is taken.
LEMMA IssuedTail ==
  ASSUME NEW s \in Seq(IoTasks), s # << >>
  PROVE  /\ Issued(s) # << >> /\ Head(Issued(s)) = s[1][3]
         /\ Tail(Issued(s)) = Issued(Tail(s))
<1>1. /\ Tail(s) \in Seq(IoTasks) /\ Len(Tail(s)) = Len(s) - 1 /\ Len(s) \in Nat \ {0}
      /\ \A i \in 1 .. Len(Tail(s)) : Tail(s)[i] = s[i + 1]
  BY HeadTailProperties, EmptySeq
<1>2. PICK u \in Seq(Nat) : u = Issued(s)  BY IssuedIs
<1>3. Len(u) = Len(s) /\ \A i \in 1 .. Len(s) : u[i] = s[i][3]  BY <1>2, IssuedIs
<1>4. u # << >>
  <2>1. Len(<< >>) = 0  BY EmptySeq
  <2>2. QED BY <1>1, <1>3, <2>1
<1>5. /\ Tail(u) \in Seq(Nat) /\ Len(Tail(u)) = Len(u) - 1 /\ Head(u) = u[1]
      /\ \A i \in 1 .. Len(Tail(u)) : Tail(u)[i] = u[i + 1]
  BY <1>4, HeadTailProperties
<1>6. PICK r \in Seq(IoTasks) : r = Tail(s)  BY <1>1
<1>7. /\ Issued(r) \in Seq(Nat) /\ Len(Issued(r)) = Len(r)
      /\ \A i \in 1 .. Len(r) : Issued(r)[i] = r[i][3]
  BY IssuedIs
<1>8. Len(Issued(r)) = Len(Tail(u))  BY <1>1, <1>3, <1>5, <1>6, <1>7
<1>9. ASSUME NEW i \in 1 .. Len(Issued(r)) PROVE Issued(r)[i] = Tail(u)[i]
  <2>1. i \in 1 .. Len(r) /\ i \in 1 .. Len(Tail(u))  BY <1>7, <1>8
  <2>2. i + 1 \in 1 .. Len(s)  BY <1>1, <1>6, <2>1
  <2>3. Issued(r)[i] = s[i + 1][3]  BY <1>1, <1>6, <1>7, <2>1
  <2>4. Tail(u)[i] = u[i + 1]  BY <1>5, <2>1
  <2>5. QED BY <1>3, <2>2, <2>3, <2>4
<1>10. Issued(r) = Tail(u)  BY <1>5, <1>7, <1>8, <1>9, SeqEqual
<1>11. u[1] = s[1][3]  BY <1>1, <1>3
<1>12. QED BY <1>2, <1>4, <1>5, <1>6, <1>10, <1>11

\* The fair queues of requests, and their queue of owners as an invariant of its own.
Queues == [len : Int, map : [Guests -> Seq(IoTasks)], queue : Seq(Guests)]

Names(s, m) ==
    /\ \A i, j \in 1 .. Len(s) : s[i] = s[j] => i = j
    /\ \A v \in Guests : m[v] # << >> <=> \E i \in 1 .. Len(s) : s[i] = v

\* A fair queue is put together from its three fields.
LEMMA QueueIs ==
  ASSUME NEW l \in Int, NEW m \in [Guests -> Seq(IoTasks)], NEW s \in Seq(Guests), Names(s, m)
  PROVE  [len |-> l, map |-> m, queue |-> s] \in Queues /\ Queued([len |-> l, map |-> m, queue |-> s])
BY DEF Queues, Queued, Names

\* The queue g is f with t behind the requests of v, the foremost request the same.
Joined(f, v, t, g) ==
    /\ g \in Queues /\ Queued(g) /\ g.map = [f.map EXCEPT ![v] = Append(f.map[v], t)]
    /\ f.queue # << >> =>
         g.queue # << >> /\ Head(g.queue) = Head(f.queue)
         /\ Head(g.map[Head(g.queue)]) = Head(f.map[Head(f.queue)])

\* push_back keeps the queue of owners right.
LEMMA PushQueue ==
  ASSUME NEW f \in Queues, Queued(f), NEW v \in Guests, NEW t \in IoTasks,
         NEW g, g = Shared!push_back(f, v, t)
  PROVE  Joined(f, v, t, g)
<1> SUFFICES /\ g \in Queues /\ Queued(g) /\ g.map = [f.map EXCEPT ![v] = Append(f.map[v], t)]
             /\ f.queue # << >> =>
                  g.queue # << >> /\ Head(g.queue) = Head(f.queue)
                  /\ Head(g.map[Head(g.queue)]) = Head(f.map[Head(f.queue)])
  BY DEF Joined
<1>1. PICK m \in [Guests -> Seq(IoTasks)] : m = f.map  BY DEF Queues
<1>2. PICK s \in Seq(Guests) : s = f.queue  BY DEF Queues
<1>n. PICK n \in [Guests -> Seq(IoTasks)] : n = [m EXCEPT ![v] = Append(m[v], t)]
  <2>1. m[v] \in Seq(IoTasks)  OBVIOUS
  <2>2. Append(m[v], t) \in Seq(IoTasks)  BY <2>1, AppendProperties
  <2>3. [m EXCEPT ![v] = Append(m[v], t)] \in [Guests -> Seq(IoTasks)]  BY <2>2
  <2>4. QED BY <2>3
<1>l. PICK l \in Int :
         g = [len |-> l, map |-> n, queue |-> IF m[v] = << >> THEN Append(s, v) ELSE s]
  <2>1. f.len + 1 \in Int  BY DEF Queues
  <2>2. g = [len |-> f.len + 1, map |-> [m EXCEPT ![v] = Append(m[v], t)],
             queue |-> IF m[v] = << >> THEN Append(s, v) ELSE s]
    BY <1>1, <1>2 DEF Shared!push_back
  <2>3. QED BY <1>n, <2>1, <2>2
<1>3. /\ n = [m EXCEPT ![v] = Append(m[v], t)]
      /\ g = [len |-> l, map |-> n, queue |-> IF m[v] = << >> THEN Append(s, v) ELSE s]
  BY <1>n, <1>l
<1>4. /\ Append(m[v], t) \in Seq(IoTasks) /\ Append(m[v], t) # << >>
      /\ m[v] # << >> => Head(Append(m[v], t)) = Head(m[v])
  <2>1. m[v] \in Seq(IoTasks)  OBVIOUS
  <2>2. QED BY <2>1, AppendProperties, HeadTailAppend
<1>5. /\ n \in [Guests -> Seq(IoTasks)] /\ n[v] = Append(m[v], t)
      /\ \A u \in Guests : u # v => n[u] = m[u]
  BY <1>3, <1>4
<1>6. Len(s) \in Nat /\ (\A i \in 1 .. Len(s) : s[i] \in Guests)
      /\ (s # << >> => Head(s) \in Guests /\ Head(s) = s[1] /\ 1 \in 1 .. Len(s))
  <2>1. Len(s) \in Nat /\ \A i \in 1 .. Len(s) : s[i] \in Guests  BY LenProperties
  <2>2. ASSUME s # << >> PROVE Head(s) \in Guests /\ Head(s) = s[1] /\ 1 \in 1 .. Len(s)
    <3>1. Len(s) # 0  BY <2>2, EmptySeq
    <3>2. QED BY <2>1, <2>2, <3>1, HeadTailProperties
  <2>3. QED BY <2>1, <2>2
<1>7. /\ \A i, j \in 1 .. Len(s) : s[i] = s[j] => i = j
      /\ \A u \in Guests : m[u] # << >> <=> \E i \in 1 .. Len(s) : s[i] = u
  BY <1>1, <1>2 DEF Queued
<1>8. CASE m[v] # << >>
  <2>1. g = [len |-> l, map |-> n, queue |-> s]  BY <1>3, <1>8
  <2>2. \A u \in Guests : n[u] # << >> <=> m[u] # << >>  BY <1>4, <1>5, <1>8
  <2>3. \A u \in Guests : n[u] # << >> <=> \E i \in 1 .. Len(s) : s[i] = u  BY <1>7, <2>2
  <2>4. g \in Queues /\ Queued(g) /\ g.map = n /\ g.queue = s
    <3>1. Names(s, n)  BY <1>7, <2>3 DEF Names
    <3>2. n \in [Guests -> Seq(IoTasks)]  BY <1>5
    <3>3. [len |-> l, map |-> n, queue |-> s] \in Queues  BY <3>1, <3>2, QueueIs
    <3>4. Queued([len |-> l, map |-> n, queue |-> s])  BY <3>1, <3>2, QueueIs
    <3>5. g.map = n /\ g.queue = s  BY <2>1
    <3>6. QED BY <2>1, <3>3, <3>4, <3>5
  <2>5. ASSUME s # << >>
        PROVE  Head(n[Head(s)]) = Head(m[Head(s)])
    BY <1>4, <1>5, <1>6, <1>8, <2>5
  <2>6. QED BY <1>1, <1>2, <1>3, <2>4, <2>5
<1>9. CASE m[v] = << >>
  <2> DEFINE r == Append(s, v)
  <2>a. /\ r \in Seq(Guests) /\ Len(r) = Len(s) + 1 /\ r[Len(s) + 1] = v /\ r # << >>
        /\ \A i \in 1 .. Len(s) : r[i] = s[i]
    BY <1>4, AppendProperties
  <2>b. s # << >> => Head(r) = Head(s)  BY <1>4, HeadTailAppend
  <2>1. /\ r \in Seq(Guests) /\ Len(r) = Len(s) + 1 /\ r[Len(s) + 1] = v /\ r # << >>
        /\ \A i \in 1 .. Len(s) : r[i] = s[i]
        /\ s # << >> => Head(r) = Head(s)
    BY <2>a, <2>b
  <2>2. \A i \in 1 .. Len(s) : s[i] # v  BY <1>7, <1>9
  <2>3. g = [len |-> l, map |-> n, queue |-> r]  BY <1>3, <1>9
  <2> HIDE DEF r
  <2>5. \A i \in 1 .. Len(r) : i = Len(s) + 1 \/ i \in 1 .. Len(s)  BY <1>6, <2>1
  <2>6. \A i \in 1 .. Len(s) : i \in 1 .. Len(r)  BY <1>6, <2>1
  <2>7. ASSUME NEW i \in 1 .. Len(r), NEW j \in 1 .. Len(r), r[i] = r[j] PROVE i = j
    <3>1. CASE i \in 1 .. Len(s) /\ j \in 1 .. Len(s)  BY <1>7, <2>1, <2>7, <3>1
    <3>2. CASE i = Len(s) + 1 /\ j = Len(s) + 1  BY <3>2
    <3>3. CASE i \in 1 .. Len(s) /\ j = Len(s) + 1  BY <2>1, <2>2, <2>7, <3>3
    <3>4. CASE i = Len(s) + 1 /\ j \in 1 .. Len(s)  BY <2>1, <2>2, <2>7, <3>4
    <3>5. QED BY <2>5, <3>1, <3>2, <3>3, <3>4
  <2>8. ASSUME NEW u \in Guests PROVE n[u] # << >> <=> \E i \in 1 .. Len(r) : r[i] = u
    <3>1. CASE u = v
      <4>1. Len(s) + 1 \in 1 .. Len(r)  BY <1>6, <2>1
      <4>2. QED BY <1>4, <1>5, <2>1, <3>1, <4>1
    <3>2. CASE u # v
      <4>1. (\E i \in 1 .. Len(r) : r[i] = u) <=> (\E i \in 1 .. Len(s) : s[i] = u)
        BY <2>1, <2>5, <2>6, <3>2
      <4>2. QED BY <1>5, <1>7, <3>2, <4>1
    <3>3. QED BY <3>1, <3>2
  <2>9. g \in Queues /\ Queued(g) /\ g.map = n /\ g.queue = r
    <3>1. Names(r, n)  BY <2>7, <2>8 DEF Names
    <3>2. n \in [Guests -> Seq(IoTasks)] /\ r \in Seq(Guests)  BY <1>5, <2>1
    <3>3. [len |-> l, map |-> n, queue |-> r] \in Queues  BY <3>1, <3>2, QueueIs
    <3>4. Queued([len |-> l, map |-> n, queue |-> r])  BY <3>1, <3>2, QueueIs
    <3>5. g.map = n /\ g.queue = r  BY <2>3
    <3>6. QED BY <2>3, <3>3, <3>4, <3>5
  <2>10. ASSUME s # << >> PROVE Head(n[Head(s)]) = Head(m[Head(s)])
    <3>1. Head(s) # v /\ Head(s) \in Guests  BY <1>6, <2>2, <2>10
    <3>2. QED BY <1>5, <3>1
  <2>11. QED BY <1>1, <1>2, <1>3, <2>1, <2>9, <2>10
<1>10. QED BY <1>8, <1>9

\* pop_front keeps the queue of owners right.
LEMMA PopQueue ==
  ASSUME NEW f \in Queues, Queued(f), f.queue # << >>, NEW g, g = Shared!pop_front(f),
         NEW h, h = Head(f.queue)
  PROVE  g \in Queues /\ Queued(g) /\ g.map = [f.map EXCEPT ![h] = Tail(f.map[h])]
<1>1. PICK m \in [Guests -> Seq(IoTasks)] : m = f.map  BY DEF Queues
<1>2. PICK s \in Seq(Guests) : s = f.queue  BY DEF Queues
<1>3. /\ \A i, j \in 1 .. Len(s) : s[i] = s[j] => i = j
      /\ \A u \in Guests : m[u] # << >> <=> \E i \in 1 .. Len(s) : s[i] = u
  BY <1>1, <1>2 DEF Queued
<1>4. /\ s # << >> /\ Len(s) \in Nat \ {0} /\ h = s[1] /\ h \in Guests /\ 1 \in 1 .. Len(s)
      /\ \A i \in 1 .. Len(s) : s[i] \in Guests
  <2>1. s # << >> /\ h = Head(s)  BY <1>2
  <2>2. Len(s) \in Nat \ {0}  BY <2>1, EmptySeq
  <2>3. QED BY <2>1, <2>2, HeadTailProperties
<1>5. m[h] # << >> /\ m[h] \in Seq(IoTasks) /\ Len(m[h]) \in Nat \ {0}
  <2>1. m[h] # << >> /\ m[h] \in Seq(IoTasks)  BY <1>3, <1>4
  <2>2. QED BY <2>1, EmptySeq
<1>6. PICK r \in Seq(Guests) : r = Tail(s)  BY <1>4, HeadTailProperties
<1>7. Len(r) = Len(s) - 1 /\ Len(r) \in Nat /\ \A i \in 1 .. Len(r) : r[i] = s[i + 1]
  BY <1>4, <1>6, HeadTailProperties
<1>n. PICK n \in [Guests -> Seq(IoTasks)] : n = [m EXCEPT ![h] = Tail(m[h])]
  <2>1. Tail(m[h]) \in Seq(IoTasks)  BY <1>5, HeadTailProperties
  <2>2. [m EXCEPT ![h] = Tail(m[h])] \in [Guests -> Seq(IoTasks)]  BY <2>1
  <2>3. QED BY <2>2
<1>l. PICK l \in Int :
         g = [len |-> l, map |-> n, queue |-> IF Len(m[h]) > 1 THEN Append(r, h) ELSE r]
  <2>1. f.len - 1 \in Int  BY DEF Queues
  <2>2. g = [len |-> f.len - 1, map |-> [m EXCEPT ![h] = Tail(m[h])],
             queue |-> IF Len(m[h]) > 1 THEN Append(r, h) ELSE r]
    BY <1>1, <1>2, <1>4, <1>5, <1>6 DEF Shared!pop_front
  <2>3. QED BY <1>n, <2>1, <2>2
<1>8. /\ n = [m EXCEPT ![h] = Tail(m[h])]
      /\ g = [len |-> l, map |-> n, queue |-> IF Len(m[h]) > 1 THEN Append(r, h) ELSE r]
  BY <1>n, <1>l
<1>9. /\ Tail(m[h]) \in Seq(IoTasks)
      /\ Tail(m[h]) # << >> <=> Len(m[h]) > 1
  <2>1. Tail(m[h]) \in Seq(IoTasks) /\ Len(Tail(m[h])) = Len(m[h]) - 1
    BY <1>5, HeadTailProperties
  <2>2. PICK k \in Nat \ {0} : k = Len(m[h])  BY <1>5
  <2>3. k - 1 # 0 <=> k > 1  OBVIOUS
  <2>4. Len(<< >>) = 0  BY EmptySeq
  <2>5. Tail(m[h]) # << >> <=> Len(Tail(m[h])) # 0  BY <2>1, <2>4, EmptySeq
  <2>6. QED BY <2>1, <2>2, <2>3, <2>5
<1>10. /\ n \in [Guests -> Seq(IoTasks)] /\ n[h] = Tail(m[h])
       /\ \A u \in Guests : u # h => n[u] = m[u]
  BY <1>4, <1>8, <1>9
<1>11. \A i \in 1 .. Len(r) : i + 1 \in 1 .. Len(s) /\ r[i] = s[i + 1] /\ r[i] # h /\ r[i] \in Guests
  <2>1. ASSUME NEW i \in 1 .. Len(r)
        PROVE  i + 1 \in 1 .. Len(s) /\ r[i] = s[i + 1] /\ r[i] # h /\ r[i] \in Guests
    <3>1. i + 1 \in 1 .. Len(s) /\ i + 1 # 1 /\ r[i] = s[i + 1]  BY <1>4, <1>7
    <3>2. QED BY <1>3, <1>4, <3>1
  <2>2. QED BY <2>1
<1>12. \A i, j \in 1 .. Len(r) : r[i] = r[j] => i = j
  <2>1. ASSUME NEW i \in 1 .. Len(r), NEW j \in 1 .. Len(r), r[i] = r[j] PROVE i = j
    <3>1. i + 1 = j + 1  BY <1>3, <1>11, <2>1
    <3>2. QED BY <1>7, <3>1
  <2>2. QED BY <2>1
<1>13. \A u \in Guests : u # h => (m[u] # << >> <=> \E i \in 1 .. Len(r) : r[i] = u)
  <2>1. ASSUME NEW u \in Guests, u # h, NEW i \in 1 .. Len(s), s[i] = u
        PROVE  \E k \in 1 .. Len(r) : r[k] = u
    <3>1. i # 1  BY <1>4, <2>1
    <3>2. i - 1 \in 1 .. Len(r) /\ (i - 1) + 1 = i  BY <1>4, <1>7, <3>1
    <3>3. r[i - 1] = u  BY <1>7, <2>1, <3>2
    <3>4. QED BY <3>2, <3>3
  <2>2. ASSUME NEW u \in Guests, u # h
        PROVE  m[u] # << >> <=> \E i \in 1 .. Len(r) : r[i] = u
    <3>1. ASSUME m[u] # << >> PROVE \E i \in 1 .. Len(r) : r[i] = u
      <4>1. PICK i \in 1 .. Len(s) : s[i] = u  BY <1>3, <3>1
      <4>2. QED BY <2>1, <2>2, <4>1
    <3>2. ASSUME NEW i \in 1 .. Len(r), r[i] = u PROVE m[u] # << >>
      <4>1. i + 1 \in 1 .. Len(s) /\ s[i + 1] = u  BY <1>11, <3>2
      <4>2. QED BY <1>3, <4>1
    <3>3. QED BY <3>1, <3>2
  <2>3. QED BY <2>2
<1>14. CASE Len(m[h]) > 1
  <2> DEFINE w == Append(r, h)
  <2>1. /\ w \in Seq(Guests) /\ Len(w) = Len(r) + 1 /\ w[Len(r) + 1] = h
        /\ \A i \in 1 .. Len(r) : w[i] = r[i]
    BY <1>4, AppendProperties
  <2>2. g = [len |-> l, map |-> n, queue |-> w]  BY <1>8, <1>14
  <2> HIDE DEF w
  <2>3. Len(r) \in Nat /\ Len(w) = Len(r) + 1  BY <1>7, <2>1
  <2>4. \A i \in 1 .. Len(w) : i = Len(r) + 1 \/ i \in 1 .. Len(r)  BY <2>3
  <2>5. \A i \in 1 .. Len(r) : i \in 1 .. Len(w)  BY <2>3
  <2>6. ASSUME NEW i \in 1 .. Len(w), NEW j \in 1 .. Len(w), w[i] = w[j] PROVE i = j
    <3>1. CASE i \in 1 .. Len(r) /\ j \in 1 .. Len(r)  BY <1>12, <2>1, <2>6, <3>1
    <3>2. CASE i = Len(r) + 1 /\ j = Len(r) + 1  BY <3>2
    <3>3. CASE i \in 1 .. Len(r) /\ j = Len(r) + 1  BY <1>11, <2>1, <2>6, <3>3
    <3>4. CASE i = Len(r) + 1 /\ j \in 1 .. Len(r)  BY <1>11, <2>1, <2>6, <3>4
    <3>5. QED BY <2>4, <3>1, <3>2, <3>3, <3>4
  <2>7. ASSUME NEW u \in Guests PROVE n[u] # << >> <=> \E i \in 1 .. Len(w) : w[i] = u
    <3>1. CASE u = h
      <4>1. Len(r) + 1 \in 1 .. Len(w)  BY <1>7, <2>1
      <4>2. QED BY <1>9, <1>10, <1>14, <2>1, <3>1, <4>1
    <3>2. CASE u # h
      <4>1. (\E i \in 1 .. Len(w) : w[i] = u) <=> (\E i \in 1 .. Len(r) : r[i] = u)
        BY <2>1, <2>4, <2>5, <3>2
      <4>2. QED BY <1>10, <1>13, <3>2, <4>1
    <3>3. QED BY <3>1, <3>2
  <2>8. g \in Queues /\ Queued(g) /\ g.map = n
    <3>1. Names(w, n)  BY <2>6, <2>7 DEF Names
    <3>2. n \in [Guests -> Seq(IoTasks)] /\ w \in Seq(Guests)  BY <1>10, <2>1
    <3>3. [len |-> l, map |-> n, queue |-> w] \in Queues  BY <3>1, <3>2, QueueIs
    <3>4. Queued([len |-> l, map |-> n, queue |-> w])  BY <3>1, <3>2, QueueIs
    <3>5. g.map = n  BY <2>2
    <3>6. QED BY <2>2, <3>3, <3>4, <3>5
  <2>9. QED BY <1>1, <1>8, <2>8
<1>15. CASE ~(Len(m[h]) > 1)
  <2>1. g = [len |-> l, map |-> n, queue |-> r]  BY <1>8, <1>15
  <2>2. ASSUME NEW u \in Guests PROVE n[u] # << >> <=> \E i \in 1 .. Len(r) : r[i] = u
    <3>1. CASE u = h  BY <1>9, <1>10, <1>11, <1>15, <3>1
    <3>2. CASE u # h  BY <1>10, <1>13, <3>2
    <3>3. QED BY <3>1, <3>2
  <2>3. g \in Queues /\ Queued(g) /\ g.map = n
    <3>1. Names(r, n)  BY <1>12, <2>2 DEF Names
    <3>2. n \in [Guests -> Seq(IoTasks)]  BY <1>10
    <3>3. [len |-> l, map |-> n, queue |-> r] \in Queues  BY <3>1, <3>2, QueueIs
    <3>4. Queued([len |-> l, map |-> n, queue |-> r])  BY <3>1, <3>2, QueueIs
    <3>5. g.map = n  BY <2>1
    <3>6. QED BY <2>1, <3>3, <3>4, <3>5
  <2>4. QED BY <1>1, <1>8, <2>3
<1>16. QED BY <1>14, <1>15
-----------------------------------------------------------------------------
\* add_async_task, after the wait: only who found everything empty runs the executor.
LEMMA WaitRoomStep ==
  ASSUME AsyncInv, NEW c \in Guests, Shared!WaitRoom(c)
  PROVE  AsyncInv'
<1>1. /\ c \in Contexts /\ ctx[c] \in Locals /\ pc[c] = "room" /\ Alone(c) /\ UNCHANGED data
      /\ ControlTypes /\ AtRoom(c)
  BY DEF Shared!WaitRoom, Shared!At, Shared!OnCore, Shared!InGuest, Shared!Contexts, Shared!ring,
     Shared!lists, Alone, data, Contexts, Guests, AsyncInv, ControlTypes, Knows
<1>2. CASE ctx[c].need
  <2>1. Shared!Goto(c, "pick") /\ ctx' = ctx  BY <1>2 DEF Shared!WaitRoom
  <2>2. Moves(c) /\ pc'[c] = "pick" /\ ctx'[c] = ctx[c]  BY <1>1, <2>1, GoesOn DEF Labels
  <2>3. AtPick(c)'  BY <1>1, <1>2, <2>2 DEF AtPick, AtRoom, data
  <2>4. QED BY <1>1, <2>2, <2>3, Arrived, OnlyMoves
<1>3. CASE ~ctx[c].need
  <2>1. Shared!Return(c)  BY <1>3 DEF Shared!WaitRoom
  <2>2. QED BY <1>1, <2>1, Returns, OnlyMoves
<1>4. QED BY <1>2, <1>3

\* async_task_exe, the status protocol.
LEMMA EnterStep ==
  ASSUME AsyncInv, NEW c \in Contexts, Shared!Enter(c)
  PROVE  AsyncInv'
<1>1. /\ ctx[c] \in Locals /\ pc[c] = "enter" /\ Alone(c) /\ UNCHANGED data
      /\ ControlTypes /\ AtEnter(c)
  BY DEF Shared!Enter, Shared!At, Shared!OnCore, Shared!InGuest, Shared!Contexts, Shared!ring,
     Shared!lists, Alone, data, Contexts, AsyncInv, ControlTypes, Knows
<1>2. CASE Shared!Return(c)
  BY <1>1, <1>2, Returns, OnlyMoves
<1>3. CASE Shared!Goto(c, "pick") /\ ctx' = ctx
  <2>1. Moves(c) /\ pc'[c] = "pick" /\ ctx'[c] = ctx[c]  BY <1>1, <1>3, GoesOn DEF Labels
  <2>2. AtPick(c)'  BY <1>1, <2>1 DEF AtPick, AtEnter, NoLocals, data
  <2>3. QED BY <1>1, <2>1, <2>2, Arrived, OnlyMoves
<1>4. QED BY <1>2, <1>3 DEF Shared!Enter

\* The front task of one of the two lists.
LEMMA PickStep ==
  ASSUME AsyncInv, NEW c \in Contexts, Shared!Pick(c)
  PROVE  AsyncInv'
<1>1. /\ ctx[c] \in Locals /\ pc[c] = "pick" /\ Alone(c) /\ UNCHANGED data
      /\ ControlTypes /\ AtPick(c) /\ DataTypes /\ Queued(ioList)
  BY DEF Shared!Pick, Shared!At, Shared!OnCore, Shared!InGuest, Shared!Contexts, Shared!ring,
     Shared!lists, Alone, data, Contexts, AsyncInv, Globals, ControlTypes, Knows
<1>2. CASE Shared!Return(c)
  BY <1>1, <1>2, Returns, OnlyMoves
<1>3. ASSUME NEW t \in AnyTask, Shared!Goto(c, "handle"), ctx' = [ctx EXCEPT ![c].task = t],
             IF t[1] = "ipi" THEN ipiList # << >> /\ ~Waiting ELSE Waiting /\ t = Foremost
      PROVE  AsyncInv'
  <2> DEFINE x == [ctx[c] EXCEPT !.task = t]
  <2>1. x \in Locals /\ x.task = t /\ x.done = ctx[c].done /\ x.by = ctx[c].by
    BY <1>1 DEF Locals
  <2>2. ctx' = [ctx EXCEPT ![c] = x]  BY <1>3
  <2> HIDE DEF x
  <2>3. Moves(c) /\ pc'[c] = "handle" /\ ctx'[c] = x  BY <1>1, <1>3, <2>1, <2>2, GoesOn DEF Labels
  <2>4. t # << >>  BY <1>3 DEF AnyTask
  <2>5. AtHandle(c)'
    BY <1>1, <1>3, <2>1, <2>3, <2>4 DEF AtHandle, AtPick, IpiTask, Chosen, data, Waiting, Foremost
  <2>6. QED BY <1>1, <2>3, <2>5, Arrived, OnlyMoves
<1>4. CASE Waiting
  <2>1. Shared!front(ioList) = Foremost /\ Foremost \in IoTasks /\ Foremost # << >>
        /\ ~Shared!is_empty(ioList)
    BY <1>1, <1>4, FrontIs
  <2>2. Foremost \in AnyTask /\ Foremost[1] = "io"  BY <2>1 DEF IoTasks, AnyTask
  <2>3. Shared!Goto(c, "handle") /\ ctx' = [ctx EXCEPT ![c].task = Foremost]
    BY <2>1 DEF Shared!Pick, Shared!None
  <2>4. QED BY <1>3, <1>4, <2>2, <2>3
<1>5. CASE ~Waiting /\ ipiList # << >>
  <2>1. Shared!is_empty(ioList)  BY <1>1, <1>5, FrontIs
  <2>2. Head(ipiList) \in {"ipi"} \X Guests \X Nat  BY <1>1, <1>5, HeadTailProperties DEF DataTypes
  <2>3. Head(ipiList) \in AnyTask /\ Head(ipiList)[1] = "ipi" /\ Head(ipiList) # << >>
    BY <2>2 DEF AnyTask
  <2>4. Shared!Goto(c, "handle") /\ ctx' = [ctx EXCEPT ![c].task = Head(ipiList)]
    BY <1>5, <2>1, <2>3 DEF Shared!Pick, Shared!None
  <2>5. QED BY <1>3, <1>5, <2>3, <2>4
<1>6. CASE ~Waiting /\ ipiList = << >>
  <2>1. Shared!is_empty(ioList)  BY <1>1, <1>6, FrontIs
  <2>2. Shared!Return(c)  BY <1>6, <2>1 DEF Shared!Pick
  <2>3. QED BY <1>2, <2>2
<1>7. QED BY <1>4, <1>5, <1>6

\* What remains after handle: finish, or wait for the report.
LEMMA AfterStep ==
  ASSUME AsyncInv, NEW c \in Contexts, Shared!After(c)
  PROVE  AsyncInv'
<1>1. /\ ctx[c] \in Locals /\ pc[c] = "after" /\ Alone(c) /\ UNCHANGED data
      /\ ControlTypes /\ AtAfter(c)
  BY DEF Shared!After, Shared!At, Shared!OnCore, Shared!InGuest, Shared!Contexts, Shared!ring,
     Shared!lists, Alone, data, Contexts, AsyncInv, Globals, ControlTypes, Knows
<1>2. CASE Shared!Return(c)
  BY <1>1, <1>2, Returns, OnlyMoves
<1>3. ASSUME ctx[c].done \/ (Shared!IsIpi(ctx[c].task) /\ c = 0),
             Shared!Goto(c, "finish"), ctx' = ctx
      PROVE  AsyncInv'
  <2>1. Moves(c) /\ pc'[c] = "finish" /\ ctx'[c] = ctx[c]  BY <1>1, <1>3, GoesOn DEF Labels
  <2>2. AtFinish(c)'
    BY <1>1, <1>3, <2>1
       DEF AtFinish, AtAfter, IpiTask, Chosen, data, Waiting, Foremost, Shared!IsIpi, Shared!None
  <2>3. QED BY <1>1, <2>1, <2>2, Arrived, OnlyMoves
<1>5. CASE ctx[c].done \/ (Shared!IsIpi(ctx[c].task) /\ c = 0)
  <2>1. Shared!Goto(c, "finish") /\ ctx' = ctx  BY <1>5 DEF Shared!After
  <2>2. QED BY <1>3, <1>5, <2>1
<1>6. CASE ~(ctx[c].done \/ (Shared!IsIpi(ctx[c].task) /\ c = 0))
  <2>1. Shared!Return(c)  BY <1>6 DEF Shared!After
  <2>2. QED BY <1>2, <2>1
<1>7. QED BY <1>5, <1>6

\* The ring is read.
LEMMA ScanDoneStep ==
  ASSUME AsyncInv, NEW c \in Contexts, Shared!ScanDone(c)
  PROVE  AsyncInv'
<1>1. /\ ctx[c] \in Locals /\ pc[c] = "request" /\ Alone(c) /\ UNCHANGED data /\ ctx' = ctx
      /\ ControlTypes /\ AtRequest(c) /\ Reading(c)
  BY DEF Shared!ScanDone, Shared!At, Shared!OnCore, Shared!InGuest, Shared!Contexts, Shared!ring,
     Shared!lists, Alone, data, Contexts, AsyncInv, Globals, ControlTypes, Knows, AtRequest
<1>2. CASE ctx[c].by = "handler"
  <2>1. Shared!Goto(c, "finish")  BY <1>2 DEF Shared!ScanDone
  <2>2. Moves(c) /\ pc'[c] = "finish" /\ ctx'[c] = ctx[c]  BY <1>1, <2>1, GoesOn DEF Labels
  <2>3. AtFinish(c)'  BY <1>1, <1>2, <2>2 DEF AtFinish, Reading, data
  <2>4. QED BY <1>1, <2>2, <2>3, Arrived, OnlyMoves
<1>3. CASE ctx[c].by = "exe"
  <2>1. Shared!Goto(c, "after")  BY <1>3 DEF Shared!ScanDone
  <2>2. Moves(c) /\ pc'[c] = "after" /\ ctx'[c] = ctx[c]  BY <1>1, <2>1, GoesOn DEF Labels
  <2>3. AtAfter(c)'  BY <1>1, <1>3, <2>2 DEF AtAfter, Reading, IpiTask, data
  <2>4. QED BY <1>1, <2>2, <2>3, Arrived, OnlyMoves
<1>4. QED BY <1>1, <1>2, <1>3 DEF Locals

\* A request outside the region is dropped from those to read.
LEMMA SkipBadStep ==
  ASSUME AsyncInv, NEW c \in Contexts, Shared!SkipBad(c)
  PROVE  AsyncInv'
<1>1. /\ ctx[c] \in Locals /\ pc[c] = "request" /\ Alone(c) /\ UNCHANGED data /\ pc' = pc
      /\ ctx[c].batch # << >> /\ ctx' = [ctx EXCEPT ![c].batch = Tail(@)]
      /\ ControlTypes /\ AtRequest(c) /\ Reading(c)
  BY DEF Shared!SkipBad, Shared!At, Shared!OnCore, Shared!InGuest, Shared!Contexts, Shared!ring,
     Shared!lists, Alone, data, Contexts, AsyncInv, Globals, ControlTypes, Knows, AtRequest
<1>2. PICK b \in Seq(Nat) \ {<< >>} : b = ctx[c].batch
  BY <1>1 DEF Locals
<1>3. Tail(b) \in Seq(Nat) /\ Len(Tail(b)) = Len(b) - 1 /\ Len(b) \in Nat
      /\ \A i \in 1 .. Len(Tail(b)) : i + 1 \in 1 .. Len(b) /\ Tail(b)[i] = b[i + 1]
  BY HeadTailProperties
<1> DEFINE x == [ctx[c] EXCEPT !.batch = Tail(b)]
<1>4. /\ x \in Locals /\ x.task = ctx[c].task /\ x.done = ctx[c].done /\ x.by = ctx[c].by
      /\ x.vm = ctx[c].vm /\ x.batch = Tail(b)
  BY <1>1, <1>3 DEF Locals
<1>5. ctx' = [ctx EXCEPT ![c] = x]  BY <1>1, <1>2
<1> HIDE DEF x
<1>6. Moves(c) /\ pc'[c] = "request" /\ ctx'[c] = x
  BY <1>1, <1>4, <1>5 DEF Moves, ControlTypes, Labels
<1>7. Sorted(Tail(b))
  <2>1. \A i, j \in 1 .. Len(b) : i < j => b[i] < b[j]  BY <1>1, <1>2 DEF AtRequest, Sorted
  <2>2. ASSUME NEW i \in 1 .. Len(Tail(b)), NEW j \in 1 .. Len(Tail(b)), i < j
        PROVE  Tail(b)[i] < Tail(b)[j]
    <3>1. b[i + 1] < b[j + 1]  BY <1>3, <2>1, <2>2
    <3>2. QED BY <1>3, <3>1
  <2>3. QED BY <2>2 DEF Sorted
<1>8. \A i \in 1 .. Len(Tail(b)) : NewerThan(ctx[c].vm, Tail(b)[i])
  BY <1>1, <1>2, <1>3 DEF AtRequest
<1>9. AtRequest(c)'
  <2>1. Reading(c)'  BY <1>1, <1>4, <1>6 DEF Reading, IpiTask, data
  <2>2. Sorted(ctx[c].batch)'  BY <1>4, <1>6, <1>7
  <2>3. QED BY <1>1, <1>4, <1>6, <1>8, <2>1, <2>2 DEF AtRequest, NewerThan, data
<1>10. QED BY <1>1, <1>6, <1>9, Arrived, OnlyMoves

\* A guest puts a request in its ring.
LEMMA SubmitStep ==
  ASSUME AsyncInv, NEW c \in Guests, Shared!Submit(c)
  PROVE  AsyncInv'
<1>1. /\ c \in Contexts /\ ctx[c] \in Locals /\ pc[c] = "guest" /\ Alone(c) /\ ctx' = ctx
      /\ Shared!Goto(c, "kick") /\ Len(avail[c]) < MaxReqs
      /\ last' = last /\ used' = used /\ info' = info /\ ipiList' = ipiList /\ ioList' = ioList
      /\ state' = state /\ msgs' = msgs /\ svc' = svc /\ performed' = performed
      /\ ControlTypes /\ AtRest(c) /\ Globals
  BY DEF Shared!Submit, Shared!At, Shared!OnCore, Shared!InGuest, Shared!Contexts, Shared!ring,
     Shared!lists, Alone, Contexts, Guests, AsyncInv, ControlTypes, Knows
<1>2. PICK k \in {"rw", "id", "bad"} : avail' = [avail EXCEPT ![c] = Append(avail[c], k)]
  BY DEF Shared!Submit
<1>3. avail \in [Guests -> Seq({"rw", "id", "bad"})] /\ avail[c] \in Seq({"rw", "id", "bad"})
  BY <1>1 DEF Globals, DataTypes
<1>4. /\ avail' \in [Guests -> Seq({"rw", "id", "bad"})]
      /\ \A v \in Guests : /\ Len(avail[v]) \in Nat /\ Len(avail[v]) <= Len(avail'[v])
                           /\ Len(avail'[v]) <= MaxReqs /\ Len(avail'[v]) \in Nat
                           /\ \A i \in 1 .. Len(avail[v]) : avail'[v][i] = avail[v][i]
  <2>1. /\ Append(avail[c], k) \in Seq({"rw", "id", "bad"})
        /\ Len(Append(avail[c], k)) = Len(avail[c]) + 1 /\ Len(avail[c]) \in Nat
        /\ \A i \in 1 .. Len(avail[c]) : Append(avail[c], k)[i] = avail[c][i]
    BY <1>3
  <2>2. avail'[c] = Append(avail[c], k) /\ \A v \in Guests \ {c} : avail'[v] = avail[v]
    BY <1>2, <1>3
  <2>3. MaxReqs \in Nat  BY MediationAssumption DEF MediationConstants
  <2>4. Len(avail[c]) + 1 <= MaxReqs  BY <1>1, <2>1, <2>3
  <2>5. \A v \in Guests : avail[v] \in Seq({"rw", "id", "bad"}) /\ Len(avail[v]) \in Nat
        /\ Len(avail[v]) <= MaxReqs
    BY <1>1, <1>3 DEF Globals, DataTypes
  <2>6. avail' \in [Guests -> Seq({"rw", "id", "bad"})]  BY <1>2, <1>3, <2>1
  <2>7. ASSUME NEW v \in Guests
        PROVE  /\ Len(avail[v]) \in Nat /\ Len(avail[v]) <= Len(avail'[v])
               /\ Len(avail'[v]) <= MaxReqs /\ Len(avail'[v]) \in Nat
               /\ \A i \in 1 .. Len(avail[v]) : avail'[v][i] = avail[v][i]
    <3>1. CASE v = c  BY <2>1, <2>2, <2>4, <3>1
    <3>2. CASE v # c  BY <2>2, <2>5, <3>2
    <3>3. QED BY <3>1, <3>2
  <2>8. QED BY <2>6, <2>7
<1>5. DataTypes'
  <2>1. \A v \in Guests : last[v] \in Nat /\ last[v] <= Len(avail[v])
    BY <1>1 DEF Globals, DataTypes
  <2>2. \A v \in Guests : last[v] <= Len(avail'[v])  BY <1>4, <2>1
  <2>3. QED BY <1>1, <1>4, <2>2 DEF Globals, DataTypes
<1>6. Queued(ioList)' /\ Ordered' /\ Waiting' = Waiting /\ Foremost' = Foremost
  BY <1>1, SameOrder
<1>7. OneMessage' /\ WithService'
  BY <1>1, <1>6 DEF Globals, OneMessage, WithService
<1>8. Performed'
  <2>1. ASSUME NEW v \in Guests, NEW n \in 1 .. MaxReqs, state[<<"io", v, n>>] = "Finish"
        PROVE  n <= Len(avail'[v]) /\ (avail'[v][n] = "rw" => <<"io", v, n>> \in performed)
    <3>1. n <= Len(avail[v]) /\ (avail[v][n] = "rw" => <<"io", v, n>> \in performed)
      BY <1>1, <2>1 DEF Globals, Performed
    <3>2. n \in 1 .. Len(avail[v])  BY <1>4, <3>1
    <3>3. n <= Len(avail'[v])  BY <1>4, <3>1
    <3>4. QED BY <1>4, <3>1, <3>2, <3>3
  <2>2. ASSUME NEW v \in Guests, NEW i \in 1 .. Len(used[v]), avail'[v][used[v][i]] = "rw"
        PROVE  <<"io", v, used[v][i]>> \in performed
    <3>1. used[v][i] \in 1 .. last[v] /\ last[v] \in Nat /\ last[v] <= Len(avail[v])
      BY <1>1 DEF Globals, Ordered, DataTypes
    <3>2. used[v][i] \in 1 .. Len(avail[v])  BY <1>4, <3>1
    <3>3. avail[v][used[v][i]] = "rw"  BY <1>4, <2>2, <3>2
    <3>4. QED BY <1>1, <3>3 DEF Globals, Performed
  <2>3. QED BY <1>1, <2>1, <2>2 DEF Performed
<1>9. Moves(c) /\ pc'[c] = "kick" /\ ctx'[c] = ctx[c]  BY <1>1, GoesOn DEF Labels
<1>10. AtRest(c)'  BY <1>1, <1>9 DEF AtRest, NoLocals
<1>11. \A v \in Guests : info'[v] = Issued(ioList'.map[v])  BY <1>1, Quiet
<1>12. Globals'  BY <1>5, <1>6, <1>7, <1>8 DEF Globals
<1>13. Knows(c)'  BY <1>1, <1>9, <1>10, Arrived
<1>14. QED BY <1>1, <1>9, <1>11, <1>12, <1>13, Assemble

\* A guest kicks: the executor is needed only if no IPI task was there, so that no
\* message is under way.
LEMMA AddIpiStep ==
  ASSUME AsyncInv, NEW c \in Guests, Shared!AddIpiTask(c)
  PROVE  AsyncInv'
<1>1. /\ c \in Contexts /\ ctx[c] \in Locals /\ pc[c] = "kick" /\ Alone(c) /\ ctx[c] = NoLocals
      /\ Shared!Goto(c, "room")
      /\ ipiList' = Append(ipiList, <<"ipi", c, Len(avail[c])>>)
      /\ avail' = avail /\ last' = last /\ used' = used /\ info' = info /\ ioList' = ioList
      /\ state' = state /\ msgs' = msgs /\ svc' = svc /\ performed' = performed
      /\ ControlTypes /\ Globals
  BY DEF Shared!AddIpiTask, Shared!At, Shared!OnCore, Shared!InGuest, Shared!Contexts, Shared!ring,
     Shared!Ipi, Alone, Contexts, Guests, AsyncInv, ControlTypes, Knows, AtRest
<1>2. PICK n \in BOOLEAN : /\ ctx' = [ctx EXCEPT ![c].need = n]
                           /\ n => Len(ipiList') = 1
  BY DEF Shared!AddIpiTask
<1>3. /\ ipiList' \in Seq({"ipi"} \X Guests \X Nat)
      /\ Len(ipiList') = Len(ipiList) + 1 /\ Len(ipiList) \in Nat
      /\ ipiList' # << >>
  <2>1. ipiList \in Seq({"ipi"} \X Guests \X Nat) /\ Len(avail[c]) \in Nat
    BY <1>1 DEF Globals, DataTypes
  <2>2. <<"ipi", c, Len(avail[c])>> \in {"ipi"} \X Guests \X Nat  BY <2>1
  <2>3. ipiList' \in Seq({"ipi"} \X Guests \X Nat) /\ Len(ipiList') = Len(ipiList) + 1
        /\ Len(ipiList) \in Nat
    BY <1>1, <2>1, <2>2
  <2>4. Len(ipiList') # 0  BY <2>3
  <2>5. QED BY <2>3, <2>4, EmptySeq
<1>4. DataTypes'  BY <1>1, <1>3 DEF Globals, DataTypes
<1>5. Queued(ioList)' /\ Ordered' /\ Waiting' = Waiting /\ Foremost' = Foremost
  BY <1>1, SameOrder
<1>6. OneMessage' /\ WithService' /\ Performed'
  BY <1>1, <1>3, <1>5 DEF Globals, OneMessage, WithService, Performed
<1> DEFINE x == [NoLocals EXCEPT !.need = n]
<1>7. x \in Locals /\ x.need = n /\ x.by = "exe" /\ x.done = FALSE
  BY NoLocalsIs DEF Locals, NoLocals
<1>8. ctx' = [ctx EXCEPT ![c] = x]  BY <1>1, <1>2
<1> HIDE DEF x
<1>9. Moves(c) /\ pc'[c] = "room" /\ ctx'[c] = x  BY <1>1, <1>7, <1>8, GoesOn DEF Labels
<1>10. n => msgs = << >>
  <2>1. ASSUME n PROVE ipiList = << >>  BY <1>2, <1>3, <2>1, EmptySeq DEF Globals, DataTypes
  <2>2. QED BY <1>1, <2>1 DEF Globals, OneMessage
<1>11. AtRoom(c)'  BY <1>1, <1>7, <1>9, <1>10 DEF AtRoom
<1>12. \A v \in Guests : info'[v] = Issued(ioList'.map[v])  BY <1>1, Quiet
<1>13. Globals'  BY <1>4, <1>5, <1>6 DEF Globals
<1>14. Knows(c)'  BY <1>1, <1>9, <1>11, Arrived
<1>15. QED BY <1>1, <1>9, <1>12, <1>13, <1>14, Assemble

\* The executor marks the foremost task, unless it is finished already.
LEMMA HandleStep ==
  ASSUME AsyncInv, NEW c \in Contexts, Shared!Handle(c)
  PROVE  AsyncInv'
<1>1. /\ ctx[c] \in Locals /\ pc[c] = "handle" /\ Alone(c) /\ ControlTypes /\ AtHandle(c) /\ Globals
      /\ avail' = avail /\ last' = last /\ used' = used /\ info' = info /\ ipiList' = ipiList
      /\ ioList' = ioList /\ msgs' = msgs /\ svc' = svc /\ performed' = performed
  BY DEF Shared!Handle, Shared!At, Shared!OnCore, Shared!InGuest, Shared!Contexts, Shared!ring,
     Alone, Contexts, AsyncInv, ControlTypes, Knows
<1>2. PICK t : t = ctx[c].task  OBVIOUS
<1>3. CASE state[t] = "Pending" /\ state' = [state EXCEPT ![t] = "Running"]
           /\ Shared!Goto(c, "poll") /\ ctx' = ctx
  <2>1. state \in [{"ipi", "io"} \X Guests \X (1 .. MaxReqs) -> {"Pending", "Running", "Finish"}]
    BY <1>1 DEF Globals, DataTypes
  <2>2. /\ state' \in [{"ipi", "io"} \X Guests \X (1 .. MaxReqs) -> {"Pending", "Running", "Finish"}]
        /\ \A u \in {"ipi", "io"} \X Guests \X (1 .. MaxReqs) : u # t => state'[u] = state[u]
        /\ \A u \in {"ipi", "io"} \X Guests \X (1 .. MaxReqs) :
             state'[u] = "Finish" => state[u] = "Finish"
        /\ t \in {"ipi", "io"} \X Guests \X (1 .. MaxReqs) => state'[t] = "Running"
    <3> DEFINE D == {"ipi", "io"} \X Guests \X (1 .. MaxReqs)
    <3>1. state \in [D -> {"Pending", "Running", "Finish"}] /\ state' = [state EXCEPT ![t] = "Running"]
      BY <1>3, <2>1
    <3> HIDE DEF D
    <3>2. /\ state' \in [D -> {"Pending", "Running", "Finish"}]
          /\ \A u \in D : u # t => state'[u] = state[u]
          /\ t \in D => state'[t] = "Running"
      BY <3>1
    <3>3. \A u \in D : state'[u] = "Finish" => state[u] = "Finish"  BY <3>2
    <3>4. QED BY <3>2, <3>3 DEF D
  <2>3. DataTypes'  BY <1>1, <2>2 DEF Globals, DataTypes
  <2>4. Queued(ioList)' /\ Ordered' /\ Waiting' = Waiting /\ Foremost' = Foremost
    BY <1>1, SameOrder
  <2>5. OneMessage'  BY <1>1, <2>4 DEF Globals, OneMessage
  <2>6. WithService'
    <3>1. ASSUME NEW u \in svc PROVE Waiting /\ u = Foremost /\ state'[u] = "Running"
      <4>1. Waiting /\ u = Foremost /\ state[u] = "Running"  BY <1>1 DEF Globals, WithService
      <4>2. u # t  BY <1>3, <4>1
      <4>3. u \in {"ipi", "io"} \X Guests \X (1 .. MaxReqs)  BY <1>1, <4>1, ForemostIs
      <4>4. QED BY <2>2, <4>1, <4>2, <4>3
    <3>2. QED BY <1>1, <2>4, <3>1 DEF WithService
  <2>7. Performed'
    <3>1. \A v \in Guests, n \in 1 .. MaxReqs :
             <<"io", v, n>> \in {"ipi", "io"} \X Guests \X (1 .. MaxReqs)
      OBVIOUS
    <3>2. \A v \in Guests, n \in 1 .. MaxReqs :
             state'[<<"io", v, n>>] = "Finish" => state[<<"io", v, n>>] = "Finish"
      BY <2>2, <3>1
    <3>3. QED BY <1>1, <3>2 DEF Globals, Performed
  <2>8. Globals'  BY <2>3, <2>4, <2>5, <2>6, <2>7 DEF Globals
  <2>9. Moves(c) /\ pc'[c] = "poll" /\ ctx'[c] = ctx[c]  BY <1>1, <1>3, GoesOn DEF Labels
  <2>10. ~IpiTask(c) => state'[ctx[c].task] = "Running"
    <3>1. ASSUME ~IpiTask(c) PROVE state'[ctx[c].task] = "Running"
      <4>1. Waiting /\ t = Foremost  BY <1>1, <1>2, <3>1 DEF AtHandle, Chosen
      <4>2. t \in {"ipi", "io"} \X Guests \X (1 .. MaxReqs)  BY <1>1, <4>1, ForemostIs
      <4>3. QED BY <1>2, <2>2, <4>2
    <3>2. QED BY <3>1
  <2>11. AtHandle(c)'
    BY <1>1, <2>4, <2>9, <2>10 DEF AtHandle, IpiTask, Chosen
  <2>12. \A v \in Guests : info'[v] = Issued(ioList'.map[v])  BY <1>1, Quiet
  <2>13. Knows(c)'  BY <2>9, <2>11, Arrived
  <2>14. QED BY <2>8, <2>9, <2>12, <2>13, Assemble
<1>4. CASE state[t] # "Pending" /\ ctx' = [ctx EXCEPT ![c].done = (state[t] = "Finish")]
           /\ Shared!Goto(c, "after") /\ state' = state
  <2> DEFINE x == [ctx[c] EXCEPT !.done = (state[t] = "Finish")]
  <2>1. x \in Locals /\ x.task = ctx[c].task /\ x.by = ctx[c].by /\ x.done = (state[t] = "Finish")
    BY <1>1 DEF Locals
  <2>2. ctx' = [ctx EXCEPT ![c] = x]  BY <1>4
  <2> HIDE DEF x
  <2>3. Moves(c) /\ pc'[c] = "after" /\ ctx'[c] = x  BY <1>1, <1>4, <2>1, <2>2, GoesOn DEF Labels
  <2>4. UNCHANGED data  BY <1>1, <1>4 DEF data
  <2>5. AtAfter(c)'
    <3>1. IpiTask(c)' <=> IpiTask(c)  BY <2>1, <2>3 DEF IpiTask
    <3>2. CASE IpiTask(c)
      BY <1>1, <2>1, <2>3, <3>1, <3>2 DEF AtAfter, AtHandle
    <3>3. CASE ~IpiTask(c)
      <4>1. Waiting /\ t = Foremost  BY <1>1, <1>2, <3>3 DEF AtHandle, Chosen
      <4>2. Waiting' = Waiting /\ Foremost' = Foremost  BY <1>1 DEF Waiting, Foremost
      <4>3. Chosen(c)'  BY <1>2, <2>1, <2>3, <4>1, <4>2 DEF Chosen
      <4>4. ctx'[c].done => state'[ctx'[c].task] = "Finish"  BY <1>2, <1>4, <2>1, <2>3
      <4>5. ctx'[c].by = "exe" /\ msgs' = << >>  BY <1>1, <2>1, <2>3 DEF AtHandle
      <4>6. QED BY <3>1, <3>3, <4>3, <4>4, <4>5 DEF AtAfter
    <3>4. QED BY <3>2, <3>3
  <2>6. Knows(c)'  BY <2>3, <2>5, Arrived
  <2>7. QED BY <1>1, <2>3, <2>4, <2>6, OnlyMoves
<1>5. QED BY <1>2, <1>3, <1>4 DEF Shared!Handle

\* The IPI task is run: by the service VM itself, or by a message to it, the only one.
LEMMA PollIpiStep ==
  ASSUME AsyncInv, NEW c \in Contexts, Shared!PollIpi(c)
  PROVE  AsyncInv'
<1>1. /\ ctx[c] \in Locals /\ pc[c] = "poll" /\ Alone(c) /\ ControlTypes /\ AtHandle(c) /\ Globals
      /\ avail' = avail /\ last' = last /\ used' = used /\ info' = info /\ ipiList' = ipiList
      /\ ioList' = ioList /\ state' = state /\ svc' = svc /\ performed' = performed
      /\ IpiTask(c)
  BY DEF Shared!PollIpi, Shared!At, Shared!OnCore, Shared!InGuest, Shared!Contexts, Shared!ring,
     Shared!lists, Alone, Contexts, AsyncInv, ControlTypes, Knows, Shared!IsIpi, Shared!None, IpiTask
<1>2. /\ ipiList # << >> /\ ~Waiting /\ msgs = << >> /\ ctx[c].by = "exe" /\ ~ctx[c].done
  BY <1>1 DEF AtHandle
<1>3. Head(ipiList)[2] \in Guests /\ Guests \subseteq Contexts
  <2>1. Head(ipiList) \in {"ipi"} \X Guests \X Nat
    BY <1>1, <1>2, HeadTailProperties DEF Globals, DataTypes
  <2>2. QED BY <2>1 DEF Guests, Contexts
<1>4. Queued(ioList)' /\ Ordered' /\ Waiting' = Waiting /\ Foremost' = Foremost
  BY <1>1, SameOrder
<1>5. CASE c = 0 /\ ctx' = [ctx EXCEPT ![c].vm = Head(ipiList)[2]] /\ Shared!Goto(c, "scan")
           /\ msgs' = msgs
  <2> DEFINE x == [ctx[c] EXCEPT !.vm = Head(ipiList)[2]]
  <2>1. /\ x \in Locals /\ x.task = ctx[c].task /\ x.by = ctx[c].by /\ x.done = ctx[c].done
        /\ x.vm \in Guests
    BY <1>1, <1>3 DEF Locals
  <2>2. ctx' = [ctx EXCEPT ![c] = x]  BY <1>5
  <2> HIDE DEF x
  <2>3. Moves(c) /\ pc'[c] = "scan" /\ ctx'[c] = x  BY <1>1, <1>5, <2>1, <2>2, GoesOn DEF Labels
  <2>4. UNCHANGED data  BY <1>1, <1>5 DEF data
  <2>5. AtScan(c)'  BY <1>1, <1>2, <1>5, <2>1, <2>3 DEF AtScan, Reading, IpiTask
  <2>6. Knows(c)'  BY <2>3, <2>5, Arrived
  <2>7. QED BY <1>1, <2>3, <2>4, <2>6, OnlyMoves
<1>6. CASE c # 0 /\ msgs' = Append(msgs, Head(ipiList)[2]) /\ ctx' = ctx /\ Shared!Goto(c, "after")
  <2>1. msgs' \in Seq(Guests) /\ Len(msgs') = 1  BY <1>2, <1>3, <1>6, EmptySeq
  <2>2. DataTypes'  BY <1>1, <2>1 DEF Globals, DataTypes
  <2>3. OneMessage' /\ WithService' /\ Performed'
    BY <1>1, <1>2, <1>4, <2>1 DEF Globals, OneMessage, WithService, Performed
  <2>4. Globals'  BY <1>4, <2>2, <2>3 DEF Globals
  <2>5. Moves(c) /\ pc'[c] = "after" /\ ctx'[c] = ctx[c]  BY <1>1, <1>6, GoesOn DEF Labels
  <2>6. AtAfter(c)'  BY <1>1, <1>2, <1>6, <2>5 DEF AtAfter, IpiTask
  <2>7. \A v \in Guests : info'[v] = Issued(ioList'.map[v])  BY <1>1, Quiet
  <2>8. Knows(c)'  BY <2>5, <2>6, Arrived
  <2>9. QED BY <2>4, <2>5, <2>7, <2>8, Assemble
<1>7. QED BY <1>2, <1>5, <1>6 DEF Shared!PollIpi

\* The foremost request goes to the service VM, which had none.
LEMMA PollIoStep ==
  ASSUME AsyncInv, NEW c \in Contexts, Shared!PollIo(c)
  PROVE  AsyncInv'
<1>1. /\ ctx[c] \in Locals /\ pc[c] = "poll" /\ Alone(c) /\ ControlTypes /\ AtHandle(c) /\ Globals
      /\ avail' = avail /\ last' = last /\ used' = used /\ info' = info /\ ipiList' = ipiList
      /\ ioList' = ioList /\ state' = state /\ msgs' = msgs /\ performed' = performed
      /\ ~IpiTask(c)
  BY DEF Shared!PollIo, Shared!At, Shared!OnCore, Shared!InGuest, Shared!Contexts, Shared!ring,
     Shared!lists, Alone, Contexts, AsyncInv, ControlTypes, Knows, Shared!IsIpi, Shared!None, IpiTask
<1>2. /\ Waiting /\ ctx[c].task = Foremost /\ state[Foremost] = "Running"
      /\ msgs = << >> /\ ctx[c].by = "exe" /\ ~ctx[c].done
  BY <1>1 DEF AtHandle, Chosen
<1>3. Shared!front(ioList) = Foremost /\ Foremost # << >>  BY <1>1, <1>2, FrontIs DEF Globals
<1>4. svc' \subseteq svc \cup {Foremost} /\ Shared!Goto(c, "after") /\ ctx' = ctx
  BY <1>3 DEF Shared!PollIo, Shared!None
<1>5. Queued(ioList)' /\ Ordered' /\ Waiting' = Waiting /\ Foremost' = Foremost
  BY <1>1, SameOrder
<1>6. DataTypes'  BY <1>1 DEF Globals, DataTypes
<1>7. WithService'  BY <1>1, <1>2, <1>4, <1>5 DEF Globals, WithService
<1>8. OneMessage' /\ Performed'
  BY <1>1, <1>5 DEF Globals, OneMessage, Performed
<1>9. Globals'  BY <1>5, <1>6, <1>7, <1>8 DEF Globals
<1>10. Moves(c) /\ pc'[c] = "after" /\ ctx'[c] = ctx[c]  BY <1>1, <1>4, GoesOn DEF Labels
<1>11. AtAfter(c)'  BY <1>1, <1>2, <1>5, <1>10 DEF AtAfter, IpiTask, Chosen
<1>12. \A v \in Guests : info'[v] = Issued(ioList'.map[v])  BY <1>1, Quiet
<1>13. Knows(c)'  BY <1>10, <1>11, Arrived
<1>14. QED BY <1>9, <1>10, <1>12, <1>13, Assemble

\* finish_async_task for an IPI task: one is there.
LEMMA FinishIpiStep ==
  ASSUME AsyncInv, NEW c \in Contexts, Shared!FinishIpi(c)
  PROVE  AsyncInv'
<1>1. /\ ctx[c] \in Locals /\ pc[c] = "finish" /\ Alone(c) /\ ControlTypes /\ AtFinish(c) /\ Globals
      /\ avail' = avail /\ last' = last /\ used' = used /\ info' = info
      /\ ioList' = ioList /\ state' = state /\ svc' = svc /\ msgs' = msgs /\ performed' = performed
      /\ (ctx[c].by = "handler" \/ IpiTask(c))
  BY DEF Shared!FinishIpi, Shared!At, Shared!OnCore, Shared!InGuest, Shared!Contexts, Shared!ring,
     Alone, Contexts, AsyncInv, ControlTypes, Knows, Shared!IsIpi, Shared!None, IpiTask
<1>2. ipiList # << >> /\ msgs = << >>  BY <1>1 DEF AtFinish
<1>3. ipiList' = Tail(ipiList) /\ Shared!Continue(c)  BY <1>2 DEF Shared!FinishIpi
<1>4. ipiList' \in Seq({"ipi"} \X Guests \X Nat)
  BY <1>1, <1>2, <1>3, HeadTailProperties DEF Globals, DataTypes
<1>5. Queued(ioList)' /\ Ordered' /\ Waiting' = Waiting /\ Foremost' = Foremost
  BY <1>1, SameOrder
<1>6. DataTypes'  BY <1>1, <1>4 DEF Globals, DataTypes
<1>7. OneMessage' /\ WithService' /\ Performed'
  BY <1>1, <1>2, <1>5 DEF Globals, OneMessage, WithService, Performed
<1>8. Globals'  BY <1>5, <1>6, <1>7 DEF Globals
<1>9. Moves(c) /\ Knows(c)'  BY <1>1, <1>2, <1>3, Continues
<1>10. \A v \in Guests : info'[v] = Issued(ioList'.map[v])  BY <1>1, Quiet
<1>11. QED BY <1>8, <1>9, <1>10, Assemble

\* The requests to read are newer than all read before.
LEMMA ScanStep ==
  ASSUME AsyncInv, NEW c \in Contexts, Shared!Scan(c)
  PROVE  AsyncInv'
<1>1. /\ ctx[c] \in Locals /\ pc[c] = "scan" /\ Alone(c) /\ ControlTypes /\ Reading(c) /\ Globals
      /\ avail' = avail /\ ipiList' = ipiList /\ used' = used /\ info' = info
      /\ ioList' = ioList /\ state' = state /\ svc' = svc /\ msgs' = msgs /\ performed' = performed
      /\ Shared!Goto(c, "request")
  BY DEF Shared!Scan, Shared!At, Shared!OnCore, Shared!InGuest, Shared!Contexts, Shared!ring,
     Shared!lists, Alone, Contexts, AsyncInv, ControlTypes, Knows, AtScan
<1>2. PICK v \in Guests : v = ctx[c].vm  BY <1>1 DEF Reading
<1>3. PICK m \in Nat, n \in Nat : n = last[v] /\ n + m = Len(avail[v])
  <2>1. last[v] \in Nat /\ Len(avail[v]) \in Nat /\ last[v] <= Len(avail[v])
    BY <1>1 DEF Globals, DataTypes
  <2>2. Len(avail[v]) - last[v] \in Nat /\ last[v] + (Len(avail[v]) - last[v]) = Len(avail[v])
    BY <2>1
  <2>3. QED BY <2>1, <2>2
<1> DEFINE b == [i \in 1 .. m |-> n + i]
           x == [ctx[c] EXCEPT !.batch = b]
<1>4. b \in Seq(Nat) /\ Len(b) = m /\ \A i \in 1 .. m : b[i] = n + i
  OBVIOUS
<1>5. ctx' = [ctx EXCEPT ![c].batch = b] /\ last' = [last EXCEPT ![v] = n + m]
  <2>1. Len(avail[v]) - last[v] = m  BY <1>3
  <2>2. ctx' = [ctx EXCEPT ![c].batch = [i \in 1 .. (Len(avail[v]) - last[v]) |-> last[v] + i]]
    BY <1>2 DEF Shared!Scan
  <2>3. last' = [last EXCEPT ![v] = Len(avail[v])]  BY <1>2 DEF Shared!Scan
  <2>4. QED BY <1>3, <2>1, <2>2, <2>3
<1> HIDE DEF b
<1>6. /\ x \in Locals /\ x.task = ctx[c].task /\ x.by = ctx[c].by /\ x.done = ctx[c].done
      /\ x.vm = v /\ x.batch = b
  BY <1>1, <1>2, <1>4 DEF Locals
<1>7. ctx' = [ctx EXCEPT ![c] = x]  BY <1>5
<1> HIDE DEF x
<1>8. Moves(c) /\ pc'[c] = "request" /\ ctx'[c] = x  BY <1>1, <1>6, <1>7, GoesOn DEF Labels
<1>9. last' \in [Guests -> Nat] /\ last'[v] = n + m /\ \A u \in Guests \ {v} : last'[u] = last[u]
  BY <1>1, <1>5 DEF Globals, DataTypes
<1>10. \A u \in Guests : last[u] \in Nat /\ last[u] <= last'[u] /\ last'[u] <= Len(avail[u])
  <2>1. \A u \in Guests : last[u] \in Nat /\ last[u] <= Len(avail[u])  BY <1>1 DEF Globals, DataTypes
  <2>2. last[v] <= last'[v] /\ last'[v] <= Len(avail[v])  BY <1>3, <1>9
  <2>3. QED BY <1>9, <2>1, <2>2
<1>11. DataTypes'  BY <1>1, <1>9, <1>10 DEF Globals, DataTypes
<1>12. Ordered'
  <2>1. \A u \in Guests : \A k : k \in 1 .. last[u] => k \in 1 .. last'[u]  BY <1>9, <1>10
  <2>2. QED BY <1>1, <2>1 DEF Globals, Ordered
<1>13. Queued(ioList)' /\ OneMessage' /\ WithService' /\ Performed'
  BY <1>1 DEF Globals, Queued, OneMessage, WithService, Performed, Waiting, Foremost
<1>14. Globals'  BY <1>11, <1>12, <1>13 DEF Globals
<1>15. Reading(c)'  BY <1>1, <1>2, <1>6, <1>8 DEF Reading, IpiTask
<1>16. Sorted(b)  BY <1>4 DEF Sorted
<1>17. ASSUME NEW i \in 1 .. Len(b) PROVE NewerThan(v, b[i])'
  <2>1. b[i] = n + i /\ i \in 1 .. m  BY <1>4
  <2>2. b[i] \in 1 .. last'[v]  BY <1>9, <2>1
  <2>3. ASSUME NEW k \in 1 .. last[v] PROVE k < b[i]  BY <1>3, <2>1
  <2>4. (\A k \in 1 .. Len(ioList.map[v]) : ioList.map[v][k][3] < b[i])
        /\ \A k \in 1 .. Len(used[v]) : used[v][k] < b[i]
    BY <1>1, <2>3 DEF Globals, Ordered
  <2>5. QED BY <1>1, <2>2, <2>4 DEF NewerThan
<1>18. AtRequest(c)'
  <2>1. \A i \in 1 .. Len(ctx'[c].batch) : NewerThan(ctx[c].vm, ctx[c].batch[i])'
    BY <1>6, <1>8, <1>17 DEF NewerThan
  <2>2. QED BY <1>6, <1>8, <1>15, <1>16, <2>1 DEF AtRequest
<1>19. Knows(c)'  BY <1>8, <1>18, Arrived
<1>20. \A u \in Guests : info'[u] = Issued(ioList'.map[u])  BY <1>1, Quiet
<1>21. QED BY <1>8, <1>14, <1>19, <1>20, Assemble

\* The service VM takes the only message.
LEMMA TakeIpiStep ==
  ASSUME AsyncInv, NEW c \in Contexts, Shared!TakeIpi(c)
  PROVE  AsyncInv'
<1>1. /\ pc[c] = "guest" /\ Alone(c) /\ ControlTypes /\ Globals /\ msgs # << >>
      /\ avail' = avail /\ last' = last /\ ipiList' = ipiList /\ used' = used /\ info' = info
      /\ ioList' = ioList /\ state' = state /\ svc' = svc /\ performed' = performed
      /\ Shared!Goto(c, "scan") /\ msgs' = Shared!Front(msgs)
      /\ ctx' = [ctx EXCEPT ![c] = [NoLocals EXCEPT !.vm = Shared!Last(msgs), !.by = "handler"]]
  BY NoLocalsIs DEF Shared!TakeIpi, Shared!At, Shared!OnCore, Shared!InGuest, Shared!Contexts,
     Shared!ring, Shared!lists, Alone, Contexts, AsyncInv, ControlTypes, Knows
<1>2. Len(msgs) = 1 /\ ipiList # << >> /\ msgs \in Seq(Guests)
  BY <1>1 DEF Globals, OneMessage, DataTypes
<1>3. msgs' = << >> /\ Shared!Last(msgs) \in Guests
  <2>1. Shared!Last(msgs) \in Guests  BY <1>2 DEF Shared!Last
  <2>2. msgs' = SubSeq(msgs, 1, 0)  BY <1>1, <1>2 DEF Shared!Front
  <2>3. QED BY <1>2, <2>1, <2>2
<1>15. PICK v \in Guests : v = Shared!Last(msgs)  BY <1>3
<1> DEFINE x == [NoLocals EXCEPT !.vm = v, !.by = "handler"]
<1>4. x \in Locals /\ x.vm \in Guests /\ x.by = "handler" /\ x.done = FALSE
  <2>1. NoLocals \in Locals /\ NoLocals.done = FALSE  BY NoLocalsIs DEF NoLocals
  <2>2. v \in Contexts  BY DEF Guests, Contexts
  <2>3. QED BY <2>1, <2>2 DEF Locals
<1>5. ctx' = [ctx EXCEPT ![c] = x]  BY <1>1, <1>15
<1> HIDE DEF x
<1>6. Moves(c) /\ pc'[c] = "scan" /\ ctx'[c] = x  BY <1>1, <1>4, <1>5, GoesOn DEF Labels
<1>7. AtScan(c)'  BY <1>1, <1>2, <1>3, <1>4, <1>6 DEF AtScan, Reading
<1>8. Queued(ioList)' /\ Ordered' /\ Waiting' = Waiting /\ Foremost' = Foremost
  BY <1>1, SameOrder
<1>9. DataTypes'  
  <2>1. << >> \in Seq(Guests)  BY EmptySeq
  <2>2. QED BY <1>1, <1>3, <2>1 DEF Globals, DataTypes
<1>10. OneMessage' /\ WithService' /\ Performed'
  BY <1>1, <1>3, <1>8 DEF Globals, OneMessage, WithService, Performed
<1>11. Globals'  BY <1>8, <1>9, <1>10 DEF Globals
<1>12. Knows(c)'  BY <1>6, <1>7, Arrived
<1>13. \A u \in Guests : info'[u] = Issued(ioList'.map[u])  BY <1>1, Quiet
<1>14. QED BY <1>6, <1>11, <1>12, <1>13, Assemble

\* The report of the service VM names no task; the one at the front is the one it had.
LEMMA CompleteStep ==
  ASSUME AsyncInv, NEW t, Shared!Complete(t)
  PROVE  AsyncInv'
<1>1. /\ 0 \in Contexts /\ pc[0] = "guest" /\ Alone(0) /\ ControlTypes /\ Globals /\ t \in svc
      /\ ctx[0] = NoLocals
      /\ avail' = avail /\ last' = last /\ ipiList' = ipiList /\ used' = used /\ info' = info
      /\ ioList' = ioList /\ msgs' = msgs /\ svc' = svc \ {t} /\ performed' = performed \cup {t}
  BY MediationAssumption
     DEF MediationConstants, Shared!Complete, Shared!At, Shared!OnCore, Shared!InGuest, Shared!Contexts,
     Shared!ring, Alone, Contexts, AsyncInv, ControlTypes, Knows, AtRest
<1>2. Waiting /\ t = Foremost /\ msgs = << >> /\ svc' = {}
  <2>1. \A u \in svc : Waiting /\ u = Foremost  BY <1>1 DEF Globals, WithService
  <2>2. QED BY <1>1, <2>1 DEF Globals, OneMessage
<1>3. Shared!front(ioList) = t /\ t # << >>  BY <1>1, <1>2, FrontIs DEF Globals
<1>4. state' = [state EXCEPT ![t] = "Finish"] /\ Shared!Goto(0, "enter") /\ ctx' = ctx
  BY <1>3 DEF Shared!Complete, Shared!None
<1>5. Queued(ioList)' /\ Ordered' /\ Waiting' = Waiting /\ Foremost' = Foremost
  BY <1>1, SameOrder
<1>6. /\ t = <<"io", t[2], t[3]>> /\ t[2] \in Guests /\ t[3] \in 1 .. MaxReqs
      /\ t[3] <= Len(avail[t[2]])
  BY <1>1, <1>2, ForemostIs
<1> DEFINE D == {"ipi", "io"} \X Guests \X (1 .. MaxReqs)
<1>7. state \in [D -> {"Pending", "Running", "Finish"}] /\ t \in D
      /\ \A v \in Guests, n \in 1 .. MaxReqs : <<"io", v, n>> \in D
  BY <1>1, <1>2, ForemostIs DEF Globals, DataTypes
<1>8. state' \in [D -> {"Pending", "Running", "Finish"}]
      /\ \A u \in D : u # t => state'[u] = state[u]
  <2> HIDE DEF D
  <2>1. QED BY <1>4, <1>7
<1>9. DataTypes'  BY <1>1, <1>8 DEF Globals, DataTypes
<1> HIDE DEF D
<1>10. OneMessage' /\ WithService'  BY <1>1, <1>2 DEF OneMessage, WithService
<1>11. Performed'
  <2>1. ASSUME NEW v \in Guests, NEW n \in 1 .. MaxReqs, state'[<<"io", v, n>>] = "Finish"
        PROVE  n <= Len(avail[v]) /\ (avail[v][n] = "rw" => <<"io", v, n>> \in performed')
    <3>1. CASE <<"io", v, n>> = t  BY <1>1, <1>6, <3>1
    <3>2. CASE <<"io", v, n>> # t
      <4>1. state[<<"io", v, n>>] = "Finish"  BY <1>7, <1>8, <2>1, <3>2
      <4>2. QED BY <1>1, <4>1 DEF Globals, Performed
    <3>3. QED BY <3>1, <3>2
  <2>2. \A v \in Guests : \A i \in 1 .. Len(used[v]) :
           avail[v][used[v][i]] = "rw" => <<"io", v, used[v][i]>> \in performed'
    BY <1>1 DEF Globals, Performed
  <2>3. QED BY <1>1, <2>1, <2>2 DEF Performed
<1>12. Globals'  BY <1>5, <1>9, <1>10, <1>11 DEF Globals
<1>13. Moves(0) /\ pc'[0] = "enter" /\ ctx'[0] = NoLocals  BY <1>1, <1>4, NoLocalsIs, GoesOn DEF Labels
<1>14. AtEnter(0)'  BY <1>1, <1>2, <1>13 DEF AtEnter, NoLocals
<1>15. Knows(0)'  BY <1>1, <1>13, <1>14, Arrived
<1>16. \A v \in Guests : info'[v] = Issued(ioList'.map[v])  BY <1>1, Quiet
<1>17. QED BY <1>1, <1>12, <1>13, <1>15, <1>16, Assemble

\* The foremost request, which was performed, leaves the queue.
LEMMA FinishIoStep ==
  ASSUME AsyncInv, NEW c \in Contexts, Shared!FinishIo(c)
  PROVE  AsyncInv'
<1>1. /\ ctx[c] \in Locals /\ pc[c] = "finish" /\ Alone(c) /\ ControlTypes /\ AtFinish(c) /\ Globals
      /\ avail' = avail /\ last' = last /\ used' = used /\ info' = info /\ ipiList' = ipiList
      /\ state' = state /\ svc' = svc /\ msgs' = msgs /\ performed' = performed
      /\ ctx[c].by = "exe" /\ ~IpiTask(c)
      /\ ioList' = Shared!pop_front(ioList)
  BY DEF Shared!FinishIo, Shared!At, Shared!OnCore, Shared!InGuest, Shared!Contexts, Shared!ring,
     Alone, Contexts, AsyncInv, ControlTypes, Knows, Shared!IsIpi, Shared!None, IpiTask
<1>2. Waiting /\ ctx[c].task = Foremost /\ state[Foremost] = "Finish" /\ msgs = << >>
  BY <1>1 DEF AtFinish, Chosen
<1>3. Shared!front(ioList) = Foremost /\ Foremost # << >>  BY <1>1, <1>2, FrontIs DEF Globals
<1>4. ctx' = [ctx EXCEPT ![c].task = Foremost] /\ Shared!Goto(c, "publish")
  BY <1>3 DEF Shared!FinishIo, Shared!None
<1>5. PICK h \in Guests, n \in Nat :
        /\ h = Head(ioList.queue) /\ Foremost = <<"io", h, n>> /\ n \in 1 .. last[h]
  <2>1. /\ Foremost[2] \in Guests /\ Foremost[3] \in 1 .. last[Foremost[2]]
        /\ Foremost = <<"io", Foremost[2], Foremost[3]>> /\ Foremost[2] = Head(ioList.queue)
        /\ Foremost \in IoTasks
    BY <1>1, <1>2, ForemostIs
  <2>2. Foremost[3] \in Nat  BY <2>1 DEF IoTasks
  <2>3. QED BY <2>1, <2>2
<1>6. PICK t \in AnyTask : t = Foremost /\ t = <<"io", h, n>> /\ t \in IoTasks
  BY <1>5 DEF AnyTask, IoTasks
<1>7. PICK s \in Seq(IoTasks) \ {<< >>} : s = ioList.map[h] /\ s[1] = t /\ 1 \in 1 .. Len(s)
  BY <1>1, <1>2, <1>5, <1>6, FrontIs DEF Globals
<1>8. /\ Tail(s) \in Seq(IoTasks) /\ Len(Tail(s)) = Len(s) - 1 /\ Len(s) \in Nat \ {0}
      /\ \A i \in 1 .. Len(Tail(s)) : Tail(s)[i] = s[i + 1] /\ i + 1 \in 1 .. Len(s) /\ 1 < i + 1
  BY HeadTailProperties, EmptySeq
<1>9. /\ ioList' \in Queues /\ Queued(ioList)'
      /\ ioList'.map = [ioList.map EXCEPT ![h] = Tail(s)]
  <2>1. ioList \in Queues /\ Queued(ioList) /\ ioList.queue # << >>
    BY <1>1, <1>2 DEF Globals, DataTypes, Queues, Waiting
  <2>2. PICK g : g = ioList'  OBVIOUS
  <2>3. g \in Queues /\ Queued(g) /\ g.map = [ioList.map EXCEPT ![h] = Tail(ioList.map[h])]
    BY <1>1, <1>5, <2>1, <2>2, PopQueue
  <2>4. Queued(ioList)'  BY <2>2, <2>3 DEF Queued
  <2>5. QED BY <1>7, <2>2, <2>3, <2>4
<1>10. ioList'.map[h] = Tail(s) /\ \A v \in Guests : v # h => ioList'.map[v] = ioList.map[v]
  BY <1>1, <1>9 DEF Globals, DataTypes
<1>11. DataTypes'  BY <1>1, <1>9 DEF Globals, DataTypes, Queues
<1>12. Ordered'
  <2>1. ASSUME NEW v \in Guests, NEW i \in 1 .. Len(ioList'.map[v])
        PROVE  \E k \in 1 .. Len(ioList.map[v]) :
                 ioList'.map[v][i] = ioList.map[v][k] /\ k = (IF v = h THEN i + 1 ELSE i)
    <3>1. CASE v # h  BY <1>10, <2>1, <3>1
    <3>2. CASE v = h
      <4>1. i \in 1 .. Len(Tail(s)) /\ ioList'.map[v][i] = Tail(s)[i]  BY <1>10, <2>1, <3>2
      <4>2. QED BY <1>7, <1>8, <3>2, <4>1
    <3>3. QED BY <3>1, <3>2
  <2>2. ASSUME NEW v \in Guests, NEW i \in 1 .. Len(ioList'.map[v])
        PROVE  /\ ioList'.map[v][i][2] = v /\ ioList'.map[v][i][3] \in 1 .. last[v]
               /\ \A j \in 1 .. Len(used[v]) : used[v][j] < ioList'.map[v][i][3]
    <3>1. PICK k \in 1 .. Len(ioList.map[v]) : ioList'.map[v][i] = ioList.map[v][k]  BY <2>1
    <3>2. /\ ioList.map[v][k][2] = v /\ ioList.map[v][k][3] \in 1 .. last[v]
          /\ \A j \in 1 .. Len(used[v]) : used[v][j] < ioList.map[v][k][3]
      BY <1>1 DEF Globals, Ordered
    <3>3. QED BY <3>1, <3>2
  <2>3. ASSUME NEW v \in Guests, NEW i \in 1 .. Len(ioList'.map[v]),
               NEW j \in 1 .. Len(ioList'.map[v]), i < j
        PROVE  ioList'.map[v][i][3] < ioList'.map[v][j][3]
    <3>1. PICK k \in 1 .. Len(ioList.map[v]) :
            ioList'.map[v][i] = ioList.map[v][k] /\ k = (IF v = h THEN i + 1 ELSE i)
      BY <2>1
    <3>2. PICK l \in 1 .. Len(ioList.map[v]) :
            ioList'.map[v][j] = ioList.map[v][l] /\ l = (IF v = h THEN j + 1 ELSE j)
      BY <2>1
    <3>3. k < l  BY <2>3, <3>1, <3>2
    <3>4. ioList.map[v][k][3] < ioList.map[v][l][3]  BY <1>1, <3>3 DEF Globals, Ordered
    <3>5. QED BY <3>1, <3>2, <3>4
  <2>4. \A v \in Guests :
           /\ \A i \in 1 .. Len(used[v]) : used[v][i] \in 1 .. last[v]
           /\ \A i, j \in 1 .. Len(used[v]) : i < j => used[v][i] < used[v][j]
    BY <1>1 DEF Globals, Ordered
  <2>5. QED BY <1>1, <2>2, <2>3, <2>4 DEF Ordered
<1>13. svc = {}
  <2>1. \A u \in svc : u = Foremost /\ state[u] = "Running"  BY <1>1 DEF Globals, WithService
  <2>2. QED BY <1>2, <2>1
<1>14. OneMessage' /\ WithService' /\ Performed'
  BY <1>1, <1>2, <1>13 DEF Globals, OneMessage, WithService, Performed
<1>15. Globals'  BY <1>9, <1>11, <1>12, <1>14 DEF Globals
<1> DEFINE x == [ctx[c] EXCEPT !.task = t]
<1>16. x \in Locals /\ x.task = t /\ x.by = ctx[c].by
  BY <1>1 DEF Locals
<1>17. ctx' = [ctx EXCEPT ![c] = x]  BY <1>4, <1>6
<1> HIDE DEF x
<1>18. Moves(c) /\ pc'[c] = "publish" /\ ctx'[c] = x  BY <1>1, <1>4, <1>16, <1>17, GoesOn DEF Labels
<1>19. t[2] = h /\ t[3] = n  BY <1>6
<1>20. info[h] = Issued(s)  BY <1>1, <1>7, Quiet
<1>21. info[h] # << >> /\ Head(info[h]) = n /\ Tail(info[h]) = Issued(Tail(s))
  BY <1>7, <1>19, <1>20, IssuedTail
<1>22. \A k \in 1 .. Len(used[h]) : used[h][k] < n
  <2>1. ASSUME NEW k \in 1 .. Len(used[h]) PROVE used[h][k] < n
    <3>1. used[h][k] < ioList.map[h][1][3]  BY <1>1, <1>7 DEF Globals, Ordered
    <3>2. QED BY <1>7, <1>19, <3>1
  <2>2. QED BY <2>1
<1>23. \A k \in 1 .. Len(Tail(s)) : n < Tail(s)[k][3]
  <2>1. ASSUME NEW k \in 1 .. Len(Tail(s)) PROVE n < Tail(s)[k][3]
    <3>1. Tail(s)[k] = s[k + 1] /\ k + 1 \in 1 .. Len(s) /\ 1 < k + 1  BY <1>8
    <3>2. s[1][3] < s[k + 1][3]  BY <1>1, <1>7, <3>1 DEF Globals, Ordered
    <3>3. QED BY <1>7, <1>19, <3>1, <3>2
  <2>2. QED BY <2>1
<1>24. AtPublish(c)'
  <2>1. ctx'[c].task = t /\ ctx'[c].by = "exe" /\ msgs' = << >>  BY <1>1, <1>2, <1>16, <1>18
  <2>2. state'[t] = "Finish"  BY <1>1, <1>2, <1>6
  <2>3. QED
    BY <1>1, <1>5, <1>6, <1>10, <1>19, <1>21, <1>22, <1>23, <2>1, <2>2 DEF AtPublish
<1>25. Knows(c)'  BY <1>18, <1>24, Arrived
<1>26. \A v \in Guests : info'[v] = Issued(ioList'.map[v]) \/ Changing(c, v)'
  <2>1. Changing(c, h)'  BY <1>16, <1>18, <1>19 DEF Changing
  <2>2. ASSUME NEW v \in Guests, v # h PROVE info'[v] = Issued(ioList'.map[v])
    BY <1>1, <1>10, <2>2, Quiet
  <2>3. QED BY <2>1, <2>2
<1>27. QED BY <1>15, <1>18, <1>25, <1>26, Assemble

\* The record at the front of the used-info list is of the request that left.
LEMMA PublishStep ==
  ASSUME AsyncInv, NEW c \in Contexts, Shared!Publish(c)
  PROVE  AsyncInv'
<1>1. /\ ctx[c] \in Locals /\ pc[c] = "publish" /\ Alone(c) /\ ControlTypes /\ AtPublish(c) /\ Globals
      /\ avail' = avail /\ last' = last /\ ioList' = ioList /\ ipiList' = ipiList
      /\ state' = state /\ svc' = svc /\ msgs' = msgs /\ performed' = performed
  BY DEF Shared!Publish, Shared!At, Shared!OnCore, Shared!InGuest, Shared!Contexts,
     Alone, Contexts, AsyncInv, ControlTypes, Knows
<1>2. PICK v \in Guests, n \in Nat : ctx[c].task = <<"io", v, n>>
  BY <1>1 DEF AtPublish, IoTasks
<1>3. ctx[c].task[2] = v /\ ctx[c].task[3] = n  BY <1>2
<1>4. /\ n \in 1 .. last[v] /\ state[<<"io", v, n>>] = "Finish" /\ msgs = << >>
      /\ \A k \in 1 .. Len(used[v]) : used[v][k] < n
      /\ \A k \in 1 .. Len(ioList.map[v]) : n < ioList.map[v][k][3]
      /\ info[v] # << >> /\ Head(info[v]) = n /\ Tail(info[v]) = Issued(ioList.map[v])
  BY <1>1, <1>2, <1>3 DEF AtPublish
<1>5. /\ info' = [info EXCEPT ![v] = Tail(info[v])]
      /\ used' = [used EXCEPT ![v] = Append(used[v], n)]
      /\ Shared!Continue(c)
  BY <1>3, <1>4 DEF Shared!Publish
<1>6. PICK s \in Seq(Nat) : s = used[v]  BY <1>1 DEF Globals, DataTypes
<1>7. /\ Append(s, n) \in Seq(Nat) /\ Len(Append(s, n)) = Len(s) + 1 /\ Len(s) \in Nat
      /\ (\A i \in 1 .. Len(s) : Append(s, n)[i] = s[i]) /\ Append(s, n)[Len(s) + 1] = n
  BY AppendProperties, LenProperties
<1>8. used' \in [Guests -> Seq(Nat)] /\ used'[v] = Append(s, n)
      /\ \A u \in Guests : u # v => used'[u] = used[u]
  BY <1>1, <1>5, <1>6, <1>7 DEF Globals, DataTypes
<1>9. info' \in [Guests -> Seq(Nat)] /\ info'[v] = Tail(info[v])
      /\ \A u \in Guests : u # v => info'[u] = info[u]
  <2>1. info \in [Guests -> Seq(Nat)] /\ info[v] \in Seq(Nat)  BY <1>1 DEF Globals, DataTypes
  <2>2. Tail(info[v]) \in Seq(Nat)  BY <1>4, <2>1, HeadTailProperties
  <2>3. QED BY <1>5, <2>1, <2>2
<1>10. DataTypes'  BY <1>1, <1>8, <1>9 DEF Globals, DataTypes
<1>11. \A i \in 1 .. Len(Append(s, n)) : i = Len(s) + 1 \/ i \in 1 .. Len(s)  BY <1>7
<1>12. Ordered'
  <2>1. \A u \in Guests :
           /\ \A i \in 1 .. Len(ioList.map[u]) :
                ioList.map[u][i][2] = u /\ ioList.map[u][i][3] \in 1 .. last[u]
           /\ \A i, j \in 1 .. Len(ioList.map[u]) :
                i < j => ioList.map[u][i][3] < ioList.map[u][j][3]
    BY <1>1 DEF Globals, Ordered
  <2>2. ASSUME NEW u \in Guests, u # v
        PROVE  /\ \A i \in 1 .. Len(used'[u]) : used'[u][i] \in 1 .. last[u]
               /\ \A i, j \in 1 .. Len(used'[u]) : i < j => used'[u][i] < used'[u][j]
               /\ \A i \in 1 .. Len(used'[u]) : \A j \in 1 .. Len(ioList.map[u]) :
                    used'[u][i] < ioList.map[u][j][3]
    BY <1>1, <1>8, <2>2 DEF Globals, Ordered
  <2>3. /\ \A i \in 1 .. Len(s) : s[i] \in 1 .. last[v]
        /\ \A i, j \in 1 .. Len(s) : i < j => s[i] < s[j]
        /\ \A i \in 1 .. Len(s) : \A j \in 1 .. Len(ioList.map[v]) : s[i] < ioList.map[v][j][3]
        /\ \A i \in 1 .. Len(s) : s[i] < n
    BY <1>1, <1>4, <1>6 DEF Globals, Ordered
  <2> DEFINE r == Append(s, n)
  <2>4. r[Len(s) + 1] = n /\ \A i \in 1 .. Len(s) : r[i] = s[i]  BY <1>7
  <2>5. \A i \in 1 .. Len(r) : i = Len(s) + 1 \/ i \in 1 .. Len(s)  BY <1>11
  <2> HIDE DEF r
  <2>6. ASSUME NEW i \in 1 .. Len(r)
        PROVE  r[i] \in 1 .. last[v] /\ \A j \in 1 .. Len(ioList.map[v]) : r[i] < ioList.map[v][j][3]
    <3>1. CASE i = Len(s) + 1  BY <1>4, <2>4, <3>1
    <3>2. CASE i \in 1 .. Len(s)  BY <2>3, <2>4, <3>2
    <3>3. QED BY <2>5, <3>1, <3>2
  <2>7. ASSUME NEW i \in 1 .. Len(r), NEW j \in 1 .. Len(r), i < j PROVE r[i] < r[j]
    <3>1. i \in 1 .. Len(s)  BY <1>7, <2>5, <2>7
    <3>2. CASE j = Len(s) + 1  BY <2>3, <2>4, <3>1, <3>2
    <3>3. CASE j \in 1 .. Len(s)  BY <2>3, <2>4, <2>7, <3>1, <3>3
    <3>4. QED BY <2>5, <3>2, <3>3
  <2>8. used'[v] = r  BY <1>8 DEF r
  <2>9. ASSUME NEW u \in Guests
        PROVE  /\ \A i \in 1 .. Len(used'[u]) : used'[u][i] \in 1 .. last[u]
               /\ \A i, j \in 1 .. Len(used'[u]) : i < j => used'[u][i] < used'[u][j]
               /\ \A i \in 1 .. Len(used'[u]) : \A j \in 1 .. Len(ioList.map[u]) :
                    used'[u][i] < ioList.map[u][j][3]
    <3>1. CASE u # v  BY <2>2, <3>1
    <3>2. CASE u = v  BY <2>6, <2>7, <2>8, <3>2
    <3>3. QED BY <3>1, <3>2
  <2>10. QED BY <1>1, <2>1, <2>9 DEF Ordered
<1>13. Performed'
  <2>1. \A u \in Guests : \A k \in 1 .. MaxReqs :
           state[<<"io", u, k>>] = "Finish" =>
             k <= Len(avail[u]) /\ (avail[u][k] = "rw" => <<"io", u, k>> \in performed)
    BY <1>1 DEF Globals, Performed
  <2>2. n \in 1 .. MaxReqs
    <3>1. last[v] \in Nat /\ Len(avail[v]) \in Nat /\ MaxReqs \in Nat
          /\ last[v] <= Len(avail[v]) /\ Len(avail[v]) <= MaxReqs
      BY <1>1, MediationAssumption DEF MediationConstants, Globals, DataTypes
    <3>2. QED BY <1>4, <3>1
  <2>3. avail[v][n] = "rw" => <<"io", v, n>> \in performed  BY <1>4, <2>1, <2>2
  <2>4. ASSUME NEW u \in Guests, NEW i \in 1 .. Len(used'[u]), avail[u][used'[u][i]] = "rw"
        PROVE  <<"io", u, used'[u][i]>> \in performed
    <3>1. CASE u = v /\ i = Len(s) + 1
      <4>1. used'[u][i] = n  BY <1>7, <1>8, <3>1
      <4>2. QED BY <2>3, <2>4, <3>1, <4>1
    <3>2. CASE u = v /\ i \in 1 .. Len(s)
      <4>1. used'[u][i] = used[u][i] /\ i \in 1 .. Len(used[u])  BY <1>6, <1>7, <1>8, <3>2
      <4>2. QED BY <1>1, <2>4, <4>1 DEF Globals, Performed
    <3>3. CASE u # v
      <4>1. used'[u] = used[u]  BY <1>8, <3>3
      <4>2. QED BY <1>1, <2>4, <4>1 DEF Globals, Performed
    <3>4. u = v => i = Len(s) + 1 \/ i \in 1 .. Len(s)  BY <1>8, <1>11, <2>4
    <3>5. QED BY <3>1, <3>2, <3>3, <3>4
  <2>5. QED BY <1>1, <2>1, <2>4 DEF Performed
<1>14. Queued(ioList)' /\ OneMessage' /\ WithService'
  BY <1>1 DEF Globals, Queued, OneMessage, WithService, Waiting, Foremost
<1>15. Globals'  BY <1>10, <1>12, <1>13, <1>14 DEF Globals
<1>16. Moves(c) /\ Knows(c)'  BY <1>1, <1>4, <1>5, Continues
<1>17. \A u \in Guests : info'[u] = Issued(ioList'.map[u])
  <2>1. ASSUME NEW u \in Guests, u # v PROVE info[u] = Issued(ioList.map[u])
    <3>1. ~Changing(c, u)  BY <1>1, <1>3, <2>1 DEF Changing
    <3>2. QED BY <1>1, <3>1, QuietElse
  <2>2. QED BY <1>1, <1>4, <1>9, <2>1
<1>18. QED BY <1>15, <1>16, <1>17, Assemble

\* A task joins the queue of its VM, newer than all that wait.
LEMMA AddIoTaskStep ==
  ASSUME AsyncInv, NEW c \in Contexts, Shared!AddIoTask(c)
  PROVE  AsyncInv'
<1>1. /\ ctx[c] \in Locals /\ pc[c] = "request" /\ Alone(c) /\ ControlTypes /\ AtRequest(c)
      /\ Reading(c) /\ Globals
      /\ avail' = avail /\ last' = last /\ used' = used /\ info' = info /\ ipiList' = ipiList
      /\ svc' = svc /\ msgs' = msgs /\ performed' = performed /\ ctx' = ctx
      /\ ctx[c].batch # << >> /\ Shared!Goto(c, "info")
  BY DEF Shared!AddIoTask, Shared!At, Shared!OnCore, Shared!InGuest, Shared!Contexts, Shared!ring,
     Alone, Contexts, AsyncInv, ControlTypes, Knows, AtRequest
<1>2. PICK v \in Guests : v = ctx[c].vm  BY <1>1 DEF Reading
<1>3. PICK b \in Seq(Nat) \ {<< >>} : b = ctx[c].batch
  BY <1>1 DEF Locals
<1>4. PICK n \in Nat : n = b[1] /\ n = Head(b) /\ 1 \in 1 .. Len(b) /\ Len(b) \in Nat \ {0}
  <2>1. Len(b) \in Nat \ {0}  BY EmptySeq
  <2>2. QED BY <2>1, HeadTailProperties
<1>5. NewerThan(v, n) /\ Sorted(b) /\ \A i \in 1 .. Len(b) : NewerThan(v, b[i])
  BY <1>1, <1>2, <1>3, <1>4 DEF AtRequest
<1>6. /\ n \in 1 .. last[v] /\ n \in 1 .. MaxReqs /\ n <= Len(avail[v])
  <2>1. last[v] \in Nat /\ Len(avail[v]) \in Nat /\ MaxReqs \in Nat
        /\ last[v] <= Len(avail[v]) /\ Len(avail[v]) <= MaxReqs
    BY <1>1, MediationAssumption DEF MediationConstants, Globals, DataTypes
  <2>2. n \in 1 .. last[v]  BY <1>5 DEF NewerThan
  <2>3. QED BY <2>1, <2>2
<1>7. PICK t \in IoTasks : t = <<"io", v, n>>  BY DEF IoTasks
<1>8. PICK z \in {"Finish", "Pending"} :
        /\ state' = [state EXCEPT ![t] = z]
        /\ z = "Finish" => avail[v][n] = "id"
        /\ ioList' = Shared!push_back(ioList, v, t)
  BY <1>2, <1>3, <1>4, <1>7 DEF Shared!AddIoTask, Shared!Io
<1>9. PICK s \in Seq(IoTasks) : s = ioList.map[v]  BY <1>1 DEF Globals, DataTypes
<1>10. /\ Append(s, t) \in Seq(IoTasks) /\ Len(Append(s, t)) = Len(s) + 1 /\ Len(s) \in Nat
       /\ Append(s, t)[Len(s) + 1] = t
       /\ \A i \in 1 .. Len(s) : Append(s, t)[i] = s[i]
  BY AppendProperties, LenProperties
<1>11. /\ ioList' \in Queues /\ Queued(ioList)'
       /\ ioList'.map = [ioList.map EXCEPT ![v] = Append(s, t)]
       /\ Waiting => Waiting' /\ Foremost' = Foremost
  <2>1. ioList \in Queues /\ Queued(ioList)
    BY <1>1 DEF Globals, DataTypes, Queues
  <2>2. PICK g : g = ioList'  OBVIOUS
  <2>3. /\ g \in Queues /\ Queued(g) /\ g.map = [ioList.map EXCEPT ![v] = Append(ioList.map[v], t)]
        /\ ioList.queue # << >> =>
              g.queue # << >> /\ Head(g.queue) = Head(ioList.queue)
              /\ Head(g.map[Head(g.queue)]) = Head(ioList.map[Head(ioList.queue)])
    <3>1. PICK f \in Queues : f = ioList /\ Queued(f)  BY <2>1
    <3>2. g = Shared!push_back(f, v, t)  BY <1>8, <2>2, <3>1
    <3>3. Joined(f, v, t, g)  BY <3>1, <3>2, PushQueue
    <3>4. QED BY <3>1, <3>3 DEF Joined
  <2>4. Queued(ioList)'  BY <2>2, <2>3 DEF Queued
  <2>5. Waiting => Waiting' /\ Foremost' = Foremost  BY <2>2, <2>3 DEF Waiting, Foremost
  <2>6. QED BY <1>9, <2>2, <2>3, <2>4, <2>5
<1>12. ioList'.map[v] = Append(s, t) /\ \A u \in Guests : u # v => ioList'.map[u] = ioList.map[u]
  BY <1>1, <1>11 DEF Globals, DataTypes
<1> DEFINE D == {"ipi", "io"} \X Guests \X (1 .. MaxReqs)
<1>13. state \in [D -> {"Pending", "Running", "Finish"}] /\ t \in D
       /\ \A u \in Guests, k \in 1 .. MaxReqs : <<"io", u, k>> \in D
  BY <1>1, <1>6, <1>7 DEF Globals, DataTypes
<1>14. /\ state' \in [D -> {"Pending", "Running", "Finish"}] /\ state'[t] = z
       /\ \A u \in D : u # t => state'[u] = state[u]
  <2> HIDE DEF D
  <2>1. QED BY <1>8, <1>13
<1>15. DataTypes'  BY <1>1, <1>11, <1>14 DEF Globals, DataTypes, Queues
<1> HIDE DEF D
<1>16. \A i \in 1 .. Len(Append(s, t)) : i = Len(s) + 1 \/ i \in 1 .. Len(s)
  BY <1>10
<1>17. /\ \A k \in 1 .. Len(s) : s[k][3] < n
       /\ \A k \in 1 .. Len(used[v]) : used[v][k] < n
       /\ t[2] = v /\ t[3] = n
  BY <1>5, <1>7, <1>9 DEF NewerThan
<1>18. Ordered'
  <2>1. ASSUME NEW i \in 1 .. Len(Append(s, t))
        PROVE  /\ Append(s, t)[i][2] = v /\ Append(s, t)[i][3] \in 1 .. last[v]
               /\ \A k \in 1 .. Len(used[v]) : used[v][k] < Append(s, t)[i][3]
    <3>1. CASE i \in 1 .. Len(s)
      <4>1. /\ s[i][2] = v /\ s[i][3] \in 1 .. last[v]
            /\ \A k \in 1 .. Len(used[v]) : used[v][k] < s[i][3]
        BY <1>1, <1>9, <3>1 DEF Globals, Ordered
      <4>2. QED BY <1>10, <3>1, <4>1
    <3>2. CASE i = Len(s) + 1
      <4>1. Append(s, t)[i] = t  BY <1>10, <3>2
      <4>2. QED BY <1>6, <1>17, <4>1
    <3>3. QED BY <1>16, <3>1, <3>2
  <2>2. ASSUME NEW i \in 1 .. Len(Append(s, t)), NEW j \in 1 .. Len(Append(s, t)), i < j
        PROVE  Append(s, t)[i][3] < Append(s, t)[j][3]
    <3>1. i \in 1 .. Len(s)  BY <1>10, <2>2
    <3>2. CASE j \in 1 .. Len(s)
      <4>1. s[i][3] < s[j][3]  BY <1>1, <1>9, <2>2, <3>1, <3>2 DEF Globals, Ordered
      <4>2. QED BY <1>10, <3>1, <3>2, <4>1
    <3>3. CASE j = Len(s) + 1
      <4>1. Append(s, t)[j] = t /\ Append(s, t)[i] = s[i]  BY <1>10, <3>1, <3>3
      <4>2. QED BY <1>17, <3>1, <4>1
    <3>4. QED BY <1>16, <3>2, <3>3
  <2>3. ASSUME NEW u \in Guests
        PROVE  /\ \A i \in 1 .. Len(ioList'.map[u]) :
                    ioList'.map[u][i][2] = u /\ ioList'.map[u][i][3] \in 1 .. last[u]
               /\ \A i, j \in 1 .. Len(ioList'.map[u]) :
                    i < j => ioList'.map[u][i][3] < ioList'.map[u][j][3]
               /\ \A i \in 1 .. Len(used[u]) : used[u][i] \in 1 .. last[u]
               /\ \A i, j \in 1 .. Len(used[u]) : i < j => used[u][i] < used[u][j]
               /\ \A i \in 1 .. Len(used[u]) : \A j \in 1 .. Len(ioList'.map[u]) :
                    used[u][i] < ioList'.map[u][j][3]
    <3>1. /\ \A i \in 1 .. Len(used[u]) : used[u][i] \in 1 .. last[u]
          /\ \A i, j \in 1 .. Len(used[u]) : i < j => used[u][i] < used[u][j]
      BY <1>1 DEF Globals, Ordered
    <3>2. CASE u = v  BY <1>12, <2>1, <2>2, <3>1, <3>2
    <3>3. CASE u # v
      <4>1. ioList'.map[u] = ioList.map[u]  BY <1>12, <3>3
      <4>2. QED BY <1>1, <4>1 DEF Globals, Ordered
    <3>4. QED BY <3>2, <3>3
  <2>4. QED BY <1>1, <2>3 DEF Ordered
<1>19. t # Foremost \/ ~Waiting
  <2>1. ASSUME Waiting, t = Foremost PROVE FALSE
    <3>1. /\ Foremost[2] = Head(ioList.queue)
          /\ Foremost = ioList.map[Head(ioList.queue)][1]
          /\ 1 \in 1 .. Len(ioList.map[Head(ioList.queue)])
      BY <1>1, <2>1, FrontIs, ForemostIs DEF Globals
    <3>2. Head(ioList.queue) = v  BY <1>17, <2>1, <3>1
    <3>3. s[1] = t /\ 1 \in 1 .. Len(s)  BY <1>9, <2>1, <3>1, <3>2
    <3>4. s[1][3] < n /\ s[1][3] = n  BY <1>17, <3>3
    <3>5. QED BY <3>4
  <2>2. QED BY <2>1
<1>20. OneMessage' /\ WithService'
  <2>1. ASSUME NEW u \in svc PROVE Waiting' /\ u = Foremost' /\ state'[u] = "Running"
    <3>1. Waiting /\ u = Foremost /\ state[u] = "Running"  BY <1>1 DEF Globals, WithService
    <3>2. u \in {"ipi", "io"} \X Guests \X (1 .. MaxReqs)  BY <1>1, <3>1, ForemostIs
    <3>3. u # t /\ u \in D  BY <1>19, <3>1, <3>2 DEF D
    <3>4. QED BY <1>11, <1>14, <3>1, <3>3
  <2>2. WithService'  BY <1>1, <2>1 DEF WithService
  <2>3. OneMessage'  BY <1>1 DEF OneMessage, Reading
  <2>4. QED BY <2>2, <2>3
<1>21. Performed'
  <2>1. ASSUME NEW u \in Guests, NEW k \in 1 .. MaxReqs, state'[<<"io", u, k>>] = "Finish"
        PROVE  k <= Len(avail[u]) /\ (avail[u][k] = "rw" => <<"io", u, k>> \in performed)
    <3>1. CASE <<"io", u, k>> = t
      <4>1. u = v /\ k = n  BY <1>7, <3>1
      <4>2. z = "Finish"  BY <1>14, <2>1, <3>1
      <4>3. avail[u][k] = "id"  BY <1>8, <4>1, <4>2
      <4>4. QED BY <1>6, <4>1, <4>3
    <3>2. CASE <<"io", u, k>> # t
      <4>1. state[<<"io", u, k>>] = "Finish"  BY <1>13, <1>14, <2>1, <3>2
      <4>2. QED BY <1>1, <4>1 DEF Globals, Performed
    <3>3. QED BY <3>1, <3>2
  <2>2. \A u \in Guests : \A i \in 1 .. Len(used[u]) :
           avail[u][used[u][i]] = "rw" => <<"io", u, used[u][i]>> \in performed
    BY <1>1 DEF Globals, Performed
  <2>3. QED BY <1>1, <2>1, <2>2 DEF Performed
<1>22. Globals'  BY <1>11, <1>15, <1>18, <1>20, <1>21 DEF Globals
<1>23. Moves(c) /\ pc'[c] = "info" /\ ctx'[c] = ctx[c]  BY <1>1, GoesOn DEF Labels
<1>24. info[v] = Issued(s) /\ \A u \in Guests : info[u] = Issued(ioList.map[u])
  BY <1>1, <1>9, Quiet
<1>25. Issued(ioList'.map[v]) = Append(info[v], n)
  BY <1>12, <1>17, <1>24, IssuedAppend
<1>26. AtInfo(c)'
  <2>1. Reading(c)'  BY <1>1, <1>23 DEF Reading, IpiTask
  <2>2. ASSUME NEW i \in 2 .. Len(b) PROVE NewerThan(v, b[i])'
    <3>1. i \in 1 .. Len(b) /\ n < b[i]
      <4>1. i \in 1 .. Len(b) /\ 1 < i  BY <1>4
      <4>2. QED BY <1>4, <1>5, <4>1 DEF Sorted
    <3>2. /\ b[i] \in 1 .. last[v]
          /\ \A k \in 1 .. Len(s) : s[k][3] < b[i]
          /\ \A k \in 1 .. Len(used[v]) : used[v][k] < b[i]
      BY <1>5, <1>9, <3>1 DEF NewerThan
    <3>3. ASSUME NEW k \in 1 .. Len(Append(s, t)) PROVE Append(s, t)[k][3] < b[i]
      <4>1. CASE k \in 1 .. Len(s)  BY <1>10, <3>2, <4>1
      <4>2. CASE k = Len(s) + 1  BY <1>10, <1>17, <3>1, <4>2
      <4>3. QED BY <1>16, <4>1, <4>2
    <3>4. QED BY <1>1, <1>12, <3>2, <3>3 DEF NewerThan
  <2>3. \A i \in 2 .. Len(b) : NewerThan(ctx[c].vm, ctx[c].batch[i])'
    BY <1>1, <1>2, <1>3, <2>2 DEF NewerThan
  <2>4. Issued(ioList'.map[ctx'[c].vm]) = Append(info'[ctx'[c].vm], Head(ctx'[c].batch))
    BY <1>1, <1>2, <1>3, <1>4, <1>25
  <2>5. Sorted(ctx'[c].batch) /\ ctx'[c].batch # << >>  BY <1>1, <1>3, <1>5
  <2>6. QED BY <1>1, <1>3, <2>1, <2>3, <2>4, <2>5 DEF AtInfo
<1>27. Knows(c)'  BY <1>23, <1>26, Arrived
<1>28. \A u \in Guests : info'[u] = Issued(ioList'.map[u]) \/ Changing(c, u)'
  <2>1. \A u \in Guests : u # v => info'[u] = Issued(ioList'.map[u])  BY <1>1, <1>12, <1>24
  <2>2. Changing(c, v)'  BY <1>1, <1>2, <1>23 DEF Changing
  <2>3. QED BY <2>1, <2>2
<1>29. QED BY <1>22, <1>23, <1>27, <1>28, Assemble

\* The record of the task just added joins the used-info list.
LEMMA PushInfoStep ==
  ASSUME AsyncInv, NEW c \in Contexts, Shared!PushInfo(c)
  PROVE  AsyncInv'
<1>1. /\ ctx[c] \in Locals /\ pc[c] = "info" /\ Alone(c) /\ ControlTypes /\ AtInfo(c)
      /\ Reading(c) /\ Globals
      /\ avail' = avail /\ last' = last /\ used' = used /\ ioList' = ioList /\ ipiList' = ipiList
      /\ state' = state /\ svc' = svc /\ msgs' = msgs /\ performed' = performed
      /\ ctx[c].batch # << >> /\ Shared!Goto(c, "request")
      /\ ctx' = [ctx EXCEPT ![c].batch = Tail(@)]
  BY DEF Shared!PushInfo, Shared!At, Shared!OnCore, Shared!InGuest, Shared!Contexts, Shared!ring,
     Alone, Contexts, AsyncInv, ControlTypes, Knows, AtInfo
<1>2. PICK v \in Guests : v = ctx[c].vm  BY <1>1 DEF Reading
<1>3. PICK b \in Seq(Nat) \ {<< >>} : b = ctx[c].batch
  BY <1>1 DEF Locals
<1>4. /\ Tail(b) \in Seq(Nat) /\ Len(Tail(b)) = Len(b) - 1 /\ Len(b) \in Nat /\ Head(b) \in Nat
      /\ \A i \in 1 .. Len(Tail(b)) :
           i + 1 \in 1 .. Len(b) /\ i + 1 \in 2 .. Len(b) /\ Tail(b)[i] = b[i + 1]
  <2>1. Len(b) \in Nat \ {0}  BY EmptySeq
  <2>2. QED BY <2>1, HeadTailProperties
<1>5. info' = [info EXCEPT ![v] = Append(info[v], Head(b))]
  BY <1>2, <1>3 DEF Shared!PushInfo
<1>6. /\ Sorted(b) /\ \A i \in 2 .. Len(b) : NewerThan(v, b[i])
      /\ Issued(ioList.map[v]) = Append(info[v], Head(b))
  BY <1>1, <1>2, <1>3 DEF AtInfo
<1>7. info \in [Guests -> Seq(Nat)]  BY <1>1 DEF Globals, DataTypes
<1>8. /\ info' \in [Guests -> Seq(Nat)] /\ info'[v] = Append(info[v], Head(b))
      /\ \A u \in Guests : u # v => info'[u] = info[u]
  <2>1. Append(info[v], Head(b)) \in Seq(Nat)  BY <1>4, <1>7, AppendProperties
  <2>2. QED BY <1>5, <1>7, <2>1
<1>9. DataTypes'  BY <1>1, <1>8 DEF Globals, DataTypes
<1>10. Queued(ioList)' /\ Ordered' /\ Waiting' = Waiting /\ Foremost' = Foremost
  BY <1>1, SameOrder
<1>11. OneMessage' /\ WithService' /\ Performed'
  BY <1>1, <1>10 DEF Globals, OneMessage, WithService, Performed
<1>12. Globals'  BY <1>9, <1>10, <1>11 DEF Globals
<1> DEFINE x == [ctx[c] EXCEPT !.batch = Tail(b)]
<1>13. /\ x \in Locals /\ x.task = ctx[c].task /\ x.done = ctx[c].done /\ x.by = ctx[c].by
       /\ x.vm = ctx[c].vm /\ x.batch = Tail(b)
  BY <1>1, <1>4 DEF Locals
<1>14. ctx' = [ctx EXCEPT ![c] = x]  BY <1>1, <1>3
<1> HIDE DEF x
<1>15. Moves(c) /\ pc'[c] = "request" /\ ctx'[c] = x
  BY <1>1, <1>13, <1>14, GoesOn DEF Labels
<1>16. Sorted(Tail(b))
  <2>1. \A i, j \in 1 .. Len(b) : i < j => b[i] < b[j]  BY <1>6 DEF Sorted
  <2>2. ASSUME NEW i \in 1 .. Len(Tail(b)), NEW j \in 1 .. Len(Tail(b)), i < j
        PROVE  Tail(b)[i] < Tail(b)[j]
    <3>1. b[i + 1] < b[j + 1]  BY <1>4, <2>1, <2>2
    <3>2. QED BY <1>4, <3>1
  <2>3. QED BY <2>2 DEF Sorted
<1>17. \A i \in 1 .. Len(Tail(b)) : NewerThan(v, Tail(b)[i])
  BY <1>4, <1>6
<1>18. AtRequest(c)'
  <2>1. Reading(c)'  BY <1>1, <1>13, <1>15 DEF Reading, IpiTask
  <2>2. Sorted(ctx[c].batch)'  BY <1>13, <1>15, <1>16
  <2>3. QED BY <1>1, <1>2, <1>13, <1>15, <1>17, <2>1, <2>2 DEF AtRequest, NewerThan
<1>19. Knows(c)'  BY <1>15, <1>18, Arrived
<1>20. \A u \in Guests : info'[u] = Issued(ioList'.map[u])
  <2>1. ASSUME NEW u \in Guests, u # v PROVE info'[u] = Issued(ioList'.map[u])
    <3>1. ~Changing(c, u)  BY <1>1, <1>2, <2>1 DEF Changing
    <3>2. info[u] = Issued(ioList.map[u])  BY <1>1, <3>1, QuietElse
    <3>3. QED BY <1>1, <1>8, <2>1, <3>2
  <2>2. info'[v] = Issued(ioList'.map[v])  BY <1>1, <1>6, <1>8
  <2>3. QED BY <2>1, <2>2
<1>21. QED BY <1>12, <1>15, <1>19, <1>20, Assemble

-----------------------------------------------------------------------------
\* One core in the hypervisor at a time is all VMs on one core, but for who may
\* be interrupted by an IPI and what may be asked for.
LEMMA SerialIsShared ==
  ASSUME Serial!Next
  PROVE  Shared!Next
<1>1. \A c, l : Serial!At(c, l) => Shared!At(c, l)
  BY DEF Serial!At, Shared!At, Serial!OnCore, Shared!OnCore, Serial!InGuest, Shared!InGuest,
     Serial!Contexts, Shared!Contexts
<1>2. ASSUME NEW c, Serial!Enter(c) PROVE Shared!Enter(c)
  BY <1>1, <1>2
     DEF Serial!Enter, Shared!Enter, Serial!Goto, Shared!Goto, Serial!Panic, Shared!Panic,
         Serial!Return, Shared!Return, Serial!NoLocals, Shared!NoLocals, Serial!None,
         Shared!None, Serial!IsIpi, Shared!IsIpi, Serial!ring, Shared!ring, Serial!lists,
         Shared!lists
<1>3. ASSUME NEW c, Serial!Pick(c) PROVE Shared!Pick(c)
  BY <1>1, <1>3
     DEF Serial!Pick, Shared!Pick, Serial!Goto, Shared!Goto, Serial!Panic, Shared!Panic,
         Serial!Return, Shared!Return, Serial!NoLocals, Shared!NoLocals, Serial!None,
         Shared!None, Serial!IsIpi, Shared!IsIpi, Serial!ring, Shared!ring, Serial!lists,
         Shared!lists, Serial!is_empty, Shared!is_empty, Serial!front, Shared!front
<1>4. ASSUME NEW c, Serial!Handle(c) PROVE Shared!Handle(c)
  BY <1>1, <1>4
     DEF Serial!Handle, Shared!Handle, Serial!Goto, Shared!Goto, Serial!Panic, Shared!Panic,
         Serial!Return, Shared!Return, Serial!NoLocals, Shared!NoLocals, Serial!None,
         Shared!None, Serial!IsIpi, Shared!IsIpi, Serial!ring, Shared!ring, Serial!lists,
         Shared!lists
<1>5. ASSUME NEW c, Serial!PollIpi(c) PROVE Shared!PollIpi(c)
  BY <1>1, <1>5
     DEF Serial!PollIpi, Shared!PollIpi, Serial!Goto, Shared!Goto, Serial!Panic, Shared!Panic,
         Serial!Return, Shared!Return, Serial!NoLocals, Shared!NoLocals, Serial!None,
         Shared!None, Serial!IsIpi, Shared!IsIpi, Serial!ring, Shared!ring, Serial!lists,
         Shared!lists
<1>6. ASSUME NEW c, Serial!PollIo(c) PROVE Shared!PollIo(c)
  BY <1>1, <1>6
     DEF Serial!PollIo, Shared!PollIo, Serial!Goto, Shared!Goto, Serial!Panic, Shared!Panic,
         Serial!Return, Shared!Return, Serial!NoLocals, Shared!NoLocals, Serial!None,
         Shared!None, Serial!IsIpi, Shared!IsIpi, Serial!ring, Shared!ring, Serial!lists,
         Shared!lists, Serial!front, Shared!front
<1>7. ASSUME NEW c, Serial!After(c) PROVE Shared!After(c)
  BY <1>1, <1>7
     DEF Serial!After, Shared!After, Serial!Goto, Shared!Goto, Serial!Panic, Shared!Panic,
         Serial!Return, Shared!Return, Serial!NoLocals, Shared!NoLocals, Serial!None,
         Shared!None, Serial!IsIpi, Shared!IsIpi, Serial!ring, Shared!ring, Serial!lists,
         Shared!lists
<1>8. ASSUME NEW c, Serial!FinishIpi(c) PROVE Shared!FinishIpi(c)
  BY <1>1, <1>8
     DEF Serial!FinishIpi, Shared!FinishIpi, Serial!Goto, Shared!Goto, Serial!Panic,
         Shared!Panic, Serial!Return, Shared!Return, Serial!NoLocals, Shared!NoLocals,
         Serial!None, Shared!None, Serial!IsIpi, Shared!IsIpi, Serial!ring, Shared!ring,
         Serial!lists, Shared!lists, Serial!Continue, Shared!Continue
<1>9. ASSUME NEW c, Serial!FinishIo(c) PROVE Shared!FinishIo(c)
  BY <1>1, <1>9
     DEF Serial!FinishIo, Shared!FinishIo, Serial!Goto, Shared!Goto, Serial!Panic, Shared!Panic,
         Serial!Return, Shared!Return, Serial!NoLocals, Shared!NoLocals, Serial!None,
         Shared!None, Serial!IsIpi, Shared!IsIpi, Serial!ring, Shared!ring, Serial!lists,
         Shared!lists, Serial!front, Shared!front, Serial!pop_front, Shared!pop_front
<1>10. ASSUME NEW c, Serial!Publish(c) PROVE Shared!Publish(c)
  BY <1>1, <1>10
     DEF Serial!Publish, Shared!Publish, Serial!Goto, Shared!Goto, Serial!Panic, Shared!Panic,
         Serial!Return, Shared!Return, Serial!NoLocals, Shared!NoLocals, Serial!None,
         Shared!None, Serial!IsIpi, Shared!IsIpi, Serial!ring, Shared!ring, Serial!lists,
         Shared!lists, Serial!Continue, Shared!Continue
<1>11. ASSUME NEW c, Serial!Scan(c) PROVE Shared!Scan(c)
  BY <1>1, <1>11
     DEF Serial!Scan, Shared!Scan, Serial!Goto, Shared!Goto, Serial!Panic, Shared!Panic,
         Serial!Return, Shared!Return, Serial!NoLocals, Shared!NoLocals, Serial!None,
         Shared!None, Serial!IsIpi, Shared!IsIpi, Serial!ring, Shared!ring, Serial!lists,
         Shared!lists
<1>12. ASSUME NEW c, Serial!SkipBad(c) PROVE Shared!SkipBad(c)
  BY <1>1, <1>12
     DEF Serial!SkipBad, Shared!SkipBad, Serial!Goto, Shared!Goto, Serial!Panic, Shared!Panic,
         Serial!Return, Shared!Return, Serial!NoLocals, Shared!NoLocals, Serial!None,
         Shared!None, Serial!IsIpi, Shared!IsIpi, Serial!ring, Shared!ring, Serial!lists,
         Shared!lists
<1>13. ASSUME NEW c, Serial!AddIoTask(c) PROVE Shared!AddIoTask(c)
  BY <1>1, <1>13
     DEF Serial!AddIoTask, Shared!AddIoTask, Serial!Goto, Shared!Goto, Serial!Panic,
         Shared!Panic, Serial!Return, Shared!Return, Serial!NoLocals, Shared!NoLocals,
         Serial!None, Shared!None, Serial!IsIpi, Shared!IsIpi, Serial!ring, Shared!ring,
         Serial!lists, Shared!lists, Serial!push_back, Shared!push_back, Serial!Io, Shared!Io
<1>14. ASSUME NEW c, Serial!PushInfo(c) PROVE Shared!PushInfo(c)
  BY <1>1, <1>14
     DEF Serial!PushInfo, Shared!PushInfo, Serial!Goto, Shared!Goto, Serial!Panic, Shared!Panic,
         Serial!Return, Shared!Return, Serial!NoLocals, Shared!NoLocals, Serial!None,
         Shared!None, Serial!IsIpi, Shared!IsIpi, Serial!ring, Shared!ring, Serial!lists,
         Shared!lists
<1>15. ASSUME NEW c, Serial!ScanDone(c) PROVE Shared!ScanDone(c)
  BY <1>1, <1>15
     DEF Serial!ScanDone, Shared!ScanDone, Serial!Goto, Shared!Goto, Serial!Panic, Shared!Panic,
         Serial!Return, Shared!Return, Serial!NoLocals, Shared!NoLocals, Serial!None,
         Shared!None, Serial!IsIpi, Shared!IsIpi, Serial!ring, Shared!ring, Serial!lists,
         Shared!lists
<1>16. ASSUME NEW c, Serial!TakeIpi(c) PROVE Shared!TakeIpi(c)
  BY <1>1, <1>16
     DEF Serial!TakeIpi, Shared!TakeIpi, Serial!Goto, Shared!Goto, Serial!Panic, Shared!Panic,
         Serial!Return, Shared!Return, Serial!NoLocals, Shared!NoLocals, Serial!None,
         Shared!None, Serial!IsIpi, Shared!IsIpi, Serial!ring, Shared!ring, Serial!lists,
         Shared!lists, Serial!Front, Shared!Front, Serial!Last, Shared!Last
<1>17. ASSUME NEW v, Serial!Submit(v) PROVE Shared!Submit(v)
  BY <1>1, <1>17
     DEF Serial!Submit, Shared!Submit, Serial!Goto, Shared!Goto, Serial!Panic, Shared!Panic,
         Serial!Return, Shared!Return, Serial!NoLocals, Shared!NoLocals, Serial!None,
         Shared!None, Serial!IsIpi, Shared!IsIpi, Serial!ring, Shared!ring, Serial!lists,
         Shared!lists
<1>18. ASSUME NEW v, Serial!AddIpiTask(v) PROVE Shared!AddIpiTask(v)
  BY <1>1, <1>18
     DEF Serial!AddIpiTask, Shared!AddIpiTask, Serial!Goto, Shared!Goto, Serial!Panic,
         Shared!Panic, Serial!Return, Shared!Return, Serial!NoLocals, Shared!NoLocals,
         Serial!None, Shared!None, Serial!IsIpi, Shared!IsIpi, Serial!ring, Shared!ring,
         Serial!lists, Shared!lists, Serial!Ipi, Shared!Ipi, Serial!is_empty, Shared!is_empty
<1>19. ASSUME NEW v, Serial!WaitRoom(v) PROVE Shared!WaitRoom(v)
  BY <1>1, <1>19
     DEF Serial!WaitRoom, Shared!WaitRoom, Serial!Goto, Shared!Goto, Serial!Panic, Shared!Panic,
         Serial!Return, Shared!Return, Serial!NoLocals, Shared!NoLocals, Serial!None,
         Shared!None, Serial!IsIpi, Shared!IsIpi, Serial!ring, Shared!ring, Serial!lists,
         Shared!lists
<1>20. ASSUME NEW t, Serial!Complete(t) PROVE Shared!Complete(t)
  BY <1>1, <1>20
     DEF Serial!Complete, Shared!Complete, Serial!Goto, Shared!Goto, Serial!Panic, Shared!Panic,
         Serial!Return, Shared!Return, Serial!NoLocals, Shared!NoLocals, Serial!None,
         Shared!None, Serial!IsIpi, Shared!IsIpi, Serial!ring, Shared!ring, Serial!lists,
         Shared!lists, Serial!front, Shared!front
<1>21. \A c : Serial!Step(c) => Shared!Step(c)
  BY <1>2, <1>3, <1>4, <1>5, <1>6, <1>7, <1>8, <1>9, <1>10, <1>11, <1>12, <1>13, <1>14, <1>15
     DEF Serial!Step, Shared!Step
<1>22. QED
  BY <1>21, <1>16, <1>17, <1>18, <1>19, <1>20
     DEF Serial!Next, Shared!Next, Serial!Contexts, Shared!Contexts, Serial!VMs, Shared!VMs,
         Serial!Tasks, Shared!Tasks

\* Nothing waits at the start.
LEMMA AsyncStart ==
  ASSUME Serial!Init
  PROVE  AsyncInv
<1>1. NVms \in Nat /\ MaxReqs \in Nat  BY MediationAssumption DEF MediationConstants
<1> DEFINE D == {"ipi", "io"} \X Guests \X (1 .. MaxReqs)
<1>2. /\ avail = [v \in Guests |-> << >>] /\ last = [v \in Guests |-> 0]
      /\ used = [v \in Guests |-> << >>] /\ info = [v \in Guests |-> << >>]
      /\ ipiList = << >> /\ msgs = << >> /\ svc = {}
      /\ ioList = [len |-> 0, map |-> [v \in Guests |-> << >>], queue |-> << >>]
      /\ state = [t \in D |-> "Pending"]
      /\ pc = [c \in Contexts |-> "guest"] /\ ctx = [c \in Contexts |-> NoLocals]
  BY DEF Serial!Init, Serial!VMs, Serial!new, Serial!Tasks, Serial!Contexts, Serial!NoLocals,
     Serial!None, Guests, Contexts, NoLocals
<1>3. /\ \A S : << >> \in Seq(S)
      /\ Len(<< >>) = 0 /\ 1 .. Len(<< >>) = {}
  BY EmptySeq
<1>4. /\ \A v \in Guests : avail[v] = << >> /\ last[v] = 0 /\ used[v] = << >> /\ info[v] = << >>
      /\ \A v \in Guests : ioList.map[v] = << >>
      /\ ioList.queue = << >>
  BY <1>2
<1>5. DataTypes
  <2>1. /\ avail \in [Guests -> Seq({"rw", "id", "bad"})] /\ last \in [Guests -> Nat]
        /\ used \in [Guests -> Seq(Nat)] /\ info \in [Guests -> Seq(Nat)]
    BY <1>2, <1>3
  <2>2. \A v \in Guests : last[v] <= Len(avail[v]) /\ Len(avail[v]) <= MaxReqs
    BY <1>1, <1>3, <1>4
  <2>3. ipiList \in Seq({"ipi"} \X Guests \X Nat) /\ msgs \in Seq(Guests)  BY <1>2, <1>3
  <2>4. ioList \in [len : Int, map : [Guests -> Seq(IoTasks)], queue : Seq(Guests)]
    <3>1. PICK m \in [Guests -> Seq(IoTasks)] : m = [v \in Guests |-> << >>]  BY <1>3
    <3>2. << >> \in Seq(Guests)  BY <1>3
    <3>3. ioList = [len |-> 0, map |-> m, queue |-> << >>]  BY <1>2, <3>1
    <3>4. QED BY <3>2, <3>3
  <2>5. state \in [D -> {"Pending", "Running", "Finish"}]
    <3> HIDE DEF D
    <3>1. QED BY <1>2
  <2>6. QED BY <2>1, <2>2, <2>3, <2>4, <2>5 DEF DataTypes
<1>6. Queued(ioList)  BY <1>3, <1>4 DEF Queued
<1>7. Ordered  BY <1>3, <1>4 DEF Ordered
<1>8. OneMessage /\ WithService  BY <1>2 DEF OneMessage, WithService
<1>9. Performed
  <2>1. \A v \in Guests, n \in 1 .. MaxReqs : <<"io", v, n>> \in D  OBVIOUS
  <2> HIDE DEF D
  <2>2. \A t \in D : state[t] = "Pending"  BY <1>2
  <2>3. \A v \in Guests, n \in 1 .. MaxReqs : state[<<"io", v, n>>] # "Finish"  BY <2>1, <2>2
  <2>4. \A v \in Guests : 1 .. Len(used[v]) = {}  BY <1>3, <1>4
  <2>5. QED BY <2>3, <2>4 DEF Performed
<1>10. ControlTypes  BY <1>2, NoLocalsIs DEF ControlTypes, Labels
<1>11. Recorded
  <2>1. DOMAIN << >> = {}  BY EmptySeq
  <2>2. PICK e \in Seq(IoTasks) : e = << >>  BY <1>3
  <2>3. Issued(e) \in Seq(Nat) /\ Len(Issued(e)) = 0  BY <1>3, <2>2, IssuedIs
  <2>4. Issued(e) = << >>  BY <2>3, EmptySeq
  <2>5. \A v \in Guests : info[v] = Issued(ioList.map[v])  BY <1>4, <2>2, <2>4
  <2>6. QED BY <2>5 DEF Recorded
<1>12. ASSUME NEW c \in Contexts PROVE Knows(c)
  <2>1. pc[c] = "guest" /\ ctx[c] = NoLocals  BY <1>2
  <2>2. QED BY <2>1 DEF Knows, AtRest, AtEnter, AtRoom, AtPick, AtHandle, AtAfter, AtFinish,
               AtPublish, AtScan, AtRequest, AtInfo
<1>13. QED BY <1>5, <1>6, <1>7, <1>8, <1>9, <1>10, <1>11, <1>12 DEF AsyncInv, Globals

\* The other settings leave the device alone.
LEMMA AsyncUnchanged ==
  ASSUME AsyncInv, UNCHANGED asyncVars
  PROVE  AsyncInv'
<1>1. UNCHANGED data /\ pc' = pc /\ ctx' = ctx  BY DEF asyncVars, data
<1>2. Globals'  BY <1>1, SameGlobals DEF AsyncInv
<1>3. ControlTypes'  BY <1>1 DEF AsyncInv, ControlTypes
<1>4. Recorded'  BY <1>1 DEF AsyncInv, Recorded, Changing, data
<1>5. ASSUME NEW c \in Contexts PROVE Knows(c)'
  <2>1. Knows(c) /\ ioList' = ioList /\ ipiList' = ipiList /\ msgs' = msgs /\ state' = state
        /\ used' = used /\ last' = last /\ info' = info
    BY <1>1 DEF AsyncInv, data
  <2>2. AtRest(c)' /\ AtEnter(c)' /\ AtRoom(c)' /\ AtPick(c)'
    BY <1>1, <2>1 DEF Knows, AtRest, AtEnter, AtRoom, AtPick
  <2>3. Waiting' = Waiting /\ Foremost' = Foremost  BY <2>1 DEF Waiting, Foremost
  <2>4. AtHandle(c)' /\ AtAfter(c)' /\ AtFinish(c)'
    BY <1>1, <2>1, <2>3 DEF Knows, AtHandle, AtAfter, AtFinish, IpiTask, Chosen
  <2>5. AtPublish(c)'  BY <1>1, <2>1 DEF Knows, AtPublish
  <2>6. Reading(c)' <=> Reading(c)  BY <1>1, <2>1 DEF Reading, IpiTask
  <2>7. AtScan(c)' /\ AtRequest(c)' /\ AtInfo(c)'
    BY <1>1, <2>1, <2>6 DEF Knows, AtScan, AtRequest, AtInfo, NewerThan
  <2>8. QED BY <2>2, <2>4, <2>5, <2>7 DEF Knows
<1>6. QED BY <1>2, <1>3, <1>4, <1>5 DEF AsyncInv

\* Every step with all VMs on one core keeps the invariant.
LEMMA SharedStep ==
  ASSUME AsyncInv, Shared!Next
  PROVE  AsyncInv'
<1>1. ASSUME NEW c \in Contexts, Shared!Step(c) PROVE AsyncInv'
  BY <1>1, EnterStep, PickStep, HandleStep, PollIpiStep, PollIoStep, AfterStep, FinishIpiStep,
     FinishIoStep, PublishStep, ScanStep, SkipBadStep, AddIoTaskStep, PushInfoStep, ScanDoneStep
     DEF Shared!Step
<1>2. ASSUME NEW c \in Contexts, Shared!TakeIpi(c) PROVE AsyncInv'
  BY <1>2, TakeIpiStep
<1>3. ASSUME NEW v \in Guests, Shared!Submit(v) \/ Shared!AddIpiTask(v) \/ Shared!WaitRoom(v)
      PROVE  AsyncInv'
  BY <1>3, SubmitStep, AddIpiStep, WaitRoomStep
<1>4. ASSUME NEW t, Shared!Complete(t) PROVE AsyncInv'
  BY <1>4, CompleteStep
<1>5. Shared!Contexts = Contexts /\ Shared!VMs = Guests
  BY DEF Shared!Contexts, Contexts, Shared!VMs, Guests
<1>6. QED BY <1>1, <1>2, <1>3, <1>4, <1>5 DEF Shared!Next

\* Every step of every setting keeps the invariant.
LEMMA AsyncStep ==
  ASSUME AsyncInv, [Next]_vars
  PROVE  AsyncInv'
<1>1. CASE Serial!Next  BY <1>1, SerialIsShared, SharedStep
<1>2. CASE Shared!Next  BY <1>2, SharedStep
<1>3. CASE UNCHANGED asyncVars  BY <1>3, AsyncUnchanged
<1>4. QED BY <1>1, <1>2, <1>3 DEF Next, vars

\* What the invariant says of the assertions, the used ring and the lists.
LEMMA AsyncImplies ==
  ASSUME AsyncInv
  PROVE  NoPanic /\ NoFalseCompletion
<1>1. NoPanic
  BY DEF NoPanic, Serial!NoPanic, Serial!Contexts, Contexts, AsyncInv, ControlTypes, Labels
<1>2. Globals  BY DEF AsyncInv
<1>3. Shared!VMs = Guests  BY DEF Shared!VMs, Guests
<1>4. \A v \in Guests : DOMAIN used[v] = 1 .. Len(used[v])
  BY <1>2, LenProperties DEF Globals, DataTypes
<1>5. Shared!NoFalseCompletion
  BY <1>2, <1>3, <1>4 DEF Shared!NoFalseCompletion, Globals, Performed, Shared!Io
<1>6. Shared!InOrder
  BY <1>2, <1>3, <1>4 DEF Shared!InOrder, Globals, Ordered
<1>7. Shared!OneAtATime
  <2>1. \A t \in svc : t = Shared!front(ioList)  BY <1>2, FrontIs DEF Globals, WithService
  <2>2. QED BY <2>1 DEF Shared!OneAtATime
<1>8. Shared!InfoMatchesTasks
  <2>1. ASSUME \A c \in Contexts : pc[c] \in {"guest", "kick"}
        PROVE  \A v \in Guests : info[v] = Issued(ioList.map[v])
    BY <2>1 DEF AsyncInv, Recorded, Changing
  <2>2. QED BY <1>3, <2>1
            DEF Shared!InfoMatchesTasks, Shared!InGuest, Shared!Contexts, Contexts, Issued
<1>9. QED BY <1>1, <1>5, <1>6, <1>7, <1>8 DEF NoFalseCompletion

\* No assertion of async_task.rs fails: the executor, the report of the service VM and
\* finish_async_task find the task they take for granted, and update_used_info its
\* record, for any number of guest VMs and requests.
THEOREM NoPanicHolds == Spec => []NoPanic
<1>1. Init => AsyncInv  BY AsyncStart DEF Init
<1>2. AsyncInv /\ [Next]_vars => AsyncInv'  BY AsyncStep
<1>3. AsyncInv => NoPanic  BY AsyncImplies
<1>4. QED BY <1>1, <1>2, <1>3, PTL DEF Spec

\* What a guest finds in its used ring was performed, and in the order issued, though
\* the service VM reports without naming the request: it has one at a time, the one at
\* the front.  For any number of guest VMs and requests.
THEOREM NoFalseCompletionHolds == Spec => []NoFalseCompletion
<1>1. Init => AsyncInv  BY AsyncStart DEF Init
<1>2. AsyncInv /\ [Next]_vars => AsyncInv'  BY AsyncStep
<1>3. AsyncInv => NoFalseCompletion  BY AsyncImplies
<1>4. QED BY <1>1, <1>2, <1>3, PTL DEF Spec
=============================================================================

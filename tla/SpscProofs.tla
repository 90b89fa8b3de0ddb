----------------------------- MODULE SpscProofs -----------------------------
(***************************************************************************)
(* Proofs about Spsc, for every storage length N > 0, every set of         *)
(* elements and every choice of the preempting endpoint.                   *)
(***************************************************************************)
EXTENDS Spsc, SequenceTheorems, TLAPS

\* The indices stay inside the storage.
IndexInv == head \in Slots /\ tail \in Slots

\* An Entry stays valid: its h_next is the successor of head and the popper
\* has not let tail catch up with it. Likewise for a pop in progress.
PusherInv ==
    ppc \in {"entry", "written"} => hNext = NextIndex(head) /\ hNext # tail
PopperInv ==
    /\ cpc \in {"found", "read"} => tNext = NextIndex(tail) /\ head # tail
    /\ cpc = "read" => val = <<storage[tail]>>

\* The endpoints borrow the queue: none is active once it is dropped.
BorrowInv == ~alive => ppc = "idle" /\ cpc = "idle"

IndInv == TypeOK /\ IndexInv /\ PusherInv /\ PopperInv /\ BorrowInv /\ Ownership

\* Slot i lies between t and h, going around.
Between(t, h, i) ==
    IF t <= h THEN t <= i /\ i < h ELSE t <= i \/ i < h

\* next_index stays in the storage and moves.
LEMMA NextIndexInSlots ==
  ASSUME N > 0, NEW i \in Slots
  PROVE  NextIndex(i) \in Slots
BY SpscAssumption DEF NextIndex, Slots

\* SlotsFrom(t, h) are the slots between t and h.
LEMMA SlotsFromBetween ==
  ASSUME N > 0, NEW t \in Slots, NEW h \in Slots
  PROVE  SlotsFrom(t, h) = {i \in Slots : Between(t, h, i)}
<1> USE SpscAssumption DEF Slots
<1>1. ASSUME NEW i \in SlotsFrom(t, h) PROVE i \in Slots /\ Between(t, h, i)
  BY <1>1 DEF SlotsFrom, SlotAt, Distance, Between
<1>2. ASSUME NEW i \in Slots, Between(t, h, i) PROVE i \in SlotsFrom(t, h)
  <2> DEFINE k == IF t <= i THEN i - t ELSE i + N - t
  <2>1. k \in 0 .. Distance(t, h) - 1
    BY <1>2 DEF Distance, Between
  <2>2. SlotAt(t, k) = i
    BY <1>2 DEF SlotAt, Between
  <2>3. QED BY <2>1, <2>2 DEF SlotsFrom
<1>3. QED BY <1>1, <1>2

LEMMA InitInv == ASSUME N > 0, Init PROVE IndInv
<1> USE SpscAssumption DEF Init
<1>1. IndexInv BY DEF IndexInv, Slots
<1>2. LiveSlots = {} BY DEF LiveSlots, SlotsFrom, Distance
<1>3. TypeOK BY DEF TypeOK, Slots, Sides
<1>4. Ownership BY <1>2 DEF Ownership
<1>5. QED
  BY <1>1, <1>3, <1>4 DEF IndInv, PusherInv, PopperInv, BorrowInv

LEMMA NextInv == ASSUME N > 0, IndInv, [Next]_vars PROVE IndInv'
<1> USE SpscAssumption
<1>a. IndexInv /\ TypeOK /\ PusherInv /\ PopperInv /\ BorrowInv /\ Ownership
  BY DEF IndInv
<1>b. LiveSlots = {i \in Slots : Between(tail, head, i)}
  BY <1>a, SlotsFromBetween DEF LiveSlots, IndexInv
<1>c. /\ NextIndex(head) \in Slots /\ NextIndex(tail) \in Slots
  BY <1>a, NextIndexInSlots DEF IndexInv
\* Steps that leave the indices, the storage and the owned slots alone.
<1>d. ASSUME UNCHANGED <<head, tail>>
      PROVE  LiveSlots' = LiveSlots /\ IndexInv'
  BY <1>d, <1>a DEF LiveSlots, IndexInv
<1> DEFINE Quiet == UNCHANGED mem
<1>e. ASSUME Quiet, TypeOK', PusherInv', PopperInv', BorrowInv',
             ppc # "written", ppc' # "written", (cpc = "read") = (cpc' = "read")
      PROVE  IndInv'
  <2>1. LiveSlots' = LiveSlots /\ IndexInv'  BY <1>e, <1>d DEF mem
  <2>2. Ownership' BY <1>a, <1>e, <2>1 DEF Ownership, mem
  <2>3. QED BY <1>e, <2>1, <2>2 DEF IndInv
<1>f. ASSUME Quiet, TypeOK', PusherInv', PopperInv', BorrowInv',
             (ppc = "written") = (ppc' = "written"), cpc # "read", cpc' # "read"
      PROVE  IndInv'
  <2>1. LiveSlots' = LiveSlots /\ IndexInv'  BY <1>f, <1>d DEF mem
  <2>2. Ownership' BY <1>a, <1>f, <2>1 DEF Ownership, mem
  <2>3. QED BY <1>f, <2>1, <2>2 DEF IndInv
<1>1. CASE PusherTryReserve \/ PusherReserve
  <2>1. ppc = "idle" /\ UNCHANGED <<mem, cvars, notifyVars>> /\ alive
        /\ \/ ppc' = "entry" /\ hNext' = NextIndex(head) /\ NextIndex(head) # tail
           \/ ppc' \in {"idle", "subscribe"} /\ UNCHANGED hNext
    BY <1>1 DEF PusherTryReserve, PusherReserve, TryReserve, HasRoom, CanStep
  <2>3. TypeOK' BY <2>1, <1>a, <1>c DEF TypeOK, mem, cvars, notifyVars, Slots
  <2>4. PusherInv' /\ PopperInv' /\ BorrowInv'
    BY <2>1, <1>a DEF PusherInv, PopperInv, BorrowInv, mem, cvars, NextIndex
  <2>2. QED BY <1>e, <2>1, <2>3, <2>4 DEF cvars
<1>2. CASE PusherSubscribe
  <2>1. TypeOK' /\ PusherInv' /\ PopperInv' /\ BorrowInv'
    BY <1>2, <1>a DEF PusherSubscribe, Subscribe,
       TypeOK, PusherInv, PopperInv, BorrowInv, mem, cvars, Sides, Slots, CanStep, NextIndex
  <2>2. QED BY <1>2, <1>e, <2>1 DEF PusherSubscribe, cvars
<1>3. CASE PusherRepoll
  <2>1. TypeOK' /\ PusherInv' /\ PopperInv' /\ BorrowInv'
    BY <1>3, <1>a, <1>c DEF PusherRepoll, TryReserve, HasRoom,
       TypeOK, PusherInv, PopperInv, BorrowInv, mem, cvars, Slots, CanStep, IndexInv, NextIndex
  <2>2. QED BY <1>3, <1>e, <2>1 DEF PusherRepoll, TryReserve, cvars
<1>4. CASE PusherCancel
  <2>1. TypeOK' /\ PusherInv' /\ PopperInv' /\ BorrowInv'
    BY <1>4, <1>a DEF PusherCancel,
       TypeOK, PusherInv, PopperInv, BorrowInv, mem, cvars, notifyVars, Slots, CanStep, NextIndex
  <2>2. QED BY <1>4, <1>e, <2>1 DEF PusherCancel, cvars
<1>5. CASE \E v \in Values : EntryWrite(v)
  <2> PICK v \in Values : EntryWrite(v)  BY <1>5
  <2>1. TypeOK' /\ PusherInv' /\ PopperInv' /\ BorrowInv' /\ IndexInv'
    BY <1>a DEF EntryWrite,
       TypeOK, PusherInv, PopperInv, BorrowInv, IndexInv, cvars, notifyVars, Slots, CanStep, NextIndex
  <2>2. LiveSlots' = LiveSlots  BY <1>d DEF EntryWrite
  <2>3. cpc = "read" => head # tail  BY <1>a DEF PopperInv
  <2>4. Ownership'
    BY <1>a, <2>2, <2>3 DEF Ownership, EntryWrite, cvars, CanStep
  <2>5. QED BY <2>1, <2>4 DEF IndInv
<1>6. CASE EntryStoreHead
  <2>1. head' = NextIndex(head) /\ head' # tail /\ tail' = tail
    BY <1>6, <1>a DEF EntryStoreHead, PusherInv
  <2>2. IndexInv' BY <2>1, <1>a, <1>c DEF IndexInv, Slots
  <2>3. LiveSlots' = {i \in Slots : Between(tail', head', i)}
    BY <2>2, SlotsFromBetween DEF IndexInv, LiveSlots
  <2>4. \A i \in Slots : Between(tail', head', i) <=> Between(tail, head, i) \/ i = head
    BY <2>1, <1>a DEF Between, NextIndex, IndexInv, Slots
  <2>5. LiveSlots' = LiveSlots \cup {head}
    BY <2>3, <2>4, <1>b, <1>a DEF IndexInv
  <2>6. head' # tail BY <2>1
  <2>7. TypeOK' /\ PusherInv' /\ PopperInv' /\ BorrowInv'
    BY <1>6, <1>a, <2>1, <2>2 DEF EntryStoreHead,
       TypeOK, PusherInv, PopperInv, BorrowInv, IndexInv, cvars, notifyVars, Slots, CanStep, NextIndex
  <2>8. Ownership'
    BY <1>6, <1>a, <2>5 DEF Ownership, EntryStoreHead, cvars, CanStep
  <2>9. QED BY <2>2, <2>7, <2>8 DEF IndInv
<1>7. CASE EntryNotify
  <2>1. TypeOK' /\ PusherInv' /\ PopperInv' /\ BorrowInv'
    BY <1>7, <1>a DEF EntryNotify, Notify,
       TypeOK, PusherInv, PopperInv, BorrowInv, mem, cvars, Slots, Sides, CanStep, NextIndex
  <2>2. QED BY <1>7, <1>e, <2>1 DEF EntryNotify, cvars
<1>8. CASE PopperTryPop \/ PopperPop
  <2>1. cpc = "idle" /\ UNCHANGED <<mem, pvars, val, notifyVars>> /\ alive
        /\ \/ cpc' = "found" /\ tNext' = NextIndex(tail) /\ head # tail
           \/ cpc' \in {"idle", "subscribe"} /\ UNCHANGED tNext
    BY <1>8 DEF PopperTryPop, PopperPop, TryPop, CanStep
  <2>2. TypeOK' BY <2>1, <1>a, <1>c DEF TypeOK, mem, pvars, notifyVars, Slots
  <2>3. PusherInv' /\ PopperInv' /\ BorrowInv'
    BY <2>1, <1>a DEF PusherInv, PopperInv, BorrowInv, mem, pvars, NextIndex
  <2>4. QED BY <1>f, <2>1, <2>2, <2>3 DEF pvars
<1>9. CASE PopperSubscribe
  <2>1. TypeOK' /\ PusherInv' /\ PopperInv' /\ BorrowInv'
    BY <1>9, <1>a DEF PopperSubscribe, Subscribe,
       TypeOK, PusherInv, PopperInv, BorrowInv, mem, pvars, Sides, Slots, CanStep, NextIndex
  <2>2. QED BY <1>9, <1>f, <2>1 DEF PopperSubscribe, pvars
<1>10. CASE PopperRepoll
  <2>1. TypeOK' /\ PusherInv' /\ PopperInv' /\ BorrowInv'
    BY <1>10, <1>a, <1>c DEF PopperRepoll, TryPop,
       TypeOK, PusherInv, PopperInv, BorrowInv, mem, pvars, Slots, CanStep, NextIndex
  <2>2. QED BY <1>10, <1>f, <2>1 DEF PopperRepoll, TryPop, pvars
<1>11. CASE PopperCancel
  <2>1. TypeOK' /\ PusherInv' /\ PopperInv' /\ BorrowInv'
    BY <1>11, <1>a DEF PopperCancel,
       TypeOK, PusherInv, PopperInv, BorrowInv, mem, pvars, notifyVars, Slots, CanStep, NextIndex
  <2>2. QED BY <1>11, <1>f, <2>1 DEF PopperCancel, pvars
<1>12. CASE PopRead
  <2>1. TypeOK' /\ PusherInv' /\ PopperInv' /\ BorrowInv' /\ IndexInv'
    BY <1>12, <1>a DEF PopRead,
       TypeOK, PusherInv, PopperInv, BorrowInv, IndexInv, pvars, notifyVars, Slots, CanStep, NextIndex
  <2>2. LiveSlots' = LiveSlots  BY <1>12, <1>d DEF PopRead
  <2>3. Ownership'
    BY <1>12, <1>a, <2>2 DEF Ownership, PopRead, pvars, CanStep
  <2>4. QED BY <2>1, <2>3 DEF IndInv
<1>13. CASE PopStoreTail
  <2>1. tail' = NextIndex(tail) /\ tail # head /\ head' = head
    BY <1>13, <1>a DEF PopStoreTail, AdvanceTail, PopperInv
  <2>2. IndexInv' BY <2>1, <1>a, <1>c DEF IndexInv, Slots
  <2>3. LiveSlots' = {i \in Slots : Between(tail', head', i)}
    BY <2>2, SlotsFromBetween DEF IndexInv, LiveSlots
  <2>4. \A i \in Slots : Between(tail', head', i) <=> Between(tail, head, i) /\ i # tail
    BY <2>1, <1>a DEF Between, NextIndex, IndexInv, Slots
  <2>5. LiveSlots' = LiveSlots \ {tail}
    BY <2>3, <2>4, <1>b, <1>a DEF IndexInv
  <2>6. ppc \in {"entry", "written"} => hNext # tail'
    BY <2>1, <1>a DEF PusherInv, NextIndex, IndexInv, Slots
  <2>7. TypeOK' /\ PusherInv' /\ PopperInv' /\ BorrowInv'
    BY <1>13, <1>a, <2>1, <2>2, <2>6 DEF PopStoreTail,
       TypeOK, PusherInv, PopperInv, BorrowInv, IndexInv, pvars, notifyVars, Slots, CanStep, NextIndex
  <2>8. Ownership'
    BY <1>13, <1>a, <2>5, <2>1 DEF Ownership, PopStoreTail, pvars, CanStep
  <2>9. QED BY <2>2, <2>7, <2>8 DEF IndInv
<1>14. CASE PopNotify
  <2>1. TypeOK' /\ PusherInv' /\ PopperInv' /\ BorrowInv'
    BY <1>14, <1>a DEF PopNotify, Notify,
       TypeOK, PusherInv, PopperInv, BorrowInv, mem, pvars, Slots, Sides, CanStep, NextIndex
  <2>2. QED BY <1>14, <1>f, <2>1 DEF PopNotify, pvars
<1>15. CASE \E s \in Sides : PollElsewhere(s)
  <2>1. TypeOK' /\ PusherInv' /\ PopperInv' /\ BorrowInv' /\ IndexInv'
    BY <1>15, <1>a DEF PollElsewhere, TypeOK, PusherInv, PopperInv, BorrowInv,
       IndexInv, mem, pvars, cvars, Sides, Slots, NextIndex
  <2>2. LiveSlots' = LiveSlots  BY <1>15, <1>d DEF PollElsewhere, mem
  <2>3. Ownership'
    BY <1>15, <1>a, <2>2 DEF Ownership, PollElsewhere, mem, pvars, cvars
  <2>4. QED BY <2>1, <2>3 DEF IndInv
<1>16. CASE QueueDrop
  <2>1. TypeOK' /\ PusherInv' /\ PopperInv' /\ BorrowInv' /\ IndexInv'
    BY <1>16, <1>a DEF QueueDrop, DropElements, TypeOK, PusherInv, PopperInv, BorrowInv,
       IndexInv, pvars, cvars, notifyVars, Sides, Slots, NextIndex
  <2>2. owned = LiveSlots  BY <1>16, <1>a DEF Ownership, QueueDrop
  <2>3. Ownership'
    BY <1>16, <2>2 DEF Ownership, QueueDrop, DropElements, pvars, cvars
  <2>4. QED BY <2>1, <2>3 DEF IndInv
<1>17. CASE QueueNew
  <2>1. TypeOK' /\ PusherInv' /\ PopperInv' /\ BorrowInv' /\ IndexInv'
    BY <1>17, <1>a DEF QueueNew, TypeOK, PusherInv, PopperInv, BorrowInv,
       IndexInv, pvars, cvars, Sides, Slots, NextIndex
  <2>2. LiveSlots' = {}
    BY <1>17 DEF QueueNew, LiveSlots, SlotsFrom, Distance
  <2>3. Ownership'
    BY <1>17, <1>a, <2>2 DEF Ownership, QueueNew, pvars, cvars, BorrowInv
  <2>4. QED BY <2>1, <2>3 DEF IndInv
<1>18. CASE UNCHANGED vars
  <2>1. TypeOK' /\ PusherInv' /\ PopperInv' /\ BorrowInv' /\ IndexInv'
    BY <1>18, <1>a DEF vars, TypeOK, PusherInv, PopperInv, BorrowInv,
       IndexInv, mem, pvars, cvars, notifyVars, Sides, Slots, NextIndex
  <2>2. LiveSlots' = LiveSlots  BY <1>18, <1>d DEF vars, mem
  <2>3. Ownership'
    BY <1>18, <1>a, <2>2 DEF Ownership, vars, mem, pvars, cvars
  <2>4. QED BY <2>1, <2>3 DEF IndInv
<1>19. QED
  BY <1>1, <1>2, <1>3, <1>4, <1>5, <1>6, <1>7, <1>8, <1>9, <1>10, <1>11, <1>12,
     <1>13, <1>14, <1>15, <1>16, <1>17, <1>18 DEF Next, PusherStep, PopperStep

\* The inductive invariant holds in every reachable state.
THEOREM SpscIndInv == ASSUME N > 0 PROVE Spec => []IndInv
<1>1. Init => IndInv BY InitInv
<1>2. IndInv /\ [Next]_vars => IndInv' BY NextInv
<1>3. QED BY <1>1, <1>2, PTL DEF Spec

\* The pusher and the popper never use one slot at the same time, no push
\* overwrites an element, no pop reads an empty slot, and the slot handed out
\* by try_reserve lies inside the storage.
THEOREM SpscSafe ==
  ASSUME N > 0
  PROVE  Spec => [](TypeOK /\ NoAliasing /\ Ownership /\ ReservedSlotInRange)
<1>1. IndInv => TypeOK /\ NoAliasing /\ Ownership /\ ReservedSlotInRange
  <2> SUFFICES ASSUME IndInv
               PROVE  TypeOK /\ NoAliasing /\ Ownership /\ ReservedSlotInRange
    OBVIOUS
  <2> USE SpscAssumption DEF IndInv
  <2>1. LiveSlots = {i \in Slots : Between(tail, head, i)}
    BY SlotsFromBetween DEF LiveSlots, IndexInv
  <2>2. head \notin LiveSlots
    BY <2>1 DEF Between, IndexInv, Slots
  <2>3. head # tail => tail \in LiveSlots
    BY <2>1 DEF Between, IndexInv, Slots
  <2>4. NoAliasing
    BY <2>2, <2>3 DEF NoAliasing, Ownership, PopperInv, BorrowInv
  <2>5. QED BY <2>4 DEF ReservedSlotInRange, IndexInv
<1>2. QED BY <1>1, SpscIndInv, PTL

-----------------------------------------------------------------------------
(* Refinement: under Contents the queue is a BoundedFifo of N - 1 elements. *)

\* The new element becomes the last one when head is stored.
LEMMA PushAppends ==
  ASSUME N > 0, IndInv, EntryStoreHead
  PROVE  /\ Len(Contents) < N - 1
         /\ storage[head] \in Values
         /\ Contents' = Append(Contents, storage[head])
<1> USE SpscAssumption DEF IndInv, IndexInv, Slots
<1>1. /\ head' = NextIndex(head) /\ NextIndex(head) # tail
      /\ tail' = tail /\ storage' = storage /\ alive /\ alive'
  BY DEF EntryStoreHead, PusherInv, CanStep
<1>2. Count \in 0 .. N - 2 /\ Count' = Count + 1
  BY <1>1 DEF Count, Distance, NextIndex
<1>3. SlotAt(tail, Count) = head
  BY DEF SlotAt, Count, Distance
<1>4. Contents = [k \in 1 .. Count |-> storage[SlotAt(tail, k - 1)]]
  BY <1>1 DEF Contents
<1>5. Contents' = [k \in 1 .. Count + 1 |-> storage[SlotAt(tail, k - 1)]]
  BY <1>1, <1>2 DEF Contents
<1>6. storage[head] \in Values  BY DEF TypeOK
<1>7. \A k \in 1 .. Count : storage[SlotAt(tail, k - 1)] \in Values
  BY <1>2 DEF TypeOK, SlotAt
<1>8. Contents \in Seq(Values) /\ Len(Contents) = Count
  BY <1>2, <1>4, <1>7
<1>9. Append(Contents, storage[head])
        = [k \in 1 .. Count + 1 |-> IF k <= Count THEN Contents[k] ELSE storage[head]]
  BY <1>2, <1>8
<1>10. \A k \in 1 .. Count + 1 :
         (IF k <= Count THEN Contents[k] ELSE storage[head]) = storage[SlotAt(tail, k - 1)]
  BY <1>2, <1>3, <1>4
<1>11. QED BY <1>2, <1>5, <1>6, <1>8, <1>9, <1>10

\* The oldest element leaves, and it is the one returned, when tail is stored.
LEMMA PopTakesHead ==
  ASSUME N > 0, IndInv, PopStoreTail
  PROVE  /\ Contents # <<>>
         /\ out' = <<Head(Contents)>>
         /\ Contents' = Tail(Contents)
<1> USE SpscAssumption DEF IndInv, IndexInv, Slots
<1>1. /\ tail' = NextIndex(tail) /\ head # tail
      /\ head' = head /\ storage' = storage /\ alive /\ alive'
      /\ out' = <<storage[tail]>>
  BY DEF PopStoreTail, AdvanceTail, PopperInv, CanStep
<1>2. Count \in 1 .. N - 1 /\ Count' = Count - 1
  BY <1>1 DEF Count, Distance, NextIndex
<1>3. Contents = [k \in 1 .. Count |-> storage[SlotAt(tail, k - 1)]]
  BY <1>1 DEF Contents
<1>4. Contents' = [k \in 1 .. Count - 1 |-> storage[SlotAt(tail', k - 1)]]
  BY <1>1, <1>2 DEF Contents
<1>5. \A k \in 1 .. Count - 1 : SlotAt(tail', k - 1) = SlotAt(tail, k)
  BY <1>1, <1>2 DEF SlotAt, NextIndex
<1>6. \A k \in 1 .. Count : storage[SlotAt(tail, k - 1)] \in Values
  BY <1>2 DEF TypeOK, SlotAt
<1>7. Contents \in Seq(Values) /\ Len(Contents) = Count /\ Contents # <<>>
  BY <1>2, <1>3, <1>6
<1>8. Tail(Contents) = [k \in 1 .. Count - 1 |-> Contents[k + 1]]
  <2>1. /\ Tail(Contents) \in Seq(Values) /\ Len(Tail(Contents)) = Count - 1
        /\ \A k \in 1 .. Count - 1 : Tail(Contents)[k] = Contents[k + 1]
    BY <1>7, HeadTailProperties
  <2>2. Tail(Contents) \in [1 .. Count - 1 -> Values]
    BY <2>1, LenProperties
  <2>3. QED BY <2>1, <2>2, Zenon
<1>9. \A k \in 1 .. Count - 1 : Contents[k + 1] = storage[SlotAt(tail', k - 1)]
  BY <1>2, <1>3, <1>5
<1>10. Head(Contents) = storage[tail]
  BY <1>2, <1>3, <1>7 DEF SlotAt
<1>11. QED BY <1>1, <1>4, <1>7, <1>8, <1>9, <1>10

\* Writing the reserved slot does not disturb what the queue holds.
LEMMA WriteKeepsContents ==
  ASSUME N > 0, IndInv, NEW v \in Values, EntryWrite(v)
  PROVE  Contents' = Contents
<1> USE SpscAssumption DEF IndInv, IndexInv, Slots
<1>1. /\ head' = head /\ tail' = tail /\ alive' = alive
      /\ storage' = [storage EXCEPT ![head] = v]
  BY DEF EntryWrite
<1>2. Count' = Count /\ Count \in 0 .. N - 1
  BY <1>1 DEF Count, Distance
<1>3. \A k \in 1 .. Count : SlotAt(tail, k - 1) # head /\ SlotAt(tail, k - 1) \in Slots
  BY <1>2 DEF SlotAt, Count, Distance
<1>4. \A k \in 1 .. Count : storage'[SlotAt(tail, k - 1)] = storage[SlotAt(tail, k - 1)]
  BY <1>1, <1>3 DEF TypeOK
<1>5. QED BY <1>1, <1>2, <1>4 DEF Contents

\* Every step is a step of the FIFO or leaves it alone.
LEMMA StepRefines ==
  ASSUME N > 0, IndInv, [Next]_vars
  PROVE  [Fifo!FifoNext]_(Fifo!fifoVars)
<1> USE DEF Fifo!FifoNext, Fifo!fifoVars
<1>1. CASE EntryStoreHead
  <2>1. Fifo!FifoPush(storage[head])
    BY <1>1, PushAppends DEF Fifo!FifoPush, EntryStoreHead
  <2>2. QED BY <1>1, <2>1, PushAppends
<1>2. CASE PopStoreTail
  BY <1>2, PopTakesHead DEF Fifo!FifoPop
<1>3. CASE \E v \in Values : EntryWrite(v)
  BY <1>3, WriteKeepsContents DEF EntryWrite
<1>4. CASE QueueDrop
  <2>1. Contents' = <<>> /\ out' = out  BY <1>4 DEF QueueDrop, Contents
  <2>2. QED BY <2>1 DEF Fifo!FifoDrop
<1>5. CASE QueueNew
  <2>1. Contents = <<>> /\ out' = out  BY <1>5 DEF QueueNew, Contents
  <2>2. Count' = 0  BY <1>5 DEF QueueNew, Count, Distance
  <2>3. Contents' = <<>>  BY <2>2, <1>5 DEF QueueNew, Contents
  <2>4. QED BY <2>1, <2>3
<1>6. ASSUME UNCHANGED mem PROVE UNCHANGED <<Contents, out>>
  BY <1>6 DEF mem, Contents, Count
<1>7. CASE PopRead
  BY <1>7 DEF PopRead, Contents, Count
<1>8. CASE UNCHANGED mem
  BY <1>6, <1>8
<1>9. QED
  BY <1>1, <1>2, <1>3, <1>4, <1>5, <1>7, <1>8
  DEF Next, PusherStep, PopperStep, PusherTryReserve, PusherReserve, PusherCancel,
      PusherSubscribe, PusherRepoll, EntryNotify, PopperTryPop, PopperPop, PopperCancel,
      PopperSubscribe, PopperRepoll, PopNotify, PollElsewhere, vars

\* The lock-free queue implements a FIFO of N - 1 elements.
THEOREM SpscIsFifo == ASSUME N > 0 PROVE Spec => FifoRefinement
<1>1. Init => Fifo!FifoInit
  BY SpscAssumption DEF Init, Fifo!FifoInit, Contents, Count, Distance
<1>2. IndInv /\ [Next]_vars => [Fifo!FifoNext]_(Fifo!fifoVars)
  BY StepRefines
<1>3. QED
  BY <1>1, <1>2, SpscIndInv, PTL DEF Spec, FifoRefinement, Fifo!FifoSpec
=============================================================================

-------------------------- MODULE HypervisorProofs --------------------------
(***************************************************************************)
(* What the runs of the hypervisor check on small instances, for every     *)
(* value of the constants.                                                 *)
(*   - A core: its queue, frame and vCPU states stay consistent whatever   *)
(*     messages come in which order (CoreConsistent, OrderedNoPanic).      *)
(*   - The locks of the asynchronous tasks: an order of the locks excludes *)
(*     a circle of waiting cores (NoCircularWait).                         *)
(*   - The registers of a virtio device: the rings of an active device are *)
(*     the present driver's (RingsAsWritten).                              *)
(*   - The copy of a frame between chains of buffers: every byte to its   *)
(*     place and none left (CopyExact).                                    *)
(*   - The memory of VMs: the list of regions is a partition that agrees   *)
(*     with what VMs hold (RegionsExact).                                  *)
(*   - The tables of VMs: configurations, VM objects, blocks, interrupts   *)
(*     and master cores agree (TablesAgree, MasterCurrent), and a VM has   *)
(*     the lowest of the cores it was given (CpusAsConfigured).            *)
(* The parts are independent of each other, as the components are.         *)
(***************************************************************************)
EXTENDS MCCoreSched, TaskLocks, VirtioMmio, IovCopy, VmMemory, VmControl,
        FiniteSetTheorems, SequenceTheorems, WellFoundedInduction, TLAPS

-----------------------------------------------------------------------------
(* Operators of the scheduler.                                             *)

CoreRec == [queue: Seq(VMs), idx: Nat, active: VMs \cup {NoVM},
            vst: [VMs -> States], frame: Frames, saved: [VMs -> Frames],
            parked: [VMs -> BOOLEAN], timer: BOOLEAN,
            dead: SUBSET VMs, panic: BOOLEAN]

Distinct(q) == \A i, j \in 1 .. Len(q) : q[i] = q[j] => i = j
In(q, v) == \E i \in 1 .. Len(q) : q[i] = v

\* The queue holds each runnable vCPU once, and only the active one is Running.
QueueOK(c) ==
    /\ c \in CoreRec
    /\ Distinct(c.queue)
    /\ \A v \in VMs : In(c.queue, v) <=> c.vst[v] \in {"Ready", "Running"}
    /\ \A v \in VMs : c.vst[v] = "Running" <=> v = c.active
    /\ Len(c.queue) > 1 => c.timer
    /\ \A v \in VMs : c.saved[v].of = v

\* Between an update of the queue and the switch that follows it, the frame
\* still holds the registers of the active vCPU, if there is one.
Switchable(c) ==
    /\ QueueOK(c)
    /\ c.active # NoVM => c.frame.of = c.active

\* The invariant of a core: active_idx, the frame and the parked interrupts
\* follow the active vCPU.
CoreOK(c) ==
    /\ QueueOK(c)
    /\ IF c.active = NoVM THEN c.queue = <<>>
       ELSE c.idx < Len(c.queue) /\ c.queue[c.idx + 1] = c.active
    /\ c.frame.of = IF c.active = NoVM THEN Idle ELSE c.active
    /\ c.active \in VMs \ c.dead => ~ c.parked[c.active]

\* What schedule_to leaves behind.
LEMMA ScheduleToIs ==
  ASSUME NEW c \in CoreRec, NEW v \in VMs
  PROVE  LET r == ScheduleTo(c, v) IN
         /\ r \in CoreRec
         /\ r.queue = c.queue /\ r.idx = c.idx /\ r.active = v
         /\ r.timer = c.timer /\ r.dead = c.dead
         /\ r.vst = [u \in VMs |-> IF u = v THEN "Running"
                                   ELSE IF u = c.active THEN "Ready" ELSE c.vst[u]]
         /\ r.saved = [u \in VMs |-> IF u = c.active THEN c.frame ELSE c.saved[u]]
         /\ r.frame = IF v = c.active THEN c.frame ELSE c.saved[v]
         /\ r.parked = [u \in VMs |-> c.parked[u] /\ (u = v => v \in c.dead)]
         /\ r.panic = (c.panic \/ v \in c.dead)
<1> USE CoreSchedAssumption DEF CoreRec, States
<1> DEFINE stored == IF c.active = NoVM THEN c
                     ELSE ContextVmStore([c EXCEPT !.vst[c.active] = "Ready"])
           active == [stored EXCEPT !.active = v, !.vst[v] = "Running"]
<1>1. /\ stored \in CoreRec
      /\ stored.queue = c.queue /\ stored.idx = c.idx
      /\ stored.timer = c.timer /\ stored.dead = c.dead /\ stored.parked = c.parked
      /\ stored.panic = c.panic /\ stored.frame = c.frame
      /\ stored.vst = [u \in VMs |-> IF u = c.active THEN "Ready" ELSE c.vst[u]]
      /\ stored.saved = [u \in VMs |-> IF u = c.active THEN c.frame ELSE c.saved[u]]
  <2>1. CASE c.active = NoVM
    <3>1. \A u \in VMs : u # c.active  BY <2>1
    <3>2. c.vst = [u \in VMs |-> IF u = c.active THEN "Ready" ELSE c.vst[u]]  BY <3>1
    <3>3. c.saved = [u \in VMs |-> IF u = c.active THEN c.frame ELSE c.saved[u]]  BY <3>1
    <3>4. stored = c  BY <2>1
    <3>5. QED BY <3>2, <3>3, <3>4
  <2>2. CASE c.active # NoVM
    <3> DEFINE off == [c EXCEPT !.vst[c.active] = "Ready"]
    <3>0. c.active \in VMs  BY <2>2
    <3>1. /\ off \in CoreRec /\ off.active = c.active
          /\ off.queue = c.queue /\ off.idx = c.idx /\ off.timer = c.timer /\ off.dead = c.dead
          /\ off.parked = c.parked /\ off.panic = c.panic /\ off.frame = c.frame
          /\ off.saved = c.saved
      BY <3>0
    <3>2. off.vst = [u \in VMs |-> IF u = c.active THEN "Ready" ELSE c.vst[u]]  BY <3>0
    <3>3. stored = ContextVmStore(off)  BY <2>2
    <3> HIDE DEF off, stored
    <3>4. /\ stored \in CoreRec
          /\ stored.queue = off.queue /\ stored.idx = off.idx /\ stored.timer = off.timer
          /\ stored.dead = off.dead /\ stored.parked = off.parked
          /\ stored.panic = off.panic /\ stored.frame = off.frame /\ stored.vst = off.vst
      BY <3>0, <3>1, <3>3 DEF ContextVmStore
    <3>5. stored.saved = [u \in VMs |-> IF u = c.active THEN c.frame ELSE c.saved[u]]
      BY <3>0, <3>1, <3>3 DEF ContextVmStore
    <3>6. QED BY <3>1, <3>2, <3>4, <3>5
  <2>3. QED BY <2>1, <2>2
<1> HIDE DEF stored
<1>2. /\ active \in CoreRec
      /\ active.queue = stored.queue /\ active.idx = stored.idx /\ active.active = v
      /\ active.timer = stored.timer /\ active.dead = stored.dead
      /\ active.parked = stored.parked /\ active.panic = stored.panic
      /\ active.frame = stored.frame /\ active.saved = stored.saved
  BY <1>1
<1>3. active.vst = [u \in VMs |-> IF u = v THEN "Running"
                                  ELSE IF u = c.active THEN "Ready" ELSE c.vst[u]]
  BY <1>1
<1> HIDE DEF active
<1> DEFINE restored == ContextVmRestore(active, v)
<1>4. /\ restored \in CoreRec
      /\ restored.queue = active.queue /\ restored.idx = active.idx /\ restored.active = v
      /\ restored.timer = active.timer /\ restored.dead = active.dead
      /\ restored.panic = active.panic /\ restored.saved = active.saved
      /\ restored.vst = active.vst /\ restored.frame = active.saved[v]
  BY <1>2 DEF ContextVmRestore
<1>5. restored.parked = [u \in VMs |-> c.parked[u] /\ (u = v => v \in c.dead)]
  BY <1>1, <1>2 DEF ContextVmRestore
<1> HIDE DEF restored
<1>6. ScheduleTo(c, v) = [restored EXCEPT !.panic = c.panic \/ v \in c.dead]
  BY DEF ScheduleTo, active, stored, restored
<1>7. active.saved[v] = IF v = c.active THEN c.frame ELSE c.saved[v]  BY <1>1, <1>2
<1> DEFINE r == ScheduleTo(c, v)
<1>8. (c.panic \/ v \in c.dead) \in BOOLEAN  OBVIOUS
<1>9. /\ r \in CoreRec
      /\ r.queue = restored.queue /\ r.idx = restored.idx /\ r.active = restored.active
      /\ r.timer = restored.timer /\ r.dead = restored.dead /\ r.saved = restored.saved
      /\ r.vst = restored.vst /\ r.frame = restored.frame /\ r.parked = restored.parked
  BY <1>4, <1>6, <1>8
<1>10. r.panic = (c.panic \/ v \in c.dead)
  BY <1>4, <1>6
<1> HIDE DEF r
<1>11. QED BY <1>1, <1>2, <1>3, <1>4, <1>5, <1>7, <1>9, <1>10 DEF r

\* A switch to a queued vCPU that active_idx points at makes the core
\* consistent, and panics only if that vCPU's VM is gone.
LEMMA ScheduleToOK ==
  ASSUME NEW c, Switchable(c), c.idx < Len(c.queue), NEW v \in VMs, c.queue[c.idx + 1] = v
  PROVE  LET r == ScheduleTo(c, v) IN
         /\ CoreOK(r) /\ r.queue = c.queue /\ r.dead = c.dead
         /\ r.panic => c.panic \/ v \in c.dead
         /\ \A u \in VMs : ~In(c.queue, u) => r.vst[u] = c.vst[u]
<1> DEFINE r == ScheduleTo(c, v)
<1>0. c \in CoreRec /\ c.idx \in Nat /\ Len(c.queue) \in Nat  BY DEF Switchable, QueueOK, CoreRec
<1>1. /\ r \in CoreRec
      /\ r.queue = c.queue /\ r.idx = c.idx /\ r.active = v
      /\ r.timer = c.timer /\ r.dead = c.dead
      /\ r.vst = [u \in VMs |-> IF u = v THEN "Running"
                                ELSE IF u = c.active THEN "Ready" ELSE c.vst[u]]
      /\ r.saved = [u \in VMs |-> IF u = c.active THEN c.frame ELSE c.saved[u]]
      /\ r.frame = IF v = c.active THEN c.frame ELSE c.saved[v]
      /\ r.parked = [u \in VMs |-> c.parked[u] /\ (u = v => v \in c.dead)]
      /\ r.panic = (c.panic \/ v \in c.dead)
  BY <1>0, ScheduleToIs
<1> HIDE DEF r
<1>2. v # NoVM  BY CoreSchedAssumption
<1>3. \A u \in VMs : In(r.queue, u) <=> r.vst[u] \in {"Ready", "Running"}
  <2>1. In(c.queue, v)  BY <1>0 DEF In
  <2>2. QED BY <1>1, <2>1 DEF Switchable, QueueOK
<1>4. \A u \in VMs : r.vst[u] = "Running" <=> u = r.active
  BY <1>1 DEF Switchable, QueueOK
<1>5. \A u \in VMs : r.saved[u].of = u
  BY <1>1, CoreSchedAssumption DEF Switchable, QueueOK
<1>6. r.frame.of = v
  BY <1>1, <1>2 DEF Switchable, QueueOK
<1>7. QueueOK(r)
  BY <1>1, <1>3, <1>4, <1>5 DEF Switchable, QueueOK
<1>8. CoreOK(r)
  BY <1>1, <1>2, <1>6, <1>7 DEF CoreOK
<1>9. \A u \in VMs : ~In(c.queue, u) => r.vst[u] = c.vst[u]
  <2>1. In(c.queue, v)  BY <1>0 DEF In
  <2>2. QED BY <1>1, <2>1 DEF Switchable, QueueOK
<1>10. QED BY <1>1, <1>8, <1>9 DEF r

LEMMA Remainder == \A a \in Nat, b \in Nat \ {0} : a % b \in 0 .. b - 1
OBVIOUS

\* do_schedule leaves a consistent core, whichever vCPU next() found.
LEMMA DoScheduleOK ==
  ASSUME NEW c, Switchable(c)
  PROVE  LET r == DoSchedule(c) IN
         /\ CoreOK(r) /\ r.queue = c.queue /\ r.dead = c.dead
         /\ r.panic => c.panic \/ \E v \in c.dead : In(c.queue, v)
         /\ \A u \in VMs : ~In(c.queue, u) => r.vst[u] = c.vst[u]
<1> DEFINE n == Len(c.queue)
           Q == c.queue
<1>0. c \in CoreRec /\ c.idx \in Nat /\ n \in Nat /\ Q \in Seq(VMs)
  BY DEF Switchable, QueueOK, CoreRec
<1>1. CASE n = 0
  <2>1. Q = <<>>  BY <1>0, <1>1
  <2>2. Eligible(c) = {}  BY <1>1 DEF Eligible
  <2>3. c.active = NoVM
    <3>1. \A v \in VMs : ~In(c.queue, v)  BY <1>1 DEF In
    <3>2. QED BY <1>0, <3>1 DEF Switchable, QueueOK, CoreRec
  <2> DEFINE r == RunIdleThread(c)
  <2>4. DoSchedule(c) = r  BY <2>2 DEF DoSchedule
  <2>5. /\ r \in CoreRec /\ r.frame.of = Idle
        /\ r.queue = Q /\ r.idx = c.idx /\ r.active = c.active /\ r.timer = c.timer
        /\ r.dead = c.dead /\ r.vst = c.vst /\ r.saved = c.saved /\ r.parked = c.parked
        /\ r.panic = c.panic
    BY <1>0 DEF RunIdleThread, IdleFrame, CoreRec, Frames
  <2> HIDE DEF r
  <2>6. QueueOK(r)  BY <2>5 DEF Switchable, QueueOK
  <2>7. CoreOK(r)  BY <2>1, <2>3, <2>5, <2>6, CoreSchedAssumption DEF CoreOK
  <2>8. QED BY <2>4, <2>5, <2>7
<1>2. CASE n # 0
  <2>1. \A i \in 1 .. n : c.vst[Q[((c.idx + i) % n) + 1]] # "Invalid"
    <3> SUFFICES ASSUME NEW i \in 1 .. n PROVE c.vst[Q[((c.idx + i) % n) + 1]] # "Invalid"
      OBVIOUS
    <3> HIDE DEF n
    <3>0. c.idx + i \in Nat /\ n \in Nat \ {0}  BY <1>0, <1>2
    <3>1. ((c.idx + i) % n) + 1 \in 1 .. n
      <4>1. (c.idx + i) % n \in 0 .. n - 1  BY <3>0, Remainder
      <4> DEFINE k == (c.idx + i) % n
      <4> HIDE DEF k
      <4>2. k + 1 \in 1 .. n  BY <3>0, <4>1 DEF k
      <4>3. QED BY <4>2 DEF k
    <3>2. In(Q, Q[((c.idx + i) % n) + 1]) /\ Q[((c.idx + i) % n) + 1] \in VMs
      BY <1>0, <3>1 DEF In, n
    <3>3. QED BY <3>2 DEF Switchable, QueueOK
  <2>2. Eligible(c) = 1 .. n  BY <2>1 DEF Eligible
  <2> DEFINE i == CHOOSE k \in Eligible(c) : \A j \in Eligible(c) : k <= j
             p == (c.idx + i) % n
             d == [c EXCEPT !.idx = p]
  <2>3. i \in 1 .. n
    <3>1. 1 \in Eligible(c) /\ \A j \in Eligible(c) : 1 <= j  BY <1>0, <1>2, <2>2
    <3>2. i \in Eligible(c)  BY <3>1
    <3>3. QED BY <2>2, <3>2
  <2> HIDE DEF i
  <2>4. p \in 0 .. n - 1 /\ p \in Nat
    <3> HIDE DEF n
    <3>1. c.idx + i \in Nat /\ n \in Nat \ {0}  BY <1>0, <1>2, <2>3
    <3>2. QED BY <3>1, Remainder
  <2>5. DoSchedule(c) = ScheduleTo(d, Q[p + 1])
    <3>1. 1 \in Eligible(c)  BY <1>0, <1>2, <2>2
    <3>2. QED BY <3>1, Zenon DEF DoSchedule, i
  <2> HIDE DEF p
  <2>6. /\ d \in CoreRec /\ d.idx = p
        /\ d.queue = Q /\ d.active = c.active /\ d.timer = c.timer
        /\ d.dead = c.dead /\ d.vst = c.vst /\ d.saved = c.saved /\ d.parked = c.parked
        /\ d.panic = c.panic /\ d.frame = c.frame
    BY <1>0, <2>4 DEF CoreRec
  <2> HIDE DEF d
  <2>7. Switchable(d)  BY <2>6 DEF Switchable, QueueOK
  <2>8. Q[p + 1] \in VMs /\ In(Q, Q[p + 1])  BY <1>0, <2>4 DEF In
  <2>9. LET r == ScheduleTo(d, Q[p + 1]) IN
        /\ CoreOK(r) /\ r.queue = d.queue /\ r.dead = d.dead
        /\ r.panic => d.panic \/ Q[p + 1] \in d.dead
        /\ \A u \in VMs : ~In(d.queue, u) => r.vst[u] = d.vst[u]
    BY <2>4, <2>6, <2>7, <2>8, ScheduleToOK
  <2>10. QED BY <2>5, <2>6, <2>8, <2>9
<1>3. QED BY <1>1, <1>2

\* Removing the element at a position.
LEMMA WithoutIs ==
  ASSUME NEW q \in Seq(VMs), NEW p \in 0 .. Len(q) - 1
  PROVE  LET w == Without(q, p) IN
         /\ w \in Seq(VMs) /\ Len(w) = Len(q) - 1
         /\ \A i \in 1 .. Len(w) : w[i] = IF i <= p THEN q[i] ELSE q[i + 1]
<1> DEFINE l == SubSeq(q, 1, p)
           m == SubSeq(q, p + 2, Len(q))
<1>1. l \in Seq(VMs) /\ Len(l) = p /\ \A i \in 1 .. p : l[i] = q[i]  OBVIOUS
<1>2. m \in Seq(VMs) /\ Len(m) = Len(q) - p - 1
      /\ \A i \in 1 .. Len(q) - p - 1 : m[i] = q[i + p + 1]
  OBVIOUS
<1> HIDE DEF l, m
<1>3. Without(q, p) = l \o m  BY DEF Without, l, m
<1>4. l \o m \in Seq(VMs) /\ Len(l \o m) = Len(q) - 1
  <2>1. l \o m \in Seq(VMs) /\ Len(l \o m) = Len(l) + Len(m)
    BY <1>1, <1>2, ConcatProperties
  <2>2. Len(q) \in Nat  OBVIOUS
  <2>3. p + (Len(q) - p - 1) = Len(q) - 1  BY <2>2
  <2>4. QED BY <1>1, <1>2, <2>1, <2>3
<1>5. \A i \in 1 .. Len(q) - 1 : (l \o m)[i] = IF i <= p THEN q[i] ELSE q[i + 1]
  BY <1>1, <1>2
<1>6. QED BY <1>3, <1>4, <1>5

\* The queue without one vCPU holds the others, each once.
LEMMA WithoutHolds ==
  ASSUME NEW q \in Seq(VMs), Distinct(q), NEW p \in 0 .. Len(q) - 1
  PROVE  LET w == Without(q, p) IN
         Distinct(w) /\ \A u \in VMs : In(w, u) <=> In(q, u) /\ u # q[p + 1]
<1> DEFINE w == Without(q, p)
<1>1. /\ w \in Seq(VMs) /\ Len(w) = Len(q) - 1 /\ Len(q) \in Nat
      /\ \A i \in 1 .. Len(w) : w[i] = IF i <= p THEN q[i] ELSE q[i + 1]
  BY WithoutIs
<1> HIDE DEF w
<1>2. Distinct(w)
  <2> SUFFICES ASSUME NEW i \in 1 .. Len(w), NEW j \in 1 .. Len(w), w[i] = w[j] PROVE i = j
    BY DEF Distinct
  <2> DEFINE k(x) == IF x <= p THEN x ELSE x + 1
  <2>1. k(i) \in 1 .. Len(q) /\ k(j) \in 1 .. Len(q)  BY <1>1
  <2>2. q[k(i)] = w[i] /\ q[k(j)] = w[j]  BY <1>1
  <2>3. k(i) = k(j)  BY <2>1, <2>2 DEF Distinct
  <2>4. QED BY <1>1, <2>3
<1>3. ASSUME NEW u \in VMs, In(w, u) PROVE In(q, u) /\ u # q[p + 1]
  <2>1. PICK i \in 1 .. Len(w) : w[i] = u  BY <1>3 DEF In
  <2> DEFINE k == IF i <= p THEN i ELSE i + 1
  <2>2. k \in 1 .. Len(q) /\ q[k] = u /\ k # p + 1 /\ p + 1 \in 1 .. Len(q)  BY <1>1, <2>1
  <2> HIDE DEF k
  <2>3. QED BY <2>2 DEF In, Distinct
<1>4. ASSUME NEW u \in VMs, In(q, u), u # q[p + 1] PROVE In(w, u)
  <2>1. PICK k \in 1 .. Len(q) : q[k] = u  BY <1>4 DEF In
  <2> DEFINE i == IF k <= p THEN k ELSE k - 1
  <2>2. i \in 1 .. Len(w) /\ w[i] = u  BY <1>1, <1>4, <2>1
  <2> HIDE DEF i
  <2>3. QED BY <2>2 DEF In
<1>5. QED BY <1>2, <1>3, <1>4 DEF w

\* Appending a vCPU that is not queued.
LEMMA AppendHolds ==
  ASSUME NEW q \in Seq(VMs), Distinct(q), NEW v \in VMs, ~In(q, v)
  PROVE  LET a == Append(q, v) IN
         /\ a \in Seq(VMs) /\ Len(a) = Len(q) + 1 /\ a[Len(q) + 1] = v
         /\ \A i \in 1 .. Len(q) : a[i] = q[i]
         /\ Distinct(a) /\ \A u \in VMs : In(a, u) <=> In(q, u) \/ u = v
<1> DEFINE a == Append(q, v)
<1>1. /\ a \in Seq(VMs) /\ Len(a) = Len(q) + 1 /\ a[Len(q) + 1] = v /\ Len(q) \in Nat
      /\ \A i \in 1 .. Len(q) : a[i] = q[i]
  OBVIOUS
<1> HIDE DEF a
<1>2. Distinct(a)  BY <1>1 DEF Distinct, In
<1>3. ASSUME NEW u \in VMs PROVE In(a, u) <=> In(q, u) \/ u = v
  BY <1>1 DEF In
<1>4. QED BY <1>1, <1>2, <1>3 DEF a

\* What an operation for the vCPU of v does to the core: it stays consistent,
\* the others are queued as before, and a switch panics only into a VM that is
\* gone and still queued.
Effect(c, r, v) ==
    /\ CoreOK(r) /\ r.dead = c.dead
    /\ r.panic => c.panic \/ \E u \in c.dead : In(r.queue, u)
    /\ \A u \in VMs \ {v} : /\ In(r.queue, u) <=> In(c.queue, u)
                            /\ ~In(c.queue, u) => r.vst[u] = c.vst[u]

\* Only a queued vCPU is active.
LEMMA ActiveQueued ==
  ASSUME NEW c, CoreOK(c)
  PROVE  /\ c \in CoreRec /\ c.queue \in Seq(VMs) /\ Len(c.queue) \in Nat /\ c.idx \in Nat
         /\ \A v \in VMs : In(c.queue, v) <=> c.vst[v] \in {"Ready", "Running"}
         /\ \A v \in VMs : ~In(c.queue, v) => v # c.active
         /\ c.active = NoVM <=> c.queue = <<>>
<1>1. c \in CoreRec /\ c.queue \in Seq(VMs) /\ Len(c.queue) \in Nat /\ c.idx \in Nat
  BY DEF CoreOK, QueueOK, CoreRec
<1>2. \A v \in VMs : In(c.queue, v) <=> c.vst[v] \in {"Ready", "Running"}
  BY DEF CoreOK, QueueOK
<1>3. \A v \in VMs : ~In(c.queue, v) => v # c.active
  BY <1>2 DEF CoreOK, QueueOK
<1>4. c.active = NoVM <=> c.queue = <<>>
  BY <1>1 DEF CoreOK
<1>5. QED BY <1>1, <1>2, <1>3, <1>4

LEMMA SleepOK ==
  ASSUME NEW c, CoreOK(c), NEW v \in VMs
  PROVE  LET r == Sleep(c, v) IN
         Effect(c, r, v) /\ ~In(r.queue, v) /\ r.vst[v] = "Sleep"
<1> DEFINE Q == c.queue
           at == Positions(Q, v)
           p == CHOOSE i \in at : \A j \in at : i <= j
<1>0. c \in CoreRec /\ Q \in Seq(VMs) /\ Len(Q) \in Nat /\ c.idx \in Nat  BY ActiveQueued
<1>1. CASE ~In(Q, v)
  <2>1. at = {}
    <3>1. \A i \in 0 .. Len(Q) - 1 : i + 1 \in 1 .. Len(Q)  BY <1>0
    <3>2. QED BY <1>1, <3>1 DEF Positions, In
  <2> DEFINE s == [c EXCEPT !.vst[v] = "Sleep", !.timer = c.timer /\ Len(Q) > 1]
  <2>2. Sleep(c, v) = s  BY <2>1 DEF Sleep
  <2>3. /\ s \in CoreRec /\ s.queue = Q /\ s.idx = c.idx /\ s.active = c.active
        /\ s.frame = c.frame /\ s.saved = c.saved /\ s.parked = c.parked /\ s.dead = c.dead
        /\ s.panic = c.panic /\ s.timer = (c.timer /\ Len(Q) > 1)
    BY <1>0 DEF CoreRec, States
  <2>4. s.vst = [c.vst EXCEPT ![v] = "Sleep"]  BY <1>0 DEF CoreRec
  <2> HIDE DEF s
  <2>5. v # c.active  BY <1>1, ActiveQueued
  <2>6. \A u \in VMs : s.vst[u] = IF u = v THEN "Sleep" ELSE c.vst[u]
    BY <1>0, <2>4 DEF CoreRec
  <2>7. QueueOK(s)
    <3>1. \A u \in VMs : In(s.queue, u) <=> s.vst[u] \in {"Ready", "Running"}
      BY <1>1, <2>3, <2>6 DEF CoreOK, QueueOK
    <3>2. \A u \in VMs : s.vst[u] = "Running" <=> u = s.active
      BY <2>3, <2>5, <2>6 DEF CoreOK, QueueOK
    <3>3. Len(s.queue) > 1 => s.timer
      BY <2>3 DEF CoreOK, QueueOK
    <3>4. QED BY <2>3, <3>1, <3>2, <3>3 DEF CoreOK, QueueOK
  <2>8. CoreOK(s)  BY <2>3, <2>7 DEF CoreOK
  <2>9. QED BY <1>1, <2>2, <2>3, <2>6, <2>8 DEF Effect
<1>2. CASE In(Q, v)
  <2>1. p \in 0 .. Len(Q) - 1 /\ Q[p + 1] = v /\ at # {}
    <3>1. PICK k \in 1 .. Len(Q) : Q[k] = v  BY <1>2 DEF In
    <3>2. k - 1 \in at  BY <1>0, <3>1 DEF Positions
    <3>3. \A j \in at : j = k - 1
      <4> SUFFICES ASSUME NEW j \in at PROVE j = k - 1
        OBVIOUS
      <4>1. j + 1 \in 1 .. Len(Q) /\ Q[j + 1] = Q[k] /\ j \in Int  BY <1>0, <3>1 DEF Positions
      <4>2. j + 1 = k  BY <4>1 DEF CoreOK, QueueOK, Distinct
      <4>3. QED BY <4>1, <4>2
    <3>4. \E i \in at : \A j \in at : i <= j  BY <3>1, <3>2, <3>3
    <3>5. p \in at  BY <3>4
    <3>6. QED BY <1>0, <3>5 DEF Positions
  <2> HIDE DEF p
  <2> DEFINE w == Without(Q, p)
             removed == [c EXCEPT !.queue = w]
             moved == IF p < c.idx THEN [removed EXCEPT !.idx = c.idx - 1] ELSE removed
             off == IF p = c.idx THEN [moved EXCEPT !.active = NoVM] ELSE moved
             s == [off EXCEPT !.vst[v] = "Sleep", !.timer = off.timer /\ Len(off.queue) > 1]
             m == IF p < c.idx THEN c.idx - 1 ELSE c.idx
             a == IF p = c.idx THEN NoVM ELSE c.active
  <2>2. Sleep(c, v) = IF p = c.idx THEN DoSchedule(s) ELSE s
    BY <2>1 DEF Sleep, p
  <2>3. /\ w \in Seq(VMs) /\ Len(w) = Len(Q) - 1
        /\ \A i \in 1 .. Len(w) : w[i] = IF i <= p THEN Q[i] ELSE Q[i + 1]
        /\ Distinct(w) /\ \A u \in VMs : In(w, u) <=> In(Q, u) /\ u # v
    <3>1. Distinct(Q)  BY DEF CoreOK, QueueOK
    <3>2. QED BY <1>0, <2>1, <3>1, WithoutIs, WithoutHolds
  <2> HIDE DEF w
  <2>4. /\ removed \in CoreRec /\ removed.queue = w /\ removed.idx = c.idx
        /\ removed.active = c.active /\ removed.vst = c.vst
        /\ removed.frame = c.frame /\ removed.saved = c.saved /\ removed.parked = c.parked
        /\ removed.dead = c.dead /\ removed.panic = c.panic /\ removed.timer = c.timer
    BY <1>0, <2>3 DEF CoreRec
  <2> HIDE DEF removed
  <2>5. /\ moved \in CoreRec /\ moved.queue = w /\ moved.idx = m
        /\ moved.active = c.active /\ moved.vst = c.vst
        /\ moved.frame = c.frame /\ moved.saved = c.saved /\ moved.parked = c.parked
        /\ moved.dead = c.dead /\ moved.panic = c.panic /\ moved.timer = c.timer
    <3>1. p < c.idx => c.idx - 1 \in Nat  BY <1>0, <2>1
    <3>2. QED BY <2>4, <3>1 DEF CoreRec
  <2> HIDE DEF moved
  <2>6. /\ off \in CoreRec /\ off.queue = w /\ off.idx = m
        /\ off.active = a /\ off.vst = c.vst
        /\ off.frame = c.frame /\ off.saved = c.saved /\ off.parked = c.parked
        /\ off.dead = c.dead /\ off.panic = c.panic /\ off.timer = c.timer
    BY <2>5 DEF CoreRec
  <2> HIDE DEF off
  <2>7. /\ s \in CoreRec /\ s.queue = w /\ s.idx = m
        /\ s.active = a /\ s.vst = [c.vst EXCEPT ![v] = "Sleep"]
        /\ s.frame = c.frame /\ s.saved = c.saved /\ s.parked = c.parked
        /\ s.dead = c.dead /\ s.panic = c.panic
        /\ s.timer <=> (c.timer /\ Len(w) > 1)
    BY <2>6 DEF CoreRec, States
  <2> HIDE DEF s
  <2>8. \A u \in VMs : s.vst[u] = IF u = v THEN "Sleep" ELSE c.vst[u]
    BY <1>0, <2>7 DEF CoreRec
  <2>9. Q # <<>> /\ c.active # NoVM /\ c.idx < Len(Q) /\ Q[c.idx + 1] = c.active
    BY <1>0, <2>1 DEF CoreOK
  <2>10. v = c.active <=> p = c.idx
    <3>1. c.idx + 1 \in 1 .. Len(Q) /\ p + 1 \in 1 .. Len(Q) /\ p \in Int  BY <1>0, <2>1, <2>9
    <3>2. Q[c.idx + 1] = Q[p + 1] => c.idx = p
      BY <1>0, <3>1 DEF CoreOK, QueueOK, Distinct
    <3>3. QED BY <2>1, <2>9, <3>2
  <2>11. QueueOK(s)
    <3>1. \A u \in VMs : In(s.queue, u) <=> s.vst[u] \in {"Ready", "Running"}
      BY <2>3, <2>7, <2>8 DEF CoreOK, QueueOK
    <3>2. \A u \in VMs : s.vst[u] = "Running" <=> u = s.active
      BY <2>7, <2>8, <2>10, CoreSchedAssumption DEF CoreOK, QueueOK
    <3>3. Len(s.queue) > 1 => s.timer
      BY <1>0, <2>3, <2>7 DEF CoreOK, QueueOK
    <3>4. QED BY <2>3, <2>7, <3>1, <3>2, <3>3 DEF CoreOK, QueueOK
  <2>12. CASE p = c.idx
    <3> DEFINE r == DoSchedule(s)
    <3>1. Switchable(s)  BY <2>7, <2>11, <2>12 DEF Switchable
    <3>2. /\ CoreOK(r) /\ r.queue = w /\ r.dead = c.dead
          /\ r.panic => c.panic \/ \E u \in c.dead : In(w, u)
          /\ \A u \in VMs : ~In(w, u) => r.vst[u] = s.vst[u]
      BY <2>7, <3>1, DoScheduleOK
    <3>3. Sleep(c, v) = r  BY <2>2, <2>12
    <3> HIDE DEF r
    <3>4. ~In(r.queue, v) /\ r.vst[v] = "Sleep"  BY <2>3, <2>8, <3>2
    <3>5. Effect(c, r, v)  BY <2>3, <2>8, <3>2 DEF Effect
    <3>6. QED BY <3>3, <3>4, <3>5
  <2>13. CASE p # c.idx
    <3>1. Sleep(c, v) = s  BY <2>2, <2>13
    <3>2. m < Len(w) /\ w[m + 1] = c.active
      <4>1. m \in Nat /\ m + 1 \in 1 .. Len(w)  BY <1>0, <2>1, <2>3, <2>9, <2>13
      <4>2. w[m + 1] = Q[c.idx + 1]
        <5>1. CASE p < c.idx
          <6>1. m + 1 = c.idx /\ ~(m + 1 <= p)  BY <1>0, <2>1, <5>1
          <6>2. QED BY <2>3, <4>1, <6>1
        <5>2. CASE p > c.idx
          <6>1. m = c.idx /\ m + 1 <= p  BY <1>0, <2>1, <5>2
          <6>2. QED BY <2>3, <4>1, <6>1
        <5>3. QED BY <1>0, <2>1, <2>13, <5>1, <5>2
      <4>3. QED BY <1>0, <2>3, <2>9, <4>1, <4>2
    <3>3. CoreOK(s)
      BY <2>7, <2>9, <2>11, <2>13, <3>2 DEF CoreOK
    <3>4. ~In(s.queue, v) /\ s.vst[v] = "Sleep"  BY <2>3, <2>7, <2>8
    <3>5. Effect(c, s, v)  BY <2>3, <2>7, <2>8, <3>3 DEF Effect
    <3>6. QED BY <3>1, <3>4, <3>5
  <2>14. QED BY <2>12, <2>13
<1>3. QED BY <1>1, <1>2

\* wakeup of a vCPU that is not queued.
LEMMA WakeupOK ==
  ASSUME NEW c, CoreOK(c), NEW v \in VMs, ~In(c.queue, v)
  PROVE  LET r == Wakeup(c, v) IN Effect(c, r, v) /\ In(r.queue, v)
<1> DEFINE Q == c.queue
           q == Append(Q, v)
           s == [c EXCEPT !.vst[v] = "Ready", !.queue = q, !.timer = c.timer \/ Len(Q) > 0]
<1>0. c \in CoreRec /\ Q \in Seq(VMs) /\ Len(Q) \in Nat /\ c.idx \in Nat /\ v # c.active
  BY ActiveQueued
<1>1. /\ q \in Seq(VMs) /\ Len(q) = Len(Q) + 1 /\ q[Len(Q) + 1] = v
      /\ \A i \in 1 .. Len(Q) : q[i] = Q[i]
      /\ Distinct(q) /\ \A u \in VMs : In(q, u) <=> In(Q, u) \/ u = v
  <2>1. Distinct(Q)  BY DEF CoreOK, QueueOK
  <2>2. QED BY <1>0, <2>1, AppendHolds
<1>2. Wakeup(c, v) = IF Len(s.queue) = 1 THEN DoSchedule(s) ELSE s
  BY DEF Wakeup
<1> HIDE DEF q
<1>3. /\ s \in CoreRec /\ s.queue = q /\ s.idx = c.idx /\ s.active = c.active
      /\ s.vst = [c.vst EXCEPT ![v] = "Ready"]
      /\ s.frame = c.frame /\ s.saved = c.saved /\ s.parked = c.parked
      /\ s.dead = c.dead /\ s.panic = c.panic
      /\ s.timer <=> (c.timer \/ Len(Q) > 0)
  BY <1>0, <1>1 DEF CoreRec, States
<1> HIDE DEF s
<1>4. \A u \in VMs : s.vst[u] = IF u = v THEN "Ready" ELSE c.vst[u]
  BY <1>0, <1>3 DEF CoreRec
<1>5. QueueOK(s)
  <2>1. \A u \in VMs : In(s.queue, u) <=> s.vst[u] \in {"Ready", "Running"}
    BY <1>1, <1>3, <1>4 DEF CoreOK, QueueOK
  <2>2. \A u \in VMs : s.vst[u] = "Running" <=> u = s.active
    BY <1>0, <1>3, <1>4 DEF CoreOK, QueueOK
  <2>3. Len(s.queue) > 1 => s.timer  BY <1>0, <1>1, <1>3
  <2>4. QED BY <1>1, <1>3, <2>1, <2>2, <2>3 DEF CoreOK, QueueOK
<1>6. CASE Len(s.queue) = 1
  <2> DEFINE r == DoSchedule(s)
  <2>1. c.active = NoVM
    <3>1. Len(Q) = 0
      <4>1. Len(Q) + 1 = 1  BY <1>1, <1>3, <1>6
      <4>2. QED BY <1>0, <4>1
    <3>2. Q = <<>>  BY <1>0, <3>1
    <3>3. QED BY <3>2, ActiveQueued
  <2>2. Switchable(s)  BY <1>3, <1>5, <2>1 DEF Switchable
  <2>3. /\ CoreOK(r) /\ r.queue = q /\ r.dead = c.dead
        /\ r.panic => c.panic \/ \E u \in c.dead : In(q, u)
        /\ \A u \in VMs : ~In(q, u) => r.vst[u] = s.vst[u]
    BY <1>3, <2>2, DoScheduleOK
  <2>4. Wakeup(c, v) = r  BY <1>2, <1>6
  <2> HIDE DEF r
  <2>5. Effect(c, r, v) /\ In(r.queue, v)  BY <1>1, <1>4, <2>3 DEF Effect
  <2>6. QED BY <2>4, <2>5
<1>7. CASE Len(s.queue) # 1
  <2>1. Wakeup(c, v) = s  BY <1>2, <1>7
  <2>2. Len(Q) > 0 /\ c.active # NoVM
    <3>1. Len(Q) > 0
      <4>1. Len(Q) + 1 # 1  BY <1>1, <1>3, <1>7
      <4>2. QED BY <1>0, <4>1
    <3>2. Q # <<>>  BY <3>1
    <3>3. QED BY <3>1, <3>2, ActiveQueued
  <2>3. s.idx < Len(s.queue) /\ s.queue[s.idx + 1] = s.active
    <3>1. c.idx < Len(Q) /\ Q[c.idx + 1] = c.active /\ c.idx + 1 \in 1 .. Len(Q)
      BY <1>0, <2>2 DEF CoreOK
    <3>2. QED BY <1>0, <1>1, <1>3, <3>1
  <2>4. CoreOK(s)  BY <1>3, <1>5, <2>2, <2>3 DEF CoreOK
  <2>5. Effect(c, s, v) /\ In(s.queue, v)  BY <1>1, <1>3, <1>4, <2>4 DEF Effect
  <2>6. QED BY <2>1, <2>5
<1>8. QED BY <1>6, <1>7

\* yield_to a vCPU that is not queued, at its first run.
LEMMA YieldToOK ==
  ASSUME NEW c, CoreOK(c), NEW v \in VMs, ~In(c.queue, v)
  PROVE  LET r == YieldTo(c, v) IN Effect(c, r, v) /\ In(r.queue, v) /\ r.active = v
<1> DEFINE Q == c.queue
           q == Append(Q, v)
           s == [c EXCEPT !.queue = q, !.idx = Len(Q)]
           t == ScheduleTo(s, v)
           r == [t EXCEPT !.timer = c.timer \/ Len(Q) > 0]
<1>0. c \in CoreRec /\ Q \in Seq(VMs) /\ Len(Q) \in Nat /\ c.idx \in Nat /\ v # c.active
  BY ActiveQueued
<1>1. /\ q \in Seq(VMs) /\ Len(q) = Len(Q) + 1 /\ q[Len(Q) + 1] = v
      /\ Distinct(q) /\ \A u \in VMs : In(q, u) <=> In(Q, u) \/ u = v
  <2>1. Distinct(Q)  BY DEF CoreOK, QueueOK
  <2>2. QED BY <1>0, <2>1, AppendHolds
<1>2. YieldTo(c, v) = r  BY DEF YieldTo
<1> HIDE DEF q
<1>3. /\ s \in CoreRec /\ s.queue = q /\ s.idx = Len(Q) /\ s.active = c.active
      /\ s.vst = c.vst /\ s.frame = c.frame /\ s.saved = c.saved /\ s.parked = c.parked
      /\ s.dead = c.dead /\ s.panic = c.panic /\ s.timer = c.timer
  BY <1>0, <1>1 DEF CoreRec
<1> HIDE DEF s
<1>4. /\ t \in CoreRec
      /\ t.queue = q /\ t.idx = Len(Q) /\ t.active = v
      /\ t.timer = c.timer /\ t.dead = c.dead
      /\ t.vst = [u \in VMs |-> IF u = v THEN "Running"
                                ELSE IF u = c.active THEN "Ready" ELSE c.vst[u]]
      /\ t.saved = [u \in VMs |-> IF u = c.active THEN c.frame ELSE c.saved[u]]
      /\ t.frame = c.saved[v]
      /\ t.parked = [u \in VMs |-> c.parked[u] /\ (u = v => v \in c.dead)]
      /\ t.panic = (c.panic \/ v \in c.dead)
  BY <1>0, <1>3, ScheduleToIs
<1> HIDE DEF t
<1>5. /\ r \in CoreRec
      /\ r.queue = q /\ r.idx = Len(Q) /\ r.active = v /\ r.dead = c.dead
      /\ r.vst = t.vst /\ r.saved = t.saved /\ r.frame = t.frame /\ r.parked = t.parked
      /\ r.panic = t.panic
      /\ r.timer <=> (c.timer \/ Len(Q) > 0)
  BY <1>0, <1>4 DEF CoreRec
<1> HIDE DEF r
<1>6. \A u \in VMs : r.vst[u] = IF u = v THEN "Running"
                                ELSE IF u = c.active THEN "Ready" ELSE c.vst[u]
  BY <1>4, <1>5
<1>7. QueueOK(r)
  <2>1. \A u \in VMs : In(r.queue, u) <=> r.vst[u] \in {"Ready", "Running"}
    BY <1>1, <1>5, <1>6 DEF CoreOK, QueueOK
  <2>2. \A u \in VMs : r.vst[u] = "Running" <=> u = r.active
    BY <1>5, <1>6 DEF CoreOK, QueueOK
  <2>3. Len(r.queue) > 1 => r.timer  BY <1>0, <1>1, <1>5
  <2>4. \A u \in VMs : r.saved[u].of = u
    BY <1>4, <1>5, CoreSchedAssumption DEF CoreOK, QueueOK
  <2>5. QED BY <1>1, <1>5, <2>1, <2>2, <2>3, <2>4 DEF QueueOK
<1>8. r.frame.of = v  BY <1>4, <1>5 DEF CoreOK, QueueOK
<1>9. v \notin r.dead => ~r.parked[v]  BY <1>4, <1>5
<1>10. CoreOK(r)
  BY <1>0, <1>1, <1>5, <1>7, <1>8, <1>9, CoreSchedAssumption DEF CoreOK
<1>11. \A u \in VMs \ {v} : ~In(Q, u) => r.vst[u] = c.vst[u]
  BY <1>6, ActiveQueued
<1>12. In(r.queue, v)  BY <1>1, <1>5
<1>13. Effect(c, r, v)  BY <1>1, <1>4, <1>5, <1>10, <1>11, <1>12 DEF Effect
<1>14. QED BY <1>2, <1>5, <1>12, <1>13

\* A core that is only different in what the scheduler does not look at.
LEMMA SameScheduling ==
  ASSUME NEW c, CoreOK(c), NEW r \in CoreRec,
         r.queue = c.queue, r.idx = c.idx, r.active = c.active, r.vst = c.vst,
         r.timer = c.timer, c.dead \subseteq r.dead,
         \A u \in VMs : r.saved[u].of = u,
         r.frame.of = c.frame.of,
         r.active \in VMs \ r.dead => ~r.parked[r.active]
  PROVE  CoreOK(r)
<1>1. QueueOK(r)  BY DEF CoreOK, QueueOK
<1>2. QED BY <1>1 DEF CoreOK

LEMMA BootOK ==
  ASSUME NEW c, CoreOK(c), NEW v \in VMs, ~In(c.queue, v)
  PROVE  LET r == VcpuRun(YieldTo(c, v)) IN Effect(c, r, v) /\ In(r.queue, v)
<1> DEFINE y == YieldTo(c, v)
           r == ContextVmRestore(y, v)
<1>1. Effect(c, y, v) /\ In(y.queue, v) /\ y.active = v  BY YieldToOK
<1>2. VcpuRun(y) = r  BY <1>1 DEF VcpuRun
<1> HIDE DEF y
<1>3. y \in CoreRec  BY <1>1 DEF Effect, CoreOK, QueueOK
<1>4. /\ r \in CoreRec /\ r.queue = y.queue /\ r.idx = y.idx /\ r.active = y.active
      /\ r.vst = y.vst /\ r.timer = y.timer /\ r.dead = y.dead /\ r.panic = y.panic
      /\ r.saved = y.saved /\ r.frame = y.saved[v]
      /\ r.parked[v] <=> y.parked[v] /\ v \in y.dead
  BY <1>1, <1>3 DEF ContextVmRestore, CoreRec
<1> HIDE DEF r
<1>5. r.frame.of = y.frame.of /\ \A u \in VMs : r.saved[u].of = u
  BY <1>1, <1>4, CoreSchedAssumption DEF Effect, CoreOK, QueueOK
<1>6. CoreOK(r)
  BY <1>1, <1>4, <1>5, SameScheduling DEF Effect
<1>7. Effect(c, r, v)  BY <1>1, <1>4, <1>6 DEF Effect
<1>8. QED BY <1>1, <1>2, <1>4, <1>7 DEF y

LEMMA InjectOK ==
  ASSUME NEW c, CoreOK(c), NEW v \in VMs
  PROVE  LET r == InterruptVmInject(c, v) IN
         Effect(c, r, v) /\ (c.vst[v] = "Invalid" => r.vst[v] = "Invalid")
<1> DEFINE w == IF c.vst[v] = "Sleep" THEN Wakeup(c, v) ELSE c
           r == IF w.active = v THEN w ELSE [w EXCEPT !.parked[v] = TRUE]
<1>1. Effect(c, w, v) /\ (c.vst[v] = "Invalid" => w.vst[v] = "Invalid")
  <2>1. CASE c.vst[v] = "Sleep"
    <3>1. ~In(c.queue, v)  BY <2>1, ActiveQueued
    <3>2. QED BY <2>1, <3>1, WakeupOK
  <2>2. CASE c.vst[v] # "Sleep"
    BY <2>2 DEF Effect
  <2>3. QED BY <2>1, <2>2
<1>2. InterruptVmInject(c, v) = r  BY DEF InterruptVmInject
<1> HIDE DEF w
<1>3. w \in CoreRec  BY <1>1 DEF Effect, CoreOK, QueueOK
<1>4. /\ r \in CoreRec /\ r.queue = w.queue /\ r.idx = w.idx /\ r.active = w.active
      /\ r.vst = w.vst /\ r.timer = w.timer /\ r.dead = w.dead /\ r.panic = w.panic
      /\ r.saved = w.saved /\ r.frame = w.frame
      /\ \A u \in VMs : u = w.active => r.parked[u] = w.parked[u]
  BY <1>3 DEF CoreRec
<1> HIDE DEF r
<1>5. CoreOK(r)
  <2>1. \A u \in VMs : r.saved[u].of = u  BY <1>1, <1>4 DEF Effect, CoreOK, QueueOK
  <2>2. r.active \in VMs \ r.dead => ~r.parked[r.active]  BY <1>1, <1>4 DEF Effect, CoreOK
  <2>3. QED BY <1>1, <1>4, <2>1, <2>2, SameScheduling DEF Effect
<1>6. Effect(c, r, v)  BY <1>1, <1>4, <1>5 DEF Effect
<1>7. QED BY <1>1, <1>2, <1>4, <1>6

\* A vCPU may be given its entry state at any time.
LEMMA FreshOK ==
  ASSUME NEW c, CoreOK(c), NEW v \in VMs
  PROVE  LET r == [c EXCEPT !.saved[v] = Fresh(v)] IN
         /\ CoreOK(r) /\ r.queue = c.queue /\ r.vst = c.vst /\ r.dead = c.dead
         /\ r.panic = c.panic /\ r.active = c.active
<1> DEFINE r == [c EXCEPT !.saved[v] = Fresh(v)]
<1>1. c \in CoreRec /\ Fresh(v) \in Frames /\ Fresh(v).of = v
  BY DEF CoreOK, QueueOK, Fresh, Frames
<1>2. /\ r \in CoreRec /\ r.queue = c.queue /\ r.idx = c.idx /\ r.active = c.active
      /\ r.vst = c.vst /\ r.timer = c.timer /\ r.dead = c.dead /\ r.panic = c.panic
      /\ r.parked = c.parked /\ r.frame = c.frame
  BY <1>1 DEF CoreRec
<1>3. \A u \in VMs : r.saved[u] = IF u = v THEN Fresh(v) ELSE c.saved[u]
  BY <1>1 DEF CoreRec
<1> HIDE DEF r
<1>4. \A u \in VMs : r.saved[u].of = u
  BY <1>1, <1>3 DEF CoreOK, QueueOK
<1>5. r.active \in VMs \ r.dead => ~r.parked[r.active]  BY <1>2 DEF CoreOK
<1>6. CoreOK(r)  BY <1>2, <1>4, <1>5, SameScheduling
<1>7. QED BY <1>2, <1>6 DEF r

LEMMA PsciVcpuOnOK ==
  ASSUME NEW c, CoreOK(c), NEW v \in VMs, c.vst[v] = "Invalid"
  PROVE  Effect(c, PsciVcpuOn(c, v), v)
<1> DEFINE f == [c EXCEPT !.saved[v] = Fresh(v)]
           w == Wakeup(f, v)
           r == DoSchedule(w)
<1>1. /\ CoreOK(f) /\ f.queue = c.queue /\ f.vst = c.vst /\ f.dead = c.dead
      /\ f.panic = c.panic /\ f.active = c.active
  BY FreshOK
<1>2. PsciVcpuOn(c, v) = r  BY DEF PsciVcpuOn
<1> HIDE DEF f
<1>3. ~In(f.queue, v)  BY <1>1, ActiveQueued
<1>4. Effect(f, w, v) /\ In(w.queue, v)  BY <1>1, <1>3, WakeupOK
<1> HIDE DEF w
<1>5. Switchable(w)  BY <1>4 DEF Effect, CoreOK, Switchable
<1>6. /\ CoreOK(r) /\ r.queue = w.queue /\ r.dead = w.dead
      /\ r.panic => w.panic \/ \E u \in w.dead : In(w.queue, u)
      /\ \A u \in VMs : ~In(w.queue, u) => r.vst[u] = w.vst[u]
  BY <1>5, DoScheduleOK
<1> HIDE DEF r
<1>7. Effect(c, r, v)  BY <1>1, <1>4, <1>6 DEF Effect
<1>8. QED BY <1>2, <1>7

LEMMA CpuSuspendOK ==
  ASSUME NEW c, CoreOK(c), NEW v \in VMs
  PROVE  LET r == CpuSuspend(c, v) IN
         Effect(c, r, v) /\ ~In(r.queue, v) /\ r.vst[v] = "Sleep"
<1> DEFINE f == [c EXCEPT !.saved[v] = Fresh(v)]
           s == Sleep(f, v)
           r == HandlerResult(s, v)
<1>1. /\ CoreOK(f) /\ f.queue = c.queue /\ f.vst = c.vst /\ f.dead = c.dead
      /\ f.panic = c.panic
  BY FreshOK
<1>2. CpuSuspend(c, v) = r  BY DEF CpuSuspend
<1> HIDE DEF f
<1>3. Effect(f, s, v) /\ ~In(s.queue, v) /\ s.vst[v] = "Sleep"  BY <1>1, SleepOK
<1> HIDE DEF s
<1>4. s \in CoreRec  BY <1>3 DEF Effect, CoreOK, QueueOK
<1>5. /\ r \in CoreRec /\ r.queue = s.queue /\ r.idx = s.idx /\ r.active = s.active
      /\ r.vst = s.vst /\ r.timer = s.timer /\ r.dead = s.dead /\ r.panic = s.panic
      /\ r.saved = s.saved /\ r.parked = s.parked /\ r.frame.of = s.frame.of
  BY <1>4 DEF HandlerResult, CoreRec, Frames
<1> HIDE DEF r
<1>6. CoreOK(r)
  <2>1. \A u \in VMs : r.saved[u].of = u  BY <1>3, <1>5 DEF Effect, CoreOK, QueueOK
  <2>2. r.active \in VMs \ r.dead => ~r.parked[r.active]  BY <1>3, <1>5 DEF Effect, CoreOK
  <2>3. QED BY <1>3, <1>5, <2>1, <2>2, SameScheduling DEF Effect
<1>7. Effect(c, r, v)  BY <1>1, <1>3, <1>5, <1>6 DEF Effect
<1>8. QED BY <1>2, <1>3, <1>5, <1>7

\* The VM of a vCPU goes away.
LEMMA DeadOK ==
  ASSUME NEW c, CoreOK(c), NEW v \in VMs
  PROVE  LET r == [c EXCEPT !.dead = @ \cup {v}] IN
         /\ CoreOK(r) /\ r.queue = c.queue /\ r.vst = c.vst /\ r.dead = c.dead \cup {v}
         /\ r.panic = c.panic
<1> DEFINE r == [c EXCEPT !.dead = @ \cup {v}]
<1>1. c \in CoreRec  BY DEF CoreOK, QueueOK
<1>2. /\ r \in CoreRec /\ r.queue = c.queue /\ r.idx = c.idx /\ r.active = c.active
      /\ r.vst = c.vst /\ r.timer = c.timer /\ r.dead = c.dead \cup {v} /\ r.panic = c.panic
      /\ r.parked = c.parked /\ r.frame = c.frame /\ r.saved = c.saved
  BY <1>1 DEF CoreRec
<1> HIDE DEF r
<1>3. \A u \in VMs : r.saved[u].of = u  BY <1>2 DEF CoreOK, QueueOK
<1>4. r.active \in VMs \ r.dead => ~r.parked[r.active]  BY <1>2 DEF CoreOK
<1>5. CoreOK(r)  BY <1>2, <1>3, <1>4, SameScheduling
<1>6. QED BY <1>2, <1>5 DEF r

LEMMA PanicOK ==
  ASSUME NEW c, CoreOK(c)
  PROVE  LET r == [c EXCEPT !.panic = TRUE] IN
         CoreOK(r) /\ r.queue = c.queue /\ r.vst = c.vst /\ r.dead = c.dead
<1> DEFINE r == [c EXCEPT !.panic = TRUE]
<1>1. c \in CoreRec  BY DEF CoreOK, QueueOK
<1>2. /\ r \in CoreRec /\ r.queue = c.queue /\ r.idx = c.idx /\ r.active = c.active
      /\ r.vst = c.vst /\ r.timer = c.timer /\ r.dead = c.dead
      /\ r.parked = c.parked /\ r.frame = c.frame /\ r.saved = c.saved
  BY <1>1 DEF CoreRec
<1> HIDE DEF r
<1>3. \A u \in VMs : r.saved[u].of = u  BY <1>2 DEF CoreOK, QueueOK
<1>4. r.active \in VMs \ r.dead => ~r.parked[r.active]  BY <1>2 DEF CoreOK
<1>5. CoreOK(r)  BY <1>2, <1>3, <1>4, SameScheduling
<1>6. QED BY <1>2, <1>5 DEF r

-----------------------------------------------------------------------------
(* The three setups.  They differ in who may send which request and when;  *)
(* what the core does with one is the same.                                *)

LEMMA SameAtHome ==
  /\ Home!TakeIpi <=> TakeIpi
  /\ Home!Drain <=> Drain
  /\ Home!DrainEnd <=> DrainEnd
  /\ Home!TimerIrq <=> TimerIrq
  /\ Home!GuestSuspend <=> GuestSuspend
  /\ \A v : Home!DeviceIrq(v) <=> DeviceIrq(v)
  /\ \A v : Home!HandleBoot(v) <=> HandleBoot(v)
<1>1. \A c, v : Home!ScheduleTo(c, v) = ScheduleTo(c, v)
  BY DEF ScheduleTo, Home!ScheduleTo, ContextVmStore, Home!ContextVmStore, ContextVmRestore,
     Home!ContextVmRestore
<1>2. \A c : Home!DoSchedule(c) = DoSchedule(c)
  <2> TAKE c
  <2> DEFINE i == CHOOSE k \in Eligible(c) : \A j \in Eligible(c) : k <= j
             n == (c.idx + i) % Len(c.queue)
  <2>1. DoSchedule(c) = IF Eligible(c) = {} THEN RunIdleThread(c)
                        ELSE ScheduleTo([c EXCEPT !.idx = n], c.queue[n + 1])
    BY Zenon DEF DoSchedule
  <2>2. Home!DoSchedule(c) = IF Eligible(c) = {} THEN RunIdleThread(c)
                             ELSE Home!ScheduleTo([c EXCEPT !.idx = n], c.queue[n + 1])
    BY DEF Eligible, Home!Eligible, RunIdleThread, Home!RunIdleThread, IdleFrame, Home!IdleFrame, Idle, Home!Idle,
       Home!DoSchedule
  <2> HIDE DEF n
  <2>3. QED BY <1>1, <2>1, <2>2
<1>3. \A c, v : Home!Sleep(c, v) = Sleep(c, v)
  <2> TAKE c, v
  <2> DEFINE at == Positions(c.queue, v)
             p == CHOOSE i \in at : \A j \in at : i <= j
             found == at # {}
             last == found /\ p = c.idx
             removed == IF found THEN [c EXCEPT !.queue = Without(c.queue, p)] ELSE c
             moved == IF found /\ p < c.idx THEN [removed EXCEPT !.idx = c.idx - 1] ELSE removed
             off == IF last THEN [moved EXCEPT !.active = NoVM] ELSE moved
             asleep == [off EXCEPT !.vst[v] = "Sleep", !.timer = off.timer /\ Len(off.queue) > 1]
  <2>1. Sleep(c, v) = IF last THEN DoSchedule(asleep) ELSE asleep
    BY Zenon DEF Sleep
  <2>2. Home!Sleep(c, v) = IF last THEN Home!DoSchedule(asleep) ELSE asleep
    BY Zenon DEF Home!Sleep, Positions, Home!Positions, Without, Home!Without
  <2> HIDE DEF asleep, last
  <2>3. QED BY <1>2, <2>1, <2>2
<1>4. \A c, v : Home!Wakeup(c, v) = Wakeup(c, v)
  BY <1>2 DEF Wakeup, Home!Wakeup
<1>5. \A c, v : Home!YieldTo(c, v) = YieldTo(c, v)
  BY <1>1 DEF YieldTo, Home!YieldTo
<1>6. \A c : Home!VcpuRun(c) = VcpuRun(c)
  BY DEF VcpuRun, Home!VcpuRun, ContextVmRestore, Home!ContextVmRestore
<1>7. \A c, v : Home!InterruptVmInject(c, v) = InterruptVmInject(c, v)
  BY <1>4 DEF InterruptVmInject, Home!InterruptVmInject
<1>8. \A c, v : Home!PsciVcpuOn(c, v) = PsciVcpuOn(c, v)
  BY <1>2, <1>4 DEF PsciVcpuOn, Home!PsciVcpuOn, Fresh, Home!Fresh
<1>9. \A c, v : Home!CpuSuspend(c, v) = CpuSuspend(c, v)
  BY <1>3 DEF CpuSuspend, Home!CpuSuspend, HandlerResult, Home!HandlerResult, Fresh, Home!Fresh
<1>10. \A c, v : Home!VmmCpuRemoveVcpu(c, v) = VmmCpuRemoveVcpu(c, v)
  BY <1>3 DEF VmmCpuRemoveVcpu, Home!VmmCpuRemoveVcpu
<1>11. Home!TakeIpi <=> TakeIpi
  BY DEF TakeIpi, Home!TakeIpi
<1>12. Home!DrainEnd <=> DrainEnd
  BY DEF DrainEnd, Home!DrainEnd
<1>13. Home!TimerIrq <=> TimerIrq
  BY <1>2 DEF TimerIrq, Home!TimerIrq, Running, Home!Running
<1>14. Home!GuestSuspend <=> GuestSuspend
  BY <1>9 DEF GuestSuspend, Home!GuestSuspend, Running, Home!Running
<1>15. \A v : Home!DeviceIrq(v) <=> DeviceIrq(v)
  BY <1>7 DEF DeviceIrq, Home!DeviceIrq, Running, Home!Running
<1>16. \A v : Home!HandleBoot(v) <=> HandleBoot(v)
  BY <1>5, <1>6 DEF HandleBoot, Home!HandleBoot
<1>17. Home!Drain <=> Drain
  BY <1>7, <1>8, <1>10, <1>16 DEF Drain, Home!Drain, HandleAssign, Home!HandleAssign,
     HandleCpuOn, Home!HandleCpuOn, HandleInject, Home!HandleInject, HandleRemove,
     Home!HandleRemove
<1>18. QED BY <1>11, <1>12, <1>13, <1>14, <1>15, <1>16, <1>17

LEMMA SameInPair ==
  /\ Pair!TakeIpi <=> TakeIpi
  /\ Pair!Drain <=> Drain
  /\ Pair!DrainEnd <=> DrainEnd
  /\ Pair!TimerIrq <=> TimerIrq
  /\ Pair!GuestSuspend <=> GuestSuspend
  /\ \A v : Pair!DeviceIrq(v) <=> DeviceIrq(v)
  /\ \A v : Pair!HandleBoot(v) <=> HandleBoot(v)
<1>1. \A c, v : Pair!ScheduleTo(c, v) = ScheduleTo(c, v)
  BY DEF ScheduleTo, Pair!ScheduleTo, ContextVmStore, Pair!ContextVmStore, ContextVmRestore,
     Pair!ContextVmRestore
<1>2. \A c : Pair!DoSchedule(c) = DoSchedule(c)
  <2> TAKE c
  <2> DEFINE i == CHOOSE k \in Eligible(c) : \A j \in Eligible(c) : k <= j
             n == (c.idx + i) % Len(c.queue)
  <2>1. DoSchedule(c) = IF Eligible(c) = {} THEN RunIdleThread(c)
                        ELSE ScheduleTo([c EXCEPT !.idx = n], c.queue[n + 1])
    BY Zenon DEF DoSchedule
  <2>2. Pair!DoSchedule(c) = IF Eligible(c) = {} THEN RunIdleThread(c)
                             ELSE Pair!ScheduleTo([c EXCEPT !.idx = n], c.queue[n + 1])
    BY DEF Eligible, Pair!Eligible, RunIdleThread, Pair!RunIdleThread, IdleFrame, Pair!IdleFrame, Idle, Pair!Idle,
       Pair!DoSchedule
  <2> HIDE DEF n
  <2>3. QED BY <1>1, <2>1, <2>2
<1>3. \A c, v : Pair!Sleep(c, v) = Sleep(c, v)
  <2> TAKE c, v
  <2> DEFINE at == Positions(c.queue, v)
             p == CHOOSE i \in at : \A j \in at : i <= j
             found == at # {}
             last == found /\ p = c.idx
             removed == IF found THEN [c EXCEPT !.queue = Without(c.queue, p)] ELSE c
             moved == IF found /\ p < c.idx THEN [removed EXCEPT !.idx = c.idx - 1] ELSE removed
             off == IF last THEN [moved EXCEPT !.active = NoVM] ELSE moved
             asleep == [off EXCEPT !.vst[v] = "Sleep", !.timer = off.timer /\ Len(off.queue) > 1]
  <2>1. Sleep(c, v) = IF last THEN DoSchedule(asleep) ELSE asleep
    BY Zenon DEF Sleep
  <2>2. Pair!Sleep(c, v) = IF last THEN Pair!DoSchedule(asleep) ELSE asleep
    BY Zenon DEF Pair!Sleep, Positions, Pair!Positions, Without, Pair!Without
  <2> HIDE DEF asleep, last
  <2>3. QED BY <1>2, <2>1, <2>2
<1>4. \A c, v : Pair!Wakeup(c, v) = Wakeup(c, v)
  BY <1>2 DEF Wakeup, Pair!Wakeup
<1>5. \A c, v : Pair!YieldTo(c, v) = YieldTo(c, v)
  BY <1>1 DEF YieldTo, Pair!YieldTo
<1>6. \A c : Pair!VcpuRun(c) = VcpuRun(c)
  BY DEF VcpuRun, Pair!VcpuRun, ContextVmRestore, Pair!ContextVmRestore
<1>7. \A c, v : Pair!InterruptVmInject(c, v) = InterruptVmInject(c, v)
  BY <1>4 DEF InterruptVmInject, Pair!InterruptVmInject
<1>8. \A c, v : Pair!PsciVcpuOn(c, v) = PsciVcpuOn(c, v)
  BY <1>2, <1>4 DEF PsciVcpuOn, Pair!PsciVcpuOn, Fresh, Pair!Fresh
<1>9. \A c, v : Pair!CpuSuspend(c, v) = CpuSuspend(c, v)
  BY <1>3 DEF CpuSuspend, Pair!CpuSuspend, HandlerResult, Pair!HandlerResult, Fresh, Pair!Fresh
<1>10. \A c, v : Pair!VmmCpuRemoveVcpu(c, v) = VmmCpuRemoveVcpu(c, v)
  BY <1>3 DEF VmmCpuRemoveVcpu, Pair!VmmCpuRemoveVcpu
<1>11. Pair!TakeIpi <=> TakeIpi
  BY DEF TakeIpi, Pair!TakeIpi
<1>12. Pair!DrainEnd <=> DrainEnd
  BY DEF DrainEnd, Pair!DrainEnd
<1>13. Pair!TimerIrq <=> TimerIrq
  BY <1>2 DEF TimerIrq, Pair!TimerIrq, Running, Pair!Running
<1>14. Pair!GuestSuspend <=> GuestSuspend
  BY <1>9 DEF GuestSuspend, Pair!GuestSuspend, Running, Pair!Running
<1>15. \A v : Pair!DeviceIrq(v) <=> DeviceIrq(v)
  BY <1>7 DEF DeviceIrq, Pair!DeviceIrq, Running, Pair!Running
<1>16. \A v : Pair!HandleBoot(v) <=> HandleBoot(v)
  BY <1>5, <1>6 DEF HandleBoot, Pair!HandleBoot
<1>17. Pair!Drain <=> Drain
  BY <1>7, <1>8, <1>10, <1>16 DEF Drain, Pair!Drain, HandleAssign, Pair!HandleAssign,
     HandleCpuOn, Pair!HandleCpuOn, HandleInject, Pair!HandleInject, HandleRemove,
     Pair!HandleRemove
<1>18. QED BY <1>11, <1>12, <1>13, <1>14, <1>15, <1>16, <1>17

MainNow == IF setup = "pair" THEN {Manager} ELSE Main
MvmNow == IF setup = "home" THEN Manager ELSE NoVM

\* What every setup checks of a request.
MayAsk(kind, v) ==
    /\ ~ Asked("remove", v)
    /\ kind = "assign" => ~ Asked("assign", v)
    /\ kind # "assign" => Asked("assign", v)
    /\ kind = "boot" => v \in MainNow /\ ~ Asked("boot", v)
    /\ kind = "cpu_on" => v \notin MainNow
    /\ v # MvmNow \/ kind = "inject"

SendStep(kind, v) ==
    /\ MayAsk(kind, v) /\ Len(msgs) < MaxMsgs
    /\ setup = "pair" => msgs = <<>> /\ mode = "run"
    /\ msgs' = Append(msgs, [kind |-> kind, vm |-> v]) /\ sgi' = TRUE
    /\ asked' = IF kind = "inject" THEN asked ELSE asked \cup {<<kind, v>>}
    /\ UNCHANGED <<core, array, mode, dropped>>

LocalStep(kind, v) ==
    /\ setup = "home" /\ MayAsk(kind, v)
    /\ \/ kind = "assign" /\ HandleAssign(v)
       \/ kind = "boot" /\ HandleBoot(v)
       \/ /\ kind = "remove" /\ v \in array
          /\ array' = array \ {v}
          /\ core' = VmmRemoveVcpuPercore(core, v)
          /\ UNCHANGED <<mode, dropped>>
    /\ asked' = asked \cup {<<kind, v>>}
    /\ UNCHANGED <<msgs, sgi>>

\* A step of the core in any setup.
CoreStep ==
    \/ \E v \in VMs, kind \in Kinds : SendStep(kind, v) \/ LocalStep(kind, v)
    \/ TakeIpi \/ Drain \/ DrainEnd \/ TimerIrq \/ GuestSuspend
    \/ \E v \in VMs : DeviceIrq(v)
    \/ UNCHANGED vars

LEMMA EverySetup == [MCNext]_<<vars, setup>> => setup' = setup /\ CoreStep
<1> SUFFICES ASSUME [MCNext]_<<vars, setup>> PROVE setup' = setup /\ CoreStep
  OBVIOUS
<1> USE CoreSchedAssumption, SetupAssumption
<1>1. setup' = setup  BY DEF MCNext
<1>2. CASE setup = "guests" /\ Next
  <2>1. ASSUME NEW v \in VMs, NEW kind \in Kinds, Send(kind, v) PROVE SendStep(kind, v)
    BY <1>2, <2>1 DEF Send, MaySend, SendStep, MayAsk, MainNow, MvmNow
  <2>2. ASSUME NEW v \in VMs, NEW kind \in Kinds, Local(kind, v) PROVE FALSE
    BY <2>2 DEF Local
  <2>3. QED BY <1>1, <1>2, <2>1, <2>2 DEF Next, CoreStep
<1>3. CASE setup = "home" /\ Home!Next
  <2>1. ASSUME NEW v \in VMs, NEW kind \in Kinds, Home!Send(kind, v) PROVE SendStep(kind, v)
    BY <1>3, <2>1 DEF Home!Send, Home!MaySend, Home!Asked, Asked, SendStep, MayAsk, MainNow, MvmNow
  <2>2. ASSUME NEW v \in VMs, NEW kind \in Kinds, Home!Local(kind, v) PROVE LocalStep(kind, v)
    <3>1. Home!HandleBoot(v) <=> HandleBoot(v)  BY SameAtHome
    <3>2. Home!HandleAssign(v) <=> HandleAssign(v)  BY DEF Home!HandleAssign, HandleAssign
    <3>3. MayAsk(kind, v)
      BY <1>3, <2>2 DEF Home!Local, Home!MaySend, Home!Asked, Asked, MayAsk, MainNow, MvmNow
    <3>4. Home!VmmRemoveVcpuPercore(core, v) = VmmRemoveVcpuPercore(core, v)
      BY DEF Home!VmmRemoveVcpuPercore, VmmRemoveVcpuPercore
    <3>5. QED BY <1>3, <2>2, <3>1, <3>2, <3>3, <3>4 DEF Home!Local, LocalStep
  <2>3. QED
    BY <1>1, <1>3, <2>1, <2>2, SameAtHome DEF Home!Next, Home!Kinds, Kinds, CoreStep
<1>4. CASE setup = "pair" /\ Pair!Next
  <2>1. ASSUME NEW v \in VMs, NEW kind \in Kinds, Pair!Send(kind, v) PROVE SendStep(kind, v)
    <3>1. msgs = <<>> /\ mode = "run" /\ Len(msgs) < MaxMsgs
      BY <2>1 DEF Pair!Send, Pair!MaySend
    <3>2. QED
      BY <1>4, <2>1, <3>1
         DEF Pair!Send, Pair!MaySend, Pair!Asked, Asked, SendStep, MayAsk, MainNow, MvmNow
  <2>2. ASSUME NEW v \in VMs, NEW kind \in Kinds, Pair!Local(kind, v) PROVE FALSE
    BY <2>2 DEF Pair!Local
  <2>3. QED
    BY <1>1, <1>4, <2>1, <2>2, SameInPair DEF Pair!Next, Pair!Kinds, Kinds, CoreStep
<1>5. CASE UNCHANGED <<vars, setup>>
  BY <1>5 DEF CoreStep
<1>6. QED BY <1>2, <1>3, <1>4, <1>5 DEF MCNext

-----------------------------------------------------------------------------
(* The requests and the core.                                              *)

Pending(kind, v) == \E i \in 1 .. Len(msgs) : msgs[i].kind = kind /\ msgs[i].vm = v

\* The vCPU of v was in the array and will not come back.
Gone(v) == v \notin array /\ Asked("assign", v) /\ ~Pending("assign", v)

\* A VM is assigned and booted at most once.
OnceEach ==
    \A i, j \in 1 .. Len(msgs) :
        /\ msgs[i].kind = msgs[j].kind /\ msgs[i].vm = msgs[j].vm
        /\ msgs[i].kind \in {"assign", "boot"}
        => i = j

RequestsType ==
    /\ array \subseteq VMs
    /\ msgs \in Seq(Messages) /\ Len(msgs) <= MaxMsgs
    /\ sgi \in BOOLEAN
    /\ mode \in {"run", "drain"}
    /\ asked \subseteq Kinds \X VMs
    /\ dropped \subseteq VMs
    /\ setup \in {"guests", "home", "pair"}

\* A vCPU that is still to be booted never ran, unless it is gone.
RequestsInv ==
    /\ RequestsType
    /\ OnceEach
    /\ \A kind \in Kinds \ {"inject"}, v \in VMs :
         Pending(kind, v) => Asked(kind, v) /\ v # MvmNow
    /\ \A v \in VMs : /\ Pending("boot", v) => v \in MainNow
                      /\ Pending("cpu_on", v) => v \notin MainNow
    /\ \A v \in array : Asked("assign", v) /\ ~Pending("assign", v)
    /\ \A v \in MainNow \ {MvmNow} :
         ~Asked("boot", v) \/ Pending("boot", v) => core.vst[v] = "Invalid" \/ Gone(v)

\* With one request at a time each finds its vCPU, and a VM that is gone is not
\* queued.
PacedInv ==
    /\ ~core.panic
    /\ Len(msgs) <= 1
    /\ msgs # <<>> => sgi \/ mode = "drain"
    /\ \A v \in VMs : Asked("assign", v) /\ ~Asked("remove", v) /\ ~Pending("assign", v)
                        => v \in array
    /\ \A kind \in Kinds \ {"assign"}, v \in VMs : Pending(kind, v) => v \in array
    /\ \A v \in core.dead : Gone(v) /\ ~In(core.queue, v)

SchedInv == CoreOK(core) /\ RequestsInv /\ (setup = "pair" => PacedInv)

\* What an operation for v means for the vCPUs that are still to be booted, and
\* for the VMs that are gone, if v is not.
LEMMA EffectOnOthers ==
  ASSUME NEW c, CoreOK(c), NEW r, NEW v, Effect(c, r, v)
  PROVE  /\ \A u \in VMs \ {v} : c.vst[u] = "Invalid" => r.vst[u] = "Invalid"
         /\ (v \notin c.dead /\ ~c.panic /\ \A u \in c.dead : ~In(c.queue, u))
              => ~r.panic /\ \A u \in c.dead : ~In(r.queue, u)
<1>1. \A u \in VMs : c.vst[u] = "Invalid" => ~In(c.queue, u)  BY ActiveQueued
<1>2. c.dead \subseteq VMs  BY DEF CoreOK, QueueOK, CoreRec
<1>3. QED BY <1>1, <1>2 DEF Effect

\* A step that changes only what is on the core.
LEMMA CoreOnly ==
  ASSUME SchedInv, UNCHANGED <<array, msgs, sgi, mode, asked, dropped, setup>>,
         CoreOK(core'), \A u \in VMs : core.vst[u] = "Invalid" => core'.vst[u] = "Invalid",
         setup = "pair" => /\ ~core'.panic /\ core'.dead = core.dead
                           /\ \A u \in core.dead : ~In(core'.queue, u)
  PROVE  SchedInv'
<1>1. /\ \A kind, v : (Pending(kind, v))' <=> Pending(kind, v)
      /\ \A kind, v : (Asked(kind, v))' <=> Asked(kind, v)
      /\ \A v : (Gone(v))' <=> Gone(v)
      /\ MainNow' = MainNow /\ MvmNow' = MvmNow
  BY DEF Pending, Asked, Gone, MainNow, MvmNow
<1>2. MainNow \subseteq VMs
  BY CoreSchedAssumption, SetupAssumption DEF MainNow
<1>3. RequestsInv'
  BY <1>1, <1>2 DEF SchedInv, RequestsInv, RequestsType, OnceEach
<1>4. setup = "pair" => PacedInv'
  BY <1>1 DEF SchedInv, PacedInv
<1>5. QED BY <1>3, <1>4 DEF SchedInv

LEMMA TimerInv ==
  ASSUME SchedInv, TimerIrq, setup' = setup
  PROVE  SchedInv'
<1>1. core' = DoSchedule(core) /\ UNCHANGED <<array, msgs, sgi, mode, asked, dropped>>
  BY DEF TimerIrq
<1>2. CoreOK(core) /\ Switchable(core)  BY DEF SchedInv, CoreOK, Switchable
<1>3. /\ CoreOK(core') /\ core'.queue = core.queue /\ core'.dead = core.dead
      /\ core'.panic => core.panic \/ \E v \in core.dead : In(core.queue, v)
      /\ \A u \in VMs : ~In(core.queue, u) => core'.vst[u] = core.vst[u]
  BY <1>1, <1>2, DoScheduleOK
<1>4. \A u \in VMs : core.vst[u] = "Invalid" => core'.vst[u] = "Invalid"
  BY <1>2, <1>3, ActiveQueued
<1>5. setup = "pair" => /\ ~core'.panic /\ core'.dead = core.dead
                        /\ \A u \in core.dead : ~In(core'.queue, u)
  BY <1>3 DEF SchedInv, PacedInv
<1>6. QED BY <1>1, <1>3, <1>4, <1>5, CoreOnly

LEMMA SuspendInv ==
  ASSUME SchedInv, GuestSuspend, setup' = setup
  PROVE  SchedInv'
<1> DEFINE v == core.active
<1>1. v # NoVM /\ core' = CpuSuspend(core, v) /\ UNCHANGED <<array, msgs, sgi, mode, asked, dropped>>
  BY DEF GuestSuspend
<1>2. CoreOK(core)  BY DEF SchedInv
<1>3. v \in VMs /\ core.vst[v] = "Running" /\ In(core.queue, v)
  <2>1. v \in VMs  BY <1>1, <1>2 DEF CoreOK, QueueOK, CoreRec
  <2>2. core.vst[v] = "Running"  BY <1>2, <2>1 DEF CoreOK, QueueOK
  <2>3. QED BY <1>2, <2>1, <2>2, ActiveQueued
<1> HIDE DEF v
<1>4. Effect(core, core', v)  BY <1>1, <1>2, <1>3, CpuSuspendOK
<1>5. \A u \in VMs : core.vst[u] = "Invalid" => core'.vst[u] = "Invalid"
  BY <1>2, <1>3, <1>4, EffectOnOthers
<1>6. setup = "pair" => /\ ~core'.panic /\ core'.dead = core.dead
                        /\ \A u \in core.dead : ~In(core'.queue, u)
  <2> SUFFICES ASSUME setup = "pair" PROVE /\ ~core'.panic /\ core'.dead = core.dead
                                           /\ \A u \in core.dead : ~In(core'.queue, u)
    OBVIOUS
  <2>1. ~core.panic /\ \A u \in core.dead : ~In(core.queue, u)  BY DEF SchedInv, PacedInv
  <2>2. QED BY <1>2, <1>3, <1>4, <2>1, EffectOnOthers DEF Effect
<1>7. CoreOK(core')  BY <1>4 DEF Effect
<1>8. QED BY <1>1, <1>5, <1>6, <1>7, CoreOnly

LEMMA DeviceInv ==
  ASSUME SchedInv, NEW v \in VMs, DeviceIrq(v), setup' = setup
  PROVE  SchedInv'
<1>1. /\ v \in array /\ core' = InterruptVmInject(core, v)
      /\ UNCHANGED <<array, msgs, sgi, mode, asked, dropped>>
  BY DEF DeviceIrq
<1>2. CoreOK(core)  BY DEF SchedInv
<1>3. Effect(core, core', v) /\ (core.vst[v] = "Invalid" => core'.vst[v] = "Invalid")
  BY <1>1, <1>2, InjectOK
<1>4. \A u \in VMs : core.vst[u] = "Invalid" => core'.vst[u] = "Invalid"
  BY <1>2, <1>3, EffectOnOthers
<1>5. setup = "pair" => /\ ~core'.panic /\ core'.dead = core.dead
                        /\ \A u \in core.dead : ~In(core'.queue, u)
  <2> SUFFICES ASSUME setup = "pair" PROVE /\ ~core'.panic /\ core'.dead = core.dead
                                           /\ \A u \in core.dead : ~In(core'.queue, u)
    OBVIOUS
  <2>1. ~core.panic /\ v \notin core.dead /\ \A u \in core.dead : ~In(core.queue, u)
    BY <1>1 DEF SchedInv, PacedInv, Gone
  <2>2. QED BY <1>2, <1>3, <2>1, EffectOnOthers DEF Effect
<1>6. CoreOK(core')  BY <1>3 DEF Effect
<1>7. QED BY <1>1, <1>4, <1>5, <1>6, CoreOnly

\* A request joins the messages.
LEMMA SendInv ==
  ASSUME SchedInv, NEW v \in VMs, NEW kind \in Kinds, SendStep(kind, v), setup' = setup
  PROVE  SchedInv'
<1> DEFINE m == [kind |-> kind, vm |-> v]
<1>0. msgs \in Seq(Messages) /\ Len(msgs) \in Nat /\ m \in Messages /\ m.kind = kind /\ m.vm = v
  BY DEF SchedInv, RequestsInv, RequestsType, Messages
<1>1. /\ MayAsk(kind, v) /\ Len(msgs) < MaxMsgs
      /\ setup = "pair" => msgs = <<>> /\ mode = "run"
      /\ msgs' = Append(msgs, m) /\ sgi' = TRUE
      /\ asked' = (IF kind = "inject" THEN asked ELSE asked \cup {<<kind, v>>})
      /\ UNCHANGED <<core, array, mode, dropped>>
  BY DEF SendStep
<1> HIDE DEF m
<1>2. /\ msgs' \in Seq(Messages) /\ Len(msgs') = Len(msgs) + 1 /\ msgs'[Len(msgs) + 1] = m
      /\ \A i \in 1 .. Len(msgs) : msgs'[i] = msgs[i]
  BY <1>0, <1>1
<1>3. \A k, u : (Pending(k, u))' <=> Pending(k, u) \/ (k = kind /\ u = v)
  BY <1>0, <1>2 DEF Pending
<1>4. \A k, u : (Asked(k, u))' <=> Asked(k, u) \/ (kind # "inject" /\ k = kind /\ u = v)
  BY <1>1 DEF Asked
<1>5. MainNow' = MainNow /\ MvmNow' = MvmNow /\ MainNow \subseteq VMs
  BY CoreSchedAssumption, SetupAssumption DEF MainNow, MvmNow
<1>6. kind \in {"assign", "boot"} => ~Asked(kind, v) /\ ~Pending(kind, v)
  <2>1. kind \in {"assign", "boot"} => ~Asked(kind, v)  BY <1>1 DEF MayAsk
  <2>2. QED BY <2>1 DEF SchedInv, RequestsInv
<1>7. OnceEach'
  <2> SUFFICES ASSUME NEW i \in 1 .. Len(msgs'), NEW j \in 1 .. Len(msgs'),
                      msgs'[i].kind = msgs'[j].kind, msgs'[i].vm = msgs'[j].vm,
                      msgs'[i].kind \in {"assign", "boot"}
               PROVE  i = j
    BY DEF OnceEach
  <2>1. CASE i \in 1 .. Len(msgs) /\ j \in 1 .. Len(msgs)
    BY <1>2, <2>1 DEF SchedInv, RequestsInv, OnceEach
  <2>2. CASE i = Len(msgs) + 1 /\ j \in 1 .. Len(msgs)
    BY <1>0, <1>2, <1>6, <2>2 DEF Pending
  <2>3. CASE j = Len(msgs) + 1 /\ i \in 1 .. Len(msgs)
    BY <1>0, <1>2, <1>6, <2>3 DEF Pending
  <2>4. QED BY <1>0, <1>2, <2>1, <2>2, <2>3
<1>8. RequestsType'
  <2>1. Len(msgs') <= MaxMsgs  BY <1>0, <1>1, <1>2, CoreSchedAssumption
  <2>2. asked' \subseteq Kinds \X VMs  BY <1>1 DEF SchedInv, RequestsInv, RequestsType
  <2>3. QED BY <1>1, <1>2, <2>1, <2>2 DEF SchedInv, RequestsInv, RequestsType
<1>9. (\A k \in Kinds \ {"inject"}, u \in VMs : Pending(k, u) => Asked(k, u) /\ u # MvmNow)'
  BY <1>1, <1>3, <1>4, <1>5 DEF SchedInv, RequestsInv, MayAsk
<1>10. (\A u \in VMs : /\ Pending("boot", u) => u \in MainNow
                       /\ Pending("cpu_on", u) => u \notin MainNow)'
  BY <1>1, <1>3, <1>5 DEF SchedInv, RequestsInv, MayAsk
<1>11. (\A u \in array : Asked("assign", u) /\ ~Pending("assign", u))'
  BY <1>1, <1>3, <1>4, <1>6 DEF SchedInv, RequestsInv
<1>12. \A u : Gone(u) => (Gone(u))'
  BY <1>1, <1>3, <1>4, <1>6 DEF Gone
<1>13. (\A u \in MainNow \ {MvmNow} :
          ~Asked("boot", u) \/ Pending("boot", u) => core.vst[u] = "Invalid" \/ Gone(u))'
  <2> SUFFICES ASSUME NEW u \in MainNow \ {MvmNow}, ~(Asked("boot", u))' \/ (Pending("boot", u))'
               PROVE  core.vst[u] = "Invalid" \/ (Gone(u))'
    BY <1>1, <1>5
  <2>1. ~Asked("boot", u) \/ Pending("boot", u)  BY <1>3, <1>4, <1>6
  <2>2. QED BY <1>12, <2>1 DEF SchedInv, RequestsInv
<1>14. RequestsInv'
  BY <1>7, <1>8, <1>9, <1>10, <1>11, <1>13 DEF RequestsInv
<1>15. setup = "pair" => PacedInv'
  <2> SUFFICES ASSUME setup = "pair" PROVE PacedInv'
    OBVIOUS
  <2>1. msgs = <<>> /\ \A k, u : ~Pending(k, u)  BY <1>1 DEF Pending
  <2>2. Len(msgs') <= 1  BY <1>2, <2>1
  <2>3. kind # "assign" => v \in array
    BY <1>1, <2>1 DEF SchedInv, PacedInv, MayAsk
  <2>4. \A u \in VMs : (Asked("assign", u))' /\ ~(Asked("remove", u))' /\ ~(Pending("assign", u))'
                        => u \in array
    BY <1>3, <1>4, <2>1 DEF SchedInv, PacedInv
  <2>5. \A k \in Kinds \ {"assign"}, u \in VMs : (Pending(k, u))' => u \in array
    BY <1>3, <2>1, <2>3
  <2>6. \A u \in core.dead : (Gone(u))' /\ ~In(core.queue, u)
    BY <1>12 DEF SchedInv, PacedInv
  <2>7. ~core'.panic  BY <1>1 DEF SchedInv, PacedInv
  <2>8. QED BY <1>1, <2>2, <2>4, <2>5, <2>6, <2>7 DEF PacedInv
<1>16. QED BY <1>1, <1>14, <1>15 DEF SchedInv

\* The message on top is taken off the stack.
LEMMA PopIs ==
  ASSUME SchedInv, msgs # <<>>, msgs' = SubSeq(msgs, 1, Len(msgs) - 1),
         NEW m, m = msgs[Len(msgs)]
  PROVE  /\ m.kind \in Kinds /\ m.vm \in VMs /\ Pending(m.kind, m.vm)
         /\ msgs' \in Seq(Messages) /\ Len(msgs') = Len(msgs) - 1 /\ Len(msgs) \in Nat
         /\ \A k, u : (Pending(k, u))' => Pending(k, u)
         /\ \A k, u : Pending(k, u) => (Pending(k, u))' \/ (k = m.kind /\ u = m.vm)
         /\ m.kind \in {"assign", "boot"} => ~(Pending(m.kind, m.vm))'
         /\ OnceEach'
<1>0. msgs \in Seq(Messages) /\ Len(msgs) \in Nat /\ Len(msgs) # 0 /\ OnceEach
  BY DEF SchedInv, RequestsInv, RequestsType
<1>1. /\ msgs' \in Seq(Messages) /\ Len(msgs') = Len(msgs) - 1
      /\ \A i \in 1 .. Len(msgs) - 1 : msgs'[i] = msgs[i]
  <2>1. Len(msgs) >= 1  BY <1>0
  <2> DEFINE n == Len(msgs) - 1
  <2>2. n \in Nat /\ \A i \in 1 .. n : msgs[i] \in Messages  BY <1>0, <2>1
  <2> HIDE DEF n
  <2>3. /\ SubSeq(msgs, 1, n) \in Seq(Messages) /\ Len(SubSeq(msgs, 1, n)) = n
        /\ \A i \in 1 .. n : SubSeq(msgs, 1, n)[i] = msgs[i]
    BY <2>2
  <2>4. QED BY <2>3 DEF n
<1>2. m \in Messages /\ m.kind \in Kinds /\ m.vm \in VMs /\ Len(msgs) \in 1 .. Len(msgs)
  <2>1. Len(msgs) \in 1 .. Len(msgs)  BY <1>0
  <2>2. m \in Messages  BY <1>0, <2>1
  <2>3. QED BY <2>1, <2>2 DEF Messages
<1>3. Pending(m.kind, m.vm)  BY <1>2 DEF Pending
<1>4. \A k, u : (Pending(k, u))' => Pending(k, u)
  BY <1>0, <1>1 DEF Pending
<1>5. ASSUME NEW k, NEW u, Pending(k, u), ~(k = m.kind /\ u = m.vm) PROVE (Pending(k, u))'
  <2>1. PICK i \in 1 .. Len(msgs) : msgs[i].kind = k /\ msgs[i].vm = u  BY <1>5 DEF Pending
  <2>2. i # Len(msgs)  BY <1>5, <2>1
  <2>3. i \in 1 .. Len(msgs') /\ msgs'[i] = msgs[i]  BY <1>0, <1>1, <2>2
  <2>4. QED BY <2>1, <2>3 DEF Pending
<1>6. ASSUME m.kind \in {"assign", "boot"}, (Pending(m.kind, m.vm))' PROVE FALSE
  <2>1. PICK i \in 1 .. Len(msgs') : msgs'[i].kind = m.kind /\ msgs'[i].vm = m.vm
    BY <1>6 DEF Pending
  <2>2. i \in 1 .. Len(msgs) /\ i # Len(msgs) /\ msgs'[i] = msgs[i]  BY <1>0, <1>1, <2>1
  <2>3. QED BY <1>0, <1>2, <1>6, <2>1, <2>2 DEF OnceEach
<1>7. OnceEach'
  <2>1. \A i \in 1 .. Len(msgs') : i \in 1 .. Len(msgs) /\ msgs'[i] = msgs[i]  BY <1>0, <1>1
  <2>2. QED BY <1>0, <2>1 DEF OnceEach
<1>8. QED BY <1>0, <1>1, <1>2, <1>3, <1>4, <1>5, <1>6, <1>7

\* What a handler must leave behind when its message is gone.
LEMMA AfterPop ==
  ASSUME SchedInv, msgs # <<>>, msgs' = SubSeq(msgs, 1, Len(msgs) - 1),
         NEW m, m = msgs[Len(msgs)],
         UNCHANGED <<sgi, asked, setup>>, mode' \in {"run", "drain"}, dropped' \subseteq VMs,
         array' = (IF m.kind = "assign" THEN array \cup {m.vm}
                   ELSE IF m.kind = "remove" THEN array \ {m.vm} ELSE array),
         CoreOK(core'),
         \A u \in VMs : core.vst[u] = "Invalid" =>
            \/ core'.vst[u] = "Invalid"
            \/ u = m.vm /\ m.kind \in {"boot", "cpu_on"}
            \/ u = m.vm /\ m.kind = "remove" /\ u \in array,
         setup = "pair" =>
            /\ ~core'.panic
            /\ \A u \in core'.dead : /\ u \in core.dead \/ (u = m.vm /\ m.kind = "remove")
                                     /\ ~In(core'.queue, u)
  PROVE  SchedInv'
<1>1. /\ m.kind \in Kinds /\ m.vm \in VMs /\ Pending(m.kind, m.vm)
      /\ msgs' \in Seq(Messages) /\ Len(msgs') = Len(msgs) - 1 /\ Len(msgs) \in Nat
      /\ \A k, u : (Pending(k, u))' => Pending(k, u)
      /\ \A k, u : Pending(k, u) => (Pending(k, u))' \/ (k = m.kind /\ u = m.vm)
      /\ m.kind \in {"assign", "boot"} => ~(Pending(m.kind, m.vm))'
      /\ OnceEach'
  BY PopIs
<1>2. \A k, u : (Asked(k, u))' <=> Asked(k, u)  BY DEF Asked
<1>3. MainNow' = MainNow /\ MvmNow' = MvmNow /\ MainNow \subseteq VMs
  BY CoreSchedAssumption, SetupAssumption DEF MainNow, MvmNow
<1>4. m.kind # "inject" => Asked(m.kind, m.vm) /\ m.vm # MvmNow
  BY <1>1 DEF SchedInv, RequestsInv
<1>5. RequestsType'
  BY <1>1, CoreSchedAssumption DEF SchedInv, RequestsInv, RequestsType
<1>6. \A u : Gone(u) => (Gone(u))'
  BY <1>1, <1>2 DEF Gone
<1>7. \A u \in array : Asked("assign", u) /\ ~Pending("assign", u)
  BY DEF SchedInv, RequestsInv
<1>8. (\A u \in array : Asked("assign", u) /\ ~Pending("assign", u))'
  BY <1>1, <1>2, <1>4, <1>7
<1>9. m.kind = "remove" /\ m.vm \in array => (Gone(m.vm))'
  BY <1>1, <1>2, <1>7 DEF Gone
<1>10. ASSUME NEW u \in MainNow \ {MvmNow}, ~Asked("boot", u) \/ (Pending("boot", u))'
       PROVE  core'.vst[u] = "Invalid" \/ (Gone(u))'
  <2>1. core.vst[u] = "Invalid" \/ Gone(u)  BY <1>1, <1>10 DEF SchedInv, RequestsInv
  <2>2. ~(u = m.vm /\ m.kind = "boot")  BY <1>1, <1>4, <1>10
  <2>3. ~(u = m.vm /\ m.kind = "cpu_on")  BY <1>1, <1>10 DEF SchedInv, RequestsInv
  <2>4. QED BY <1>3, <1>6, <1>9, <2>1, <2>2, <2>3
<1>11. RequestsInv'
  <2>1. (\A k \in Kinds \ {"inject"}, u \in VMs : Pending(k, u) => Asked(k, u) /\ u # MvmNow)'
    BY <1>1, <1>2, <1>3 DEF SchedInv, RequestsInv
  <2>2. (\A u \in VMs : /\ Pending("boot", u) => u \in MainNow
                        /\ Pending("cpu_on", u) => u \notin MainNow)'
    BY <1>1, <1>3 DEF SchedInv, RequestsInv
  <2>3. (\A u \in MainNow \ {MvmNow} :
           ~Asked("boot", u) \/ Pending("boot", u) => core.vst[u] = "Invalid" \/ Gone(u))'
    BY <1>2, <1>3, <1>10
  <2>4. QED BY <1>1, <1>5, <1>8, <2>1, <2>2, <2>3 DEF RequestsInv
<1>12. ASSUME setup = "pair" PROVE PacedInv'
  <2>1. PacedInv  BY <1>12 DEF SchedInv
  <2>2. Len(msgs') = 0  BY <1>1, <2>1 DEF PacedInv
  <2>3. msgs' = <<>> /\ \A k, u : ~(Pending(k, u))'  BY <1>1, <2>2 DEF Pending
  <2>4. ASSUME NEW u \in VMs, Asked("assign", u), ~Asked("remove", u) PROVE u \in array'
    <3>1. CASE Pending("assign", u)  BY <1>1, <2>3, <3>1
    <3>2. CASE ~Pending("assign", u)
      <4>1. u \in array  BY <2>1, <2>4, <3>2 DEF PacedInv
      <4>2. ~(m.kind = "remove" /\ m.vm = u)  BY <1>4, <2>4
      <4>3. QED BY <4>1, <4>2
    <3>3. QED BY <3>1, <3>2
  <2>5. \A u \in core'.dead : (Gone(u))' /\ ~In(core'.queue, u)
    <3> SUFFICES ASSUME NEW u \in core'.dead PROVE (Gone(u))' /\ ~In(core'.queue, u)
      OBVIOUS
    <3>1. CASE u \in core.dead  BY <1>6, <1>12, <2>1, <3>1 DEF PacedInv
    <3>2. CASE u = m.vm /\ m.kind = "remove"
      <4>1. m.vm \in array  BY <1>1, <2>1, <3>2 DEF PacedInv, Kinds
      <4>2. QED BY <1>9, <1>12, <3>2, <4>1
    <3>3. QED BY <1>12, <3>1, <3>2
  <2>6. QED BY <1>2, <1>12, <2>2, <2>3, <2>4, <2>5 DEF PacedInv
<1>13. QED BY <1>11, <1>12 DEF SchedInv

\* ipi_irq_handler, one step for each handler.
LEMMA DrainInv ==
  ASSUME SchedInv, Drain, setup' = setup
  PROVE  SchedInv'
<1> DEFINE m == msgs[Len(msgs)]
           v == m.vm
<1>0. CoreOK(core)  BY DEF SchedInv
<1>1. /\ ~core.panic /\ mode = "drain" /\ msgs # <<>>
      /\ msgs' = SubSeq(msgs, 1, Len(msgs) - 1) /\ UNCHANGED <<sgi, asked>>
  BY DEF Drain
<1>2. m.kind \in Kinds /\ v \in VMs /\ Pending(m.kind, v)  BY <1>1, PopIs
<1>3. \/ m.kind = "assign" /\ HandleAssign(v)
      \/ m.kind = "boot" /\ HandleBoot(v)
      \/ m.kind = "cpu_on" /\ HandleCpuOn(v)
      \/ m.kind = "inject" /\ HandleInject(v)
      \/ m.kind = "remove" /\ HandleRemove(v)
  BY DEF Drain
<1> HIDE DEF m
<1>4. mode \in {"run", "drain"} /\ dropped \subseteq VMs
  BY DEF SchedInv, RequestsInv, RequestsType
<1>5. setup = "pair" => /\ PacedInv
                        /\ m.kind # "assign" => v \in array /\ v \notin core.dead
                        /\ ~core.panic /\ \A u \in core.dead : ~In(core.queue, u)
  BY <1>2 DEF SchedInv, PacedInv, Gone
<1>6. m = msgs[Len(msgs)]  BY DEF m
\* A handler that leaves the scheduler and the array alone.
<1>7. ASSUME UNCHANGED <<core, array>>, m.kind \notin {"assign", "remove"},
             mode' \in {"run", "drain"}, dropped' \subseteq VMs
      PROVE  SchedInv'
  <2>1. CoreOK(core')  BY <1>0, <1>7
  <2>2. setup = "pair" =>
          /\ ~core'.panic
          /\ \A u \in core'.dead : /\ u \in core.dead \/ (u = v /\ m.kind = "remove")
                                   /\ ~In(core'.queue, u)
    BY <1>5, <1>7
  <2>3. QED BY <1>1, <1>6, <1>7, <2>1, <2>2, AfterPop
\* One that does something for v.
<1>8. ASSUME Effect(core, core', v), m.kind \in {"boot", "cpu_on", "inject"},
             UNCHANGED <<array, dropped>>, mode' \in {"run", "drain"},
             m.kind = "inject" /\ core.vst[v] = "Invalid" => core'.vst[v] = "Invalid"
      PROVE  SchedInv'
  <2>1. CoreOK(core') /\ core'.dead = core.dead  BY <1>8 DEF Effect
  <2>2. \A u \in VMs \ {v} : core.vst[u] = "Invalid" => core'.vst[u] = "Invalid"
    BY <1>0, <1>8, EffectOnOthers
  <2>3. \A u \in VMs : core.vst[u] = "Invalid" =>
            \/ core'.vst[u] = "Invalid"
            \/ u = v /\ m.kind \in {"boot", "cpu_on"}
            \/ u = v /\ m.kind = "remove" /\ u \in array
    BY <1>8, <2>2
  <2>4. setup = "pair" =>
          /\ ~core'.panic
          /\ \A u \in core'.dead : /\ u \in core.dead \/ (u = v /\ m.kind = "remove")
                                   /\ ~In(core'.queue, u)
    BY <1>0, <1>5, <1>8, <2>1, EffectOnOthers
  <2>5. QED BY <1>1, <1>4, <1>6, <1>8, <2>1, <2>3, <2>4, AfterPop
\* One that panics.
<1>9. ASSUME v \notin array, core' = [core EXCEPT !.panic = TRUE], m.kind # "assign",
             array' = (IF m.kind = "remove" THEN array \ {v} ELSE array),
             UNCHANGED <<mode, dropped>>
      PROVE  SchedInv'
  <2>1. CoreOK(core') /\ core'.vst = core.vst  BY <1>0, <1>9, PanicOK
  <2>2. setup # "pair"  BY <1>5, <1>9
  <2>3. QED BY <1>1, <1>4, <1>6, <1>9, <2>1, <2>2, AfterPop
<1>10. CASE m.kind = "assign" /\ HandleAssign(v)
  <2>1. array' = array \cup {v} /\ UNCHANGED <<core, mode, dropped>>  BY <1>10 DEF HandleAssign
  <2>2. CoreOK(core')  BY <1>0, <2>1
  <2>3. setup = "pair" =>
          /\ ~core'.panic
          /\ \A u \in core'.dead : /\ u \in core.dead \/ (u = v /\ m.kind = "remove")
                                   /\ ~In(core'.queue, u)
    BY <1>5, <2>1
  <2>4. QED BY <1>1, <1>4, <1>6, <1>10, <2>1, <2>2, <2>3, AfterPop
<1>11. CASE m.kind = "boot" /\ HandleBoot(v)
  <2>1. CASE v \notin array  BY <1>1, <1>2, <1>4, <1>7, <1>11, <2>1 DEF HandleBoot
  <2>2. CASE v \in array
    <3>1. core.vst[v] = "Invalid"
      BY <1>2, <1>11, <2>2 DEF SchedInv, RequestsInv, Gone, Kinds
    <3>2. ~In(core.queue, v)  BY <1>0, <1>2, <3>1, ActiveQueued
    <3>3. core' = VcpuRun(YieldTo(core, v)) /\ mode' = "run" /\ UNCHANGED <<array, dropped>>
      BY <1>11, <2>2 DEF HandleBoot
    <3>4. Effect(core, core', v)  BY <1>0, <1>2, <3>2, <3>3, BootOK
    <3>5. QED BY <1>8, <1>11, <3>3, <3>4
  <2>3. QED BY <2>1, <2>2
<1>12. CASE m.kind = "cpu_on" /\ HandleCpuOn(v)
  <2>1. CASE v \notin array  BY <1>2, <1>4, <1>7, <1>12, <2>1 DEF HandleCpuOn
  <2>2. CASE v \in array /\ core.vst[v] # "Invalid"
    BY <1>4, <1>7, <1>12, <2>2 DEF HandleCpuOn
  <2>3. CASE v \in array /\ core.vst[v] = "Invalid"
    <3>1. core' = PsciVcpuOn(core, v) /\ UNCHANGED <<array, mode, dropped>>
      BY <1>12, <2>3 DEF HandleCpuOn
    <3>2. Effect(core, core', v)  BY <1>0, <1>2, <2>3, <3>1, PsciVcpuOnOK
    <3>3. QED BY <1>4, <1>8, <1>12, <3>1, <3>2
  <2>4. QED BY <2>1, <2>2, <2>3
<1>13. CASE m.kind = "inject" /\ HandleInject(v)
  <2>1. CASE v \notin array  BY <1>9, <1>13, <2>1 DEF HandleInject
  <2>2. CASE v \in array
    <3>1. core' = InterruptVmInject(core, v) /\ UNCHANGED <<array, mode, dropped>>
      BY <1>13, <2>2 DEF HandleInject
    <3>2. Effect(core, core', v) /\ (core.vst[v] = "Invalid" => core'.vst[v] = "Invalid")
      BY <1>0, <1>2, <3>1, InjectOK
    <3>3. QED BY <1>4, <1>8, <1>13, <3>1, <3>2
  <2>3. QED BY <2>1, <2>2
<1>14. CASE m.kind = "remove" /\ HandleRemove(v)
  <2>1. CASE v \notin array  BY <1>9, <1>14, <2>1 DEF HandleRemove
  <2>2. CASE v \in array
    <3> DEFINE s == Sleep(core, v)
    <3>1. /\ core' = [s EXCEPT !.dead = @ \cup {v}] /\ array' = array \ {v}
          /\ mode' \in {"run", "drain"} /\ UNCHANGED dropped
      BY <1>4, <1>14, <2>2 DEF HandleRemove, VmmCpuRemoveVcpu
    <3>2. Effect(core, s, v) /\ ~In(s.queue, v)  BY <1>0, <1>2, SleepOK
    <3> HIDE DEF s
    <3>3. /\ CoreOK(core') /\ core'.queue = s.queue /\ core'.vst = s.vst
          /\ core'.dead = core.dead \cup {v} /\ core'.panic = s.panic
      BY <1>2, <3>1, <3>2, DeadOK DEF Effect
    <3>4. \A u \in VMs \ {v} : core.vst[u] = "Invalid" => core'.vst[u] = "Invalid"
      BY <1>0, <3>2, <3>3, EffectOnOthers
    <3>5. setup = "pair" =>
            /\ ~core'.panic
            /\ \A u \in core'.dead : /\ u \in core.dead \/ (u = v /\ m.kind = "remove")
                                     /\ ~In(core'.queue, u)
      BY <1>0, <1>5, <1>14, <3>2, <3>3, EffectOnOthers
    <3>6. \A u \in VMs : core.vst[u] = "Invalid" =>
            \/ core'.vst[u] = "Invalid"
            \/ u = v /\ m.kind \in {"boot", "cpu_on"}
            \/ u = v /\ m.kind = "remove" /\ u \in array
      BY <1>14, <2>2, <3>4
    <3>7. QED BY <1>1, <1>4, <1>6, <1>14, <3>1, <3>3, <3>5, <3>6, AfterPop
  <2>3. QED BY <2>1, <2>2
<1>15. QED BY <1>3, <1>10, <1>11, <1>12, <1>13, <1>14

\* The management VM's own requests, handled at once.
LEMMA LocalInv ==
  ASSUME SchedInv, NEW v \in VMs, NEW kind \in Kinds, LocalStep(kind, v), setup' = setup
  PROVE  SchedInv'
<1>0. CoreOK(core) /\ setup = "home"  BY DEF SchedInv, LocalStep
<1>1. MayAsk(kind, v) /\ asked' = asked \cup {<<kind, v>>} /\ UNCHANGED <<msgs, sgi>>
  BY DEF LocalStep
<1>2. \A k, u : (Pending(k, u))' <=> Pending(k, u)  BY <1>1 DEF Pending
<1>3. \A k, u : (Asked(k, u))' <=> Asked(k, u) \/ (k = kind /\ u = v)  BY <1>1 DEF Asked
<1>4. MainNow' = MainNow /\ MvmNow' = MvmNow /\ MainNow \subseteq VMs
  BY CoreSchedAssumption, SetupAssumption DEF MainNow, MvmNow
<1>5. \A u \in array : Asked("assign", u) /\ ~Pending("assign", u)
  BY DEF SchedInv, RequestsInv
<1>6. kind = "assign" => v \notin array /\ ~Asked("assign", v) /\ ~Pending("assign", v)
  <2>1. kind = "assign" => ~Asked("assign", v)  BY <1>1 DEF MayAsk
  <2>2. ~Asked("assign", v) => ~Pending("assign", v)  BY DEF SchedInv, RequestsInv, Kinds
  <2>3. QED BY <1>5, <2>1, <2>2
<1>7. /\ \/ kind = "assign" /\ array' = array \cup {v}
         \/ kind # "assign" /\ array' \subseteq array
      /\ CoreOK(core') /\ mode' \in {"run", "drain"} /\ dropped' \subseteq VMs
      /\ \A u \in VMs : core.vst[u] = "Invalid" => core'.vst[u] = "Invalid" \/ (u = v /\ kind = "boot")
  <2>0. mode \in {"run", "drain"} /\ dropped \subseteq VMs
    BY DEF SchedInv, RequestsInv, RequestsType
  <2>1. CASE kind = "assign" /\ HandleAssign(v)
    BY <1>0, <2>0, <2>1 DEF HandleAssign
  <2>2. CASE kind = "boot" /\ HandleBoot(v) /\ v \notin array
    BY <1>0, <2>0, <2>2 DEF HandleBoot
  <2>3. CASE kind = "boot" /\ HandleBoot(v) /\ v \in array
    <3>1. v \in MainNow /\ v # MvmNow /\ ~Asked("boot", v)  BY <1>1, <2>3 DEF MayAsk
    <3>2. core.vst[v] = "Invalid"  BY <2>3, <3>1 DEF SchedInv, RequestsInv, Gone
    <3>3. ~In(core.queue, v)  BY <1>0, <3>2, ActiveQueued
    <3>4. core' = VcpuRun(YieldTo(core, v)) /\ mode' = "run" /\ UNCHANGED <<array, dropped>>
      BY <2>3 DEF HandleBoot
    <3>5. Effect(core, core', v)  BY <1>0, <3>3, <3>4, BootOK
    <3>6. \A u \in VMs \ {v} : core.vst[u] = "Invalid" => core'.vst[u] = "Invalid"
      BY <1>0, <3>5, EffectOnOthers
    <3>7. QED BY <2>0, <2>3, <3>4, <3>5, <3>6 DEF Effect
  <2>4. CASE kind = "remove" /\ array' = array \ {v} /\ core' = VmmRemoveVcpuPercore(core, v)
             /\ UNCHANGED <<mode, dropped>>
    <3>1. core' = [core EXCEPT !.dead = @ \cup {v}]  BY <2>4 DEF VmmRemoveVcpuPercore
    <3>2. CoreOK(core') /\ core'.vst = core.vst  BY <1>0, <3>1, DeadOK
    <3>3. QED BY <2>0, <2>4, <3>2
  <2>5. QED BY <2>1, <2>2, <2>3, <2>4 DEF LocalStep
<1>8. \A u : Gone(u) => (Gone(u))'
  BY <1>2, <1>3, <1>6, <1>7 DEF Gone
<1>9. (\A u \in array : Asked("assign", u) /\ ~Pending("assign", u))'
  BY <1>2, <1>3, <1>5, <1>6, <1>7
<1>10. ASSUME NEW u \in MainNow \ {MvmNow}, ~(Asked("boot", u))' \/ (Pending("boot", u))'
       PROVE  core'.vst[u] = "Invalid" \/ (Gone(u))'
  <2>1. core.vst[u] = "Invalid" \/ Gone(u)
    BY <1>2, <1>3, <1>10 DEF SchedInv, RequestsInv
  <2>2. ~(u = v /\ kind = "boot")
    <3>1. kind = "boot" => ~Asked("boot", v)  BY <1>1 DEF MayAsk
    <3>2. ~Asked("boot", v) => ~Pending("boot", v)  BY DEF SchedInv, RequestsInv, Kinds
    <3>3. QED BY <1>2, <1>3, <1>10, <3>1, <3>2
  <2>3. QED BY <1>4, <1>7, <1>8, <2>1, <2>2
<1>11. RequestsInv'
  <2>1. RequestsType' /\ OnceEach'
    BY <1>1, <1>7 DEF SchedInv, RequestsInv, RequestsType, OnceEach
  <2>2. (\A k \in Kinds \ {"inject"}, u \in VMs : Pending(k, u) => Asked(k, u) /\ u # MvmNow)'
    BY <1>2, <1>3, <1>4 DEF SchedInv, RequestsInv
  <2>3. (\A u \in VMs : /\ Pending("boot", u) => u \in MainNow
                        /\ Pending("cpu_on", u) => u \notin MainNow)'
    BY <1>2, <1>4 DEF SchedInv, RequestsInv
  <2>4. (\A u \in MainNow \ {MvmNow} :
           ~Asked("boot", u) \/ Pending("boot", u) => core.vst[u] = "Invalid" \/ Gone(u))'
    BY <1>4, <1>10
  <2>5. QED BY <1>9, <2>1, <2>2, <2>3, <2>4 DEF RequestsInv
<1>12. QED BY <1>0, <1>7, <1>11 DEF SchedInv

LEMMA IpiInv ==
  ASSUME SchedInv, TakeIpi \/ DrainEnd \/ UNCHANGED vars, setup' = setup
  PROVE  SchedInv'
<1>1. /\ UNCHANGED <<core, array, msgs, asked, dropped>>
      /\ sgi' \in BOOLEAN /\ mode' \in {"run", "drain"}
      /\ msgs # <<>> /\ (sgi \/ mode = "drain") => sgi' \/ mode' = "drain"
  BY DEF TakeIpi, DrainEnd, vars, SchedInv, RequestsInv, RequestsType
<1>2. /\ \A kind, v : (Pending(kind, v))' <=> Pending(kind, v)
      /\ \A kind, v : (Asked(kind, v))' <=> Asked(kind, v)
      /\ \A v : (Gone(v))' <=> Gone(v)
      /\ MainNow' = MainNow /\ MvmNow' = MvmNow
  BY <1>1 DEF Pending, Asked, Gone, MainNow, MvmNow
<1>3. RequestsInv'
  BY <1>1, <1>2 DEF SchedInv, RequestsInv, RequestsType, OnceEach
<1>4. setup = "pair" => PacedInv'
  BY <1>1, <1>2 DEF SchedInv, PacedInv
<1>5. QED BY <1>1, <1>3, <1>4 DEF SchedInv

\* In the first state the core is idle, or runs the management VM.
LEMMA SchedInit == MCInit => SchedInv
<1> SUFFICES ASSUME MCInit PROVE SchedInv
  OBVIOUS
<1> USE CoreSchedAssumption, SetupAssumption
<1> DEFINE m == IF setup = "home" THEN Manager ELSE NoVM
           first == IF setup = "home" THEN {Manager} ELSE {}
<1>1. /\ core = [queue  |-> IF m = NoVM THEN <<>> ELSE <<m>>,
                 idx    |-> 0,
                 active |-> m,
                 vst    |-> [v \in VMs |-> IF v = m THEN "Running" ELSE "Invalid"],
                 frame  |-> IF m = NoVM THEN IdleFrame ELSE Fresh(m),
                 saved  |-> [v \in VMs |-> Fresh(v)],
                 parked |-> [v \in VMs |-> FALSE],
                 timer  |-> FALSE,
                 dead   |-> {},
                 panic  |-> FALSE]
      /\ array = first /\ msgs = <<>> /\ sgi = FALSE /\ mode = "run"
      /\ asked = {<<"assign", v>> : v \in first} /\ dropped = {}
      /\ setup \in {"guests", "home", "pair"}
  <2>1. CASE setup \in {"guests", "pair"} /\ Init
    BY <2>1 DEF Init, Booted
  <2>2. CASE setup = "home" /\ Home!Init
    BY <2>2 DEF Home!Init, Home!Booted, Home!IdleFrame, IdleFrame, Home!Idle, Idle,
       Home!Fresh, Fresh
  <2>3. QED BY <2>1, <2>2 DEF MCInit
<1>2. m \in VMs \cup {NoVM} /\ first \subseteq VMs /\ (setup # "home" => m = NoVM)
      /\ (setup = "home" => m # NoVM)
  OBVIOUS
<1>3. /\ core.queue = IF m = NoVM THEN <<>> ELSE <<m>>
      /\ core.idx = 0 /\ core.active = m /\ core.timer = FALSE /\ core.dead = {}
      /\ core.panic = FALSE
      /\ core.vst = [v \in VMs |-> IF v = m THEN "Running" ELSE "Invalid"]
      /\ core.frame = IF m = NoVM THEN IdleFrame ELSE Fresh(m)
      /\ core.saved = [v \in VMs |-> Fresh(v)]
      /\ core.parked = [v \in VMs |-> FALSE]
  BY <1>1
<1> HIDE DEF m
<1>4. core \in CoreRec
  <2>1. /\ core.queue \in Seq(VMs) /\ core.idx \in Nat /\ core.active \in VMs \cup {NoVM}
        /\ core.timer \in BOOLEAN /\ core.dead \in SUBSET VMs /\ core.panic \in BOOLEAN
    <3>1. core.queue \in Seq(VMs)
      <4>1. CASE m = NoVM  BY <1>3, <4>1
      <4>2. CASE m # NoVM
        <5>1. m \in VMs  BY <1>2, <4>2
        <5>2. QED BY <1>3, <4>2, <5>1
      <4>3. QED BY <4>1, <4>2
    <3>2. core.idx \in Nat /\ core.active \in VMs \cup {NoVM} /\ core.dead \in SUBSET VMs
      BY <1>2, <1>3
    <3>3. core.timer \in BOOLEAN /\ core.panic \in BOOLEAN  BY <1>1
    <3>4. QED BY <3>1, <3>2, <3>3
  <2>2. core.vst \in [VMs -> States] /\ core.parked \in [VMs -> BOOLEAN]
    BY <1>3 DEF States
  <2>3. /\ IdleFrame \in Frames
        /\ \A v \in VMs : Fresh(v) \in Frames
    BY DEF IdleFrame, Fresh, Frames
  <2>4. core.frame \in Frames /\ core.saved \in [VMs -> Frames]
    BY <1>2, <1>3, <2>3
  <2>5. core = [queue |-> core.queue, idx |-> core.idx, active |-> core.active,
                vst |-> core.vst, frame |-> core.frame, saved |-> core.saved,
                parked |-> core.parked, timer |-> core.timer, dead |-> core.dead,
                panic |-> core.panic]
    BY <1>1, <1>3
  <2>6. QED BY <2>1, <2>2, <2>4, <2>5 DEF CoreRec
<1>5. Len(core.queue) = (IF m = NoVM THEN 0 ELSE 1) /\ (m # NoVM => core.queue[1] = m)
  BY <1>3
<1>6. \A v \in VMs : In(core.queue, v) <=> v = m
  BY <1>2, <1>5 DEF In
<1>7. QueueOK(core)
  <2>1. Distinct(core.queue)  BY <1>5 DEF Distinct
  <2>2. \A v \in VMs : core.saved[v].of = v  BY <1>3 DEF Fresh
  <2>3. \A v \in VMs : core.vst[v] = IF v = m THEN "Running" ELSE "Invalid"  BY <1>3
  <2>4. QED BY <1>3, <1>4, <1>5, <1>6, <2>1, <2>2, <2>3 DEF QueueOK
<1>8. CoreOK(core)
  <2>1. core.frame.of = IF m = NoVM THEN Idle ELSE m  BY <1>3 DEF IdleFrame, Fresh
  <2>2. core.active \in VMs => ~core.parked[core.active]  BY <1>3
  <2>3. QED BY <1>3, <1>5, <1>7, <2>1, <2>2 DEF CoreOK
<1>9. \A kind, v : ~Pending(kind, v)  BY <1>1 DEF Pending
<1>10. RequestsType
  <2>1. asked \subseteq Kinds \X VMs
    <3>1. \A v \in first : <<"assign", v>> \in Kinds \X VMs  BY <1>2 DEF Kinds
    <3>2. QED BY <1>1, <3>1
  <2>2. array \subseteq VMs /\ dropped \subseteq VMs  BY <1>1, <1>2
  <2>3. msgs \in Seq(Messages) /\ Len(msgs) <= MaxMsgs  BY <1>1
  <2>4. sgi \in BOOLEAN  BY <1>1
  <2>5. QED BY <1>1, <2>1, <2>2, <2>3, <2>4 DEF RequestsType
<1>11. OnceEach  BY <1>1 DEF OnceEach
<1>12. \A v \in array : Asked("assign", v)  BY <1>1 DEF Asked
<1>13. \A v \in MainNow \ {MvmNow} : core.vst[v] = "Invalid"
  BY <1>2, <1>3 DEF MainNow, MvmNow, m
<1>14. RequestsInv  BY <1>9, <1>10, <1>11, <1>12, <1>13 DEF RequestsInv
<1>15. setup = "pair" => PacedInv
  BY <1>1, <1>3, <1>9 DEF PacedInv, Asked
<1>16. QED BY <1>8, <1>14, <1>15 DEF SchedInv

LEMMA SchedStep == SchedInv /\ [MCNext]_<<vars, setup>> => SchedInv'
<1> SUFFICES ASSUME SchedInv, [MCNext]_<<vars, setup>> PROVE SchedInv'
  OBVIOUS
<1>1. setup' = setup /\ CoreStep  BY EverySetup
<1>2. ASSUME NEW v \in VMs, NEW kind \in Kinds, SendStep(kind, v) PROVE SchedInv'
  BY <1>1, <1>2, SendInv
<1>3. ASSUME NEW v \in VMs, NEW kind \in Kinds, LocalStep(kind, v) PROVE SchedInv'
  BY <1>1, <1>3, LocalInv
<1>4. CASE TakeIpi \/ DrainEnd \/ UNCHANGED vars  BY <1>1, <1>4, IpiInv
<1>5. CASE Drain  BY <1>1, <1>5, DrainInv
<1>6. CASE TimerIrq  BY <1>1, <1>6, TimerInv
<1>7. CASE GuestSuspend  BY <1>1, <1>7, SuspendInv
<1>8. ASSUME NEW v \in VMs, DeviceIrq(v) PROVE SchedInv'
  BY <1>1, <1>8, DeviceInv
<1>9. QED BY <1>1, <1>2, <1>3, <1>4, <1>5, <1>6, <1>7, <1>8 DEF CoreStep

\* A sequence without duplicates is as long as the set of its elements.
LEMMA DistinctCount ==
  ASSUME NEW q \in Seq(VMs), Distinct(q)
  PROVE  Cardinality({q[i] : i \in 1 .. Len(q)}) = Len(q)
<1> DEFINE S == {q[i] : i \in 1 .. Len(q)}
           f == [i \in 1 .. Len(q) |-> q[i]]
<1>1. f \in Bijection(1 .. Len(q), S)
  BY DEF Distinct, Bijection, Injection, Surjection, IsInjective
<1>2. Len(q) \in Nat  OBVIOUS
<1>3. IsFiniteSet(1 .. Len(q)) /\ Cardinality(1 .. Len(q)) = Len(q)
  BY <1>2, FS_Interval
<1>4. ExistsBijection(1 .. Len(q), S)  BY <1>1 DEF ExistsBijection
<1> HIDE DEF S
<1>5. Cardinality(S) = Len(q)  BY <1>3, <1>4, FS_Bijection
<1>6. QED BY <1>5 DEF S

\* The queue of a core, its vCPU states, timer, frame and parked interrupts agree
\* in every setup: any VMs, any number of waiting messages, any order of them.
THEOREM CoreConsistentHolds == MCSpec => []CoreConsistent
<1>1. SchedInv => CoreConsistent
  <2> SUFFICES ASSUME SchedInv PROVE CoreConsistent
    OBVIOUS
  <2>1. CoreOK(core) /\ RequestsType /\ QueueOK(core) /\ core \in CoreRec
    BY DEF SchedInv, RequestsInv, CoreOK, QueueOK
  <2>2. TypeOK  BY <2>1 DEF TypeOK, RequestsType, CoreRec
  <2>3. core.queue \in Seq(VMs) /\ Distinct(core.queue)  BY <2>1 DEF QueueOK, CoreRec
  <2>4. Cardinality(Queued) = Len(core.queue)  BY <2>3, DistinctCount DEF Queued
  <2>5. Queued = {v \in VMs : core.vst[v] \in {"Ready", "Running"}}
    <3>1. \A v \in VMs : In(core.queue, v) <=> core.vst[v] \in {"Ready", "Running"}
      BY <2>1 DEF QueueOK
    <3>2. \A i \in 1 .. Len(core.queue) : core.queue[i] \in VMs  BY <2>3
    <3>3. QED BY <3>1, <3>2 DEF Queued, In
  <2>6. SchedConsistent  BY <2>1, <2>4, <2>5 DEF SchedConsistent, CoreOK, QueueOK
  <2>7. FrameMatches  BY <2>1 DEF FrameMatches, CoreOK, QueueOK
  <2>8. ParkedOffCore  BY <2>1 DEF ParkedOffCore, CoreOK
  <2>9. QED BY <2>2, <2>6, <2>7, <2>8 DEF CoreConsistent
<1>2. QED BY <1>1, SchedInit, SchedStep, PTL DEF MCSpec

\* When no request overtakes another, every message finds the vCPU it is for, no
\* vCPU of a destroyed VM is scheduled and a message has its interrupt.
THEOREM OrderedNoPanicHolds == MCSpec => []OrderedNoPanic
<1>1. SchedInv => OrderedNoPanic
  BY DEF SchedInv, PacedInv, OrderedNoPanic, NoPanic, MessagesNotified
<1>2. QED BY <1>1, SchedInit, SchedStep, PTL DEF MCSpec

-----------------------------------------------------------------------------
(* The locks of the task lists: ipi before io, and these before the others,*)
(* of which a core holds one at a time.                                    *)

Rank(l) == IF l = "ipi" THEN 1 ELSE IF l = "io" THEN 2 ELSE 3
Events == {"+", "-"} \X Locks

\* The next thing s does with lock l is to release it.
Releases(s, l) ==
    \E i \in 1 .. Len(s) : s[i] = <<"-", l>> /\ \A j \in 1 .. i - 1 : s[j] # <<"+", l>>

\* The i-th step of s takes a lock that is released later and that ranks above
\* every other lock held then.
Takes(s, i, l) ==
    /\ s[i] = <<"+", l>>
    /\ \E k \in i + 1 .. Len(s) :
         s[k] = <<"-", l>> /\ \A j \in i + 1 .. k - 1 : s[j] # <<"+", l>>
    /\ \A k \in i + 1 .. Len(s) :
         /\ s[k][1] = "-" /\ s[k][2] # l
         /\ \A j \in i + 1 .. k - 1 : s[j] # <<"+", s[k][2]>>
         => Rank(s[k][2]) < Rank(l)

\* ... or gives one back, not to do so again before it is taken again.
Gives(s, i, l) ==
    /\ s[i] = <<"-", l>>
    /\ \A k \in i + 1 .. Len(s) :
         s[k] = <<"-", l>> => \E j \in i + 1 .. k - 1 : s[j] = <<"+", l>>

Disciplined(s) == \A i \in 1 .. Len(s) : Takes(s, i, s[i][2]) \/ Gives(s, i, s[i][2])

LEMMA FunctionsDisciplined ==
  ASSUME WithRemoval = FALSE
  PROVE  \A s \in Functions : s \in Seq(Events) /\ Disciplined(s) /\ \A l : ~Releases(s, l)
<1> USE DEF Events, Locks, Acq, Rel, Guarded
<1>1. AddTask \in Seq(Events) /\ Disciplined(AddTask) /\ \A l : ~Releases(AddTask, l)
  <2> DEFINE s == AddTask
  <2>1. /\ Len(s) = 8
        /\ s[1] = <<"+", "ipi">> /\ s[2] = <<"+", "io">> /\ s[3] = <<"+", "status">>
        /\ s[4] = <<"-", "status">> /\ s[5] = <<"-", "ipi">> /\ s[6] = <<"-", "io">>
        /\ s[7] = <<"+", "ipi">> /\ s[8] = <<"-", "ipi">>
    BY DEF AddTask
  <2>2. s \in Seq(Events)
    BY DEF AddTask
  <2> HIDE DEF s
  <2>3. Disciplined(s)  BY <2>1 DEF Disciplined, Takes, Gives, Rank
  <2>4. \A l : ~Releases(s, l)  BY <2>1 DEF Releases
  <2>5. QED BY <2>2, <2>3, <2>4 DEF s
<1>2. ExePollIpi \in Seq(Events) /\ Disciplined(ExePollIpi) /\ \A l : ~Releases(ExePollIpi, l)
  <2> DEFINE s == ExePollIpi
  <2>1. /\ Len(s) = 12
        /\ s[1] = <<"+", "status">> /\ s[2] = <<"-", "status">> /\ s[3] = <<"+", "ipi">>
        /\ s[4] = <<"+", "io">> /\ s[5] = <<"-", "ipi">> /\ s[6] = <<"-", "io">>
        /\ s[7] = <<"+", "task">> /\ s[8] = <<"-", "task">> /\ s[9] = <<"+", "ipi">>
        /\ s[10] = <<"-", "ipi">> /\ s[11] = <<"+", "status">> /\ s[12] = <<"-", "status">>
    BY DEF ExePollIpi
  <2>2. s \in Seq(Events)
    BY DEF ExePollIpi
  <2> HIDE DEF s
  <2>3. Disciplined(s)  BY <2>1 DEF Disciplined, Takes, Gives, Rank
  <2>4. \A l : ~Releases(s, l)  BY <2>1 DEF Releases
  <2>5. QED BY <2>2, <2>3, <2>4 DEF s
<1>3. ExePollIo \in Seq(Events) /\ Disciplined(ExePollIo) /\ \A l : ~Releases(ExePollIo, l)
  <2> DEFINE s == ExePollIo
  <2>1. /\ Len(s) = 12
        /\ s[1] = <<"+", "status">> /\ s[2] = <<"-", "status">> /\ s[3] = <<"+", "ipi">>
        /\ s[4] = <<"+", "io">> /\ s[5] = <<"-", "ipi">> /\ s[6] = <<"-", "io">>
        /\ s[7] = <<"+", "task">> /\ s[8] = <<"-", "task">> /\ s[9] = <<"+", "io">>
        /\ s[10] = <<"-", "io">> /\ s[11] = <<"+", "status">> /\ s[12] = <<"-", "status">>
    BY DEF ExePollIo
  <2>2. s \in Seq(Events)
    BY DEF ExePollIo
  <2> HIDE DEF s
  <2>3. Disciplined(s)  BY <2>1 DEF Disciplined, Takes, Gives, Rank
  <2>4. \A l : ~Releases(s, l)  BY <2>1 DEF Releases
  <2>5. QED BY <2>2, <2>3, <2>4 DEF s
<1>4. ExeEmpty \in Seq(Events) /\ Disciplined(ExeEmpty) /\ \A l : ~Releases(ExeEmpty, l)
  <2> DEFINE s == ExeEmpty
  <2>1. /\ Len(s) = 8
        /\ s[1] = <<"+", "status">> /\ s[2] = <<"-", "status">> /\ s[3] = <<"+", "ipi">>
        /\ s[4] = <<"+", "io">> /\ s[5] = <<"+", "status">> /\ s[6] = <<"-", "status">>
        /\ s[7] = <<"-", "io">> /\ s[8] = <<"-", "ipi">>
    BY DEF ExeEmpty
  <2>2. s \in Seq(Events)
    BY DEF ExeEmpty
  <2> HIDE DEF s
  <2>3. Disciplined(s)  BY <2>1 DEF Disciplined, Takes, Gives, Rank
  <2>4. \A l : ~Releases(s, l)  BY <2>1 DEF Releases
  <2>5. QED BY <2>2, <2>3, <2>4 DEF s
<1>5. FinishTask \in Seq(Events) /\ Disciplined(FinishTask) /\ \A l : ~Releases(FinishTask, l)
  <2> DEFINE s == FinishTask
  <2>1. /\ Len(s) = 6
        /\ s[1] = <<"+", "ipi">> /\ s[2] = <<"+", "io">> /\ s[3] = <<"-", "io">>
        /\ s[4] = <<"-", "ipi">> /\ s[5] = <<"+", "info">> /\ s[6] = <<"-", "info">>
    BY DEF FinishTask
  <2>2. s \in Seq(Events)
    BY DEF FinishTask
  <2> HIDE DEF s
  <2>3. Disciplined(s)  BY <2>1 DEF Disciplined, Takes, Gives, Rank
  <2>4. \A l : ~Releases(s, l)  BY <2>1 DEF Releases
  <2>5. QED BY <2>2, <2>3, <2>4 DEF s
<1>6. SetFront \in Seq(Events) /\ Disciplined(SetFront) /\ \A l : ~Releases(SetFront, l)
  <2> DEFINE s == SetFront
  <2>1. /\ Len(s) = 4
        /\ s[1] = <<"+", "io">> /\ s[2] = <<"+", "task">> /\ s[3] = <<"-", "task">>
        /\ s[4] = <<"-", "io">>
    BY DEF SetFront
  <2>2. s \in Seq(Events)
    BY DEF SetFront
  <2> HIDE DEF s
  <2>3. Disciplined(s)  BY <2>1 DEF Disciplined, Takes, Gives, Rank
  <2>4. \A l : ~Releases(s, l)  BY <2>1 DEF Releases
  <2>5. QED BY <2>2, <2>3, <2>4 DEF s
<1>7. QED BY <1>1, <1>2, <1>3, <1>4, <1>5, <1>6 DEF Functions

\* What the first step of s changes.
LEMMA FirstEvent ==
  ASSUME NEW s \in Seq(Events), s # <<>>, Disciplined(s)
  PROVE  /\ Head(s) \in Events /\ Head(s) = <<Head(s)[1], Head(s)[2]>>
         /\ Tail(s) \in Seq(Events) /\ Disciplined(Tail(s))
         /\ \A l : Releases(Tail(s), l) <=>
              IF Head(s)[1] = "+" THEN Releases(s, l) \/ l = Head(s)[2]
              ELSE Releases(s, l) /\ l # Head(s)[2]
         /\ Head(s)[1] = "+" =>
              \A l : Releases(s, l) => l # Head(s)[2] /\ Rank(l) < Rank(Head(s)[2])
<1> DEFINE t == Tail(s)
           m == s[1][2]
<1>1. /\ Len(s) \in Nat \ {0} /\ Head(s) = s[1] /\ s[1] \in Events
      /\ t \in Seq(Events) /\ Len(t) = Len(s) - 1
      /\ \A i \in 1 .. Len(t) : t[i] = s[i + 1]
  OBVIOUS
<1>2. s[1] = <<s[1][1], m>> /\ s[1][1] \in {"+", "-"}  BY <1>1 DEF Events
<1> HIDE DEF t
<1>3. \A i \in 2 .. Len(s) : s[i] = t[i - 1]  BY <1>1
<1>4. Disciplined(t)
  <2> SUFFICES ASSUME NEW i \in 1 .. Len(t)
               PROVE  Takes(t, i, t[i][2]) \/ Gives(t, i, t[i][2])
    BY DEF Disciplined
  <2> DEFINE l == t[i][2]
             h == i + 1
  <2>1. h \in 1 .. Len(s) /\ t[i] = s[h] /\ i \in Nat /\ h \in Nat /\ h - 1 = i  BY <1>1
  <2>2. Takes(s, h, l) \/ Gives(s, h, l)  BY <2>1 DEF Disciplined
  <2>3. \A k \in i + 1 .. Len(t) : k \in Int /\ k + 1 \in h + 1 .. Len(s) /\ s[k + 1] = t[k]
    BY <1>1, <2>1
  <2>4. \A k \in h + 1 .. Len(s) : k \in Int /\ k - 1 \in i + 1 .. Len(t) /\ t[k - 1] = s[k]
    BY <1>1, <2>1
  <2>5. CASE Takes(s, h, l)
    <3>1. \E k \in i + 1 .. Len(t) :
             t[k] = <<"-", l>> /\ \A j \in i + 1 .. k - 1 : t[j] # <<"+", l>>
      <4>1. PICK k \in h + 1 .. Len(s) :
               s[k] = <<"-", l>> /\ \A j \in h + 1 .. k - 1 : s[j] # <<"+", l>>
        BY <2>5 DEF Takes
      <4>2. k - 1 \in i + 1 .. Len(t) /\ t[k - 1] = s[k]  BY <2>4
      <4>3. \A j \in i + 1 .. (k - 1) - 1 : t[j] = s[j + 1] /\ j + 1 \in h + 1 .. k - 1
        BY <2>3, <4>2
      <4>4. QED BY <4>1, <4>2, <4>3
    <3>2. ASSUME NEW k \in i + 1 .. Len(t), t[k][1] = "-", t[k][2] # l,
                 \A j \in i + 1 .. k - 1 : t[j] # <<"+", t[k][2]>>
          PROVE  Rank(t[k][2]) < Rank(l)
      <4>1. k + 1 \in h + 1 .. Len(s) /\ s[k + 1] = t[k]  BY <2>3
      <4>2. \A j \in h + 1 .. (k + 1) - 1 : s[j] = t[j - 1] /\ j - 1 \in i + 1 .. k - 1
        BY <2>1, <2>4, <4>1
      <4>3. QED BY <2>5, <3>2, <4>1, <4>2 DEF Takes
    <3>3. t[i] = <<"+", l>>  BY <2>1, <2>5 DEF Takes
    <3>4. QED BY <3>1, <3>2, <3>3 DEF Takes
  <2>6. CASE Gives(s, h, l)
    <3>1. ASSUME NEW k \in i + 1 .. Len(t), t[k] = <<"-", l>>
          PROVE  \E j \in i + 1 .. k - 1 : t[j] = <<"+", l>>
      <4>1. k + 1 \in h + 1 .. Len(s) /\ s[k + 1] = t[k]  BY <2>3
      <4>2. PICK j \in h + 1 .. (k + 1) - 1 : s[j] = <<"+", l>>  BY <2>6, <3>1, <4>1 DEF Gives
      <4>3. j \in h + 1 .. Len(s) /\ j - 1 \in i + 1 .. k - 1  BY <2>1, <4>1
      <4>4. t[j - 1] = s[j]  BY <2>4, <4>3
      <4>5. QED BY <4>2, <4>3, <4>4
    <3>2. t[i] = <<"-", l>>  BY <2>1, <2>6 DEF Gives
    <3>3. QED BY <3>1, <3>2 DEF Gives
  <2>7. QED BY <2>2, <2>5, <2>6
<1>5. ASSUME NEW l, l # m PROVE Releases(t, l) <=> Releases(s, l)
  <2>1. ASSUME Releases(s, l) PROVE Releases(t, l)
    <3>1. PICK k \in 1 .. Len(s) : s[k] = <<"-", l>> /\ \A j \in 1 .. k - 1 : s[j] # <<"+", l>>
      BY <2>1 DEF Releases
    <3>2. k # 1  BY <1>2, <1>5, <3>1
    <3>3. k - 1 \in 1 .. Len(t) /\ t[k - 1] = s[k]  BY <1>1, <3>2
    <3>4. \A j \in 1 .. (k - 1) - 1 : t[j] = s[j + 1] /\ j + 1 \in 1 .. k - 1  BY <1>1
    <3>5. QED BY <3>1, <3>3, <3>4 DEF Releases
  <2>2. ASSUME Releases(t, l) PROVE Releases(s, l)
    <3>1. PICK k \in 1 .. Len(t) : t[k] = <<"-", l>> /\ \A j \in 1 .. k - 1 : t[j] # <<"+", l>>
      BY <2>2 DEF Releases
    <3>2. k + 1 \in 1 .. Len(s) /\ s[k + 1] = t[k]  BY <1>1
    <3>3. \A j \in 1 .. (k + 1) - 1 : s[j] # <<"+", l>>
      <4> SUFFICES ASSUME NEW j \in 1 .. (k + 1) - 1 PROVE s[j] # <<"+", l>>
        OBVIOUS
      <4>1. CASE j = 1  BY <1>2, <1>5, <4>1
      <4>2. CASE j # 1
        <5>1. s[j] = t[j - 1] /\ j - 1 \in 1 .. k - 1  BY <1>1, <1>3, <3>2, <4>2
        <5>2. QED BY <3>1, <5>1
      <4>3. QED BY <4>1, <4>2
    <3>4. QED BY <3>1, <3>2, <3>3 DEF Releases
  <2>3. QED BY <2>1, <2>2
<1>6. 1 \in 1 .. Len(s) /\ (Takes(s, 1, m) \/ Gives(s, 1, m))  BY <1>1 DEF Disciplined
<1>7. CASE s[1][1] = "+"
  <2>1. Takes(s, 1, m)
    <3>1. s[1] # <<"-", m>>  BY <1>7
    <3>2. QED BY <1>6, <3>1 DEF Gives
  <2>2. Releases(t, m)
    <3>1. PICK k \in 1 + 1 .. Len(s) : s[k] = <<"-", m>> /\ \A j \in 1 + 1 .. k - 1 : s[j] # <<"+", m>>
      BY <2>1 DEF Takes
    <3>2. k - 1 \in 1 .. Len(t) /\ t[k - 1] = s[k]  BY <1>1
    <3>3. \A j \in 1 .. (k - 1) - 1 : t[j] = s[j + 1] /\ j + 1 \in 1 + 1 .. k - 1  BY <1>1
    <3>4. QED BY <3>1, <3>2, <3>3 DEF Releases
  <2>3. ASSUME NEW l, l # m, Releases(s, l) PROVE Rank(l) < Rank(m)
    <3>1. PICK k \in 1 .. Len(s) : s[k] = <<"-", l>> /\ \A j \in 1 .. k - 1 : s[j] # <<"+", l>>
      BY <2>3 DEF Releases
    <3>2. k # 1  BY <1>2, <2>3, <3>1
    <3>3. k \in 1 + 1 .. Len(s) /\ s[k][1] = "-" /\ s[k][2] = l  BY <3>1, <3>2
    <3>4. \A j \in 1 + 1 .. k - 1 : s[j] # <<"+", s[k][2]>>  BY <3>1, <3>3
    <3>5. QED BY <2>1, <2>3, <3>3, <3>4 DEF Takes
  <2>4. ~Releases(s, m)  BY <1>1, <1>2, <1>7 DEF Releases
  <2>5. QED BY <1>1, <1>2, <1>4, <1>5, <1>7, <2>2, <2>3, <2>4 DEF t
<1>8. CASE s[1][1] = "-"
  <2>1. Gives(s, 1, m)
    <3>1. s[1] # <<"+", m>>  BY <1>8
    <3>2. QED BY <1>6, <3>1 DEF Takes
  <2>2. ~Releases(t, m)
    <3> SUFFICES ASSUME NEW k \in 1 .. Len(t), t[k] = <<"-", m>>
                 PROVE  \E j \in 1 .. k - 1 : t[j] = <<"+", m>>
      BY DEF Releases
    <3>1. k + 1 \in 1 + 1 .. Len(s) /\ s[k + 1] = t[k]  BY <1>1
    <3>2. PICK j \in 1 + 1 .. (k + 1) - 1 : s[j] = <<"+", m>>  BY <2>1, <3>1 DEF Gives
    <3>3. j - 1 \in 1 .. k - 1 /\ t[j - 1] = s[j]  BY <1>1, <1>3, <3>2
    <3>4. QED BY <3>2, <3>3
  <2>3. QED BY <1>1, <1>2, <1>4, <1>5, <1>8, <2>2 DEF t
<1>9. QED BY <1>2, <1>7, <1>8

\* A core holds exactly the locks that the rest of its function gives back.
LockInv ==
    /\ holder \in [Locks -> Cores \cup {Free}]
    /\ todo \in [Cores -> Seq(Events)]
    /\ \A c \in Cores : Disciplined(todo[c])
    /\ \A c \in Cores, l \in Locks : holder[l] = c <=> Releases(todo[c], l)

LEMMA LockInvInit == LocksInit /\ Free \notin Cores => LockInv
<1>1. \A l : ~Releases(<<>>, l)  BY DEF Releases
<1>2. Disciplined(<<>>)  BY DEF Disciplined
<1>3. QED BY <1>1, <1>2 DEF LocksInit, LockInv

LEMMA LockInvStep ==
  ASSUME WithRemoval = FALSE, Free \notin Cores, LockInv, [LocksNext]_lockVars
  PROVE  LockInv'
<1>1. [LocksNext]_<<holder, todo>>
  BY DEF lockVars
<1>2. ASSUME NEW c \in Cores, Call(c) PROVE LockInv'
  <2>1. PICK f \in Functions : todo' = [todo EXCEPT ![c] = f]
    BY <1>2 DEF Call
  <2>2. todo[c] = <<>> /\ holder' = holder  BY <1>2 DEF Call
  <2>3. f \in Seq(Events) /\ Disciplined(f) /\ \A l : ~Releases(f, l)
    BY FunctionsDisciplined
  <2>4. \A l : ~Releases(todo[c], l)  BY <2>2 DEF Releases
  <2>5. QED BY <2>1, <2>2, <2>3, <2>4 DEF LockInv
<1>3. ASSUME NEW c \in Cores, Acquire(c) \/ Release(c) PROVE LockInv'
  <2> DEFINE s == todo[c]
             l == Head(s)[2]
  <2>1. s \in Seq(Events) /\ s # <<>> /\ Disciplined(s)
    BY <1>3 DEF LockInv, Acquire, Release
  <2>2. /\ Head(s) \in Events
        /\ Tail(s) \in Seq(Events) /\ Disciplined(Tail(s))
        /\ \A m : Releases(Tail(s), m) <=>
             IF Head(s)[1] = "+" THEN Releases(s, m) \/ m = l
             ELSE Releases(s, m) /\ m # l
    BY <2>1, FirstEvent
  <2>3. l \in Locks  BY <2>2 DEF Events
  <2>4. todo' = [todo EXCEPT ![c] = Tail(s)]
    BY <1>3 DEF Acquire, Release
  <2>5. Releases(s, l) <=> holder[l] = c  BY <2>3 DEF LockInv
  <2>6. CASE Acquire(c)
    <3>1. Head(s)[1] = "+" /\ holder[l] = Free /\ holder' = [holder EXCEPT ![l] = c]
      BY <2>6 DEF Acquire
    <3> HIDE DEF s, l
    <3>2. \A d \in Cores, m \in Locks : holder'[m] = d <=> Releases(todo'[d], m)
      <4> SUFFICES ASSUME NEW d \in Cores, NEW m \in Locks
                   PROVE  holder'[m] = d <=> Releases(todo'[d], m)
        OBVIOUS
      <4>1. holder[m] = d <=> Releases(todo[d], m)  BY DEF LockInv
      <4>2. CASE d = c
        <5>1. todo'[d] = Tail(s) /\ todo[d] = s  BY <2>4, <4>2 DEF LockInv, s
        <5>2. QED BY <2>2, <2>3, <3>1, <4>1, <4>2, <5>1 DEF LockInv
      <4>3. CASE d # c
        <5>1. todo'[d] = todo[d]  BY <2>4, <4>3 DEF LockInv
        <5>2. CASE m = l  BY <2>3, <3>1, <4>1, <4>3, <5>1, <5>2 DEF LockInv
        <5>3. CASE m # l  BY <2>3, <3>1, <4>1, <5>1, <5>3 DEF LockInv
        <5>4. QED BY <5>2, <5>3
      <4>4. QED BY <4>2, <4>3
    <3>3. QED BY <2>2, <2>3, <2>4, <3>1, <3>2 DEF LockInv
  <2>7. CASE Release(c)
    <3>1. Head(s)[1] = "-" /\ holder' = [holder EXCEPT ![l] = Free]
      BY <2>7 DEF Release
    <3>2. Releases(s, l)
      <4>1. Head(s) = <<"-", l>> /\ s[1] = Head(s) /\ 1 \in 1 .. Len(s)  BY <2>1, <3>1, FirstEvent
      <4>2. QED BY <4>1 DEF Releases
    <3> HIDE DEF s, l
    <3>3. \A d \in Cores, m \in Locks : holder'[m] = d <=> Releases(todo'[d], m)
      <4> SUFFICES ASSUME NEW d \in Cores, NEW m \in Locks
                   PROVE  holder'[m] = d <=> Releases(todo'[d], m)
        OBVIOUS
      <4>1. holder[m] = d <=> Releases(todo[d], m)  BY DEF LockInv
      <4>2. CASE d = c
        <5>1. todo'[d] = Tail(s) /\ todo[d] = s  BY <2>4, <4>2 DEF LockInv, s
        <5>2. Releases(Tail(s), m) <=> Releases(s, m) /\ m # l  BY <2>2, <3>1
        <5>3. holder'[m] = d <=> holder[m] = d /\ m # l  BY <2>3, <3>1 DEF LockInv
        <5>4. QED BY <4>1, <5>1, <5>2, <5>3
      <4>3. CASE d # c
        <5>1. todo'[d] = todo[d]  BY <2>4, <4>3 DEF LockInv
        <5>2. CASE m = l
          BY <2>3, <2>5, <3>1, <3>2, <4>1, <4>3, <5>1, <5>2 DEF LockInv
        <5>3. CASE m # l  BY <2>3, <3>1, <4>1, <5>1, <5>3 DEF LockInv
        <5>4. QED BY <5>2, <5>3
      <4>4. QED BY <4>2, <4>3
    <3>4. QED BY <2>2, <2>3, <2>4, <3>1, <3>3 DEF LockInv
  <2>8. QED BY <1>3, <2>6, <2>7
<1>4. CASE UNCHANGED <<holder, todo>>  BY <1>4 DEF LockInv
<1>5. QED BY <1>1, <1>2, <1>3, <1>4 DEF LocksNext

\* The order of the locks: any number of cores in any of the functions of
\* async_task.rs but remove_vm_async_task, and never a circle of them waiting.
THEOREM NoCircularWaitHolds ==
  ASSUME WithRemoval = FALSE, Free \notin Cores
  PROVE  LocksSpec => []NoCircularWait
<1>1. LocksInit => LockInv  BY LockInvInit
<1>2. LockInv /\ [LocksNext]_lockVars => LockInv'  BY LockInvStep
<1>3. LockInv => NoCircularWait
  <2> SUFFICES ASSUME LockInv, NEW S \in (SUBSET Cores) \ {{}},
                      \A c \in S : \E d \in S \cup {e \in Cores : todo[e] = <<>>} :
                         WaitsFor(c, d)
               PROVE  FALSE
    BY DEF NoCircularWait
  <2> DEFINE want(c) == Head(todo[c])[2]
  <2>1. ASSUME NEW c \in S
        PROVE  \E d \in S : Rank(want(c)) < Rank(want(d))
    <3>1. PICK d \in S \cup {e \in Cores : todo[e] = <<>>} : WaitsFor(c, d)
      OBVIOUS
    <3>2. c \in Cores /\ d \in Cores  OBVIOUS
    <3>3. todo[c] # <<>> /\ holder[want(c)] = d  BY <3>1 DEF WaitsFor
    <3>4. todo[c] \in Seq(Events) /\ Disciplined(todo[c])  BY <3>2 DEF LockInv
    <3>5. want(c) \in Locks
      <4>1. Head(todo[c]) \in Events  BY <3>3, <3>4, FirstEvent
      <4>2. QED BY <4>1 DEF Events
    <3>6. Releases(todo[d], want(c))  BY <3>2, <3>3, <3>5 DEF LockInv
    <3>7. todo[d] # <<>>  BY <3>6 DEF Releases
    <3>8. d \in S  BY <3>1, <3>7
    <3>9. PICK e \in S \cup {x \in Cores : todo[x] = <<>>} : WaitsFor(d, e)
      BY <3>8
    <3>10. Head(todo[d])[1] = "+" /\ holder[want(d)] = e  BY <3>9 DEF WaitsFor
    <3>11. todo[d] \in Seq(Events) /\ Disciplined(todo[d])  BY <3>2 DEF LockInv
    <3>12. QED BY <3>6, <3>7, <3>8, <3>10, <3>11, FirstEvent
  <2>2. \A l : Rank(l) \in 1 .. 3  BY DEF Rank
  <2> DEFINE R(c) == Rank(want(c))
  <2>3. \A c \in S : R(c) \in 1 .. 3 /\ \E d \in S : R(c) < R(d)  BY <2>1, <2>2
  <2> HIDE DEF R
  <2>4. PICK c1 \in S : TRUE  OBVIOUS
  <2>5. PICK c2 \in S : R(c1) < R(c2)  BY <2>3, <2>4
  <2>6. PICK c3 \in S : R(c2) < R(c3)  BY <2>3, <2>5
  <2>7. PICK c4 \in S : R(c3) < R(c4)  BY <2>3, <2>6
  <2>8. QED BY <2>3, <2>5, <2>6, <2>7
<1>4. QED BY <1>1, <1>2, <1>3, PTL DEF LocksSpec

-----------------------------------------------------------------------------
(* The registers of a virtio device.                                       *)

Halves == {"lo", "hi"}

\* What the set-up of a queue has done so far, for its area a.
AreaAsTold(qu, at, left, a) ==
    /\ qu.addr[a].lo = IF <<a, "lo">> \in left THEN {} ELSE at.lo
    /\ qu.addr[a].hi = IF <<a, "hi">> \in left THEN {} ELSE at.hi
    /\ qu.ring[a] = IF <<a, "hi">> \in left THEN {} ELSE {at}
    /\ <<a, "lo">> \in left => <<a, "hi">> \in left

Untouched(qu) ==
    qu.ready = 0 /\ \A a \in Areas : qu.addr[a] = Zero /\ qu.ring[a] = {}

\* Every queue but the one at hand is as after a reset, or set up.
QueuesInv ==
    LET stage == drv.pc IN
    /\ MmioTypeOK
    /\ stage # "start" => \A i \in Queues : drv.at[i] # Zero
    /\ stage \in {"features", "low", "selhigh", "high", "ok"} =>
         ~activated /\ \A i \in Queues : Untouched(queue[i])
    /\ stage \in {"queues", "num", "addr"} =>
         \A i \in Queues : \/ queue[i].ready = 1 /\ \A a \in Areas : queue[i].ring[a] = {drv.at[i]}
                           \/ Untouched(queue[i])
                           \/ i = regs.qSel /\ stage = "addr"
    /\ stage \in {"num", "addr"} => regs.qSel \in Queues
    /\ stage = "num" => Untouched(queue[regs.qSel]) /\ drv.todo = Areas \X Halves
    /\ stage = "addr" =>
         /\ queue[regs.qSel].ready = 0
         /\ \A a \in Areas : AreaAsTold(queue[regs.qSel], drv.at[regs.qSel], drv.todo, a)
    /\ stage = "running" => \A i \in Queues, a \in Areas : queue[i].ring[a] = {drv.at[i]}

LEMMA QueuesInit == MmioInit => QueuesInv
<1> SUFFICES ASSUME MmioInit PROVE QueuesInv
  OBVIOUS
<1>1. drv.pc = "start"  BY DEF MmioInit
<1>2. MmioTypeOK
  <2> USE DEF Zero, Wide, Half
  <2>1. Zero \in Wide  OBVIOUS
  <2>2. regs \in [stat : {0, 11, 15}, drvSel : {0, 1}, qSel : Queues \cup {0}]
    BY DEF MmioInit
  <2>3. activated \in BOOLEAN /\ features \in Wide  BY <2>1 DEF MmioInit
  <2>4. queue \in [Queues -> [num : {0, 1}, ready : {0, 1}, addr : [Areas -> Wide],
                             ring : [Areas -> SUBSET Wide]]]
    BY <2>1 DEF MmioInit, EmptyQueue
  <2>5. drv \in [pc : {"start", "features", "low", "selhigh", "high", "ok", "queues", "num",
                       "addr", "running"},
                 accepted : Wide, at : [Queues -> Wide],
                 todo : SUBSET (Areas \X {"lo", "hi"})]
    BY <2>1 DEF MmioInit
  <2>6. QED BY <2>2, <2>3, <2>4, <2>5 DEF MmioTypeOK
<1>3. QED BY <1>1, <1>2 DEF QueuesInv

QueueRec == [num : {0, 1}, ready : {0, 1}, addr : [Areas -> Wide],
             ring : [Areas -> SUBSET Wide]]
DriverRec == [pc : {"start", "features", "low", "selhigh", "high", "ok", "queues", "num",
                    "addr", "running"},
              accepted : Wide, at : [Queues -> Wide],
              todo : SUBSET (Areas \X Halves)]

LEMMA QueuesStep ==
  ASSUME HighFirst = FALSE, QueuesInv, [MmioNext]_mmioVars
  PROVE  QueuesInv'
<1> DEFINE T == /\ regs \in [stat : {0, 11, 15}, drvSel : {0, 1}, qSel : Queues \cup {0}]
                /\ features \in Wide
                /\ queue \in [Queues -> QueueRec]
                /\ activated \in BOOLEAN
                /\ drv \in DriverRec
<1>0. MmioTypeOK <=> T
  BY DEF MmioTypeOK, QueueRec, DriverRec, Halves
<1>a. MmioTypeOK' <=> T'
  BY DEF MmioTypeOK, QueueRec, DriverRec, Halves
<1> HIDE DEF T
<1>1. [MmioNext]_<<regs, features, queue, activated, drv>>
  BY DEF mmioVars
<1>2. T  BY <1>0 DEF QueuesInv
<1>3. drv \in DriverRec /\ queue \in [Queues -> QueueRec]  BY <1>2 DEF T
<1>4. CASE Reset
  <2>1. PICK acc \in Wide, at \in [Queues -> Wide \ {Zero}] :
           drv' = [pc |-> "features", accepted |-> acc, at |-> at, todo |-> Areas \X {"lo", "hi"}]
    BY <1>4 DEF Reset
  <2>2. /\ regs' = [regs EXCEPT !.stat = 0]
        /\ queue' = [i \in Queues |-> EmptyQueue]
        /\ activated' = FALSE /\ features' = features
    BY <1>4 DEF Reset, DevReset, ResetQueue
  <2>3. EmptyQueue \in QueueRec /\ Untouched(EmptyQueue)
    BY DEF EmptyQueue, QueueRec, Untouched, Zero, Wide, Half
  <2>4. drv'.pc = "features" /\ drv'.at = at /\ drv' \in DriverRec
    BY <2>1 DEF DriverRec, Halves
  <2>5. T'
    <3>1. regs' \in [stat : {0, 11, 15}, drvSel : {0, 1}, qSel : Queues \cup {0}]
      BY <1>2, <2>2 DEF T
    <3>2. QED BY <1>2, <2>2, <2>3, <2>4, <3>1 DEF T
  <2>6. QED BY <1>a, <2>2, <2>3, <2>4, <2>5 DEF QueuesInv
<1>5. CASE SelectLow \/ WriteLow \/ SelectHigh \/ WriteHigh
  <2>1. /\ drv.pc \in {"features", "low", "selhigh", "high"}
        /\ \E to \in {"low", "selhigh", "high", "ok"} : drv' = [drv EXCEPT !.pc = to]
        /\ UNCHANGED <<regs, queue, activated>>
    BY <1>5 DEF SelectLow, WriteLow, SelectHigh, WriteHigh,
       Step, SetDrvFeatureSel, OrDriverFeature
  <2>2. drv' \in DriverRec /\ drv'.pc \in {"low", "selhigh", "high", "ok"} /\ drv'.at = drv.at
    BY <1>3, <2>1 DEF DriverRec
  <2>3. features' \in Wide
    <3>1. drv.accepted \in Wide /\ features \in Wide  BY <1>2, <1>3 DEF T, DriverRec
    <3>2. QED BY <1>5, <3>1 DEF SelectLow, WriteLow, SelectHigh,
          WriteHigh, SetDrvFeatureSel, OrDriverFeature,
          Wide, Half
  <2>4. T'  BY <1>2, <2>1, <2>2, <2>3 DEF T
  <2>5. QED BY <1>a, <2>1, <2>2, <2>4 DEF QueuesInv
<1>6. CASE FeaturesOk
  <2>1. /\ drv.pc = "ok" /\ drv' = [drv EXCEPT !.pc = "queues"]
        /\ regs' = [regs EXCEPT !.stat = 11] /\ UNCHANGED <<features, queue, activated>>
    BY <1>6 DEF FeaturesOk, Step, SetStatus
  <2>2. drv' \in DriverRec /\ drv'.pc = "queues" /\ drv'.at = drv.at
    BY <1>3, <2>1 DEF DriverRec
  <2>3. T'
    <3>1. regs' \in [stat : {0, 11, 15}, drvSel : {0, 1}, qSel : Queues \cup {0}]
      BY <1>2, <2>1 DEF T
    <3>2. QED BY <1>2, <2>1, <2>2, <3>1 DEF T
  <2>4. QED BY <1>a, <2>1, <2>2, <2>3 DEF QueuesInv
<1>7. CASE SelectQueue
  <2>1. PICK i \in Queues : queue[i].ready = 0 /\ regs' = [regs EXCEPT !.qSel = i]
    BY <1>7 DEF SelectQueue, SetQueueSel
  <2>2. /\ drv.pc = "queues" /\ drv' = [drv EXCEPT !.pc = "num", !.todo = Areas \X {"lo", "hi"}]
        /\ UNCHANGED <<features, queue, activated>>
    BY <1>7 DEF SelectQueue, SetQueueSel
  <2>3. drv' \in DriverRec /\ drv'.pc = "num" /\ drv'.at = drv.at /\ drv'.todo = Areas \X Halves
    BY <1>3, <2>2 DEF DriverRec, Halves
  <2>4. /\ regs' \in [stat : {0, 11, 15}, drvSel : {0, 1}, qSel : Queues \cup {0}]
        /\ regs'.qSel = i
    BY <1>2, <2>1 DEF T
  <2>5. T'  BY <1>2, <2>2, <2>3, <2>4 DEF T
  <2>6. Untouched(queue[i])  BY <2>1, <2>2 DEF QueuesInv
  <2>7. QED BY <1>a, <2>2, <2>3, <2>4, <2>5, <2>6 DEF QueuesInv
<1>8. CASE WriteNum
  <2> DEFINE i == regs.qSel
  <2>1. /\ drv.pc = "num" /\ drv' = [drv EXCEPT !.pc = "addr"]
        /\ queue' = [queue EXCEPT ![i].num = 1] /\ UNCHANGED <<regs, features, activated>>
    BY <1>8 DEF WriteNum, Step, SetQueueNum
  <2>2. drv' \in DriverRec /\ drv'.pc = "addr" /\ drv'.at = drv.at /\ drv'.todo = drv.todo
    BY <1>3, <2>1 DEF DriverRec
  <2>3. i \in Queues /\ Untouched(queue[i]) /\ drv.todo = Areas \X Halves  BY <2>1 DEF QueuesInv
  <2>4. /\ queue' \in [Queues -> QueueRec]
        /\ \A j \in Queues : /\ queue'[j].ready = queue[j].ready
                             /\ queue'[j].addr = queue[j].addr /\ queue'[j].ring = queue[j].ring
    BY <1>3, <2>1, <2>3 DEF QueueRec
  <2>5. T'  BY <1>2, <2>1, <2>2, <2>4 DEF T
  <2>6. \A j \in Queues : Untouched(queue[j]) => Untouched(queue'[j])  BY <2>4 DEF Untouched
  <2>7. ASSUME NEW a \in Areas
        PROVE  AreaAsTold(queue'[i], drv.at[i], drv.todo, a)
    <3>1. queue'[i].addr[a] = Zero /\ queue'[i].ring[a] = {}
      BY <2>3, <2>6 DEF Untouched
    <3>2. <<a, "lo">> \in drv.todo /\ <<a, "hi">> \in drv.todo  BY <2>3 DEF Halves
    <3>3. QED BY <3>1, <3>2 DEF AreaAsTold, Zero
  <2>8. \A j \in Queues : \/ queue'[j].ready = 1 /\ \A a \in Areas : queue'[j].ring[a] = {drv'.at[j]}
                         \/ Untouched(queue'[j])
    BY <2>1, <2>2, <2>3, <2>4, <2>6 DEF QueuesInv
  <2>9. queue'[i].ready = 0  BY <2>3, <2>4 DEF Untouched
  <2>10. regs'.qSel = i  BY <2>1
  <2> HIDE DEF i
  <2>11. QED BY <1>a, <2>1, <2>2, <2>3, <2>5, <2>7, <2>8, <2>9, <2>10 DEF QueuesInv
<1>9. CASE WriteAddr
  <2> DEFINE i == regs.qSel
             at == drv.at[i]
  <2>1. PICK a \in Areas, h \in {"lo", "hi"} :
          /\ <<a, h>> \in drv.todo
          /\ h = "hi" => <<a, "lo">> \notin drv.todo
          /\ IF h = "lo" THEN OrAddrLow(a, at.lo) ELSE OrAddrHigh(a, at.hi)
          /\ drv' = [drv EXCEPT !.todo = @ \ {<<a, h>>}]
    BY <1>9 DEF WriteAddr
  <2>2. drv.pc = "addr" /\ UNCHANGED <<regs, features, activated>>
    BY <1>9, <2>1 DEF WriteAddr, OrAddrLow, OrAddrHigh
  <2>3. /\ drv' \in DriverRec /\ drv'.pc = "addr" /\ drv'.at = drv.at
        /\ drv'.todo = drv.todo \ {<<a, h>>}
    BY <1>3, <2>1, <2>2 DEF DriverRec
  <2>4. /\ i \in Queues /\ queue[i].ready = 0 /\ at \in Wide /\ at # Zero
        /\ \A b \in Areas : AreaAsTold(queue[i], at, drv.todo, b)
    BY <1>3, <2>2 DEF QueuesInv, DriverRec
  <2> DEFINE old == queue[i]
             new == queue'[i]
  <2>5. old \in QueueRec /\ old.addr[a] \in Wide
    BY <1>3, <2>4 DEF QueueRec
  <2>6. CASE h = "lo"
    <3> DEFINE w == [old.addr[a] EXCEPT !.lo = @ \cup at.lo]
    <3>1. queue' = [queue EXCEPT ![i] = [old EXCEPT !.addr = [old.addr EXCEPT ![a] = w]]]
      BY <2>1, <2>6 DEF OrAddrLow
    <3>2. w \in Wide /\ w.lo = at.lo /\ w.hi = old.addr[a].hi
      BY <2>1, <2>4, <2>5, <2>6 DEF Wide, Half, AreaAsTold
    <3> HIDE DEF w
    <3>3. /\ queue' \in [Queues -> QueueRec]
          /\ \A j \in Queues \ {i} : queue'[j] = queue[j]
          /\ new.ready = 0 /\ new.ring = old.ring /\ new.addr = [old.addr EXCEPT ![a] = w]
      BY <1>3, <2>4, <2>5, <3>1, <3>2 DEF QueueRec
    <3>4. ASSUME NEW b \in Areas
          PROVE  AreaAsTold(new, at, drv'.todo, b)
      <4>1. AreaAsTold(old, at, drv.todo, b) /\ AreaAsTold(old, at, drv.todo, a)  BY <2>4
      <4>2. CASE b = a
        <5>1. new.addr[a] = w /\ new.ring[a] = old.ring[a]  BY <2>5, <3>3 DEF QueueRec
        <5>2. <<a, "lo">> \notin drv'.todo /\ (<<a, "hi">> \in drv'.todo <=> <<a, "hi">> \in drv.todo)
          BY <2>3, <2>6
        <5>3. QED BY <3>2, <4>1, <4>2, <5>1, <5>2 DEF AreaAsTold
      <4>3. CASE b # a
        <5>1. new.addr[b] = old.addr[b] /\ new.ring[b] = old.ring[b]  BY <2>5, <3>3, <4>3 DEF QueueRec
        <5>2. \A k \in Halves : <<b, k>> \in drv'.todo <=> <<b, k>> \in drv.todo  BY <2>3, <4>3
        <5>3. QED BY <4>1, <5>1, <5>2 DEF AreaAsTold, Halves
      <4>4. QED BY <4>2, <4>3
    <3>5. T'  BY <1>2, <2>2, <2>3, <3>3 DEF T
    <3>6. \A j \in Queues \ {i} :
             \/ queue'[j].ready = 1 /\ \A b \in Areas : queue'[j].ring[b] = {drv'.at[j]}
             \/ Untouched(queue'[j])
      BY <2>2, <2>3, <3>3 DEF QueuesInv
    <3>7. regs'.qSel = i /\ drv'.at[i] = at  BY <2>2, <2>3
    <3> HIDE DEF i, at, old, new
    <3>8. \A j \in Queues : drv'.at[j] # Zero  BY <2>2, <2>3 DEF QueuesInv
    <3>9. queue'[i].ready = 0 /\ \A b \in Areas : AreaAsTold(queue'[i], drv'.at[i], drv'.todo, b)
      BY <3>3, <3>4, <3>7 DEF new
    <3>10. QED BY <1>a, <2>3, <2>4, <3>5, <3>6, <3>7, <3>8, <3>9 DEF QueuesInv
  <2>7. CASE h = "hi"
    <3> DEFINE w == [old.addr[a] EXCEPT !.hi = @ \cup at.hi]
    <3>1. w = at
      <4>1. old.addr[a].lo = at.lo /\ old.addr[a].hi = {}
        BY <2>1, <2>4, <2>7 DEF AreaAsTold
      <4>2. QED BY <2>4, <2>5, <4>1 DEF Wide, Half
    <3>2. queue' = [queue EXCEPT ![i] = [old EXCEPT !.addr = [old.addr EXCEPT ![a] = at],
                                                   !.ring = [old.ring EXCEPT ![a] = {at}]]]
      BY <2>1, <2>4, <2>7, <3>1 DEF OrAddrHigh
    <3>3. /\ queue' \in [Queues -> QueueRec]
          /\ \A j \in Queues \ {i} : queue'[j] = queue[j]
          /\ new.ready = 0 /\ new.ring = [old.ring EXCEPT ![a] = {at}]
          /\ new.addr = [old.addr EXCEPT ![a] = at]
      BY <1>3, <2>4, <2>5, <3>2 DEF QueueRec
    <3>4. ASSUME NEW b \in Areas
          PROVE  AreaAsTold(new, at, drv'.todo, b)
      <4>1. AreaAsTold(old, at, drv.todo, b)  BY <2>4
      <4>2. CASE b = a
        <5>1. new.addr[a] = at /\ new.ring[a] = {at}  BY <2>5, <3>3 DEF QueueRec
        <5>2. <<a, "hi">> \notin drv'.todo /\ <<a, "lo">> \notin drv'.todo
          BY <2>1, <2>3, <2>7
        <5>3. QED BY <4>2, <5>1, <5>2 DEF AreaAsTold
      <4>3. CASE b # a
        <5>1. new.addr[b] = old.addr[b] /\ new.ring[b] = old.ring[b]  BY <2>5, <3>3, <4>3 DEF QueueRec
        <5>2. \A k \in Halves : <<b, k>> \in drv'.todo <=> <<b, k>> \in drv.todo  BY <2>3, <4>3
        <5>3. QED BY <4>1, <5>1, <5>2 DEF AreaAsTold, Halves
      <4>4. QED BY <4>2, <4>3
    <3>5. T'  BY <1>2, <2>2, <2>3, <3>3 DEF T
    <3>6. \A j \in Queues \ {i} :
             \/ queue'[j].ready = 1 /\ \A b \in Areas : queue'[j].ring[b] = {drv'.at[j]}
             \/ Untouched(queue'[j])
      BY <2>2, <2>3, <3>3 DEF QueuesInv
    <3>7. regs'.qSel = i /\ drv'.at[i] = at  BY <2>2, <2>3
    <3> HIDE DEF i, at, old, new
    <3>8. \A j \in Queues : drv'.at[j] # Zero  BY <2>2, <2>3 DEF QueuesInv
    <3>9. queue'[i].ready = 0 /\ \A b \in Areas : AreaAsTold(queue'[i], drv'.at[i], drv'.todo, b)
      BY <3>3, <3>4, <3>7 DEF new
    <3>10. QED BY <1>a, <2>3, <2>4, <3>5, <3>6, <3>7, <3>8, <3>9 DEF QueuesInv
  <2>8. QED BY <2>6, <2>7
<1>10. CASE WriteReady
  <2> DEFINE i == regs.qSel
  <2>1. /\ drv.pc = "addr" /\ drv.todo = {} /\ drv' = [drv EXCEPT !.pc = "queues"]
        /\ queue' = [queue EXCEPT ![i].ready = 1] /\ UNCHANGED <<regs, features, activated>>
    BY <1>10 DEF WriteReady, Step, SetReady
  <2>2. drv' \in DriverRec /\ drv'.pc = "queues" /\ drv'.at = drv.at
    BY <1>3, <2>1 DEF DriverRec
  <2>3. i \in Queues /\ \A a \in Areas : queue[i].ring[a] = {drv.at[i]}
    BY <2>1 DEF QueuesInv, AreaAsTold
  <2>4. /\ queue' \in [Queues -> QueueRec] /\ queue'[i].ready = 1 /\ queue'[i].ring = queue[i].ring
        /\ \A j \in Queues \ {i} : queue'[j] = queue[j]
    BY <1>3, <2>1, <2>3 DEF QueueRec
  <2>5. T'  BY <1>2, <2>1, <2>2, <2>4 DEF T
  <2>6. QED BY <1>a, <2>1, <2>2, <2>3, <2>4, <2>5 DEF QueuesInv
<1>11. CASE DriverOk
  <2>1. /\ drv.pc = "queues" /\ drv' = [drv EXCEPT !.pc = "running"]
        /\ \A i \in Queues : queue[i].ready = 1
        /\ regs' = [regs EXCEPT !.stat = 15] /\ activated' = TRUE /\ UNCHANGED <<features, queue>>
    BY <1>11 DEF DriverOk, Step, SetStatus
  <2>2. drv' \in DriverRec /\ drv'.pc = "running" /\ drv'.at = drv.at
    BY <1>3, <2>1 DEF DriverRec
  <2>3. T'
    <3>1. regs' \in [stat : {0, 11, 15}, drvSel : {0, 1}, qSel : Queues \cup {0}]
      BY <1>2, <2>1 DEF T
    <3>2. QED BY <1>2, <2>1, <2>2, <3>1 DEF T
  <2>4. \A i \in Queues, a \in Areas : queue[i].ring[a] = {drv.at[i]}
    BY <2>1 DEF QueuesInv, Untouched
  <2>5. QED BY <1>a, <2>1, <2>2, <2>3, <2>4 DEF QueuesInv
<1>12. CASE Reboot
  <2>1. drv' = [drv EXCEPT !.pc = "start"] /\ UNCHANGED <<regs, features, queue, activated>>
    BY <1>12 DEF Reboot
  <2>2. drv' \in DriverRec /\ drv'.pc = "start"  BY <1>3, <2>1 DEF DriverRec
  <2>3. T'  BY <1>2, <2>1, <2>2 DEF T
  <2>4. QED BY <1>a, <2>2, <2>3 DEF QueuesInv
<1>13. CASE UNCHANGED <<regs, features, queue, activated, drv>>
  BY <1>13 DEF QueuesInv, MmioTypeOK
<1>14. QED
  BY <1>1, <1>4, <1>5, <1>6, <1>7, <1>8, <1>9, <1>10, <1>11, <1>12, <1>13 DEF MmioNext

\* However many drivers take a virtio device over from each other, and whatever
\* step each stops at: an active device uses the addresses the present one wrote.
THEOREM RingsAsWrittenHolds ==
  ASSUME HighFirst = FALSE
  PROVE  MmioSpec => []RingsAsWritten
<1>1. QueuesInv => RingsAsWritten
  BY DEF QueuesInv, Untouched, RingsAsWritten, RingsOfDriver, ResetForgets
<1>2. QueuesInv /\ [MmioNext]_mmioVars => QueuesInv'  BY QueuesStep
<1>3. QED BY <1>1, <1>2, QueuesInit, PTL DEF MmioSpec

-----------------------------------------------------------------------------
(* The copy of a frame from one chain of segments to another.              *)

\* Induction over numbers, as the least counterexample of a set of them.
LEMMA HasLeast ==
  ASSUME NEW S \in SUBSET Nat, S # {}
  PROVE  \E i \in S : \A j \in S : i <= j
<1> DEFINE R == {ss \in Nat \X Nat : ss[1] < ss[2]}
<1>1. IsWellFoundedOn(R, Nat)  BY NatLessThanWellFounded DEF OpToRel
<1>2. PICK x \in S : \A y \in S : ~(<<y, x>> \in R)
  <2> HIDE DEF R
  <2>1. QED BY <1>1, WFMin
<1>3. \A y \in S : ~(y < x)  BY <1>2
<1>4. QED BY <1>3

\* f gives the sums of the first segments of s, up to n of them.
SumsTo(f, s, n) ==
    f \in [0 .. n -> Nat] /\ f[0] = 0 /\ \A k \in 1 .. n : f[k] = f[k - 1] + s[k]

LEMMA SumsExist ==
  ASSUME NEW s \in Seq(Nat), NEW n \in 0 .. Len(s)
  PROVE  \E f : SumsTo(f, s, n)
<1> DEFINE Bad == {m \in 0 .. Len(s) : ~\E f : SumsTo(f, s, m)}
<1> SUFFICES ASSUME Bad # {} PROVE FALSE
  OBVIOUS
<1>1. Bad \in SUBSET Nat  OBVIOUS
<1>2. PICK m \in Bad : \A j \in Bad : m <= j
  <2> HIDE DEF Bad
  <2>1. QED BY <1>1, HasLeast
<1>3. m \in 0 .. Len(s) /\ ~\E f : SumsTo(f, s, m)  BY <1>2
<1>4. CASE m = 0
  <2>1. SumsTo([k \in 0 .. 0 |-> 0], s, 0)  BY DEF SumsTo
  <2>2. QED BY <1>3, <1>4, <2>1
<1>5. CASE m # 0
  <2>1. m - 1 \in 0 .. Len(s) /\ m \in 1 .. Len(s) /\ m \in Nat  BY <1>3, <1>5
  <2>2. m - 1 \notin Bad  BY <1>2, <2>1
  <2>3. PICK f : SumsTo(f, s, m - 1)  BY <2>1, <2>2
  <2> DEFINE g == [k \in 0 .. m |-> IF k = m THEN f[m - 1] + s[m] ELSE f[k]]
  <2>4. f[m - 1] \in Nat /\ s[m] \in Nat /\ \A k \in 0 .. m - 1 : f[k] \in Nat
    BY <2>1, <2>3 DEF SumsTo
  <2>5. g \in [0 .. m -> Nat]  BY <2>1, <2>4
  <2>6. g[0] = 0  BY <2>1, <2>3 DEF SumsTo
  <2>7. ASSUME NEW k \in 1 .. m PROVE g[k] = g[k - 1] + s[k]
    BY <2>1, <2>3 DEF SumsTo
  <2> HIDE DEF g
  <2>8. SumsTo(g, s, m)  BY <2>5, <2>6, <2>7 DEF SumsTo
  <2>9. QED BY <1>3, <2>8
<1>6. QED BY <1>4, <1>5

\* A segment starts where the one before it ends.
LEMMA StartIs ==
  ASSUME NEW s \in Seq(Nat)
  PROVE  /\ Start(s, 1) = 0
         /\ \A i \in 1 .. Len(s) : Start(s, i + 1) = Start(s, i) + s[i]
         /\ \A i \in 1 .. Len(s) + 1 : Start(s, i) \in Nat
<1> DEFINE E(g) == [k \in 0 .. Len(s) |-> IF k = 0 THEN 0 ELSE g[k - 1] + s[k]]
           upto == CHOOSE g : g = E(g)
<1>0. Len(s) \in Nat  OBVIOUS
<1>1. PICK f : SumsTo(f, s, Len(s))  BY <1>0, SumsExist
<1>2. f = E(f)  BY <1>0, <1>1 DEF SumsTo
<1>3. upto = E(upto)
  <2> HIDE DEF E
  <2>1. QED BY <1>2
<1>4. \A i : Start(s, i) = upto[i - 1]
  BY DEF Start
<1>5. upto[0] = 0 /\ \A k \in 1 .. Len(s) : upto[k] = upto[k - 1] + s[k]
  <2> HIDE DEF upto
  <2>1. QED BY <1>0, <1>3
<1> HIDE DEF upto
<1>6. \A k \in 0 .. Len(s) : upto[k] \in Nat
  <2> DEFINE Bad == {m \in 0 .. Len(s) : upto[m] \notin Nat}
  <2> SUFFICES ASSUME Bad # {} PROVE FALSE
    OBVIOUS
  <2>1. PICK m \in Bad : \A j \in Bad : m <= j
    <3>1. Bad \in SUBSET Nat  OBVIOUS
    <3> HIDE DEF Bad
    <3>2. QED BY <3>1, HasLeast
  <2>2. m \in 1 .. Len(s)  BY <2>1, <1>5
  <2>3. upto[m - 1] \in Nat  BY <1>0, <2>1, <2>2
  <2>4. s[m] \in Nat  BY <2>2
  <2>5. QED BY <2>1, <2>2, <2>3, <2>4, <1>5
<1>7. Start(s, 1) = 0  BY <1>4, <1>5
<1>8. ASSUME NEW i \in 1 .. Len(s) PROVE Start(s, i + 1) = Start(s, i) + s[i]
  <2>1. Start(s, i + 1) = upto[(i + 1) - 1] /\ Start(s, i) = upto[i - 1]  BY <1>4
  <2>2. (i + 1) - 1 = i  OBVIOUS
  <2>3. QED BY <1>5, <2>1, <2>2
<1>9. ASSUME NEW i \in 1 .. Len(s) + 1 PROVE Start(s, i) \in Nat
  <2>1. i - 1 \in 0 .. Len(s)  BY <1>0
  <2>2. QED BY <1>4, <1>6, <2>1
<1>10. QED BY <1>7, <1>8, <1>9

\* No segment starts after a later one.
LEMMA StartGrows ==
  ASSUME NEW s \in Seq(Nat), NEW i \in 1 .. Len(s) + 1
  PROVE  Start(s, i) <= Total(s)
<1> DEFINE n == Len(s) + 1
           Bad == {m \in 0 .. Len(s) : ~(Start(s, n - m) <= Total(s))}
<1>0. Len(s) \in Nat /\ n \in Nat  OBVIOUS
<1>1. Bad = {}
  <2> SUFFICES ASSUME Bad # {} PROVE FALSE
    OBVIOUS
  <2>1. PICK m \in Bad : \A j \in Bad : m <= j
    <3>1. Bad \in SUBSET Nat  BY <1>0
    <3> HIDE DEF Bad
    <3>2. QED BY <3>1, HasLeast
  <2>2. m \in 0 .. Len(s) /\ ~(Start(s, n - m) <= Total(s))  BY <2>1
  <2>3. Total(s) \in Nat /\ Total(s) = Start(s, n)  BY <1>0, StartIs DEF Total
  <2>4. m # 0
    <3>1. m = 0 => n - m = n  BY <1>0
    <3>2. QED BY <2>2, <2>3, <3>1
  <2>5. m - 1 \in 0 .. Len(s) /\ n - m \in 1 .. Len(s) /\ (n - m) + 1 = n - (m - 1)
    BY <1>0, <2>2, <2>4
  <2>a. m - 1 \notin Bad
    <3>1. ~(m <= m - 1)  BY <2>2
    <3> HIDE DEF Bad
    <3>2. QED BY <2>1, <3>1
  <2>6. Start(s, n - (m - 1)) <= Total(s)  BY <2>5, <2>a
  <2>7. Start(s, n - (m - 1)) = Start(s, n - m) + s[n - m]  BY <2>5, StartIs
  <2>8. Start(s, n - m) \in Nat /\ s[n - m] \in Nat  BY <1>0, <2>5, StartIs
  <2>9. QED BY <2>2, <2>3, <2>6, <2>7, <2>8
<1>2. n - i \in 0 .. Len(s) /\ n - (n - i) = i  BY <1>0
<1>3. n - i \notin Bad  BY <1>1
<1>4. Start(s, n - (n - i)) <= Total(s)  BY <1>2, <1>3
<1>5. QED BY <1>2, <1>4

\* Pointer p and rest r of segment i point at byte at of the flattened chain.
PointsAt(segs, i, p, r, at) ==
    /\ r \in 0 .. segs[i]
    /\ p = <<i, segs[i] - r>>
    /\ at = Start(segs, i) + segs[i] - r

Diagonal(n) == {<<i, i>> : i \in 0 .. n - 1}
Progress == Total(src) - remain

\* While both chains last, both pointers are at the byte that comes next; the
\* source is used up only by the whole frame, and so is the destination, which
\* has room for it.
CopyInv ==
    /\ src \in Seq(Nat) /\ dst \in Seq(Nat) /\ Total(dst) >= Total(src)
    /\ sIdx \in 1 .. Len(src) + 1 /\ dIdx \in 1 .. Len(dst) + 1
    /\ remain \in 0 .. Total(src)
    /\ sIdx <= Len(src) /\ dIdx <= Len(dst) =>
         PointsAt(src, sIdx, sPtr, sRem, Progress) /\ PointsAt(dst, dIdx, dPtr, dRem, Progress)
    /\ sIdx > Len(src) \/ dIdx > Len(dst) => remain = 0
    /\ copied = Diagonal(Progress)

\* From where a pointer points on: within its segment, or at the next one.
LEMMA Onward ==
  ASSUME NEW segs \in Seq(Nat), NEW i \in 1 .. Len(segs), NEW p, NEW r, NEW at,
         PointsAt(segs, i, p, r, at)
  PROVE  /\ r \in Nat /\ at \in Nat /\ at + r <= Total(segs)
         /\ Start(segs, p[1]) + p[2] = at
         /\ i = Len(segs) => at + r = Total(segs)
         /\ i + 1 <= Len(segs) => PointsAt(segs, i + 1, <<i + 1, 0>>, segs[i + 1], at + r)
         /\ \A n \in 0 .. r : PointsAt(segs, i, Forward(p, n), r - n, at + n)
<1>1. segs[i] \in Nat /\ i + 1 \in 1 .. Len(segs) + 1 /\ Len(segs) \in Nat  OBVIOUS
<1>2. Start(segs, i) \in Nat /\ Start(segs, i + 1) = Start(segs, i) + segs[i]
  BY <1>1, StartIs
<1>3. /\ r \in 0 .. segs[i] /\ p = <<i, segs[i] - r>>
      /\ at = Start(segs, i) + segs[i] - r
  BY DEF PointsAt
<1>a. ASSUME NEW a \in Nat, NEW b \in Nat, NEW x \in 0 .. b
      PROVE  /\ x \in Nat /\ a + b - x \in Nat /\ (a + b - x) + x = a + b
             /\ \A n \in 0 .. x : (a + b - x) + n = a + b - (x - n)
  OBVIOUS
<1>4. r \in Nat /\ at \in Nat /\ at + r = Start(segs, i + 1)  BY <1>1, <1>2, <1>3, <1>a
<1>5. at + r <= Total(segs)  BY <1>1, <1>4, StartGrows
<1>6. p[1] = i /\ p[2] = segs[i] - r  BY <1>3
<1>7. Start(segs, p[1]) + p[2] = at  BY <1>1, <1>2, <1>3, <1>6
<1>8. i = Len(segs) => at + r = Total(segs)  BY <1>4 DEF Total
<1>9. ASSUME i + 1 <= Len(segs)
      PROVE  PointsAt(segs, i + 1, <<i + 1, 0>>, segs[i + 1], at + r)
  <2>1. i + 1 \in 1 .. Len(segs)  BY <1>1, <1>9
  <2>2. segs[i + 1] \in Nat  BY <2>1
  <2>3. Start(segs, i + 1) \in Nat  BY <1>1, StartIs
  <2>4. segs[i + 1] - segs[i + 1] = 0  BY <2>2
  <2>5. at + r = Start(segs, i + 1) + segs[i + 1] - segs[i + 1]  BY <1>4, <2>2, <2>3
  <2>6. QED BY <2>2, <2>4, <2>5 DEF PointsAt
<1>10. ASSUME NEW n \in 0 .. r PROVE PointsAt(segs, i, Forward(p, n), r - n, at + n)
  <2>1. r - n \in 0 .. segs[i]  BY <1>1, <1>3
  <2>2. segs[i] - r + n = segs[i] - (r - n)  BY <1>1, <1>3
  <2>3. at + n = Start(segs, i) + segs[i] - (r - n)  BY <1>1, <1>2, <1>3, <1>a
  <2>4. Forward(p, n) = <<i, segs[i] - (r - n)>>  BY <1>6, <2>2 DEF Forward
  <2>5. QED BY <2>1, <2>3, <2>4 DEF PointsAt
<1>11. QED BY <1>4, <1>5, <1>7, <1>8, <1>9, <1>10

LEMMA DiagonalGrows ==
  ASSUME NEW m \in Nat, NEW n \in Nat
  PROVE  Diagonal(m) \cup {<<m + i, m + i>> : i \in 0 .. (n - 1)} = Diagonal(m + n)
<1>1. ASSUME NEW x \in Diagonal(m + n), x \notin Diagonal(m)
      PROVE  x \in {<<m + i, m + i>> : i \in 0 .. (n - 1)}
  <2>1. PICK k \in 0 .. m + n - 1 : x = <<k, k>>  BY <1>1 DEF Diagonal
  <2>2. k >= m  BY <1>1, <2>1 DEF Diagonal
  <2>3. k - m \in 0 .. (n - 1) /\ k = m + (k - m)  BY <2>1, <2>2
  <2>4. QED BY <2>1, <2>3
<1>2. ASSUME NEW x \in Diagonal(m) PROVE x \in Diagonal(m + n)
  <2>1. PICK k \in 0 .. m - 1 : x = <<k, k>>  BY <1>2 DEF Diagonal
  <2>2. k \in 0 .. m + n - 1  BY <2>1
  <2>3. QED BY <2>1, <2>2 DEF Diagonal
<1>3. ASSUME NEW i \in 0 .. (n - 1) PROVE <<m + i, m + i>> \in Diagonal(m + n)
  <2>1. m + i \in 0 .. m + n - 1  OBVIOUS
  <2>2. QED BY <2>1 DEF Diagonal
<1>4. QED BY <1>1, <1>2, <1>3

LEMMA ChainsAreSeqs ==
  ASSUME MaxLen \in Nat, MaxSegments \in Nat, NEW s \in Chains
  PROVE  s \in Seq(Nat) /\ Len(s) \in Nat \ {0}
<1>1. PICK n \in 1 .. MaxSegments : s \in [1 .. n -> 0 .. MaxLen]  BY DEF Chains
<1>2. n \in Nat /\ s \in [1 .. n -> Nat]  BY <1>1
<1>3. s \in Seq(Nat)  BY <1>2, SeqDef
<1>4. Len(s) = n
  <2>1. DOMAIN s = 1 .. n  BY <1>2
  <2>2. QED BY <1>2, <1>3, <2>1, LenProperties
<1>5. QED BY <1>1, <1>3, <1>4

LEMMA CopyInvInit ==
  ASSUME MaxLen \in Nat, MaxSegments \in Nat, CopyInit
  PROVE  CopyInv
<1>1. /\ src \in Seq(Nat) /\ Len(src) \in Nat \ {0}
      /\ dst \in Seq(Nat) /\ Len(dst) \in Nat \ {0}
  BY ChainsAreSeqs DEF CopyInit
<1>2. Total(src) \in Nat /\ Start(src, 1) = 0 /\ Start(dst, 1) = 0 /\ Total(dst) \in Nat
  <2>1. Len(src) + 1 \in 1 .. Len(src) + 1 /\ Len(dst) + 1 \in 1 .. Len(dst) + 1  BY <1>1
  <2>2. QED BY <1>1, <2>1, StartIs DEF Total
<1>3. src[1] \in Nat /\ dst[1] \in Nat  BY <1>1
<1>4. /\ sIdx = 1 /\ dIdx = 1 /\ sPtr = <<1, 0>> /\ dPtr = <<1, 0>> /\ sRem = src[1]
      /\ dRem = dst[1] /\ remain = Total(src) /\ copied = {}
      /\ Total(dst) >= Total(src)
  BY DEF CopyInit, Holds
<1>5. Progress = 0  BY <1>2, <1>4 DEF Progress
<1>6. /\ PointsAt(src, sIdx, sPtr, sRem, Progress)
      /\ PointsAt(dst, dIdx, dPtr, dRem, Progress)
  <2>1. src[1] - src[1] = 0 /\ dst[1] - dst[1] = 0  BY <1>3
  <2>2. 0 = 0 + src[1] - src[1] /\ 0 = 0 + dst[1] - dst[1]  BY <1>3
  <2>3. src[1] \in 0 .. src[1] /\ dst[1] \in 0 .. dst[1]  BY <1>3
  <2>4. QED BY <1>2, <1>4, <1>5, <2>1, <2>2, <2>3 DEF PointsAt
<1>7. copied = Diagonal(Progress)  BY <1>4, <1>5 DEF Diagonal
<1>8. /\ sIdx \in 1 .. Len(src) + 1 /\ dIdx \in 1 .. Len(dst) + 1 /\ remain \in 0 .. Total(src)
      /\ ~(sIdx > Len(src)) /\ ~(dIdx > Len(dst))
  BY <1>1, <1>2, <1>4
<1>9. QED BY <1>1, <1>4, <1>6, <1>7, <1>8 DEF CopyInv

LEMMA CopyInvStep ==
  ASSUME CopyInv, [CopyNext]_copyVars
  PROVE  CopyInv'
<1>1. CASE UNCHANGED copyVars
  BY <1>1 DEF copyVars, CopyInv, PointsAt, Progress, Start, Total
<1>2. ASSUME NextSource \/ NextDest PROVE CopyInv'
  <2> DEFINE at == Progress
  <2>1. /\ src \in Seq(Nat) /\ dst \in Seq(Nat) /\ Total(dst) >= Total(src)
        /\ sIdx \in 1 .. Len(src) + 1 /\ dIdx \in 1 .. Len(dst) + 1
        /\ remain \in 0 .. Total(src) /\ copied = Diagonal(Progress)
    BY DEF CopyInv
  <2>2. sIdx <= Len(src) /\ dIdx <= Len(dst) /\ src' = src /\ dst' = dst
    BY <1>2 DEF NextSource, NextDest, Going
  <2>3. sIdx \in 1 .. Len(src) /\ dIdx \in 1 .. Len(dst) /\ Len(src) \in Nat /\ Len(dst) \in Nat
    BY <2>1, <2>2
  <2>4. PointsAt(src, sIdx, sPtr, sRem, Progress) /\ PointsAt(dst, dIdx, dPtr, dRem, Progress)
    BY <2>2 DEF CopyInv
  <2>5. /\ sRem \in Nat /\ Progress \in Nat /\ Progress + sRem <= Total(src)
        /\ Start(src, sPtr[1]) + sPtr[2] = Progress
        /\ sIdx = Len(src) => Progress + sRem = Total(src)
        /\ sIdx + 1 <= Len(src) =>
             PointsAt(src, sIdx + 1, <<sIdx + 1, 0>>, src[sIdx + 1], Progress + sRem)
        /\ \A n \in 0 .. sRem : PointsAt(src, sIdx, Forward(sPtr, n), sRem - n, Progress + n)
    BY <2>1, <2>3, <2>4, Onward
  <2>6. /\ dRem \in Nat /\ Progress + dRem <= Total(dst)
        /\ Start(dst, dPtr[1]) + dPtr[2] = Progress
        /\ dIdx = Len(dst) => Progress + dRem = Total(dst)
        /\ dIdx + 1 <= Len(dst) =>
             PointsAt(dst, dIdx + 1, <<dIdx + 1, 0>>, dst[dIdx + 1], Progress + dRem)
        /\ \A n \in 0 .. dRem : PointsAt(dst, dIdx, Forward(dPtr, n), dRem - n, Progress + n)
    BY <2>1, <2>3, <2>4, Onward
  <2>7. Total(src) \in Nat /\ Total(dst) \in Nat
    <3>1. Len(src) + 1 \in 1 .. Len(src) + 1 /\ Len(dst) + 1 \in 1 .. Len(dst) + 1  BY <2>3
    <3>2. QED BY <2>1, <3>1, StartIs DEF Total
  <2>8. \A n : Bytes(n) = {<<Progress + i, Progress + i>> : i \in 0 .. (n - 1)}
    BY <2>5, <2>6 DEF Bytes
  <2>9. (Total(src))' = Total(src) /\ (Total(dst))' = Total(dst)
    BY <2>2 DEF Total, Start
  <2>a. ASSUME NEW tot \in Nat, NEW rest \in 0 .. tot, NEW k \in Nat, (tot - rest) + k <= tot
        PROVE  /\ rest - k \in 0 .. tot /\ tot - (rest - k) = (tot - rest) + k
               /\ (tot - rest) + k >= tot => rest - k = 0
    BY <2>a
  <2>b. ASSUME NEW k \in Nat, k <= sRem, remain' = remain - k
        PROVE  /\ remain' \in 0 .. Total(src) /\ Total(src) - remain' = Progress + k
               /\ Progress + k >= Total(src) => remain' = 0
    <3>1. Progress + k <= Total(src)  BY <2>5, <2>7, <2>b
    <3>2. (Total(src) - remain) + k <= Total(src)  BY <3>1 DEF Progress
    <3>3. /\ remain - k \in 0 .. Total(src)
          /\ Total(src) - (remain - k) = (Total(src) - remain) + k
          /\ (Total(src) - remain) + k >= Total(src) => remain - k = 0
      BY <2>1, <2>7, <2>a, <3>2
    <3>4. QED BY <2>b, <3>3 DEF Progress
  <2>10. ASSUME NEW n \in Nat, copied' = copied \cup Bytes(n), remain' = remain - n,
                n <= sRem
         PROVE  /\ Progress' = Progress + n /\ copied' = Diagonal(Progress')
                /\ remain' \in 0 .. Total(src)
    <3>1. remain' \in 0 .. Total(src) /\ Total(src) - remain' = Progress + n
      BY <2>10, <2>b
    <3>2. Progress' = Progress + n  BY <2>9, <3>1 DEF Progress
    <3>3. Diagonal(Progress) \cup {<<Progress + i, Progress + i>> : i \in 0 .. (n - 1)}
            = Diagonal(Progress + n)
      BY <2>5, DiagonalGrows
    <3>4. copied' = Diagonal(Progress + n)  BY <2>1, <2>8, <2>10, <3>3
    <3>5. QED BY <3>1, <3>2, <3>4
  <2>11. CASE NextSource
    <3>1. copied' = copied \cup Bytes(sRem) /\ remain' = remain - sRem /\ dRem > sRem
          /\ sIdx' = sIdx + 1 /\ dIdx' = dIdx
      BY <2>11 DEF NextSource
    <3>2. /\ Progress' = Progress + sRem /\ copied' = Diagonal(Progress')
          /\ remain' \in 0 .. Total(src)
      BY <2>5, <2>10, <3>1
    <3>3. CASE sIdx + 1 <= Len(src)
      <4>1. /\ sPtr' = <<sIdx + 1, 0>> /\ sRem' = src[sIdx + 1]
            /\ dPtr' = Forward(dPtr, sRem) /\ dRem' = dRem - sRem
        BY <2>11, <3>1, <3>3 DEF NextSource
      <4>2. sRem \in 0 .. dRem  BY <2>5, <2>6, <3>1
      <4>3. PointsAt(src, sIdx + 1, sPtr', sRem', Progress + sRem)  BY <2>5, <3>3, <4>1
      <4>4. PointsAt(dst, dIdx, dPtr', dRem', Progress + sRem)  BY <2>6, <4>1, <4>2
      <4>5. /\ PointsAt(src, sIdx, sPtr, sRem, Progress)'
            /\ PointsAt(dst, dIdx, dPtr, dRem, Progress)'
        <5>1. /\ PointsAt(src', sIdx', sPtr', sRem', Progress')
              /\ PointsAt(dst', dIdx', dPtr', dRem', Progress')
          BY <2>2, <3>1, <3>2, <4>3, <4>4
        <5>2. QED BY <5>1 DEF PointsAt, Start
      <4>6. sIdx' \in 1 .. Len(src) + 1 /\ ~(sIdx' > Len(src)) /\ ~(dIdx' > Len(dst))
        BY <2>3, <3>1, <3>3
      <4>7. QED BY <2>1, <2>2, <2>9, <3>1, <3>2, <4>5, <4>6 DEF CopyInv
    <3>4. CASE ~(sIdx + 1 <= Len(src))
      <4>1. sIdx = Len(src) /\ sIdx' > Len(src) /\ sIdx' \in 1 .. Len(src) + 1
        BY <2>3, <3>1, <3>4
      <4>2. Progress + sRem >= Total(src)  BY <2>5, <2>7, <4>1
      <4>a. remain' = 0  BY <2>5, <2>b, <3>1, <4>2
      <4>3. QED BY <2>1, <2>2, <2>9, <3>1, <3>2, <4>1, <4>a DEF CopyInv
    <3>5. QED BY <3>3, <3>4
  <2>12. CASE NextDest
    <3>1. copied' = copied \cup Bytes(dRem) /\ remain' = remain - dRem /\ dRem <= sRem
          /\ dIdx' = dIdx + 1
      BY <2>12 DEF NextDest
    <3>2. /\ Progress' = Progress + dRem /\ copied' = Diagonal(Progress')
          /\ remain' \in 0 .. Total(src)
      BY <2>6, <2>10, <3>1
    <3>3. sIdx' = IF src[sIdx] = 0 THEN sIdx + 1 ELSE sIdx
      BY <2>12 DEF NextDest
    <3>4. sIdx' \in 1 .. Len(src) + 1 /\ dIdx' \in 1 .. Len(dst) + 1
      BY <2>3, <3>1, <3>3
    \* An empty source segment is left at the byte it was entered at.
    <3>5. src[sIdx] = 0 => sRem = 0 /\ dRem = 0
      BY <2>4, <2>5, <2>6, <3>1 DEF PointsAt
    <3>6. ASSUME sIdx' > Len(src) PROVE remain' = 0
      <4>1. sIdx = Len(src) /\ src[sIdx] = 0  BY <2>3, <3>3, <3>6
      <4>2. QED BY <2>1, <2>5, <2>6, <2>7, <3>1, <3>5, <4>1 DEF Progress
    <3>7. ASSUME dIdx' > Len(dst) PROVE remain' = 0
      <4>1. dIdx = Len(dst)  BY <2>3, <3>1, <3>7
      <4>2. Progress + dRem >= Total(src)  BY <2>1, <2>6, <2>7, <4>1
      <4>3. QED BY <2>6, <2>b, <3>1, <4>2
    <3>8. ASSUME sIdx' <= Len(src), dIdx' <= Len(dst)
          PROVE  /\ PointsAt(src, sIdx, sPtr, sRem, Progress)'
                 /\ PointsAt(dst, dIdx, dPtr, dRem, Progress)'
      <4>1. dPtr' = <<dIdx + 1, 0>> /\ dRem' = dst[dIdx + 1]
        BY <2>12, <3>1, <3>8 DEF NextDest
      <4>2. PointsAt(dst, dIdx + 1, dPtr', dRem', Progress + dRem)  BY <2>6, <3>1, <3>8, <4>1
      <4>3. PointsAt(src, sIdx', sPtr', sRem', Progress + dRem)
        <5>1. CASE src[sIdx] = 0
          <6>1. sPtr' = <<sIdx + 1, 0>> /\ sRem' = src[sIdx + 1] /\ sIdx' = sIdx + 1
            BY <2>12, <3>3, <3>8, <5>1 DEF NextDest
          <6>2. Progress + sRem = Progress + dRem  BY <3>5, <5>1
          <6>3. QED BY <2>5, <3>8, <6>1, <6>2
        <5>2. CASE src[sIdx] # 0
          <6>1. sPtr' = Forward(sPtr, dRem) /\ sRem' = sRem - dRem /\ sIdx' = sIdx
            BY <2>12, <3>1, <3>3, <3>8, <5>2 DEF NextDest
          <6>2. dRem \in 0 .. sRem  BY <2>5, <2>6, <3>1
          <6>3. QED BY <2>5, <6>1, <6>2
        <5>3. QED BY <5>1, <5>2
      <4>4. /\ PointsAt(src', sIdx', sPtr', sRem', Progress')
            /\ PointsAt(dst', dIdx', dPtr', dRem', Progress')
        BY <2>2, <3>1, <3>2, <4>2, <4>3
      <4>5. QED BY <4>4 DEF PointsAt, Start
    <3>9. QED BY <2>1, <2>2, <2>9, <3>2, <3>4, <3>6, <3>7, <3>8 DEF CopyInv
  <2>13. QED BY <1>2, <2>11, <2>12
<1>3. QED BY <1>1, <1>2 DEF CopyNext

\* However a frame and the buffers for it are split into segments, empty ones
\* included, write_through_iov copies each byte to its place, nothing else, and
\* stops with nothing left.
THEOREM CopyExactHolds ==
  ASSUME MaxLen \in Nat, MaxSegments \in Nat
  PROVE  CopySpec => []CopyExact
<1>1. CopyInit => CopyInv  BY CopyInvInit
<1>2. CopyInv /\ [CopyNext]_copyVars => CopyInv'  BY CopyInvStep
<1>3. CopyInv => CopyExact
  <2> SUFFICES ASSUME CopyInv PROVE CopyExact
    OBVIOUS
  <2>1. /\ sIdx \in 1 .. Len(src) + 1 /\ dIdx \in 1 .. Len(dst) + 1
        /\ src \in Seq(Nat) /\ dst \in Seq(Nat) /\ remain \in 0 .. Total(src)
        /\ sIdx > Len(src) \/ dIdx > Len(dst) => remain = 0
        /\ copied = Diagonal(Progress)
    BY DEF CopyInv
  <2>2. remain \in Int /\ remain >= 0  BY <2>1
  <2>3. CopiesPrefix  BY <2>1, <2>2 DEF CopiesPrefix, Diagonal, Progress
  <2>4. StopsComplete  BY <2>1, <2>2 DEF StopsComplete, Going
  <2>5. QED BY <2>3, <2>4 DEF CopyExact
<1>4. QED BY <1>1, <1>2, <1>3, PTL DEF CopySpec

-----------------------------------------------------------------------------
(* The memory of VMs.                                                      *)

\* Boards list no empty region and no page twice (they may list neighbours, as
\* rk3588 does), and no VM asks for an empty region.
MemoryConstants ==
    /\ Platform \in Seq([base : Nat \ {0}, size : Nat \ {0}])
    /\ \A i, j \in 1 .. Len(Platform) : i # j =>
         \/ Platform[i].base + Platform[i].size <= Platform[j].base
         \/ Platform[j].base + Platform[j].size <= Platform[i].base
    /\ Requests \in [Guests -> Seq(Nat \ {0})]

LEMMA FirstIn ==
  ASSUME NEW S \in SUBSET Nat, S # {}
  PROVE  First(S) \in S
BY HasLeast DEF First

\* Sequences without repetition, seen as sets.
Elems(s) == {s[i] : i \in 1 .. Len(s)}
Put(s, i, e) == [s EXCEPT ![i] = e]

LEMMA ReplaceElems ==
  ASSUME NEW S, NEW s \in Seq(S), Distinct(s), NEW i \in 1 .. Len(s),
         NEW e \in S, e \notin Elems(s) \ {s[i]}
  PROVE  LET t == Put(s, i, e) IN
         /\ t \in Seq(S) /\ Len(t) = Len(s)
         /\ \A j \in 1 .. Len(s) : t[j] = IF j = i THEN e ELSE s[j]
         /\ Distinct(t)
         /\ Elems(t) = (Elems(s) \ {s[i]}) \cup {e}
<1> DEFINE t == Put(s, i, e)
<1>1. t \in Seq(S) /\ Len(t) = Len(s)
  BY DEF Put
<1>2. \A j \in 1 .. Len(s) : t[j] = IF j = i THEN e ELSE s[j]
  BY DEF Put
<1> HIDE DEF t
<1>3. Distinct(t)  BY <1>1, <1>2 DEF Distinct, Elems
<1>4. Elems(t) = (Elems(s) \ {s[i]}) \cup {e}
  BY <1>1, <1>2 DEF Distinct, Elems
<1>5. QED BY <1>1, <1>2, <1>3, <1>4 DEF t

LEMMA AppendElems ==
  ASSUME NEW S, NEW s \in Seq(S), Distinct(s), NEW e \in S, e \notin Elems(s)
  PROVE  LET t == Append(s, e) IN
         /\ t \in Seq(S) /\ Len(t) = Len(s) + 1 /\ \A j \in 1 .. Len(s) : t[j] = s[j]
         /\ Distinct(t)
         /\ Elems(t) = Elems(s) \cup {e}
<1> DEFINE t == Append(s, e)
<1>1. t \in Seq(S) /\ Len(t) = Len(s) + 1 /\ Len(s) \in Nat
  OBVIOUS
<1>2. \A j \in 1 .. Len(t) : t[j] = IF j = Len(s) + 1 THEN e ELSE s[j]
  OBVIOUS
<1> HIDE DEF t
<1>3. Distinct(t)  BY <1>1, <1>2 DEF Distinct, Elems
<1>4. Elems(t) = Elems(s) \cup {e}
  BY <1>1, <1>2 DEF Elems
<1>5. QED BY <1>1, <1>2, <1>3, <1>4 DEF t

LEMMA WithoutElems ==
  ASSUME NEW S, NEW s \in Seq(S), Distinct(s), NEW g \in 1 .. Len(s)
  PROVE  LET t == WithoutRegion(s, g) IN
         /\ t \in Seq(S) /\ Len(t) = Len(s) - 1
         /\ Distinct(t)
         /\ Elems(t) = Elems(s) \ {s[g]}
         /\ \A k \in 1 .. Len(s) : k # g =>
              Shifted(k, g) \in 1 .. Len(t) /\ t[Shifted(k, g)] = s[k]
<1> DEFINE a == SubSeq(s, 1, g - 1)
           b == SubSeq(s, g + 1, Len(s))
           t == a \o b
<1>1. /\ a \in Seq(S) /\ Len(a) = g - 1
      /\ \A j \in 1 .. g - 1 : a[j] = s[j]
  OBVIOUS
<1>2. /\ b \in Seq(S) /\ Len(b) = Len(s) - g
      /\ \A j \in 1 .. Len(s) - g : b[j] = s[g + j]
  OBVIOUS
<1>3. t \in Seq(S) /\ Len(t) = Len(s) - 1
  <2> HIDE DEF a, b
  <2>1. a \o b \in Seq(S) /\ Len(a \o b) = Len(a) + Len(b)
    BY <1>1, <1>2, ConcatProperties
  <2>2. QED BY <2>1, <1>1, <1>2
<1>4. \A j \in 1 .. Len(t) : t[j] = IF j < g THEN s[j] ELSE s[j + 1]
  <2> SUFFICES ASSUME NEW j \in 1 .. Len(t) PROVE t[j] = IF j < g THEN s[j] ELSE s[j + 1]
    OBVIOUS
  <2> HIDE DEF a, b
  <2>1. CASE j < g
    <3>1. t[j] = a[j]  BY <1>1, <1>2, <1>3, <2>1
    <3>2. QED BY <3>1, <2>1, <1>1
  <2>2. CASE j >= g
    <3>1. t[j] = b[j - (g - 1)]  BY <1>1, <1>2, <1>3, <2>2
    <3>2. j - (g - 1) \in 1 .. Len(s) - g /\ g + (j - (g - 1)) = j + 1
      BY <1>3, <2>2
    <3>3. QED BY <3>1, <3>2, <2>2, <1>2
  <2>3. QED BY <2>1, <2>2, <1>3
<1> HIDE DEF t
<1>5. Distinct(t)
  BY <1>3, <1>4 DEF Distinct
<1>6. \A k \in 1 .. Len(s) : k # g =>
        Shifted(k, g) \in 1 .. Len(t) /\ t[Shifted(k, g)] = s[k]
  BY <1>3, <1>4 DEF Shifted
<1>7. Elems(t) \subseteq Elems(s) \ {s[g]}
  BY <1>3, <1>4 DEF Elems, Distinct
<1>8. Elems(s) \ {s[g]} \subseteq Elems(t)
  <2> SUFFICES ASSUME NEW k \in 1 .. Len(s), s[k] # s[g] PROVE s[k] \in Elems(t)
    BY DEF Elems
  <2>1. QED BY <1>6 DEF Elems
<1>9. QED BY <1>3, <1>5, <1>6, <1>7, <1>8 DEF t, WithoutRegion

\* A region that is not empty, and where it ends.
RegionRec == [base : Nat, size : Nat \ {0}, free : Nat]
Ends(r) == r.base + r.size

\* The regions S overlap nowhere and cover the platform's memory.
Tiling(S) ==
    /\ S \subseteq RegionRec
    /\ \A r \in S : r.free \in {0, r.size}
    /\ \A r, s \in S : r # s => Ends(r) <= s.base \/ Ends(s) <= r.base
    /\ \A p \in Nat : p \in AllPages <=> \E r \in S : r.base <= p /\ p < Ends(r)

\* Free regions meet only where the platform's do, or at the one being merged.
Merged(S, M) ==
    \A r, s \in S : r.free # 0 /\ s.free # 0 /\ Ends(r) = s.base =>
        \/ r \in M \/ s \in M
        \/ \E k \in 1 .. Len(Platform) : Platform[k].base = s.base

LEMMA SameBase ==
  ASSUME NEW S, Tiling(S), NEW r \in S, NEW s \in S, r.base = s.base
  PROVE  r = s
<1>1. r \in RegionRec /\ s \in RegionRec  BY DEF Tiling
<1>2. ~(Ends(r) <= s.base \/ Ends(s) <= r.base)  BY <1>1 DEF RegionRec, Ends
<1>3. QED BY <1>2 DEF Tiling

LEMMA TakeFresh ==
  ASSUME NEW S, Tiling(S), NEW r \in S, r.free # 0, NEW n \in Nat \ {0}, n <= r.free
  PROVE  /\ Region(r.base, n, 0) \notin S
         /\ Region(r.base + n, r.size - n, r.size - n) \notin S \ {r}
         /\ Region(r.base, n, 0) # Region(r.base + n, r.size - n, r.size - n)
<1> DEFINE low  == Region(r.base, n, 0)
           rest == Region(r.base + n, r.size - n, r.size - n)
<1>1. r \in RegionRec /\ r.free = r.size  BY DEF Tiling
<1>2. low.base = r.base /\ low.size = n /\ low.free = 0
  BY <1>1 DEF Region
<1>3. rest.base = r.base + n /\ rest.size = r.size - n /\ rest.free = r.size - n
  BY <1>1 DEF Region
<1>4. \A s \in S : s \in RegionRec /\ (s # r => Ends(s) <= r.base \/ Ends(r) <= s.base)
  BY DEF Tiling
<1> HIDE DEF low, rest
<1>5. low \notin S
  BY <1>1, <1>2, <1>4 DEF RegionRec, Ends
<1>6. rest \notin S \ {r}
  BY <1>1, <1>3, <1>4 DEF RegionRec, Ends
<1>7. low # rest
  BY <1>1, <1>2, <1>3 DEF RegionRec
<1>8. QED BY <1>5, <1>6, <1>7 DEF low, rest

LEMMA TilingTake ==
  ASSUME NEW S, Tiling(S), NEW r \in S, r.free # 0, NEW n \in Nat \ {0}, n <= r.free
  PROVE  LET low  == Region(r.base, n, 0)
             rest == Region(r.base + n, r.size - n, r.size - n)
             T == (S \ {r}) \cup {low} \cup (IF r.size > n THEN {rest} ELSE {})
         IN  Tiling(T) /\ (Merged(S, {}) => Merged(T, {}))
<1> DEFINE low  == Region(r.base, n, 0)
           rest == Region(r.base + n, r.size - n, r.size - n)
           T == (S \ {r}) \cup {low} \cup (IF r.size > n THEN {rest} ELSE {})
<1>1. r \in RegionRec /\ r.free = r.size  BY DEF Tiling
<1>2. low \in RegionRec /\ low.base = r.base /\ low.size = n /\ low.free = 0 /\ Ends(low) = r.base + n
  BY <1>1 DEF Region, RegionRec, Ends
<1>3. /\ rest.base = r.base + n /\ rest.size = r.size - n /\ rest.free = r.size - n
      /\ r.size > n => rest \in RegionRec /\ Ends(rest) = Ends(r)
  BY <1>1 DEF Region, RegionRec, Ends
<1>4. \A s \in S : /\ s \in RegionRec /\ s.free \in {0, s.size}
                   /\ s # r => Ends(s) <= r.base \/ Ends(r) <= s.base
  BY DEF Tiling
<1> HIDE DEF low, rest
<1>5. T \subseteq RegionRec /\ \A s \in T : s.free \in {0, s.size}
  BY <1>2, <1>3, <1>4
<1>6. ASSUME NEW s \in T, NEW t \in T, s # t
      PROVE  Ends(s) <= t.base \/ Ends(t) <= s.base
  <2>1. \A u \in S \ {r} : /\ Ends(u) <= low.base \/ Ends(low) <= u.base
                           /\ r.size > n => Ends(u) <= rest.base \/ Ends(rest) <= u.base
    BY <1>1, <1>2, <1>3, <1>4 DEF RegionRec, Ends
  <2>2. r.size > n => Ends(low) <= rest.base
    BY <1>1, <1>2, <1>3 DEF RegionRec
  <2>3. CASE s \in S \ {r} /\ t \in S \ {r}  BY <1>6, <2>3 DEF Tiling
  <2>4. QED BY <1>6, <2>1, <2>2, <2>3
<1>7. ASSUME NEW p \in Nat
       PROVE  (\E s \in T : s.base <= p /\ p < Ends(s)) <=> (\E s \in S : s.base <= p /\ p < Ends(s))
  <2>1. (r.base <= p /\ p < Ends(r)) <=>
          \/ low.base <= p /\ p < Ends(low)
          \/ r.size > n /\ rest.base <= p /\ p < Ends(rest)
    BY <1>1, <1>2, <1>3 DEF RegionRec, Ends
  <2>2. QED BY <2>1
<1>8. Tiling(T)
  <2> HIDE DEF T
  <2>1. QED BY <1>5, <1>6, <1>7 DEF Tiling
<1>9. ASSUME Merged(S, {}), NEW s \in T, NEW t \in T, s.free # 0, t.free # 0, Ends(s) = t.base
       PROVE  \E k \in 1 .. Len(Platform) : Platform[k].base = t.base
  <2>1. s # low /\ t # low  BY <1>2, <1>9
  <2>2. t = rest /\ r.size > n => FALSE
    <3> SUFFICES ASSUME t = rest, r.size > n PROVE FALSE  OBVIOUS
    <3>1. s # rest  BY <1>1, <1>3, <1>9 DEF RegionRec, Ends
    <3>2. s \in S \ {r}  BY <2>1, <3>1
    <3>3. QED BY <3>2, <1>1, <1>3, <1>4, <1>9 DEF RegionRec, Ends
  <2>3. t \in S \ {r}  BY <2>1, <2>2
  <2>4. CASE s = rest /\ r.size > n
    BY <2>3, <2>4, <1>1, <1>3, <1>9 DEF Merged, RegionRec
  <2>5. CASE s \in S \ {r}
    BY <2>3, <2>5, <1>9 DEF Merged
  <2>6. QED BY <2>1, <2>4, <2>5
<1>10. Merged(S, {}) => Merged(T, {})
  BY <1>9 DEF Merged
<1>11. QED BY <1>8, <1>10 DEF low, rest

LEMMA TilingFree ==
  ASSUME NEW S, Tiling(S), NEW r \in S, r.free = 0
  PROVE  LET f == Region(r.base, r.size, r.size)
             T == (S \ {r}) \cup {f}
         IN  f \notin S /\ Tiling(T) /\ (Merged(S, {}) => Merged(T, {f}))
<1> DEFINE f == Region(r.base, r.size, r.size)
           T == (S \ {r}) \cup {f}
<1>1. r \in RegionRec  BY DEF Tiling
<1>2. /\ f \in RegionRec /\ f.base = r.base /\ f.size = r.size /\ f.free = r.size
      /\ Ends(f) = Ends(r) /\ f # r
  BY <1>1 DEF Region, RegionRec, Ends
<1>3. \A s \in S : /\ s \in RegionRec /\ s.free \in {0, s.size}
                   /\ s # r => Ends(s) <= r.base \/ Ends(r) <= s.base
  BY DEF Tiling
<1> HIDE DEF f
<1>4. f \notin S
  BY <1>1, <1>2, <1>3 DEF RegionRec, Ends
<1>5. T \subseteq RegionRec /\ \A s \in T : s.free \in {0, s.size}
  BY <1>2, <1>3
<1>6. \A s, t \in T : s # t => Ends(s) <= t.base \/ Ends(t) <= s.base
  BY <1>2, <1>3 DEF Tiling
<1>7. \A p \in Nat : (\E s \in T : s.base <= p /\ p < Ends(s)) <=> (\E s \in S : s.base <= p /\ p < Ends(s))
  BY <1>2
<1>8. Tiling(T)
  <2> HIDE DEF T
  <2>1. QED BY <1>5, <1>6, <1>7 DEF Tiling
<1>9. Merged(S, {}) => Merged(T, {f})
  BY DEF Merged
<1>10. QED BY <1>4, <1>8, <1>9 DEF f

LEMMA TilingJoin ==
  ASSUME NEW S, Tiling(S), NEW lo \in S, NEW hi \in S, lo.free # 0, hi.free # 0,
         Ends(lo) = hi.base, NEW m \in {lo, hi}
  PROVE  LET j == Region(lo.base, lo.size + hi.size, lo.free + hi.free)
             T == (S \ {lo, hi}) \cup {j}
         IN  j \notin S /\ j \in RegionRec /\ Tiling(T) /\ (Merged(S, {m}) => Merged(T, {j}))
<1> DEFINE j == Region(lo.base, lo.size + hi.size, lo.free + hi.free)
           T == (S \ {lo, hi}) \cup {j}
<1>1. /\ lo \in RegionRec /\ hi \in RegionRec /\ lo.free = lo.size /\ hi.free = hi.size
      /\ lo # hi
  BY DEF Tiling, RegionRec, Ends
<1>2. /\ j \in RegionRec /\ j.base = lo.base /\ j.size = lo.size + hi.size /\ j.free = j.size
      /\ Ends(j) = Ends(hi)
  BY <1>1 DEF Region, RegionRec, Ends
<1>3. \A s \in S : /\ s \in RegionRec /\ s.free \in {0, s.size}
                   /\ s # lo => Ends(s) <= lo.base \/ Ends(lo) <= s.base
                   /\ s # hi => Ends(s) <= hi.base \/ Ends(hi) <= s.base
  BY DEF Tiling
<1> HIDE DEF j
<1>4. \A s \in S \ {lo, hi} : Ends(s) <= j.base \/ Ends(j) <= s.base
  BY <1>1, <1>2, <1>3 DEF RegionRec, Ends
<1>5. j \notin S
  BY <1>1, <1>2, <1>4 DEF RegionRec, Ends
<1>6. T \subseteq RegionRec /\ \A s \in T : s.free \in {0, s.size}
  BY <1>2, <1>3
<1>7. \A s, t \in T : s # t => Ends(s) <= t.base \/ Ends(t) <= s.base
  BY <1>4 DEF Tiling
<1>8. ASSUME NEW p \in Nat
      PROVE  (\E s \in T : s.base <= p /\ p < Ends(s)) <=> (\E s \in S : s.base <= p /\ p < Ends(s))
  <2>1. (j.base <= p /\ p < Ends(j)) <=>
          \/ lo.base <= p /\ p < Ends(lo)
          \/ hi.base <= p /\ p < Ends(hi)
    BY <1>1, <1>2 DEF RegionRec, Ends
  <2>2. QED BY <2>1
<1>9. Tiling(T)
  <2> HIDE DEF T
  <2>1. QED BY <1>6, <1>7, <1>8 DEF Tiling
<1>10. Merged(S, {m}) => Merged(T, {j})
  BY DEF Merged
<1>11. QED BY <1>2, <1>5, <1>9, <1>10 DEF j

\* VM v holds its k-th block: not yet freed, if v is being removed.
HoldsBlock(v, k) ==
    /\ k \in 1 .. Len(owned[v])
    /\ IF op.kind = "remove" /\ op.vm = v THEN k >= op.k
       ELSE v \in ready \/ (op.kind = "setup" /\ op.vm = v)

\* Every block held is one taken region, and every taken region a block held.
BlocksOK ==
    /\ \A v \in Guests, k \in Nat : HoldsBlock(v, k) =>
         Region(owned[v][k].start, owned[v][k].len, 0) \in Elems(region)
    /\ \A r \in Elems(region) : r.free = 0 =>
         \E v \in Guests, k \in Nat : HoldsBlock(v, k) /\ owned[v][k] = Block(r.base, r.size)
    /\ \A u, v \in Guests, j, k \in Nat :
         HoldsBlock(u, j) /\ HoldsBlock(v, k) /\ owned[u][j].start = owned[v][k].start
           => u = v /\ j = k

ListOK ==
    /\ region \in Seq(RegionRec) /\ Distinct(region)
    /\ Tiling(Elems(region))
    /\ merge \in 0 .. Len(region)
    /\ merge # 0 => op.kind = "remove" /\ region[merge].free # 0
    /\ Merged(Elems(region), IF merge = 0 THEN {} ELSE {region[merge]})

\* The set-up or removal under way, and who may still have blocks recorded.
OpOK ==
    /\ owned \in [Guests -> Seq([start : Nat, len : Nat])]
    /\ live \subseteq Guests /\ ready \subseteq Guests
    /\ op = NoOp \/ op \in [kind : {"setup", "remove"}, vm : Guests, k : Nat \ {0}]
    /\ op.kind = "setup" => op.vm \notin ready \cup live
    /\ op.kind = "remove" => op.vm \notin ready
    /\ \A v \in Guests : v \in ready \cup live \/ (op # NoOp /\ op.vm = v) \/ owned[v] = <<>>

MemInv == OpOK /\ ListOK /\ BlocksOK

LEMMA MemInvInit == MemoryConstants /\ MemInit => MemInv
<1> SUFFICES ASSUME MemoryConstants, MemInit PROVE MemInv
  OBVIOUS
<1>1. OpOK /\ merge = 0
  BY DEF MemInit, OpOK, NoOp
<1>2. \A v \in Guests, k \in Nat : ~HoldsBlock(v, k)
  BY DEF HoldsBlock, MemInit
<1>3. Platform \in Seq([base : Nat \ {0}, size : Nat \ {0}])
  BY DEF MemoryConstants
<1>4. /\ Len(region) = Len(Platform) /\ Len(region) \in Nat
      /\ \A i \in 1 .. Len(region) :
           region[i] = Region(Platform[i].base, Platform[i].size, Platform[i].size)
  BY <1>3 DEF MemInit
<1>5. \A i \in 1 .. Len(region) :
        /\ region[i] \in RegionRec
        /\ region[i].base = Platform[i].base /\ region[i].size = Platform[i].size
        /\ region[i].free = region[i].size
        /\ Ends(region[i]) = Platform[i].base + Platform[i].size
  <2> TAKE i \in 1 .. Len(region)
  <2> DEFINE p == Platform[i]
  <2>1. i \in 1 .. Len(Platform)  BY <1>4
  <2>2. p \in [base : Nat \ {0}, size : Nat \ {0}]  BY <1>3, <2>1, ElementOfSeq
  <2>3. p.base \in Nat /\ p.size \in Nat \ {0}  BY <2>2
  <2>4. region[i] = Region(p.base, p.size, p.size)  BY <1>4
  <2> HIDE DEF p
  <2>5. /\ region[i] \in RegionRec
        /\ region[i].base = p.base /\ region[i].size = p.size
        /\ region[i].free = region[i].size
        /\ Ends(region[i]) = p.base + p.size
    BY <2>3, <2>4 DEF Region, RegionRec, Ends
  <2>6. QED BY <2>5 DEF p
<1>6. region \in Seq(RegionRec)
  <2>1. region \in [1 .. Len(Platform) -> RegionRec]
    BY <1>4, <1>5 DEF MemInit
  <2>2. Len(Platform) \in Nat  BY <1>3
  <2>3. QED BY <2>1, <2>2, SeqDef
<1>7. \A i, j \in 1 .. Len(region) : i # j =>
        Ends(region[i]) <= region[j].base \/ Ends(region[j]) <= region[i].base
  BY <1>4, <1>5 DEF MemoryConstants
<1>8. Distinct(region)
  BY <1>5, <1>7 DEF Distinct, RegionRec, Ends
<1>9. \A p \in Nat : p \in AllPages <=> \E r \in Elems(region) : r.base <= p /\ p < Ends(r)
  <2> SUFFICES ASSUME NEW p \in Nat
               PROVE  p \in AllPages <=> \E r \in Elems(region) : r.base <= p /\ p < Ends(r)
    OBVIOUS
  <2>1. \A i \in 1 .. Len(Platform) :
          p \in Pages(Platform[i].base, Platform[i].size) <=>
            region[i].base <= p /\ p < Ends(region[i])
    <3> TAKE i \in 1 .. Len(Platform)
    <3>1. /\ region[i] \in RegionRec
          /\ region[i].base = Platform[i].base /\ region[i].size = Platform[i].size
      BY <1>4, <1>5
    <3>2. region[i].base \in Nat /\ region[i].size \in Nat  BY <3>1 DEF RegionRec
    <3>3. QED BY <3>1, <3>2 DEF Pages, Ends
  <2>2. p \in AllPages <=>
          \E i \in 1 .. Len(Platform) : p \in Pages(Platform[i].base, Platform[i].size)
    BY DEF AllPages
  <2>3. QED BY <2>1, <2>2, <1>4 DEF Elems
<1>10. Tiling(Elems(region))
  BY <1>5, <1>7, <1>9 DEF Tiling, Elems
<1>11. Merged(Elems(region), {})
  BY <1>4, <1>5 DEF Merged, Elems
<1>12. ListOK  BY <1>1, <1>4, <1>6, <1>8, <1>10, <1>11 DEF ListOK
<1>13. BlocksOK  BY <1>2, <1>5 DEF BlocksOK, Elems, RegionRec
<1>14. QED BY <1>1, <1>12, <1>13 DEF MemInv

\* A step that leaves the regions alone.
LEMMA SameRegions ==
  ASSUME MemInv, UNCHANGED <<region, merge>>, merge = 0, OpOK',
         \A v \in Guests, k \in Nat : HoldsBlock(v, k)' <=> HoldsBlock(v, k),
         \A v \in Guests, k \in Nat : HoldsBlock(v, k) => owned'[v][k] = owned[v][k]
  PROVE  MemInv'
<1>1. ListOK'  BY DEF MemInv, ListOK
<1>2. BlocksOK'  BY DEF MemInv, BlocksOK
<1>3. QED BY <1>1, <1>2 DEF MemInv

LEMMA TakenIs ==
  ASSUME ListOK, NEW n \in Nat \ {0}, NEW i \in 1 .. Len(region), region[i].free >= n
  PROVE  LET r    == region[i]
             low  == Region(r.base, n, 0)
             rest == Region(r.base + n, r.size - n, r.size - n)
             T    == (Elems(region) \ {r}) \cup {low} \cup (IF r.size > n THEN {rest} ELSE {})
         IN  /\ Taken(i, n) \in Seq(RegionRec)
             /\ Distinct(Taken(i, n))
             /\ Elems(Taken(i, n)) = T
<1> DEFINE r    == region[i]
           low  == Region(r.base, n, 0)
           rest == Region(r.base + n, r.size - n, r.size - n)
           S    == Elems(region)
           T    == (S \ {r}) \cup {low} \cup (IF r.size > n THEN {rest} ELSE {})
<1>1. r \in S /\ r \in RegionRec /\ r.free = r.size /\ r.free # 0 /\ n <= r.free
  BY DEF ListOK, Tiling, Elems, RegionRec
<1>2. Tiling(S) /\ region \in Seq(RegionRec) /\ Distinct(region)  BY DEF ListOK
<1>3. low \notin S /\ rest \notin S \ {r} /\ low # rest
  <2> HIDE DEF S, r
  <2>1. QED BY <1>1, <1>2, TakeFresh
<1>4. low \in RegionRec /\ (r.size > n => rest \in RegionRec) /\ rest # r
  BY <1>1 DEF Region, RegionRec
<1>5. Region(r.base, IF r.size > n THEN n ELSE r.size, 0) = low
  BY <1>1 DEF RegionRec
<1> DEFINE split == IF r.size > n THEN Append(region, rest) ELSE region
<1>6. Taken(i, n) = [split EXCEPT ![i] = low]
  BY <1>5 DEF Taken
<1> HIDE DEF low, rest, S
<1>7. /\ split \in Seq(RegionRec) /\ Distinct(split) /\ i \in 1 .. Len(split) /\ split[i] = r
      /\ Elems(split) = S \cup (IF r.size > n THEN {rest} ELSE {})
  <2>1. CASE r.size > n
    BY <2>1, <1>2, <1>3, <1>4, AppendElems DEF S
  <2>2. CASE ~(r.size > n)
    BY <2>2, <1>2 DEF S
  <2>3. QED BY <2>1, <2>2
<1> HIDE DEF split
<1>8. low \notin Elems(split) \ {split[i]}  BY <1>3, <1>7
<1>9. /\ Taken(i, n) \in Seq(RegionRec) /\ Distinct(Taken(i, n))
      /\ Elems(Taken(i, n)) = (Elems(split) \ {r}) \cup {low}
  <2> DEFINE t == Put(split, i, low)
  <2>1. /\ split \in Seq(RegionRec) /\ Distinct(split) /\ i \in 1 .. Len(split)
        /\ low \in RegionRec /\ low \notin Elems(split) \ {split[i]}
    BY <1>4, <1>7, <1>8
  <2>2. t \in Seq(RegionRec) /\ Distinct(t) /\ Elems(t) = (Elems(split) \ {split[i]}) \cup {low}
    BY <2>1, ReplaceElems
  <2> HIDE DEF t
  <2>3. Taken(i, n) = t  BY <1>6 DEF t, Put
  <2>4. QED BY <2>2, <2>3, <1>7
<1>10. Elems(Taken(i, n)) = T  BY <1>4, <1>7, <1>9
<1>11. QED BY <1>9, <1>10 DEF low, rest, S

LEMMA MemInitMemory ==
  ASSUME MemoryConstants, MemInv, InitMemory
  PROVE  MemInv'
<1> DEFINE v == op.vm
           n == Requests[v][op.k]
           i == First(Fits(n))
           r == region[i]
<1>1. /\ op.kind = "setup" /\ v \in Guests /\ op.k \in Nat \ {0} /\ v \notin ready \cup live
      /\ op \in [kind : {"setup", "remove"}, vm : Guests, k : Nat \ {0}]
      /\ op # NoOp
  BY DEF InitMemory, MemInv, OpOK, NoOp
<1>2. n \in Nat \ {0}
  <2>1. Requests[v] \in Seq(Nat \ {0})  BY <1>1 DEF MemoryConstants
  <2>2. op.k \in 1 .. Len(Requests[v])  BY <1>1, <2>1 DEF InitMemory
  <2>3. QED BY <2>1, <2>2
<1>3. merge = 0 /\ merge' = 0 /\ live' = live /\ ready' = ready
  BY <1>1 DEF InitMemory, MemInv, ListOK
<1>4. CASE Fits(n) = {}
  <2>1. UNCHANGED <<region, owned, op>>  BY <1>4 DEF InitMemory
  <2>2. OpOK'  BY <2>1, <1>3 DEF MemInv, OpOK
  <2>3. \A u \in Guests, k \in Nat : HoldsBlock(u, k)' <=> HoldsBlock(u, k)
    BY <2>1, <1>3 DEF HoldsBlock
  <2>4. QED BY <2>1, <2>2, <2>3, <1>3, SameRegions
<1>5. CASE Fits(n) # {}
  <2>1. /\ region' = Taken(i, n)
        /\ owned' = [owned EXCEPT ![v] = Append(@, Block(r.base, n))]
        /\ op' = [op EXCEPT !.k = @ + 1]
    BY <1>5 DEF InitMemory
  <2>2. i \in Fits(n)
    <3>1. Fits(n) \in SUBSET Nat  BY DEF Fits
    <3>2. QED BY <3>1, <1>5, FirstIn
  <2>3. i \in 1 .. Len(region) /\ r.free >= n  BY <2>2 DEF Fits
  <2>4. ListOK /\ Tiling(Elems(region)) /\ Merged(Elems(region), {})
    BY <1>3 DEF MemInv, ListOK
  <2> HIDE DEF n, i
  <2>5. r \in Elems(region) /\ r \in RegionRec /\ r.free = r.size /\ r.free # 0 /\ n <= r.free
    BY <1>2, <2>3, <2>4 DEF ListOK, Tiling, Elems, RegionRec
  <2> DEFINE low  == Region(r.base, n, 0)
             rest == Region(r.base + n, r.size - n, r.size - n)
             T    == (Elems(region) \ {r}) \cup {low} \cup (IF r.size > n THEN {rest} ELSE {})
  <2>6. region' \in Seq(RegionRec) /\ Distinct(region') /\ Elems(region') = T
    BY <1>2, <2>1, <2>3, <2>4, TakenIs
  <2>7. Tiling(T) /\ Merged(T, {})
    BY <1>2, <2>4, <2>5, TilingTake
  <2>8. ListOK'
    <3> HIDE DEF T
    <3>1. Tiling(Elems(region'))  BY <2>6, <2>7
    <3>2. Tiling(Elems(region))'  BY <3>1 DEF Tiling, Elems, AllPages, Ends
    <3>3. Merged(Elems(region'), {})  BY <2>6, <2>7
    <3>4. QED BY <1>3, <2>6, <3>2, <3>3 DEF ListOK, Merged, Elems, Distinct
  <2>9. /\ op' \in [kind : {"setup", "remove"}, vm : Guests, k : Nat \ {0}]
        /\ op'.kind = "setup" /\ op'.vm = v
    BY <1>1, <2>1
  <2>10. /\ owned \in [Guests -> Seq([start : Nat, len : Nat])]
         /\ Block(r.base, n) \in [start : Nat, len : Nat]
    BY <1>2, <2>5 DEF MemInv, OpOK, Block, RegionRec
  <2>11. owned' \in [Guests -> Seq([start : Nat, len : Nat])]
    BY <2>1, <2>10, <1>1
  <2>12. OpOK'
    <3>1. op' # NoOp  BY <2>9 DEF NoOp
    <3>2. \A u \in Guests : u # v => owned'[u] = owned[u]  BY <2>1, <2>10
    <3>3. \A u \in Guests : u \in ready' \cup live' \/ (op' # NoOp /\ op'.vm = u) \/ owned'[u] = <<>>
      BY <3>1, <3>2, <2>9, <1>1, <1>3 DEF MemInv, OpOK
    <3>4. QED BY <2>9, <2>11, <3>3, <1>1, <1>3 DEF MemInv, OpOK, NoOp
  <2>13. /\ \A u \in Guests : u # v => owned'[u] = owned[u]
         /\ Len(owned'[v]) = Len(owned[v]) + 1 /\ Len(owned[v]) \in Nat
         /\ owned'[v][Len(owned[v]) + 1] = Block(r.base, n)
         /\ \A k \in 1 .. Len(owned[v]) : owned'[v][k] = owned[v][k]
    BY <2>1, <2>10, <1>1
  <2>14. \A u \in Guests, k \in Nat : HoldsBlock(u, k)' <=>
           HoldsBlock(u, k) \/ (u = v /\ k = Len(owned[v]) + 1)
    BY <2>9, <2>13, <1>1, <1>3 DEF HoldsBlock
  <2>15. \A u \in Guests, k \in Nat : HoldsBlock(u, k) =>
           owned'[u][k] = owned[u][k] /\ ~(u = v /\ k = Len(owned[v]) + 1)
    BY <2>13, <1>1 DEF HoldsBlock
  <2>16. Block(r.base, n).start = r.base /\ Block(r.base, n).len = n
         /\ low.base = r.base /\ low.size = n /\ low.free = 0
         /\ (r.size > n => rest.free # 0)
    BY <1>2, <2>5 DEF Block, Region, RegionRec
  <2>17. BlocksOK'
    <3> HIDE DEF v
    <3>1. ASSUME NEW u \in Guests, NEW k \in Nat, HoldsBlock(u, k)
          PROVE  /\ Region(owned[u][k].start, owned[u][k].len, 0) \in Elems(region')
                 /\ owned[u][k].start # r.base
      <4> DEFINE s == Region(owned[u][k].start, owned[u][k].len, 0)
      <4>1. s \in Elems(region) /\ s.free = 0 /\ s.base = owned[u][k].start
        BY <3>1 DEF MemInv, BlocksOK, Region
      <4> HIDE DEF s
      <4>2. s # r  BY <4>1, <2>5
      <4>3. s.base # r.base
        BY <4>1, <4>2, <2>4, <2>5 DEF Tiling, RegionRec, Ends
      <4>4. QED BY <4>1, <4>2, <4>3, <2>6 DEF s
    <3>2. Region(owned'[v][Len(owned[v]) + 1].start, owned'[v][Len(owned[v]) + 1].len, 0)
            \in Elems(region')
      BY <2>6, <2>13, <2>16
    <3>3. ASSUME NEW u \in Guests, NEW k \in Nat, HoldsBlock(u, k)'
          PROVE  Region(owned'[u][k].start, owned'[u][k].len, 0) \in Elems(region')
      BY <3>1, <3>2, <3>3, <2>14, <2>15
    <3>4. ASSUME NEW s \in Elems(region'), s.free = 0
          PROVE  \E u \in Guests, k \in Nat :
                   HoldsBlock(u, k)' /\ owned'[u][k] = Block(s.base, s.size)
      <4>1. CASE s = low
        <5>1. PICK u \in Guests, k \in Nat : u = v /\ k = Len(owned[v]) + 1
          BY <1>1, <2>13 DEF v
        <5>2. HoldsBlock(u, k)'  BY <5>1, <2>14
        <5>3. owned'[u][k] = Block(s.base, s.size)  BY <4>1, <5>1, <2>13, <2>16
        <5>4. QED BY <5>2, <5>3
      <4>2. CASE s \in Elems(region)
        BY <4>2, <3>4, <2>14, <2>15 DEF MemInv, BlocksOK
      <4>3. QED BY <4>1, <4>2, <3>4, <2>6, <2>16
    <3>5. ASSUME NEW u \in Guests, NEW w \in Guests, NEW j \in Nat, NEW k \in Nat,
                 HoldsBlock(u, j)', HoldsBlock(w, k)', owned'[u][j].start = owned'[w][k].start
          PROVE  u = w /\ j = k
      <4>1. CASE HoldsBlock(u, j) /\ HoldsBlock(w, k)
        BY <4>1, <3>5, <2>15 DEF MemInv, BlocksOK
      <4>2. CASE HoldsBlock(u, j) /\ w = v /\ k = Len(owned[v]) + 1
        BY <4>2, <3>1, <3>5, <2>13, <2>15, <2>16
      <4>3. CASE HoldsBlock(w, k) /\ u = v /\ j = Len(owned[v]) + 1
        BY <4>3, <3>1, <3>5, <2>13, <2>15, <2>16
      <4>4. QED BY <4>1, <4>2, <4>3, <3>5, <2>14
    <3>6. QED BY <3>3, <3>4, <3>5 DEF BlocksOK, Elems
  <2>18. QED BY <2>8, <2>12, <2>17 DEF MemInv
<1>6. QED BY <1>4, <1>5

LEMMA MemFreeRegion ==
  ASSUME MemInv, FreeRegion
  PROVE  MemInv'
<1> DEFINE v == op.vm
           b == owned[v][op.k]
           i == First(Allocated(b.start))
           r == region[i]
           f == Region(r.base, r.size, r.size)
<1>1. /\ op.kind = "remove" /\ v \in Guests /\ op.k \in Nat \ {0} /\ v \notin ready
      /\ op \in [kind : {"setup", "remove"}, vm : Guests, k : Nat \ {0}]
      /\ merge = 0
  BY DEF FreeRegion, MemInv, OpOK, NoOp
<1>2. /\ op' = [op EXCEPT !.k = @ + 1] /\ owned' = owned /\ live' = live /\ ready' = ready
  BY DEF FreeRegion
<1>3. op' \in [kind : {"setup", "remove"}, vm : Guests, k : Nat \ {0}]
      /\ op'.kind = "remove" /\ op'.vm = v /\ op'.k = op.k + 1
  BY <1>1, <1>2
<1>4. HoldsBlock(v, op.k) /\ b \in [start : Nat, len : Nat]
  <2>1. owned[v] \in Seq([start : Nat, len : Nat])  BY <1>1 DEF MemInv, OpOK
  <2>2. op.k \in 1 .. Len(owned[v])  BY <1>1, <2>1 DEF FreeRegion
  <2>3. b \in [start : Nat, len : Nat]  BY <2>1, <2>2, ElementOfSeq
  <2>4. QED BY <1>1, <2>2, <2>3 DEF HoldsBlock
<1>5. OpOK'
  <2>1. op' # NoOp /\ op # NoOp  BY <1>1, <1>3 DEF NoOp
  <2>2. QED BY <2>1, <1>1, <1>2, <1>3 DEF MemInv, OpOK
<1>6. /\ region \in Seq(RegionRec) /\ Distinct(region) /\ Tiling(Elems(region))
      /\ Merged(Elems(region), {})
  BY <1>1 DEF MemInv, ListOK
<1> DEFINE taken == Region(b.start, b.len, 0)
<1>7. /\ taken \in Elems(region) /\ taken.base = b.start /\ taken.size = b.len /\ taken.free = 0
  BY <1>1, <1>4 DEF MemInv, BlocksOK, Region
<1> HIDE DEF b, taken
<1>8. Allocated(b.start) # {}
  BY <1>7 DEF Allocated, Elems
<1>9. i \in 1 .. Len(region) /\ r.base = b.start /\ r.free = 0
  <2>1. Allocated(b.start) \in SUBSET Nat  BY DEF Allocated
  <2>2. i \in Allocated(b.start)  BY <2>1, <1>8, FirstIn
  <2>3. QED BY <2>2 DEF Allocated
<1>10. /\ region' = [region EXCEPT ![i] = Region(@.base, @.size, @.free + b.len)]
       /\ merge' = i
  BY <1>8 DEF FreeRegion, b
<1> HIDE DEF i
<1>11. r \in Elems(region) /\ r \in RegionRec /\ r = taken
  <2>1. r \in Elems(region)  BY <1>9 DEF Elems
  <2>2. r \in RegionRec  BY <1>6, <2>1 DEF Tiling
  <2>3. QED BY <2>1, <2>2, <1>6, <1>7, <1>9, SameBase
<1>12. /\ f \in RegionRec /\ f.base = r.base /\ f.size = r.size /\ f.free = r.size /\ f.free # 0
  BY <1>11 DEF RegionRec, Region
<1>13. region' = Put(region, i, f)
  <2>1. r.free + b.len = r.size  BY <1>7, <1>9, <1>11 DEF RegionRec
  <2>2. region' = [region EXCEPT ![i] = f]  BY <2>1, <1>10
  <2>3. QED BY <2>2 DEF Put
<1>14. f \notin Elems(region)
  BY <1>6, <1>9, <1>11, TilingFree
<1> DEFINE T == (Elems(region) \ {r}) \cup {f}
<1>15. Tiling(T) /\ Merged(T, {f})
  BY <1>6, <1>9, <1>11, TilingFree
<1> HIDE DEF f
<1>16. /\ region' \in Seq(RegionRec) /\ Distinct(region') /\ Len(region') = Len(region)
       /\ region'[i] = f /\ Elems(region') = T
  BY <1>6, <1>9, <1>12, <1>13, <1>14, ReplaceElems
<1>17. ListOK'
  <2> HIDE DEF T
  <2>1. Tiling(Elems(region'))  BY <1>15, <1>16
  <2>2. Tiling(Elems(region))'  BY <2>1 DEF Tiling, Elems, AllPages, Ends
  <2>3. Merged(Elems(region'), {region'[merge']})  BY <1>10, <1>15, <1>16
  <2>4. Merged(Elems(region), {region[merge]})'  BY <2>3 DEF Merged, Elems, Ends
  <2>5. merge' # 0 /\ merge' \in 0 .. Len(region')  BY <1>9, <1>10, <1>16
  <2>6. region'[merge'].free # 0  BY <1>10, <1>12, <1>16
  <2>7. QED BY <1>3, <1>16, <2>2, <2>4, <2>5, <2>6 DEF ListOK, Distinct
<1>18. \A u \in Guests, k \in Nat : HoldsBlock(u, k)' <=> HoldsBlock(u, k) /\ ~(u = v /\ k = op.k)
  BY <1>1, <1>2, <1>3 DEF HoldsBlock
<1>19. BlocksOK'
  <2> HIDE DEF v
  <2>1. ASSUME NEW u \in Guests, NEW k \in Nat, HoldsBlock(u, k)'
        PROVE  Region(owned'[u][k].start, owned'[u][k].len, 0) \in Elems(region')
    <3>1. HoldsBlock(u, k) /\ ~(u = v /\ k = op.k)  BY <1>18, <2>1
    <3>2. owned[u][k].start # b.start
      BY <3>1, <1>1, <1>4 DEF MemInv, BlocksOK, b, v
    <3> DEFINE s == Region(owned[u][k].start, owned[u][k].len, 0)
    <3>3. s \in Elems(region) /\ s.base = owned[u][k].start
      BY <3>1 DEF MemInv, BlocksOK, Region
    <3>4. s # r  BY <3>2, <3>3, <1>9
    <3> HIDE DEF s
    <3>5. QED BY <3>3, <3>4, <1>2, <1>16 DEF s
  <2>2. ASSUME NEW s \in Elems(region'), s.free = 0
        PROVE  \E u \in Guests, k \in Nat :
                 HoldsBlock(u, k)' /\ owned'[u][k] = Block(s.base, s.size)
    <3>1. s \in Elems(region) /\ s # r  BY <2>2, <1>12, <1>16
    <3>2. PICK u \in Guests, k \in Nat : HoldsBlock(u, k) /\ owned[u][k] = Block(s.base, s.size)
      BY <2>2, <3>1 DEF MemInv, BlocksOK
    <3>3. s.base # r.base
      BY <3>1, <1>6, <1>11, SameBase
    <3>4. owned[u][k].start = s.base  BY <3>2 DEF Block
    <3>5. ~(u = v /\ k = op.k)  BY <3>3, <3>4, <1>9 DEF b, v
    <3>6. QED BY <3>2, <3>5, <1>2, <1>18
  <2>3. ASSUME NEW u \in Guests, NEW w \in Guests, NEW j \in Nat, NEW k \in Nat,
               HoldsBlock(u, j)', HoldsBlock(w, k)', owned'[u][j].start = owned'[w][k].start
        PROVE  u = w /\ j = k
    BY <2>3, <1>2, <1>18 DEF MemInv, BlocksOK
  <2>4. QED BY <2>1, <2>2, <2>3 DEF BlocksOK, Elems
<1>20. QED BY <1>5, <1>17, <1>19 DEF MemInv

LEMMA AbsorbIs ==
  ASSUME ListOK, NEW low \in 1 .. Len(region), NEW high \in 1 .. Len(region),
         region[low].free # 0, region[high].free # 0, Ends(region[low]) = region[high].base
  PROVE  LET lo == region[low]
             hi == region[high]
             j  == Region(lo.base, lo.size + hi.size, lo.free + hi.free)
             s  == Absorb(low, high)
             at == Shifted(low, high)
         IN  /\ s \in Seq(RegionRec) /\ Distinct(s)
             /\ Elems(s) = (Elems(region) \ {lo, hi}) \cup {j}
             /\ at \in 1 .. Len(s) /\ s[at] = j /\ j.free # 0
<1> DEFINE lo == region[low]
           hi == region[high]
           j  == Region(lo.base, lo.size + hi.size, lo.free + hi.free)
           s  == Absorb(low, high)
           at == Shifted(low, high)
           S  == Elems(region)
<1>1. region \in Seq(RegionRec) /\ Distinct(region) /\ Tiling(S)  BY DEF ListOK
<1>2. /\ lo \in S /\ hi \in S /\ lo \in RegionRec /\ hi \in RegionRec
      /\ lo.free = lo.size /\ hi.free = hi.size
  BY <1>1 DEF Elems, Tiling
<1>3. lo # hi /\ low # high  BY <1>2 DEF RegionRec, Ends
<1>4. j \notin S /\ j \in RegionRec  BY <1>1, <1>2, TilingJoin
<1>5. j.free # 0  BY <1>2 DEF RegionRec, Region
<1> DEFINE grown == Put(region, low, j)
<1>6. s = WithoutRegion(grown, high)
  BY <1>2 DEF Absorb, Put
<1> HIDE DEF j, S
<1>7. /\ grown \in Seq(RegionRec) /\ Len(grown) = Len(region) /\ Distinct(grown)
      /\ \A k \in 1 .. Len(region) : grown[k] = IF k = low THEN j ELSE region[k]
      /\ Elems(grown) = (S \ {lo}) \cup {j}
  <2>1. j \notin Elems(region) \ {region[low]}  BY <1>4 DEF S
  <2>2. QED BY <2>1, <1>1, <1>4, ReplaceElems DEF S
<1>8. grown[low] = j /\ grown[high] = hi  BY <1>3, <1>7
<1> HIDE DEF grown, s, lo, hi
<1>9. /\ s \in Seq(RegionRec) /\ Distinct(s)
      /\ Elems(s) = Elems(grown) \ {hi}
      /\ at \in 1 .. Len(s) /\ s[at] = j
  BY <1>3, <1>6, <1>7, <1>8, WithoutElems
<1>10. Elems(s) = (S \ {lo, hi}) \cup {j}
  BY <1>2, <1>4, <1>7, <1>9
<1>11. QED BY <1>5, <1>9, <1>10 DEF s, S, lo, hi, j

LEMMA MemMergeRegion ==
  ASSUME MemInv, MergeRegion
  PROVE  MemInv'
<1>1. UNCHANGED <<owned, live, ready, op>> /\ merge # 0  BY DEF MergeRegion
<1>2. OpOK'  BY <1>1 DEF MemInv, OpOK
<1>3. /\ region \in Seq(RegionRec) /\ Distinct(region) /\ Tiling(Elems(region))
      /\ merge \in 1 .. Len(region) /\ region[merge].free # 0 /\ op.kind = "remove"
      /\ Merged(Elems(region), {region[merge]})
  BY <1>1 DEF MemInv, ListOK
<1>4. \A i \in 1 .. Len(region) : region[i] \in RegionRec
  BY <1>3, ElementOfSeq
<1>5. \A u \in Guests, k \in Nat : HoldsBlock(u, k)' <=> HoldsBlock(u, k)
  BY <1>1 DEF HoldsBlock
<1>6. CASE Neighbours(merge) = {}
  <2>1. merge' = 0 /\ region' = region  BY <1>6 DEF MergeRegion
  <2>2. \A i \in 1 .. Len(region) : region[i].free # 0 =>
          Ends(region[i]) # region[merge].base /\ Ends(region[merge]) # region[i].base
    BY <1>6 DEF Neighbours, Ends
  <2>3. Merged(Elems(region), {})
    BY <2>2, <1>3 DEF Merged, Elems
  <2>4. ListOK'  BY <2>1, <2>3, <1>3 DEF ListOK
  <2>5. BlocksOK'  BY <2>1, <1>1, <1>5 DEF MemInv, BlocksOK
  <2>6. QED BY <1>2, <2>4, <2>5 DEF MemInv
<1>7. CASE Neighbours(merge) # {}
  <2> DEFINE i    == First(Neighbours(merge))
             low  == IF region[i].base < region[merge].base THEN i ELSE merge
             high == IF low = i THEN merge ELSE i
  <2>1. region' = Absorb(low, high) /\ merge' = Shifted(low, high)
    BY <1>7 DEF MergeRegion
  <2>2. i \in Neighbours(merge)
    <3>1. Neighbours(merge) \in SUBSET Nat  BY DEF Neighbours
    <3>2. QED BY <3>1, <1>7, FirstIn
  <2> HIDE DEF i
  <2>3. /\ i \in 1 .. Len(region) /\ region[i].free # 0
        /\ \/ region[merge].base = Ends(region[i])
           \/ Ends(region[merge]) = region[i].base
    BY <2>2 DEF Neighbours, Ends
  <2>4. i # merge  BY <1>3, <1>4, <2>3 DEF RegionRec, Ends
  <2>5. /\ low \in 1 .. Len(region) /\ high \in 1 .. Len(region)
        /\ region[low].free # 0 /\ region[high].free # 0
        /\ Ends(region[low]) = region[high].base
        /\ merge \in {low, high}
    <3>1. /\ region[i].base \in Nat /\ region[i].size \in Nat \ {0}
          /\ region[merge].base \in Nat /\ region[merge].size \in Nat \ {0}
      BY <1>3, <1>4, <2>3 DEF RegionRec
    <3>2. CASE region[i].base < region[merge].base
      <4>1. low = i /\ high = merge  BY <3>2
      <4>2. region[merge].base = Ends(region[i])  BY <3>1, <3>2, <2>3 DEF Ends
      <4>3. QED BY <4>1, <4>2, <1>3, <2>3
    <3>3. CASE ~(region[i].base < region[merge].base)
      <4>1. low = merge /\ high = i  BY <3>3, <2>4
      <4>2. Ends(region[merge]) = region[i].base  BY <3>1, <3>3, <2>3 DEF Ends
      <4>3. QED BY <4>1, <4>2, <1>3, <2>3
    <3>4. QED BY <3>2, <3>3
  <2> HIDE DEF low, high
  <2> DEFINE lo == region[low]
             hi == region[high]
             j  == Region(lo.base, lo.size + hi.size, lo.free + hi.free)
             S  == Elems(region)
             T  == (S \ {lo, hi}) \cup {j}
  <2>6. /\ region' \in Seq(RegionRec) /\ Distinct(region') /\ Elems(region') = T
        /\ merge' \in 1 .. Len(region') /\ region'[merge'] = j /\ j.free # 0
    BY <2>1, <2>5, AbsorbIs DEF MemInv
  <2>7. lo \in S /\ hi \in S /\ lo.free # 0 /\ hi.free # 0 /\ Ends(lo) = hi.base /\ region[merge] \in {lo, hi}
    BY <2>5 DEF Elems
  <2>8. Tiling(T) /\ Merged(T, {j})
    <3> DEFINE m == region[merge]
    <3>1. Tiling(S) /\ Merged(S, {m}) /\ m \in {lo, hi}  BY <1>3, <2>7
    <3> HIDE DEF m, lo, hi, S
    <3>2. QED BY <3>1, <2>7, TilingJoin
  <2> HIDE DEF j
  <2>9. ListOK'
    <3> HIDE DEF T
    <3>1. Tiling(Elems(region'))  BY <2>6, <2>8
    <3>2. Tiling(Elems(region))'  BY <3>1 DEF Tiling, Elems, AllPages, Ends
    <3>3. Merged(Elems(region'), {region'[merge']})  BY <2>6, <2>8
    <3>4. Merged(Elems(region), {region[merge]})'  BY <3>3 DEF Merged, Elems, Ends
    <3>5. merge' # 0 /\ merge' \in 0 .. Len(region')  BY <2>6
    <3>6. region'[merge'].free # 0  BY <2>6
    <3>7. QED BY <1>1, <1>3, <2>6, <3>2, <3>4, <3>5, <3>6 DEF ListOK, Distinct
  <2>10. \A s : s.free = 0 => (s \in Elems(region') <=> s \in Elems(region))
    BY <2>6, <2>7
  <2>11. \A a, n : Region(a, n, 0).free = 0  BY DEF Region
  <2>12. BlocksOK'
    <3>1. \A v \in Guests, k \in Nat : HoldsBlock(v, k)' =>
            Region(owned'[v][k].start, owned'[v][k].len, 0) \in Elems(region')
      BY <1>1, <1>5, <2>10, <2>11 DEF MemInv, BlocksOK
    <3>2. \A s \in Elems(region') : s.free = 0 =>
            \E v \in Guests, k \in Nat : HoldsBlock(v, k)' /\ owned'[v][k] = Block(s.base, s.size)
      BY <1>1, <1>5, <2>10 DEF MemInv, BlocksOK
    <3>3. \A u, v \in Guests, g, k \in Nat :
            HoldsBlock(u, g)' /\ HoldsBlock(v, k)' /\ owned'[u][g].start = owned'[v][k].start
              => u = v /\ g = k
      BY <1>1, <1>5 DEF MemInv, BlocksOK
    <3>4. QED BY <3>1, <3>2, <3>3 DEF BlocksOK, Elems
  <2>13. QED BY <1>2, <2>9, <2>12 DEF MemInv
<1>8. QED BY <1>6, <1>7

LEMMA MemStep ==
  ASSUME MemoryConstants, MemInv, [MemNext]_memVars
  PROVE  MemInv'
<1>1. CASE UNCHANGED memVars
  BY <1>1 DEF memVars, MemInv, OpOK, ListOK, BlocksOK, HoldsBlock
<1>2. ASSUME NEW v \in Guests, StartSetup(v)  PROVE MemInv'
  <2>1. /\ op = NoOp /\ v \notin ready \cup live /\ op' = Op("setup", v, 1)
        /\ UNCHANGED <<region, owned, live, ready, merge>>
    BY <1>2 DEF StartSetup, ManagerIdle
  <2>2. op.kind = "none" /\ op'.kind = "setup" /\ op'.vm = v
        /\ op' \in [kind : {"setup", "remove"}, vm : Guests, k : Nat \ {0}]
    BY <2>1 DEF NoOp, Op
  <2>3. op' # NoOp /\ owned[v] = <<>>  BY <2>1, <2>2 DEF NoOp, MemInv, OpOK
  <2>4. OpOK'  BY <2>1, <2>2, <2>3 DEF MemInv, OpOK
  <2>5. \A u \in Guests, k \in Nat : HoldsBlock(u, k)' <=> HoldsBlock(u, k)
    BY <2>1, <2>2, <2>3 DEF HoldsBlock
  <2>6. merge = 0  BY <2>2 DEF MemInv, ListOK
  <2>7. QED BY <2>1, <2>4, <2>5, <2>6, SameRegions
<1>3. ASSUME NEW v \in Guests, Boot(v)  PROVE MemInv'
  <2>1. /\ op = NoOp /\ v \in ready /\ live' = live \cup {v}
        /\ UNCHANGED <<region, owned, ready, op, merge>>
    BY <1>3 DEF Boot, ManagerIdle
  <2>2. op.kind = "none"  BY <2>1 DEF NoOp
  <2>3. OpOK'  BY <2>1, <2>2 DEF MemInv, OpOK
  <2>4. \A u \in Guests, k \in Nat : HoldsBlock(u, k)' <=> HoldsBlock(u, k)
    BY <2>1 DEF HoldsBlock
  <2>5. merge = 0  BY <2>2 DEF MemInv, ListOK
  <2>6. QED BY <2>1, <2>3, <2>4, <2>5, SameRegions
<1>4. ASSUME NEW v \in Guests, StartRemove(v)  PROVE MemInv'
  <2>1. /\ op = NoOp /\ v \in ready /\ ready' = ready \ {v} /\ op' = Op("remove", v, 1)
        /\ UNCHANGED <<region, owned, live, merge>>
    BY <1>4 DEF StartRemove, ManagerIdle
  <2>2. op.kind = "none" /\ op'.kind = "remove" /\ op'.vm = v /\ op'.k = 1
        /\ op' \in [kind : {"setup", "remove"}, vm : Guests, k : Nat \ {0}]
    BY <2>1 DEF NoOp, Op
  <2>3. op' # NoOp  BY <2>2 DEF NoOp
  <2>4. OpOK'  BY <2>1, <2>2, <2>3 DEF MemInv, OpOK
  <2>5. \A u \in Guests, k \in Nat : HoldsBlock(u, k)' <=> HoldsBlock(u, k)
    BY <2>1, <2>2 DEF HoldsBlock
  <2>6. merge = 0  BY <2>2 DEF MemInv, ListOK
  <2>7. QED BY <2>1, <2>4, <2>5, <2>6, SameRegions
<1>5. ASSUME NEW v \in Guests, StopVcpu(v)  PROVE MemInv'
  <2>1. /\ v \in live \ ready /\ live' = live \ {v}
        /\ owned' = IF op.kind = "remove" /\ op.vm = v THEN owned ELSE [owned EXCEPT ![v] = <<>>]
        /\ UNCHANGED <<region, ready, op, merge>>
    BY <1>5 DEF StopVcpu
  <2>2. owned \in [Guests -> Seq([start : Nat, len : Nat])]  BY DEF MemInv, OpOK
  <2>3. owned' \in [Guests -> Seq([start : Nat, len : Nat])]
    BY <2>1, <2>2
  <2>4. /\ \A u \in Guests : u # v => owned'[u] = owned[u]
        /\ owned'[v] = IF op.kind = "remove" /\ op.vm = v THEN owned[v] ELSE <<>>
    BY <2>1, <2>2
  <2>5. ~(op.kind = "setup" /\ op.vm = v)  BY <2>1 DEF MemInv, OpOK
  <2>6. OpOK'
    <3>1. \A u \in Guests : u \in ready' \cup live' \/ (op' # NoOp /\ op'.vm = u) \/ owned'[u] = <<>>
      BY <2>1, <2>4 DEF MemInv, OpOK, NoOp
    <3>2. QED BY <2>1, <2>3, <3>1 DEF MemInv, OpOK
  <2>7. \A u \in Guests, k \in Nat : HoldsBlock(u, k)' <=> HoldsBlock(u, k)
    BY <2>1, <2>4, <2>5 DEF HoldsBlock
  <2>8. \A u \in Guests, k \in Nat : HoldsBlock(u, k) => owned'[u][k] = owned[u][k]
    BY <2>1, <2>4, <2>5 DEF HoldsBlock
  <2>9. ListOK'  BY <2>1 DEF MemInv, ListOK
  <2>10. BlocksOK'  BY <2>1, <2>7, <2>8 DEF MemInv, BlocksOK
  <2>11. QED BY <2>6, <2>9, <2>10 DEF MemInv
<1>6. ASSUME SetupDone  PROVE MemInv'
  <2>1. /\ op.kind = "setup" /\ ready' = ready \cup {op.vm} /\ op' = NoOp
        /\ UNCHANGED <<region, owned, live, merge>>
    BY <1>6 DEF SetupDone
  <2>2. op.vm \in Guests  BY <2>1 DEF MemInv, OpOK, NoOp
  <2>3. op'.kind = "none"  BY <2>1 DEF NoOp
  <2>4. OpOK'  BY <2>1, <2>2, <2>3 DEF MemInv, OpOK
  <2>5. \A u \in Guests, k \in Nat : HoldsBlock(u, k)' <=> HoldsBlock(u, k)
    BY <2>1, <2>3 DEF HoldsBlock
  <2>6. merge = 0  BY <2>1 DEF MemInv, ListOK
  <2>7. QED BY <2>1, <2>4, <2>5, <2>6, SameRegions
<1>7. ASSUME RemoveDone  PROVE MemInv'
  <2>1. /\ op.kind = "remove" /\ merge = 0 /\ op.k > Len(owned[op.vm]) /\ op' = NoOp
        /\ owned' = IF op.vm \in live THEN owned ELSE [owned EXCEPT ![op.vm] = <<>>]
        /\ UNCHANGED <<region, live, ready, merge>>
    BY <1>7 DEF RemoveDone
  <2>2. op.vm \in Guests /\ op.k \in Nat /\ op.vm \notin ready
        /\ owned \in [Guests -> Seq([start : Nat, len : Nat])]
    BY <2>1 DEF MemInv, OpOK, NoOp
  <2>3. op'.kind = "none"  BY <2>1 DEF NoOp
  <2>4. owned' \in [Guests -> Seq([start : Nat, len : Nat])]  BY <2>1, <2>2
  <2>5. /\ \A u \in Guests : u # op.vm => owned'[u] = owned[u]
        /\ owned'[op.vm] = IF op.vm \in live THEN owned[op.vm] ELSE <<>>
    BY <2>1, <2>2
  <2>6. OpOK'
    <3>1. \A u \in Guests : u \in ready' \cup live' \/ owned'[u] = <<>>
      BY <2>1, <2>5 DEF MemInv, OpOK
    <3>2. QED BY <2>1, <2>3, <2>4, <3>1 DEF MemInv, OpOK
  <2>7. \A k \in Nat : ~HoldsBlock(op.vm, k)
    <3>1. Len(owned[op.vm]) \in Nat  BY <2>2
    <3>2. QED BY <3>1, <2>1, <2>2 DEF HoldsBlock
  <2>8. \A u \in Guests, k \in Nat : HoldsBlock(u, k)' <=> HoldsBlock(u, k)
    BY <2>1, <2>2, <2>3, <2>5, <2>7 DEF HoldsBlock
  <2>9. \A u \in Guests, k \in Nat : HoldsBlock(u, k) => owned'[u][k] = owned[u][k]
    BY <2>5, <2>7
  <2>10. QED BY <2>1, <2>6, <2>8, <2>9, SameRegions
<1>8. QED
  BY <1>1, <1>2, <1>3, <1>4, <1>5, <1>6, <1>7, MemInitMemory, MemFreeRegion, MemMergeRegion
  DEF MemNext

LEMMA MemInvExact == MemoryConstants /\ MemInv => RegionsExact
<1> SUFFICES ASSUME MemoryConstants, MemInv PROVE RegionsExact
  OBVIOUS
<1>1. /\ region \in Seq(RegionRec) /\ Distinct(region) /\ Tiling(Elems(region))
      /\ \A i \in 1 .. Len(region) : region[i] \in RegionRec /\ region[i] \in Elems(region)
  BY ElementOfSeq DEF MemInv, ListOK, Elems
<1>2. \A i \in 1 .. Len(region) : \A p :
        p \in RegionPages(i) <=> p \in Nat /\ region[i].base <= p /\ p < Ends(region[i])
  BY <1>1 DEF RegionPages, Pages, RegionRec, Ends
<1>3. AllPages \subseteq Nat
  <2>1. \A i \in 1 .. Len(Platform) : Platform[i].base \in Nat /\ Platform[i].size \in Nat
    <3> TAKE i \in 1 .. Len(Platform)
    <3>1. Platform[i] \in [base : Nat \ {0}, size : Nat \ {0}]
      BY ElementOfSeq DEF MemoryConstants
    <3>2. QED BY <3>1
  <2>2. QED BY <2>1 DEF AllPages, Pages
<1>4. RegionsPartition
  <2>1. \A p : p \in UNION {RegionPages(i) : i \in 1 .. Len(region)} <=> p \in AllPages
    <3> TAKE p
    <3>1. p \in UNION {RegionPages(i) : i \in 1 .. Len(region)} <=>
            \E i \in 1 .. Len(region) : p \in RegionPages(i)
      OBVIOUS
    <3>2. p \in AllPages <=>
            p \in Nat /\ \E i \in 1 .. Len(region) : region[i].base <= p /\ p < Ends(region[i])
      BY <1>1, <1>3 DEF Tiling, Elems
    <3>3. QED BY <3>1, <3>2, <1>2
  <2>2. ASSUME NEW i \in 1 .. Len(region), NEW j \in 1 .. Len(region), i # j
        PROVE  RegionPages(i) \cap RegionPages(j) = {}
    <3>1. region[i] # region[j]  BY <1>1, <2>2 DEF Distinct
    <3>2. Ends(region[i]) <= region[j].base \/ Ends(region[j]) <= region[i].base
      BY <1>1, <3>1 DEF Tiling
    <3>3. /\ region[i].base \in Nat /\ Ends(region[i]) \in Nat
          /\ region[j].base \in Nat /\ Ends(region[j]) \in Nat
      <4>1. region[i] \in RegionRec /\ region[j] \in RegionRec  BY <1>1
      <4>2. \A r \in RegionRec : r.base \in Nat /\ Ends(r) \in Nat  BY DEF RegionRec, Ends
      <4>3. QED BY <4>1, <4>2
    <3>4. QED BY <1>2, <3>2, <3>3
  <2>3. \A i \in 1 .. Len(region) : region[i].free \in {0, region[i].size}
    BY <1>1 DEF Tiling
  <2>4. QED BY <2>1, <2>2, <2>3 DEF RegionsPartition
<1>5. \A v \in Guests : \A p : p \in Held(v) <=>
        \E k \in Nat : HoldsBlock(v, k) /\ p \in BlockPages(owned[v][k])
  <2> TAKE v \in Guests
  <2> TAKE p
  <2>1. owned[v] \in Seq([start : Nat, len : Nat])  BY DEF MemInv, OpOK
  <2>2. Len(owned[v]) \in Nat  BY <2>1
  <2>3. CASE op.kind = "remove" /\ op.vm = v
    <3>1. op.k \in Nat \ {0}  BY <2>3 DEF MemInv, OpOK, NoOp
    <3>2. p \in Held(v) <=> \E k \in op.k .. Len(owned[v]) : p \in BlockPages(owned[v][k])
      BY <2>3 DEF Held
    <3>3. \A k \in Nat : HoldsBlock(v, k) <=> k \in op.k .. Len(owned[v])
      BY <2>2, <2>3, <3>1 DEF HoldsBlock
    <3>4. QED BY <3>1, <3>2, <3>3, <2>2
  <2>4. CASE ~(op.kind = "remove" /\ op.vm = v) /\ (v \in ready \/ (op.kind = "setup" /\ op.vm = v))
    <3>1. p \in Held(v) <=> \E k \in 1 .. Len(owned[v]) : p \in BlockPages(owned[v][k])
      BY <2>4 DEF Held, OwnedPages
    <3>2. \A k \in Nat : HoldsBlock(v, k) <=> k \in 1 .. Len(owned[v])
      BY <2>2, <2>4 DEF HoldsBlock
    <3>3. QED BY <3>1, <3>2, <2>2
  <2>5. CASE ~(op.kind = "remove" /\ op.vm = v) /\ ~(v \in ready \/ (op.kind = "setup" /\ op.vm = v))
    BY <2>5 DEF Held, HoldsBlock
  <2>6. QED BY <2>3, <2>4, <2>5
<1>6. NoLeak
  <2> DEFINE A == UNION {RegionPages(i) : i \in {k \in 1 .. Len(region) : region[k].free = 0}}
             B == UNION {Held(v) : v \in Guests}
  <2>1. ASSUME NEW p \in A  PROVE p \in B
    <3>1. PICK i \in 1 .. Len(region) : region[i].free = 0 /\ p \in RegionPages(i)
      BY <2>1
    <3>2. PICK v \in Guests, k \in Nat : HoldsBlock(v, k) /\ owned[v][k] = Block(region[i].base, region[i].size)
      BY <3>1, <1>1 DEF MemInv, BlocksOK
    <3>3. p \in BlockPages(owned[v][k])
      BY <3>1, <3>2 DEF BlockPages, RegionPages, Block
    <3>4. p \in Held(v)  BY <3>2, <3>3, <1>5
    <3>5. QED BY <3>4
  <2>2. ASSUME NEW p \in B  PROVE p \in A
    <3>1. PICK v \in Guests : p \in Held(v)  BY <2>2
    <3>2. PICK k \in Nat : HoldsBlock(v, k) /\ p \in BlockPages(owned[v][k])
      BY <3>1, <1>5
    <3>3. Region(owned[v][k].start, owned[v][k].len, 0) \in Elems(region)
      BY <3>2 DEF MemInv, BlocksOK
    <3>4. PICK i \in 1 .. Len(region) : region[i] = Region(owned[v][k].start, owned[v][k].len, 0)
      BY <3>3 DEF Elems
    <3>5. region[i].free = 0 /\ p \in RegionPages(i)
      BY <3>2, <3>4 DEF Region, RegionPages, BlockPages
    <3>6. QED BY <3>5
  <2>3. A = B  BY <2>1, <2>2
  <2>4. QED BY <2>3 DEF NoLeak
<1>7. Coalesced
  <2>1. merge = 0 => Merged(Elems(region), {})  BY DEF MemInv, ListOK
  <2>2. QED BY <2>1, <1>1 DEF Coalesced, Merged, Ends
<1>8. QED BY <1>4, <1>6, <1>7 DEF RegionsExact

\* Whatever VMs are set up and removed and in whatever order, mem_vm_region_alloc
\* and mem_vm_region_free keep the list of regions a partition of the board's
\* memory, whose taken part is exactly what VMs hold, and leave no free
\* neighbours unmerged but those the board lists separately.
THEOREM RegionsExactHolds ==
  ASSUME MemoryConstants
  PROVE  MemSpec => []RegionsExact
<1>1. MemInit => MemInv  BY MemInvInit
<1>2. MemInv /\ [MemNext]_memVars => MemInv'  BY MemStep
<1>3. MemInv => RegionsExact  BY MemInvExact
<1>4. QED BY <1>1, <1>2, <1>3, PTL DEF MemSpec

-----------------------------------------------------------------------------
(* The tables of VMs.                                                      *)

\* What HVC_CONFIG_CPU can leave in an entry, and entries.
CpuConfigs ==
    {NoCpu, CpuConfig(1, {0}, 0)} \cup {CpuConfig(a.num, a.bitmap, a.master) : a \in CpuChoices}
Entries == [cpu : CpuConfigs, irqs : SUBSET Irqs, blk : (1 .. Blocks) \cup {None}]

\* The types, and the table, its bitmap and its count in step.
EntriesOK ==
    /\ table.entries \in [VmIds -> Entries \cup {Absent}]
    /\ vms \in [VmIds -> Entries \cup {Absent}]
    /\ table.bitmap = Configured /\ table.num = Cardinality(Configured)
    /\ \A v \in Listed : table.entries[v] = vms[v]

\* A mediated block is free or named by one configuration.
BlocksNamed ==
    /\ avail \in [1 .. Blocks -> BOOLEAN]
    /\ \A b \in 1 .. Blocks : avail[b] = TRUE <=> \A v \in Configured : table.entries[v].blk # b
    /\ \A u, v \in Configured :
         table.entries[u].blk = table.entries[v].blk /\ table.entries[u].blk # None => u = v

\* An interrupt that is taken is the hypervisor's or one VM's, never both.
IrqsTaken ==
    /\ glb = Reserved \cup UNION {vms[v].irqs : v \in Listed}
    /\ \A v \in Listed : vms[v].irqs \cap Reserved = {}
    /\ \A u, v \in Listed : u # v => vms[u].irqs \cap vms[v].irqs = {}

\* The first core of each VM that is listed, and of no other.
IfsCurrent ==
    vmif = [v \in VmIds |-> IF v \in Listed THEN Head(cal_phys_id_list(vms[v].cpu)) ELSE None]

ControlInv ==
    /\ EntriesOK /\ BlocksNamed
    /\ ctlPanicked \in BOOLEAN /\ (~ctlPanicked => IrqsTaken /\ IfsCurrent)

LEMMA EntryNotAbsent == \A e \in Entries : e # Absent
<1> SUFFICES ASSUME NEW e \in Entries, e = Absent PROVE FALSE
  OBVIOUS
<1>1. "blk" \in DOMAIN e  BY DEF Entries
<1>2. DOMAIN Absent = {"cpu"}  BY DEF Absent
<1>3. QED BY <1>1, <1>2

LEMMA LeastMember ==
  ASSUME NEW S \in SUBSET Nat, S # {}
  PROVE  Min(S) \in S
BY HasLeast DEF Min

\* The parts say what the properties of VmControl say.
LEMMA ControlInvExact ==
  ASSUME ControlConstants, ControlInv
  PROVE  TablesAgree /\ MasterCurrent
<1>1. ConfigsAgree
  <2>1. table.bitmap = Configured /\ table.num = Cardinality(Configured)
        /\ \A v \in Listed : table.entries[v] = vms[v]
    BY DEF ControlInv, EntriesOK
  <2>2. DOMAIN avail = 1 .. Blocks  BY DEF ControlInv, BlocksNamed
  <2>3. ASSUME NEW b \in 1 .. Blocks
        PROVE  Cardinality({v \in Configured : table.entries[v].blk = b})
                 = IF avail[b] THEN 0 ELSE 1
    <3> DEFINE N == {v \in Configured : table.entries[v].blk = b}
    <3>1. avail[b] \in BOOLEAN  BY DEF ControlInv, BlocksNamed
    <3>2. CASE avail[b] = TRUE
      <4>1. N = {}  BY <3>2 DEF ControlInv, BlocksNamed
      <4> HIDE DEF N
      <4>2. Cardinality(N) = 0  BY <4>1, FS_EmptySet
      <4>3. QED BY <3>2, <4>2 DEF N
    <3>3. CASE avail[b] = FALSE
      <4>1. PICK v \in Configured : table.entries[v].blk = b  BY <3>3 DEF ControlInv, BlocksNamed
      <4>2. b # None  BY DEF None
      <4>3. N = {v}  BY <4>1, <4>2 DEF ControlInv, BlocksNamed
      <4> HIDE DEF N
      <4>4. Cardinality(N) = 1  BY <4>3, FS_Singleton
      <4>5. QED BY <3>3, <4>4 DEF N
    <3>4. QED BY <3>1, <3>2, <3>3
  <2>4. QED BY <2>1, <2>2, <2>3 DEF ConfigsAgree
<1>2. InterruptsOwned  BY DEF ControlInv, IrqsTaken, InterruptsOwned
<1>3. MasterCurrent  BY DEF ControlInv, IfsCurrent, MasterCurrent
<1>4. QED BY <1>1, <1>2, <1>3 DEF TablesAgree

\* The configuration of the management VM is core 0 alone, its master.
LEMMA ManagerCpu == Head(cal_phys_id_list(CpuConfig(1, {0}, 0))) = 0
<1>1. Max({0}) = 0 /\ Min({0}) = 0 /\ Cardinality({0}) = 1
  <2>1. \A x \in {0} : \A y \in {0} : x >= y /\ x <= y  OBVIOUS
  <2>2. QED BY <2>1, FS_Singleton DEF Max, Min
<1> DEFINE S == {i \in 0 .. 0 + 1 : Remain({0}, 1, i) = 0 \/ i > 0}
<1>2. Walk({0}, 1) = Min(S)  BY <1>1 DEF Walk
<1>3. S = {1}
  <2>1. {j \in {0} : j < 0} = {}  OBVIOUS
  <2>2. Remain({0}, 1, 0) = 1  BY <2>1, FS_EmptySet DEF Remain
  <2>3. \A i \in 0 .. 0 + 1 : i = 0 \/ i = 1  OBVIOUS
  <2>4. 0 \notin S  BY <2>2
  <2>5. 1 \in S  OBVIOUS
  <2>6. QED BY <2>3, <2>4, <2>5
<1> HIDE DEF S
<1>4. Min({1}) = 1
  <2>1. \A x \in {1} : \A y \in {1} : x <= y  OBVIOUS
  <2>2. QED BY <2>1 DEF Min
<1>5. Walk({0}, 1) = 1  BY <1>2, <1>3, <1>4
<1>6. {i \in {0} : i < Walk({0}, 1)} = {0}  BY <1>5
<1>7. CpuConfig(1, {0}, 0).master = 0  BY <1>1, <1>6 DEF CpuConfig
<1>8. QED BY <1>7 DEF cal_phys_id_list, None

LEMMA ControlInvInit == ControlConstants /\ ControlInit => ControlInv
<1> SUFFICES ASSUME ControlConstants, ControlInit PROVE ControlInv
  OBVIOUS
<1>1. 0 \in VmIds  BY DEF ControlConstants, VmIds
<1>2. MvmEntry \in Entries /\ MvmEntry.blk = None /\ MvmEntry.irqs = {}
      /\ MvmEntry.cpu = CpuConfig(1, {0}, 0)
  BY DEF MvmEntry, NewEntry, Entries, CpuConfigs
<1>3. table.entries = [v \in VmIds |-> IF v = 0 THEN MvmEntry ELSE Absent]
      /\ vms = table.entries /\ table.bitmap = {0} /\ table.num = 1
  BY DEF ControlInit
<1>4. Configured = {0} /\ Listed = {0}
  BY <1>1, <1>2, <1>3, EntryNotAbsent DEF Configured, Listed
<1>5. EntriesOK
  <2>1. Cardinality(Configured) = 1  BY <1>4, FS_Singleton
  <2>2. QED BY <1>2, <1>3, <1>4, <2>1 DEF EntriesOK
<1>6. BlocksNamed
  <2>1. table.entries[0].blk = None  BY <1>1, <1>2, <1>3
  <2>2. \A b \in 1 .. Blocks : b # None  BY DEF None
  <2>3. avail = [b \in 1 .. Blocks |-> TRUE]  BY DEF ControlInit
  <2>4. QED BY <1>4, <2>1, <2>2, <2>3 DEF BlocksNamed
<1>7. vms[0] = MvmEntry  BY <1>1, <1>3
<1>8. IrqsTaken
  <2>1. glb = Reserved  BY DEF ControlInit
  <2>2. QED BY <1>2, <1>4, <1>7, <2>1 DEF IrqsTaken
<1>9. IfsCurrent
  <2>1. vmif = [v \in VmIds |-> IF v = 0 THEN 0 ELSE None]  BY DEF ControlInit
  <2>2. Head(cal_phys_id_list(MvmEntry.cpu)) = 0  BY <1>2, ManagerCpu
  <2>3. QED BY <1>4, <1>7, <2>1, <2>2 DEF IfsCurrent
<1>10. QED BY <1>5, <1>6, <1>8, <1>9 DEF ControlInv, ControlInit

\* Steps that leave the tables alone, a panic included.
LEMMA TablesSame ==
  ASSUME ControlInv, UNCHANGED <<table, vms, vmif, glb, avail>>,
         ctlPanicked' \in BOOLEAN, ctlPanicked => ctlPanicked'
  PROVE  ControlInv'
BY DEF ControlInv, EntriesOK, BlocksNamed, IrqsTaken, IfsCurrent, Configured, Listed

LEMMA ConfiguredFinite == ControlConstants => IsFiniteSet(Configured) /\ Cardinality(Configured) \in Nat
<1> SUFFICES ASSUME ControlConstants PROVE IsFiniteSet(Configured) /\ Cardinality(Configured) \in Nat
  OBVIOUS
<1>1. IsFiniteSet(VmIds)  BY FS_Interval DEF VmIds, ControlConstants
<1>2. IsFiniteSet(Configured)  BY <1>1, FS_Subset DEF Configured
<1>3. QED BY <1>2, FS_CardinalityType

\* An entry appears, in a free place and without a block.
LEMMA StepAddVm ==
  ASSUME ControlConstants, ControlInv, vm_cfg_add_vm
  PROVE  ControlInv'
<1> DEFINE v == Min(generate_vm_id)
<1>1. v \in VmIds /\ v \notin table.bitmap
  <2>1. generate_vm_id \in SUBSET Nat /\ generate_vm_id # {}
    BY DEF vm_cfg_add_vm, generate_vm_id, VmIds, ControlConstants
  <2>2. v \in generate_vm_id  BY <2>1, LeastMember
  <2>3. QED BY <2>2 DEF generate_vm_id
<1>2. /\ table' = [entries |-> [table.entries EXCEPT ![v] = NewEntry],
                   bitmap |-> table.bitmap \cup {v}, num |-> table.num + 1]
      /\ UNCHANGED <<vms, vmif, glb, avail, ctlPanicked>>
  BY DEF vm_cfg_add_vm
<1> HIDE DEF v
<1>3. v \notin Configured /\ v \notin Listed
  <2>1. v \notin Configured  BY <1>1 DEF ControlInv, EntriesOK
  <2>2. QED BY <1>1, <2>1, EntryNotAbsent DEF ControlInv, EntriesOK, Listed, Configured
<1>4. NewEntry \in Entries /\ NewEntry.blk = None
  BY DEF NewEntry, Entries, CpuConfigs
<1>5. table.entries \in [VmIds -> Entries \cup {Absent}]  BY DEF ControlInv, EntriesOK
<1>6. /\ table'.entries = [table.entries EXCEPT ![v] = NewEntry]
      /\ table'.bitmap = table.bitmap \cup {v} /\ table'.num = table.num + 1
  BY <1>2
<1>7. /\ table'.entries \in [VmIds -> Entries \cup {Absent}]
      /\ table'.entries[v] = NewEntry /\ \A u \in VmIds \ {v} : table'.entries[u] = table.entries[u]
  BY <1>1, <1>4, <1>5, <1>6
<1>8. Configured' = Configured \cup {v} /\ Listed' = Listed
  <2>1. NewEntry # Absent  BY <1>4, EntryNotAbsent
  <2>2. QED BY <1>1, <1>2, <1>7, <2>1 DEF Configured, Listed
<1>9. EntriesOK'
  <2>1. Cardinality(Configured \cup {v}) = Cardinality(Configured) + 1
    BY <1>3, ConfiguredFinite, FS_AddElement
  <2>2. table'.bitmap = Configured' /\ table'.num = Cardinality(Configured')
    BY <1>6, <1>8, <2>1 DEF ControlInv, EntriesOK
  <2>3. \A u \in Listed : table'.entries[u] = vms[u]
    BY <1>3, <1>7 DEF ControlInv, EntriesOK, Listed
  <2>4. QED BY <1>2, <1>7, <1>8, <2>2, <2>3 DEF ControlInv, EntriesOK
<1>10. BlocksNamed'
  <2>1. \A b \in 1 .. Blocks : b # None  BY DEF None
  <2>2. \A u \in Configured : u # v /\ table'.entries[u] = table.entries[u]
    BY <1>3, <1>7 DEF Configured
  <2>3. QED BY <1>2, <1>4, <1>7, <1>8, <2>1, <2>2 DEF ControlInv, BlocksNamed
<1>11. QED BY <1>2, <1>8, <1>9, <1>10 DEF ControlInv, IrqsTaken, IfsCurrent

\* An entry whose VM was not made is edited; its block may be given a name.
LEMMA StepEdit ==
  ASSUME ControlConstants, ControlInv, NEW v \in GuestIds, NEW e \in Entries, vm_cfg_editor(v, e),
         \/ e.blk = table.entries[v].blk /\ avail' = avail
         \/ /\ table.entries[v].blk = None /\ e.blk \in 1 .. Blocks /\ avail[e.blk] = TRUE
            /\ avail' = [avail EXCEPT ![e.blk] = FALSE]
  PROVE  ControlInv'
<1>1. /\ table' = [entries |-> [table.entries EXCEPT ![v] = e],
                   bitmap |-> table.bitmap, num |-> table.num]
      /\ UNCHANGED <<vms, vmif, glb, ctlPanicked>> /\ v \in Configured /\ v \notin Listed
  BY DEF vm_cfg_editor
<1>2. v \in VmIds /\ e # Absent  BY EntryNotAbsent DEF GuestIds
<1>3. table.entries \in [VmIds -> Entries \cup {Absent}]  BY DEF ControlInv, EntriesOK
<1>4. /\ table'.entries = [table.entries EXCEPT ![v] = e]
      /\ table'.bitmap = table.bitmap /\ table'.num = table.num
  BY <1>1
<1>5. /\ table'.entries \in [VmIds -> Entries \cup {Absent}]
      /\ table'.entries[v] = e /\ \A u \in VmIds \ {v} : table'.entries[u] = table.entries[u]
  BY <1>2, <1>3, <1>4
<1>6. Configured' = Configured /\ Listed' = Listed
  BY <1>1, <1>2, <1>5 DEF Configured, Listed
<1>7. EntriesOK'
  <2>1. \A u \in Listed : table'.entries[u] = vms[u]
    BY <1>1, <1>5 DEF ControlInv, EntriesOK, Listed
  <2>2. QED BY <1>1, <1>4, <1>5, <1>6, <2>1 DEF ControlInv, EntriesOK
<1>8. BlocksNamed'
  <2>1. Configured \in SUBSET VmIds  BY DEF Configured
  <2>2. CASE e.blk = table.entries[v].blk /\ avail' = avail
    <3>1. \A u \in Configured : table'.entries[u].blk = table.entries[u].blk
      BY <1>5, <2>1, <2>2
    <3>2. QED BY <1>6, <2>2, <3>1 DEF ControlInv, BlocksNamed
  <2>3. CASE /\ table.entries[v].blk = None /\ e.blk \in 1 .. Blocks /\ avail[e.blk] = TRUE
             /\ avail' = [avail EXCEPT ![e.blk] = FALSE]
    <3>1. \A b \in 1 .. Blocks : b # None  BY DEF None
    <3>2. avail \in [1 .. Blocks -> BOOLEAN]  BY DEF ControlInv, BlocksNamed
    <3>3. /\ avail' \in [1 .. Blocks -> BOOLEAN] /\ avail'[e.blk] = FALSE
          /\ \A b \in 1 .. Blocks : b # e.blk => avail'[b] = avail[b]
      BY <2>3, <3>2
    <3>4. \A u \in Configured : u # v => table'.entries[u].blk = table.entries[u].blk
      BY <1>5, <2>1
    <3>5. \A u \in Configured : table.entries[u].blk # e.blk
      BY <2>3 DEF ControlInv, BlocksNamed
    <3>6. ASSUME NEW b \in 1 .. Blocks
          PROVE  avail'[b] = TRUE <=> \A u \in Configured : table'.entries[u].blk # b
      <4>1. CASE b = e.blk  BY <1>1, <1>5, <3>3, <4>1
      <4>2. CASE b # e.blk
        <5>1. avail[b] = TRUE <=> \A u \in Configured : table.entries[u].blk # b
          BY DEF ControlInv, BlocksNamed
        <5>2. QED BY <1>5, <2>3, <3>1, <3>3, <3>4, <4>2, <5>1
      <4>3. QED BY <4>1, <4>2
    <3>7. ASSUME NEW x \in Configured, NEW y \in Configured,
                 table'.entries[x].blk = table'.entries[y].blk, table'.entries[x].blk # None
          PROVE  x = y
      <4>1. x # v /\ y # v => x = y  BY <3>4, <3>7 DEF ControlInv, BlocksNamed
      <4>2. QED BY <1>5, <3>4, <3>5, <3>7, <4>1
    <3>8. QED BY <1>6, <3>3, <3>6, <3>7 DEF BlocksNamed
  <2>4. QED BY <2>2, <2>3
<1>9. QED BY <1>1, <1>6, <1>7, <1>8 DEF ControlInv, IrqsTaken, IfsCurrent

\* An entry goes, and its block with it; the VM made from it went before or goes
\* in the same step.
LEMMA EntryGone ==
  ASSUME ControlConstants, ControlInv, NEW v \in Configured,
         table' = EntryRemoved(v), avail' = BlockFreed(v),
         vms' = [vms EXCEPT ![v] = Absent] \/ (vms' = vms /\ v \notin Listed)
  PROVE  /\ EntriesOK' /\ BlocksNamed' /\ Listed' = Listed \ {v}
         /\ \A u \in Listed \ {v} : vms'[u] = vms[u]
<1>1. v \in VmIds /\ Configured \in SUBSET VmIds /\ Listed \in SUBSET VmIds
  BY DEF Configured, Listed
<1>2. table.entries \in [VmIds -> Entries \cup {Absent}] /\ vms \in [VmIds -> Entries \cup {Absent}]
  BY DEF ControlInv, EntriesOK
<1>3. /\ table'.entries = [table.entries EXCEPT ![v] = Absent]
      /\ table'.bitmap = table.bitmap \ {v} /\ table'.num = table.num - 1
  BY DEF EntryRemoved
<1>4. /\ table'.entries \in [VmIds -> Entries \cup {Absent}]
      /\ table'.entries[v] = Absent
      /\ \A u \in VmIds \ {v} : table'.entries[u] = table.entries[u]
  BY <1>1, <1>2, <1>3
<1>5. Configured' = Configured \ {v}  BY <1>1, <1>4 DEF Configured
<1>6. /\ vms' \in [VmIds -> Entries \cup {Absent}] /\ vms'[v] = Absent
      /\ \A u \in VmIds \ {v} : vms'[u] = vms[u]
  BY <1>1, <1>2 DEF Listed
<1>7. Listed' = Listed \ {v}  BY <1>1, <1>6 DEF Listed
<1>8. EntriesOK'
  <2>1. Cardinality(Configured \ {v}) = Cardinality(Configured) - 1
    BY ConfiguredFinite, FS_RemoveElement
  <2>2. table'.bitmap = Configured' /\ table'.num = Cardinality(Configured')
    BY <1>3, <1>5, <2>1 DEF ControlInv, EntriesOK
  <2>3. \A u \in Listed \ {v} : table'.entries[u] = vms'[u]
    BY <1>1, <1>4, <1>6 DEF ControlInv, EntriesOK
  <2>4. QED BY <1>4, <1>6, <1>7, <2>2, <2>3 DEF EntriesOK
<1>9. BlocksNamed'
  <2> DEFINE blk == table.entries[v].blk
  <2>1. blk \in (1 .. Blocks) \cup {None}
    BY <1>1, <1>2 DEF Configured, Entries
  <2>2. \A u \in Configured \ {v} : table'.entries[u] = table.entries[u]
    BY <1>1, <1>4
  <2>3. avail \in [1 .. Blocks -> BOOLEAN]  BY DEF ControlInv, BlocksNamed
  <2>4. avail' = IF blk = None THEN avail ELSE [avail EXCEPT ![blk] = TRUE]
    BY DEF BlockFreed
  <2>5. \A b \in 1 .. Blocks : b # None  BY DEF None
  <2>6. avail' \in [1 .. Blocks -> BOOLEAN] /\ \A b \in 1 .. Blocks :
          avail'[b] = IF b = blk THEN TRUE ELSE avail[b]
    BY <2>1, <2>3, <2>4, <2>5
  <2> HIDE DEF blk
  <2>7. ASSUME NEW b \in 1 .. Blocks
        PROVE  avail'[b] = TRUE <=> \A u \in Configured \ {v} : table'.entries[u].blk # b
    <3>1. avail[b] = TRUE <=> \A u \in Configured : table.entries[u].blk # b
      BY DEF ControlInv, BlocksNamed
    <3>2. CASE b = blk
      <4>1. \A u \in Configured \ {v} : table.entries[u].blk # b
        BY <2>5, <3>2 DEF ControlInv, BlocksNamed, blk
      <4>2. QED BY <2>2, <2>6, <3>2, <4>1
    <3>3. CASE b # blk
      <4>1. (\A u \in Configured : table.entries[u].blk # b) <=>
              \A u \in Configured \ {v} : table.entries[u].blk # b
        BY <3>3 DEF blk
      <4>2. QED BY <2>2, <2>6, <3>1, <3>3, <4>1
    <3>4. QED BY <3>2, <3>3
  <2>8. \A x, y \in Configured \ {v} :
          table'.entries[x].blk = table'.entries[y].blk /\ table'.entries[x].blk # None => x = y
    BY <2>2 DEF ControlInv, BlocksNamed
  <2>9. QED BY <1>5, <2>6, <2>7, <2>8 DEF BlocksNamed
<1>10. QED BY <1>1, <1>6, <1>7, <1>8, <1>9

LEMMA StepDelVm ==
  ASSUME ControlConstants, ControlInv, NEW v \in GuestIds, vm_cfg_del_vm(v)
  PROVE  ControlInv'
<1>1. /\ v \in Configured /\ v \notin Listed /\ table' = EntryRemoved(v) /\ avail' = BlockFreed(v)
      /\ UNCHANGED <<vms, vmif, glb, ctlPanicked>>
  BY DEF vm_cfg_del_vm
<1>2. EntriesOK' /\ BlocksNamed' /\ Listed' = Listed \ {v}  BY <1>1, EntryGone
<1>3. Listed' = Listed  BY <1>1, <1>2
<1>4. QED BY <1>1, <1>2, <1>3 DEF ControlInv, IrqsTaken, IfsCurrent

LEMMA StepRemoveVm ==
  ASSUME ControlConstants, ControlInv, NEW v \in GuestIds, vmm_remove_vm(v)
  PROVE  ControlInv'
<1>1. /\ ~ctlPanicked /\ v \in Listed /\ table' = EntryRemoved(v) /\ avail' = BlockFreed(v)
      /\ vms' = [vms EXCEPT ![v] = Absent] /\ vmif' = [vmif EXCEPT ![v] = None]
      /\ glb' = glb \ vms[v].irqs /\ ctlPanicked' \in BOOLEAN
  BY DEF vmm_remove_vm, Hypercall, vm_if_reset, IrqsRemoved
<1>2. v \in VmIds /\ v \in Configured
  BY <1>1, EntryNotAbsent DEF ControlInv, EntriesOK, Listed, Configured
<1>3. /\ EntriesOK' /\ BlocksNamed' /\ Listed' = Listed \ {v}
      /\ \A u \in Listed \ {v} : vms'[u] = vms[u]
  BY <1>1, <1>2, EntryGone
<1>4. IrqsTaken'
  <2>1. /\ glb = Reserved \cup UNION {vms[u].irqs : u \in Listed}
        /\ \A u \in Listed : vms[u].irqs \cap Reserved = {}
        /\ \A x, y \in Listed : x # y => vms[x].irqs \cap vms[y].irqs = {}
    BY <1>1 DEF ControlInv, IrqsTaken
  <2>2. \A i : i \in glb' <=> i \in Reserved \/ \E u \in Listed \ {v} : i \in vms[u].irqs
    BY <1>1, <2>1
  <2>3. glb' = Reserved \cup UNION {vms'[u].irqs : u \in Listed'}
    BY <1>3, <2>2
  <2>4. QED BY <1>3, <2>1, <2>3 DEF IrqsTaken
<1>5. IfsCurrent'
  <2>1. vmif = [u \in VmIds |-> IF u \in Listed THEN Head(cal_phys_id_list(vms[u].cpu)) ELSE None]
    BY <1>1 DEF ControlInv, IfsCurrent
  <2>2. QED BY <1>1, <1>2, <1>3, <2>1 DEF IfsCurrent
<1>6. QED BY <1>1, <1>3, <1>4, <1>5 DEF ControlInv

LEMMA StepUpload ==
  ASSUME ControlConstants, ControlInv, NEW v \in GuestIds, vm_cfg_upload_kernel_image(v)
  PROVE  ControlInv'
<1> DEFINE cpus == cal_phys_id_list(table.entries[v].cpu)
<1>1. ~ctlPanicked /\ v \in Configured /\ v \notin Listed /\ UNCHANGED <<table, avail>>
  BY DEF vm_cfg_upload_kernel_image, Hypercall
<1>2. v \in VmIds /\ table.entries[v] \in Entries
  BY <1>1 DEF ControlInv, EntriesOK, Configured
<1>3. CASE cpus = <<>>
  <2>1. UNCHANGED <<vms, vmif, glb>> /\ ctlPanicked' = TRUE
    BY <1>3 DEF vm_cfg_upload_kernel_image, Panic
  <2>2. QED BY <1>1, <2>1, TablesSame
<1>4. CASE cpus # <<>>
  <2>1. /\ vms' = [vms EXCEPT ![v] = table.entries[v]]
        /\ vmif' = [vmif EXCEPT ![v] = IF vmif[v] = None THEN Head(cpus) ELSE vmif[v]]
        /\ glb' = IF Conflict(v) THEN glb ELSE glb \cup table.entries[v].irqs
        /\ ctlPanicked' = Conflict(v)
    BY <1>4 DEF vm_cfg_upload_kernel_image
  <2>2. vms \in [VmIds -> Entries \cup {Absent}]  BY DEF ControlInv, EntriesOK
  <2>3. /\ vms' \in [VmIds -> Entries \cup {Absent}] /\ vms'[v] = table.entries[v]
        /\ \A u \in VmIds \ {v} : vms'[u] = vms[u]
    BY <1>2, <2>1, <2>2
  <2>4. Listed' = Listed \cup {v} /\ Configured' = Configured /\ Listed \in SUBSET VmIds
    BY <1>1, <1>2, <2>3, EntryNotAbsent DEF Listed, Configured
  <2>5. EntriesOK'
    BY <1>1, <2>3, <2>4 DEF ControlInv, EntriesOK
  <2>6. BlocksNamed'  BY <1>1, <2>4 DEF ControlInv, BlocksNamed
  <2>7. ctlPanicked' \in BOOLEAN  BY <2>1 DEF Conflict
  <2>8. ASSUME ~ctlPanicked' PROVE IrqsTaken' /\ IfsCurrent'
    <3>1. /\ glb = Reserved \cup UNION {vms[u].irqs : u \in Listed}
          /\ \A u \in Listed : vms[u].irqs \cap Reserved = {}
          /\ \A x, y \in Listed : x # y => vms[x].irqs \cap vms[y].irqs = {}
      BY <1>1 DEF ControlInv, IrqsTaken
    <3>2. table.entries[v].irqs \cap glb = {} /\ glb' = glb \cup table.entries[v].irqs
      BY <2>1, <2>8 DEF Conflict
    <3>3. \A u \in Listed : u # v /\ vms'[u] = vms[u]  BY <1>1, <2>3, <2>4
    <3>4. vms'[v].irqs \cap Reserved = {} /\ \A u \in Listed : vms'[v].irqs \cap vms'[u].irqs = {}
      BY <2>3, <3>1, <3>2, <3>3
    <3>5. glb' = Reserved \cup UNION {vms'[u].irqs : u \in Listed'}
      BY <2>3, <2>4, <3>1, <3>2, <3>3
    <3>6. IrqsTaken'  BY <2>4, <3>1, <3>3, <3>4, <3>5 DEF IrqsTaken
    <3>7. vmif = [u \in VmIds |-> IF u \in Listed THEN Head(cal_phys_id_list(vms[u].cpu)) ELSE None]
      BY <1>1 DEF ControlInv, IfsCurrent
    <3>8. vmif[v] = None  BY <1>1, <1>2, <3>7
    <3>9. vmif' = [vmif EXCEPT ![v] = Head(cpus)]  BY <2>1, <3>8
    <3>10. IfsCurrent'  BY <1>2, <2>3, <2>4, <3>3, <3>7, <3>9 DEF IfsCurrent
    <3>11. QED BY <3>6, <3>10
  <2>9. QED BY <2>5, <2>6, <2>7, <2>8 DEF ControlInv
<1>5. QED BY <1>3, <1>4

LEMMA ControlInvStep ==
  ASSUME ControlConstants, ControlInv, [ControlNext]_ctlVars
  PROVE  ControlInv'
<1>1. CASE UNCHANGED ctlVars  BY <1>1, TablesSame DEF ctlVars, ControlInv
<1>2. CASE vm_cfg_add_vm  BY <1>2, StepAddVm
<1>3. ASSUME NEW v \in GuestIds, vm_cfg_del_vm(v) PROVE ControlInv'  BY <1>3, StepDelVm
<1>4. ASSUME NEW v \in GuestIds,
             \/ \E arg \in CpuChoices : vm_cfg_set_cpu(v, arg)
             \/ \E i \in Irqs : vm_cfg_add_passthrough_device_irqs(v, i)
             \/ vm_cfg_add_emu_dev(v)
      PROVE  ControlInv'
  <2> DEFINE old == table.entries[v]
  <2>1. v \in Configured  BY <1>4 DEF vm_cfg_set_cpu, vm_cfg_add_passthrough_device_irqs,
                                      vm_cfg_add_emu_dev, vm_cfg_editor
  <2>2. old \in Entries  BY <2>1 DEF ControlInv, EntriesOK, Configured
  <2>3. ASSUME NEW arg \in CpuChoices, vm_cfg_set_cpu(v, arg) PROVE ControlInv'
    <3> DEFINE e == [old EXCEPT !.cpu = CpuConfig(arg.num, arg.bitmap, arg.master)]
    <3>1. CpuConfig(arg.num, arg.bitmap, arg.master) \in CpuConfigs  BY DEF CpuConfigs
    <3>2. e \in Entries /\ e.blk = old.blk  BY <2>2, <3>1 DEF Entries
    <3>3. vm_cfg_editor(v, e) /\ avail' = avail  BY <2>3 DEF vm_cfg_set_cpu
    <3> HIDE DEF e
    <3>4. QED BY <3>2, <3>3, StepEdit
  <2>4. ASSUME NEW i \in Irqs, vm_cfg_add_passthrough_device_irqs(v, i) PROVE ControlInv'
    <3> DEFINE e == [old EXCEPT !.irqs = old.irqs \cup {i}]
    <3>1. old.irqs \cup {i} \in SUBSET Irqs  BY <2>2 DEF Entries
    <3>2. e \in Entries /\ e.blk = old.blk  BY <2>2, <3>1 DEF Entries
    <3>3. vm_cfg_editor(v, e) /\ avail' = avail  BY <2>4 DEF vm_cfg_add_passthrough_device_irqs
    <3> HIDE DEF e
    <3>4. QED BY <3>2, <3>3, StepEdit
  <2>5. CASE vm_cfg_add_emu_dev(v)
    <3> DEFINE free == {b \in DOMAIN avail : avail[b]}
               b == Min(free)
               e == [old EXCEPT !.blk = b]
    <3>1. /\ old.blk = None /\ free # {} /\ vm_cfg_editor(v, e)
          /\ avail' = [avail EXCEPT ![b] = FALSE]
      BY <2>5 DEF vm_cfg_add_emu_dev
    <3>2. DOMAIN avail = 1 .. Blocks /\ avail \in [1 .. Blocks -> BOOLEAN]
      BY DEF ControlInv, BlocksNamed
    <3>3. free \in SUBSET Nat  BY <3>2 DEF ControlConstants
    <3>4. b \in free  BY <3>1, <3>3, LeastMember
    <3>5. b \in 1 .. Blocks /\ avail[b] = TRUE  BY <3>2, <3>4
    <3> HIDE DEF b
    <3>6. e \in Entries /\ e.blk = b  BY <2>2, <3>5 DEF Entries
    <3> HIDE DEF e
    <3>7. QED BY <3>1, <3>5, <3>6, StepEdit
  <2>6. QED BY <1>4, <2>3, <2>4, <2>5
<1>5. ASSUME NEW v \in GuestIds, vm_cfg_upload_kernel_image(v) PROVE ControlInv'
  BY <1>5, StepUpload
<1>6. ASSUME NEW v \in GuestIds, vmm_remove_vm(v) PROVE ControlInv'  BY <1>6, StepRemoveVm
<1>7. ASSUME NEW v \in GuestIds, vmm_boot_vm(v) \/ vmm_reboot_vm(v) PROVE ControlInv'
  <2>1. UNCHANGED <<table, vms, vmif, glb, avail, ctlPanicked>>
    BY <1>7 DEF vmm_boot_vm, vmm_reboot_vm
  <2>2. QED BY <2>1, TablesSame DEF ControlInv
<1>8. ASSUME NEW c \in CoreIds, vmm_ipi_handler(c) PROVE ControlInv'
  <2>1. UNCHANGED <<table, vms, vmif, glb, avail>> /\ ctlPanicked = FALSE
    BY <1>8 DEF vmm_ipi_handler, ControlInv
  <2>2. ctlPanicked' \in BOOLEAN
    BY <1>8 DEF vmm_ipi_handler, CpuRemove, vmm_reboot, Panic, ControlInv
  <2>3. QED BY <2>1, <2>2, TablesSame
<1>9. ASSUME NEW c \in CoreIds, NEW v \in VmIds, Switch(c, v) PROVE ControlInv'
  <2>1. UNCHANGED <<table, vms, vmif, glb, avail, ctlPanicked>>  BY <1>9 DEF Switch
  <2>2. QED BY <2>1, TablesSame DEF ControlInv
<1>10. QED
  BY <1>1, <1>2, <1>3, <1>4, <1>5, <1>6, <1>7, <1>8, <1>9 DEF ControlNext

LEMMA ControlInvariant == ControlConstants => (ControlSpec => []ControlInv)
<1> SUFFICES ASSUME ControlConstants PROVE ControlSpec => []ControlInv
  OBVIOUS
<1>1. ControlInit => ControlInv  BY ControlInvInit
<1>2. ControlInv /\ [ControlNext]_ctlVars => ControlInv'  BY ControlInvStep
<1>3. QED BY <1>1, <1>2, PTL DEF ControlSpec

\* Whatever VMs are configured, made and removed, and whichever identifiers are
\* used again: the configuration table, its bitmap and count, the VM list, the
\* mediated blocks and the interrupts agree.
THEOREM TablesAgreeHolds == ControlSpec => []TablesAgree
<1>1. ControlInv => TablesAgree  BY ControlInvExact, ControlAssumption
<1>2. ControlSpec => []ControlInv  BY ControlInvariant, ControlAssumption
<1>3. QED BY <1>1, <1>2, PTL

\* The core that boots a VM is the first of its own cores, for any number of
\* cores and VMs and any order of hypercalls and messages.
THEOREM MasterCurrentHolds == ControlSpec => []MasterCurrent
<1>1. ControlInv => MasterCurrent  BY ControlInvExact, ControlAssumption
<1>2. ControlSpec => []ControlInv  BY ControlInvariant, ControlAssumption
<1>3. QED BY <1>1, <1>2, PTL

-----------------------------------------------------------------------------
(* The cores of a VM.                                                      *)

\* Of two members of a set the greater has more members up to it.
LEMMA RanksGrow ==
  ASSUME NEW S \in SUBSET Nat, IsFiniteSet(S), NEW x \in S, NEW y \in S, x < y
  PROVE  Cardinality({z \in S : z <= x}) < Cardinality({z \in S : z <= y})
<1> DEFINE X == {z \in S : z <= x}
           Y == {z \in S : z <= y}
<1>1. IsFiniteSet(Y) /\ Cardinality(Y) \in Nat
  <2>1. Y \in SUBSET S  OBVIOUS
  <2>2. IsFiniteSet(Y)  BY <2>1, FS_Subset
  <2>3. QED BY <2>2, FS_CardinalityType
<1>2. X \in SUBSET Y /\ y \in Y /\ y \notin X
  <2>1. ASSUME NEW z \in S PROVE z \in Nat /\ z <= z /\ (z <= x => z <= y)
    OBVIOUS
  <2>2. X \in SUBSET Y  BY <2>1
  <2>3. y \in Y  BY <2>1
  <2>4. ~(y <= x)  OBVIOUS
  <2>5. QED BY <2>2, <2>3, <2>4
<1> HIDE DEF X, Y
<1>3. IsFiniteSet(X) /\ Cardinality(X) \in Nat /\ Cardinality(X) <= Cardinality(Y)
      /\ Cardinality(X) # Cardinality(Y)
  BY <1>1, <1>2, FS_Subset, FS_CardinalityType
<1>4. QED BY <1>1, <1>3 DEF X, Y

\* A finite set of naturals can be listed from the least to the greatest.
LEMMA SetListed ==
  ASSUME NEW S \in SUBSET Nat, IsFiniteSet(S)
  PROVE  \E s \in [1 .. Cardinality(S) -> S] : \A i, j \in DOMAIN s : i < j => s[i] < s[j]
<1> DEFINE N == Cardinality(S)
           R == [x \in S |-> Cardinality({z \in S : z <= x})]
<1>1. N \in Nat  BY FS_CardinalityType
<1>2. ASSUME NEW x \in S PROVE R[x] \in 1 .. N
  <2> DEFINE X == {z \in S : z <= x}
  <2>1. X \in SUBSET S /\ x \in X  OBVIOUS
  <2>2. R[x] = Cardinality(X)  OBVIOUS
  <2> HIDE DEF X, R
  <2>3. IsFiniteSet(X) /\ Cardinality(X) \in Nat /\ Cardinality(X) <= N
    BY <2>1, FS_Subset, FS_CardinalityType
  <2>4. Cardinality(X) # 0  BY <2>1, <2>3, FS_EmptySet
  <2>5. QED BY <1>1, <2>2, <2>3, <2>4
<1>3. ASSUME NEW x \in S, NEW y \in S, x < y PROVE R[x] < R[y]
  BY <1>3, RanksGrow
<1>4. R \in Injection(S, 1 .. N)
  <2>1. R \in [S -> 1 .. N]  BY <1>2
  <2> HIDE DEF R
  <2>2. ASSUME NEW x \in S, NEW y \in S, R[x] = R[y] PROVE x = y
    <3>1. x \in Nat /\ y \in Nat /\ R[x] \in Nat /\ R[y] \in Nat  BY <1>1, <1>2
    <3>2. ~(x < y)  BY <1>3, <2>2, <3>1
    <3>3. ~(y < x)  BY <1>3, <2>2, <3>1
    <3>4. QED BY <3>1, <3>2, <3>3
  <2>3. DOMAIN R = S  BY <2>1
  <2>4. QED BY <2>1, <2>2, <2>3 DEF Injection, IsInjective
<1> HIDE DEF R
<1>5. R \in Surjection(S, 1 .. N)
  <2>1. IsFiniteSet(1 .. N) /\ Cardinality(1 .. N) = N  BY <1>1, FS_Interval
  <2>2. QED BY <1>4, <2>1, FS_Injection
<1> HIDE DEF N
<1>6. \A i \in 1 .. N : \E x \in S : R[x] = i  BY <1>5 DEF Surjection
<1> DEFINE s == [i \in 1 .. N |-> CHOOSE x \in S : R[x] = i]
<1>7. ASSUME NEW i \in 1 .. N PROVE s[i] \in S /\ R[s[i]] = i
  BY <1>6
<1>8. s \in [1 .. N -> S] /\ DOMAIN s = 1 .. N  BY <1>7
<1>9. ASSUME NEW i \in 1 .. N, NEW j \in 1 .. N, i < j PROVE s[i] < s[j]
  <2> DEFINE x == s[i]
             y == s[j]
  <2>1. x \in S /\ y \in S /\ R[x] = i /\ R[y] = j  BY <1>7
  <2> HIDE DEF x, y, s
  <2>2. x \in Nat /\ y \in Nat /\ i \in Nat /\ j \in Nat  BY <1>1, <2>1
  <2>3. x # y  BY <1>9, <2>1, <2>2
  <2>4. ~(y < x)
    <3>1. SUFFICES ASSUME y < x PROVE FALSE  OBVIOUS
    <3>2. R[y] < R[x]  BY <1>3, <2>1, <3>1
    <3>3. QED BY <1>9, <2>1, <2>2, <3>2
  <2>5. QED BY <2>2, <2>3, <2>4 DEF x, y
<1> HIDE DEF s
<1>10. QED BY <1>8, <1>9 DEF N

\* Ordered lists each member of a finite set of naturals once.
LEMMA OrderedLists ==
  ASSUME NEW S \in SUBSET Nat, IsFiniteSet(S)
  PROVE  /\ Ordered(S) \in Seq(S) /\ ToSet(Ordered(S)) = S
         /\ IsInjective(Ordered(S))
<1> DEFINE s == Ordered(S)
           N == Cardinality(S)
<1>1. s \in [1 .. N -> S] /\ \A i, j \in DOMAIN s : i < j => s[i] < s[j]
  BY SetListed DEF Ordered
<1>2. N \in Nat  BY FS_CardinalityType
<1>3. DOMAIN s = 1 .. N  BY <1>1
<1> HIDE DEF s
<1>4. IsInjective(s)
  <2>1. ASSUME NEW i \in 1 .. N, NEW j \in 1 .. N, s[i] = s[j] PROVE i = j
    <3>0. s[i] \in S /\ s[j] \in S  BY <1>1
    <3>a. i \in Nat /\ j \in Nat  BY <1>2
    <3>b. s[i] \in Nat /\ s[j] \in Nat  BY <3>0
    <3>1. i \in Nat /\ j \in Nat /\ s[i] \in Nat /\ s[j] \in Nat  BY <3>a, <3>b
    <3>2. ~(i < j) /\ ~(j < i)  BY <1>1, <1>3, <2>1, <3>1
    <3>3. QED BY <3>1, <3>2
  <2>2. QED BY <1>3, <2>1 DEF IsInjective
<1>5. s \in Surjection(1 .. N, S)
  <2>1. s \in Injection(1 .. N, S)  BY <1>1, <1>4 DEF Injection
  <2>2. Cardinality(1 .. N) = N  BY <1>2, FS_Interval
  <2>3. QED BY <2>1, <2>2, FS_Injection
<1>6. ToSet(s) = S
  <2>1. \A t \in S : \E i \in 1 .. N : s[i] = t  BY <1>5 DEF Surjection
  <2>2. \A i \in 1 .. N : s[i] \in S  BY <1>1
  <2>3. QED BY <1>3, <2>1, <2>2 DEF ToSet
<1>7. s \in Seq(S)  BY <1>1, <1>2
<1>8. QED BY <1>4, <1>6, <1>7 DEF s

\* The master, if there is one, is listed first, and every core once.
LEMMA CoresListed ==
  ASSUME NEW cpu, cpu.bitmap \in SUBSET Nat, IsFiniteSet(cpu.bitmap),
         cpu.master = None \/ cpu.master \in cpu.bitmap
  PROVE  /\ IsInjective(cal_phys_id_list(cpu)) /\ ToSet(cal_phys_id_list(cpu)) = cpu.bitmap
         /\ cpu.master # None => cal_phys_id_list(cpu)[1] = cpu.master
<1>1. CASE cpu.master = None
  BY <1>1, OrderedLists DEF cal_phys_id_list
<1>2. CASE cpu.master # None
  <2> DEFINE S == cpu.bitmap \ {cpu.master}
             t == Ordered(S)
             s == <<cpu.master>> \o t
             n == Len(t)
  <2>1. S \in SUBSET Nat /\ IsFiniteSet(S)  BY FS_RemoveElement
  <2>2. t \in Seq(S) /\ ToSet(t) = S /\ IsInjective(t)  BY <2>1, OrderedLists
  <2>3. cal_phys_id_list(cpu) = s  BY <1>2 DEF cal_phys_id_list
  <2>4. cpu.master \in cpu.bitmap /\ cpu.master \notin S  BY <1>2
  <2>5. cpu.bitmap = S \cup {cpu.master}  BY <2>4
  <2> HIDE DEF S, t
  <2>6. n \in Nat /\ DOMAIN t = 1 .. n  BY <2>2, LenProperties
  <2>7. DOMAIN s = 1 .. n + 1 /\ s[1] = cpu.master /\ \A i \in 2 .. n + 1 : s[i] = t[i - 1]
    BY <2>2, <2>6
  <2> HIDE DEF s, n
  <2>8. \A i \in 2 .. n + 1 : i - 1 \in 1 .. n /\ s[i] \in S
    <3>1. \A i \in 2 .. n + 1 : i - 1 \in 1 .. n  BY <2>6
    <3>2. \A i \in 1 .. n : t[i] \in S  BY <2>2, <2>6
    <3>3. QED BY <2>7, <3>1, <3>2
  <2>9. IsInjective(s)
    <3>1. ASSUME NEW i \in DOMAIN s, NEW j \in DOMAIN s, s[i] = s[j] PROVE i = j
      <4>1. (i = 1 \/ i \in 2 .. n + 1) /\ (j = 1 \/ j \in 2 .. n + 1)  BY <2>6, <2>7
      <4>2. CASE i = 1 /\ j = 1  BY <4>2
      <4>3. CASE i = 1 /\ j \in 2 .. n + 1  BY <2>4, <2>7, <2>8, <3>1, <4>3
      <4>4. CASE i \in 2 .. n + 1 /\ j = 1  BY <2>4, <2>7, <2>8, <3>1, <4>4
      <4>5. CASE i \in 2 .. n + 1 /\ j \in 2 .. n + 1
        <5>1. t[i - 1] = t[j - 1]  BY <2>7, <3>1, <4>5
        <5>2. i - 1 = j - 1  BY <2>2, <2>6, <2>8, <4>5, <5>1 DEF IsInjective
        <5>3. QED BY <2>6, <4>5, <5>2
      <4>6. QED BY <4>1, <4>2, <4>3, <4>4, <4>5
    <3>2. QED BY <3>1 DEF IsInjective
  <2>10. ToSet(s) = cpu.bitmap
    <3>1. ASSUME NEW x \in ToSet(s) PROVE x \in cpu.bitmap
      <4>1. PICK i \in DOMAIN s : x = s[i]  BY DEF ToSet
      <4>2. i = 1 \/ i \in 2 .. n + 1  BY <2>6, <2>7
      <4>3. QED BY <2>4, <2>5, <2>7, <2>8, <4>1, <4>2
    <3>2. ASSUME NEW x \in cpu.bitmap PROVE x \in ToSet(s)
      <4>1. CASE x = cpu.master
        <5>1. 1 \in DOMAIN s  BY <2>6, <2>7
        <5>2. QED BY <2>7, <4>1, <5>1 DEF ToSet
      <4>2. CASE x \in S
        <5>1. PICK i \in 1 .. n : x = t[i]  BY <2>2, <2>6, <4>2 DEF ToSet
        <5>2. i + 1 \in 2 .. n + 1 /\ i + 1 \in DOMAIN s /\ (i + 1) - 1 = i  BY <2>6, <2>7
        <5>3. s[i + 1] = x  BY <2>7, <5>1, <5>2
        <5>4. QED BY <5>2, <5>3 DEF ToSet
      <4>3. QED BY <2>5, <4>1, <4>2
    <3>3. QED BY <3>1, <3>2
  <2>11. QED BY <2>3, <2>7, <2>9, <2>10
<1>3. QED BY <1>1, <1>2

\* A nonempty finite set of naturals has a greatest member.
LEMMA GreatestMember ==
  ASSUME NEW S \in SUBSET Nat, IsFiniteSet(S), S # {}
  PROVE  Max(S) \in S /\ \A i \in S : i <= Max(S)
<1> DEFINE N == Cardinality(S)
<1>1. PICK s \in [1 .. N -> S] : \A i, j \in DOMAIN s : i < j => s[i] < s[j]
  BY SetListed
<1>2. N \in Nat /\ N # 0  BY FS_CardinalityType, FS_EmptySet
<1>3. s \in Surjection(1 .. N, S)
  <2>1. \A i, j \in 1 .. N : s[i] = s[j] => i = j
    <3>1. SUFFICES ASSUME NEW i \in 1 .. N, NEW j \in 1 .. N, s[i] = s[j] PROVE i = j
      OBVIOUS
    <3>0. s[i] \in S /\ s[j] \in S  BY <1>1
    <3>a. i \in Nat /\ j \in Nat  BY <1>2
    <3>b. s[i] \in Nat /\ s[j] \in Nat  BY <3>0
    <3>2. i \in Nat /\ j \in Nat /\ s[i] \in Nat /\ s[j] \in Nat  BY <3>a, <3>b
    <3>3. ~(i < j) /\ ~(j < i)  BY <1>1, <3>1, <3>2
    <3>4. QED BY <3>2, <3>3
  <2>2. s \in Injection(1 .. N, S)  BY <1>1, <2>1 DEF Injection, IsInjective
  <2>3. Cardinality(1 .. N) = N  BY <1>2, FS_Interval
  <2>4. QED BY <2>2, <2>3, FS_Injection
<1>4. s[N] \in S  BY <1>1, <1>2
<1>5. ASSUME NEW x \in S PROVE x <= s[N]
  <2>1. PICK i \in 1 .. N : s[i] = x  BY <1>3 DEF Surjection
  <2>2. i = N \/ i < N  BY <1>2
  <2>3. x \in Nat /\ s[N] \in Nat  BY <1>4
  <2>4. CASE i = N  BY <2>1, <2>3, <2>4
  <2>5. CASE i < N
    <3>1. s[i] < s[N]  BY <1>1, <1>2, <2>5
    <3>2. QED BY <2>1, <2>3, <3>1
  <2>6. QED BY <2>2, <2>4, <2>5
<1> HIDE DEF N
<1>6. \E x \in S : \A y \in S : x >= y
  <2>1. \A y \in S : s[N] >= y
    <3>1. SUFFICES ASSUME NEW y \in S PROVE s[N] >= y  OBVIOUS
    <3>2. s[N] \in Nat /\ y \in Nat  BY <1>4
    <3>3. QED BY <1>5, <3>2
  <2>2. QED BY <1>4, <2>1
<1>7. Max(S) \in S /\ \A y \in S : Max(S) >= y  BY <1>6 DEF Max
<1>8. QED
  <2>1. SUFFICES ASSUME NEW i \in S PROVE i <= Max(S)  BY <1>7
  <2>2. i \in Nat /\ Max(S) \in Nat  BY <1>7
  <2>3. QED BY <1>7, <2>2

\* Below one bit more there is at most one core more.
LEMMA BelowGrows ==
  ASSUME NEW S \in SUBSET Nat, IsFiniteSet(S), NEW i \in Nat
  PROVE  /\ Cardinality({j \in S : j < i}) \in Nat
         /\ Cardinality({j \in S : j < i + 1}) <= Cardinality({j \in S : j < i}) + 1
         /\ Cardinality({j \in S : j < i + 1}) \in Nat
<1> DEFINE X == {j \in S : j < i}
           Y == {j \in S : j < i + 1}
<1>1. X \in SUBSET S  OBVIOUS
<1>2. IsFiniteSet(X) /\ Cardinality(X) \in Nat  BY <1>1, FS_Subset, FS_CardinalityType
<1>3. Y \in SUBSET (X \cup {i})
  <2>1. ASSUME NEW j \in S, j < i + 1 PROVE j < i \/ j = i
    <3>1. j \in Nat  OBVIOUS
    <3>2. QED BY <2>1, <3>1
  <2>2. QED BY <2>1
<1> HIDE DEF X, Y
<1>4. IsFiniteSet(X \cup {i}) /\ Cardinality(X \cup {i}) <= Cardinality(X) + 1
      /\ Cardinality(X \cup {i}) \in Nat
  <2>1. IsFiniteSet(X \cup {i})
        /\ Cardinality(X \cup {i}) = IF i \in X THEN Cardinality(X) ELSE Cardinality(X) + 1
    BY <1>2, FS_AddElement
  <2>2. QED BY <1>2, <2>1
<1>5. IsFiniteSet(Y) /\ Cardinality(Y) <= Cardinality(X \cup {i}) /\ Cardinality(Y) \in Nat
  BY <1>3, <1>4, FS_Subset, FS_CardinalityType
<1>6. Cardinality(Y) <= Cardinality(X) + 1  BY <1>2, <1>4, <1>5
<1>7. QED BY <1>2, <1>5, <1>6 DEF X, Y

\* The loop stops at a bit below which there are num cores.
LEMMA WalkStops ==
  ASSUME NEW S \in SUBSET Nat, IsFiniteSet(S), S # {}, NEW n \in Nat, n <= Cardinality(S)
  PROVE  Walk(S, n) \in Nat /\ Cardinality({j \in S : j < Walk(S, n)}) = n
<1> DEFINE lo == Min(S)
           hi == Max(S)
           C(i) == Cardinality({j \in S : j < i})
           Stops == {i \in lo .. hi + 1 : Remain(S, n, i) = 0 \/ i > hi}
<1>1. lo \in S /\ \A j \in S : lo <= j
  <2>1. \E i \in S : \A j \in S : i <= j  BY HasLeast
  <2>2. QED BY <2>1 DEF Min
<1>2. hi \in S /\ \A j \in S : j <= hi  BY GreatestMember
<1>3. lo \in Nat /\ hi \in Nat /\ lo <= hi  BY <1>1, <1>2
<1>4. Cardinality(S) \in Nat  BY FS_CardinalityType
<1>5. C(lo) = 0
  <2>1. {j \in S : j < lo} = {}
    <3>1. ASSUME NEW j \in S PROVE ~(j < lo)
      <4>1. j \in Nat /\ lo <= j  BY <1>1
      <4>2. QED BY <1>3, <4>1
    <3>2. QED BY <3>1
  <2>2. QED BY <2>1, FS_EmptySet
<1>6. C(hi + 1) = Cardinality(S)
  <2>1. {j \in S : j < hi + 1} = S
    <3>1. ASSUME NEW j \in S PROVE j < hi + 1
      <4>1. j \in Nat /\ j <= hi  BY <1>2
      <4>2. QED BY <1>3, <4>1
    <3>2. QED BY <3>1
  <2>2. QED BY <2>1
<1>7. ASSUME NEW i \in Nat
      PROVE  C(i) \in Nat /\ C(i + 1) \in Nat /\ C(i + 1) <= C(i) + 1
  BY BelowGrows
<1>8. Walk(S, n) = Min(Stops)  BY DEF Walk
<1>9. ASSUME NEW i \in Nat PROVE Remain(S, n, i) = 0 <=> C(i) = n
  <2>1. Remain(S, n, i) = n - C(i)  BY DEF Remain
  <2>2. C(i) \in Nat  BY <1>7
  <2> HIDE DEF C
  <2>3. QED BY <2>1, <2>2
<1> HIDE DEF lo, hi, C
\* n cores are passed at some bit: just before the first one with more below it, or at the end.
<1>10. \E i \in lo .. hi + 1 : C(i) = n
  <2>1. CASE n = Cardinality(S)
    <3>1. hi + 1 \in lo .. hi + 1  BY <1>3
    <3>2. QED BY <1>6, <2>1, <3>1
  <2>2. CASE n # Cardinality(S)
    <3> DEFINE T == {i \in lo .. hi + 1 : C(i) > n}
    <3>1. T \in SUBSET Nat /\ hi + 1 \in T
      <4>1. hi + 1 \in lo .. hi + 1 /\ lo .. hi + 1 \in SUBSET Nat  BY <1>3
      <4>2. C(hi + 1) > n  BY <1>4, <1>6, <2>2
      <4>3. QED BY <4>1, <4>2
    <3>2. PICK t \in T : \A j \in T : t <= j
      <4> HIDE DEF T
      <4>1. QED BY <3>1, HasLeast
    <3>3. t \in lo .. hi + 1 /\ C(t) > n /\ t \in Nat  BY <3>1, <3>2
    <3>4. t # lo  BY <1>5, <3>3
    <3>5. t - 1 \in lo .. hi + 1 /\ t - 1 \in Nat /\ (t - 1) + 1 = t /\ ~(t <= t - 1)
      BY <1>3, <3>3, <3>4
    <3>6. t - 1 \notin T  BY <3>2, <3>5
    <3>7. C(t - 1) \in Nat /\ C(t) \in Nat /\ C(t) <= C(t - 1) + 1  BY <1>7, <3>5
    <3>8. ~(C(t - 1) > n)  BY <3>5, <3>6
    <3>9. C(t - 1) = n  BY <3>3, <3>7, <3>8
    <3>10. QED BY <3>5, <3>9
  <2>3. QED BY <2>1, <2>2
<1>11. PICK i \in lo .. hi + 1 : C(i) = n  BY <1>10
<1>12. Stops \in SUBSET Nat /\ i \in Stops
  <2>1. lo .. hi + 1 \in SUBSET Nat  BY <1>3
  <2>2. QED BY <1>9, <1>11, <2>1
<1>13. Min(Stops) \in Stops /\ \A j \in Stops : Min(Stops) <= j
  <2> HIDE DEF Stops
  <2>1. \E k \in Stops : \A j \in Stops : k <= j  BY <1>12, HasLeast
  <2>2. QED BY <2>1 DEF Min
<1> DEFINE w == Min(Stops)
<1>14. w \in lo .. hi + 1 /\ w \in Nat /\ w <= i /\ (Remain(S, n, w) = 0 \/ w > hi)
  BY <1>12, <1>13
<1> HIDE DEF w, Stops
<1>15. C(w) = n
  <2>1. CASE Remain(S, n, w) = 0  BY <1>9, <1>14, <2>1
  <2>2. CASE w > hi
    <3>1. w = i  BY <1>3, <1>11, <1>14, <2>2
    <3>2. QED BY <1>11, <3>1
  <2>3. QED BY <1>14, <2>1, <2>2
<1>16. QED BY <1>8, <1>14, <1>15 DEF w, C

\* What VmCpuConfig::new keeps of a bitmap.
LEMMA CoresKept ==
  ASSUME NEW num \in Nat, NEW bitmap \in SUBSET Nat, IsFiniteSet(bitmap), NEW master
  PROVE  LET cpu == CpuConfig(num, bitmap, master)
         IN /\ cpu.bitmap \in SUBSET bitmap /\ IsFiniteSet(cpu.bitmap)
            /\ Cardinality(cpu.bitmap) = cpu.num /\ cpu.num <= num
            /\ cpu.num = num \/ cpu.bitmap = bitmap
            /\ \A i \in cpu.bitmap, j \in bitmap \ cpu.bitmap : i < j
            /\ cpu.master = None \/ (cpu.master = master /\ master \in cpu.bitmap)
<1> DEFINE n == IF num < Cardinality(bitmap) THEN num ELSE Cardinality(bitmap)
           kept == IF bitmap = {} THEN {} ELSE {i \in bitmap : i < Walk(bitmap, n)}
           cpu == CpuConfig(num, bitmap, master)
<1>1. Cardinality(bitmap) \in Nat  BY FS_CardinalityType
<1>2. n \in Nat /\ n <= Cardinality(bitmap) /\ n <= num /\ (n = num \/ n = Cardinality(bitmap))
  BY <1>1
<1>3. cpu.num = n /\ cpu.bitmap = kept /\ cpu.master = IF master \in kept THEN master ELSE None
  BY DEF CpuConfig
<1> HIDE DEF n, cpu
<1>4. kept \in SUBSET bitmap /\ Cardinality(kept) = n
      /\ \A i \in kept, j \in bitmap \ kept : i < j
  <2>1. CASE bitmap = {}
    <3>1. kept = {}  BY <2>1
    <3>2. Cardinality(bitmap) = 0  BY <2>1, FS_EmptySet
    <3>3. n = 0  BY <1>2, <3>2
    <3>4. QED BY <2>1, <3>1, <3>2, <3>3
  <2>2. CASE bitmap # {}
    <3> DEFINE w == Walk(bitmap, n)
    <3>1. w \in Nat /\ Cardinality({j \in bitmap : j < w}) = n  BY <1>2, <2>2, WalkStops
    <3>2. kept = {j \in bitmap : j < w}  BY <2>2
    <3> HIDE DEF w, kept
    <3>3. ASSUME NEW i \in kept, NEW j \in bitmap \ kept PROVE i < j
      <4>1. i \in bitmap /\ i < w /\ j \in bitmap /\ ~(j < w)  BY <3>2
      <4>2. i \in Nat /\ j \in Nat  BY <4>1
      <4>3. QED BY <3>1, <4>1, <4>2
    <3>4. QED BY <3>1, <3>2, <3>3
  <2>3. QED BY <2>1, <2>2
<1> HIDE DEF kept
<1>5. IsFiniteSet(kept) /\ (n = Cardinality(bitmap) => kept = bitmap)
  BY <1>4, FS_Subset
<1>6. QED BY <1>2, <1>3, <1>4, <1>5 DEF cpu

\* VmCpuConfig::new keeps the lowest num cores that the call names, neither fewer nor
\* more, and cal_phys_id_list lists each of them once, the master first: for any
\* number of cores and any arguments.
THEOREM CpusAsConfiguredHolds == ControlSpec => []CpusAsConfigured
<1>1. ASSUME NEW arg \in CpuChoices
      PROVE  LET cpu  == CpuConfig(arg.num, arg.bitmap, arg.master)
                 list == cal_phys_id_list(cpu)
             IN /\ Cardinality(cpu.bitmap) = cpu.num /\ cpu.num <= arg.num
                /\ cpu.num = arg.num \/ cpu.bitmap = arg.bitmap
                /\ \A i \in cpu.bitmap, j \in arg.bitmap \ cpu.bitmap : i < j
                /\ IsInjective(list) /\ ToSet(list) = cpu.bitmap
                /\ cpu.master # None => list[1] = arg.master
  <2> DEFINE cpu == CpuConfig(arg.num, arg.bitmap, arg.master)
  <2>1. arg.num \in Nat /\ arg.bitmap \in SUBSET Nat /\ IsFiniteSet(arg.bitmap)
    BY ControlAssumption DEF ControlConstants
  <2>2. /\ cpu.bitmap \in SUBSET arg.bitmap /\ IsFiniteSet(cpu.bitmap)
        /\ Cardinality(cpu.bitmap) = cpu.num /\ cpu.num <= arg.num
        /\ cpu.num = arg.num \/ cpu.bitmap = arg.bitmap
        /\ \A i \in cpu.bitmap, j \in arg.bitmap \ cpu.bitmap : i < j
        /\ cpu.master = None \/ (cpu.master = arg.master /\ arg.master \in cpu.bitmap)
    BY <2>1, CoresKept
  <2> HIDE DEF cpu
  <2>3. cpu.bitmap \in SUBSET Nat  BY <2>1, <2>2
  <2>4. IsInjective(cal_phys_id_list(cpu)) /\ ToSet(cal_phys_id_list(cpu)) = cpu.bitmap
        /\ (cpu.master # None => cal_phys_id_list(cpu)[1] = cpu.master)
    BY <2>2, <2>3, CoresListed
  <2>5. QED BY <2>2, <2>4 DEF cpu
<1>2. CpusAsConfigured  BY <1>1 DEF CpusAsConfigured
<1>3. QED BY <1>2, PTL
=============================================================================

---------------------------- MODULE RiscvProofs ----------------------------
(***************************************************************************)
(* RISC-V machines of any size: what is signalled to a vCPU is its own and *)
(* complete, nothing stays put off, and the tick is on while it is needed. *)
(*                                                                         *)
(* The functions of the source take a state S of the harts to another, R.  *)
(* One lemma per function says that R is Good if S is, and that nothing    *)
(* that was signalled is lost on the way (Later).  HartInv adds what is    *)
(* under way and what is pending but cannot be seen.  At the end the build *)
(* with an APLIC in place of the PLIC.                                     *)
(***************************************************************************)
EXTENDS RiscvHart, FiniteSetTheorems, SequenceTheorems, WellFoundedInduction, TLAPS

AllLines == {"ext", "timer", "soft"}
Ints == Irqs \cup {IPI}
VMs == {v.vm : v \in Vcpus}

HartStates ==
    [active : [Harts -> Vcpus \cup {None}], queue : [Harts -> Seq(Vcpus)],
     idx : [Harts -> Int], hvip : [Harts -> SUBSET AllLines], stie : [Harts -> BOOLEAN],
     state : [Vcpus -> {"Running", "Ready", "Sleep", "Invalid"}],
     saved : [Vcpus -> SUBSET AllLines], list : [Vcpus -> SUBSET Ints],
     timer : [Vcpus -> {"idle", "armed", "expired"}], claims : [Vcpus -> BOOLEAN],
     cnt : [Irqs -> Nat], prio : [Irqs -> {0, 1}],
     enabled : SUBSET [vm : VMs, ctx : Contexts, irq : Irqs],
     thr : [VMs -> [Contexts -> {0, 2}]]]

HasPeer(v) == \E w \in Vcpus \ {v} : w.vm = v.vm

\* What is signalled to v in state S (see hvip).
Sig(S, v) == IF S.active[v.hart] = v THEN S.hvip[v.hart] ELSE S.saved[v]

\* The active vCPU of a hart is in its queue, which holds vCPUs of the hart.
Placed(S) ==
    \A h \in Harts :
        /\ \A k \in 1 .. Len(S.queue[h]) : S.queue[h][k].hart = h
        /\ S.active[h] # None => \E k \in 1 .. Len(S.queue[h]) : S.queue[h][k] = S.active[h]

\* Nothing is put off for a vCPU that runs, and for others what is their own.
ListsOwn(S) ==
    \A v \in Vcpus :
        /\ S.active[v.hart] = v => S.list[v] = {}
        /\ IPI \in S.list[v] => HasPeer(v)
        /\ \A i \in S.list[v] \cap Irqs : Target(i) = v

\* Interrupts are enabled at their targets alone.
EnabledOwn(S) ==
    \A e \in S.enabled : e.vm = e.irq.vm /\ e.ctx = EnableContext(Target(e.irq))

TimersOf(S) == \A v \in Vcpus : S.timer[v] # "idle" => v \in Timed

Own(S) ==
    \A v \in Vcpus \ Stoppable :
        /\ "timer" \in Sig(S, v) => S.timer[v] = "expired"
        /\ "soft" \in Sig(S, v) => HasPeer(v)
        /\ "ext" \in Sig(S, v) => \E i \in Irqs : Target(i) = v /\ S.cnt[i] > 0

\* What its vCPU sees, and has seen since it came, is signalled.
Kept(S, H) ==
    \A i \in Irqs \ H : Visible(S, i) => "ext" \in Sig(S, Target(i)) \/ S.claims[Target(i)]

Good(S, H) ==
    /\ S \in HartStates /\ Placed(S) /\ ListsOwn(S) /\ EnabledOwn(S) /\ TimersOf(S)
    /\ Own(S) /\ Kept(S, H)

\* The tick of the harts in D is on where it has to be.
Ticking(S, D) ==
    /\ \A v \in Vcpus \ Stoppable :
          v.hart \in D /\ S.timer[v] # "idle" /\ "timer" \notin Sig(S, v) => S.stie[v.hart]
    /\ \A h \in D : Len(S.queue[h]) > 1 => S.stie[h]

\* A message concerns a vCPU of the hart it goes to.
MailOwn ==
    \A h \in Harts : \A m \in msgs[h] :
        \E v \in Vcpus :
            /\ v.hart = h /\ v.vm = m.vm
            /\ m.int \in Ints \cup {Start}
            /\ m.int = IPI => HasPeer(v)
            /\ m.int \in Irqs => Target(m.int) = v

PlicOwn ==
    /\ phys \in [latched : SUBSET Irqs, enabled : SUBSET [irq : Irqs, hart : Harts],
                 prio : [Irqs -> {0, 1}]]
    /\ \A p \in phys.enabled : p.hart = Target(p.irq).hart

Seen == \A i \in Irqs \ hidden : s.cnt[i] > 0 => Visible(s, i)

MailType == msgs \in [Harts -> SUBSET [vm : VMs, int : Ints \cup {Start}]]
\* Enough to be kept by every step.
HartInv == Good(s, hidden) /\ Ticking(s, Harts) /\ MailOwn /\ PlicOwn /\ Seen /\ MailType

\* S and R differ in pending counts, the lines and the tick at most.
Similar(S, R) ==
    /\ R.active = S.active /\ R.queue = S.queue /\ R.state = S.state /\ R.saved = S.saved
    /\ R.list = S.list /\ R.timer = S.timer /\ R.claims = S.claims /\ R.prio = S.prio
    /\ R.enabled = S.enabled /\ R.thr = S.thr

\* R is S with ints injected on h, T only counts them.
Injected(S, h, ints, R, T) ==
    /\ R \in HartStates /\ T \in HartStates
    /\ Similar(S, R) /\ Similar(S, T) /\ T.cnt = R.cnt
    /\ R.stie = [S.stie EXCEPT ![h] = @ /\ Timer \notin ints]
    /\ R.cnt = [i \in Irqs |-> IF i \in ints THEN S.cnt[i] + 1 ELSE S.cnt[i]]
    /\ R.hvip = [S.hvip EXCEPT ![h] = @ \cup Lines(T, S.active[h], ints)]

LEMMA InjectIs ==
  ASSUME NEW S \in HartStates, NEW h \in Harts, NEW ints, NEW R, R = inject_intr(S, h, ints)
  PROVE  \E T : Injected(S, h, ints, R, T)
<1>1. PICK C : C = [i \in Irqs |-> IF i \in ints THEN S.cnt[i] + 1 ELSE S.cnt[i]]  OBVIOUS
<1>2. C \in [Irqs -> Nat]  BY <1>1 DEF HartStates
<1>3. PICK T : T = [S EXCEPT !.cnt = [i \in Irqs |-> IF i \in ints THEN S.cnt[i] + 1 ELSE S.cnt[i]]]
  OBVIOUS
<1>4. T \in HartStates /\ T.cnt = C /\ T.hvip = S.hvip /\ T.stie = S.stie
  BY <1>1, <1>2, <1>3 DEF HartStates
<1>5. Similar(S, T)  BY <1>3 DEF HartStates, Similar
<1>6. PICK V : V = [S.hvip EXCEPT ![h] = @ \cup Lines(T, S.active[h], ints)]  OBVIOUS
<1>7. V \in [Harts -> SUBSET AllLines]  BY <1>6 DEF HartStates, AllLines, Lines
<1>8. PICK W : W = [S.stie EXCEPT ![h] = @ /\ Timer \notin ints]  OBVIOUS
<1>9. W \in [Harts -> BOOLEAN]  BY <1>8 DEF HartStates
<1>10. T.active = S.active  BY <1>5 DEF Similar
<1>11. R = [T EXCEPT !.hvip = V, !.stie = W]
  <2>1. R = [T EXCEPT !.hvip[h] = @ \cup Lines(T, S.active[h], ints),
                      !.stie[h] = @ /\ Timer \notin ints]
    BY <1>3 DEF inject_intr
  <2>2. QED BY <1>4, <1>6, <1>8, <2>1
<1>12. R \in HartStates  BY <1>4, <1>7, <1>9, <1>11 DEF HartStates
<1>13. R.cnt = T.cnt /\ R.hvip = V /\ R.stie = W  BY <1>4, <1>11 DEF HartStates
<1>14. Similar(T, R)  BY <1>4, <1>11 DEF HartStates, Similar
<1>15. Similar(S, R)  BY <1>5, <1>14 DEF Similar
<1>16. QED BY <1>1, <1>4, <1>5, <1>6, <1>8, <1>12, <1>13, <1>15 DEF Injected

-----------------------------------------------------------------------------

\* The vCPU an interrupt goes to exists and is the only one.
LEMMA TargetIs ==
  ASSUME NEW i \in Irqs
  PROVE  /\ Target(i) \in Vcpus \ Stoppable
         /\ Target(i).vm = i.vm /\ Target(i).id = i.at /\ Target(i).id % 2 = 0
         /\ \A v \in Vcpus : v.vm = i.vm /\ v.id = i.at => v = Target(i)
<1>1. PICK v \in Vcpus \ Stoppable : v.vm = i.vm /\ v.id = i.at /\ v.id % 2 = 0
  BY RiscvAssumption
<1>2. \A w \in Vcpus : w.vm = i.vm /\ w.id = i.at => w = v  BY <1>1, RiscvAssumption
<1>3. Target(i) = v  BY <1>1, <1>2 DEF Target
<1>4. QED BY <1>1, <1>2, <1>3

\* A VM's vCPU on a hart is the only one.
LEMMA OnHartIs == \A v \in Vcpus : OnHart(v.hart, v.vm) = v
<1>1. SUFFICES ASSUME NEW v \in Vcpus PROVE OnHart(v.hart, v.vm) = v  OBVIOUS
<1>2. \A w \in Vcpus : w.hart = v.hart /\ w.vm = v.vm => w = v  BY RiscvAssumption
<1>3. QED BY <1>2 DEF OnHart

\* What is injected besides interrupts of a PLIC, and None, differ from the rest.
LEMMA Distinct ==
  /\ Timer \notin Irqs /\ IPI \notin Irqs /\ Start \notin Irqs
  /\ Timer # IPI /\ Timer # Start /\ IPI # Start
  /\ None \notin Vcpus
<1>1. \A i \in Irqs : i.vm # "none"  BY RiscvAssumption DEF None
<1>2. \A v \in Vcpus : v.vm # "none"  BY RiscvAssumption DEF None
<1>3. Timer.vm = "none" /\ IPI.vm = "none" /\ Start.vm = "none" /\ None.vm = "none"
  BY DEF Timer, IPI, Start, Pseudo, None
<1>4. Timer.n = 62 /\ IPI.n = 60 /\ Start.n = 0  BY DEF Timer, IPI, Start, Pseudo
<1>5. QED BY <1>1, <1>2, <1>3, <1>4

\* One of several interrupts has the lowest number.
LEMMA HasLeastNumber ==
  ASSUME NEW T \in SUBSET Irqs, T # {}
  PROVE  \E i \in T : \A j \in T : i.n <= j.n
<1>1. \A i \in T : i.n \in Nat  BY RiscvAssumption
<1> DEFINE R == {p \in Nat \X Nat : p[1] < p[2]}
           N == {i.n : i \in T}
<1>2. IsWellFoundedOn(R, Nat)  BY NatLessThanWellFounded DEF OpToRel
<1>3. N \in SUBSET Nat /\ N # {}  BY <1>1
<1>4. PICK n \in N : \A m \in N : <<m, n>> \notin R
  <2> HIDE DEF R, N
  <2>1. QED BY <1>2, <1>3, WFMin
<1>5. PICK i \in T : i.n = n  BY <1>4
<1>6. \A j \in T : ~(j.n < i.n)  BY <1>1, <1>4, <1>5
<1>7. QED BY <1>1, <1>5, <1>6

\* get_pending_irq finds an interrupt that may be taken, if there is one.
LEMMA PendingIs ==
  ASSUME NEW S, NEW vm, NEW c
  PROVE  /\ get_pending_irq(S, vm, c) \subseteq Takable(S, vm, c)
         /\ Takable(S, vm, c) # {} => get_pending_irq(S, vm, c) # {}
<1>1. Takable(S, vm, c) \in SUBSET Irqs  BY DEF Takable
<1>2. QED BY <1>1, HasLeastNumber DEF get_pending_irq

\* What a vCPU's context may take is the vCPU's own.
LEMMA TakableOwn ==
  ASSUME NEW S, EnabledOwn(S), NEW v \in Vcpus, NEW c,
         c = EnableContext(v) \/ c = ClaimContext(v), NEW i \in Takable(S, v.vm, c)
  PROVE  i \in Irqs /\ S.cnt[i] > 0 /\ Target(i) = v /\ c = EnableContext(v) /\ Visible(S, i)
<1>1. /\ i \in Irqs /\ i.vm = v.vm /\ S.cnt[i] > 0
      /\ [vm |-> v.vm, ctx |-> c, irq |-> i] \in S.enabled
  BY DEF Takable
<1>2. c = EnableContext(Target(i))  BY <1>1 DEF EnabledOwn
<1>3. c.hart = v.id  BY DEF EnableContext, ClaimContext
<1>4. EnableContext(Target(i)).hart = Target(i).id  BY DEF EnableContext
<1>5. v = Target(i)  BY <1>1, <1>2, <1>3, <1>4, TargetIs
<1>6. QED BY <1>1, <1>2, <1>5 DEF Visible

-----------------------------------------------------------------------------

\* What may be injected into v.
Fit(S, v, ints) ==
    /\ IPI \in ints => HasPeer(v)
    /\ \A i \in ints \cap Irqs : Target(i) = v
    /\ Timer \in ints => S.timer[v] = "expired"

\* From S to R nothing is lost that is signalled, and the tick stays on in D.
Later(S, R, D) ==
    /\ R.timer = S.timer
    /\ \A v \in Vcpus : Sig(S, v) \subseteq Sig(R, v)
    /\ \A h \in D : S.stie[h] => R.stie[h]

\* What loses no signal leaves the tick on.
LEMMA LaterTicks ==
  ASSUME NEW S, NEW R, NEW D, Later(S, R, D), Ticking(S, D), R.queue = S.queue
  PROVE  Ticking(R, D)
BY DEF Later, Ticking

\* Injection into the vCPU that runs on h.
LEMMA InjectKeeps ==
  ASSUME NEW S, NEW H, Good(S, H), NEW h \in Harts, S.active[h] # None, NEW ints,
         Fit(S, S.active[h], ints), NEW R, R = inject_intr(S, h, ints)
  PROVE  /\ Good(R, H) /\ R.queue = S.queue
         /\ Later(S, R, IF Timer \in ints THEN Harts \ {h} ELSE Harts)
<1>2. S \in HartStates  BY DEF Good
<1>3. PICK v : v = S.active[h]  OBVIOUS
<1>4. v \in Vcpus /\ v.hart = h
  <2>1. v \in Vcpus  BY <1>2, <1>3 DEF HartStates
  <2>2. QED BY <1>3, <2>1 DEF Good, Placed
<1>5. PICK T : Injected(S, h, ints, R, T)  BY <1>2, InjectIs
<1>6. PICK more : more = Lines(T, v, ints)  OBVIOUS
<1>7. /\ R \in HartStates
      /\ R.active = S.active /\ R.queue = S.queue /\ R.saved = S.saved
      /\ R.list = S.list /\ R.timer = S.timer /\ R.claims = S.claims /\ R.prio = S.prio
      /\ R.enabled = S.enabled /\ R.thr = S.thr
      /\ R.stie = [S.stie EXCEPT ![h] = @ /\ Timer \notin ints]
      /\ R.cnt = [i \in Irqs |-> IF i \in ints THEN S.cnt[i] + 1 ELSE S.cnt[i]]
  BY <1>5 DEF Injected, Similar
<1>8. R.hvip = [S.hvip EXCEPT ![h] = @ \cup more]  BY <1>3, <1>5, <1>6 DEF Injected
<1>9. \A u \in Vcpus : Sig(R, u) = IF u = v THEN Sig(S, u) \cup more ELSE Sig(S, u)
  <2>1. SUFFICES ASSUME NEW u \in Vcpus
                 PROVE  Sig(R, u) = IF u = v THEN Sig(S, u) \cup more ELSE Sig(S, u)
    OBVIOUS
  <2>2. u.hart \in Harts  BY DEF Harts
  <2>3. S.hvip \in [Harts -> SUBSET AllLines]  BY <1>2 DEF HartStates
  <2>4. R.hvip[h] = S.hvip[h] \cup more /\ \A g \in Harts \ {h} : R.hvip[g] = S.hvip[g]
    BY <1>8, <2>3
  <2>5. CASE u = v  BY <1>3, <1>4, <1>7, <2>4, <2>5 DEF Sig
  <2>6. CASE u # v  BY <1>3, <1>4, <1>7, <2>2, <2>4, <2>6 DEF Sig
  <2>7. QED BY <2>5, <2>6
<1>10. \A i \in Irqs : S.cnt[i] \in Nat /\ R.cnt[i] >= S.cnt[i]
                       /\ (i \notin ints => R.cnt[i] = S.cnt[i])
  BY <1>2, <1>7 DEF HartStates
<1>11. T.cnt = R.cnt /\ T.enabled = R.enabled /\ T.prio = R.prio /\ T.thr = R.thr
  BY <1>5, <1>7 DEF Injected, Similar
<1>12. EnabledOwn(R) /\ EnabledOwn(T)  BY <1>7, <1>11 DEF Good, EnabledOwn
<1>13. /\ "timer" \in more => Timer \in ints
       /\ "soft" \in more => IPI \in ints
       /\ "ext" \in more => get_pending_irq(T, v.vm, EnableContext(v)) # {}
       /\ ints \cap Irqs # {} /\ get_pending_irq(T, v.vm, EnableContext(v)) # {}
             => "ext" \in more
  BY <1>6 DEF Lines
<1>14. "ext" \in more => \E i \in Irqs : Target(i) = v /\ R.cnt[i] > 0
  <2>1. SUFFICES ASSUME "ext" \in more PROVE \E i \in Irqs : Target(i) = v /\ R.cnt[i] > 0
    OBVIOUS
  <2>2. get_pending_irq(T, v.vm, EnableContext(v)) # {}  BY <1>13, <2>1
  <2>3. PICK i \in Takable(T, v.vm, EnableContext(v)) : TRUE  BY <2>2 DEF get_pending_irq
  <2>4. QED BY <1>4, <1>11, <1>12, <2>3, TakableOwn
<1>15. Placed(R) /\ ListsOwn(R) /\ TimersOf(R)
  BY <1>7 DEF Good, Placed, ListsOwn, TimersOf
<1>16. Own(R)
  <2>1. SUFFICES ASSUME NEW u \in Vcpus \ Stoppable
                 PROVE  /\ "timer" \in Sig(R, u) => R.timer[u] = "expired"
                        /\ "soft" \in Sig(R, u) => HasPeer(u)
                        /\ "ext" \in Sig(R, u) => \E i \in Irqs : Target(i) = u /\ R.cnt[i] > 0
    BY DEF Own
  <2>2. "timer" \in Sig(R, u) => R.timer[u] = "expired"
    BY <1>3, <1>7, <1>9, <1>13 DEF Good, Own, Fit
  <2>3. "soft" \in Sig(R, u) => HasPeer(u)
    BY <1>3, <1>9, <1>13 DEF Good, Own, Fit
  <2>4. "ext" \in Sig(R, u) => \E i \in Irqs : Target(i) = u /\ R.cnt[i] > 0
    <3>1. "ext" \in Sig(S, u) => \E i \in Irqs : Target(i) = u /\ S.cnt[i] > 0
      BY DEF Good, Own
    <3>2. "ext" \in Sig(S, u) => \E i \in Irqs : Target(i) = u /\ R.cnt[i] > 0
      BY <1>7, <1>10, <3>1 DEF HartStates
    <3>3. QED BY <1>9, <1>14, <3>2
  <2>5. QED BY <2>2, <2>3, <2>4
<1>17. Kept(R, H)
  <2>1. SUFFICES ASSUME NEW i \in Irqs \ H, Visible(R, i)
                 PROVE  "ext" \in Sig(R, Target(i)) \/ R.claims[Target(i)]
    BY DEF Kept
  <2>2. CASE i \in ints
    <3>1. Target(i) = v /\ i.vm = v.vm  BY <1>3, <2>2, TargetIs DEF Fit
    <3>2. i \in Takable(R, v.vm, EnableContext(v))  BY <2>1, <3>1 DEF Visible
    <3>3. i \in Takable(T, v.vm, EnableContext(v))  BY <1>11, <3>2 DEF Takable
    <3>4. get_pending_irq(T, v.vm, EnableContext(v)) # {}  BY <3>3, PendingIs
    <3>5. "ext" \in more  BY <1>13, <2>1, <2>2, <3>4
    <3>6. QED BY <1>4, <1>9, <3>1, <3>5
  <2>3. CASE i \notin ints
    <3>1. Visible(S, i)  BY <1>7, <1>10, <2>1, <2>3 DEF Visible, Takable
    <3>2. "ext" \in Sig(S, Target(i)) \/ S.claims[Target(i)]  BY <3>1 DEF Good, Kept
    <3>3. QED BY <1>7, <1>9, <3>2, TargetIs
  <2>4. QED BY <2>2, <2>3
<1>18. Good(R, H)  BY <1>7, <1>12, <1>15, <1>16, <1>17 DEF Good
<1>19. \A u \in Vcpus : Sig(S, u) \subseteq Sig(R, u)  BY <1>9
<1>20. Later(S, R, Harts \ {h})  BY <1>2, <1>7, <1>19 DEF Later, HartStates
<1>21. Timer \notin ints => Later(S, R, Harts)  BY <1>2, <1>7, <1>19 DEF Later, HartStates
<1>22. QED BY <1>7, <1>18, <1>20, <1>21

\* For a vCPU of the hart, whether it runs or not.
LEMMA VmInjectKeeps ==
  ASSUME NEW S, NEW H, Good(S, H), NEW v \in Vcpus, NEW ints, ints \subseteq Ints,
         Fit(S, v, ints), NEW R, R = vm_inject(S, v.hart, v, ints)
  PROVE  Good(R, H) /\ R.queue = S.queue /\ Later(S, R, Harts)
<1>0. Timer \notin ints  BY Distinct DEF Ints
<1>1. S \in HartStates /\ v.hart \in Harts  BY DEF Good, Harts
<1>2. PICK a : a = S.active[v.hart]  OBVIOUS
<1>3. a # None => a \in Vcpus /\ a.hart = v.hart
  <2>1. a \in Vcpus \cup {None}  BY <1>1, <1>2 DEF HartStates
  <2>2. QED BY <1>1, <1>2, <2>1 DEF Good, Placed
<1>4. CASE a # None /\ a.vm = v.vm
  <2>1. a = v  BY <1>3, <1>4, RiscvAssumption
  <2>2. R = inject_intr(S, v.hart, ints)
    BY <1>2, <1>4 DEF vm_inject
  <2>3. S.active[v.hart] # None /\ Fit(S, S.active[v.hart], ints)  BY <1>2, <1>4, <2>1
  <2>4. /\ Good(R, H) /\ R.queue = S.queue
        /\ Later(S, R, IF Timer \in ints THEN Harts \ {v.hart} ELSE Harts)
    BY <1>1, <2>2, <2>3, InjectKeeps
  <2>5. QED BY <1>0, <2>4
<1>5. CASE ~(a # None /\ a.vm = v.vm)
  <2>1. a # v  BY <1>2, <1>5, Distinct
  <2>2. PICK L : L = [S.list EXCEPT ![v] = @ \cup ints]  OBVIOUS
  <2>4. R = [S EXCEPT !.list = L]  BY <1>2, <1>5, <2>2 DEF vm_inject
  <2>5. L \in [Vcpus -> SUBSET Ints]  BY <1>1, <2>1, <2>2 DEF HartStates
  <2>6. /\ R \in HartStates /\ R.list = L /\ R.active = S.active /\ R.queue = S.queue
        /\ R.hvip = S.hvip /\ R.saved = S.saved /\ R.stie = S.stie /\ R.timer = S.timer
        /\ R.claims = S.claims /\ R.cnt = S.cnt /\ R.prio = S.prio /\ R.enabled = S.enabled
        /\ R.thr = S.thr
    BY <1>1, <2>4, <2>5 DEF HartStates
  <2>7. \A u \in Vcpus : Sig(R, u) = Sig(S, u)  BY <2>6 DEF Sig
  <2>8. ListsOwn(R)
    <3>1. ListsOwn(S)  BY DEF Good
    <3>2. SUFFICES ASSUME NEW u \in Vcpus
                   PROVE  /\ R.active[u.hart] = u => R.list[u] = {}
                          /\ IPI \in R.list[u] => HasPeer(u)
                          /\ \A i \in R.list[u] \cap Irqs : Target(i) = u
      BY DEF ListsOwn
    <3>3. CASE u = v
      <4>1. R.list[u] = S.list[v] \cup ints  BY <1>1, <2>2, <2>6, <3>3 DEF HartStates
      <4>2. QED BY <1>2, <2>1, <2>6, <3>1, <3>3, <4>1 DEF ListsOwn, Fit
    <3>4. CASE u # v
      <4>1. R.list[u] = S.list[u]  BY <1>1, <2>2, <2>6, <3>4 DEF HartStates
      <4>2. QED BY <2>6, <3>1, <4>1 DEF ListsOwn
    <3>5. QED BY <3>3, <3>4
  <2>9. Placed(R) /\ EnabledOwn(R) /\ TimersOf(R)
    BY <2>6 DEF Good, Placed, EnabledOwn, TimersOf
  <2>10. Own(R)  BY <2>6, <2>7 DEF Good, Own
  <2>11. \A i \in Irqs : Visible(R, i) = Visible(S, i)  BY <2>6 DEF Visible, Takable
  <2>12. Kept(R, H)  BY <2>6, <2>7, <2>11, TargetIs DEF Good, Kept
  <2>13. Later(S, R, Harts)  BY <2>6, <2>7 DEF Later
  <2>14. QED BY <2>6, <2>8, <2>9, <2>10, <2>12, <2>13 DEF Good
<1>6. QED BY <1>4, <1>5

-----------------------------------------------------------------------------

\* The next index of a queue.
LEMMA Remainder ==
  ASSUME NEW a \in Int, NEW n \in Nat, n # 0
  PROVE  a % n \in Int /\ (a % n) + 1 \in 1 .. n
OBVIOUS

\* The switch to v, with what was put off for it.
LEMMA ScheduleToKeeps ==
  ASSUME NEW S, NEW H, Good(S, H), NEW v \in Vcpus,
         \E k \in 1 .. Len(S.queue[v.hart]) : S.queue[v.hart][k] = v,
         NEW R, R = schedule_to(S, v.hart, v)
  PROVE  Good(R, H) /\ R.queue = S.queue /\ Later(S, R, Harts)
<1>1. S \in HartStates /\ Placed(S) /\ ListsOwn(S)  BY DEF Good
<1>2. PICK h : h = v.hart  OBVIOUS
<1>3. h \in Harts  BY <1>2 DEF Harts
<1>4. PICK p : p = S.active[h]  OBVIOUS
<1>5. p = None \/ (p \in Vcpus /\ p.hart = h)
  <2>1. p \in Vcpus \cup {None}  BY <1>1, <1>3, <1>4 DEF HartStates
  <2>2. QED BY <1>1, <1>3, <1>4, <2>1 DEF Placed
<1>6. PICK S1 : S1 = IF p = None THEN S
                     ELSE [S EXCEPT !.state[p] = "Ready", !.saved[p] = S.hvip[h]]
  OBVIOUS
<1>7. PICK V : V = IF p = None THEN S.saved ELSE [S.saved EXCEPT ![p] = S.hvip[h]]  OBVIOUS
<1>8. PICK X : X = IF p = None THEN S.state ELSE [S.state EXCEPT ![p] = "Ready"]  OBVIOUS
<1>9. V \in [Vcpus -> SUBSET AllLines]  BY <1>1, <1>3, <1>5, <1>7 DEF HartStates
<1>10. X \in [Vcpus -> {"Running", "Ready", "Sleep", "Invalid"}]
  BY <1>1, <1>5, <1>8 DEF HartStates
<1>11. S1 = [S EXCEPT !.state = X, !.saved = V]
  <2>1. CASE p = None  BY <1>1, <1>6, <1>7, <1>8, <2>1 DEF HartStates
  <2>2. CASE p # None  BY <1>6, <1>7, <1>8, <2>2
  <2>3. QED BY <2>1, <2>2
<1>12. PICK Y : Y = [X EXCEPT ![v] = "Running"]  OBVIOUS
<1>13. PICK A : A = [S.active EXCEPT ![h] = v]  OBVIOUS
<1>14. PICK W : W = [S.hvip EXCEPT ![h] = V[v]]  OBVIOUS
<1>15. PICK L : L = [S.list EXCEPT ![v] = {}]  OBVIOUS
<1>16. /\ Y \in [Vcpus -> {"Running", "Ready", "Sleep", "Invalid"}]
       /\ A \in [Harts -> Vcpus \cup {None}]
       /\ W \in [Harts -> SUBSET AllLines]
       /\ L \in [Vcpus -> SUBSET Ints]
  BY <1>1, <1>3, <1>9, <1>10, <1>12, <1>13, <1>14, <1>15 DEF HartStates
<1>17. PICK S2 : S2 = [S1 EXCEPT !.active[h] = v, !.state[v] = "Running"]  OBVIOUS
<1>18. S1.active = S.active /\ S1.state = X /\ S1.hvip = S.hvip /\ S1.list = S.list /\ S1.saved = V
  BY <1>1, <1>11 DEF HartStates
<1>19. S2 = [S EXCEPT !.saved = V, !.active = A, !.state = Y]
  <2>1. S2 = [S1 EXCEPT !.active = A, !.state = Y]  BY <1>12, <1>13, <1>17, <1>18
  <2>2. QED BY <1>1, <1>11, <2>1 DEF HartStates
<1>20. S2.saved = V /\ S2.hvip = S.hvip /\ S2.list = S.list  BY <1>1, <1>19 DEF HartStates
<1>21. PICK S3 : S3 = [S2 EXCEPT !.hvip[h] = S2.saved[v]]  OBVIOUS
<1>22. S3 = [S2 EXCEPT !.hvip = W]  BY <1>14, <1>20, <1>21
<1>23. S3 = [S EXCEPT !.saved = V, !.active = A, !.state = Y, !.hvip = W]
  BY <1>1, <1>19, <1>22 DEF HartStates
<1>24. S3.list = S.list  BY <1>1, <1>23 DEF HartStates
<1>25. PICK T : T = [S3 EXCEPT !.list[v] = {}]  OBVIOUS
<1>26. T = [S3 EXCEPT !.list = L]  BY <1>15, <1>24, <1>25
<1>27. T = [S EXCEPT !.saved = V, !.active = A, !.state = Y, !.hvip = W, !.list = L]
  BY <1>1, <1>23, <1>26 DEF HartStates
<1>28. T \in HartStates  BY <1>1, <1>9, <1>16, <1>27 DEF HartStates
<1>29. /\ T.saved = V /\ T.active = A /\ T.hvip = W /\ T.list = L /\ T.queue = S.queue
       /\ T.timer = S.timer /\ T.stie = S.stie /\ T.claims = S.claims /\ T.cnt = S.cnt
       /\ T.prio = S.prio /\ T.enabled = S.enabled /\ T.thr = S.thr
  BY <1>1, <1>27 DEF HartStates
<1>30. R = vm_inject(T, h, v, S.list[v])
  <2>1. R = inject_int_inlist(S3, h, v)
    BY <1>2, <1>4, <1>6, <1>17, <1>21 DEF schedule_to
  <2>2. QED BY <1>24, <1>25, <2>1 DEF inject_int_inlist
<1>31. /\ A[h] = v /\ \A g \in Harts \ {h} : A[g] = S.active[g]
       /\ W[h] = V[v] /\ \A g \in Harts \ {h} : W[g] = S.hvip[g]
       /\ \A u \in Vcpus : L[u] = IF u = v THEN {} ELSE S.list[u]
       /\ \A u \in Vcpus : V[u] = IF u = p THEN S.hvip[h] ELSE S.saved[u]
  <2>1. A[h] = v /\ \A g \in Harts \ {h} : A[g] = S.active[g]
    BY <1>1, <1>3, <1>13 DEF HartStates
  <2>2. W[h] = V[v] /\ \A g \in Harts \ {h} : W[g] = S.hvip[g]
    BY <1>1, <1>3, <1>14 DEF HartStates
  <2>3. \A u \in Vcpus : L[u] = IF u = v THEN {} ELSE S.list[u]
    BY <1>1, <1>15 DEF HartStates
  <2>4. \A u \in Vcpus : V[u] = IF u = p THEN S.hvip[h] ELSE S.saved[u]
    BY <1>1, <1>7, Distinct DEF HartStates
  <2>5. QED BY <2>1, <2>2, <2>3, <2>4
<1>32. \A u \in Vcpus : Sig(T, u) = Sig(S, u)
  <2>1. SUFFICES ASSUME NEW u \in Vcpus PROVE Sig(T, u) = Sig(S, u)  OBVIOUS
  <2>2. u.hart \in Harts  BY DEF Harts
  <2>3. CASE u.hart # h
    <3>1. u # p  BY <1>5, <2>3, Distinct
    <3>2. QED BY <1>29, <1>31, <2>2, <2>3, <3>1 DEF Sig
  <2>4. CASE u = v  BY <1>2, <1>4, <1>29, <1>31, <2>4 DEF Sig
  <2>5. CASE u # v /\ u.hart = h  BY <1>4, <1>29, <1>31, <2>5 DEF Sig
  <2>6. QED BY <2>3, <2>4, <2>5
<1>33. Placed(T)
  <2>1. \A g \in Harts \ {h} : T.active[g] = S.active[g]  BY <1>29, <1>31
  <2>2. T.active[h] = v /\ T.queue = S.queue  BY <1>29, <1>31
  <2>3. QED BY <1>1, <1>2, <2>1, <2>2 DEF Placed
<1>34. ListsOwn(T)
  <2>1. SUFFICES ASSUME NEW u \in Vcpus, u # v
                 PROVE  T.active[u.hart] = u => S.list[u] = {}
    BY <1>1, <1>29, <1>31 DEF ListsOwn
  <2>2. u.hart \in Harts  BY DEF Harts
  <2>3. QED BY <1>1, <1>29, <1>31, <2>1, <2>2 DEF ListsOwn
<1>35. EnabledOwn(T) /\ TimersOf(T)  BY <1>29 DEF Good, EnabledOwn, TimersOf
<1>36. Own(T)  BY <1>29, <1>32 DEF Good, Own
<1>37. \A i \in Irqs : Visible(T, i) = Visible(S, i)  BY <1>29 DEF Visible, Takable
<1>38. Kept(T, H)  BY <1>29, <1>32, <1>37, TargetIs DEF Good, Kept
<1>39. Good(T, H)  BY <1>28, <1>33, <1>34, <1>35, <1>36, <1>38 DEF Good
<1>40. S.list[v] \subseteq Ints  BY <1>1 DEF HartStates
<1>41. Timer \notin S.list[v]  BY <1>40, Distinct DEF Ints
<1>42. Fit(T, v, S.list[v])  BY <1>1, <1>41 DEF ListsOwn, Fit
<1>43. Good(R, H) /\ R.queue = T.queue /\ Later(T, R, Harts)
  <2>1. PICK ints : ints = S.list[v]  OBVIOUS
  <2>2. R = vm_inject(T, v.hart, v, ints)  BY <1>2, <1>30, <2>1
  <2>3. ints \subseteq Ints /\ Fit(T, v, ints)  BY <1>40, <1>42, <2>1
  <2>4. QED BY <1>39, <2>2, <2>3, VmInjectKeeps
<1>44. Later(S, R, Harts)  BY <1>29, <1>32, <1>43 DEF Later
<1>45. QED BY <1>29, <1>43, <1>44

\* S and R differ in the queues, what is said of vCPUs and the tick at most.
Apart(S, R) ==
    /\ R.active = S.active /\ R.hvip = S.hvip /\ R.saved = S.saved
    /\ R.timer = S.timer /\ R.list = S.list /\ R.claims = S.claims
    /\ R.cnt = S.cnt /\ R.prio = S.prio /\ R.enabled = S.enabled /\ R.thr = S.thr

LEMMA ApartKeeps ==
  ASSUME NEW S, NEW H, Good(S, H), NEW R \in HartStates, Apart(S, R), Placed(R)
  PROVE  Good(R, H) /\ \A u \in Vcpus : Sig(R, u) = Sig(S, u)
<1>2. R \in HartStates  OBVIOUS
<1>3. /\ R.active = S.active /\ R.hvip = S.hvip /\ R.saved = S.saved
      /\ R.timer = S.timer /\ R.list = S.list /\ R.claims = S.claims
      /\ R.cnt = S.cnt /\ R.prio = S.prio /\ R.enabled = S.enabled /\ R.thr = S.thr
  BY DEF Apart
<1>4. \A u \in Vcpus : Sig(R, u) = Sig(S, u)  BY <1>3 DEF Sig
<1>5. ListsOwn(R) /\ EnabledOwn(R) /\ TimersOf(R)
  BY <1>3 DEF Good, ListsOwn, EnabledOwn, TimersOf
<1>6. Own(R)  BY <1>3, <1>4 DEF Good, Own
<1>7. \A i \in Irqs : Visible(R, i) = Visible(S, i)  BY <1>3 DEF Visible, Takable
<1>8. Kept(R, H)  BY <1>3, <1>4, <1>7, TargetIs DEF Good, Kept
<1>9. QED BY <1>2, <1>3, <1>4, <1>5, <1>6, <1>8 DEF Good

\* The scheduler picks the next vCPU of the queue.
LEMMA DoScheduleKeeps ==
  ASSUME NEW S, NEW H, Good(S, H), NEW h \in Harts, NEW R, R = do_schedule(S, h)
  PROVE  Good(R, H) /\ R.queue = S.queue /\ Later(S, R, Harts)
<1>1. S \in HartStates /\ Placed(S)  BY DEF Good
<1>2. PICK n : n = Len(S.queue[h])  OBVIOUS
<1>3. S.queue[h] \in Seq(Vcpus) /\ n \in Nat /\ S.idx[h] + 1 \in Int
  <2>1. S.queue[h] \in Seq(Vcpus) /\ S.idx[h] \in Int  BY <1>1 DEF HartStates
  <2>2. QED BY <1>2, <2>1, LenProperties
<1>4. CASE n = 0
  <2>1. R = S  BY <1>2, <1>4 DEF do_schedule
  <2>2. QED BY <2>1 DEF Later
<1>5. CASE n # 0
  <2>1. PICK at : at = (S.idx[h] + 1) % n  OBVIOUS
  <2>2. at \in Int /\ at + 1 \in 1 .. n  BY <1>3, <1>5, <2>1, Remainder
  <2>3. PICK v : v = S.queue[h][at + 1]  OBVIOUS
  <2>4. v \in Vcpus /\ v.hart = h
    <3>1. v \in Vcpus  BY <1>2, <1>3, <2>2, <2>3, ElementOfSeq
    <3>2. at + 1 \in 1 .. Len(S.queue[h])  BY <1>2, <2>2
    <3>3. S.queue[h][at + 1].hart = h  BY <1>1, <3>2 DEF Placed
    <3>4. QED BY <2>3, <3>1, <3>3
  <2>5. PICK T : T = [S EXCEPT !.idx[h] = at]  OBVIOUS
  <2>6. PICK I : I = [S.idx EXCEPT ![h] = at]  OBVIOUS
  <2>7. I \in [Harts -> Int]  BY <1>1, <2>2, <2>6 DEF HartStates
  <2>8. T \in HartStates /\ Apart(S, T) /\ T.stie = S.stie /\ T.queue = S.queue
    <3>1. T = [S EXCEPT !.idx = I]  BY <2>5, <2>6
    <3>2. QED BY <1>1, <2>7, <3>1 DEF HartStates, Apart
  <2>9. /\ Good(T, H) /\ T.queue = S.queue /\ T.timer = S.timer /\ T.stie = S.stie
        /\ \A u \in Vcpus : Sig(T, u) = Sig(S, u)
    <3>1. Placed(T)  BY <1>1, <2>8 DEF Apart, Placed
    <3>2. Good(T, H) /\ \A u \in Vcpus : Sig(T, u) = Sig(S, u)  BY <2>8, <3>1, ApartKeeps
    <3>3. QED BY <2>8, <3>2 DEF Apart
  <2>10. R = schedule_to(T, h, v)  BY <1>2, <1>5, <2>1, <2>3, <2>5 DEF do_schedule
  <2>11. \E k \in 1 .. Len(T.queue[v.hart]) : T.queue[v.hart][k] = v
    BY <1>2, <2>2, <2>3, <2>4, <2>9
  <2>12. Good(R, H) /\ R.queue = T.queue /\ Later(T, R, Harts)
    BY <2>4, <2>9, <2>10, <2>11, ScheduleToKeeps
  <2>13. QED BY <2>9, <2>12 DEF Later
<1>6. QED BY <1>4, <1>5

\* A vCPU is queued, and the tick goes on if it is not the only one.
LEMMA WakeupKeeps ==
  ASSUME NEW S, NEW H, Good(S, H), Ticking(S, Harts), NEW v \in Vcpus,
         NEW R, R = wakeup(S, v.hart, v)
  PROVE  Good(R, H) /\ Ticking(R, Harts)
<1>1. S \in HartStates /\ Placed(S)  BY DEF Good
<1>2. PICK h : h = v.hart  OBVIOUS
<1>3. h \in Harts  BY <1>2 DEF Harts
<1>4. PICK q : q = S.queue[h]  OBVIOUS
<1>5. q \in Seq(Vcpus)  BY <1>1, <1>3, <1>4 DEF HartStates
<1>6. PICK p : p = Append(q, v)  OBVIOUS
<1>7. /\ p \in Seq(Vcpus) /\ Len(q) \in Nat /\ Len(p) = Len(q) + 1 /\ p[Len(q) + 1] = v
      /\ \A k \in 1 .. Len(q) : p[k] = q[k]
  BY <1>5, <1>6, AppendProperties, LenProperties
<1>8. PICK X : X = [S.state EXCEPT ![v] = "Ready"]  OBVIOUS
<1>9. PICK Q : Q = [S.queue EXCEPT ![h] = p]  OBVIOUS
<1>10. PICK W : W = IF Len(p) > 1 THEN [S.stie EXCEPT ![h] = TRUE] ELSE S.stie  OBVIOUS
<1>11. /\ X \in [Vcpus -> {"Running", "Ready", "Sleep", "Invalid"}]
       /\ Q \in [Harts -> Seq(Vcpus)] /\ W \in [Harts -> BOOLEAN]
  BY <1>1, <1>7, <1>8, <1>9, <1>10 DEF HartStates
<1>12. /\ Q[h] = p /\ \A g \in Harts \ {h} : Q[g] = S.queue[g]
       /\ \A g \in Harts : S.stie[g] => W[g]
       /\ Len(p) > 1 => W[h]
  BY <1>1, <1>3, <1>9, <1>10 DEF HartStates
<1>13. PICK S1 : S1 = [S EXCEPT !.state[v] = "Ready", !.queue[h] = Append(@, v)]  OBVIOUS
<1>14. S1 = [S EXCEPT !.state = X, !.queue = Q]  BY <1>4, <1>6, <1>8, <1>9, <1>13
<1>15. S1.queue = Q /\ S1.stie = S.stie  BY <1>1, <1>14 DEF HartStates
<1>16. PICK T : T = IF Len(p) > 1 THEN [S1 EXCEPT !.stie[h] = TRUE] ELSE S1  OBVIOUS
<1>17. T = [S EXCEPT !.state = X, !.queue = Q, !.stie = W]
  <2>1. T = [S1 EXCEPT !.stie = W]
    <3>1. CASE Len(p) > 1  BY <1>10, <1>15, <1>16, <3>1
    <3>2. CASE ~(Len(p) > 1)  BY <1>1, <1>10, <1>14, <1>15, <1>16, <3>2 DEF HartStates
    <3>3. QED BY <3>1, <3>2
  <2>2. QED BY <1>1, <1>14, <2>1 DEF HartStates
<1>18. /\ T \in HartStates /\ Apart(S, T) /\ T.queue = Q /\ T.stie = W
  BY <1>1, <1>11, <1>17 DEF HartStates, Apart
<1>19. T.active = S.active /\ T.timer = S.timer  BY <1>18 DEF Apart
<1>20. Placed(T)
  <2>1. SUFFICES ASSUME NEW g \in Harts
        PROVE  /\ \A k \in 1 .. Len(T.queue[g]) : T.queue[g][k].hart = g
               /\ T.active[g] # None =>
                     \E k \in 1 .. Len(T.queue[g]) : T.queue[g][k] = T.active[g]
    BY DEF Placed
  <2>2. CASE g # h  BY <1>1, <1>12, <1>18, <1>19, <2>2 DEF Placed
  <2>3. CASE g = h
    <3>1. \A k \in 1 .. Len(q) : q[k].hart = h  BY <1>1, <1>3, <1>4 DEF Placed
    <3>2. \A k \in 1 .. Len(p) : p[k].hart = h  BY <1>2, <1>7, <3>1
    <3>3. S.active[h] # None => \E k \in 1 .. Len(q) : q[k] = S.active[h]
      BY <1>1, <1>3, <1>4 DEF Placed
    <3>4. S.active[h] # None => \E k \in 1 .. Len(p) : p[k] = S.active[h]
      BY <1>7, <3>3
    <3>5. QED BY <1>12, <1>18, <1>19, <2>3, <3>2, <3>4
  <2>4. QED BY <2>2, <2>3
<1>21. Good(T, H) /\ \A u \in Vcpus : Sig(T, u) = Sig(S, u)  BY <1>18, <1>20, ApartKeeps
<1>22. Ticking(T, Harts)  BY <1>12, <1>18, <1>19, <1>21 DEF Ticking, Harts
<1>23. R = IF Len(p) = 1 THEN do_schedule(T, h) ELSE T
  <2>1. R = wakeup(S, h, v)  BY <1>2
  <2>2. Len(S1.queue[h]) = Len(p)  BY <1>12, <1>15
  <2>3. QED BY <1>13, <1>16, <2>1, <2>2 DEF wakeup
<1>24. CASE Len(p) = 1
  <2>1. Good(R, H) /\ R.queue = T.queue /\ Later(T, R, Harts)
    BY <1>3, <1>21, <1>23, <1>24, DoScheduleKeeps
  <2>2. QED BY <1>22, <2>1, LaterTicks
<1>25. CASE Len(p) # 1  BY <1>21, <1>22, <1>23, <1>25
<1>26. QED BY <1>24, <1>25

\* Removing an entry of a sequence.
LEMMA RemoveAtIs ==
  ASSUME NEW q \in Seq(Vcpus), NEW at \in 1 .. Len(q), NEW p, p = RemoveAt(q, at)
  PROVE  /\ p \in Seq(Vcpus) /\ Len(p) = Len(q) - 1
         /\ \A k \in 1 .. Len(p) : \E j \in 1 .. Len(q) : p[k] = q[j]
<1>1. Len(q) \in Nat /\ at \in Nat  BY LenProperties
<1>2. PICK a : a = SubSeq(q, 1, at - 1)  OBVIOUS
<1>3. PICK b : b = SubSeq(q, at + 1, Len(q))  OBVIOUS
<1>4. a \in Seq(Vcpus) /\ Len(a) = at - 1 /\ \A k \in 1 .. Len(a) : a[k] = q[k]
  BY <1>1, <1>2, SubSeqProperties
<1>5. b \in Seq(Vcpus) /\ Len(b) = Len(q) - at /\ \A k \in 1 .. Len(b) : b[k] = q[k + at]
  BY <1>1, <1>3, SubSeqProperties
<1>6. p = a \o b  BY <1>2, <1>3 DEF RemoveAt
<1>7. /\ p \in Seq(Vcpus) /\ Len(p) = Len(a) + Len(b)
      /\ \A k \in 1 .. Len(a) + Len(b) : p[k] = IF k <= Len(a) THEN a[k] ELSE b[k - Len(a)]
  <2>1. p \in Seq(Vcpus) /\ Len(p) = Len(a) + Len(b)  BY <1>4, <1>5, <1>6, ConcatProperties
  <2>2. \A k \in 1 .. Len(a) + Len(b) : p[k] = IF k <= Len(a) THEN a[k] ELSE b[k - Len(a)]
    BY <1>4, <1>5, <1>6, ConcatProperties
  <2>3. QED BY <2>1, <2>2
<1>8. ASSUME NEW k \in 1 .. Len(p) PROVE \E j \in 1 .. Len(q) : p[k] = q[j]
  <2>1. CASE k <= Len(a)
    <3>1. k \in 1 .. Len(a) /\ k \in 1 .. Len(q) /\ k \in 1 .. Len(a) + Len(b)
      BY <1>1, <1>4, <1>5, <1>7, <2>1
    <3>2. p[k] = q[k]  BY <1>4, <1>7, <2>1, <3>1
    <3>3. QED BY <3>1, <3>2
  <2>2. CASE ~(k <= Len(a))
    <3>1. k - Len(a) \in 1 .. Len(b)  BY <1>1, <1>4, <1>5, <1>7, <2>2
    <3>2. p[k] = q[(k - Len(a)) + at]  BY <1>5, <1>7, <2>2, <3>1
    <3>3. (k - Len(a)) + at \in 1 .. Len(q)  BY <1>1, <1>4, <1>5, <3>1
    <3>4. QED BY <3>2, <3>3
  <2>3. QED BY <2>1, <2>2
<1>9. QED BY <1>1, <1>4, <1>5, <1>7, <1>8

\* The vCPU that sleeps alone needed the tick of its hart.
LEMMA SleepKeeps ==
  ASSUME NEW S, NEW H, Good(S, H), Ticking(S, Harts), NEW v \in Vcpus, v \in Stoppable,
         S.active[v.hart] = v, NEW R, R = sleep(S, v.hart, v)
  PROVE  Good(R, H) /\ Ticking(R, Harts)
<1>1. S \in HartStates /\ Placed(S) /\ ListsOwn(S)  BY DEF Good
<1>2. PICK h : h = v.hart  OBVIOUS
<1>3. h \in Harts  BY <1>2 DEF Harts
<1>4. PICK q : q = S.queue[h]  OBVIOUS
<1>5. q \in Seq(Vcpus)  BY <1>1, <1>3, <1>4 DEF HartStates
<1>6. DOMAIN q = 1 .. Len(q)  BY <1>5, LenProperties
<1>7. PICK at : at = CHOOSE k \in DOMAIN q : q[k] = v  OBVIOUS
<1>8. at \in 1 .. Len(q)
  <2>1. \E k \in 1 .. Len(q) : q[k] = v  BY <1>1, <1>2, <1>3, <1>4, Distinct DEF Placed
  <2>2. QED BY <1>6, <1>7, <2>1
<1>9. PICK p : p = RemoveAt(q, at)  OBVIOUS
<1>10. /\ p \in Seq(Vcpus) /\ Len(p) = Len(q) - 1
       /\ \A k \in 1 .. Len(p) : \E j \in 1 .. Len(q) : p[k] = q[j]
  BY <1>5, <1>8, <1>9, RemoveAtIs
<1>11. Len(q) \in Nat  BY <1>5, LenProperties
<1>12. PICK Q : Q = [S.queue EXCEPT ![h] = p]  OBVIOUS
<1>13. PICK A : A = [S.active EXCEPT ![h] = None]  OBVIOUS
<1>14. PICK X : X = [S.state EXCEPT ![v] = "Sleep"]  OBVIOUS
<1>15. PICK W : W = IF Len(p) <= 1 THEN [S.stie EXCEPT ![h] = FALSE] ELSE S.stie  OBVIOUS
<1>16. /\ X \in [Vcpus -> {"Running", "Ready", "Sleep", "Invalid"}]
       /\ A \in [Harts -> Vcpus \cup {None}]
       /\ Q \in [Harts -> Seq(Vcpus)] /\ W \in [Harts -> BOOLEAN]
  BY <1>1, <1>3, <1>10, <1>12, <1>13, <1>14, <1>15 DEF HartStates
<1>17. /\ Q[h] = p /\ \A g \in Harts \ {h} : Q[g] = S.queue[g]
       /\ A[h] = None /\ \A g \in Harts \ {h} : A[g] = S.active[g]
       /\ \A g \in Harts \ {h} : W[g] = S.stie[g]
       /\ Len(p) > 1 => W[h] = S.stie[h]
  <2>1. Q[h] = p /\ \A g \in Harts \ {h} : Q[g] = S.queue[g]
    BY <1>1, <1>3, <1>12 DEF HartStates
  <2>2. A[h] = None /\ \A g \in Harts \ {h} : A[g] = S.active[g]
    BY <1>1, <1>3, <1>13 DEF HartStates
  <2>3. \A g \in Harts \ {h} : W[g] = S.stie[g]  BY <1>1, <1>3, <1>15 DEF HartStates
  <2>4. Len(p) > 1 => W[h] = S.stie[h]
    <3>1. Len(p) \in Int  BY <1>10, <1>11
    <3>2. Len(p) > 1 => ~(Len(p) <= 1)  BY <3>1
    <3>3. QED BY <1>15, <3>2
  <2>5. QED BY <2>1, <2>2, <2>3, <2>4
<1>18. PICK S1 : S1 = [S EXCEPT !.queue[h] = RemoveAt(@, at), !.active[h] = None,
                                !.state[v] = "Sleep"]
  OBVIOUS
<1>19. S1 = [S EXCEPT !.queue = Q, !.active = A, !.state = X]
  BY <1>4, <1>9, <1>12, <1>13, <1>14, <1>18
<1>20. S1.queue = Q /\ S1.stie = S.stie  BY <1>1, <1>19 DEF HartStates
<1>21. PICK T : T = IF Len(p) <= 1 THEN [S1 EXCEPT !.stie[h] = FALSE] ELSE S1  OBVIOUS
<1>22. T = [S EXCEPT !.queue = Q, !.active = A, !.state = X, !.stie = W]
  <2>1. T = [S1 EXCEPT !.stie = W]
    <3>1. CASE Len(p) <= 1  BY <1>15, <1>20, <1>21, <3>1
    <3>2. CASE ~(Len(p) <= 1)  BY <1>1, <1>15, <1>19, <1>20, <1>21, <3>2 DEF HartStates
    <3>3. QED BY <3>1, <3>2
  <2>2. QED BY <1>1, <1>19, <2>1 DEF HartStates
<1>23. T \in HartStates  BY <1>1, <1>16, <1>22 DEF HartStates
<1>24. /\ T.active = A /\ T.queue = Q /\ T.stie = W /\ T.hvip = S.hvip /\ T.saved = S.saved
       /\ T.timer = S.timer /\ T.list = S.list /\ T.claims = S.claims /\ T.cnt = S.cnt
       /\ T.prio = S.prio /\ T.enabled = S.enabled /\ T.thr = S.thr
  BY <1>1, <1>22 DEF HartStates
<1>25. \A u \in Vcpus : u # v => Sig(T, u) = Sig(S, u)
  <2>1. SUFFICES ASSUME NEW u \in Vcpus, u # v PROVE Sig(T, u) = Sig(S, u)  OBVIOUS
  <2>2. u.hart \in Harts  BY DEF Harts
  <2>3. CASE u.hart = h  BY <1>2, <1>17, <1>24, <2>1, <2>3, Distinct DEF Sig
  <2>4. CASE u.hart # h  BY <1>17, <1>24, <2>2, <2>4 DEF Sig
  <2>5. QED BY <2>3, <2>4
<1>26. Placed(T)
  <2>1. SUFFICES ASSUME NEW g \in Harts
        PROVE  /\ \A k \in 1 .. Len(T.queue[g]) : T.queue[g][k].hart = g
               /\ T.active[g] # None =>
                     \E k \in 1 .. Len(T.queue[g]) : T.queue[g][k] = T.active[g]
    BY DEF Placed
  <2>2. CASE g # h  BY <1>1, <1>17, <1>24, <2>2 DEF Placed
  <2>3. CASE g = h
    <3>1. \A k \in 1 .. Len(q) : q[k].hart = h  BY <1>1, <1>3, <1>4 DEF Placed
    <3>2. \A k \in 1 .. Len(p) : p[k].hart = h  BY <1>10, <3>1
    <3>3. QED BY <1>17, <1>24, <2>3, <3>2
  <2>4. QED BY <2>2, <2>3
<1>27. ListsOwn(T)
  <2>1. SUFFICES ASSUME NEW u \in Vcpus PROVE T.active[u.hart] = u => S.list[u] = {}
    BY <1>1, <1>24 DEF ListsOwn
  <2>2. u.hart \in Harts  BY DEF Harts
  <2>3. T.active[u.hart] = u => u.hart # h  BY <1>17, <1>24, Distinct
  <2>4. QED BY <1>1, <1>17, <1>24, <2>2, <2>3 DEF ListsOwn
<1>28. EnabledOwn(T) /\ TimersOf(T)  BY <1>24 DEF Good, EnabledOwn, TimersOf
<1>29. \A u \in Vcpus \ Stoppable : Sig(T, u) = Sig(S, u)  BY <1>25
<1>30. Own(T)  BY <1>24, <1>29 DEF Good, Own
<1>31. \A i \in Irqs : Visible(T, i) = Visible(S, i)  BY <1>24 DEF Visible, Takable
<1>32. Kept(T, H)  BY <1>24, <1>29, <1>31, TargetIs DEF Good, Kept
<1>33. Good(T, H)  BY <1>23, <1>26, <1>27, <1>28, <1>30, <1>32 DEF Good
<1>34. Ticking(T, Harts)
  <2>1. ASSUME NEW u \in Vcpus \ Stoppable, T.timer[u] # "idle", "timer" \notin Sig(T, u)
        PROVE  T.stie[u.hart]
    <3>1. u \in Timed  BY <1>24, <2>1 DEF Good, TimersOf
    <3>2. u.hart # h  BY <1>2, <3>1, RiscvAssumption
    <3>3. u.hart \in Harts  BY DEF Harts
    <3>4. S.stie[u.hart]  BY <1>24, <1>29, <2>1, <3>3 DEF Ticking
    <3>5. QED BY <1>17, <1>24, <3>2, <3>3, <3>4
  <2>2. ASSUME NEW g \in Harts, Len(T.queue[g]) > 1 PROVE T.stie[g]
    <3>1. CASE g # h  BY <1>17, <1>24, <2>2, <3>1 DEF Ticking
    <3>2. CASE g = h
      <4>1. Len(p) > 1 /\ Len(q) > 1  BY <1>10, <1>11, <1>17, <1>24, <2>2, <3>2
      <4>2. QED BY <1>4, <1>17, <1>24, <3>2, <4>1 DEF Ticking
    <3>3. QED BY <3>1, <3>2
  <2>3. QED BY <2>1, <2>2 DEF Ticking
<1>35. R = do_schedule(T, h)
  <2>1. R = sleep(S, h, v)  BY <1>2
  <2>2. Len(S1.queue[h]) = Len(p)  BY <1>17, <1>20
  <2>3. QED BY <1>4, <1>7, <1>18, <1>21, <2>1, <2>2 DEF sleep
<1>36. Good(R, H) /\ R.queue = T.queue /\ Later(T, R, Harts)
  BY <1>3, <1>33, <1>35, DoScheduleKeeps
<1>37. QED BY <1>34, <1>36, LaterTicks

\* Injection that wakes the vCPU first.
LEMMA InterruptVmInjectKeeps ==
  ASSUME NEW S, NEW H, Good(S, H), Ticking(S, Harts), NEW v \in Vcpus, NEW int \in Ints,
         int = IPI => HasPeer(v), int \in Irqs => Target(int) = v,
         NEW R, R = interrupt_vm_inject(S, v.hart, v, int)
  PROVE  Good(R, H) /\ Ticking(R, Harts)
<1>1. PICK T : T = IF S.state[v] = "Sleep" THEN wakeup(S, v.hart, v) ELSE S  OBVIOUS
<1>2. Good(T, H) /\ Ticking(T, Harts)  BY <1>1, WakeupKeeps
<1>3. PICK ints : ints = {int}  OBVIOUS
<1>4. ints \subseteq Ints /\ Timer \notin ints  BY <1>3, Distinct DEF Ints
<1>5. Fit(T, v, ints)  BY <1>3, <1>4 DEF Fit
<1>6. R = vm_inject(T, v.hart, v, ints)  BY <1>1, <1>3 DEF interrupt_vm_inject
<1>7. Good(R, H) /\ R.queue = T.queue /\ Later(T, R, Harts)
  BY <1>2, <1>4, <1>5, <1>6, VmInjectKeeps
<1>8. QED BY <1>2, <1>7, LaterTicks

\* A physical interrupt, on the hart of its target.
LEMMA InterruptHandlerKeeps ==
  ASSUME NEW S, NEW H, Good(S, H), Ticking(S, Harts), NEW i \in Irqs,
         NEW R, R = interrupt_handler(S, Target(i).hart, i)
  PROVE  Good(R, H) /\ Ticking(R, Harts)
<1>1. PICK v : v = Target(i)  OBVIOUS
<1>2. v \in Vcpus /\ v.vm = i.vm /\ OnHart(v.hart, i.vm) = v /\ v.hart \in Harts
  BY <1>1, TargetIs, OnHartIs DEF Harts
<1>3. i \in Ints /\ i # IPI  BY Distinct DEF Ints
<1>4. R = S \/ R = interrupt_vm_inject(S, v.hart, v, i)
  <2>1. CASE i.n \in Banked /\ S.active[v.hart] # None
    <3>1. CASE S.active[v.hart].vm = i.vm
      <4>1. S.active[v.hart] \in Vcpus  BY <1>2, <2>1 DEF Good, HartStates
      <4>2. S.active[v.hart].hart = v.hart
        BY <1>2, <2>1 DEF Good, Placed
      <4>3. S.active[v.hart] = v  BY <1>2, <3>1, <4>1, <4>2, RiscvAssumption
      <4>4. QED BY <1>1, <2>1, <3>1, <4>3 DEF interrupt_handler
    <3>2. CASE S.active[v.hart].vm # i.vm  BY <1>1, <2>1, <3>2 DEF interrupt_handler
    <3>3. QED BY <3>1, <3>2
  <2>2. CASE ~(i.n \in Banked /\ S.active[v.hart] # None)
    BY <1>1, <1>2, <2>2 DEF interrupt_handler
  <2>3. QED BY <2>1, <2>2
<1>5. CASE R = S  BY <1>5
<1>6. CASE R = interrupt_vm_inject(S, v.hart, v, i)
  BY <1>1, <1>2, <1>3, <1>6, InterruptVmInjectKeeps
<1>7. QED BY <1>4, <1>5, <1>6

\* The tick goes off and on again; other harts keep theirs meanwhile.
LEMMA TimerHandlerKeeps ==
  ASSUME NEW S, NEW H, Good(S, H), Ticking(S, Harts), NEW h \in Harts,
         NEW R, R = timer_irq_handler(S, h)
  PROVE  Good(R, H) /\ Ticking(R, Harts)
<1>1. PICK T : T = [S EXCEPT !.stie[h] = FALSE]  OBVIOUS
<1>2. PICK S1 : S1 = do_schedule(T, h)  OBVIOUS
<1>3. PICK v : v = S1.active[h]  OBVIOUS
<1>4. PICK S2 : S2 = IF v # None /\ S1.timer[v] = "expired"
                     THEN vm_inject(S1, h, v, {Timer}) ELSE S1
  OBVIOUS
<1>5. R = [S2 EXCEPT !.stie[h] = TRUE]
  BY <1>1, <1>2, <1>3, <1>4 DEF timer_irq_handler
<1>6. S \in HartStates /\ Placed(S)  BY DEF Good
<1>7. PICK W : W = [S.stie EXCEPT ![h] = FALSE]  OBVIOUS
<1>8. W \in [Harts -> BOOLEAN] /\ \A g \in Harts \ {h} : W[g] = S.stie[g]
  BY <1>6, <1>7 DEF HartStates
<1>9. T = [S EXCEPT !.stie = W]  BY <1>1, <1>7
<1>10. T \in HartStates /\ Apart(S, T) /\ T.queue = S.queue /\ T.stie = W
  BY <1>6, <1>8, <1>9 DEF HartStates, Apart
<1>11. Good(T, H) /\ \A u \in Vcpus : Sig(T, u) = Sig(S, u)
  <2>1. Placed(T)  BY <1>6, <1>10 DEF Apart, Placed
  <2>2. QED BY <1>10, <2>1, ApartKeeps
<1>12. PICK D : D = Harts \ {h}  OBVIOUS
<1>13. Ticking(T, D)
  <2>1. T.timer = S.timer  BY <1>10 DEF Apart
  <2>2. QED BY <1>8, <1>10, <1>11, <1>12, <2>1 DEF Ticking
<1>14. Good(S1, H) /\ S1.queue = T.queue /\ Later(T, S1, Harts)
  BY <1>2, <1>11, DoScheduleKeeps
<1>15. Later(T, S1, D)  BY <1>12, <1>14 DEF Later
<1>16. Ticking(S1, D)  BY <1>13, <1>14, <1>15, LaterTicks
<1>17. Good(S2, H) /\ Ticking(S2, D)
  <2>1. CASE v # None /\ S1.timer[v] = "expired"
    <3>1. PICK ints : ints = {Timer}  OBVIOUS
    <3>2. S2 = inject_intr(S1, h, ints)
      BY <1>3, <1>4, <2>1, <3>1 DEF vm_inject
    <3>3. Timer \in ints /\ Fit(S1, S1.active[h], ints)
      BY <1>3, <2>1, <3>1, Distinct DEF Fit
    <3>4. /\ Good(S2, H) /\ S2.queue = S1.queue
          /\ Later(S1, S2, IF Timer \in ints THEN Harts \ {h} ELSE Harts)
      BY <1>3, <1>14, <2>1, <3>2, <3>3, InjectKeeps
    <3>5. Later(S1, S2, D)  BY <1>12, <3>3, <3>4
    <3>6. QED BY <1>16, <3>4, <3>5, LaterTicks
  <2>2. CASE ~(v # None /\ S1.timer[v] = "expired")  BY <1>4, <1>14, <1>16, <2>2
  <2>3. QED BY <2>1, <2>2
<1>18. S2 \in HartStates /\ Placed(S2)  BY <1>17 DEF Good
<1>19. PICK Z : Z = [S2.stie EXCEPT ![h] = TRUE]  OBVIOUS
<1>20. Z \in [Harts -> BOOLEAN] /\ Z[h] /\ \A g \in Harts \ {h} : Z[g] = S2.stie[g]
  BY <1>18, <1>19 DEF HartStates
<1>21. R = [S2 EXCEPT !.stie = Z]  BY <1>5, <1>19
<1>22. R \in HartStates /\ Apart(S2, R) /\ R.queue = S2.queue /\ R.stie = Z
  BY <1>18, <1>20, <1>21 DEF HartStates, Apart
<1>23. Good(R, H) /\ \A u \in Vcpus : Sig(R, u) = Sig(S2, u)
  <2>1. Placed(R)  BY <1>18, <1>22 DEF Apart, Placed
  <2>2. QED BY <1>17, <1>22, <2>1, ApartKeeps
<1>24. Ticking(R, Harts)
  <2>1. R.timer = S2.timer  BY <1>22 DEF Apart
  <2>2. \A u \in Vcpus : u.hart \in Harts  BY DEF Harts
  <2>3. QED BY <1>12, <1>17, <1>20, <1>22, <1>23, <2>1, <2>2 DEF Ticking
<1>25. QED BY <1>23, <1>24

\* A claim takes the signal away, and the guest goes on as long as it is told of
\* an interrupt.
LEMMA ClaimKeeps ==
  ASSUME NEW S, NEW H, Good(S, H), Ticking(S, Harts), NEW v \in Vcpus, S.active[v.hart] = v,
         NEW R, R = get_claim(S, v)
  PROVE  Good(R, H) /\ Ticking(R, Harts)
<1>1. S \in HartStates /\ Placed(S) /\ ListsOwn(S) /\ EnabledOwn(S)  BY DEF Good
<1>2. PICK h : h = v.hart  OBVIOUS
<1>3. h \in Harts  BY <1>2 DEF Harts
<1>4. PICK got : got = get_pending_irq(S, v.vm, ClaimContext(v))  OBVIOUS
<1>5. PICK V : V = [S.hvip EXCEPT ![h] = @ \ {"ext"}]  OBVIOUS
<1>6. PICK B : B = [S.claims EXCEPT ![v] = got # {}]  OBVIOUS
<1>7. PICK C : C = [i \in Irqs |-> IF i \in got THEN S.cnt[i] - 1 ELSE S.cnt[i]]  OBVIOUS
<1>8. R = [S EXCEPT !.hvip = V, !.claims = B, !.cnt = C]
  BY <1>2, <1>4, <1>5, <1>6, <1>7 DEF get_claim
<1>9. \A i \in got : i \in Irqs /\ S.cnt[i] > 0 /\ Target(i) = v
                     /\ ClaimContext(v) = EnableContext(v)
  <2>1. got \subseteq Takable(S, v.vm, ClaimContext(v))  BY <1>4, PendingIs
  <2>2. QED BY <1>1, <2>1, TakableOwn
<1>10. V \in [Harts -> SUBSET AllLines] /\ B \in [Vcpus -> BOOLEAN]
  BY <1>1, <1>5, <1>6 DEF HartStates
<1>11. C \in [Irqs -> Nat]
  <2>1. S.cnt \in [Irqs -> Nat]  BY <1>1 DEF HartStates
  <2>2. ASSUME NEW i \in Irqs PROVE (IF i \in got THEN S.cnt[i] - 1 ELSE S.cnt[i]) \in Nat
    BY <1>9, <2>1
  <2>3. QED BY <1>7, <2>2
<1>12. R \in HartStates  BY <1>1, <1>8, <1>10, <1>11 DEF HartStates
<1>13. /\ R.hvip = V /\ R.claims = B /\ R.cnt = C /\ R.active = S.active
       /\ R.queue = S.queue /\ R.saved = S.saved /\ R.list = S.list /\ R.timer = S.timer
       /\ R.stie = S.stie /\ R.prio = S.prio /\ R.enabled = S.enabled /\ R.thr = S.thr
  BY <1>1, <1>8 DEF HartStates
<1>14. V[h] = S.hvip[h] \ {"ext"} /\ \A g \in Harts \ {h} : V[g] = S.hvip[g]
  BY <1>1, <1>3, <1>5 DEF HartStates
<1>15. \A u \in Vcpus : Sig(R, u) = IF u = v THEN Sig(S, u) \ {"ext"} ELSE Sig(S, u)
  <2>1. SUFFICES ASSUME NEW u \in Vcpus
                 PROVE  Sig(R, u) = IF u = v THEN Sig(S, u) \ {"ext"} ELSE Sig(S, u)
    OBVIOUS
  <2>2. u.hart \in Harts  BY DEF Harts
  <2>3. CASE u = v  BY <1>2, <1>13, <1>14, <2>3 DEF Sig
  <2>4. CASE u # v  BY <1>2, <1>13, <1>14, <2>2, <2>4 DEF Sig
  <2>5. QED BY <2>3, <2>4
<1>16. \A i \in Irqs : /\ C[i] > 0 => S.cnt[i] > 0
                       /\ Target(i) # v => C[i] = S.cnt[i]
  <2>1. S.cnt \in [Irqs -> Nat]  BY <1>1 DEF HartStates
  <2>2. QED BY <1>7, <1>9, <2>1
<1>17. \A u \in Vcpus : B[u] = IF u = v THEN got # {} ELSE S.claims[u]
  BY <1>1, <1>6 DEF HartStates
<1>18. Placed(R) /\ ListsOwn(R) /\ EnabledOwn(R) /\ TimersOf(R)
  BY <1>13 DEF Good, Placed, ListsOwn, EnabledOwn, TimersOf
<1>19. Own(R)
  <2>1. SUFFICES ASSUME NEW u \in Vcpus \ Stoppable
                 PROVE  /\ "timer" \in Sig(R, u) => R.timer[u] = "expired"
                        /\ "soft" \in Sig(R, u) => HasPeer(u)
                        /\ "ext" \in Sig(R, u) => \E i \in Irqs : Target(i) = u /\ R.cnt[i] > 0
    BY DEF Own
  <2>2. "timer" \in Sig(R, u) => R.timer[u] = "expired"  BY <1>13, <1>15 DEF Good, Own
  <2>3. "soft" \in Sig(R, u) => HasPeer(u)  BY <1>15 DEF Good, Own
  <2>4. "ext" \in Sig(R, u) => \E i \in Irqs : Target(i) = u /\ R.cnt[i] > 0
    <3>1. SUFFICES ASSUME "ext" \in Sig(R, u)
                   PROVE \E i \in Irqs : Target(i) = u /\ R.cnt[i] > 0
      OBVIOUS
    <3>2. u # v /\ "ext" \in Sig(S, u)  BY <1>15, <3>1
    <3>3. PICK i \in Irqs : Target(i) = u /\ S.cnt[i] > 0  BY <3>2 DEF Good, Own
    <3>4. QED BY <1>13, <1>16, <3>2, <3>3
  <2>5. QED BY <2>2, <2>3, <2>4
<1>20. Kept(R, H)
  <2>1. SUFFICES ASSUME NEW i \in Irqs \ H, Visible(R, i)
                 PROVE  "ext" \in Sig(R, Target(i)) \/ R.claims[Target(i)]
    BY DEF Kept
  <2>2. R.cnt[i] > 0  BY <2>1 DEF Visible, Takable
  <2>3. S.cnt[i] > 0  BY <1>13, <1>16, <2>2
  <2>4. Visible(S, i)  BY <1>13, <2>1, <2>3 DEF Visible, Takable
  <2>5. CASE Target(i) = v
    <3>1. ClaimContext(v) = EnableContext(v)
      BY <2>5, TargetIs DEF ClaimContext, EnableContext
    <3>2. i \in Takable(S, v.vm, ClaimContext(v))  BY <2>4, <2>5, <3>1, TargetIs DEF Visible
    <3>3. got # {}  BY <1>4, <3>2, PendingIs
    <3>4. QED BY <1>13, <1>17, <2>5, <3>3
  <2>6. CASE Target(i) # v
    <3>1. "ext" \in Sig(S, Target(i)) \/ S.claims[Target(i)]  BY <2>4 DEF Good, Kept
    <3>2. QED BY <1>13, <1>15, <1>17, <2>6, <3>1, TargetIs
  <2>7. QED BY <2>5, <2>6
<1>21. Ticking(R, Harts)
  <2>1. \A u \in Vcpus : "timer" \in Sig(S, u) => "timer" \in Sig(R, u)  BY <1>15
  <2>2. QED BY <1>13, <2>1 DEF Ticking
<1>22. QED BY <1>12, <1>18, <1>19, <1>20, <1>21 DEF Good

-----------------------------------------------------------------------------
(* Steps of guests that leave pending counts, queues and lists alone.        *)

\* What a guest sees may change, but not what is signalled of it.
Quiet(S, R) ==
    /\ R.active = S.active /\ R.queue = S.queue /\ R.saved = S.saved
    /\ R.list = S.list /\ R.cnt = S.cnt
    /\ \A v \in Vcpus :
          /\ Sig(R, v) \subseteq Sig(S, v)
          /\ "ext" \in Sig(S, v) => "ext" \in Sig(R, v)
          /\ S.claims[v] => R.claims[v]
          /\ "timer" \in Sig(R, v) /\ S.timer[v] = "expired" => R.timer[v] = "expired"

LEMMA QuietKeeps ==
  ASSUME NEW S, NEW H, Good(S, H), NEW R \in HartStates, Quiet(S, R), EnabledOwn(R),
         TimersOf(R), \A i \in Irqs \ H : S.cnt[i] > 0 => Visible(S, i)
  PROVE  Good(R, H)
<1>1. /\ R.active = S.active /\ R.queue = S.queue /\ R.saved = S.saved
      /\ R.list = S.list /\ R.cnt = S.cnt
  BY DEF Quiet
<1>2. Placed(R) /\ ListsOwn(R)  BY <1>1 DEF Good, Placed, ListsOwn
<1>3. Own(R)  BY <1>1 DEF Good, Own, Quiet
<1>4. Kept(R, H)
  <2>1. SUFFICES ASSUME NEW i \in Irqs \ H, Visible(R, i)
                 PROVE  "ext" \in Sig(R, Target(i)) \/ R.claims[Target(i)]
    BY DEF Kept
  <2>2. S.cnt[i] > 0  BY <1>1, <2>1 DEF Visible, Takable
  <2>3. "ext" \in Sig(S, Target(i)) \/ S.claims[Target(i)]  BY <2>2 DEF Good, Kept
  <2>4. QED BY <2>3, TargetIs DEF Quiet
<1>5. QED BY <1>2, <1>3, <1>4 DEF Good

\* The history follows.
LEMMA BecomesKeeps ==
  ASSUME NEW R, Good(R, hidden), Ticking(R, Harts), Becomes(R)
  PROVE  Good(s, hidden)' /\ Ticking(s, Harts)' /\ Seen'
<1>1. s' = R /\ hidden' = {i \in Irqs : R.cnt[i] > 0 /\ (i \in hidden \/ ~Visible(R, i))}
  BY DEF Becomes
<1>2. PICK H : H = hidden'  OBVIOUS
<1>3. \A i \in Irqs \ H : R.cnt[i] > 0 => i \notin hidden /\ Visible(R, i)  BY <1>1, <1>2
<1>4. \A i \in Irqs : Visible(R, i) => R.cnt[i] > 0  BY DEF Visible, Takable
<1>5. Kept(R, H)  BY <1>3, <1>4 DEF Good, Kept
<1>6. Good(R, H)  BY <1>5 DEF Good
<1>7. Good(s', hidden') /\ Ticking(s', Harts)  BY <1>1, <1>2, <1>6
<1>8. Good(s, hidden)' /\ Ticking(s, Harts)'
  BY <1>7 DEF Good, HartStates, Placed, ListsOwn, EnabledOwn, TimersOf, Own, Kept, Sig,
              Visible, Takable, Ticking
<1>9. \A i \in Irqs \ hidden' : s'.cnt[i] > 0 => Visible(s', i)  BY <1>1, <1>2, <1>3
<1>10. Seen'  BY <1>9 DEF Seen, Visible, Takable
<1>11. QED BY <1>8, <1>10

-----------------------------------------------------------------------------
(* The harts as a whole.                                                     *)

\* SetToSeq lists elements of the set.
LEMMA SetToSeqIs ==
  ASSUME NEW S, IsFiniteSet(S)
  PROVE  SetToSeq(S) \in Seq(S)
<1>1. Cardinality(S) \in Nat /\ ExistsBijection(1 .. Cardinality(S), S)
  BY FS_CardinalityType
<1>2. \E f \in [1 .. Cardinality(S) -> S] : IsInjective(f)
  BY <1>1 DEF ExistsBijection, Bijection, Injection, IsInjective
<1>3. SetToSeq(S) \in [1 .. Cardinality(S) -> S]  BY <1>2 DEF SetToSeq
<1>4. QED BY <1>1, <1>3

\* The invariant holds at first.
LEMMA HartInitInv == HartInit => HartInv
<1> SUFFICES ASSUME HartInit PROVE HartInv  OBVIOUS
<1>1. PICK first : first = [h \in Harts |-> SetToSeq({v \in Started : v.hart = h})]  OBVIOUS
<1>2. \A h \in Harts : /\ first[h] \in Seq(Vcpus)
                       /\ \A k \in 1 .. Len(first[h]) : first[h][k].hart = h
  <2>1. SUFFICES ASSUME NEW h \in Harts
                 PROVE  /\ first[h] \in Seq(Vcpus)
                        /\ \A k \in 1 .. Len(first[h]) : first[h][k].hart = h
    OBVIOUS
  <2>2. PICK S : S = {v \in Started : v.hart = h}  OBVIOUS
  <2>3. S \subseteq Vcpus /\ \A v \in S : v.hart = h  BY <2>2, RiscvAssumption
  <2>4. IsFiniteSet(S)  BY <2>3, RiscvAssumption, FS_Subset
  <2>5. first[h] \in Seq(S)  BY <1>1, <2>2, <2>4, SetToSeqIs
  <2>6. QED BY <2>3, <2>5
<1>3. PICK run : run = {first[h][1] : h \in {g \in Harts : first[g] # <<>>}}  OBVIOUS
<1>4. /\ s = [active |-> [h \in Harts |-> IF first[h] = <<>> THEN None ELSE first[h][1]],
               queue  |-> first,
               idx    |-> [h \in Harts |-> 0],
               hvip   |-> [h \in Harts |-> {}],
               stie   |-> [h \in Harts |-> Len(first[h]) > 1],
               state  |-> [v \in Vcpus |-> IF v \in run THEN "Running"
                                           ELSE IF v \in Started THEN "Ready" ELSE "Invalid"],
               saved  |-> [v \in Vcpus |-> {}],
               list   |-> [v \in Vcpus |-> {}],
               timer  |-> [v \in Vcpus |-> "idle"],
               claims |-> [v \in Vcpus |-> FALSE],
               cnt    |-> [i \in Irqs |-> 0],
               prio   |-> [i \in Irqs |-> IF i \in Masked THEN 0 ELSE 1],
               enabled |-> {[vm |-> i.vm, ctx |-> EnableContext(Target(i)), irq |-> i] :
                               i \in Irqs \ Masked},
               thr    |-> [m \in {v.vm : v \in Vcpus} |-> [c \in Contexts |-> 0]]]
      /\ msgs = [h \in Harts |-> {}] /\ hidden = {}
  BY <1>1, <1>3 DEF HartInit
<1>5. \A h \in Harts : first[h] # <<>> =>
         /\ 1 \in 1 .. Len(first[h]) /\ first[h][1] \in Vcpus
  BY <1>2
<1>6. first \in [Harts -> Seq(Vcpus)]  BY <1>1, <1>2
<1>7. \A i \in Irqs : /\ i.vm \in VMs
                      /\ EnableContext(Target(i)) \in Contexts
                      /\ Target(i).hart \in Harts
  BY TargetIs DEF VMs, EnableContext, Contexts, Harts
<1>8. s \in HartStates
  <2>1. [h \in Harts |-> IF first[h] = <<>> THEN None ELSE first[h][1]]
           \in [Harts -> Vcpus \cup {None}]
    BY <1>5
  <2>2. {[vm |-> i.vm, ctx |-> EnableContext(Target(i)), irq |-> i] : i \in Irqs \ Masked}
           \subseteq [vm : VMs, ctx : Contexts, irq : Irqs]
    BY <1>7
  <2>3. [m \in {v.vm : v \in Vcpus} |-> [c \in Contexts |-> 0]] \in [VMs -> [Contexts -> {0, 2}]]
    BY DEF VMs
  <2>4. QED BY <1>4, <1>6, <2>1, <2>2, <2>3 DEF HartStates
<1>9. \A v \in Vcpus : v.hart \in Harts  BY DEF Harts
<1>10. \A v \in Vcpus : Sig(s, v) = {}  BY <1>4, <1>9 DEF Sig
<1>11. /\ s.queue = first /\ \A h \in Harts : s.stie[h] = (Len(first[h]) > 1)
       /\ \A h \in Harts : s.active[h] = IF first[h] = <<>> THEN None ELSE first[h][1]
       /\ \A v \in Vcpus : s.list[v] = {} /\ s.timer[v] = "idle"
       /\ \A i \in Irqs : s.cnt[i] = 0
  BY <1>4
<1>12. Placed(s)  BY <1>2, <1>5, <1>11 DEF Placed
<1>13. ListsOwn(s) /\ TimersOf(s) /\ Own(s)
  BY <1>10, <1>11 DEF ListsOwn, TimersOf, Own
<1>14. EnabledOwn(s)
  <2>1. s.enabled = {[vm |-> i.vm, ctx |-> EnableContext(Target(i)), irq |-> i] :
                               i \in Irqs \ Masked}
    BY <1>4
  <2>2. QED BY <2>1 DEF EnabledOwn
<1>15. Kept(s, hidden) /\ Seen  BY <1>11 DEF Kept, Visible, Takable, Seen
<1>16. Ticking(s, Harts)  BY <1>11 DEF Ticking
<1>17. MailOwn /\ MailType  BY <1>4 DEF MailOwn, MailType
<1>18. PlicOwn
  <2>1. PICK P : P = {i \in Irqs \ Masked : i.phys}  OBVIOUS
  <2>2. phys = [latched |-> {},
                enabled |-> {[irq |-> i, hart |-> Target(i).hart] : i \in P},
                prio    |-> [i \in Irqs |-> IF i \in P THEN 1 ELSE 0]]
    BY <2>1 DEF HartInit
  <2>3. P \subseteq Irqs  BY <2>1
  <2>4. {[irq |-> i, hart |-> Target(i).hart] : i \in P} \subseteq [irq : Irqs, hart : Harts]
    BY <1>7, <2>3
  <2>5. QED BY <2>2, <2>4 DEF PlicOwn
<1>19. QED BY <1>8, <1>12, <1>13, <1>14, <1>15, <1>16, <1>17, <1>18 DEF HartInv, Good

\* What a step of the harts keeps.
HartKept == Good(s, hidden)' /\ Ticking(s, Harts)' /\ Seen'

\* Steps that leave the harts alone.
LEMMA SameHarts ==
  ASSUME HartInv, s' = s, hidden' = hidden
  PROVE  HartKept
<1>1. Good(s', hidden') /\ Ticking(s', Harts)  BY DEF HartInv
<1>2. Good(s, hidden)' /\ Ticking(s, Harts)'
  BY <1>1 DEF Good, HartStates, Placed, ListsOwn, EnabledOwn, TimersOf, Own, Kept, Sig,
              Visible, Takable, Ticking
<1>3. Seen'  BY DEF HartInv, Seen, Visible, Takable
<1>4. QED BY <1>2, <1>3 DEF HartKept

\* Steps that take the harts to a good state.
LEMMA NewHarts ==
  ASSUME NEW R, Good(R, hidden), Ticking(R, Harts), Becomes(R)
  PROVE  HartKept
BY BecomesKeeps DEF HartKept

LEMMA SameMail == MailOwn /\ MailType /\ UNCHANGED msgs => MailOwn' /\ MailType'
BY DEF MailOwn, MailType, HasPeer

LEMMA SamePlic == PlicOwn /\ UNCHANGED phys => PlicOwn'
BY DEF PlicOwn

\* A message to v's hart about v.
LEMMA NewMail ==
  ASSUME MailOwn, MailType, NEW v \in Vcpus, NEW int \in Ints \cup {Start},
         int = IPI => HasPeer(v), int \in Irqs => Target(int) = v,
         msgs' = [msgs EXCEPT ![v.hart] = @ \cup {[vm |-> v.vm, int |-> int]}]
  PROVE  MailOwn' /\ MailType'
<1>1. PICK m : m = [vm |-> v.vm, int |-> int]  OBVIOUS
<1>2. m.vm = v.vm /\ m.int = int /\ m \in [vm : VMs, int : Ints \cup {Start}]
  BY <1>1 DEF VMs
<1>3. v.hart \in Harts  BY DEF Harts
<1>4. msgs' = [msgs EXCEPT ![v.hart] = @ \cup {m}]  BY <1>1
<1>5. MailType'  BY <1>2, <1>3, <1>4 DEF MailType
<1>6. \A h \in Harts : \A n \in msgs'[h] : n \in msgs[h] \/ (h = v.hart /\ n = m)
  BY <1>3, <1>4 DEF MailType
<1>7. MailOwn'  BY <1>2, <1>6 DEF MailOwn, HasPeer
<1>8. QED BY <1>5, <1>7

-----------------------------------------------------------------------------
(* One lemma per kind of step.                                               *)

\* A line goes up, or a device of the hypervisor interrupts.
LEMMA Devices ==
  ASSUME HartInv, NEW i \in Irqs, RaiseLine(i) \/ Emulated(i)
  PROVE  HartInv'
<1>1. CASE RaiseLine(i)
  <2>1. s' = s /\ hidden' = hidden /\ UNCHANGED msgs  BY <1>1 DEF RaiseLine
  <2>2. HartKept /\ MailOwn' /\ MailType'  BY <2>1, SameHarts, SameMail DEF HartInv
  <2>3. PlicOwn'  BY <1>1 DEF HartInv, PlicOwn, RaiseLine
  <2>4. QED BY <2>2, <2>3 DEF HartInv, HartKept
<1>2. CASE Emulated(i)
  <2>1. s' = s /\ hidden' = hidden /\ UNCHANGED phys  BY <1>2 DEF Emulated
  <2>2. HartKept /\ PlicOwn'  BY <2>1, SameHarts, SamePlic DEF HartInv
  <2>3. PICK v : v = Target(i)  OBVIOUS
  <2>4. v \in Vcpus /\ v.vm = i.vm /\ i \in Ints /\ i # IPI
    BY <2>3, TargetIs, Distinct DEF Ints
  <2>5. msgs' = [msgs EXCEPT ![v.hart] = @ \cup {[vm |-> v.vm, int |-> i]}]
    BY <1>2, <2>3, <2>4 DEF Emulated
  <2>6. MailOwn' /\ MailType'  BY <2>3, <2>4, <2>5, NewMail DEF HartInv
  <2>7. QED BY <2>2, <2>6 DEF HartInv, HartKept
<1>3. QED BY <1>1, <1>2

\* SBI calls that send messages.
LEMMA Calls ==
  ASSUME HartInv, NEW v \in Vcpus, NEW w \in Vcpus, SendIpi(v, w) \/ HartStart(v, w)
  PROVE  HartInv'
<1>1. s' = s /\ hidden' = hidden /\ UNCHANGED phys  BY DEF SendIpi, HartStart
<1>2. HartKept /\ PlicOwn'  BY <1>1, SameHarts, SamePlic DEF HartInv
<1>3. v.vm = w.vm /\ w # v  BY DEF SendIpi, HartStart
<1>4. HasPeer(w)  BY <1>3 DEF HasPeer
<1>5. PICK int : /\ int \in {IPI, Start}
                 /\ msgs' = [msgs EXCEPT ![w.hart] = @ \cup {[vm |-> w.vm, int |-> int]}]
  BY <1>3 DEF SendIpi, HartStart
<1>6. int \in Ints \cup {Start} /\ int \notin Irqs  BY <1>5, Distinct DEF Ints
<1>7. MailOwn' /\ MailType'  BY <1>4, <1>5, <1>6, NewMail DEF HartInv
<1>8. QED BY <1>2, <1>7 DEF HartInv, HartKept

\* A physical interrupt.
LEMMA External ==
  ASSUME HartInv, NEW h \in Harts, TakeExternal(h)
  PROVE  HartInv'
<1>1. PICK C : C = {i \in phys.latched : /\ [irq |-> i, hart |-> h] \in phys.enabled
                                         /\ phys.prio[i] > 0}
  OBVIOUS
<1>2. PICK i : i = CHOOSE j \in C : \A k \in C : j.n <= k.n  OBVIOUS
<1>3. /\ C # {} /\ phys' = [phys EXCEPT !.latched = @ \ {i}]
      /\ Becomes(interrupt_handler(s, h, i)) /\ UNCHANGED msgs
  BY <1>1, <1>2 DEF TakeExternal
<1>4. C \in SUBSET Irqs  BY <1>1 DEF HartInv, PlicOwn
<1>5. i \in C  BY <1>2, <1>3, <1>4, HasLeastNumber
<1>6. i \in Irqs /\ h = Target(i).hart
  <2>1. [irq |-> i, hart |-> h] \in phys.enabled  BY <1>1, <1>5
  <2>2. QED BY <1>4, <1>5, <2>1 DEF HartInv, PlicOwn
<1>7. PICK R : R = interrupt_handler(s, Target(i).hart, i)  OBVIOUS
<1>8. Good(R, hidden) /\ Ticking(R, Harts)  BY <1>6, <1>7, InterruptHandlerKeeps DEF HartInv
<1>9. HartKept  BY <1>3, <1>6, <1>7, <1>8, NewHarts
<1>10. PlicOwn'  BY <1>3 DEF HartInv, PlicOwn
<1>11. MailOwn' /\ MailType'  BY <1>3, SameMail DEF HartInv
<1>12. QED BY <1>9, <1>10, <1>11 DEF HartInv, HartKept

\* The tick.
LEMMA Ticks ==
  ASSUME HartInv, NEW h \in Harts, Tick(h)
  PROVE  HartInv'
<1>1. PICK R : R = timer_irq_handler(s, h)  OBVIOUS
<1>2. Becomes(R) /\ UNCHANGED phys /\ UNCHANGED msgs  BY <1>1 DEF Tick
<1>3. Good(R, hidden) /\ Ticking(R, Harts)  BY <1>1, TimerHandlerKeeps DEF HartInv
<1>4. HartKept /\ PlicOwn' /\ MailOwn' /\ MailType'
  BY <1>2, <1>3, NewHarts, SameMail, SamePlic DEF HartInv
<1>5. QED BY <1>4 DEF HartInv, HartKept

\* A message comes.
LEMMA Delivers ==
  ASSUME HartInv, NEW h \in Harts, NEW m \in msgs[h], Deliver(h, m)
  PROVE  HartInv'
<1>1. PICK v \in Vcpus : /\ v.hart = h /\ v.vm = m.vm
                         /\ m.int \in Ints \cup {Start}
                         /\ m.int = IPI => HasPeer(v)
                         /\ m.int \in Irqs => Target(m.int) = v
  BY DEF HartInv, MailOwn
<1>2. OnHart(h, m.vm) = v  BY <1>1, OnHartIs
<1>3. PICK T : T = wakeup(s, v.hart, v)  OBVIOUS
<1>4. PICK R : R = IF m.int # Start THEN interrupt_vm_inject(s, v.hart, v, m.int)
                   ELSE IF s.state[v] # "Invalid" THEN s ELSE do_schedule(T, h)
  OBVIOUS
<1>5. /\ Becomes(R) /\ UNCHANGED phys
      /\ msgs' = [msgs EXCEPT ![h] = @ \ {m}]
  BY <1>1, <1>2, <1>3, <1>4 DEF Deliver
<1>6. Good(s, hidden) /\ Ticking(s, Harts)  BY DEF HartInv
<1>7. Good(R, hidden) /\ Ticking(R, Harts)
  <2>1. CASE m.int # Start
    <3>1. m.int \in Ints  BY <1>1, <2>1
    <3>2. R = interrupt_vm_inject(s, v.hart, v, m.int)  BY <1>4, <2>1
    <3>3. QED BY <1>1, <1>6, <3>1, <3>2, InterruptVmInjectKeeps
  <2>2. CASE m.int = Start /\ s.state[v] # "Invalid"  BY <1>4, <1>6, <2>2
  <2>3. CASE m.int = Start /\ s.state[v] = "Invalid"
    <3>1. Good(T, hidden) /\ Ticking(T, Harts)  BY <1>3, <1>6, WakeupKeeps
    <3>2. R = do_schedule(T, h)  BY <1>4, <2>3
    <3>3. Good(R, hidden) /\ R.queue = T.queue /\ Later(T, R, Harts)
      BY <3>1, <3>2, DoScheduleKeeps
    <3>4. QED BY <3>1, <3>3, LaterTicks
  <2>4. QED BY <2>1, <2>2, <2>3
<1>8. HartKept /\ PlicOwn'  BY <1>5, <1>7, NewHarts, SamePlic DEF HartInv
<1>9. MailType'  BY <1>5 DEF HartInv, MailType
<1>10. \A g \in Harts : msgs'[g] \subseteq msgs[g]  BY <1>5 DEF HartInv, MailType
<1>11. MailOwn'  BY <1>10 DEF HartInv, MailOwn, HasPeer
<1>12. QED BY <1>8, <1>9, <1>11 DEF HartInv, HartKept

\* The guest claims, or stops its vCPU.
LEMMA Claims ==
  ASSUME HartInv, NEW v \in Vcpus, Claim(v) \/ HartStop(v)
  PROVE  HartInv'
<1>1. PICK R : Becomes(R) /\ R = IF Claim(v) THEN get_claim(s, v) ELSE sleep(s, v.hart, v)
  BY DEF Claim, HartStop
<1>2. UNCHANGED phys /\ UNCHANGED msgs /\ s.active[v.hart] = v
  BY DEF Claim, HartStop, Runs
<1>3. Good(s, hidden) /\ Ticking(s, Harts)  BY DEF HartInv
<1>4. Good(R, hidden) /\ Ticking(R, Harts)
  <2>1. CASE Claim(v)  BY <1>1, <1>2, <1>3, <2>1, ClaimKeeps
  <2>2. CASE ~Claim(v)
    <3>1. v \in Stoppable  BY <2>2 DEF HartStop
    <3>2. R = sleep(s, v.hart, v)  BY <1>1, <2>2
    <3>3. QED BY <1>2, <1>3, <3>1, <3>2, SleepKeeps
  <2>3. QED BY <2>1, <2>2
<1>5. HartKept /\ PlicOwn' /\ MailOwn' /\ MailType'
  BY <1>1, <1>2, <1>4, NewHarts, SameMail, SamePlic DEF HartInv
<1>6. QED BY <1>5 DEF HartInv, HartKept

\* A quiet step of a guest, with the tick on where it was or needed now.
LEMMA Quietly ==
  ASSUME HartInv, NEW R \in HartStates, Quiet(s, R), EnabledOwn(R), TimersOf(R), Becomes(R),
         \A u \in Vcpus \ Stoppable :
            /\ R.timer[u] # "idle" /\ "timer" \notin Sig(R, u)
            => s.stie[u.hart] \/ R.stie[u.hart],
         \A h \in Harts : s.stie[h] => R.stie[h], UNCHANGED msgs, PlicOwn'
  PROVE  HartInv'
<1>1. \A i \in Irqs \ hidden : s.cnt[i] > 0 => Visible(s, i)  BY DEF HartInv, Seen
<1>2. Good(s, hidden)  BY DEF HartInv
<1>3. Good(R, hidden)  BY <1>1, <1>2, QuietKeeps
<1>4. R.queue = s.queue  BY DEF Quiet
<1>5. Ticking(R, Harts)  BY <1>4 DEF HartInv, Ticking, Harts
<1>6. HartKept /\ MailOwn' /\ MailType'  BY <1>3, <1>5, NewHarts, SameMail DEF HartInv
<1>7. QED BY <1>6 DEF HartInv, HartKept

\* Writes to the vPLIC and the guest's trap.
LEMMA Registers ==
  ASSUME HartInv, NEW v \in Vcpus, NEW R \in HartStates, Becomes(R),
         R.active = s.active, R.queue = s.queue, R.saved = s.saved, R.list = s.list,
         R.cnt = s.cnt, R.hvip = s.hvip, R.stie = s.stie,
         \A u \in Vcpus : s.claims[u] => R.claims[u],
         \A u \in Vcpus : /\ (R.timer[u] = "idle" <=> s.timer[u] = "idle")
                          /\ (s.timer[u] = "expired" => R.timer[u] = "expired"),
         EnabledOwn(R), UNCHANGED msgs, PlicOwn'
  PROVE  HartInv'
<1>1. \A u \in Vcpus : Sig(R, u) = Sig(s, u)  BY DEF Sig
<1>2. Quiet(s, R)  BY <1>1 DEF Quiet
<1>3. TimersOf(R)  BY DEF HartInv, Good, TimersOf
<1>4. \A u \in Vcpus \ Stoppable :
         R.timer[u] # "idle" /\ "timer" \notin Sig(R, u) => s.stie[u.hart] \/ R.stie[u.hart]
  BY <1>1 DEF HartInv, Ticking, Harts
<1>5. \A h \in Harts : s.stie[h] => R.stie[h]  OBVIOUS
<1>6. QED BY <1>2, <1>3, <1>4, <1>5, Quietly

\* Priority, enable and threshold registers, the trap, and a timer that expires.
LEMMA Priorities ==
  ASSUME HartInv, NEW v \in Vcpus, NEW i \in Irqs, WritePriority(v, i)
  PROVE  HartInv'
<1>1. s \in HartStates /\ EnabledOwn(s)  BY DEF HartInv, Good
<1>2. PICK R : R = [s EXCEPT !.prio[i] = 1]  OBVIOUS
<1>3. R \in HartStates  BY <1>1, <1>2 DEF HartStates
<1>4. /\ R.active = s.active /\ R.queue = s.queue /\ R.saved = s.saved /\ R.list = s.list
      /\ R.cnt = s.cnt /\ R.hvip = s.hvip /\ R.stie = s.stie /\ R.claims = s.claims
      /\ R.timer = s.timer /\ R.enabled = s.enabled
  BY <1>1, <1>2 DEF HartStates
<1>5. EnabledOwn(R)  BY <1>1, <1>4 DEF EnabledOwn
<1>6. Becomes(R) /\ UNCHANGED msgs  BY <1>2 DEF WritePriority
<1>7. PlicOwn'  BY DEF HartInv, PlicOwn, WritePriority
<1>8. QED BY <1>3, <1>4, <1>5, <1>6, <1>7, Registers

LEMMA Enables ==
  ASSUME HartInv, NEW v \in Vcpus, NEW i \in Irqs, NEW on \in BOOLEAN, WriteEnable(v, i, on)
  PROVE  HartInv'
<1>1. s \in HartStates /\ EnabledOwn(s)  BY DEF HartInv, Good
<1>2. PICK e : e = [vm |-> i.vm, ctx |-> EnableContext(v), irq |-> i]  OBVIOUS
<1>3. PICK E : E = IF on THEN s.enabled \cup {e} ELSE s.enabled \ {e}  OBVIOUS
<1>4. PICK R : R = [s EXCEPT !.enabled = E]  OBVIOUS
<1>5. v = Target(i) /\ UNCHANGED msgs /\ Becomes(R)  BY <1>2, <1>3, <1>4 DEF WriteEnable
<1>6. e \in [vm : VMs, ctx : Contexts, irq : Irqs]
  <2>1. i.vm \in VMs /\ EnableContext(v) \in Contexts
    BY <1>5, TargetIs DEF VMs, Contexts, EnableContext
  <2>2. QED BY <1>2, <2>1
<1>7. E \subseteq [vm : VMs, ctx : Contexts, irq : Irqs]  BY <1>1, <1>3, <1>6 DEF HartStates
<1>8. R \in HartStates  BY <1>1, <1>4, <1>7 DEF HartStates
<1>9. /\ R.active = s.active /\ R.queue = s.queue /\ R.saved = s.saved /\ R.list = s.list
      /\ R.cnt = s.cnt /\ R.hvip = s.hvip /\ R.stie = s.stie /\ R.claims = s.claims
      /\ R.timer = s.timer /\ R.enabled = E
  BY <1>1, <1>4 DEF HartStates
<1>10. EnabledOwn(R)
  <2>1. e.vm = e.irq.vm /\ e.ctx = EnableContext(Target(e.irq))  BY <1>2, <1>5
  <2>2. QED BY <1>1, <1>3, <1>9, <2>1 DEF EnabledOwn
<1>11. PlicOwn'
  <2>1. PICK p : p = [irq |-> i, hart |-> v.hart]  OBVIOUS
  <2>2. \/ phys' = phys
        \/ phys' = [phys EXCEPT !.enabled = IF on THEN @ \cup {p} ELSE @ \ {p}]
    BY <2>1 DEF WriteEnable
  <2>3. p \in [irq : Irqs, hart : Harts] /\ p.hart = Target(p.irq).hart
    BY <1>5, <2>1 DEF Harts
  <2>4. CASE phys' = phys  BY <2>4, SamePlic DEF HartInv
  <2>5. CASE phys' = [phys EXCEPT !.enabled = IF on THEN @ \cup {p} ELSE @ \ {p}]
    BY <2>3, <2>5 DEF HartInv, PlicOwn
  <2>6. QED BY <2>2, <2>4, <2>5
<1>12. QED BY <1>5, <1>8, <1>9, <1>10, <1>11, Registers

LEMMA Thresholds ==
  ASSUME HartInv, NEW v \in Vcpus, NEW t \in {0, 2}, WriteThreshold(v, t)
  PROVE  HartInv'
<1>1. s \in HartStates /\ EnabledOwn(s)  BY DEF HartInv, Good
<1>2. PICK R : R = [s EXCEPT !.thr[v.vm][ClaimContext(v)] = t]  OBVIOUS
<1>3. R \in HartStates  BY <1>1, <1>2 DEF HartStates
<1>4. /\ R.active = s.active /\ R.queue = s.queue /\ R.saved = s.saved /\ R.list = s.list
      /\ R.cnt = s.cnt /\ R.hvip = s.hvip /\ R.stie = s.stie /\ R.claims = s.claims
      /\ R.timer = s.timer /\ R.enabled = s.enabled
  BY <1>1, <1>2 DEF HartStates
<1>5. EnabledOwn(R)  BY <1>1, <1>4 DEF EnabledOwn
<1>6. Becomes(R) /\ UNCHANGED msgs /\ UNCHANGED phys  BY <1>2 DEF WriteThreshold
<1>7. PlicOwn'  BY <1>6, SamePlic DEF HartInv
<1>8. QED BY <1>3, <1>4, <1>5, <1>6, <1>7, Registers

LEMMA Traps ==
  ASSUME HartInv, NEW v \in Vcpus, TrapExternal(v)
  PROVE  HartInv'
<1>1. s \in HartStates /\ EnabledOwn(s)  BY DEF HartInv, Good
<1>2. PICK R : R = [s EXCEPT !.claims[v] = TRUE]  OBVIOUS
<1>3. R \in HartStates /\ \A u \in Vcpus : s.claims[u] => R.claims[u]
  BY <1>1, <1>2 DEF HartStates
<1>4. /\ R.active = s.active /\ R.queue = s.queue /\ R.saved = s.saved /\ R.list = s.list
      /\ R.cnt = s.cnt /\ R.hvip = s.hvip /\ R.stie = s.stie
      /\ R.timer = s.timer /\ R.enabled = s.enabled
  BY <1>1, <1>2 DEF HartStates
<1>5. EnabledOwn(R)  BY <1>1, <1>4 DEF EnabledOwn
<1>6. Becomes(R) /\ UNCHANGED msgs /\ UNCHANGED phys  BY <1>2 DEF TrapExternal
<1>7. PlicOwn'  BY <1>6, SamePlic DEF HartInv
<1>8. QED BY <1>3, <1>4, <1>5, <1>6, <1>7, Registers

LEMMA Expiries ==
  ASSUME HartInv, NEW v \in Vcpus, Expire(v)
  PROVE  HartInv'
<1>1. s \in HartStates /\ EnabledOwn(s)  BY DEF HartInv, Good
<1>2. PICK R : R = [s EXCEPT !.timer[v] = "expired"]  OBVIOUS
<1>3. Becomes(R) /\ UNCHANGED msgs /\ UNCHANGED phys /\ s.timer[v] = "armed"
  BY <1>2 DEF Expire
<1>4. R \in HartStates /\ \A u \in Vcpus : R.timer[u] = IF u = v THEN "expired" ELSE s.timer[u]
  BY <1>1, <1>2 DEF HartStates
<1>5. /\ R.active = s.active /\ R.queue = s.queue /\ R.saved = s.saved /\ R.list = s.list
      /\ R.cnt = s.cnt /\ R.hvip = s.hvip /\ R.stie = s.stie
      /\ R.claims = s.claims /\ R.enabled = s.enabled
  BY <1>1, <1>2 DEF HartStates
<1>6. EnabledOwn(R)  BY <1>1, <1>5 DEF EnabledOwn
<1>7. PlicOwn'  BY <1>3, SamePlic DEF HartInv
<1>8. \A u \in Vcpus : /\ (R.timer[u] = "idle" <=> s.timer[u] = "idle")
                       /\ (s.timer[u] = "expired" => R.timer[u] = "expired")
  BY <1>3, <1>4
<1>9. QED BY <1>3, <1>4, <1>5, <1>6, <1>7, <1>8, Registers

\* A guest takes its timer interrupt, or its software interrupt.
LEMMA Timers ==
  ASSUME HartInv, NEW v \in Vcpus, SetTimer(v) \/ TrapSoft(v)
  PROVE  HartInv'
<1>1. s \in HartStates /\ EnabledOwn(s) /\ TimersOf(s)  BY DEF HartInv, Good
<1>2. PICK h : h = v.hart  OBVIOUS
<1>3. h \in Harts  BY <1>2 DEF Harts
<1>4. PICK line \in {"timer", "soft"}, on \in BOOLEAN :
         /\ on => line = "timer" /\ v \in Timed
         /\ ~on => line = "soft"
         /\ Becomes(IF on THEN [s EXCEPT !.hvip[h] = @ \ {line}, !.stie[h] = TRUE,
                                         !.timer[v] = "armed"]
                    ELSE [s EXCEPT !.hvip[h] = @ \ {line}])
  <2>1. CASE SetTimer(v)  BY <1>2, <2>1 DEF SetTimer
  <2>2. CASE TrapSoft(v)  BY <1>2, <2>2 DEF TrapSoft
  <2>3. QED BY <2>1, <2>2
<1>5. UNCHANGED msgs /\ UNCHANGED phys /\ s.active[h] = v
  BY <1>2 DEF SetTimer, TrapSoft, Runs
<1>6. PICK V : V = [s.hvip EXCEPT ![h] = @ \ {line}]  OBVIOUS
<1>7. PICK W : W = IF on THEN [s.stie EXCEPT ![h] = TRUE] ELSE s.stie  OBVIOUS
<1>8. PICK X : X = IF on THEN [s.timer EXCEPT ![v] = "armed"] ELSE s.timer  OBVIOUS
<1>9. PICK R : R = [s EXCEPT !.hvip = V, !.stie = W, !.timer = X]  OBVIOUS
<1>10. Becomes(R)
  <2>1. CASE on  BY <1>4, <1>6, <1>7, <1>8, <1>9, <2>1
  <2>2. CASE ~on
    <3>1. R = [s EXCEPT !.hvip = V]  BY <1>1, <1>7, <1>8, <1>9, <2>2 DEF HartStates
    <3>2. QED BY <1>4, <1>6, <2>2, <3>1
  <2>3. QED BY <2>1, <2>2
<1>11. /\ V \in [Harts -> SUBSET AllLines] /\ W \in [Harts -> BOOLEAN]
       /\ X \in [Vcpus -> {"idle", "armed", "expired"}]
  BY <1>1, <1>6, <1>7, <1>8 DEF HartStates
<1>12. R \in HartStates  BY <1>1, <1>9, <1>11 DEF HartStates
<1>13. /\ R.active = s.active /\ R.queue = s.queue /\ R.saved = s.saved /\ R.list = s.list
       /\ R.cnt = s.cnt /\ R.hvip = V /\ R.stie = W /\ R.timer = X
       /\ R.claims = s.claims /\ R.enabled = s.enabled
  BY <1>1, <1>9 DEF HartStates
<1>14. /\ V[h] = s.hvip[h] \ {line} /\ \A g \in Harts \ {h} : V[g] = s.hvip[g]
       /\ \A g \in Harts : s.stie[g] => W[g]
       /\ on => W[h]
       /\ \A u \in Vcpus : X[u] = IF on /\ u = v THEN "armed" ELSE s.timer[u]
  BY <1>1, <1>3, <1>6, <1>7, <1>8 DEF HartStates
<1>15. \A u \in Vcpus : Sig(R, u) = IF u = v THEN Sig(s, u) \ {line} ELSE Sig(s, u)
  <2>1. SUFFICES ASSUME NEW u \in Vcpus
                 PROVE  Sig(R, u) = IF u = v THEN Sig(s, u) \ {line} ELSE Sig(s, u)
    OBVIOUS
  <2>2. u.hart \in Harts  BY DEF Harts
  <2>3. CASE u = v  BY <1>2, <1>5, <1>13, <1>14, <2>3 DEF Sig
  <2>4. CASE u # v  BY <1>2, <1>5, <1>13, <1>14, <2>2, <2>4 DEF Sig
  <2>5. QED BY <2>3, <2>4
<1>16. Quiet(s, R)  BY <1>4, <1>13, <1>14, <1>15 DEF Quiet
<1>17. EnabledOwn(R) /\ TimersOf(R)  BY <1>1, <1>4, <1>13, <1>14 DEF EnabledOwn, TimersOf
<1>18. ASSUME NEW u \in Vcpus \ Stoppable, R.timer[u] # "idle", "timer" \notin Sig(R, u)
       PROVE  s.stie[u.hart] \/ R.stie[u.hart]
  <2>1. CASE u = v /\ on  BY <1>2, <1>13, <1>14, <2>1
  <2>2. CASE ~(u = v /\ on)
    <3>1. s.timer[u] # "idle" /\ "timer" \notin Sig(s, u)
      BY <1>4, <1>13, <1>14, <1>15, <1>18, <2>2
    <3>2. QED BY <3>1 DEF HartInv, Ticking, Harts
  <2>3. QED BY <2>1, <2>2
<1>19. PlicOwn'  BY <1>5, SamePlic DEF HartInv
<1>20. QED BY <1>5, <1>10, <1>12, <1>13, <1>14, <1>16, <1>17, <1>18, <1>19, Quietly

\* Every step of the harts.
LEMMA HartStep == HartInv /\ [HartNext]_hartVars => HartInv'
<1> SUFFICES ASSUME HartInv, [HartNext]_hartVars PROVE HartInv'  OBVIOUS
<1>1. CASE UNCHANGED hartVars
  <2>1. s' = s /\ hidden' = hidden /\ UNCHANGED msgs /\ UNCHANGED phys  BY <1>1 DEF hartVars
  <2>2. HartKept /\ PlicOwn' /\ MailOwn' /\ MailType'
    BY <2>1, SameHarts, SameMail, SamePlic DEF HartInv
  <2>3. QED BY <2>2 DEF HartInv, HartKept
<1>2. CASE \E i \in Irqs : RaiseLine(i) \/ Emulated(i)  BY <1>2, Devices
<1>3. CASE \E h \in Harts : TakeExternal(h) \/ Tick(h) \/ Messages(h)
  BY <1>3, External, Ticks, Delivers DEF Messages
<1>4. ASSUME NEW v \in Vcpus,
             \/ Handles(v) \/ Expire(v) \/ HartStop(v)
             \/ \E i \in Irqs : WritePriority(v, i) \/ \E on \in BOOLEAN : WriteEnable(v, i, on)
             \/ \E t \in {0, 2} : WriteThreshold(v, t)
             \/ \E w \in Vcpus : SendIpi(v, w) \/ HartStart(v, w)
      PROVE  HartInv'
  <2>1. CASE Handles(v) \/ Expire(v) \/ HartStop(v)
    BY <2>1, Traps, Claims, Timers, Expiries DEF Handles
  <2>2. CASE \E i \in Irqs : WritePriority(v, i) \/ \E on \in BOOLEAN : WriteEnable(v, i, on)
    BY <2>2, Priorities, Enables
  <2>3. CASE \E t \in {0, 2} : WriteThreshold(v, t)  BY <2>3, Thresholds
  <2>4. CASE \E w \in Vcpus : SendIpi(v, w) \/ HartStart(v, w)  BY <2>4, Calls
  <2>5. QED BY <1>4, <2>1, <2>2, <2>3, <2>4
<1>5. QED BY <1>1, <1>2, <1>3, <1>4 DEF HartNext

\* What the invariant is for.
LEMMA HartsRight ==
  ASSUME HartInv
  PROVE  /\ SignalKept /\ TickStaysOn
         /\ \A v \in Vcpus \ Stoppable :
              /\ "timer" \in hvip(v) => s.timer[v] = "expired"
              /\ "soft" \in hvip(v) => \E w \in Vcpus \ {v} : w.vm = v.vm
              /\ "ext" \in hvip(v) => \E i \in Irqs : Target(i) = v /\ s.cnt[i] > 0
<1>1. \A v \in Vcpus : hvip(v) = Sig(s, v)  BY DEF hvip, Sig, Runs
<1>2. SignalKept
  <2>1. \A i \in Irqs \ hidden : s.cnt[i] > 0 =>
           "ext" \in hvip(Target(i)) \/ s.claims[Target(i)]
    BY <1>1, TargetIs DEF HartInv, Good, Kept, Seen
  <2>2. \A v \in Vcpus : Runs(v) => s.list[v] = {}  BY DEF HartInv, Good, ListsOwn, Runs
  <2>3. QED BY <2>1, <2>2 DEF SignalKept
<1>3. TickStaysOn  BY <1>1 DEF HartInv, Ticking, TickStaysOn, Harts
<1>4. QED BY <1>1, <1>2, <1>3 DEF HartInv, Good, Own, HasPeer

-----------------------------------------------------------------------------
(* The build with the advanced interrupt architecture.                       *)

MsiTargets == [file : Aia!Files, eiid : Eiids \cup {0}]

AiaTypes ==
    /\ aplic \in [msi : BOOLEAN, on : BOOLEAN, active : SUBSET AiaIrqs,
                  enabled : SUBSET AiaIrqs, pending : SUBSET AiaIrqs,
                  target : [AiaIrqs -> MsiTargets]]
    /\ vaplic \in [AiaVMs -> [active : SUBSET AiaIrqs, target : [AiaIrqs -> MsiTargets]]]
    /\ files \in [Aia!Files -> SUBSET Eiids]
    /\ asked \in [AiaVMs -> SUBSET MsiTargets]

\* The two APLICs agree on an interrupt's target, which its VM asked for.
TargetsAsked ==
    \A i \in AiaIrqs :
        /\ vaplic[i.vm].target[i] = aplic.target[i]
        /\ aplic.target[i].eiid # 0 => /\ aplic.target[i].file.guest = i.vm + 1
                                       /\ aplic.target[i] \in asked[i.vm]

FilesAsked ==
    \A f \in Aia!Files : \A e \in files[f] :
        /\ f.guest # 0
        /\ \A vm \in AiaVMs : f.guest = vm + 1 => [file |-> f, eiid |-> e] \in asked[vm]

AiaInv == AiaTypes /\ TargetsAsked /\ FilesAsked

\* The invariant of the APLICs holds at first.
LEMMA AiaInitInv == Aia!Init => AiaInv
<1> SUFFICES ASSUME Aia!Init PROVE AiaInv  OBVIOUS
<1>1. Aia!Unset \in MsiTargets /\ Aia!Unset.eiid = 0
  BY DEF Aia!Unset, MsiTargets, Aia!Files, Aia!Guests
<1>2. AiaTypes  BY <1>1 DEF Aia!Init, AiaTypes
<1>3. TargetsAsked  BY <1>1, AiaAssumption DEF Aia!Init, TargetsAsked
<1>4. FilesAsked  BY DEF Aia!Init, FilesAsked
<1>5. QED BY <1>2, <1>3, <1>4 DEF AiaInv

\* A message to a target that was asked for.
LEMMA Triggered ==
  ASSUME AiaInv, NEW i \in AiaIrqs, Aia!imsic_trigger(aplic.target[i]), asked' = asked
  PROVE  files' \in [Aia!Files -> SUBSET Eiids] /\ FilesAsked'
<1>1. PICK t : t = aplic.target[i]  OBVIOUS
<1>2. t \in MsiTargets /\ i.vm \in AiaVMs  BY <1>1, AiaAssumption DEF AiaInv, AiaTypes
<1>3. CASE t.eiid = 0
  <2>1. files' = files  BY <1>1, <1>3 DEF Aia!imsic_trigger
  <2>2. QED BY <2>1 DEF AiaInv, AiaTypes, FilesAsked
<1>4. CASE t.eiid # 0
  <2>1. files' = [files EXCEPT ![t.file] = @ \cup {t.eiid}]
    BY <1>1, <1>4 DEF Aia!imsic_trigger
  <2>2. t.file \in Aia!Files /\ t.eiid \in Eiids /\ t = [file |-> t.file, eiid |-> t.eiid]
    BY <1>2, <1>4 DEF MsiTargets
  <2>3. t.file.guest = i.vm + 1 /\ t \in asked[i.vm]  BY <1>1, <1>4 DEF AiaInv, TargetsAsked
  <2>4. files' \in [Aia!Files -> SUBSET Eiids]  BY <2>1, <2>2 DEF AiaInv, AiaTypes
  <2>5. ASSUME NEW f \in Aia!Files, NEW e \in files'[f]
        PROVE  /\ f.guest # 0
               /\ \A vm \in AiaVMs : f.guest = vm + 1 => [file |-> f, eiid |-> e] \in asked[vm]
    <3>1. CASE e \in files[f]  BY <3>1 DEF AiaInv, FilesAsked
    <3>2. CASE e \notin files[f]
      <4>1. f = t.file /\ e = t.eiid  BY <2>1, <2>2, <3>2 DEF AiaInv, AiaTypes
      <4>2. i.vm \in Nat /\ f.guest = i.vm + 1  BY <1>2, <2>3, <4>1, AiaAssumption
      <4>3. \A vm \in AiaVMs : f.guest = vm + 1 => vm = i.vm  BY <4>2, AiaAssumption
      <4>4. f.guest # 0  BY <4>2
      <4>5. QED BY <2>2, <2>3, <4>1, <4>3, <4>4
    <3>3. QED BY <3>1, <3>2
  <2>6. FilesAsked'  BY <2>5 DEF FilesAsked
  <2>7. QED BY <2>4, <2>6
<1>5. QED BY <1>3, <1>4

\* What a VM asks for stays asked for.
LEMMA MoreAsked ==
  ASSUME FilesAsked, files' = files, \A vm \in AiaVMs : asked[vm] \subseteq asked'[vm]
  PROVE  FilesAsked'
BY DEF FilesAsked

\* A guest writes a target register.
LEMMA TargetWritten ==
  ASSUME AiaInv, NEW i \in AiaIrqs, NEW k, NEW e \in Eiids, Aia!WriteTarget(i, k, e)
  PROVE  AiaInv'
<1>1. PICK a : a = [file |-> [hart |-> AiaPcpu[i.vm][k], guest |-> i.vm + 1], eiid |-> e]
  OBVIOUS
<1>2. PICK d : d = [file |-> [hart |-> AiaPcpu[0][k], guest |-> 0], eiid |-> 0]  OBVIOUS
<1>3. i.vm \in AiaVMs /\ k \in DOMAIN AiaPcpu[i.vm]
  BY AiaAssumption DEF Aia!WriteTarget
<1>4. a \in MsiTargets /\ a.eiid = e /\ a.file.guest = i.vm + 1 /\ e # 0
  <2>1. AiaPcpu[i.vm][k] \in Aia!Harts  BY <1>3 DEF Aia!Harts
  <2>2. i.vm + 1 \in Aia!Guests  BY <1>3 DEF Aia!Guests
  <2>3. QED BY <1>1, <2>1, <2>2, AiaAssumption DEF MsiTargets, Aia!Files
<1>5. i.vm = 0 => d \in MsiTargets
  <2>1. i.vm = 0 => AiaPcpu[0][k] \in Aia!Harts  BY <1>3 DEF Aia!Harts
  <2>2. QED BY <1>2, <2>1 DEF MsiTargets, Aia!Files, Aia!Guests
<1>6. asked' = [asked EXCEPT ![i.vm] = @ \cup {a}] /\ files' = files
  BY <1>1 DEF Aia!WriteTarget
<1>7. \/ \E t \in {a, d} : Aia!set_target_msi(i, t) /\ (t = a \/ i.vm = 0)
      \/ UNCHANGED <<aplic, vaplic>>
  BY <1>1, <1>2 DEF Aia!WriteTarget, Aia!TargetOf
<1>8. asked' \in [AiaVMs -> SUBSET MsiTargets] /\ \A vm \in AiaVMs : asked[vm] \subseteq asked'[vm]
  BY <1>3, <1>4, <1>6 DEF AiaInv, AiaTypes
<1>9. a \in asked'[i.vm]  BY <1>3, <1>6 DEF AiaInv, AiaTypes
<1>10. FilesAsked'  BY <1>6, <1>8, MoreAsked DEF AiaInv
<1>11. CASE UNCHANGED <<aplic, vaplic>>
  <2>1. AiaTypes'  BY <1>6, <1>8, <1>11 DEF AiaInv, AiaTypes
  <2>2. TargetsAsked'  BY <1>8, <1>11, AiaAssumption DEF AiaInv, TargetsAsked
  <2>3. QED BY <1>10, <2>1, <2>2 DEF AiaInv
<1>12. ASSUME NEW t \in {a, d}, Aia!set_target_msi(i, t), t = a \/ i.vm = 0
       PROVE  AiaInv'
  <2>1. t \in MsiTargets /\ (t.eiid # 0 => t = a)  BY <1>2, <1>4, <1>5, <1>12
  <2>2. PICK A : A = [aplic.target EXCEPT ![i] = t]  OBVIOUS
  <2>3. PICK V : V = [vaplic[i.vm].target EXCEPT ![i] = t]  OBVIOUS
  <2>4. aplic' = [aplic EXCEPT !.target = A]  BY <1>12, <2>2 DEF Aia!set_target_msi
  <2>5. vaplic' = [vaplic EXCEPT ![i.vm].target = V]  BY <1>12, <2>3 DEF Aia!set_target_msi
  <2>6. A \in [AiaIrqs -> MsiTargets] /\ V \in [AiaIrqs -> MsiTargets]
    BY <1>3, <2>1, <2>2, <2>3 DEF AiaInv, AiaTypes
  <2>7. AiaTypes'
    <3>1. aplic' \in [msi : BOOLEAN, on : BOOLEAN, active : SUBSET AiaIrqs,
                      enabled : SUBSET AiaIrqs, pending : SUBSET AiaIrqs,
                      target : [AiaIrqs -> MsiTargets]]
      BY <2>4, <2>6 DEF AiaInv, AiaTypes
    <3>2. vaplic' \in [AiaVMs -> [active : SUBSET AiaIrqs, target : [AiaIrqs -> MsiTargets]]]
      BY <1>3, <2>5, <2>6 DEF AiaInv, AiaTypes
    <3>3. files' \in [Aia!Files -> SUBSET Eiids]  BY <1>6 DEF AiaInv, AiaTypes
    <3>4. QED BY <1>8, <3>1, <3>2, <3>3 DEF AiaTypes
  <2>8. aplic'.target = A  BY <2>4 DEF AiaInv, AiaTypes
  <2>9. vaplic'[i.vm].target = V /\ \A vm \in AiaVMs \ {i.vm} : vaplic'[vm] = vaplic[vm]
    BY <1>3, <2>5 DEF AiaInv, AiaTypes
  <2>10. TargetsAsked'
    <3>1. SUFFICES ASSUME NEW j \in AiaIrqs
                   PROVE  /\ vaplic'[j.vm].target[j] = A[j]
                          /\ A[j].eiid # 0 => /\ A[j].file.guest = j.vm + 1
                                              /\ A[j] \in asked'[j.vm]
      BY <2>8 DEF TargetsAsked
    <3>2. CASE j = i
      <4>1. A[i] = t /\ V[i] = t  BY <1>3, <2>2, <2>3 DEF AiaInv, AiaTypes
      <4>2. QED BY <1>4, <1>9, <2>1, <2>9, <3>2, <4>1
    <3>3. CASE j # i
      <4>1. A[j] = aplic.target[j] /\ V[j] = vaplic[i.vm].target[j] /\ j.vm \in AiaVMs
        BY <1>3, <2>2, <2>3, <3>3, AiaAssumption DEF AiaInv, AiaTypes
      <4>2. vaplic'[j.vm].target[j] = vaplic[j.vm].target[j]  BY <2>9, <4>1
      <4>3. QED BY <1>8, <4>1, <4>2 DEF AiaInv, TargetsAsked
    <3>4. QED BY <3>2, <3>3
  <2>11. QED BY <1>10, <2>7, <2>10 DEF AiaInv
<1>13. QED BY <1>7, <1>11, <1>12

\* Every step of the build with an APLIC.
LEMMA AiaStep == AiaInv /\ [Aia!Next]_aiaVars => AiaInv'
<1> SUFFICES ASSUME AiaInv, [Aia!Next]_aiaVars PROVE AiaInv'  OBVIOUS
<1>1. CASE UNCHANGED aiaVars
  BY <1>1 DEF aiaVars, AiaInv, AiaTypes, TargetsAsked, FilesAsked
<1>2. ASSUME aplic' \in [msi : BOOLEAN, on : BOOLEAN, active : SUBSET AiaIrqs,
                  enabled : SUBSET AiaIrqs, pending : SUBSET AiaIrqs,
                  target : [AiaIrqs -> MsiTargets]],
             vaplic' \in [AiaVMs -> [active : SUBSET AiaIrqs, target : [AiaIrqs -> MsiTargets]]],
             aplic'.target = aplic.target,
             \A vm \in AiaVMs : vaplic'[vm].target = vaplic[vm].target,
             asked' = asked,
             files' \in [Aia!Files -> SUBSET Eiids], FilesAsked'
      PROVE  AiaInv'
  <2>1. TargetsAsked'  BY <1>2, AiaAssumption DEF AiaInv, TargetsAsked
  <2>2. AiaTypes'  BY <1>2 DEF AiaInv, AiaTypes
  <2>3. QED BY <1>2, <2>1, <2>2 DEF AiaInv
<1>3. files' = files /\ asked' = asked => files' \in [Aia!Files -> SUBSET Eiids] /\ FilesAsked'
  BY DEF AiaInv, AiaTypes, FilesAsked
<1>4. CASE Aia!ClearEnables \/ Aia!SetDomain
  BY <1>2, <1>3, <1>4 DEF Aia!ClearEnables, Aia!SetDomain, AiaInv, AiaTypes
<1>5. ASSUME NEW i \in AiaIrqs, NEW k \in 0 .. 1, NEW e \in Eiids, Aia!WriteTarget(i, k, e)
      PROVE  AiaInv'
  BY <1>5, TargetWritten
<1>6. ASSUME NEW i \in AiaIrqs, NEW b \in BOOLEAN, Aia!WriteSource(i, b)
      PROVE  AiaInv'
  <2>1. i.vm \in AiaVMs  BY AiaAssumption
  <2>2. PICK A : A = IF b THEN aplic.active \cup {i} ELSE aplic.active \ {i}  OBVIOUS
  <2>3. PICK V : V = IF b THEN vaplic[i.vm].active \cup {i} ELSE vaplic[i.vm].active \ {i}
    OBVIOUS
  <2>4. aplic' = [aplic EXCEPT !.active = A] /\ vaplic' = [vaplic EXCEPT ![i.vm].active = V]
        /\ files' = files /\ asked' = asked
    BY <1>6, <2>2, <2>3 DEF Aia!WriteSource
  <2>5. A \subseteq AiaIrqs /\ V \subseteq AiaIrqs
    BY <2>1, <2>2, <2>3 DEF AiaInv, AiaTypes
  <2>6. QED BY <1>2, <1>3, <2>1, <2>4, <2>5 DEF AiaInv, AiaTypes
<1>7. ASSUME NEW i \in AiaIrqs, NEW b \in BOOLEAN, Aia!WriteEnableNum(i, b)
      PROVE  AiaInv'
  BY <1>2, <1>3, <1>7 DEF Aia!WriteEnableNum, AiaInv, AiaTypes
<1>8. ASSUME NEW i \in AiaIrqs, Aia!setipnum_le(i) \/ Aia!Raise(i)
      PROVE  AiaInv'
  <2>1. aplic' = [aplic EXCEPT !.pending = @ \cup {i}] /\ UNCHANGED <<vaplic, files, asked>>
    BY <1>8 DEF Aia!setipnum_le, Aia!Raise
  <2>2. QED BY <1>2, <1>3, <2>1 DEF AiaInv, AiaTypes
<1>9. ASSUME NEW i \in AiaIrqs, Aia!SendMsi(i)
      PROVE  AiaInv'
  <2>1. files' \in [Aia!Files -> SUBSET Eiids] /\ FilesAsked'
    BY <1>9, Triggered DEF Aia!SendMsi
  <2>2. QED BY <1>2, <1>9, <2>1 DEF Aia!SendMsi, AiaInv, AiaTypes
<1>10. ASSUME NEW i \in AiaIrqs, Aia!inject_intr(i)
      PROVE  AiaInv'
  <2>1. vaplic[i.vm].target[i] = aplic.target[i]  BY DEF AiaInv, TargetsAsked
  <2>2. files' \in [Aia!Files -> SUBSET Eiids] /\ FilesAsked'
    BY <1>10, <2>1, Triggered DEF Aia!inject_intr
  <2>3. QED BY <1>2, <1>10, <2>2 DEF Aia!inject_intr, AiaInv, AiaTypes
<1>11. ASSUME NEW f \in Aia!Files, NEW e \in Eiids, Aia!Take(f, e)
      PROVE  AiaInv'
  <2>1. asked' = asked /\ files' = [files EXCEPT ![f] = @ \ {e}]  BY <1>11 DEF Aia!Take
  <2>2. files' \in [Aia!Files -> SUBSET Eiids] /\ \A g \in Aia!Files : files'[g] \subseteq files[g]
    BY <2>1 DEF AiaInv, AiaTypes
  <2>3. FilesAsked'  BY <2>1, <2>2 DEF AiaInv, FilesAsked
  <2>4. QED BY <1>2, <1>11, <2>1, <2>2, <2>3 DEF Aia!Take, AiaInv, AiaTypes
<1>12. QED BY <1>1, <1>4, <1>5, <1>6, <1>7, <1>8, <1>9, <1>10, <1>11 DEF Aia!Next

\* What the invariant of the APLICs is for.
LEMMA MsisRight == AiaInv => Aia!MsisOwn
<1> SUFFICES ASSUME AiaInv PROVE Aia!MsisOwn  OBVIOUS
<1>1. ASSUME NEW vm \in AiaVMs, NEW h \in Aia!Harts, NEW e \in Eiids,
             e \in files[[hart |-> h, guest |-> vm + 1]]
      PROVE  [file |-> [hart |-> h, guest |-> vm + 1], eiid |-> e] \in asked[vm]
  <2>1. PICK f : f = [hart |-> h, guest |-> vm + 1]  OBVIOUS
  <2>2. f \in Aia!Files /\ f.guest = vm + 1  BY <2>1 DEF Aia!Files, Aia!Guests
  <2>3. QED BY <1>1, <2>1, <2>2 DEF AiaInv, FilesAsked
<1>2. ASSUME NEW f \in Aia!Files, f.guest = 0
      PROVE  files[f] = {}
  BY <1>2 DEF AiaInv, FilesAsked
<1>3. \A i \in AiaIrqs : vaplic[i.vm].target[i] = aplic.target[i]
  BY DEF AiaInv, TargetsAsked
<1>4. QED BY <1>1, <1>2, <1>3 DEF Aia!MsisOwn

-----------------------------------------------------------------------------
(* Both builds.                                                              *)

\* Both invariants, for a machine with either controller.
LEMMA RiscvInvHolds == RiscvSpec => [](HartInv /\ AiaInv)
<1>1. RiscvInit => HartInv /\ AiaInv  BY HartInitInv, AiaInitInv DEF RiscvInit
<1>2. HartInv /\ AiaInv /\ [RiscvNext]_<<hartVars, aiaVars>> => (HartInv /\ AiaInv)'
  <2> SUFFICES ASSUME HartInv, AiaInv, [RiscvNext]_<<hartVars, aiaVars>>
               PROVE  HartInv' /\ AiaInv'
    OBVIOUS
  <2>1. [HartNext]_hartVars /\ [Aia!Next]_aiaVars  BY DEF RiscvNext
  <2>2. QED BY <2>1, HartStep, AiaStep
<1>3. QED BY <1>1, <1>2, PTL DEF RiscvSpec

\* An interrupt that a RISC-V vCPU has been able to see since it came is
\* signalled to it or will be claimed, and nothing is put off for one that runs.
THEOREM SignalKeptHolds == RiscvSpec => []SignalKept
<1>1. HartInv => SignalKept  BY HartsRight
<1>2. QED BY <1>1, RiscvInvHolds, PTL

\* A RISC-V vCPU is only ever signalled what is its own, and messages reach only
\* the interrupt files whose VM asked for them.
THEOREM OwnSignalsHolds == RiscvSpec => []OwnSignals
<1>1. HartInv /\ AiaInv => OwnSignals  BY HartsRight, MsisRight DEF OwnSignals
<1>2. QED BY <1>1, RiscvInvHolds, PTL

\* The tick of a RISC-V hart stays on while a guest's timer or a second vCPU of
\* the hart needs it.
THEOREM TickStaysOnHolds == RiscvSpec => []TickStaysOn
<1>1. HartInv => TickStaysOn  BY HartsRight
<1>2. QED BY <1>1, RiscvInvHolds, PTL
=============================================================================

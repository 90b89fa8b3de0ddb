----------------------------- MODULE RiscvHart -----------------------------
(***************************************************************************)
(* Interrupts of RISC-V guests in the build with a PLIC: the virtual PLIC  *)
(* of each VM, the physical one behind it, the timer and the software      *)
(* interrupts that guests ask for by SBI calls, and the switch between the *)
(* vCPUs of a hart, which carries the hvip register with it.               *)
(*                                                                         *)
(* A hart runs with interrupts off while it is in the hypervisor, so a     *)
(* handler is one step; only the vPLIC is shared by harts, and an          *)
(* interrupt is enabled at one vCPU.  Guests write priority 1 and          *)
(* threshold 0 or 2, as Linux does when a CPU comes and goes.              *)
(*                                                                         *)
(* The build with the advanced interrupt architecture is in Vaplic.  A     *)
(* machine has either, and RiscvSpec promises the same of both.            *)
(***************************************************************************)
EXTENDS Integers, Sequences, FiniteSets, SequencesExt

CONSTANTS
    Vcpus,          \* records: vm, id and hart
    Irqs,           \* records: n (the number), vm, at (the id of a vCPU), phys
    Started,        \* the vCPUs that run at first
    Timed,          \* vCPUs whose guest uses its timer
    Stoppable,      \* vCPUs whose guest stops and starts them
    Masked,         \* interrupts that guests mask and unmask; the others are
                    \* configured when the behaviour begins
    MaxRaise, MaxMask,
    AiaVMs, AiaPcpu, AiaIrqs, Eiids, MaxMsi         \* of Vaplic

VARIABLES
    s,              \* harts, vCPUs and vPLICs
    phys,           \* the physical PLIC: latched and enabled interrupts
    msgs,           \* IPI messages on their way to each hart
    raised, masks,  \* how often each was raised, asked for or masked
    hidden          \* history: pending ones their vCPU could not see

VARIABLES aplic, vaplic, files, ready, sent, asked  \* Vaplic

hartVars == <<s, phys, msgs, raised, masks, hidden>>
aiaVars == <<aplic, vaplic, files, ready, sent, asked>>

Aia == INSTANCE Vaplic WITH VMs <- AiaVMs, Pcpu <- AiaPcpu, Irqs <- AiaIrqs,
                            MaxRaise <- MaxMsi, raised <- sent

Harts == {v.hart : v \in Vcpus}
None == [vm |-> "none", id |-> 0, hart |-> 0]
Banked == 16 .. 31

\* what is injected besides the interrupts of a PLIC, and the message to start
Pseudo(n) == [n |-> n, vm |-> "none", at |-> 0, phys |-> FALSE]
Timer == Pseudo(62)
IPI == Pseudo(60)
Start == Pseudo(0)

Target(i) == CHOOSE v \in Vcpus : v.vm = i.vm /\ v.id = i.at
OnHart(h, vm) == CHOOSE v \in Vcpus : v.hart = h /\ v.vm = vm

\* A VM has one vCPU at most on a hart.  The vPLIC decodes the contexts of a
\* vCPU with an odd identifier differently, so that it takes no interrupt, and
\* a guest does not stop the vCPU its interrupts go to.  A vCPU that stops turns
\* the tick of its hart off, whoever else needs it: such a hart is its own.
ASSUME RiscvAssumption ==
    /\ IsFiniteSet(Vcpus) /\ Started \subseteq Vcpus
    /\ \A v \in Vcpus : v.id \in Nat /\ v.vm # None.vm
    /\ \A v, w \in Vcpus : v.vm = w.vm /\ (v.id = w.id \/ v.hart = w.hart) => v = w
    /\ \A i \in Irqs :
          /\ i.n \in Nat
          /\ \E v \in Vcpus \ Stoppable : v.vm = i.vm /\ v.id = i.at /\ v.id % 2 = 0
    /\ \A v \in Stoppable, w \in Timed \ Stoppable : v.hart # w.hart

ASSUME AiaAssumption ==
    /\ AiaVMs \subseteq Nat /\ 0 \in AiaVMs /\ 0 \notin Eiids
    /\ \A i \in AiaIrqs : i.vm \in AiaVMs

-----------------------------------------------------------------------------
(* The vPLIC.  A guest addresses context 2 * id + 1; the enable registers    *)
(* and the threshold and claim registers decode it differently.             *)

EnableContext(v) == [mode |-> "machine", hart |-> v.id]
ClaimContext(v) == [mode |-> IF v.id % 2 = 1 THEN "supervisor" ELSE "machine",
                    hart |-> v.id]
Contexts == [mode : {"machine", "supervisor"}, hart : {v.id : v \in Vcpus}]

\* the interrupts a context may take; numbers go up by search order
Takable(S, vm, c) ==
    {i \in Irqs : /\ i.vm = vm /\ S.cnt[i] > 0
                  /\ [vm |-> vm, ctx |-> c, irq |-> i] \in S.enabled
                  /\ S.prio[i] >= S.thr[vm][c]}
get_pending_irq(S, vm, c) ==
    IF Takable(S, vm, c) = {} THEN {}
    ELSE {CHOOSE i \in Takable(S, vm, c) : \A j \in Takable(S, vm, c) : i.n <= j.n}

\* the lines of hvip that interrupts for v raise
Lines(S, v, ints) ==
    (IF ints \cap Irqs # {} /\ get_pending_irq(S, v.vm, EnableContext(v)) # {}
     THEN {"ext"} ELSE {})
    \cup (IF Timer \in ints THEN {"timer"} ELSE {})
    \cup (IF IPI \in ints THEN {"soft"} ELSE {})

\* a set of interrupts for the vCPU that runs here: injected one after the
\* other or all at once, they leave the same state
inject_intr(S, h, ints) ==
    LET S1 == [S EXCEPT !.cnt = [i \in Irqs |-> IF i \in ints THEN S.cnt[i] + 1 ELSE S.cnt[i]]]
    IN [S1 EXCEPT !.hvip[h] = @ \cup Lines(S1, S.active[h], ints),
                  !.stie[h] = @ /\ Timer \notin ints]

\* IntCtrl::vm_inject: at once when the VM runs here, else when it runs again
vm_inject(S, h, v, ints) ==
    IF S.active[h] # None /\ S.active[h].vm = v.vm THEN inject_intr(S, h, ints)
    ELSE [S EXCEPT !.list[v] = @ \cup ints]

-----------------------------------------------------------------------------
(* The scheduler of a hart and what goes with a vCPU *)

inject_int_inlist(S, h, v) == vm_inject([S EXCEPT !.list[v] = {}], h, v, S.list[v])

\* mutant: the context is restored before the vCPU is made active
RestoreFirst(S, h, v) ==
    LET p == S.active[h]
        S1 == IF p = None THEN S
              ELSE [S EXCEPT !.state[p] = "Ready", !.saved[p] = S.hvip[h]]
        S2 == inject_int_inlist([S1 EXCEPT !.hvip[h] = S1.saved[v]], h, v)
    IN [S2 EXCEPT !.active[h] = v, !.state[v] = "Running"]

schedule_to(S, h, v) ==
    LET p == S.active[h]
        S1 == IF p = None THEN S
              ELSE [S EXCEPT !.state[p] = "Ready", !.saved[p] = S.hvip[h]]
        S2 == [S1 EXCEPT !.active[h] = v, !.state[v] = "Running"]
    IN inject_int_inlist([S2 EXCEPT !.hvip[h] = S2.saved[v]], h, v)

\* the index is 0-based, as in SchedulerRR
do_schedule(S, h) ==
    LET n == Len(S.queue[h])
        at == (S.idx[h] + 1) % n
    IN IF n = 0 THEN S
       ELSE schedule_to([S EXCEPT !.idx[h] = at], h, S.queue[h][at + 1])

wakeup(S, h, v) ==
    LET S1 == [S EXCEPT !.state[v] = "Ready", !.queue[h] = Append(@, v)]
        n == Len(S1.queue[h])
        S2 == IF n > 1 THEN [S1 EXCEPT !.stie[h] = TRUE] ELSE S1
    IN IF n = 1 THEN do_schedule(S2, h) ELSE S2

\* the vCPU that sleeps is the active one; its registers are not stored
sleep(S, h, v) ==
    LET at == CHOOSE k \in DOMAIN S.queue[h] : S.queue[h][k] = v
        S1 == [S EXCEPT !.queue[h] = RemoveAt(@, at), !.active[h] = None,
                        !.state[v] = "Sleep"]
        S2 == IF Len(S1.queue[h]) <= 1 THEN [S1 EXCEPT !.stie[h] = FALSE] ELSE S1
    IN do_schedule(S2, h)

interrupt_vm_inject(S, h, v, int) ==
    vm_inject(IF S.state[v] = "Sleep" THEN wakeup(S, h, v) ELSE S, h, v, {int})

-----------------------------------------------------------------------------
HartInit ==
    /\ LET first == [h \in Harts |-> SetToSeq({v \in Started : v.hart = h})]
           run == {first[h][1] : h \in {g \in Harts : first[g] # <<>>}}
       IN s = [active |-> [h \in Harts |-> IF first[h] = <<>> THEN None ELSE first[h][1]],
               queue  |-> first,
               idx    |-> [h \in Harts |-> 0],
               hvip   |-> [h \in Harts |-> {}],
               stie   |-> [h \in Harts |-> Len(first[h]) > 1],
               state  |-> [v \in Vcpus |-> IF v \in run THEN "Running"
                                           ELSE IF v \in Started THEN "Ready" ELSE "Invalid"],
               saved  |-> [v \in Vcpus |-> {}],
               list   |-> [v \in Vcpus |-> {}],
               timer  |-> [v \in Vcpus |-> "idle"],
               claims |-> [v \in Vcpus |-> FALSE],
               cnt    |-> [i \in Irqs |-> 0],
               prio   |-> [i \in Irqs |-> IF i \in Masked THEN 0 ELSE 1],
               enabled |-> {[vm |-> i.vm, ctx |-> EnableContext(Target(i)), irq |-> i] :
                               i \in Irqs \ Masked},
               thr    |-> [m \in {v.vm : v \in Vcpus} |-> [c \in Contexts |-> 0]]]
    /\ LET P == {i \in Irqs \ Masked : i.phys}
       IN phys = [latched |-> {},
                  enabled |-> {[irq |-> i, hart |-> Target(i).hart] : i \in P},
                  prio    |-> [i \in Irqs |-> IF i \in P THEN 1 ELSE 0]]
    /\ msgs = [h \in Harts |-> {}]
    /\ raised = [i \in Irqs \cup {Timer, IPI, Start} |-> 0]
    /\ masks = [i \in Irqs |-> 0]
    /\ hidden = {}

Spend(i) == raised[i] < MaxRaise /\ raised' = [raised EXCEPT ![i] = @ + 1]

Visible(S, i) == i \in Takable(S, i.vm, EnableContext(Target(i)))

\* every step keeps the history up to date
Becomes(S) ==
    /\ s' = S
    /\ hidden' = {i \in Irqs : S.cnt[i] > 0 /\ (i \in hidden \/ ~Visible(S, i))}

-----------------------------------------------------------------------------
(* The devices and the physical PLIC *)

RaiseLine(i) ==
    /\ i.phys /\ i \notin phys.latched /\ Spend(i)
    /\ phys' = [phys EXCEPT !.latched = @ \cup {i}]
    /\ UNCHANGED <<s, msgs, masks, hidden>>

\* a device of the hypervisor interrupts by a message to the vCPU's hart
Emulated(i) ==
    /\ ~i.phys /\ Spend(i)
    /\ msgs' = [msgs EXCEPT ![Target(i).hart] = @ \cup {[vm |-> i.vm, int |-> i]}]
    /\ UNCHANGED <<s, phys, masks, hidden>>

\* interrupt_handler for an interrupt that the hypervisor does not reserve
interrupt_handler(S, h, i) ==
    LET v == OnHart(h, i.vm)
    IN IF i.n \in Banked /\ S.active[h] # None
       THEN IF S.active[h].vm = i.vm THEN interrupt_vm_inject(S, h, S.active[h], i) ELSE S
       ELSE IF S.state[v] \in {"Invalid", "Sleep"} THEN S
       ELSE interrupt_vm_inject(S, h, v, i)

\* claim and completion come before the guest has seen anything
TakeExternal(h) ==
    LET C == {i \in phys.latched : /\ [irq |-> i, hart |-> h] \in phys.enabled
                                   /\ phys.prio[i] > 0}
    IN /\ C # {}
       /\ LET i == CHOOSE j \in C : \A k \in C : j.n <= k.n
          IN /\ phys' = [phys EXCEPT !.latched = @ \ {i}]
             /\ Becomes(interrupt_handler(s, h, i))
       /\ UNCHANGED <<msgs, raised, masks>>

\* mutant: the next tick is asked for before the guest's timer is looked at
NotifiesFirst(S, h) ==
    LET S1 == do_schedule([S EXCEPT !.stie[h] = FALSE], h)
        v == S1.active[h]
        S2 == [S1 EXCEPT !.stie[h] = TRUE]
    IN IF v # None /\ S1.timer[v] = "expired" THEN vm_inject(S2, h, v, {Timer}) ELSE S2

timer_irq_handler(S, h) ==
    LET S1 == do_schedule([S EXCEPT !.stie[h] = FALSE], h)
        v == S1.active[h]
        S2 == IF v # None /\ S1.timer[v] = "expired" THEN vm_inject(S1, h, v, {Timer}) ELSE S1
    IN [S2 EXCEPT !.stie[h] = TRUE]

Tick(h) ==
    /\ s.stie[h]
    /\ Becomes(timer_irq_handler(s, h))
    /\ UNCHANGED <<phys, msgs, raised, masks>>

\* interrupt_inject_ipi_handler and psci_ipi_handler
Deliver(h, m) ==
    /\ m \in msgs[h]
    /\ msgs' = [msgs EXCEPT ![h] = @ \ {m}]
    /\ LET v == OnHart(h, m.vm)
       IN Becomes(IF m.int # Start THEN interrupt_vm_inject(s, h, v, m.int)
                  ELSE IF s.state[v] # "Invalid" THEN s
                  ELSE do_schedule(wakeup(s, h, v), h))
    /\ UNCHANGED <<phys, raised, masks>>

-----------------------------------------------------------------------------
(* The guest that runs on a hart *)

Runs(v) == s.active[v.hart] = v

\* set_priority: the physical priority is 1 whatever the guest writes
WritePriority(v, i) ==
    /\ Runs(v) /\ i.vm = v.vm /\ s.prio[i] = 0
    /\ Becomes([s EXCEPT !.prio[i] = 1])
    /\ phys' = IF i.phys THEN [phys EXCEPT !.prio[i] = 1] ELSE phys
    /\ UNCHANGED <<msgs, raised, masks>>

\* set_enable and clear_enable of the guest's own vCPU
WriteEnable(v, i, on) ==
    LET e == [vm |-> i.vm, ctx |-> EnableContext(v), irq |-> i]
        p == [irq |-> i, hart |-> v.hart]
    IN /\ Runs(v) /\ v = Target(i) /\ s.prio[i] > 0
       /\ on # (e \in s.enabled)
       /\ on \/ (i \in Masked /\ masks[i] < MaxMask)
       /\ Becomes([s EXCEPT !.enabled = IF on THEN @ \cup {e} ELSE @ \ {e}])
       /\ phys' = IF ~i.phys THEN phys
                  ELSE [phys EXCEPT !.enabled = IF on THEN @ \cup {p} ELSE @ \ {p}]
       /\ masks' = IF on THEN masks ELSE [masks EXCEPT ![i] = @ + 1]
       /\ UNCHANGED <<msgs, raised>>

WriteThreshold(v, t) ==
    /\ Runs(v) /\ v \in Stoppable
    /\ s.thr[v.vm][ClaimContext(v)] # t
    /\ Becomes([s EXCEPT !.thr[v.vm][ClaimContext(v)] = t])
    /\ UNCHANGED <<phys, msgs, raised, masks>>

\* the guest's handler claims until it is told 0; completion does nothing
TrapExternal(v) ==
    /\ Runs(v) /\ "ext" \in s.hvip[v.hart] /\ ~s.claims[v]
    /\ Becomes([s EXCEPT !.claims[v] = TRUE])
    /\ UNCHANGED <<phys, msgs, raised, masks>>

get_claim(S, v) ==
    LET got == get_pending_irq(S, v.vm, ClaimContext(v))
    IN [S EXCEPT !.hvip[v.hart] = @ \ {"ext"},
                 !.claims[v] = got # {},
                 !.cnt = [i \in Irqs |-> IF i \in got THEN @[i] - 1 ELSE @[i]]]

Claim(v) ==
    /\ Runs(v) /\ s.claims[v]
    /\ Becomes(get_claim(s, v))
    /\ UNCHANGED <<phys, msgs, raised, masks>>

\* VTimer::set_timer, at first and whenever the timer interrupt comes
SetTimer(v) ==
    /\ Runs(v) /\ v \in Timed
    /\ s.timer[v] = "idle" \/ "timer" \in s.hvip[v.hart]
    /\ Becomes([s EXCEPT !.hvip[v.hart] = @ \ {"timer"}, !.stie[v.hart] = TRUE,
                         !.timer[v] = "armed"])
    /\ UNCHANGED <<phys, msgs, raised, masks>>

Expire(v) ==
    /\ s.timer[v] = "armed" /\ Spend(Timer)
    /\ Becomes([s EXCEPT !.timer[v] = "expired"])
    /\ UNCHANGED <<phys, msgs, masks>>

\* VIpi::send_ipi to a hart that the guest has started
SendIpi(v, w) ==
    /\ Runs(v) /\ w.vm = v.vm /\ w # v /\ s.state[w] \in {"Ready", "Running"}
    /\ Spend(IPI)
    /\ msgs' = [msgs EXCEPT ![w.hart] = @ \cup {[vm |-> v.vm, int |-> IPI]}]
    /\ UNCHANGED <<s, phys, masks, hidden>>

TrapSoft(v) ==
    /\ Runs(v) /\ "soft" \in s.hvip[v.hart]
    /\ Becomes([s EXCEPT !.hvip[v.hart] = @ \ {"soft"}])
    /\ UNCHANGED <<phys, msgs, raised, masks>>

\* VHsm::hart_start and VHsm::hart_stop
HartStart(v, w) ==
    /\ Runs(v) /\ w.vm = v.vm /\ w # v /\ s.state[w] \in {"Invalid", "Sleep"}
    /\ Spend(Start)
    /\ msgs' = [msgs EXCEPT ![w.hart] = @ \cup {[vm |-> v.vm, int |-> Start]}]
    /\ UNCHANGED <<s, phys, masks, hidden>>

HartStop(v) ==
    /\ Runs(v) /\ v \in Stoppable /\ ~s.claims[v]
    /\ Becomes(sleep(s, v.hart, v))
    /\ UNCHANGED <<phys, msgs, raised, masks>>

Handles(v) == TrapExternal(v) \/ Claim(v) \/ SetTimer(v) \/ TrapSoft(v)
Messages(h) == \E m \in msgs[h] : Deliver(h, m)

HartNext ==
    \/ \E i \in Irqs : RaiseLine(i) \/ Emulated(i)
    \/ \E h \in Harts : TakeExternal(h) \/ Tick(h) \/ Messages(h)
    \/ \E v \in Vcpus :
          \/ Handles(v) \/ Expire(v) \/ HartStop(v)
          \/ \E i \in Irqs : WritePriority(v, i) \/ \E on \in BOOLEAN : WriteEnable(v, i, on)
          \/ \E t \in {0, 2} : WriteThreshold(v, t)
          \/ \E w \in Vcpus : SendIpi(v, w) \/ HartStart(v, w)

RiscvInit == HartInit /\ Aia!Init
RiscvNext ==
    \/ HartNext /\ UNCHANGED aiaVars
    \/ Aia!Next /\ UNCHANGED hartVars

RiscvSpec == RiscvInit /\ [][RiscvNext]_<<hartVars, aiaVars>>

-----------------------------------------------------------------------------
hvip(v) == IF Runs(v) THEN s.hvip[v.hart] ELSE s.saved[v]

\* An interrupt that its vCPU has been able to see ever since it came is
\* signalled to that vCPU, or its handler will claim once more; what was put off
\* while another VM ran is not put off any longer than that (vplic.rs,
\* schedule_to, inject_int_inlist).
SignalKept ==
    /\ \A i \in Irqs \ hidden : s.cnt[i] > 0 =>
          "ext" \in hvip(Target(i)) \/ s.claims[Target(i)]
    /\ \A v \in Vcpus : Runs(v) => s.list[v] = {}

\* A vCPU is only ever signalled what is its own: its expired timer, a software
\* interrupt of its VM, a pending interrupt of its own; and messages reach only
\* files whose VM asked for them (context_vm_store, vaplic.rs).
OwnSignals ==
    /\ \A v \in Vcpus \ Stoppable :
          /\ "timer" \in hvip(v) => s.timer[v] = "expired"
          /\ "soft" \in hvip(v) => \E w \in Vcpus \ {v} : w.vm = v.vm
          /\ "ext" \in hvip(v) => \E i \in Irqs : Target(i) = v /\ s.cnt[i] > 0
    /\ Aia!MsisOwn

\* A guest's timer is looked at by the tick of its hart alone: while one that was
\* asked for is not signalled yet, and while vCPUs share a hart, the tick stays
\* on (timer_irq_handler, set_timer, sleep, wakeup).
TickStaysOn ==
    /\ \A v \in Vcpus \ Stoppable :
          s.timer[v] # "idle" /\ "timer" \notin hvip(v) => s.stie[v.hart]
    /\ \A h \in Harts : Len(s.queue[h]) > 1 => s.stie[h]
=============================================================================

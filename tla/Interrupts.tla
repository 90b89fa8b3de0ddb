----------------------------- MODULE Interrupts -----------------------------
(***************************************************************************)
(* The virtual interrupt controllers on small machines, one to a           *)
(* behaviour:                                                              *)
(*   "gic"   one of the VMs below with the GIC of its version;             *)
(*   "plic"  two RISC-V VMs that share a hart, with PLICs;                 *)
(*   "sbi"   the timer, IPIs, start and stop of their vCPUs;               *)
(*   "aia"   two VMs with APLICs that send messages.                       *)
(*                                                                         *)
(* Physical interrupts are 27 (private) and 40 (shared).  A core has two   *)
(* list registers, so that three interrupts on one core overflow them.     *)
(***************************************************************************)
EXTENDS GicHardware, RiscvHart

VARIABLES question

allVars == <<question, vars, hartVars, aiaVars>>

Vcpu(vm, id, hart) == [vm |-> vm, id |-> id, hart |-> hart]
Irq(n, vm, phy) == [n |-> n, vm |-> vm, at |-> 0, phys |-> phy]
FirstA == Vcpu("A", 0, 0)
SecondA == Vcpu("A", 1, 1)
OnlyB == Vcpu("B", 0, 0)

MCVcpus == {FirstA, SecondA, OnlyB}
MCStarted == {FirstA, OnlyB}
MCStoppable == {SecondA}
MCIrqs == {Irq(1, "A", TRUE), Irq(2, "B", TRUE), Irq(3, "A", FALSE)}
MCMasked == {Irq(1, "A", TRUE)}
MCAiaPcpu == [vm \in {0, 1} |-> IF vm = 0 THEN [k \in {0, 1} |-> k] ELSE [k \in {0} |-> 1]]
MCAiaIrqs == {[n |-> 1, vm |-> 0, phys |-> FALSE], [n |-> 2, vm |-> 1, phys |-> TRUE]}

V2 == INSTANCE Vgic
V3 == INSTANCE VgicV3

Init ==
    /\ question \in {"gic", "plic", "sbi", "aia"}
    /\ V2!Init \/ V3!Init
    /\ question # "gic" => g.vm = CHOOSE vm \in Vms : TRUE
    /\ RiscvInit

\* what guests use of a machine: the messages of an APLIC; with a PLIC the
\* interrupts of devices, or one of an emulated device, the SBI calls and the
\* second vCPU
UsedFor ==
    /\ IF question = "aia" THEN UNCHANGED hartVars ELSE UNCHANGED aiaVars
    /\ question = "plic" =>
          /\ \A p \in {Timer, IPI, Start} : raised'[p] = 0
          /\ \A v \in Vcpus : s'.timer[v] = "idle"
    /\ question = "sbi" =>
          /\ \A i \in DOMAIN raised : raised'[i] <= IF i.phys THEN 0 ELSE 1
          /\ s'.prio = s.prio

Next ==
    /\ UNCHANGED question
    /\ IF question # "gic" THEN UNCHANGED vars
       ELSE \/ g.vm.v = 2 /\ V2!Next
            \/ g.vm.v = 3 /\ V3!Next
    /\ IF question = "gic" THEN UNCHANGED <<hartVars, aiaVars>> ELSE RiscvNext /\ UsedFor

Spec == Init /\ [][Next]_allVars

-----------------------------------------------------------------------------

Vm(v, cpus, ids, wids, home, uses) ==
    [v |-> v, cpus |-> cpus, ids |-> ids, wids |-> wids, home |-> home,
     uses |-> uses, prompt |-> TRUE]

\* one core and more interrupts than list registers
Crowded(v, uses) == Vm(v, {0}, {32, 33, 34}, {32}, {0}, uses)

\* one core and as many interrupts as list registers
Single(v, uses) == Vm(v, {0}, {32, 33}, {32}, {0}, uses)

\* two cores and one interrupt
Alone(v, uses) == Vm(v, {0, 1}, {32}, {32}, {0}, uses)

\* two cores, shared interrupts that go to core 0
Pair(v, uses) == Vm(v, {0, 1}, {32, 33}, {32}, {0}, uses)

\* ... one of them physical
HwPair(v, uses) == Vm(v, {0, 1}, {32, 40}, {40}, {0}, uses)

\* one core, a private and a shared physical interrupt and an emulated one
Hw(v, uses) == Vm(v, {0}, {27, 32, 40}, {27, 40}, {0}, uses)

\* shared interrupts that go to either core
Either(v) == Vm(v, {0, 1}, {32, 33}, {}, {0, 1}, {})

\* ... and the guest sets one of them pending on either core itself
Contended(v) == Vm(v, {0, 1}, {33}, {32}, {0, 1}, {"pendr"})

\* a guest that sets its interrupts up: targets first, then the enable bit
Fresh(v) == Vm(v, {0, 1}, {32}, {32}, {}, {"setup"})

\* SGIs between two cores
Sgis(v, uses) == Vm(v, {0, 1}, {0}, {0}, {0}, uses)

AllVms ==
    {Crowded(2, {"pendr"}), Single(2, {"activer"}), Single(2, {"ipriorityr"}),
     Pair(2, {"pendr"}), Alone(2, {"icfgr"}),
     HwPair(2, {"isenabler", "icenabler"}), Hw(2, {}), Either(2), Fresh(2),
     Sgis(2, {"ipi"}), Alone(2, {"ctlr"}),
     Crowded(3, {}), Single(3, {"activer"}), Single(3, {"ipriorityr"}),
     Pair(3, {"pendr"}), Alone(3, {"icfgr"}),
     HwPair(3, {"isenabler", "icenabler"}), Hw(3, {}), Contended(3), Fresh(3),
     Sgis(3, {"sgir"}), Alone(3, {"ctlr"})}

-----------------------------------------------------------------------------
(* Properties.                                                             *)

LrsOf(k) == {<<c, l>> \in Cores \X Lrs :
               Key(c, g.lr[c][l].id) = k /\ g.lr[c][l].state # {}}

Targets(k) ==
    IF g.vm.v = 2 THEN g.int[k].targets
    ELSE {c \in Cores : V3!vgic_int_vcpu_is_target(g, c, k)}

\* After any interleaving of register writes, messages, maintenance interrupts
\* and EOIs on all cores an interrupt is in one list register at most, that
\* register is the one its record names, on the core that owns it; the guest
\* handles it on one core at a time; and a physical interrupt in a list
\* register is active in the GIC, so that it is not taken a second time
\* (vgic.rs, vgicv3.rs: write_lr, remove_lr, vgic_int_yield_owner, inject).
OneHolder ==
    \A k \in Keys :
        /\ \A a, b \in LrsOf(k) : a = b
        /\ \A at \in LrsOf(k) : /\ g.int[k].in_lr
                                /\ g.int[k].owner = at[1]
                                /\ g.int[k].lr = at[2]
                                /\ IsHw(k) => "act" \in g.phys[k]
        /\ g.int[k].in_lr => g.int[k].owner # NoCore
        /\ \A c, d \in Cores : k \in g.taken[c] /\ k \in g.taken[d] => c = d

Routed(k) ==
    \E c \in Targets(k) : \E n \in DOMAIN g.msgs[c] :
        g.msgs[c][n].ev = "Route" /\ g.msgs[c][n].id = k[2]

ToBeRefilled(k) ==
    \E c \in g.vm.cpus : k \in ToSet(g.pend[c]) /\ g.npie[c]

\* A pending and enabled interrupt outside the list registers is not forgotten:
\* a message to one of its targets is on its way, or it is on the list of a
\* core that has asked for a maintenance interrupt (route, add_lr, remove_lr,
\* update_int_list).
PendingKept ==
    \A k \in Keys :
        /\ "pend" \in g.int[k].state
        /\ g.int[k].enabled
        /\ Targets(k) # {}
        /\ ~IsSgi(k[2])
        => Routed(k) \/ ToBeRefilled(k)

\* an SGI of version 2 that waits behind one from another sender has a list
\* register whose EOI brings it in, or is to be refilled
SgiKept ==
    \A c \in g.vm.cpus : \A id \in {i \in Ids : IsSgi(i)} :
        g.sgis[c][id].pend # {} =>
          \/ \E l \in Lrs : g.lr[c][l].id = id /\ g.lr[c][l].eoi
          \/ ToBeRefilled(Key(c, id))

\* on one core the lists of spilled interrupts of version 2 are exact: a list
\* holds the interrupts in that state, each of them once (update_int_list)
ListsExact ==
    g.vm.v = 2 /\ g.vm.cpus = {0} =>
        /\ IsInjective(g.pend[0]) /\ IsInjective(g.act[0])
        /\ ToSet(g.pend[0]) = {k \in Keys : "pend" \in g.int[k].state}
        /\ ToSet(g.act[0]) = {k \in Keys : "act" \in g.int[k].state}

\* Nothing the guest is waiting for is forgotten: shared interrupts (in version
\* 3 as long as there are list registers enough), SGIs from two senders, and
\* what is on the lists of one core, with nothing left there that is over
\* (vgic.rs: sgi_set_pend, write_lr, handle_trapped_eoir, update_int_list).
NothingForgotten ==
    /\ g.vm.v = 2 \/ Cardinality(g.vm.ids) <= NumLrs => PendingKept
    /\ g.vm.v = 2 => SgiKept
    /\ ListsExact

\* the interrupt whose lock write_lr would take while it holds k's
Prev(c, k) ==
    IF ~g.int[k].enabled \/ g.int[k].in_lr \/ FreeLrs(g, c) = {} THEN k
    ELSE Key(c, g.curr[c][Min(FreeLrs(g, c))])

LockCycle ==
    \E c, d \in g.vm.cpus : \E j, k \in Keys :
        /\ c # d /\ j # k
        /\ CanOwn(g, c, j) /\ CanOwn(g, d, k)
        /\ Prev(c, j) = k /\ Prev(d, k) = j

\* the core that owns what core c is spinning for
SpinsFor(c) ==
    IF g.spin[c] = "no" THEN {}
    ELSE {g.int[V3!Urgent(g, V3!Spilled(g, c, g.spin[c] = "np"))].owner} \ {NoCore}

\* Cores do not wait for each other for ever: with one target per interrupt no
\* two of them can hold an interrupt's lock each and want the other's in
\* write_lr (vgic.rs:648), and a core that spins in refill_lrs of version 3
\* waits for one that does not (vgicv3.rs:1789).
CoresNotStuck ==
    /\ (\A k \in Keys : Cardinality(Targets(k)) <= 1) => ~LockCycle
    /\ g.vm.v = 3 =>
         \A c \in g.vm.cpus : \A d \in SpinsFor(c) : g.spin[d] = "no"
=============================================================================

------------------------------- MODULE VgicV3 -------------------------------
(***************************************************************************)
(* The virtual GICv3 of one VM (arch/aarch64/vgicv3.rs).  It has the       *)
(* ownership protocol of the virtual GICv2; it differs in how an interrupt *)
(* names its target (one core, or any), in the choice of the list register *)
(* to reuse, in what goes on the lists of spilled interrupts, in the SGIs  *)
(* (a system register, with no record of the sender), and in the refill:   *)
(* a core that meets an interrupt another core owns tries again, in EL2,   *)
(* until that core lets go of it.                                          *)
(***************************************************************************)
EXTENDS GicHardware

AnyCore == -2           \* the IRM bit of a route: any core of the VM
NoRoute == -1           \* GICD_IROUTER_INV: no core

\* the physical route of a route written on core c
PhysRoute(c, r) == IF r = AnyCore THEN c ELSE r

\* VgicIntInnerMut::new and priv_new: a private interrupt stays with the
\* redistributor of its core, a shared one has the route r
NewRoute(k, r) ==
    IF IsPriv(k[2]) THEN [route |-> NoRoute, phys |-> k[1]]
    ELSE [route |-> r, phys |-> PhysRoute(Min(Cores), r)]

Init ==
    \E vm \in {v \in Vms : v.v = 3} :
    LET r == IF vm.home = {} THEN NoRoute
             ELSE IF Cardinality(vm.home) = 1 THEN Min(vm.home) ELSE AnyCore
    IN  g = [int  |-> [k \in Keys |->
                        NewRoute(k, r) @@ NewInt(k, vm.home)],
             spin |-> [c \in Cores |-> "no"]]   \* refill_lrs is trying again
              @@ NewState(vm)

-----------------------------------------------------------------------------
(* Targets and ownership.                                                  *)

vgic_broadcast(s, k) == s.int[k].route = AnyCore

vgic_int_vcpu_is_target(s, c, k) ==
    s.int[k].phys = c \/ (~IsPriv(k[2]) /\ vgic_broadcast(s, k))

vgic_int_has_other_target(s, c, k) ==
    /\ ~IsPriv(k[2])
    /\ vgic_broadcast(s, k) \/ s.int[k].phys \notin {c, NoRoute}

vgic_int_ptarget_mask(s, c, k) ==
    IF vgic_broadcast(s, k) THEN s.vm.cpus \ {c} ELSE {s.int[k].phys}

vgic_get_state(s, c, k) ==
    IF gich_get_lr(s, c, k) THEN s.lr[c][s.int[k].lr].state ELSE s.int[k].state

\* private interrupts lose their owner too; vgic_owns does not ask for it
vgic_int_yield_owner(s, c, k) ==
    IF /\ vgic_owns(s, c, k)
       /\ ~s.int[k].in_lr
       /\ "act" \notin vgic_get_state(s, c, k)
    THEN Put(s, k, [owner |-> NoCore])
    ELSE s

-----------------------------------------------------------------------------
(* List registers.                                                         *)

\* k leaves its list register r with the state it has there
Unload(s, c, k, r) ==
    update_int_list([s EXCEPT !.lr[c][s.int[k].lr] = EmptyLr,
                              !.int[k].in_lr = FALSE,
                              !.int[k].state = r.state,
                              !.npie[c] = @ \/ ("pend" \in r.state /\ s.int[k].enabled)],
                    c, k)

remove_lr(s, c, k) ==
    IF ~vgic_owns(s, c, k) \/ ~s.int[k].in_lr THEN s
    ELSE IF gich_get_lr(s, c, k) THEN Unload(s, c, k, s.lr[c][s.int[k].lr])
    ELSE Put(s, k, [in_lr |-> FALSE])

\* the interrupt that was in list register l is not there any more; a private
\* one is not told
LetGo(s, c, k, l) ==
    LET prev == Key(c, s.curr[c][l]) IN
    IF /\ prev # k
       /\ ~IsPriv(prev[2])
       /\ vgic_owns(s, c, prev)
       /\ s.int[prev].in_lr
       /\ s.int[prev].lr = l
    THEN vgic_int_yield_owner(Put(s, prev, [in_lr |-> FALSE]), c, prev)
    ELSE s

Load(s, c, k, l, st) ==
    update_int_list(
        [Put(s, k, [state |-> {}, in_lr |-> TRUE, lr |-> l]) EXCEPT
           !.curr[c][l] = k[2],
           !.lr[c][l]   = [EmptyLr EXCEPT
               !.id    = k[2],
               !.prio  = s.int[k].prio,
               !.hw    = IsHw(k),
               !.eoi   = ~IsHw(k) /\ ~IsPriv(k[2]),
               !.state = IF IsHw(k) /\ st = {"pend", "act"} THEN {"act"} ELSE st]],
        c, k)

LoadNow(s, c, k, l) == Load(s, c, k, l, vgic_get_state(s, c, k))

write_lr(s, c, k, l) == LoadNow(LetGo(s, c, k, l), c, k, l)

\* priority and number, the smaller the more urgent
Rank(s, k)  == <<s.int[k].prio, k[2]>>
After(a, b) == a[1] > b[1] \/ (a[1] = b[1] /\ a[2] > b[2])

\* the LR to take when none is free: the least urgent of those less urgent than
\* k, among the pending ones if there are two, else among the active ones
Victim(s, c, k) ==
    LET rank(l) == <<s.lr[c][l].prio, s.lr[c][l].id>>
        acts    == {l \in Lrs : "act" \in s.lr[c][l].state}
        pends   == {l \in Lrs : s.lr[c][l].state = {"pend"}}
        worse   == {l \in (IF Cardinality(pends) > 1 THEN pends ELSE acts) :
                      After(rank(l), Rank(s, k))}
    IN  {l \in worse : \A m \in worse : ~After(rank(m), rank(l))}

\* take list register l for k, from the interrupt spill
Replace(s, c, k, l, spill) ==
    LoadNow(LetGo(vgic_int_yield_owner(remove_lr(s, c, spill), c, spill), c, k, l),
            c, k, l)

add_lr(s, c, k) ==
    IF ~s.int[k].enabled \/ s.int[k].in_lr THEN s
    ELSE IF FreeLrs(s, c) # {} THEN write_lr(s, c, k, Min(FreeLrs(s, c)))
    ELSE IF Victim(s, c, k) # {}
         THEN Replace(s, c, k, Min(Victim(s, c, k)),
                      Key(c, s.lr[c][Min(Victim(s, c, k))].id))
         ELSE [s EXCEPT !.npie[c] = @ \/ "pend" \in vgic_get_state(s, c, k)]

\* ask the other targets to take an interrupt that found no place here
AskOthers(s, c, k) ==
    IF ~s.int[k].in_lr /\ vgic_int_has_other_target(s, c, k)
    THEN Send(vgic_int_yield_owner(s, c, k),
              vgic_int_ptarget_mask(s, c, k) \ {c}, Msg("Route", k, 0))
    ELSE s

route(s, c, k) ==
    IF s.int[k].state = {} \/ ~s.int[k].enabled THEN s
    ELSE AskOthers(IF vgic_int_vcpu_is_target(s, c, k) THEN add_lr(s, c, k) ELSE s,
                   c, k)

-----------------------------------------------------------------------------
(* The operations of the distributor and the redistributors, on core c.    *)

\* the shape of all of them: own the interrupt, act and yield, or ask the owner
Owned(s, c, k, Op(_), m) ==
    IF CanOwn(s, c, k)
    THEN vgic_int_yield_owner(Op(vgic_int_get_owner(s, c, k)), c, k)
    ELSE Send(s, {s.int[k].owner}, m)

set_enable(s, c, id, en) ==
    LET k     == Key(c, id)
        Op(t) == route(IF t.int[k].enabled = en THEN t
                       ELSE remove_lr(Put(t, k, [enabled |-> en]), c, k), c, k)
    IN  Owned(s, c, k, Op, Msg("SetEn", k, en))

\* the state of k with one bit set or cleared
WithBit(s, k, bit, on) ==
    Put(s, k, [state |-> IF on THEN s.int[k].state \cup {bit}
                         ELSE s.int[k].state \ {bit}])

SetPhys(s, k, Phys(_)) ==
    IF IsHw(k) THEN [s EXCEPT !.phys[k] = Phys(s.int[k].state)] ELSE s

\* the lists of spilled interrupts are not brought up to date here
SetState(s, c, k, bit, on, Phys(_)) ==
    route(SetPhys(WithBit(remove_lr(s, c, k), k, bit, on), k, Phys), c, k)

set_pend(s, c, id, pend) ==
    LET k        == Key(c, id)
        Phys(st) == st
        Op(t)    == SetState(t, c, k, "pend", pend, Phys)
    IN  Owned(s, c, k, Op, Msg("SetPend", k, pend))

\* a pending one is kept active in the GIC; the owner is sent a SetPend message
set_active(s, c, id, act) ==
    LET k        == Key(c, id)
        Phys(st) == IF st = {"pend"} THEN {"act"} ELSE st
        Op(t)    == SetState(t, c, k, "act", act, Phys)
    IN  Owned(s, c, k, Op, Msg("SetPend", k, act))

set_icfgr(s, c, id, cfg) ==
    LET k     == Key(c, id)
        Op(t) == route(Put(t, k, [cfg |-> cfg]), c, k)
    IN  Owned(s, c, k, Op, Msg("SetCfg", k, cfg))

set_prio(s, c, id, prio) ==
    LET k      == Key(c, id)
        Out(t) == Put(remove_lr(t, c, k), k, [prio |-> prio])
        Op(t)  == IF t.int[k].prio = prio THEN t
                  ELSE IF prio <= t.int[k].prio THEN route(Out(t), c, k)
                  ELSE Out(t)
    IN  Owned(s, c, k, Op, Msg("SetPrio", k, prio))

\* set_phys_route and set_route, by core c
SetRoute(s, c, k, r) == Put(s, k, [route |-> r, phys |-> PhysRoute(c, r)])

\* the owner is sent a Route message, in which the route r is not used
vgicd_set_irouter(s, c, id, r) ==
    LET k     == Key(c, id)
        Op(t) == route(SetRoute(remove_lr(t, c, k), c, k, r), c, k)
    IN  Owned(s, c, k, Op, Msg("Route", k, 0))

\* a physical interrupt is taken from whichever vCPU owned it
inject(s, c, id) ==
    LET k == Key(c, id) IN
    IF IsHw(k)
    THEN route(update_int_list(Put(s, k, [owner |-> c, state |-> {"pend"},
                                          in_lr |-> FALSE]), c, k), c, k)
    ELSE set_pend(s, c, id, TRUE)

-----------------------------------------------------------------------------
(* The maintenance interrupt.                                              *)

AfterEoi(s, c, k) ==
    IF IsSgi(k[2]) THEN add_lr(s, c, k) ELSE vgic_int_yield_owner(s, c, k)

RECURSIVE handle_trapped_eoir(_, _)
handle_trapped_eoir(s, c) ==
    IF EndedLrs(s, c) = {} THEN s
    ELSE LET l == Min(EndedLrs(s, c))
             k == Key(c, s.lr[c][l].id)
         IN  handle_trapped_eoir(
               AfterEoi(Put([s EXCEPT !.lr[c][l] = EmptyLr], k, [in_lr |-> FALSE]),
                        c, k), c)

Urgent(s, ks) == CHOOSE k \in ks : \A j \in ks : ~After(Rank(s, k), Rank(s, j))

\* np: only pending interrupts are looked for at first
Spilled(s, c, np) == ToSet(s.pend[c]) \cup (IF np THEN {} ELSE ToSet(s.act[c]))

RECURSIVE refill_lrs(_, _, _)
refill_lrs(s, c, np) ==
    LET ks == Spilled(s, c, np)
        k  == Urgent(s, ks)
    IN  CASE FreeLrs(s, c) = {} -> [s EXCEPT !.spin[c] = "no"]
          [] FreeLrs(s, c) # {} /\ ks = {} ->
               [s EXCEPT !.spin[c] = "no", !.npie[c] = FALSE]
          [] FreeLrs(s, c) # {} /\ ks # {} /\ ~CanOwn(s, c, k) ->
               [s EXCEPT !.spin[c] = IF np THEN "np" ELSE "all"]
          [] OTHER ->
               refill_lrs(write_lr(vgic_int_get_owner(s, c, k), c, k,
                                   Min(FreeLrs(s, c))), c, FALSE)

\* k is not active any more: the GIC is told, or its pending half gets a place
Deactivated(s, c, k) ==
    IF IsHw(k) THEN [s EXCEPT !.phys[k] = @ \ {"act"}]
    ELSE IF "pend" \in s.int[k].state THEN add_lr(s, c, k) ELSE s

eoir_highest_spilled_active(s, c) ==
    IF s.act[c] = <<>> THEN s
    ELSE LET k == Urgent(s, ToSet(s.act[c])) IN
         Deactivated(update_int_list(WithBit(vgic_int_get_owner(s, c, k),
                                             k, "act", FALSE), c, k), c, k)

RECURSIVE EndSpilled(_, _)
EndSpilled(s, c) ==
    IF s.eoic[c] = 0 \/ s.spin[c] # "no" THEN s
    ELSE EndSpilled([eoir_highest_spilled_active(s, c) EXCEPT !.eoic[c] = @ - 1], c)

gic_maintenance_handler(c) ==
    LET s1 == IF MisrEoi(c) THEN handle_trapped_eoir(g, c) ELSE g IN
    /\ Maintenance(c)
    /\ g' = EndSpilled(IF MisrNp(c) THEN refill_lrs(s1, c, TRUE) ELSE s1, c)

\* refill_lrs on core c, trying again
TryAgain(c) ==
    /\ g.spin[c] # "no"
    /\ g' = EndSpilled(refill_lrs(g, c, g.spin[c] = "np"), c)

-----------------------------------------------------------------------------
(* IPI messages.                                                           *)

OnRoute(s, c, k) ==
    LET s1 == vgic_int_get_owner(s, c, k) IN
    IF CanOwn(s, c, k)
    THEN vgic_int_yield_owner(
           IF vgic_int_vcpu_is_target(s, c, k) THEN add_lr(s1, c, k) ELSE s1, c, k)
    ELSE s

vgic_ipi_handler(c) ==
    /\ g.msgs[c] # <<>>
    /\ LET m == Head(g.msgs[c])
           s == [g EXCEPT !.msgs[c] = Tail(@)]
       IN  g' = CASE m.ev = "GichEn"  -> [s EXCEPT !.en[c] = m.val]
                  [] m.ev = "SetEn"   -> set_enable(s, c, m.id, m.val)
                  [] m.ev = "SetPend" -> set_pend(s, c, m.id, m.val)
                  [] m.ev = "SetPrio" -> set_prio(s, c, m.id, m.val)
                  [] m.ev = "SetCfg"  -> set_icfgr(s, c, m.id, m.val)
                  [] m.ev = "Route"   -> OnRoute(s, c, Key(c, m.id))
                  [] m.ev = "Inject"  -> inject(s, c, m.id)

-----------------------------------------------------------------------------
(* Trapped writes of the guest on core c, one interrupt at a time.         *)

emu_isenabler_access(c, id) == g' = set_enable(g, c, id, TRUE)
emu_icenabler_access(c, id) == g' = set_enable(g, c, id, FALSE)
emu_pendr_access(c, id, set) == g' = set_pend(g, c, id, set)
emu_activer_access(c, id, set) == g' = set_active(g, c, id, set)
emu_icfgr_access(c, id, cfg) == g' = set_icfgr(g, c, id, cfg)
emu_ipriorityr_access(c, id, prio) == g' = set_prio(g, c, id, prio)
emu_irouter_access(c, id, r) == g' = vgicd_set_irouter(g, c, id, r)

\* the ARE bit is always set in the register, so that the interface is on
emu_ctrl_access(c, val) ==
    LET s == [g EXCEPT !.ctlr = val + 16] IN
    g' = IF val + 16 = g.ctlr THEN s
         ELSE Broadcast([s EXCEPT !.en[c] = TRUE], c,
                        [ev |-> "GichEn", id |-> 0, val |-> TRUE, src |-> 0])

\* ICC_SGI1R: the cores listed, or all the others
vgic_icc_sgir_handler(c, id, to) ==
    /\ IsSgi(id)
    /\ g' = Send(g, to, [ev |-> "Inject", id |-> id, val |-> TRUE, src |-> c])

-----------------------------------------------------------------------------

\* the physical interrupt is taken on a core it targets and given to its vCPU
TakePhysical(c, k) ==
    /\ g.phys[k] = {"pend"}
    /\ g.int[k].enabled
    /\ vgic_int_vcpu_is_target(g, c, k)
    /\ g' = inject([g EXCEPT !.phys[k] = {"act"}], c, k[2])

\* an emulated device of the VM raises its interrupt on core c
EmulatedInject(c, id) ==
    /\ id \notin HwIds /\ ~IsPriv(id)
    /\ g' = inject(g, c, id)

Writes(c, id) ==
    \/ g.vm.uses \cap {"isenabler", "setup"} # {} /\ emu_isenabler_access(c, id)
    \/ "icenabler" \in g.vm.uses /\ emu_icenabler_access(c, id)
    \/ "pendr" \in g.vm.uses /\ \E b \in BOOLEAN : emu_pendr_access(c, id, b)
    \/ "activer" \in g.vm.uses /\ \E b \in BOOLEAN : emu_activer_access(c, id, b)
    \/ "icfgr" \in g.vm.uses /\ \E cfg \in Cfgs : emu_icfgr_access(c, id, cfg)
    \/ "ipriorityr" \in g.vm.uses /\ \E prio \in Prios : emu_ipriorityr_access(c, id, prio)
    \/ /\ g.vm.uses \cap {"irouter", "setup"} # {}
       /\ "setup" \in g.vm.uses => ~g.int[Key(c, id)].enabled
       /\ ~IsPriv(id)
       /\ \E r \in g.vm.cpus \cup {AnyCore, NoRoute} : emu_irouter_access(c, id, r)
    \/ "sgir" \in g.vm.uses /\ \E to \in SUBSET g.vm.cpus : vgic_icc_sgir_handler(c, id, to)

Guest(c) ==
    \/ \E id \in g.vm.wids : Writes(c, id)
    \/ "ctlr" \in g.vm.uses /\ \E val \in {0, 2} : emu_ctrl_access(c, val)
    \/ \E l \in Lrs : Acknowledge(c, l)
    \/ \E k \in Keys : EndOfInterrupt(c, k)

Steps ==
    \E c \in g.vm.cpus :
      \/ TryAgain(c)
      \/ /\ g.spin[c] = "no"
         /\ \/ gic_maintenance_handler(c)
            \/ /\ g.vm.prompt => ~Maintenance(c)
               /\ \/ Guest(c)
                  \/ vgic_ipi_handler(c)
                  \/ \E id \in g.vm.ids : EmulatedInject(c, id)
                  \/ \E id \in g.vm.ids \cap HwIds :
                        Raise(Key(c, id)) \/ TakePhysical(c, Key(c, id))

Next == Steps /\ Bounded(g')

Spec == Init /\ [][Next]_vars

=============================================================================

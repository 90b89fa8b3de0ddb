-------------------------------- MODULE Vgic --------------------------------
(***************************************************************************)
(* The virtual GICv2 of one VM (arch/aarch64/vgic.rs): the distributor's   *)
(* interrupts, shared by the VM's vCPUs, and each vCPU's list registers.   *)
(*                                                                         *)
(* A step is one handler of the code (a trapped register access, an IPI, a *)
(* maintenance interrupt, a physical interrupt) run to its end on one      *)
(* core; the functions it calls are operators from a state to the state    *)
(* they leave, named as in the code.                                       *)
(***************************************************************************)
EXTENDS GicHardware

Init ==
    \E vm \in {v \in Vms : v.v = 2} :
    g = [int   |-> [k \in Keys |->
                     [targets |-> IF IsPriv(k[2]) THEN {k[1]} ELSE vm.home]
                       @@ NewInt(k, vm.home)],
         sgis  |-> [c \in Cores |-> [id \in {i \in Ids : IsSgi(i)} |->
                                       [pend |-> {}, act |-> 0]]]]
          @@ NewState(vm)

-----------------------------------------------------------------------------
(* Ownership.                                                              *)

\* the low bits of a list register's value, which are the interrupt's number
LowBits(id) == (IF id % 2 = 1 THEN {"pend"} ELSE {})
                 \cup (IF (id \div 2) % 2 = 1 THEN {"act"} ELSE {})

\* vgic_get_state: of an interrupt in an LR it returns the whole LR value
vgic_get_state(s, c, k) ==
    LET i == s.int[k] IN
    (IF gich_get_lr(s, c, k) THEN LowBits(k[2]) ELSE i.state)
      \cup (IF IsSgi(k[2]) /\ i.owner # NoCore /\ s.sgis[i.owner][k[2]].pend # {}
            THEN {"pend"} ELSE {})

\* mutant: the owner lets go of an interrupt that is in its list register
YieldInLr(s, c, k) ==
    IF /\ vgic_owns(s, c, k)
       /\ ~IsPriv(k[2])
       /\ "act" \notin vgic_get_state(s, c, k)
    THEN Put(s, k, [owner |-> NoCore])
    ELSE s

vgic_int_yield_owner(s, c, k) ==
    IF /\ vgic_owns(s, c, k)
       /\ ~s.int[k].in_lr
       /\ ~IsPriv(k[2])
       /\ "act" \notin vgic_get_state(s, c, k)
    THEN Put(s, k, [owner |-> NoCore])
    ELSE s

\* an SGI's sender is remembered: the one being handled, or one that waits
NoteSender(s, c, k, r) ==
    IF ~IsSgi(k[2]) THEN s
    ELSE IF "act" \in r.state
         THEN [s EXCEPT !.sgis[c][k[2]].act = r.src]
         ELSE [s EXCEPT !.sgis[c][k[2]].pend = @ \cup {r.src}]

\* k leaves its list register r with the state it has there
Unload(s, c, k, r) ==
    update_int_list(
        NoteSender([s EXCEPT !.lr[c][s.int[k].lr] = EmptyLr,
                             !.int[k].in_lr = FALSE,
                             !.int[k].state = r.state,
                             !.npie[c] = @ \/ ("pend" \in r.state /\ s.int[k].enabled)],
                   c, k, r), c, k)

remove_lr(s, c, k) ==
    IF ~vgic_owns(s, c, k) \/ ~s.int[k].in_lr THEN s
    ELSE IF gich_get_lr(s, c, k) THEN Unload(s, c, k, s.lr[c][s.int[k].lr])
    ELSE Put(s, k, [in_lr |-> FALSE])

\* what write_lr puts in the list register, by kind of interrupt
LrFor(s, c, k, st) ==
    LET id  == k[2]
        lr  == [EmptyLr EXCEPT !.id = id, !.prio = s.int[k].prio]
        src == s.sgis[c][id].pend
    IN  CASE IsHw(k) ->
               [lr EXCEPT !.hw = TRUE,
                          !.state = IF st = {"pend", "act"} THEN {"act"} ELSE st]
          [] IsSgi(id) /\ "act" \in st ->
               [lr EXCEPT !.state = {"act"}, !.src = s.sgis[c][id].act,
                          !.eoi = src # {}]
          [] IsSgi(id) /\ "act" \notin st ->
               IF src = {} THEN lr
               ELSE [lr EXCEPT !.state = {"pend"}, !.src = Max(src),
                               !.eoi = src # {Max(src)}]
          [] OTHER ->
               [lr EXCEPT !.state = st, !.eoi = ~IsPriv(id)]

\* the interrupt that was in list register l is not there any more
LetGo(s, c, k, l) ==
    LET prev == Key(c, s.curr[c][l]) IN
    IF /\ prev # k
       /\ prev \in Keys
       /\ vgic_owns(s, c, prev)
       /\ s.int[prev].in_lr
       /\ s.int[prev].lr = l
    THEN vgic_int_yield_owner(Put(s, prev, [in_lr |-> FALSE]), c, prev)
    ELSE s

Load(s, c, k, l, lr) ==
    update_int_list(
        [Put(s, k, [state |-> {}, in_lr |-> TRUE, lr |-> l]) EXCEPT
           !.curr[c][l] = k[2],
           !.lr[c][l]   = lr,
           !.phys = IF IsHw(k) THEN [@ EXCEPT ![k] = {"act"}] ELSE @,
           !.sgis = IF IsSgi(k[2]) /\ lr.state = {"pend"}
                    THEN [@ EXCEPT ![c][k[2]].pend = @ \ {lr.src}] ELSE @],
        c, k)

LoadNow(s, c, k, l) == Load(s, c, k, l, LrFor(s, c, k, vgic_get_state(s, c, k)))

write_lr(s, c, k, l) == LoadNow(LetGo(s, c, k, l), c, k, l)

\* the LR to take when none is free: of the pending ones if there are two, else
\* of the active ones if there are two, the first with the largest priority value
Victim(s, c) ==
    LET acts  == {l \in Lrs : "act" \in s.lr[c][l].state}
        pends == {l \in Lrs : s.lr[c][l].state = {"pend"}}
        from  == IF Cardinality(pends) > 1 THEN pends
                 ELSE IF Cardinality(acts) > 1 THEN acts ELSE {}
        worst == {l \in from : /\ s.lr[c][l].prio > 0
                               /\ \A m \in from : s.lr[c][m].prio <= s.lr[c][l].prio}
    IN  worst

\* take list register l for k, from the interrupt spill
Replace(s, c, k, l, spill) ==
    LoadNow(LetGo(vgic_int_yield_owner(remove_lr(s, c, spill), c, spill), c, k, l),
            c, k, l)

add_lr(s, c, k) ==
    IF ~s.int[k].enabled \/ s.int[k].in_lr THEN s
    ELSE IF FreeLrs(s, c) # {} THEN write_lr(s, c, k, Min(FreeLrs(s, c)))
    ELSE IF Victim(s, c) # {}
         THEN Replace(s, c, k, Min(Victim(s, c)),
                      Key(c, s.lr[c][Min(Victim(s, c))].id))
         ELSE [s EXCEPT !.npie[c] = @ \/ "pend" \in vgic_get_state(s, c, k)]

\* mutant: an interrupt that found no place here is left at that
AskNobody(s, c, k) == s

\* ask the other targets to take an interrupt that found no place here
AskOthers(s, c, k) ==
    IF ~s.int[k].in_lr /\ s.int[k].targets \ {c} # {}
    THEN Broadcast(vgic_int_yield_owner(s, c, k), c, Msg("Route", k, 0))
    ELSE s

\* mutant: the interrupt is taken here whether or not this core is a target
RouteAnywhere(s, c, k) ==
    IF s.int[k].state = {} \/ ~s.int[k].enabled THEN s
    ELSE AskOthers(add_lr(s, c, k), c, k)

route(s, c, k) ==
    IF s.int[k].state = {} \/ ~s.int[k].enabled THEN s
    ELSE AskOthers(IF c \in s.int[k].targets THEN add_lr(s, c, k) ELSE s, c, k)

-----------------------------------------------------------------------------
(* The distributor's operations, on the vCPU of core c.                    *)

\* the shape of all of them: own the interrupt, act and yield, or ask the owner
Owned(s, c, k, Op(_), m) ==
    IF CanOwn(s, c, k)
    THEN vgic_int_yield_owner(Op(vgic_int_get_owner(s, c, k)), c, k)
    ELSE Send(s, {s.int[k].owner}, m)

set_enable(s, c, id, en) ==
    LET k     == Key(c, id)
        Op(t) == IF t.int[k].enabled = en THEN t
                 ELSE IF en THEN route(Put(t, k, [enabled |-> TRUE]), c, k)
                 ELSE remove_lr(Put(t, k, [enabled |-> FALSE]), c, k)
    IN  IF IsSgi(id) THEN s ELSE Owned(s, c, k, Op, Msg("SetEn", k, en))

\* GICD.set_state: a pending virtual interrupt is kept active in the GIC
SetPhys(s, k) ==
    IF ~IsHw(k) THEN s
    ELSE [s EXCEPT !.phys[k] = IF s.int[k].state = {"pend"} THEN {"act"}
                               ELSE s.int[k].state]

\* the state of k with one bit set or cleared
WithBit(s, k, bit, on) ==
    Put(s, k, [state |-> IF on THEN s.int[k].state \cup {bit}
                         ELSE s.int[k].state \ {bit}])

SetState(s, c, k, bit, on) ==
    route(SetPhys(update_int_list(WithBit(remove_lr(s, c, k), k, bit, on), c, k), k),
          c, k)

AddUnlessInactive(s, c, k) == IF s.int[k].state = {} THEN s ELSE add_lr(s, c, k)

\* nothing more is done when src was waiting already: k stays out of its LR
SetSenders(s, c, k, new) ==
    IF new = s.sgis[c][k[2]].pend THEN s
    ELSE AddUnlessInactive(
           update_int_list(WithBit([s EXCEPT !.sgis[c][k[2]].pend = new],
                                   k, "pend", new # {}), c, k), c, k)

PendSgi(s, c, k, src, pend) ==
    SetSenders(s, c, k, IF pend THEN s.sgis[c][k[2]].pend \cup {src}
                        ELSE s.sgis[c][k[2]].pend \ {src})

sgi_set_pend(s, c, id, src, pend) ==
    PendSgi(remove_lr(s, c, Key(c, id)), c, Key(c, id), src, pend)

set_pend(s, c, id, src, pend) ==
    LET k     == Key(c, id)
        Op(t) == SetState(t, c, k, "pend", pend)
    IN  IF IsSgi(id) THEN sgi_set_pend(s, c, id, src, pend)
        ELSE Owned(s, c, k, Op, Msg("SetPend", k, pend))

\* the owner is sent a SetPend message, not a message to set the active bit
set_active(s, c, id, act) ==
    LET k     == Key(c, id)
        Op(t) == SetState(t, c, k, "act", act)
    IN  Owned(s, c, k, Op, Msg("SetPend", k, act))

set_icfgr(s, c, id, cfg) ==
    LET k     == Key(c, id)
        Op(t) == Put(t, k, [cfg |-> cfg])
    IN  Owned(s, c, k, Op, Msg("SetCfg", k, cfg))

set_prio(s, c, id, prio) ==
    LET k        == Key(c, id)
        Out(t)   == Put(remove_lr(t, c, k), k, [prio |-> prio])
        Op(t)    == IF t.int[k].prio = prio THEN t
                    ELSE IF prio <= t.int[k].prio THEN route(Out(t), c, k)
                    ELSE Out(t)
    IN  Owned(s, c, k, Op, Msg("SetPrio", k, prio))

RouteIfAny(s, c, k) == IF vgic_get_state(s, c, k) # {} THEN route(s, c, k) ELSE s

set_trgt(s, c, id, trgt) ==
    LET k     == Key(c, id)
        Op(t) == IF t.int[k].targets = trgt THEN t
                 ELSE RouteIfAny(Put(t, k, [targets |-> trgt]), c, k)
    IN  Owned(s, c, k, Op, Msg("SetTrgt", k, trgt))

\* a physical interrupt is taken from whichever vCPU owned it
inject(s, c, id) ==
    LET k == Key(c, id) IN
    IF IsHw(k)
    THEN route(update_int_list(Put(s, k, [owner |-> c, state |-> {"pend"},
                                          in_lr |-> FALSE]), c, k), c, k)
    ELSE set_pend(s, c, id, 0, TRUE)

-----------------------------------------------------------------------------
(* The maintenance interrupt.                                              *)

\* an SGI's next sender takes its place at once
AfterEoi(s, c, k) ==
    IF IsSgi(k[2]) THEN add_lr(s, c, k) ELSE vgic_int_yield_owner(s, c, k)

RECURSIVE handle_trapped_eoir(_, _)
handle_trapped_eoir(s, c) ==
    IF EndedLrs(s, c) = {} THEN s
    ELSE LET l == Min(EndedLrs(s, c))
             k == Key(c, s.lr[c][l].id)
         IN  handle_trapped_eoir(
               AfterEoi(Put([s EXCEPT !.lr[c][l] = EmptyLr], k, [in_lr |-> FALSE]),
                        c, k), c)

\* the head of a list, unless it is in a list register (of any core)
HeadToPlace(s, list) ==
    IF list # <<>> /\ ~s.int[Head(list)].in_lr THEN {Head(list)} ELSE {}

\* the active head comes first once a list register is pending
NextToPlace(s, c, has_pending) ==
    IF has_pending /\ HeadToPlace(s, s.act[c]) # {} THEN HeadToPlace(s, s.act[c])
    ELSE HeadToPlace(s, s.pend[c])

\* (an interrupt that another core owns is placed as well)
RECURSIVE refill_lrs(_, _, _)
refill_lrs(s, c, has_pending) ==
    IF FreeLrs(s, c) = {} THEN s
    ELSE LET ks == NextToPlace(s, c, has_pending)
             k  == CHOOSE x \in ks : TRUE
         IN  IF ks = {} THEN [s EXCEPT !.npie[c] = FALSE]
             ELSE refill_lrs(write_lr(vgic_int_get_owner(s, c, k), c, k,
                                      Min(FreeLrs(s, c))), c, TRUE)

\* k is not active any more: the GIC is told, or its pending half gets a place
Deactivated(s, c, k) ==
    IF IsHw(k) THEN [s EXCEPT !.phys[k] = @ \ {"act"}]
    ELSE IF "pend" \in s.int[k].state THEN add_lr(s, c, k) ELSE s

eoir_highest_spilled_active(s, c) ==
    IF s.act[c] = <<>> THEN s
    ELSE LET k == Head(s.act[c]) IN
         Deactivated(update_int_list(WithBit(vgic_int_get_owner(s, c, k),
                                             k, "act", FALSE), c, k), c, k)

RECURSIVE EndSpilled(_, _)
EndSpilled(s, c) ==
    IF s.eoic[c] = 0 THEN s
    ELSE EndSpilled([eoir_highest_spilled_active(s, c) EXCEPT !.eoic[c] = @ - 1], c)

Refill(s, c) == refill_lrs(s, c, ~NoPending(s, c))

gic_maintenance_handler(c) ==
    LET s1 == IF MisrEoi(c) THEN handle_trapped_eoir(g, c) ELSE g IN
    /\ Maintenance(c)
    /\ g' = EndSpilled(IF MisrNp(c) THEN Refill(s1, c) ELSE s1, c)

-----------------------------------------------------------------------------
(* IPI messages.                                                           *)

OnRoute(s, c, k) ==
    LET s1 == vgic_int_get_owner(s, c, k) IN
    IF CanOwn(s, c, k)
    THEN vgic_int_yield_owner(
           IF c \in s.int[k].targets THEN add_lr(s1, c, k) ELSE s1, c, k)
    ELSE s

\* SetCfg is not handled
vgic_ipi_handler(c) ==
    /\ g.msgs[c] # <<>>
    /\ LET m == Head(g.msgs[c])
           s == [g EXCEPT !.msgs[c] = Tail(@)]
       IN  g' = CASE m.ev = "GichEn"  -> [s EXCEPT !.en[c] = m.val]
                  [] m.ev = "SetEn"   -> set_enable(s, c, m.id, m.val)
                  [] m.ev = "SetPend" -> set_pend(s, c, m.id, m.src, m.val)
                  [] m.ev = "SetPrio" -> set_prio(s, c, m.id, m.val)
                  [] m.ev = "SetTrgt" -> set_trgt(s, c, m.id, m.val)
                  [] m.ev = "Route"   -> OnRoute(s, c, Key(c, m.id))
                  [] m.ev = "SetCfg"  -> s

-----------------------------------------------------------------------------
(* Trapped writes of the guest on core c to the distributor, one interrupt *)
(* at a time: the code takes each interrupt's lock in turn.                *)

emu_isenabler_access(c, id) == g' = set_enable(g, c, id, TRUE)
emu_icenabler_access(c, id) == g' = set_enable(g, c, id, FALSE)
emu_pendr_access(c, id, set) == g' = set_pend(g, c, id, 0, set)
emu_activer_access(c, id, set) == g' = set_active(g, c, id, set)
emu_icfgr_access(c, id, cfg) == g' = set_icfgr(g, c, id, cfg)
emu_ipriorityr_access(c, id, prio) == g' = set_prio(g, c, id, prio)
emu_itargetr_access(c, id, trgt) == g' = set_trgt(g, c, id, trgt)

\* only a change of the register reaches the cores
emu_ctrl_access(c, val) ==
    LET on == val # 0
        s  == [g EXCEPT !.ctlr = val] IN
    g' = IF val = g.ctlr THEN s
         ELSE Broadcast([s EXCEPT !.en[c] = on], c,
                        [ev |-> "GichEn", id |-> 0, val |-> on, src |-> 0])

\* SGIR: the targets are listed, or all the others, or the writer itself
emu_sgiregs_access(c, id, to) ==
    /\ IsSgi(id)
    /\ g' = Send(g, to, [ev |-> "SetPend", id |-> id, val |-> TRUE, src |-> c])

-----------------------------------------------------------------------------
\* the physical interrupt is taken on a core it targets and given to its vCPU
TakePhysical(c, k) ==
    /\ g.phys[k] = {"pend"}
    /\ g.int[k].enabled
    /\ c \in g.int[k].targets
    /\ g' = inject([g EXCEPT !.phys[k] = {"act"}], c, k[2])

\* an emulated device of the VM raises its interrupt on core c
EmulatedInject(c, id) ==
    /\ id \notin HwIds /\ ~IsPriv(id)
    /\ g' = inject(g, c, id)

-----------------------------------------------------------------------------

\* SGI id from src has been sent to core c, whose guest has not taken it
Unseen(c, id, src) ==
    \/ \E n \in DOMAIN g.msgs[c] : g.msgs[c][n].id = id /\ g.msgs[c][n].src = src
    \/ src \in g.sgis[c][id].pend
    \/ \E l \in Lrs : /\ g.lr[c][l].id = id /\ g.lr[c][l].src = src
                      /\ "pend" \in g.lr[c][l].state

Writes(c, id) ==
    \/ g.vm.uses \cap {"isenabler", "setup"} # {} /\ emu_isenabler_access(c, id)
    \/ "icenabler" \in g.vm.uses /\ emu_icenabler_access(c, id)
    \/ "pendr" \in g.vm.uses /\ \E b \in BOOLEAN : emu_pendr_access(c, id, b)
    \/ "activer" \in g.vm.uses /\ \E b \in BOOLEAN : emu_activer_access(c, id, b)
    \/ "icfgr" \in g.vm.uses /\ \E cfg \in Cfgs : emu_icfgr_access(c, id, cfg)
    \/ "ipriorityr" \in g.vm.uses /\ \E prio \in Prios : emu_ipriorityr_access(c, id, prio)
    \/ /\ g.vm.uses \cap {"itargetsr", "setup"} # {}
       /\ "setup" \in g.vm.uses => ~g.int[Key(c, id)].enabled
       /\ ~IsPriv(id)
       /\ \E trgt \in SUBSET g.vm.cpus : emu_itargetr_access(c, id, trgt)
    \/ /\ g.vm.uses \cap {"sgir", "ipi"} # {}
       /\ \E to \in SUBSET g.vm.cpus :
            /\ "ipi" \in g.vm.uses => \A t \in to : ~Unseen(t, id, c)
            /\ emu_sgiregs_access(c, id, to)

Guest(c) ==
    \/ \E id \in g.vm.wids : Writes(c, id)
    \/ "ctlr" \in g.vm.uses /\ \E val \in {0, 1} : emu_ctrl_access(c, val)
    \/ \E l \in Lrs : Acknowledge(c, l)
    \/ \E k \in Keys : EndOfInterrupt(c, k)

Steps ==
    \E c \in g.vm.cpus :
      \/ gic_maintenance_handler(c)
      \/ /\ g.vm.prompt => ~Maintenance(c)
         /\ \/ Guest(c)
            \/ vgic_ipi_handler(c)
            \/ \E id \in g.vm.ids : EmulatedInject(c, id)
            \/ \E id \in g.vm.ids \cap HwIds :
                  Raise(Key(c, id)) \/ TakePhysical(c, Key(c, id))

Next == Steps /\ Bounded(g')

Spec == Init /\ [][Next]_vars
=============================================================================

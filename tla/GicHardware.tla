---------------------------- MODULE GicHardware ----------------------------
(***************************************************************************)
(* What the virtual GICv2 (Vgic) and the virtual GICv3 (VgicV3) have in    *)
(* common: the record of an interrupt, the lists of spilled interrupts,    *)
(* the messages between cores, and the hardware around them: the list      *)
(* registers (LRs) of a core, the guest that acknowledges and ends         *)
(* interrupts, the devices that raise them.                                *)
(*                                                                         *)
(* g is the state of one VM.  vCPU v is pinned to core v.  An interrupt    *)
(* has an owner: the vCPU whose core may touch its LR; the others ask the  *)
(* owner by message.  A pending/active state is a subset of                *)
(* {"pend", "act"}.                                                        *)
(***************************************************************************)
EXTENDS Integers, Sequences, FiniteSets, TLC, SequencesExt, FiniteSetsExt

CONSTANTS
    Cores,      \* core numbers
    Ids,        \* interrupt numbers: < 16 SGI, < 32 private, else shared
    HwIds,      \* those of Ids that are physical interrupts of the VM
    NumLrs,     \* list registers of a core
    Prios,      \* priorities the guest writes
    Cfgs,       \* trigger configurations the guest writes
    Vms,        \* the VMs considered: the GIC's version v, the cores cpus, the
                \* interrupts raised (ids) and written to (wids), the cores home
                \* that shared interrupts target at first ({}: they are still
                \* disabled), the registers the guest uses, and prompt: a core
                \* takes its maintenance interrupt before anything else
    MaxMsgs,    \* bound: IPI messages waiting at a core
    MaxList,    \* bound: length of a pend or act list
    MaxEoi      \* bound: the EOI count of a core

VARIABLE g

vars == <<g>>

Lrs    == 1 .. NumLrs
NoCore == -1
Dist   == -1            \* first part of a shared interrupt's key

IsSgi(id)  == id < 16
IsPriv(id) == id < 32

\* get_int: the interrupt that number id names on vCPU c
Key(c, id) == <<IF IsPriv(id) THEN c ELSE Dist, id>>
Keys       == {Key(c, id) : c \in Cores, id \in Ids}
HwKeys     == {k \in Keys : k[2] \in HwIds}
IsHw(k)    == k \in HwKeys

EmptyLr == [id |-> 0, state |-> {}, prio |-> 0, hw |-> FALSE, eoi |-> FALSE,
            src |-> 0]

\* a new interrupt: SGIs are enabled, private interrupts belong to their vCPU,
\* a shared one is disabled and nobody's (or the guest has set it up by now)
NewInt(k, home) ==
    [owner   |-> IF IsPriv(k[2]) THEN k[1] ELSE NoCore,
     in_lr   |-> FALSE, lr |-> 1,
     enabled |-> IsSgi(k[2]) \/ home # {},
     state   |-> {}, prio |-> Max(Prios), cfg |-> 0,
     in_pend |-> FALSE, in_act |-> FALSE]

\* the part of the first state that does not depend on the version
NewState(vm) ==
    [vm    |-> vm,
     lr    |-> [c \in Cores |-> [l \in Lrs |-> EmptyLr]],
     curr  |-> [c \in Cores |-> [l \in Lrs |-> 0]],
     pend  |-> [c \in Cores |-> <<>>],
     act   |-> [c \in Cores |-> <<>>],
     npie  |-> [c \in Cores |-> FALSE],
     en    |-> [c \in Cores |-> TRUE],
     ctlr  |-> 2,
     eoic  |-> [c \in Cores |-> 0],
     phys  |-> [k \in HwKeys |-> {}],
     msgs  |-> [c \in Cores |-> <<>>],
     taken |-> [c \in Cores |-> {}]]   \* acknowledged by the guest, not ended

-----------------------------------------------------------------------------
(* Updates of one interrupt, and the messages.                             *)

Put(s, k, r) == [s EXCEPT !.int[k] = r @@ @]

Msg(ev, k, val) == [ev |-> ev, id |-> k[2], val |-> val, src |-> 0]

Send(s, to, m) ==
    [s EXCEPT !.msgs = [c \in Cores |->
                          IF c \in to THEN Append(@[c], m) ELSE @[c]]]

\* ipi_intra_broadcast_msg: to the VM's other cores
Broadcast(s, c, m) == Send(s, s.vm.cpus \ {c}, m)

-----------------------------------------------------------------------------
(* Ownership.                                                              *)

vgic_owns(s, c, k) == IsPriv(k[2]) \/ s.int[k].owner = c

\* gich_get_lr: does k's list register on core c really hold it?
gich_get_lr(s, c, k) ==
    LET i == s.int[k] IN
    /\ i.in_lr
    /\ i.owner = c
    /\ s.lr[c][i.lr].id = k[2]
    /\ s.lr[c][i.lr].state # {}

\* vgic_int_get_owner succeeds when the interrupt has no owner or c is it
CanOwn(s, c, k) == s.int[k].owner \in {c, NoCore}
vgic_int_get_owner(s, c, k) ==
    IF CanOwn(s, c, k) THEN Put(s, k, [owner |-> c]) ELSE s

-----------------------------------------------------------------------------
(* The pend and act lists of a vCPU.                                       *)

queue_remove(list, k) ==
    LET n == SelectInSeq(list, LAMBDA x : x = k) IN
    IF n = 0 THEN list ELSE RemoveAt(list, n)

\* the flag in the interrupt says whether it is on "the" list: there is one
\* list per vCPU and one flag for all of them
UpdateList(list, k, has, flag) ==
    IF ~has THEN queue_remove(list, k)
    ELSE IF flag THEN list ELSE Append(list, k)

update_int_list(s, c, k) ==
    LET i == s.int[k]
        p == "pend" \in i.state
        a == "act" \in i.state
    IN  [s EXCEPT !.pend[c] = UpdateList(@, k, p, i.in_pend),
                  !.act[c]  = UpdateList(@, k, a, i.in_act),
                  !.int[k]  = [@ EXCEPT !.in_pend = p, !.in_act = a]]

-----------------------------------------------------------------------------
(* List registers.                                                         *)

\* ELRSR and EISR: an LR is free, or asks for its end-of-interrupt handling
Free(lr)  == lr.state = {} /\ (lr.hw \/ ~lr.eoi)
Ended(lr) == lr.state = {} /\ ~lr.hw /\ lr.eoi

FreeLrs(s, c) == {l \in Lrs : Free(s.lr[c][l])}

EndedLrs(s, c) == {l \in Lrs : Ended(s.lr[c][l])}
NoPending(s, c) == \A l \in Lrs : "pend" \notin s.lr[c][l].state

\* MISR: an ended LR, no pending LR while that is asked for, EOIs of no LR
MisrEoi(c)   == EndedLrs(g, c) # {}
MisrNp(c)    == g.npie[c] /\ NoPending(g, c)
MisrLrpen(c) == g.eoic[c] > 0
Maintenance(c) == MisrEoi(c) \/ MisrNp(c) \/ MisrLrpen(c)

-----------------------------------------------------------------------------
(* The hardware and the guest.                                             *)

\* the guest on core c acknowledges the pending interrupt of its list registers
Acknowledge(c, l) ==
    LET r == g.lr[c][l] IN
    /\ g.en[c]
    /\ r.state = {"pend"}
    /\ \A m \in Lrs : g.lr[c][m].state = {"pend"} => r.prio <= g.lr[c][m].prio
    /\ Key(c, r.id) \notin g.taken[c]
    /\ g' = [g EXCEPT !.lr[c][l].state = {"act"},
                      !.taken[c] = @ \cup {Key(c, r.id)}]

\* the guest ends an interrupt it has acknowledged: in its LR if one holds it
\* (deactivating the physical one), else the core counts the EOI
EndOfInterrupt(c, k) ==
    LET at == {l \in Lrs : g.lr[c][l].id = k[2] /\ "act" \in g.lr[c][l].state}
        s  == [g EXCEPT !.taken[c] = @ \ {k}]
    IN  /\ k \in g.taken[c]
        /\ \/ \E l \in at :
                g' = IF g.lr[c][l].hw
                     THEN [s EXCEPT !.lr[c][l].state = @ \ {"act"},
                                    !.phys[k] = @ \ {"act"}]
                     ELSE [s EXCEPT !.lr[c][l].state = @ \ {"act"}]
           \/ /\ at = {}
              /\ g.eoic[c] < MaxEoi
              /\ g' = [s EXCEPT !.eoic[c] = @ + 1]

Raise(k) ==
    /\ g.phys[k] = {}
    /\ g' = [g EXCEPT !.phys[k] = {"pend"}]

-----------------------------------------------------------------------------
\* the bounds of the model
Bounded(s) ==
    \A c \in Cores : /\ Len(s.msgs[c]) <= MaxMsgs
                     /\ Len(s.pend[c]) <= MaxList
                     /\ Len(s.act[c]) <= MaxList

=============================================================================

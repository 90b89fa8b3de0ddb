----------------------------- MODULE VirtioMmio -----------------------------
(***************************************************************************)
(* The register interface of a virtio device (device/virtio/mmio.rs): the  *)
(* guest's driver resets the device, negotiates features, gives each queue *)
(* its addresses half by half and activates it.  The registers accumulate: *)
(* an address or feature half is ORed into what is there, so only a reset  *)
(* separates one driver (firmware, say) from the next.                     *)
(*                                                                         *)
(* A 32-bit half is the set of its bits, so that OR is union.  The driver  *)
(* is external; it follows the virtio initialisation order.                *)
(***************************************************************************)
EXTENDS Naturals

CONSTANTS
  Queues,     \* indices of the device's queues
  Areas,      \* descriptor table, available ring, used ring
  Bits,       \* bits of a half
  HighFirst   \* may a driver write the high half of an address first?

Half == SUBSET Bits
Wide == [lo : Half, hi : Half]
Zero == [lo |-> {}, hi |-> {}]

VARIABLES
  regs,      \* dev_stat, drv_feature_sel and q_sel
  features,  \* driver_features
  queue,         \* each queue: num, ready, addr ORed so far, and the rings in use
  activated, \* dev().activated
  drv        \* the driver: its step, what it accepted and where its rings are

mmioVars == <<regs, features, queue, activated, drv>>

(* A ring is an optional reference: the set of the address it is at, if any. *)
EmptyQueue == [num |-> 0, ready |-> 0, addr |-> [a \in Areas |-> Zero],
               ring |-> [a \in Areas |-> {}]]

MmioInit ==
  /\ regs = [stat |-> 0, drvSel |-> 0, qSel |-> 0]
  /\ features = Zero
  /\ queue = [i \in Queues |-> EmptyQueue]
  /\ activated = FALSE
  /\ drv = [pc |-> "start", accepted |-> Zero, at |-> [i \in Queues |-> Zero], todo |-> Areas \X {"lo", "hi"}]

----------------------------------------------------------------------------
(* Register writes: what each does to the device. *)

ResetQueueKeepsRing(old) == [EmptyQueue EXCEPT !.ring = old.ring]
(* Virtq::reset *)
ResetQueue(old) == EmptyQueue

(* STATUS written with 0: dev_reset.  The features stay as they were ORed.  *)
DevReset ==
  /\ regs' = [regs EXCEPT !.stat = 0]
  /\ queue' = [i \in Queues |-> ResetQueue(queue[i])]
  /\ activated' = FALSE
  /\ UNCHANGED features

(* STATUS otherwise: 0xf activates. *)
SetStatus(v) ==
  /\ regs' = [regs EXCEPT !.stat = v]
  /\ activated' = IF v = 15 THEN TRUE ELSE activated
  /\ UNCHANGED <<features, queue>>

(* GUEST_FEATURES_SEL: set_drv_feature_sel assigns drv_feature, a register  *)
(* nothing reads, and leaves drv_feature_sel alone.                         *)
SetDrvFeatureSel(v) == UNCHANGED <<regs, features, queue, activated>>

(* GUEST_FEATURES: ORed into the half drv_feature_sel selects. *)
OrDriverFeature(half) ==
  /\ features' = IF regs.drvSel # 0 THEN [features EXCEPT !.hi = @ \cup half]
                                     ELSE [features EXCEPT !.lo = @ \cup half]
  /\ UNCHANGED <<regs, queue, activated>>

SetQueueSel(i) == regs' = [regs EXCEPT !.qSel = i] /\ UNCHANGED <<features, queue, activated>>

SetQueueNum(n) ==
  /\ queue' = [queue EXCEPT ![regs.qSel].num = n]
  /\ UNCHANGED <<regs, features, activated>>

(* QUEUE_*_LOW ORs the half in.  QUEUE_*_HIGH ORs and takes the address as  *)
(* it then is for the ring, unless the address is no memory of the VM.      *)
OrAddrLow(a, half) ==
  /\ LET old == queue[regs.qSel]
         new == [old.addr[a] EXCEPT !.lo = @ \cup half]
     IN  queue' = [queue EXCEPT ![regs.qSel] = [old EXCEPT !.addr = [old.addr EXCEPT ![a] = new]]]
  /\ UNCHANGED <<regs, features, activated>>

OrAddrHigh(a, half) ==
  /\ LET old == queue[regs.qSel]
         new == [old.addr[a] EXCEPT !.hi = @ \cup half]
         ring == IF new = Zero THEN old.ring ELSE [old.ring EXCEPT ![a] = {new}]
     IN  queue' = [queue EXCEPT ![regs.qSel] =
                  [old EXCEPT !.addr = [old.addr EXCEPT ![a] = new], !.ring = ring]]
  /\ UNCHANGED <<regs, features, activated>>

SetReady ==
  /\ queue' = [queue EXCEPT ![regs.qSel].ready = 1]
  /\ UNCHANGED <<regs, features, activated>>

----------------------------------------------------------------------------
(* The driver, one register write per step. *)

Step(from, to) == drv.pc = from /\ drv' = [drv EXCEPT !.pc = to]

Reset ==
  /\ drv.pc \in {"start", "running"}
  /\ \E acc \in Wide, at \in [Queues -> Wide \ {Zero}] :
       drv' = [pc |-> "features", accepted |-> acc, at |-> at, todo |-> Areas \X {"lo", "hi"}]
  /\ DevReset

SelectLow == Step("features", "low") /\ SetDrvFeatureSel(0)
WriteLow == Step("low", "selhigh") /\ OrDriverFeature(drv.accepted.lo)
SelectHigh == Step("selhigh", "high") /\ SetDrvFeatureSel(1)
WriteHigh == Step("high", "ok") /\ OrDriverFeature(drv.accepted.hi)
FeaturesOk == Step("ok", "queues") /\ SetStatus(11)

SelectQueue ==
  /\ drv.pc = "queues"
  /\ \E i \in Queues : queue[i].ready = 0 /\ SetQueueSel(i)
  /\ drv' = [drv EXCEPT !.pc = "num", !.todo = Areas \X {"lo", "hi"}]
WriteNum == Step("num", "addr") /\ SetQueueNum(1)

(* The halves in any order of the areas; low before high unless HighFirst.  *)
WriteAddr ==
  /\ drv.pc = "addr"
  /\ \E a \in Areas, h \in {"lo", "hi"} :
       /\ <<a, h>> \in drv.todo
       /\ h = "hi" /\ ~HighFirst => <<a, "lo">> \notin drv.todo
       /\ IF h = "lo" THEN OrAddrLow(a, drv.at[regs.qSel].lo) ELSE OrAddrHigh(a, drv.at[regs.qSel].hi)
       /\ drv' = [drv EXCEPT !.todo = @ \ {<<a, h>>}]
WriteReady == drv.todo = {} /\ Step("addr", "queues") /\ SetReady
DriverOk == (\A i \in Queues : queue[i].ready = 1) /\ Step("queues", "running") /\ SetStatus(15)

(* A crashed or rebooted guest starts over from any step. *)
Reboot == drv.pc # "start" /\ drv' = [drv EXCEPT !.pc = "start"] /\ UNCHANGED <<regs, features, queue, activated>>

MmioNext ==
  \/ Reset \/ SelectLow \/ WriteLow \/ SelectHigh \/ WriteHigh \/ FeaturesOk
  \/ SelectQueue \/ WriteNum \/ WriteAddr \/ WriteReady \/ DriverOk \/ Reboot

MmioSpec == MmioInit /\ [][MmioNext]_mmioVars

----------------------------------------------------------------------------
(* Properties *)

MmioTypeOK ==
  /\ regs \in [stat : {0, 11, 15}, drvSel : {0, 1}, qSel : Queues \cup {0}]
  /\ features \in Wide
  /\ queue \in [Queues -> [num : {0, 1}, ready : {0, 1}, addr : [Areas -> Wide],
                       ring : [Areas -> SUBSET Wide]]]
  /\ activated \in BOOLEAN
  /\ drv \in [pc : {"start", "features", "low", "selhigh", "high", "ok", "queues", "num", "addr", "running"},
              accepted : Wide, at : [Queues -> Wide], todo : SUBSET (Areas \X {"lo", "hi"})]

(* An active device uses exactly the rings this driver set up, whatever an  *)
(* earlier driver left in the ORed registers.                               *)
RingsOfDriver ==
  (activated /\ drv.pc = "running") =>
    \A i \in Queues, a \in Areas : queue[i].ring[a] = {drv.at[i]}

(* After dev_reset and until STATUS 0xf, nobody but a driver in mid-set-up  *)
(* has rings in the device: a device that is not active and whose driver    *)
(* has not started on queues holds no address of guest memory.              *)
ResetForgets ==
  (drv.pc \in {"features", "low", "selhigh", "high", "ok"}) =>
    ~activated /\ \A i \in Queues : queue[i].ready = 0 /\ \A a \in Areas : queue[i].ring[a] = {}

(* An activated device uses the ring addresses that the present driver      *)
(* wrote, nothing being left of those of the driver before                  *)
(* (VirtqInner::reset).                                                     *)
RingsAsWritten == RingsOfDriver /\ ResetForgets

(* set_drv_feature_sel: the features recorded are those the driver accepted.*)
FeaturesAsAccepted == drv.pc = "running" => features = drv.accepted

=============================================================================

----------------------------- MODULE VirtioNet -----------------------------
(***************************************************************************)
(* The receive side of a virtio network device (device/virtio/net.rs,      *)
(* queue.rs, mmio.rs): VMs on other cores copy frames straight into the    *)
(* buffers the receiving guest published, then have it interrupted.  Every *)
(* queue method takes the queue's lock by itself, so a sender's frame is   *)
(* several steps with other cores between them.                            *)
(*                                                                         *)
(* The guest's driver is external: it publishes buffers, acknowledges      *)
(* interrupts, polls the used ring with interrupts suppressed, and may     *)
(* reset the device.  Indices count modulo W, a multiple of the ring's     *)
(* size N as 2^16 is of every size a driver may choose.                    *)
(***************************************************************************)
EXTENDS Integers, FiniteSets

CONSTANTS
  Senders,    \* cores whose VMs send to this device
  Local,      \* the senders on the core of the receiver's first vCPU
  N,          \* descriptors of the receive queue, one per buffer
  W,          \* modulus of the ring indices
  MaxFrames,  \* frames each sender sends (bound)
  Batch,      \* frames one notification of a transmit queue may hold (bound)
  Long,       \* may a frame be longer than a buffer?
  Resets,     \* may the guest reset its device?
  Removes,    \* may the receiving VM be removed?
  NoBuf       \* no buffer

VARIABLES
  vq,      \* the device's queue: up (rings known and ready), last_avail_idx
  dev,     \* activated; irt: the VRING bit of irt_stat; irq: interrupt pending
  avail,   \* guest memory: the available ring with its index and flags
  used,    \* guest memory: the used ring and its index
  data,    \* guest memory: the frame in each buffer
  guest,   \* the driver: phase, free buffers, entries seen, ISR and poll state
  snd,     \* each sender
  msgs,    \* ethernet messages to the receiver's core, and its handler's step
  seen,    \* the last frame of each sender the guest took
  panicked

vars == <<vq, dev, avail, used, data, guest, snd, msgs, seen, panicked>>

Bufs == 0..(N - 1)
Frames == [from : Senders, k : 0..MaxFrames]
Slots == 0..(N - 1)
Inc(i) == (i + 1) % W
Dec(i) == (i + W - 1) % W

(* How far index b is ahead of index a. *)
Distance(a, b) == (b - a) % W

SenderPcs == {"idle", "check", "idx", "pop", "recheck", "desc", "putback",
              "write", "used", "notify", "flags"}
IdleSender == [pc |-> "idle", k |-> 0, todo |-> 0, av |-> 0, buf |-> NoBuf, owed |-> FALSE]
NoFrame(s) == [from |-> s, k |-> 0]

(* The rings as the driver sets them up: nothing published, nothing used. *)
FreshAvail == [ring |-> [i \in Slots |-> 0], idx |-> 0, flags |-> 0]
FreshUsed == [ring |-> [i \in Slots |-> [id |-> 0, frame |-> NoFrame(CHOOSE s \in Senders : TRUE)]],
              idx |-> 0]
FreshVq == [up |-> TRUE, last |-> 0]

Init ==
  /\ vq = FreshVq
  /\ dev = [activated |-> TRUE, irt |-> FALSE, irq |-> FALSE]
  /\ avail = FreshAvail /\ used = FreshUsed
  /\ data = [b \in Bufs |-> NoFrame(CHOOSE s \in Senders : TRUE)]
  /\ guest = [phase |-> "up", free |-> Bufs, seen |-> 0, isr |-> "none", napi |-> "off"]
  /\ snd = [s \in Senders |-> IdleSender]
  /\ msgs = [n |-> 0, handling |-> FALSE]
  /\ seen = [s \in Senders |-> 0]
  /\ panicked = FALSE

----------------------------------------------------------------------------
(* Senders.  Each updates only its own record; Goto moves it. *)

Goto(s, pc) == snd' = [snd EXCEPT ![s].pc = pc]

(* unwrap() of None: the hypervisor stops. *)
Panic == panicked' = TRUE /\ UNCHANGED <<vq, dev, avail, used, data, guest, snd, msgs, seen>>

(* The frame at hand is done: the next of the batch, the notification, or   *)
(* nothing when no frame went through.                                      *)
AfterFrame(s, owed) ==
  LET left == snd[s].todo - 1
  IN  [snd[s] EXCEPT !.todo = left, !.owed = owed, !.buf = NoBuf, !.av = 0,
                     !.pc = IF left > 0 THEN "check" ELSE IF owed THEN "notify" ELSE "idle",
                     !.k = IF left > 0 THEN @ + 1 ELSE @]
Drop(s) == snd' = [snd EXCEPT ![s] = AfterFrame(s, snd[s].owed)]

(* The guest of core s notifies its transmit queue. *)
Transmit(s) ==
  /\ snd[s].pc = "idle"
  /\ \E n \in 1..Batch :
       /\ snd[s].k + n <= MaxFrames
       /\ snd' = [snd EXCEPT ![s].pc = "check", ![s].k = @ + 1, ![s].todo = n]
  /\ UNCHANGED <<vq, dev, avail, used, data, guest, msgs, seen, panicked>>

(* mac_to_nic, then ethernet_send_to's first test: not listed, not active.  *)
CheckActivated(s) ==
  /\ snd[s].pc = "check"
  /\ IF dev.activated /\ guest.phase \notin {"unlisted", "gone"} THEN Goto(s, "idx") ELSE Drop(s)
  /\ UNCHANGED <<vq, dev, avail, used, data, guest, msgs, seen, panicked>>

AvailIdx(s) ==
  /\ snd[s].pc = "idx"
  /\ IF vq.up
     THEN /\ snd' = [snd EXCEPT ![s].av = avail.idx, ![s].pc = "pop"]
          /\ UNCHANGED <<vq, dev, avail, used, data, guest, msgs, seen, panicked>>
     ELSE Panic

(* pop_avail_desc_idx compares for equality only: an index the queue has    *)
(* already passed does not stop it.                                         *)
MayPop(av) == vq.up /\ av # vq.last

Pop(s) ==
  /\ snd[s].pc = "pop"
  /\ IF MayPop(snd[s].av)
     THEN /\ snd' = [snd EXCEPT ![s].buf = avail.ring[vq.last % N], ![s].pc = "recheck"]
          /\ vq' = [vq EXCEPT !.last = Inc(@)]
     ELSE Drop(s) /\ UNCHANGED vq
  /\ UNCHANGED <<dev, avail, used, data, guest, msgs, seen, panicked>>

(* avail_is_avail after the pop *)
Recheck(s) ==
  /\ snd[s].pc = "recheck"
  /\ IF vq.up THEN Goto(s, "desc") ELSE Drop(s)
  /\ UNCHANGED <<vq, dev, avail, used, data, guest, msgs, seen, panicked>>

(* The walk over the buffer's descriptors, which finds its length. *)
ReadDesc(s) ==
  /\ snd[s].pc = "desc"
  /\ IF vq.up
     THEN /\ \/ Goto(s, "write")
             \/ Long /\ Goto(s, "putback")
          /\ UNCHANGED <<vq, dev, avail, used, data, guest, msgs, seen, panicked>>
     ELSE Panic

PutBackNothing(s) ==
  /\ snd[s].pc = "putback"
  /\ Drop(s)
  /\ UNCHANGED <<vq, dev, avail, used, data, guest, msgs, seen, panicked>>

(* put_back_avail_desc_idx steps the index back, whoever moved it last. *)
PutBack(s) ==
  /\ snd[s].pc = "putback"
  /\ vq' = IF vq.up THEN [vq EXCEPT !.last = Dec(@)] ELSE vq
  /\ Drop(s)
  /\ UNCHANGED <<dev, avail, used, data, guest, msgs, seen, panicked>>

WriteFrame(s) ==
  /\ snd[s].pc = "write"
  /\ data' = [data EXCEPT ![snd[s].buf] = [from |-> s, k |-> snd[s].k]]
  /\ Goto(s, "used")
  /\ UNCHANGED <<vq, dev, avail, used, guest, msgs, seen, panicked>>

UpdateUsedRingAtLast(s) ==
  /\ snd[s].pc = "used"
  /\ IF vq.up
     THEN /\ used' = [ring |-> [used.ring EXCEPT ![vq.last % N] =
                                  [id |-> snd[s].buf, frame |-> [from |-> s, k |-> snd[s].k]]],
                      idx |-> Inc(used.idx)]
          /\ snd' = [snd EXCEPT ![s] = AfterFrame(s, TRUE)]
     ELSE Drop(s) /\ UNCHANGED used
  /\ UNCHANGED <<vq, dev, avail, data, guest, msgs, seen, panicked>>

UpdateUsedRing(s) ==
  /\ snd[s].pc = "used"
  /\ IF vq.up
     THEN /\ used' = [ring |-> [used.ring EXCEPT ![used.idx % N] =
                                  [id |-> snd[s].buf, frame |-> [from |-> s, k |-> snd[s].k]]],
                      idx |-> Inc(used.idx)]
          /\ snd' = [snd EXCEPT ![s] = AfterFrame(s, TRUE)]
     ELSE Drop(s) /\ UNCHANGED used
  /\ UNCHANGED <<vq, dev, avail, data, guest, msgs, seen, panicked>>

----------------------------------------------------------------------------
(* Notification *)

NotifiedNoStatus == [dev EXCEPT !.irq = TRUE]

(* VirtioMmio::notify: the status bit, then the interrupt. *)
Notified == [dev EXCEPT !.irt = TRUE, !.irq = TRUE]

(* The end of virtio_net_notify_handler.  The target's VM is looked up      *)
(* again; a target on this core is handled here, another gets a message     *)
(* unless its interface entry is already reset.                             *)
NotifyTarget(s) ==
  /\ snd[s].pc = "notify"
  /\ IF guest.phase = "gone" THEN Panic
     ELSE /\ IF s \in Local
             THEN /\ snd' = IF vq.up THEN [snd EXCEPT ![s].pc = "flags"]
                            ELSE [snd EXCEPT ![s].pc = "idle", ![s].owed = FALSE]
                  /\ UNCHANGED msgs
             ELSE /\ snd' = [snd EXCEPT ![s].pc = "idle", ![s].owed = FALSE]
                  /\ msgs' = IF guest.phase = "unlisted" THEN msgs ELSE [msgs EXCEPT !.n = @ + 1]
          /\ UNCHANGED <<vq, dev, avail, used, data, guest, seen, panicked>>

(* avail_flags, after ready() was found set: a step of its own. *)
NotifyLocal(s) ==
  /\ snd[s].pc = "flags"
  /\ IF ~vq.up THEN Panic
     ELSE /\ dev' = IF avail.flags = 0 THEN Notified ELSE dev
          /\ snd' = [snd EXCEPT ![s].pc = "idle", ![s].owed = FALSE]
          /\ UNCHANGED <<vq, avail, used, data, guest, msgs, seen, panicked>>

(* ethernet_ipi_rev_handler on the receiver's core *)
TakeMsg ==
  /\ msgs.n > 0 /\ ~msgs.handling
  /\ IF guest.phase = "gone" THEN Panic
     ELSE /\ msgs' = [n |-> msgs.n - 1, handling |-> vq.up]
          /\ UNCHANGED <<vq, dev, avail, used, data, guest, snd, seen, panicked>>

HandleMsg ==
  /\ msgs.handling
  /\ IF ~vq.up THEN Panic
     ELSE /\ dev' = IF avail.flags = 0 THEN Notified ELSE dev
          /\ msgs' = [msgs EXCEPT !.handling = FALSE]
          /\ UNCHANGED <<vq, avail, used, data, guest, snd, seen, panicked>>

----------------------------------------------------------------------------
(* The receiving guest's driver (external) and its register accesses. *)

Running == guest.phase \in {"up", "unlisted"}
Unseen == used.idx # guest.seen

(* Publish a free buffer, then write QUEUE_NOTIFY, which sets the status.   *)
Publish(b) ==
  /\ Running /\ guest.isr = "none" /\ b \in guest.free
  /\ avail' = [avail EXCEPT !.ring[avail.idx % N] = b, !.idx = Inc(@)]
  /\ guest' = [guest EXCEPT !.free = @ \ {b}]
  /\ dev' = [dev EXCEPT !.irt = TRUE]
  /\ UNCHANGED <<vq, used, data, snd, msgs, seen, panicked>>

(* The interrupt: read the status; an interrupt without it is not ours.     *)
Isr ==
  /\ Running /\ guest.isr = "none" /\ dev.irq
  /\ dev' = [dev EXCEPT !.irq = FALSE]
  /\ guest' = [guest EXCEPT !.isr = IF dev.irt THEN "ack" ELSE "none"]
  /\ UNCHANGED <<vq, avail, used, data, snd, msgs, seen, panicked>>

(* The acknowledgement clears the bit as it is now, then polling starts     *)
(* with interrupts suppressed.                                              *)
Ack ==
  /\ guest.isr = "ack"
  /\ dev' = [dev EXCEPT !.irt = FALSE]
  /\ guest' = [guest EXCEPT !.isr = "sched"]
  /\ UNCHANGED <<vq, avail, used, data, snd, msgs, seen, panicked>>

Schedule ==
  /\ guest.isr = "sched"
  /\ guest' = [guest EXCEPT !.isr = "none", !.napi = "poll"]
  /\ avail' = [avail EXCEPT !.flags = 1]
  /\ UNCHANGED <<vq, dev, used, data, snd, msgs, seen, panicked>>

Poll ==
  /\ Running /\ guest.isr = "none" /\ guest.napi = "poll"
  /\ IF Unseen
     THEN LET e == used.ring[guest.seen % N]
          IN  /\ guest' = [guest EXCEPT !.seen = Inc(@), !.free = @ \cup {e.id}]
              /\ seen' = [seen EXCEPT ![data[e.id].from] = data[e.id].k]
              /\ UNCHANGED avail
     ELSE /\ avail' = [avail EXCEPT !.flags = 0]
          /\ guest' = [guest EXCEPT !.napi = "recheck"]
          /\ UNCHANGED seen
  /\ UNCHANGED <<vq, dev, used, data, snd, msgs, panicked>>

(* Interrupts are on again: look once more before sleeping. *)
PollEnd ==
  /\ Running /\ guest.isr = "none" /\ guest.napi = "recheck"
  /\ guest' = [guest EXCEPT !.napi = IF Unseen THEN "poll" ELSE "off"]
  /\ avail' = [avail EXCEPT !.flags = IF Unseen THEN 1 ELSE 0]
  /\ UNCHANGED <<vq, dev, used, data, snd, msgs, seen, panicked>>

(* A write of 0 to STATUS: dev_reset takes the queues down first and clears *)
(* activated last.                                                          *)
ResetQueues ==
  /\ Resets /\ guest.phase = "up" /\ guest.isr = "none" /\ guest.napi = "off"
  /\ guest' = [guest EXCEPT !.phase = "reset"]
  /\ vq' = [up |-> FALSE, last |-> 0]
  /\ dev' = [dev EXCEPT !.irt = FALSE]
  /\ UNCHANGED <<avail, used, data, snd, msgs, seen, panicked>>

ResetActivated ==
  /\ guest.phase = "reset"
  /\ guest' = [guest EXCEPT !.phase = "down"]
  /\ dev' = [dev EXCEPT !.activated = FALSE]
  /\ UNCHANGED <<vq, avail, used, data, snd, msgs, seen, panicked>>

(* The driver sets the queue up afresh and writes 0xf to STATUS. *)
SetupQueues ==
  /\ guest.phase = "down"
  /\ guest' = [guest EXCEPT !.phase = "setup", !.free = Bufs, !.seen = 0]
  /\ avail' = FreshAvail /\ used' = FreshUsed /\ vq' = FreshVq
  /\ UNCHANGED <<dev, data, snd, msgs, seen, panicked>>

Activate ==
  /\ guest.phase = "setup"
  /\ guest' = [guest EXCEPT !.phase = "up"]
  /\ dev' = [dev EXCEPT !.activated = TRUE]
  /\ UNCHANGED <<vq, avail, used, data, snd, msgs, seen, panicked>>

(* vmm_remove_vm: the interface entry and the table of NICs first, the VM   *)
(* itself when nobody holds a reference to it any more.                     *)
RemoveNic ==
  /\ Removes /\ guest.phase = "up" /\ guest.isr = "none"
  /\ guest' = [guest EXCEPT !.phase = "unlisted"]
  /\ UNCHANGED <<vq, dev, avail, used, data, snd, msgs, seen, panicked>>

DropVm ==
  /\ guest.phase = "unlisted" /\ guest.isr = "none" /\ ~msgs.handling
  /\ \A s \in Senders : snd[s].pc \in {"idle", "check", "notify"}
  /\ guest' = [guest EXCEPT !.phase = "gone"]
  /\ UNCHANGED <<vq, dev, avail, used, data, snd, msgs, seen, panicked>>

----------------------------------------------------------------------------
SendStep(s) ==
  \/ CheckActivated(s) \/ AvailIdx(s) \/ Pop(s) \/ Recheck(s) \/ ReadDesc(s)
  \/ PutBack(s) \/ WriteFrame(s) \/ UpdateUsedRing(s) \/ NotifyTarget(s) \/ NotifyLocal(s)
MsgStep == TakeMsg \/ HandleMsg
IsrStep == Isr \/ Ack \/ Schedule
PollStep == Poll \/ PollEnd
SetupStep == ResetActivated \/ SetupQueues \/ Activate

Next ==
  /\ ~panicked
  /\ \/ \E s \in Senders : Transmit(s) \/ SendStep(s)
     \/ MsgStep \/ IsrStep \/ PollStep
     \/ \E b \in Bufs : Publish(b)
     \/ ResetQueues \/ SetupStep \/ RemoveNic \/ DropVm

(* Cores run on, messages are handled and a guest takes its interrupts and  *)
(* polls; nothing makes guests send, publish, reset or go.                  *)
Spec ==
  /\ Init /\ [][Next]_vars
  /\ \A s \in Senders : WF_vars(~panicked /\ SendStep(s))
  /\ WF_vars(~panicked /\ (MsgStep \/ IsrStep \/ PollStep \/ SetupStep))

----------------------------------------------------------------------------
(* Properties *)

TypeOK ==
  /\ vq \in [up : BOOLEAN, last : 0..(W - 1)]
  /\ dev \in [activated : BOOLEAN, irt : BOOLEAN, irq : BOOLEAN]
  /\ avail \in [ring : [Slots -> Bufs], idx : 0..(W - 1), flags : {0, 1}]
  /\ used \in [ring : [Slots -> [id : Bufs, frame : Frames]], idx : 0..(W - 1)]
  /\ data \in [Bufs -> Frames]
  /\ guest \in [phase : {"up", "reset", "down", "setup", "unlisted", "gone"},
                free : SUBSET Bufs, seen : 0..(W - 1),
                isr : {"none", "ack", "sched"}, napi : {"off", "poll", "recheck"}]
  /\ snd \in [Senders -> [pc : SenderPcs, k : 0..MaxFrames, todo : 0..Batch,
                          av : 0..(W - 1), buf : Bufs \cup {NoBuf}, owed : BOOLEAN]]
  /\ msgs \in [n : 0..(MaxFrames * Cardinality(Senders)), handling : BOOLEAN]
  /\ seen \in [Senders -> 0..MaxFrames]
  /\ panicked \in BOOLEAN

(* Where a buffer is: with the guest, published, held by a sender between   *)
(* pop_avail_desc_idx and update_used_ring, or used and not yet taken.      *)
Published(b) == {d \in 0..(Distance(vq.last, avail.idx) - 1) : avail.ring[(vq.last + d) % N] = b}
Holders(b) == {s \in Senders : snd[s].buf = b}
Reported(b) == {d \in 0..(Distance(guest.seen, used.idx) - 1) : used.ring[(guest.seen + d) % N].id = b}
Places(b) == (IF b \in guest.free THEN 1 ELSE 0) + Cardinality(Published(b))
               + Cardinality(Holders(b)) + Cardinality(Reported(b))

(* Every receive buffer is in exactly one place: a buffer popped, put back  *)
(* or reported through the queue's separately locked methods is neither     *)
(* handed out twice nor lost.                                               *)
BufferOnce == \A b \in Bufs : Places(b) = 1

(* pop_avail_desc_idx takes only what the guest published: the queue's      *)
(* last_avail_idx never passes the ring's index.                            *)
NeverAhead == Distance(vq.last, avail.idx) <= N

(* What write_through_iov left in a buffer is still there when the guest    *)
(* finds it in the used ring.                                               *)
PayloadIntact ==
  \A d \in 0..(Distance(guest.seen, used.idx) - 1) :
    LET e == used.ring[(guest.seen + d) % N] IN data[e.id] = e.frame

(* The guest takes the frames of a sender in the order the sender's         *)
(* transmit handler sent them, and none twice.                              *)
InOrder == [][\A s \in Senders : seen'[s] # seen[s] => seen'[s] > seen[s]]_seen

(* The check of avail_flags in ethernet_ipi_rev_handler never loses the     *)
(* last wake-up: when the guest sleeps with a frame in its ring, an         *)
(* interrupt it will accept, a message or a sender is on its way.           *)
NoLostNotification ==
  (guest.phase = "up" /\ guest.isr = "none" /\ guest.napi = "off" /\ Unseen)
    => \/ dev.irq /\ dev.irt
       \/ msgs.n > 0 \/ msgs.handling
       \/ \E s \in Senders : snd[s].owed

(* unwrap never meets None: no interleaving of senders, messages and the    *)
(* guest's register writes stops the hypervisor.                            *)
NoPanic == ~panicked

(* A frame reported by update_used_ring is eventually taken by the guest,   *)
(* through message, status bit and interrupt, or found by its polling.      *)
FrameSeen ==
  \A s \in Senders : \A k \in 1..MaxFrames :
    (\E d \in 0..(Distance(guest.seen, used.idx) - 1) :
        used.ring[(guest.seen + d) % N].frame = [from |-> s, k |-> k])
      ~> (seen[s] >= k)

============================================================================

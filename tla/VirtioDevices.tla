--------------------------- MODULE VirtioDevices ---------------------------
(***************************************************************************)
(* Four questions about the virtio devices, one to a behaviour:            *)
(*   "stream"   one sender streams frames, some longer than a buffer, to a *)
(*              guest that stays up;                                       *)
(*   "resets"   a remote and a local sender, while the guest resets its    *)
(*              device and may be removed;                                 *)
(*   "mmio"     drivers that take over from each other set a device up;    *)
(*   "copy"     a frame is copied from one chain of segments to another.   *)
(***************************************************************************)
EXTENDS VirtioMmio, IovCopy

CONSTANTS Remote, Near,                 \* the two senders
          N, W, MaxFrames, NoBuf        \* VirtioNet

\* A virtqueue has a descriptor, and its indices count modulo a multiple of its size.
NetConstants ==
    /\ N \in Nat \ {0} /\ W \in Nat /\ W % N = 0 /\ W > N
    /\ MaxFrames \in Nat /\ NoBuf \notin 0..N - 1
ASSUME NetAssumption == NetConstants

VARIABLES question
VARIABLES vq, dev, avail, used, data, guest, snd, msgs, seen, panicked  \* VirtioNet

netVars == <<vq, dev, avail, used, data, guest, snd, msgs, seen, panicked>>
vars == <<question, netVars, mmioVars, copyVars>>

Stream == INSTANCE VirtioNet WITH
              Senders <- {Remote}, Local <- {}, Batch <- 2,
              Long <- TRUE, Resets <- FALSE, Removes <- FALSE
Resets == INSTANCE VirtioNet WITH
              Senders <- {Remote, Near}, Local <- {Near}, Batch <- 1, MaxFrames <- 1,
              Long <- FALSE, Resets <- TRUE, Removes <- TRUE

Init ==
    /\ question \in {"stream", "resets", "mmio", "copy"}
    /\ IF question = "resets" THEN Resets!Init ELSE Stream!Init
    /\ MmioInit
    /\ CopyInit
    /\ question # "copy" => src = <<1>> /\ dst = <<1>>

Next ==
    /\ UNCHANGED question
    /\ CASE question = "stream" -> Stream!Next
         [] question = "resets" -> Resets!Next
         [] OTHER -> UNCHANGED netVars
    /\ IF question = "mmio" THEN MmioNext ELSE UNCHANGED mmioVars
    /\ IF question = "copy" THEN CopyNext ELSE UNCHANGED copyVars

\* Fairness of VirtioNet for the stream: the sending core and the receiver's core
\* finish what they began, and the guest takes the interrupts it enabled.
Fairness ==
    /\ WF_netVars(question = "stream" /\ ~panicked /\ Stream!SendStep(Remote))
    /\ WF_netVars(/\ question = "stream" /\ ~panicked
                  /\ Stream!MsgStep \/ Stream!IsrStep \/ Stream!PollStep \/ Stream!SetupStep)

Spec == Init /\ [][Next]_vars /\ Fairness

\* Every receive buffer is in exactly one place, and what was copied into it is
\* still there when the guest finds it in the used ring.  A guest that sleeps over
\* a frame has a wake-up on its way, whatever resets and removals happen around
\* the senders (ethernet_ipi_rev_handler, notify).
BuffersSafe ==
    /\ question = "stream" => Stream!BufferOnce /\ Stream!PayloadIntact
    /\ question = "resets" => Resets!NoLostNotification

\* The guest finds a sender's frames in the used ring in the order they were
\* sent, over the wrap of the ring's indices (update_used_ring).
InOrder == Stream!InOrder

\* Every frame copied into a receive buffer is eventually seen by the guest:
\* notifications it suppresses (avail_flags) are made up for when it polls.
FrameSeen == question = "stream" => Stream!FrameSeen
=============================================================================

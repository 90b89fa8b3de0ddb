-------------------------------- MODULE Spsc --------------------------------
(***************************************************************************)
(* The single-producer single-consumer queue of tinyos::spsc, one step per *)
(* access to shared memory, so that the endpoint operated from an ISR, or  *)
(* from another task, runs between any two of them.                        *)
(*                                                                         *)
(* The blocking operations (Pusher::reserve, Popper::pop) go through       *)
(* Notify::until: check the condition, subscribe, return Pending; notify   *)
(* moves the subscribed task's bit to the executor's wake bits.            *)
(***************************************************************************)
EXTENDS Naturals, Sequences

CONSTANTS Values,    \* the elements moved through the queue
          N,         \* storage.len()
          Preempt    \* which endpoint runs in an ISR: "none", "pusher",
                     \* "popper"; "both" lets the two interleave freely

ASSUME SpscAssumption ==
    /\ N \in Nat
    /\ Preempt \in {"none", "pusher", "popper", "both"}

VARIABLES
    head, tail,    \* the two indices
    storage,       \* contents of the backing memory
    owned,         \* slots that hold an element the queue must pop or drop
    alive,         \* the Queue exists
    ppc, hNext,    \* pusher: where it is, and Entry.h_next
    cpc, tNext,    \* popper: where it is, and t_next
    val,           \* popper: the element read out, before tail is stored
    out,           \* the element the last pop returned
    subs,          \* tasks whose bit is in the Notify they wait on
    wake           \* tasks whose bit is in WAKE_BITS

mem == <<head, tail, storage, owned, alive, out>>
pvars == <<ppc, hNext>>
cvars == <<cpc, tNext, val>>
notifyVars == <<subs, wake>>
vars == <<mem, pvars, cvars, notifyVars>>

Slots == 0 .. N - 1
Sides == {"pusher", "popper"}

\* Queue::next_index: wrapping increment by comparison, not by remainder.
NextIndex(i) == IF i + 1 = N THEN 0 ELSE i + 1

\* Number of elements from t up to h, the slot of the k-th of them (from 0),
\* and all of these slots: those the loop in Drop for Queue visits.
Distance(t, h) == IF h >= t THEN h - t ELSE h + N - t
SlotAt(t, k) == IF t + k < N THEN t + k ELSE t + k - N
SlotsFrom(t, h) == {SlotAt(t, k) : k \in 0 .. Distance(t, h) - 1}

Count == Distance(tail, head)
LiveSlots == SlotsFrom(tail, head)

\* What the queue holds, oldest first.
Contents == [k \in 1 .. (IF alive THEN Count ELSE 0) |-> storage[SlotAt(tail, k - 1)]]

\* An endpoint between two steps of one call; an Entry may be kept across
\* await points, and a parked future has returned Pending.
AtRest(s) ==
    IF s = "pusher" THEN ppc \in {"idle", "parked", "entry"}
                    ELSE cpc \in {"idle", "parked"}
Other(s) == IF s = "pusher" THEN "popper" ELSE "pusher"

\* Tasks do not interrupt each other or an ISR; an ISR interrupts a task.
CanStep(s) ==
    /\ alive
    /\ Preempt \in {"both", s} \/ AtRest(Other(s))

\* Only a task can wait on a future.
IsTask(s) == Preempt # s

TypeOK ==
    /\ head \in Nat /\ tail \in Nat
    /\ storage \in [Slots -> Values]
    /\ owned \subseteq Slots
    /\ alive \in BOOLEAN
    /\ ppc \in {"idle", "subscribe", "parked", "entry", "written", "notify"}
    /\ cpc \in {"idle", "subscribe", "parked", "found", "read", "notify"}
    /\ hNext \in Nat /\ tNext \in Nat
    /\ val \in Seq(Values) /\ out \in Seq(Values)
    /\ subs \subseteq Sides /\ wake \subseteq Sides

\* Queue::new: indices at zero, nothing in the (uninitialised) storage.
Init ==
    /\ head = 0 /\ tail = 0
    /\ storage \in [Slots -> Values]
    /\ owned = {}
    /\ alive = TRUE
    /\ ppc = "idle" /\ hNext = 0
    /\ cpc = "idle" /\ tNext = 0 /\ val = <<>>
    /\ out = <<>>
    /\ subs = {} /\ wake = {}
-----------------------------------------------------------------------------
(* Notify *)

\* Notify::notify: swap the mask out, OR it into WAKE_BITS.
NotifyKeepsQuiet(s) == UNCHANGED notifyVars
Notify(s) ==
    /\ subs' = subs \ {s}
    /\ wake' = wake \cup (subs \cap {s})

\* Notify::subscribe.
Subscribe(s) ==
    /\ subs' = subs \cup {s}
    /\ UNCHANGED wake

\* The executor clears a task's bit when it polls it. The task may be polled
\* while it is not waiting on this queue at all.
PollElsewhere(s) ==
    /\ IsTask(s) /\ s \in wake
    /\ (IF s = "pusher" THEN ppc ELSE cpc) \in {"idle", "entry"}
    /\ wake' = wake \ {s}
    /\ UNCHANGED <<mem, pvars, cvars, subs>>
-----------------------------------------------------------------------------
(* Pusher *)

\* Pusher::try_reserve: load both indices; None when full, else an Entry.
HasRoom == NextIndex(head) # tail
TryReserveUnchecked(onFull) ==
    /\ ppc' = "entry" /\ hNext' = NextIndex(head)
TryReserve(onFull) ==
    IF HasRoom THEN ppc' = "entry" /\ hNext' = NextIndex(head)
               ELSE ppc' = onFull /\ UNCHANGED hNext

\* try_reserve, and try_push up to its check.
PusherTryReserve ==
    /\ CanStep("pusher") /\ ppc = "idle"
    /\ TryReserve("idle")
    /\ UNCHANGED <<mem, cvars, notifyVars>>

\* First poll of reserve().
PusherReserve ==
    /\ CanStep("pusher") /\ IsTask("pusher") /\ ppc = "idle"
    /\ TryReserve("subscribe")
    /\ UNCHANGED <<mem, cvars, notifyVars>>

\* Until::poll after the condition failed.
PusherSubscribe ==
    /\ CanStep("pusher") /\ ppc = "subscribe"
    /\ Subscribe("pusher")
    /\ ppc' = "parked"
    /\ UNCHANGED <<mem, hNext, cvars>>

\* The executor finds the wake bit and polls reserve() again.
PusherRepoll ==
    /\ CanStep("pusher") /\ ppc = "parked" /\ "pusher" \in wake
    /\ wake' = wake \ {"pusher"}
    /\ TryReserve("subscribe")
    /\ UNCHANGED <<mem, cvars, subs>>

\* Dropping the reserve() future, or the Entry: the queue does not change.
PusherCancel ==
    /\ CanStep("pusher") /\ ppc \in {"parked", "entry"}
    /\ ppc' = "idle"
    /\ UNCHANGED <<mem, hNext, cvars, notifyVars>>

\* Entry::push, three steps: write the slot, publish head, notify.
EntryWrite(v) ==
    /\ CanStep("pusher") /\ ppc = "entry"
    /\ storage' = [storage EXCEPT ![head] = v]
    /\ owned' = owned \cup {head}
    /\ ppc' = "written"
    /\ UNCHANGED <<head, tail, alive, out, hNext, cvars, notifyVars>>

EntryStoreHead ==
    /\ CanStep("pusher") /\ ppc = "written"
    /\ head' = hNext
    /\ ppc' = "notify"
    /\ UNCHANGED <<tail, storage, owned, alive, out, hNext, cvars, notifyVars>>

EntryNotify ==
    /\ CanStep("pusher") /\ ppc = "notify"
    /\ Notify("popper")
    /\ ppc' = "idle"
    /\ UNCHANGED <<mem, hNext, cvars>>
-----------------------------------------------------------------------------
(* Popper *)

\* Popper::try_pop up to the read of the slot.
TryPop(onEmpty) ==
    IF head # tail THEN cpc' = "found" /\ tNext' = NextIndex(tail)
                   ELSE cpc' = onEmpty /\ UNCHANGED tNext

PopperTryPop ==
    /\ CanStep("popper") /\ cpc = "idle"
    /\ TryPop("idle")
    /\ UNCHANGED <<mem, pvars, val, notifyVars>>

\* First poll of pop().
PopperPop ==
    /\ CanStep("popper") /\ IsTask("popper") /\ cpc = "idle"
    /\ TryPop("subscribe")
    /\ UNCHANGED <<mem, pvars, val, notifyVars>>

PopperSubscribe ==
    /\ CanStep("popper") /\ cpc = "subscribe"
    /\ Subscribe("popper")
    /\ cpc' = "parked"
    /\ UNCHANGED <<mem, pvars, tNext, val>>

PopperRepoll ==
    /\ CanStep("popper") /\ cpc = "parked" /\ "popper" \in wake
    /\ wake' = wake \ {"popper"}
    /\ TryPop("subscribe")
    /\ UNCHANGED <<mem, pvars, val, subs>>

\* Dropping the pop() future while it is parked.
PopperCancel ==
    /\ CanStep("popper") /\ cpc = "parked"
    /\ cpc' = "idle"
    /\ UNCHANGED <<mem, pvars, tNext, val, notifyVars>>

\* assume_init_read: the element moves out of the slot.
PopRead ==
    /\ CanStep("popper") /\ cpc = "found"
    /\ val' = <<storage[tail]>>
    /\ owned' = owned \ {tail}
    /\ cpc' = "read"
    /\ UNCHANGED <<head, tail, storage, alive, out, pvars, tNext, notifyVars>>

\* Storing tail gives the slot back to the pusher; the element is returned.
AdvanceTail == tail' = tNext
PopStoreTail ==
    /\ CanStep("popper") /\ cpc = "read"
    /\ AdvanceTail
    /\ out' = val /\ val' = <<>>
    /\ cpc' = "notify"
    /\ UNCHANGED <<head, storage, owned, alive, pvars, tNext, notifyVars>>

PopNotify ==
    /\ CanStep("popper") /\ cpc = "notify"
    /\ Notify("pusher")
    /\ cpc' = "idle"
    /\ UNCHANGED <<mem, pvars, tNext, val>>
-----------------------------------------------------------------------------
(* The queue itself *)

\* Drop for Queue: both endpoints are gone (they borrow the queue); every
\* element between tail and head is dropped in place.
DropNothing == owned' = owned
DropElements == owned' = owned \ LiveSlots
QueueDrop ==
    /\ alive /\ ppc = "idle" /\ cpc = "idle"
    /\ DropElements
    /\ alive' = FALSE
    /\ UNCHANGED <<head, tail, storage, out, pvars, cvars, notifyVars>>

\* Queue::new over the same storage: fresh Notify masks.
QueueNew ==
    /\ ~alive
    /\ alive' = TRUE
    /\ head' = 0 /\ tail' = 0
    /\ subs' = {}
    /\ UNCHANGED <<storage, owned, out, pvars, cvars, wake>>

PusherStep ==
    \/ PusherSubscribe \/ PusherRepoll
    \/ EntryStoreHead \/ EntryNotify
PopperStep ==
    \/ PopperSubscribe \/ PopperRepoll
    \/ PopRead \/ PopStoreTail \/ PopNotify

Next ==
    \/ PusherTryReserve \/ PusherReserve \/ PusherCancel
    \/ \E v \in Values : EntryWrite(v)
    \/ PusherStep
    \/ PopperTryPop \/ PopperPop \/ PopperCancel
    \/ PopperStep
    \/ \E s \in Sides : PollElsewhere(s)
    \/ QueueDrop \/ QueueNew

Spec == Init /\ [][Next]_vars

\* A poll or an ISR, once begun, runs to its end; each round of the executor
\* polls every task whose wake bit is set, however often the others run.
FairSpec ==
    /\ Spec
    /\ WF_vars(PusherStep) /\ WF_vars(PopperStep)
    /\ SF_vars(PusherRepoll) /\ SF_vars(PopperRepoll)
-----------------------------------------------------------------------------
(* Properties *)

\* Pusher and popper never touch the same slot at the same time (the "not
\* aliased" safety argument of try_reserve and try_pop), a push never
\* overwrites an element that was not popped, a pop never reads a slot that
\* holds none.
NoAliasing ==
    /\ ppc \in {"entry", "written"} /\ cpc \in {"found", "read"} => head # tail
    /\ ppc = "entry" => head \notin owned
    /\ cpc = "found" => tail \in owned

\* Elements are neither lost nor duplicated: the slots that own an element are
\* those between the indices, plus the one being pushed, minus the one being
\* popped; and a dropped queue owns none.
Ownership ==
    owned = ((IF alive THEN LiveSlots ELSE {})
                \cup (IF ppc = "written" THEN {head} ELSE {}))
            \ (IF cpc = "read" THEN {tail} ELSE {})

\* The unchecked index of try_reserve is inside the storage ("we maintain
\* self.q.head ... within range for storage").
ReservedSlotInRange == ppc \in {"entry", "written"} => head \in Slots

\* The queue implements a FIFO of N - 1 elements whatever the interleaving.
Fifo == INSTANCE BoundedFifo WITH
            queue <- Contents, Capacity <- N - 1
FifoRefinement == Fifo!FifoSpec

\* A task blocked in pop() is polled again once there is an element; one
\* blocked in reserve() once there is room.
PopperNotStranded == (cpc = "parked" /\ Count > 0) ~> (cpc # "parked" \/ Count = 0)
PusherNotStranded == (ppc = "parked" /\ HasRoom) ~> (ppc # "parked" \/ ~HasRoom)
=============================================================================

------------------------------- MODULE Watch -------------------------------
(***************************************************************************)
(* tinyos::watch: one value with a wrapping change count, senders that     *)
(* replace it, receivers that remember the count they last saw. The body   *)
(* of a send_modify or of a glimpse is arbitrary code that may call back   *)
(* into the same Watch while the contents are borrowed.                    *)
(***************************************************************************)
EXTENDS Integers, FiniteSets

CONSTANTS Receivers,
          Versions   \* 2^64, lowered so that the count wraps

VARIABLES version,   \* of the shared value
          borrow,    \* the RefCell: "free", "mut", or the receivers glimpsing
          seen,      \* the version each receiver has seen
          waiting,   \* receivers suspended in changed()
          woken,     \* of those, the ones the Notify has woken
          news       \* updates since each receiver last looked

vars == <<version, borrow, seen, waiting, woken, news>>

Words == 0 .. Versions - 1

TypeOK ==
    /\ version \in Words
    /\ borrow.kind \in {"free", "mut", "shared"} /\ borrow.by \subseteq Receivers
    /\ seen \in [Receivers -> Words]
    /\ waiting \subseteq Receivers /\ woken \subseteq waiting
    /\ news \in [Receivers -> 0 .. Versions - 1]

Free == [kind |-> "free", by |-> {}]

\* Watch::new and subscribe
Init ==
    /\ version = 0 /\ borrow = Free
    /\ seen = [r \in Receivers |-> 0]
    /\ waiting = {} /\ woken = {}
    /\ news = [r \in Receivers |-> 0]

\* A receiver falls at most Versions - 1 updates behind; see the README.
InStep == \A r \in Receivers : news[r] < Versions - 1

\* send_modify: try_borrow_mut, which panics if anything is borrowed.
SendBegin ==
    /\ borrow = Free /\ InStep
    /\ borrow' = [kind |-> "mut", by |-> {}]
    /\ UNCHANGED <<version, seen, waiting, woken, news>>

\* The body has returned: the count goes up and subscribers are notified.
SendEndForgetsNotify ==
    /\ borrow.kind = "mut"
    /\ version' = (version + 1) % Versions
    /\ news' = [r \in Receivers |-> news[r] + 1]
    /\ borrow' = Free
    /\ UNCHANGED <<seen, waiting, woken>>
SendEnd ==
    /\ borrow.kind = "mut"
    /\ version' = (version + 1) % Versions
    /\ news' = [r \in Receivers |-> news[r] + 1]
    /\ woken' = waiting
    /\ borrow' = Free
    /\ UNCHANGED <<seen, waiting>>

\* is_changed
IsChanged(r) == version # seen[r]

MarkAsSeen(r) ==
    /\ seen' = [seen EXCEPT ![r] = version]
    /\ news' = [news EXCEPT ![r] = 0]

\* changed(): the count is compared; the receiver suspends when it is the one
\* it has seen.
Changed(r) ==
    /\ r \notin waiting \/ r \in woken
    /\ woken' = woken \ {r}
    /\ IF IsChanged(r)
       THEN MarkAsSeen(r) /\ waiting' = waiting \ {r}
       ELSE waiting' = waiting \cup {r} /\ UNCHANGED <<seen, news>>
    /\ UNCHANGED <<version, borrow>>

\* The future of changed() is dropped.
CancelChanged(r) ==
    /\ r \in waiting
    /\ waiting' = waiting \ {r} /\ woken' = woken \ {r}
    /\ UNCHANGED <<version, borrow, seen, news>>

\* glimpse, which may be nested; it panics during a send_modify.
GlimpseBegin(r) ==
    /\ borrow.kind # "mut" /\ r \notin borrow.by /\ r \notin waiting
    /\ borrow' = [kind |-> "shared", by |-> borrow.by \cup {r}]
    /\ UNCHANGED <<version, seen, waiting, woken, news>>

Returned(r) ==
    borrow' = IF borrow.by = {r} THEN Free ELSE [borrow EXCEPT !.by = @ \ {r}]

GlimpseEnd(r) ==
    /\ r \in borrow.by
    /\ Returned(r)
    /\ UNCHANGED <<version, seen, waiting, woken, news>>

\* glimpse_and_update
GlimpseAndUpdateEnd(r) ==
    /\ r \in borrow.by
    /\ Returned(r)
    /\ MarkAsSeen(r)
    /\ UNCHANGED <<version, waiting, woken>>

\* mark_as_unseen: the previous version, with wrapping_sub.
MarkAsUnseen(r) ==
    /\ r \notin waiting
    /\ seen' = [seen EXCEPT ![r] = (version - 1) % Versions]
    /\ news' = [news EXCEPT ![r] = 1]
    /\ UNCHANGED <<version, borrow, waiting, woken>>

Next ==
    \/ SendBegin \/ SendEnd
    \/ \E r \in Receivers :
         \/ Changed(r) \/ CancelChanged(r)
         \/ GlimpseBegin(r) \/ GlimpseEnd(r) \/ GlimpseAndUpdateEnd(r)
         \/ MarkAsUnseen(r)

Spec == Init /\ [][Next]_vars

-----------------------------------------------------------------------------
\* is_changed tells whether there was an update since the receiver last looked
\* (or marked it unseen), across the wrap of the count.
ChangeIsSeen == \A r \in Receivers : IsChanged(r) <=> news[r] > 0

\* A receiver suspended in changed() that has an update to see is woken.
NoMissedUpdate == \A r \in waiting : news[r] > 0 => r \in woken

=============================================================================

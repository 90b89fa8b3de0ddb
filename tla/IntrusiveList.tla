--------------------------- MODULE IntrusiveList ---------------------------
(***************************************************************************)
(* tinyos::list as it is linked in memory. A node lives inside a future:   *)
(* polling the future links it, waking detaches it, dropping the future    *)
(* frees it wherever it is. The operations run between two polls, so each  *)
(* is one step; they work on mem, the cells of the list and of the nodes.  *)
(***************************************************************************)
EXTENDS Integers, Sequences, FiniteSets

CONSTANTS Nodes, Keys, None

VARIABLES mem,       \* root.head, root.tail, and next, prev, list of each node
          future,    \* where the future that owns each node is in its life
          key,       \* the contents of each node
          cleanups   \* nodes whose cleanup closure has run

vars == <<mem, future, key, cleanups>>

Life == {"none", "fresh", "attached", "resolved"}

TypeOK ==
    /\ mem.head \in Nodes \cup {None} /\ mem.tail \in Nodes \cup {None}
    /\ mem.head = None <=> mem.tail = None     \* root is one Option
    /\ mem.next \in [Nodes -> Nodes \cup {None}]
    /\ mem.prev \in [Nodes -> Nodes \cup {None}]
    /\ mem.list \in [Nodes -> BOOLEAN]
    /\ future \in [Nodes -> Life]
    /\ key \in [Nodes -> Keys]
    /\ cleanups \subseteq Nodes

\* Cell p of memory m set for node n (a None has no cells).
Set(f, n, v) == IF n = None THEN f ELSE [f EXCEPT ![n] = v]

\* The cells of a node that does not exist.
NoKey == CHOOSE k \in Keys : TRUE
Freed(m, n) == [m EXCEPT !.next[n] = None, !.prev[n] = None]

Init ==
    /\ mem = [head |-> None, tail |-> None,
              next |-> [n \in Nodes |-> None], prev |-> [n \in Nodes |-> None],
              list |-> [n \in Nodes |-> FALSE]]
    /\ future = [n \in Nodes |-> "none"]
    /\ key = [n \in Nodes |-> NoKey]
    /\ cleanups = {}

\* The candidate that WaitForDetach::poll settles on, walking from the tail:
\* the last node whose contents are not larger than k, or None.
CandidateAmongLarger(m, k) ==
    LET walk[i \in 0 .. Cardinality(Nodes)] ==
          IF i = 0 THEN m.tail
          ELSE IF walk[i - 1] # None /\ key[walk[i - 1]] >= k
               THEN m.prev[walk[i - 1]]
               ELSE walk[i - 1]
    IN  walk[Cardinality(Nodes)]
Candidate(m, k) ==
    LET walk[i \in 0 .. Cardinality(Nodes)] ==
          IF i = 0 THEN m.tail
          ELSE IF walk[i - 1] # None /\ key[walk[i - 1]] > k
               THEN m.prev[walk[i - 1]]
               ELSE walk[i - 1]
    IN  walk[Cardinality(Nodes)]

\* Node n linked behind candidate c, or as the new head.
InsertAt(m, c, n) ==
    IF c # None
    THEN [m EXCEPT !.next = Set(Set(@, n, m.next[c]), c, n),
                   !.prev = Set(Set(@, n, c), m.next[c], n),
                   !.tail = IF c = @ THEN n ELSE @,
                   !.list[n] = TRUE]
    ELSE [m EXCEPT !.next = Set(@, n, m.head), !.prev = Set(@, m.head, n),
                   !.head = n, !.tail = IF @ = None THEN n ELSE @,
                   !.list[n] = TRUE]

\* wake_head_if, its predicate true of the head: the head is detached.
DetachHead(m) ==
    IF m.head = m.tail
    THEN [m EXCEPT !.head = None, !.tail = None, !.list[m.head] = FALSE]
    ELSE [m EXCEPT !.head = m.next[m.head], !.next[m.head] = None,
                   !.prev = Set(@, m.next[m.head], None), !.list[m.head] = FALSE]

\* Drop for Node.
Unlink(m, n) ==
    IF ~m.list[n] THEN m
    ELSE [m EXCEPT !.list[n] = FALSE,
                   !.next = Set(@, m.prev[n], m.next[n]),
                   !.prev = Set(@, m.next[n], m.prev[n]),
                   !.head = IF m.prev[n] = None THEN m.next[n] ELSE @,
                   !.tail = IF m.next[n] = None THEN m.prev[n] ELSE @]

\* The nodes that memory m links, from the head on.
Linked(m) ==
    LET from[i \in 0 .. Cardinality(Nodes)] ==
          IF i = 0 THEN <<m.head>>
          ELSE LET s == from[i - 1] IN
               IF s[Len(s)] = None THEN s ELSE Append(s, m.next[s[Len(s)]])
    IN  SelectSeq(from[Cardinality(Nodes)], LAMBDA x : x # None)
-----------------------------------------------------------------------------
\* join_with_cleanup: the node is created, and not linked before it is polled.
Create(n, k) ==
    /\ future[n] = "none"
    /\ future' = [future EXCEPT ![n] = "fresh"]
    /\ key' = [key EXCEPT ![n] = k]
    /\ mem' = Freed(mem, n)
    /\ cleanups' = cleanups \ {n}

\* First poll.
PollFirst(n) ==
    /\ future[n] = "fresh"
    /\ mem' = InsertAt(mem, Candidate(mem, key[n]), n)
    /\ future' = [future EXCEPT ![n] = "attached"]
    /\ UNCHANGED <<key, cleanups>>

\* A later poll resolves once the node is detached, and drops the cleanup.
PollAgain(n) ==
    /\ future[n] = "attached" /\ ~mem.list[n]
    /\ future' = [future EXCEPT ![n] = "resolved"]
    /\ UNCHANGED <<mem, key, cleanups>>

\* Drop for WaitWithCleanup, then for the node.
DropFuture(n) ==
    /\ future[n] # "none"
    /\ cleanups' = IF future[n] = "attached" /\ ~mem.list[n]
                   THEN cleanups \cup {n} ELSE cleanups
    /\ mem' = Freed(Unlink(mem, n), n)
    /\ key' = [key EXCEPT ![n] = NoKey]
    /\ future' = [future EXCEPT ![n] = "none"]

\* wake_one
WakeOne ==
    /\ mem.head # None
    /\ mem' = DetachHead(mem)
    /\ UNCHANGED <<future, key, cleanups>>

\* wake_while(|t| t <= k), the way the timer list is woken; wake_all when k is
\* the largest key.
WakeWhile(k) ==
    LET after[i \in 0 .. Cardinality(Nodes)] ==
          IF i = 0 THEN mem
          ELSE IF after[i - 1].head # None /\ key[after[i - 1].head] <= k
               THEN DetachHead(after[i - 1])
               ELSE after[i - 1]
    IN  /\ mem' = after[Cardinality(Nodes)]
        /\ mem' # mem
        /\ UNCHANGED <<future, key, cleanups>>

Next ==
    \/ \E n \in Nodes :
         \/ \E k \in Keys : Create(n, k)
         \/ PollFirst(n) \/ PollAgain(n) \/ DropFuture(n)
    \/ WakeOne
    \/ \E k \in Keys : WakeWhile(k)

Spec == Init /\ [][Next]_vars
-----------------------------------------------------------------------------
\* The Link Valid Invariant of list.rs: whatever can be reached from the list,
\* forwards or backwards, is a node whose future still exists and which knows
\* that it is in the list; the two directions agree; a node that does not hold
\* the list pointer is not reachable.
LinkValid ==
    LET s == Linked(mem)
        reachable == {s[i] : i \in 1 .. Len(s)}
    IN  /\ reachable = {n \in Nodes : mem.list[n]}
        /\ \A n \in reachable : future[n] = "attached"
        /\ Len(s) = Cardinality(reachable)
        /\ IF s = <<>> THEN mem.head = None /\ mem.tail = None
           ELSE mem.head = s[1] /\ mem.tail = s[Len(s)]
        /\ \A i \in 1 .. Len(s) :
             /\ mem.prev[s[i]] = IF i = 1 THEN None ELSE s[i - 1]
             /\ mem.next[s[i]] = IF i = Len(s) THEN None ELSE s[i + 1]

\* The cleanup closure runs for the futures dropped after they were woken and
\* before they were polled again, and for no other: it never runs while its
\* node is still in line.
CleanupOnlyAfterWake ==
    [][\A n \in Nodes :
         n \in cleanups' \ cleanups <=>
           n \notin cleanups /\ future[n] = "attached" /\ ~mem.list[n] /\ future'[n] = "none"]_vars

\* The list in memory is a sorted list that serves equals in order of arrival.
Abstract ==
    INSTANCE OrderedList WITH
        order <- LET s == Linked(mem)
                 IN  [i \in 1 .. Len(s) |-> [node |-> s[i], key |-> key[s[i]]]],
        woken <- {n \in Nodes : future[n] = "attached" /\ ~mem.list[n]}
ListRefinement == Abstract!Spec
=============================================================================

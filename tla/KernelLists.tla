---------------------------- MODULE KernelLists ----------------------------
(***************************************************************************)
(* The linked lists of the C kernel: the circular lists of list.h          *)
(* (list_head), its hash chains (hlist), and the tail queues (TAILQ) and   *)
(* circular queues (CIRCLEQ) of queue.h.  A behaviour uses two lists of    *)
(* one kind.                                                               *)
(*                                                                         *)
(* A cell is a head or a node.  next and prev are its two pointers; a      *)
(* pointer to the next field of a cell, which hlist and TAILQ use as prev, *)
(* is that cell.  The first and last fields of a queue's head are its next *)
(* and prev.  A node outside the lists is not read; its fields are         *)
(* forgotten here.                                                         *)
(***************************************************************************)
EXTENDS Integers, Sequences, FiniteSets, SequencesExt

CONSTANTS Heads, Nodes

VARIABLES
    kind,       \* which of the four
    m,          \* the pointers: next and prev of every cell
    seq         \* what the lists ought to be; Stale after list_splice

vars == <<kind, m, seq>>

Nil   == "null"
Stale == <<Nil>>
Cells == Heads \cup Nodes
Free  == Nodes \ UNION {ToSet(seq[h]) : h \in Heads}
Circular == {"list", "circleq"}

\* INIT_LIST_HEAD, CIRCLEQ_HEAD_INITIALIZER, TAILQ_INIT, INIT_HLIST_HEAD
InitHead(M, h) ==
    [M EXCEPT !.next[h] = IF kind \in Circular THEN h ELSE Nil,
              !.prev[h] = IF kind = "hlist" THEN Nil ELSE h]

Init ==
    /\ kind \in {"list", "hlist", "tailq", "circleq"}
    /\ m = [next |-> [c \in Cells |-> IF c \in Heads /\ kind \in Circular THEN c ELSE Nil],
            prev |-> [c \in Cells |-> IF c \in Heads /\ kind # "hlist" THEN c ELSE Nil]]
    /\ seq = [h \in Heads |-> <<>>]

-----------------------------------------------------------------------------
(* Pointer operations on M *)

SetNext(M, c, d) == [M EXCEPT !.next[c] = d]
SetPrev(M, c, d) == [M EXCEPT !.prev[c] = d]
Forget(M, n) == SetPrev(SetNext(M, n, Nil), n, Nil)

__list_add(M, n, p, q) ==
    SetNext(SetPrev(SetNext(SetPrev(M, q, n), n, q), n, p), p, n)
__list_del(M, p, q) == SetNext(SetPrev(M, q, p), p, q)

list_replace(M, old, new) ==
    LET A == SetNext(M, new, M.next[old])
        B == SetPrev(A, A.next[new], new)
        D == SetPrev(B, new, B.prev[old])
    IN SetNext(D, D.prev[new], new)

list_empty(M, h) == M.next[h] = h
list_is_singular(M, h) == ~list_empty(M, h) /\ M.next[h] = M.prev[h]

__list_cut_position(M, l, h, e) ==
    LET first == M.next[e]
        A == SetNext(M, l, M.next[h])
        B == SetPrev(SetPrev(A, A.next[l], l), l, e)
    IN SetPrev(SetNext(SetNext(B, e, l), h, first), first, h)

list_cut_position(M, l, h, e) ==
    CASE list_empty(M, h) -> M
      [] list_is_singular(M, h) /\ M.next[h] # e /\ h # e -> M
      [] ~list_empty(M, h) /\ e = h -> InitHead(M, l)
      [] OTHER -> __list_cut_position(M, l, h, e)

__list_splice(M, l, p, q) ==
    LET A == SetNext(SetPrev(M, M.next[l], p), p, M.next[l])
    IN SetPrev(SetNext(A, M.prev[l], q), q, M.prev[l])

\* hlist: p is the cell whose next field the node's pprev names
hlist_add(M, n, p) ==
    LET f == M.next[p]
        A == SetNext(M, n, f)
        B == IF f = Nil THEN A ELSE SetPrev(A, f, n)
    IN SetPrev(SetNext(B, p, n), n, p)
__hlist_del(M, n) ==
    LET A == SetNext(M, M.prev[n], M.next[n])
    IN IF M.next[n] = Nil THEN A ELSE SetPrev(A, M.next[n], M.prev[n])

\* TAILQ_INSERT_HEAD (after the head) and TAILQ_INSERT_AFTER
TAILQ_INSERT_AFTER(M, h, p, n) ==
    LET f == M.next[p]
        A == SetNext(M, n, f)
        B == IF f = Nil THEN SetPrev(A, h, n) ELSE SetPrev(A, f, n)
    IN SetPrev(SetNext(B, p, n), n, p)
TAILQ_INSERT_TAIL(M, h, n) ==
    LET A == SetPrev(SetNext(M, n, Nil), n, M.prev[h])
    IN SetPrev(SetNext(A, A.prev[h], n), h, n)
TAILQ_INSERT_BEFORE(M, q, n) ==
    LET A == SetNext(SetPrev(M, n, M.prev[q]), n, q)
    IN SetPrev(SetNext(A, A.prev[q], n), q, n)

\* mutant: the head keeps pointing at the last node that leaves
TailqRemoveKeepsLast(M, h, n) ==
    SetNext(IF M.next[n] # Nil THEN SetPrev(M, M.next[n], M.prev[n]) ELSE M,
            M.prev[n], M.next[n])

TAILQ_REMOVE(M, h, n) ==
    SetNext(IF M.next[n] # Nil THEN SetPrev(M, M.next[n], M.prev[n])
            ELSE SetPrev(M, h, M.prev[n]),
            M.prev[n], M.next[n])

TAILQ_CONCAT(M, h, g) ==
    IF M.next[g] = Nil THEN M
    ELSE LET A == SetNext(M, M.prev[h], M.next[g])
             B == SetPrev(A, A.next[g], A.prev[h])
         IN InitHead(SetPrev(B, h, B.prev[g]), g)

\* CIRCLEQ: p and q are neighbours; the head's fields are set where the code
\* finds the head instead of a node
CIRCLEQ_INSERT(M, n, p, q) ==
    SetNext(SetPrev(SetPrev(SetNext(M, n, q), n, p), q, n), p, n)
CIRCLEQ_REMOVE(M, n) ==
    LET A == SetPrev(M, M.next[n], M.prev[n])
    IN SetNext(A, A.prev[n], A.next[n])

-----------------------------------------------------------------------------
(* What each operation ought to do to the sequences *)

Live == {h \in Heads : seq[h] # Stale}
At(h, n) == CHOOSE i \in 1 .. Len(seq[h]) : seq[h][i] = n
Put(h, s) == seq' = [seq EXCEPT ![h] = s]
Minus(h, S) == SelectSeq(seq[h], LAMBDA x : x \notin S)

AddHead(h, n) ==
    /\ h \in Live /\ n \in Free
    /\ m' = CASE kind = "list" -> __list_add(m, n, h, m.next[h])
              [] kind = "hlist" -> hlist_add(m, n, h)
              [] kind = "tailq" -> TAILQ_INSERT_AFTER(m, h, h, n)
              [] OTHER -> CIRCLEQ_INSERT(m, n, h, m.next[h])
    /\ Put(h, <<n>> \o seq[h])
    /\ UNCHANGED kind

AddTail(h, n) ==
    /\ h \in Live /\ n \in Free /\ kind # "hlist"
    /\ m' = CASE kind = "list" -> __list_add(m, n, m.prev[h], h)
              [] kind = "tailq" -> TAILQ_INSERT_TAIL(m, h, n)
              [] OTHER -> CIRCLEQ_INSERT(m, n, m.prev[h], h)
    /\ Put(h, Append(seq[h], n))
    /\ UNCHANGED kind

\* hlist_add_after, TAILQ_INSERT_AFTER, CIRCLEQ_INSERT_AFTER
AddAfter(h, p, n) ==
    /\ h \in Live /\ p \in ToSet(seq[h]) /\ n \in Free /\ kind # "list"
    /\ m' = CASE kind = "hlist" -> hlist_add(m, n, p)
              [] kind = "tailq" -> TAILQ_INSERT_AFTER(m, h, p, n)
              [] OTHER -> CIRCLEQ_INSERT(m, n, p, m.next[p])
    /\ Put(h, InsertAt(seq[h], At(h, p) + 1, n))
    /\ UNCHANGED kind

\* hlist_add_before, TAILQ_INSERT_BEFORE, CIRCLEQ_INSERT_BEFORE
AddBefore(h, q, n) ==
    /\ h \in Live /\ q \in ToSet(seq[h]) /\ n \in Free /\ kind # "list"
    /\ m' = CASE kind \in {"hlist", "tailq"} -> TAILQ_INSERT_BEFORE(m, q, n)
              [] OTHER -> CIRCLEQ_INSERT(m, n, m.prev[q], q)
    /\ Put(h, InsertAt(seq[h], At(h, q), n))
    /\ UNCHANGED kind

RemoveFrom(M, h, n) ==
    Forget(CASE kind = "list" -> __list_del(M, M.prev[n], M.next[n])
             [] kind = "hlist" -> __hlist_del(M, n)
             [] kind = "tailq" -> TAILQ_REMOVE(M, h, n)
             [] OTHER -> CIRCLEQ_REMOVE(M, n), n)

Delete(h, n) ==
    /\ h \in Live /\ n \in ToSet(seq[h])
    /\ m' = RemoveFrom(m, h, n)
    /\ Put(h, Minus(h, {n}))
    /\ UNCHANGED kind

\* list_for_each_safe, hlist_for_each_safe, TAILQ_FOREACH_SAFE with a removal in
\* the body: the next cell is read before the node leaves
SafeRemoval(h, S) ==
    LET End == IF kind = "list" THEN h ELSE Nil
        from[k \in 0 .. Cardinality(Nodes)] ==
            IF k = 0 THEN [M |-> m, at |-> m.next[h]]
            ELSE LET w == from[k - 1]
                 IN IF w.at = End THEN w
                    ELSE [M  |-> IF w.at \in S THEN RemoveFrom(w.M, h, w.at) ELSE w.M,
                          at |-> w.M.next[w.at]]
    IN from[Cardinality(Nodes)].M

RemoveSome(h, S) ==
    /\ h \in Live /\ S \subseteq ToSet(seq[h]) /\ Cardinality(S) > 1
    /\ kind # "circleq"
    /\ m' = SafeRemoval(h, S)
    /\ Put(h, Minus(h, S))
    /\ UNCHANGED kind

Replace(h, old, new) ==
    /\ kind = "list" /\ h \in Live /\ old \in ToSet(seq[h]) /\ new \in Free
    /\ m' = Forget(list_replace(m, old, new), old)
    /\ Put(h, [seq[h] EXCEPT ![At(h, old)] = new])
    /\ UNCHANGED kind

\* list_move and list_move_tail
Move(g, h, n, tail) ==
    /\ kind = "list" /\ {g, h} \subseteq Live /\ n \in ToSet(seq[g])
    /\ LET D == __list_del(m, m.prev[n], m.next[n])
           s == IF g = h THEN Minus(g, {n}) ELSE seq[h]
       IN /\ m' = IF tail THEN __list_add(D, n, D.prev[h], h)
                  ELSE __list_add(D, n, h, D.next[h])
          /\ seq' = [[seq EXCEPT ![g] = Minus(g, {n})] EXCEPT
                        ![h] = IF tail THEN Append(s, n) ELSE <<n>> \o s]
    /\ UNCHANGED kind

\* list_splice and list_splice_tail; without init the spliced head is stale
Splice(l, h, tail, init) ==
    /\ kind = "list" /\ {l, h} \subseteq Live /\ l # h
    /\ LET A == IF list_empty(m, l) THEN m
                ELSE IF tail THEN __list_splice(m, l, m.prev[h], h)
                ELSE __list_splice(m, l, h, m.next[h])
       IN m' = IF init /\ ~list_empty(m, l) THEN InitHead(A, l) ELSE A
    /\ seq' = [seq EXCEPT ![l] = IF seq[l] = <<>> \/ init THEN <<>> ELSE Stale,
                          ![h] = IF tail THEN @ \o seq[l] ELSE seq[l] \o @]
    /\ UNCHANGED kind

\* list_cut_position into a list that is empty or was spliced away
Cut(l, h, e) ==
    /\ kind = "list" /\ h \in Live /\ l # h /\ seq[l] \in {<<>>, Stale}
    /\ e \in ToSet(seq[h]) \cup {h}
    /\ m' = list_cut_position(m, l, h, e)
    /\ LET k == IF e = h THEN 0 ELSE At(h, e)
       IN seq' = IF seq[h] = <<>> THEN seq
                 ELSE [seq EXCEPT ![l] = SubSeq(seq[h], 1, k),
                                  ![h] = SubSeq(seq[h], k + 1, Len(seq[h]))]
    /\ UNCHANGED kind

ReInit(h) ==
    /\ kind = "list" /\ seq[h] = Stale
    /\ m' = InitHead(m, h)
    /\ Put(h, <<>>)
    /\ UNCHANGED kind

Concat(h, g) ==
    /\ kind = "tailq" /\ g # h
    /\ m' = TAILQ_CONCAT(m, h, g)
    /\ seq' = [seq EXCEPT ![h] = @ \o seq[g], ![g] = <<>>]
    /\ UNCHANGED kind

Next ==
    \E h \in Heads :
        \/ \E n \in Nodes : AddHead(h, n) \/ AddTail(h, n) \/ Delete(h, n)
        \/ \E n, p \in Nodes : AddAfter(h, p, n) \/ AddBefore(h, p, n) \/ Replace(h, p, n)
        \/ \E S \in SUBSET Nodes : RemoveSome(h, S)
        \/ \E g \in Heads :
              \/ \E n \in Nodes, tail \in BOOLEAN : Move(g, h, n, tail)
              \/ \E tail, init \in BOOLEAN : Splice(g, h, tail, init)
              \/ \E e \in Nodes \cup {h} : Cut(g, h, e)
              \/ Concat(h, g)
        \/ ReInit(h)

Spec == Init /\ [][Next]_vars

-----------------------------------------------------------------------------
(* The cells a walk finds from c on: list_for_each, list_for_each_prev,      *)
(* hlist_for_each, TAILQ_FOREACH, TAILQ_FOREACH_REVERSE, CIRCLEQ_FOREACH     *)
RECURSIVE Walk(_, _, _, _)
Walk(c, h, Go(_), bound) ==
    IF c \in {h, Nil} \/ bound = 0 THEN <<>>
    ELSE <<c>> \o Walk(Go(c), h, Go, bound - 1)

\* TAILQ_LAST and TAILQ_PREV take the cell named by prev for a head: the next
\* field that its own prev names
TailPrev(c) ==
    LET p == m.prev[c]
    IN IF p = Nil \/ m.prev[p] = Nil THEN Nil ELSE m.next[m.prev[p]]

Forward(h) == LET go(c) == m.next[c] IN Walk(m.next[h], h, go, Cardinality(Nodes) + 1)
Backward(h) ==
    LET go(c) == m.prev[c]
    IN CASE kind = "tailq" -> Walk(TailPrev(h), h, TailPrev, Cardinality(Nodes) + 1)
         [] OTHER -> Walk(m.prev[h], h, go, Cardinality(Nodes) + 1)

(* Walked in either direction every list has the nodes it ought to have, in   *)
(* their order, after any sequence of insertions, removals (also from inside  *)
(* a safe iteration), moves, splices, cuts and concatenations; every pprev    *)
(* names the field that points at its node.                                   *)
ListsAsSequences ==
    \A h \in Live :
        /\ Forward(h) = seq[h]
        /\ kind # "hlist" => Backward(h) = Reverse(seq[h])
        /\ kind \in {"hlist", "tailq"} =>
              \A i \in 1 .. Len(seq[h]) :
                  m.prev[seq[h][i]] = IF i = 1 THEN h ELSE seq[h][i - 1]
=============================================================================

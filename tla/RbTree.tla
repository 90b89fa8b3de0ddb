------------------------------- MODULE RbTree -------------------------------
(***************************************************************************)
(* The red-black tree of the C kernel (tiny/rbtree.c, include/rbtree.h)    *)
(* with augmented nodes.  A node is its key; t holds the fields of all     *)
(* nodes.  The code is written twice, once for each side; here the side    *)
(* is a parameter.                                                         *)
(*                                                                         *)
(* The augmented value is the size of the subtree, kept by the callbacks   *)
(* that RB_DECLARE_CALLBACKS makes from its rbcompute.                     *)
(***************************************************************************)
EXTENDS Integers, Sequences, FiniteSets, SequencesExt, FiniteSetsExt

CONSTANT MaxKey         \* bound: the keys are 1 .. MaxKey

VARIABLE t

vars == <<t>>

Nodes == 1 .. MaxKey
Nil   == 0
Red   == "red"
Black == "black"

Other(s) == IF s = "left" THEN "right" ELSE "left"

NewNode == [parent |-> Nil, color |-> Red, left |-> Nil, right |-> Nil, size |-> 0]

Init == t = [root |-> Nil, node |-> [n \in Nodes |-> NewNode]]

-----------------------------------------------------------------------------
(* Fields.  Nil has none; the code tests for it before it writes.          *)

Child(T, n, s) == T.node[n][s]
Parent(T, n)   == T.node[n].parent
rb_is_red(T, n) == T.node[n].color = Red
IsBlack(T, n)   == n = Nil \/ ~rb_is_red(T, n)

SetChild(T, n, s, c) == [T EXCEPT !.node[n][s] = c]

rb_set_parent(T, n, p) ==
    IF n = Nil THEN T ELSE [T EXCEPT !.node[n].parent = p]

rb_set_parent_color(T, n, p, c) ==
    IF n = Nil THEN T
    ELSE [T EXCEPT !.node[n].parent = p, !.node[n].color = c]

\* mutant: the root is not told of its new first node
ChangeChildNotRoot(T, old, new, p) ==
    CASE p = Nil -> T
      [] p # Nil /\ Child(T, p, "left") = old -> SetChild(T, p, "left", new)
      [] OTHER -> SetChild(T, p, "right", new)

__rb_change_child(T, old, new, p) ==
    CASE p = Nil -> [T EXCEPT !.root = new]
      [] p # Nil /\ Child(T, p, "left") = old -> SetChild(T, p, "left", new)
      [] OTHER -> SetChild(T, p, "right", new)

\* new takes old's place and color, old goes below it with color c
__rb_rotate_set_parents(T, old, new, c) ==
    __rb_change_child(
        rb_set_parent_color([T EXCEPT !.node[new].parent = Parent(T, old),
                                      !.node[new].color = T.node[old].color],
                            old, new, c),
        old, new, Parent(T, old))

-----------------------------------------------------------------------------
(* The augmented value.                                                    *)

SizeOf(T, n) == IF n = Nil THEN 0 ELSE T.node[n].size

\* rbcompute
Compute(T, n) == 1 + SizeOf(T, Child(T, n, "left")) + SizeOf(T, Child(T, n, "right"))

RECURSIVE propagate(_, _, _)
propagate(T, n, stop) ==
    IF n = stop \/ T.node[n].size = Compute(T, n) THEN T
    ELSE propagate([T EXCEPT !.node[n].size = Compute(T, n)], Parent(T, n), stop)

copy(T, old, new) == [T EXCEPT !.node[new].size = T.node[old].size]

rotate(T, old, new) ==
    [copy(T, old, new) EXCEPT !.node[old].size = Compute(T, old)]

-----------------------------------------------------------------------------
(* Insertion.                                                              *)

\* the parent p, on side s of g, rotates up over g
RotateAtGrandparent(T, g, p, s) ==
    LET c == Child(T, p, Other(s)) IN
    rotate(__rb_rotate_set_parents(
             rb_set_parent_color(SetChild(SetChild(T, g, s, c), p, Other(s), g),
                                 c, g, Black), g, p, Red), g, p)

\* n, the inner child of p, rotates up over p
RotateAtParent(T, n, p, s) ==
    LET c == Child(T, n, s) IN
    rotate(rb_set_parent_color(
             rb_set_parent_color(SetChild(SetChild(T, p, Other(s), c), n, s, p),
                                 c, p, Black), p, n, Red), p, n)

FlipColors(T, g, p, u) ==
    rb_set_parent_color(
        rb_set_parent_color(rb_set_parent_color(T, u, g, Black), p, g, Black),
        g, Parent(T, g), Red)

RECURSIVE __rb_insert(_, _)
__rb_insert(T, n) ==
    LET p == Parent(T, n)
        g == Parent(T, p)
        s == IF p # Child(T, g, "right") THEN "left" ELSE "right"
        u == Child(T, g, Other(s))
    IN  CASE p = Nil -> rb_set_parent_color(T, n, Nil, Black)
          [] p # Nil /\ ~rb_is_red(T, p) -> T
          [] p # Nil /\ rb_is_red(T, p) /\ ~IsBlack(T, u) ->
               __rb_insert(FlipColors(T, g, p, u), g)
          [] OTHER ->
               IF n = Child(T, p, Other(s))
               THEN RotateAtGrandparent(RotateAtParent(T, n, p, s), g, n, s)
               ELSE RotateAtGrandparent(T, g, p, s)

rb_link_node(T, n, p, s) ==
    LET T1 == [T EXCEPT !.node[n] = [NewNode EXCEPT !.parent = p, !.size = 1]] IN
    IF p = Nil THEN [T1 EXCEPT !.root = n] ELSE SetChild(T1, p, s, n)

-----------------------------------------------------------------------------
(* Removal.                                                                *)

\* p's child on side s is one black node short: s rotates p down over its
\* sibling b, whose outer child becomes black
RotateSiblingUp(T, p, b, s) ==
    LET c == Child(T, b, s) IN
    rotate(__rb_rotate_set_parents(
             rb_set_parent(
               rb_set_parent_color(SetChild(SetChild(T, p, Other(s), c), b, s, p),
                                   Child(T, b, Other(s)), b, Black),
               c, p), p, b, Black), p, b)

\* the sibling's inner child rotates up over it
RotateAtSibling(T, p, b, s) ==
    LET c == Child(T, b, s)
        d == Child(T, c, Other(s))
    IN  rotate(rb_set_parent_color(
                 SetChild(SetChild(SetChild(T, b, s, d), c, Other(s), b),
                          p, Other(s), c), d, b, Black), b, c)

\* a red sibling b rotates up over p
RedSiblingUp(T, p, b, s) ==
    LET c == Child(T, b, s) IN
    rotate(__rb_rotate_set_parents(
             rb_set_parent_color(SetChild(SetChild(T, p, Other(s), c), b, s, p),
                                 c, p, Black), p, b, Red), p, b)

RECURSIVE ____rb_erase_color(_, _, _)

\* the sibling b is black
BlackSibling(T, p, b, s) ==
    LET outer == Child(T, b, Other(s))
        inner == Child(T, b, s)
        R     == rb_set_parent_color(T, b, p, Red)
    IN  CASE ~IsBlack(T, outer) -> RotateSiblingUp(T, p, b, s)
          [] IsBlack(T, outer) /\ ~IsBlack(T, inner) ->
               RotateSiblingUp(RotateAtSibling(T, p, b, s), p, inner, s)
          [] IsBlack(T, outer) /\ IsBlack(T, inner) /\ rb_is_red(T, p) ->
               [R EXCEPT !.node[p].color = Black]
          [] OTHER ->
               IF Parent(T, p) = Nil THEN R
               ELSE ____rb_erase_color(R, p, Parent(T, p))

\* n is p's child that is one black node short (Nil at first)
____rb_erase_color(T, n, p) ==
    LET s == IF n # Child(T, p, "right") THEN "left" ELSE "right"
        b == Child(T, p, Other(s))
        R == RedSiblingUp(T, p, b, s)
    IN  IF rb_is_red(T, b) THEN BlackSibling(R, p, Child(R, p, Other(s)), s)
        ELSE BlackSibling(T, p, b, s)

RECURSIVE Leftmost(_, _)
Leftmost(T, n) == IF Child(T, n, "left") = Nil THEN n ELSE Leftmost(T, Child(T, n, "left"))

Result(T, rebalance) == [T |-> T, rebalance |-> rebalance]

\* n has at most the child c
EraseSimple(T, n, c) ==
    LET p == Parent(T, n)
        R == __rb_change_child(T, n, c, p)
    IN  Result(propagate(rb_set_parent_color(R, c, p, T.node[n].color), p, Nil),
               IF c = Nil /\ ~rb_is_red(T, n) THEN p ELSE Nil)

\* the successor b leaves its place, under p, to its child c2
TakeOut(T, n, b, p, c2) ==
    IF b = Child(T, n, "right") THEN copy(T, n, b)
    ELSE propagate(copy(rb_set_parent(SetChild(SetChild(T, p, "left", c2),
                                               b, "right", Child(T, n, "right")),
                                      Child(T, n, "right"), b), n, b), p, b)

\* the successor b takes the place of n
TakePlace(T, n, b) ==
    __rb_change_child(rb_set_parent(SetChild(T, b, "left", Child(T, n, "left")),
                                    Child(T, n, "left"), b), n, b, Parent(T, n))

EraseInner(T, n, b) ==
    LET p  == IF b = Child(T, n, "right") THEN b ELSE Parent(T, b)
        c2 == Child(T, b, "right")
        T1 == TakePlace(TakeOut(T, n, b, p, c2), n, b)
        T2 == rb_set_parent_color(T1, b, Parent(T, n), T.node[n].color)
    IN  Result(propagate(rb_set_parent_color(T2, c2, p, Black), b, Nil),
               IF c2 = Nil /\ ~rb_is_red(T, b) THEN p ELSE Nil)

__rb_erase_augmented(T, n) ==
    CASE Child(T, n, "left") = Nil -> EraseSimple(T, n, Child(T, n, "right"))
      [] Child(T, n, "left") # Nil /\ Child(T, n, "right") = Nil ->
           EraseSimple(T, n, Child(T, n, "left"))
      [] OTHER -> EraseInner(T, n, Leftmost(T, Child(T, n, "right")))

rb_erase_augmented(T, n) ==
    LET r == __rb_erase_augmented(T, n) IN
    IF r.rebalance = Nil THEN r.T ELSE ____rb_erase_color(r.T, Nil, r.rebalance)

\* the fields of a node outside the tree are not read; they are forgotten here
Forget(T, n) == [T EXCEPT !.node[n] = NewNode]

rb_replace_node(T, v, n) ==
    LET T1 == rb_set_parent(rb_set_parent(__rb_change_child(T, v, n, Parent(T, v)),
                                          Child(T, v, "left"), n),
                            Child(T, v, "right"), n)
    IN  [T1 EXCEPT !.node[n] = T1.node[v]]

-----------------------------------------------------------------------------
(* Traversal.                                                              *)

RECURSIVE Down(_, _, _)
Down(T, n, s) == IF n = Nil \/ Child(T, n, s) = Nil THEN n ELSE Down(T, Child(T, n, s), s)

rb_first(T) == Down(T, T.root, "left")
rb_last(T)  == Down(T, T.root, "right")

\* go up as long as n is on side s of its parent
RECURSIVE Up(_, _, _)
Up(T, n, s) ==
    IF Parent(T, n) # Nil /\ n = Child(T, Parent(T, n), s) THEN Up(T, Parent(T, n), s)
    ELSE Parent(T, n)

Step(T, n, s) ==
    IF Child(T, n, s) # Nil THEN Down(T, Child(T, n, s), Other(s)) ELSE Up(T, n, s)

rb_next(T, n) == Step(T, n, "right")
rb_prev(T, n) == Step(T, n, "left")

RECURSIVE rb_left_deepest_node(_, _)
rb_left_deepest_node(T, n) ==
    CASE Child(T, n, "left") # Nil -> rb_left_deepest_node(T, Child(T, n, "left"))
      [] Child(T, n, "left") = Nil /\ Child(T, n, "right") # Nil ->
           rb_left_deepest_node(T, Child(T, n, "right"))
      [] OTHER -> n

rb_next_postorder(T, n) ==
    LET p == Parent(T, n) IN
    IF p # Nil /\ n = Child(T, p, "left") /\ Child(T, p, "right") # Nil
    THEN rb_left_deepest_node(T, Child(T, p, "right"))
    ELSE p

-----------------------------------------------------------------------------
(* A user of the tree.                                                     *)

RECURSIVE Under(_, _)
Under(T, n) ==
    IF n = Nil THEN {}
    ELSE {n} \cup Under(T, Child(T, n, "left")) \cup Under(T, Child(T, n, "right"))

Members == Under(t, t.root)

\* the leaf below which n belongs
RECURSIVE PlaceOf(_, _, _)
PlaceOf(T, n, at) ==
    LET s == IF n < at THEN "left" ELSE "right" IN
    IF Child(T, at, s) = Nil THEN <<at, s>> ELSE PlaceOf(T, n, Child(T, at, s))

Insert(n) ==
    /\ n \notin Members
    /\ LET at == IF t.root = Nil THEN <<Nil, "left">> ELSE PlaceOf(t, n, t.root) IN
       t' = __rb_insert(propagate(rb_link_node(t, n, at[1], at[2]), at[1], Nil), n)

Erase(n) ==
    /\ n \in Members
    /\ t' = Forget(rb_erase_augmented(t, n), n)

\* n takes the place of v, next to it in the order
Replace(v, n) ==
    /\ v \in Members /\ n \notin Members
    /\ \A m \in Members \ {v} : (m < v) = (m < n)
    /\ t' = Forget(rb_replace_node(t, v, n), v)

Next == \E n \in Nodes : Insert(n) \/ Erase(n) \/ \E v \in Nodes : Replace(v, n)

Spec == Init /\ [][Next]_vars
-----------------------------------------------------------------------------
(* Properties.                                                             *)

RECURSIVE BlackHeight(_, _)
BlackHeight(T, n) ==            \* -1 when two paths differ
    IF n = Nil THEN 0
    ELSE LET l == BlackHeight(T, Child(T, n, "left"))
             r == BlackHeight(T, Child(T, n, "right"))
         IN  IF l = -1 \/ r = -1 \/ l # r THEN -1
             ELSE l + IF rb_is_red(T, n) THEN 0 ELSE 1

\* The five rules of rbtree.c:8-16 hold after any sequence of insertions,
\* removals and replacements, and parents and children point at each other.
RedBlack ==
    /\ t.root # Nil => Parent(t, t.root) = Nil /\ ~rb_is_red(t, t.root)
    /\ BlackHeight(t, t.root) # -1
    /\ \A n \in Members : \A s \in {"left", "right"} :
         LET c == Child(t, n, s) IN
         c # Nil => Parent(t, c) = n /\ (rb_is_red(t, n) => ~rb_is_red(t, c))

RECURSIVE Walk(_, _, _)
Walk(n, Go(_), bound) ==
    IF n = Nil \/ bound = 0 THEN <<>> ELSE <<n>> \o Walk(Go(n), Go, bound - 1)

\* The walks of the API visit every node once: upwards in order, downwards in
\* reverse, and in postorder children before their parent (rb_first, rb_next,
\* rb_last, rb_prev, rb_first_postorder, rb_next_postorder).
Traversals ==
    LET next(n) == rb_next(t, n)
        prev(n) == rb_prev(t, n)
        post(n) == rb_next_postorder(t, n)
        up   == SelectSeq([n \in Nodes |-> n], LAMBDA n : n \in Members)
        tree == Walk(IF t.root = Nil THEN Nil ELSE rb_left_deepest_node(t, t.root),
                     post, MaxKey + 1)
    IN  /\ Walk(rb_first(t), next, MaxKey + 1) = up
        /\ Walk(rb_last(t), prev, MaxKey + 1) = Reverse(up)
        /\ IsInjective(tree) /\ ToSet(tree) = Members
        /\ \A i, j \in DOMAIN tree : Parent(t, tree[i]) = tree[j] => i < j

\* The augmented value of every node is the size of its subtree: rotations,
\* copies and the propagation that stops early leave none of them stale.
Augmented == \A n \in Members : t.node[n].size = Cardinality(Under(t, n))
=============================================================================

----------------------------- MODULE Structures -----------------------------
(***************************************************************************)
(* The tables and data structures of the hypervisor and of the C kernel,   *)
(* one to a behaviour:                                                     *)
(*   "regions"  the physical regions handed to VMs (VmMemory);             *)
(*   "control"  VMs configured, made, booted, rebooted and removed;        *)
(*   "aarch64"  a stage-2 table that is mapped, unmapped and protected;    *)
(*   "riscv64"  a stage-2 table that is only mapped, until frames run out; *)
(*   "rbtree"   the red-black tree of the C kernel;                        *)
(*   "lists"    its linked lists and queues.                               *)
(***************************************************************************)
EXTENDS VmMemory, VmControl, TLC

CONSTANTS Questions,                     \* those to be asked
          v1, v2, v3,                    \* VmMemory
          i1,                            \* VmControl
          MaxKey                         \* RbTree
VARIABLES question
VARIABLES pt, scribbled, ptPanicked      \* PageTable
VARIABLE t                               \* RbTree
VARIABLES kind, m, seq                   \* KernelLists

ptVars == <<pt, scribbled, ptPanicked>>
listVars == <<kind, m, seq>>
allVars == <<question, memVars, ctlVars, ptVars, t, listVars>>

ThreeVMs == {v1, v2, v3}

\* Two physical regions that touch, as on the rk3588 board, and one after a gap
MCPlatform == <<[base |-> 1, size |-> 2], [base |-> 3, size |-> 4], [base |-> 8, size |-> 3]>>

\* Sizes that split and that fit exactly; together more than there is
MCRequests == (v1 :> <<2, 1>>) @@ (v2 :> <<1, 2>>) @@ (v3 :> <<3>>)

Cpu(num, bitmap, master) == [num |-> num, bitmap |-> bitmap, master |-> master]

\* Fewer cores than bits, with the master among the bits that are kept; and one
\* core whose master is cut off
MCCpus == {Cpu(2, {0, 1, 2}, 1), Cpu(1, {1, 2}, 2)}

R(ipa, len, pa, block) == [ipa |-> ipa, len |-> len, pa |-> pa, block |-> block]

\* Blocks, pages for want of alignment, and pages that cross two tables
MCRegions == {R(0, 2, 10, TRUE), R(2, 1, 21, TRUE), R(3, 3, 32, FALSE), R(6, 2, 41, TRUE)}

Aarch64 == INSTANCE PageTable WITH
               Arch <- "aarch64", Frames <- 1 .. 5, Regions <- MCRegions,
               Protected <- {1, 3}, Unmaps <- TRUE, panicked <- ptPanicked
Riscv64 == INSTANCE PageTable WITH
               Arch <- "riscv64", Frames <- 1 .. 4, Regions <- MCRegions,
               Protected <- {}, Unmaps <- FALSE, panicked <- ptPanicked
Tree == INSTANCE RbTree
Lists == INSTANCE KernelLists WITH Heads <- {"h", "g"}, Nodes <- {"a", "b", "c", "d"}

StructInit ==
    /\ question \in Questions
    /\ MemInit
    /\ ControlInit
    /\ Aarch64!Init
    /\ Tree!Init
    /\ Lists!Init
    /\ question # "lists" => kind = "list"

StructNext ==
    /\ UNCHANGED question
    /\ IF question = "regions" THEN MemNext ELSE UNCHANGED memVars
    /\ IF question = "control" THEN ControlNext ELSE UNCHANGED ctlVars
    /\ CASE question = "aarch64" -> Aarch64!Next
         [] question = "riscv64" -> Riscv64!Next
         [] OTHER -> UNCHANGED ptVars
    /\ IF question = "rbtree" THEN Tree!Next ELSE UNCHANGED t
    /\ IF question = "lists" THEN Lists!Next ELSE UNCHANGED listVars

StructSpec == StructInit /\ [][StructNext]_allVars

\* A stage-2 table is a tree of frames it owns: none that was given back is
\* still referred to, none is shared by two entries, and no entry is written
\* into guest memory taken for a table (map, unmap, map_2mb, unmap_2mb).
TablesOwned ==
    /\ question = "aarch64" => Aarch64!TablesOwned
    /\ question = "riscv64" => Riscv64!TablesOwned

\* Mapping adds a region's pages and leaves the others alone, unmapping takes
\* away all its pages, a change of permission leaves addresses as they are
\* (pt_map_range, pt_unmap_range, access_permission).
TranslationAsAsked ==
    [][/\ question = "aarch64" => Aarch64!TranslationStep
       /\ question = "riscv64" => Riscv64!TranslationStep]_ptVars

\* After any sequence of insertions, removals and replacements the tree obeys
\* the five rules of rbtree.c:8-16, parents and children agree, no augmented value
\* is stale, and the walks upwards, downwards and in postorder visit every node
\* once, in their order (__rb_insert, ____rb_erase_color, __rb_erase_augmented,
\* rb_next, rb_prev, rb_next_postorder, RB_DECLARE_CALLBACKS).
RedBlack == question = "rbtree" => Tree!RedBlack /\ Tree!Traversals /\ Tree!Augmented

\* Walked in either direction every list has the nodes it ought to have, in
\* their order, after any sequence of insertions, removals, moves, splices,
\* cuts and concatenations (list.h, queue.h).
ListsAsSequences == question = "lists" => Lists!ListsAsSequences
=============================================================================

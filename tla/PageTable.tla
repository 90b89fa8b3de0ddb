----------------------------- MODULE PageTable -----------------------------
(***************************************************************************)
(* The stage-2 page table of a VM (arch/aarch64/page_table.rs and          *)
(* arch/riscv64/page_table.rs): three levels of tables that are allocated  *)
(* when first needed and given back when empty.  On AArch64 an entry of    *)
(* the second level may be a block, which maps all pages below it; on      *)
(* RISC-V all mappings are pages.                                          *)
(*                                                                         *)
(* A table has two entries, so an address is three bits and a block two    *)
(* pages.  Addresses, lengths and physical addresses are in pages.  The    *)
(* callers map and unmap whole regions of the VM's configuration           *)
(* (Vm::pt_map_range, Vm::pt_unmap_range) with the VM's lock held.         *)
(***************************************************************************)
EXTENDS Integers, Sequences, FiniteSets, SequencesExt, FiniteSetsExt

CONSTANTS
    Arch,       \* "aarch64" or "riscv64"
    Frames,     \* frames mem_page_alloc can give for tables
    Regions,    \* records of ipa, len, pa and block: what callers map
    Protected,  \* pages whose access permission is changed
    Unmaps      \* whether regions are also unmapped

VARIABLES
    pt,         \* mem: the entries of each table, pages: PageTable.pages
    scribbled,  \* a table entry was written into memory of the guest
    panicked

vars == <<pt, scribbled, panicked>>

Dir  == 0                   \* the directory's frame
Size == 2                   \* PTE_PER_PAGE; pages in a block
Ipas == 0 .. Size * Size * Size - 1
Access == {"rw", "ro"}

\* pt_lvl1_idx, pt_lvl2_idx, pt_lvl3_idx (one less on RISC-V)
Idx(level, ipa) == (ipa \div (Size ^ (3 - level))) % Size

None         == [kind |-> "none"]
make_table(f) == [kind |-> "table", to |-> f]
Leaf(kind, pa, ap) == [kind |-> kind, pa |-> pa, ap |-> ap]

Empty == [i \in 0 .. Size - 1 |-> None]
Init ==
    /\ pt = [mem |-> [f \in Frames \cup {Dir} |-> Empty], pages |-> {}]
    /\ scribbled = FALSE
    /\ panicked = FALSE

-----------------------------------------------------------------------------
(* Walking and changing the tables of T *)

valid(T, f, i) == T.mem[f][i] # None
set_entry(T, f, i, e) == [T EXCEPT !.mem[f][i] = e]
empty_page(T, f) == \A i \in DOMAIN T.mem[f] : ~valid(T, f, i)
release(T, f) == [T EXCEPT !.pages = @ \ {f}]

\* A missing table is allocated, zeroed and entered; without a free frame
\* nothing changes
Extend(T, f, i) ==
    IF valid(T, f, i) \/ Frames \subseteq T.pages THEN T
    ELSE LET g == Min(Frames \ T.pages)
         IN [mem   |-> [T.mem EXCEPT ![f][i] = make_table(g), ![g] = Empty],
             pages |-> T.pages \cup {g}]

Table1(T, ipa) == T.mem[Dir][Idx(1, ipa)].to
Table2(T, ipa) == T.mem[Table1(T, ipa)][Idx(2, ipa)].to
HasTable1(T, ipa) == valid(T, Dir, Idx(1, ipa))
Entry2(T, ipa) == T.mem[Table1(T, ipa)][Idx(2, ipa)]
Entry3(T, ipa) == T.mem[Table2(T, ipa)][Idx(3, ipa)]
IsBlock(T, ipa) == HasTable1(T, ipa) /\ Entry2(T, ipa).kind = "block"
IsTable(T, ipa) == HasTable1(T, ipa) /\ Entry2(T, ipa).kind = "table"

Extend1(T, ipa) == Extend(T, Dir, Idx(1, ipa))
Extend2(T, ipa) ==
    IF HasTable1(T, ipa) THEN Extend(T, Table1(T, ipa), Idx(2, ipa)) ELSE T

\* mutant: a page that is mapped already is mapped anew
SetPageAnew(T, ipa, pa) ==
    IF IsTable(T, ipa)
    THEN set_entry(T, Table2(T, ipa), Idx(3, ipa), Leaf("page", pa, "rw"))
    ELSE T

SetPage(T, ipa, pa) ==
    IF IsTable(T, ipa) /\ Entry3(T, ipa) = None
    THEN set_entry(T, Table2(T, ipa), Idx(3, ipa), Leaf("page", pa, "rw"))
    ELSE T

\* A block in the way is taken for a table: see Scribbles
map(T, ipa, pa) == SetPage(Extend2(Extend1(T, ipa), ipa), ipa, pa)

SetBlock(T, ipa, pa) ==
    IF HasTable1(T, ipa) /\ Entry2(T, ipa) = None
    THEN set_entry(T, Table1(T, ipa), Idx(2, ipa), Leaf("block", pa, "rw"))
    ELSE T
map_2mb(T, ipa, pa) == SetBlock(Extend1(T, ipa), ipa, pa)

\* mutant: the emptied table is released while its entry stays
ReleaseTable2Keeps(T, ipa) ==
    IF empty_page(T, Table2(T, ipa)) THEN release(T, Table2(T, ipa)) ELSE T

ReleaseTable2(T, ipa) ==
    IF empty_page(T, Table2(T, ipa))
    THEN release(set_entry(T, Table1(T, ipa), Idx(2, ipa), None), Table2(T, ipa))
    ELSE T

ReleaseTable1(T, ipa) ==
    IF empty_page(T, Table1(T, ipa))
    THEN release(set_entry(T, Dir, Idx(1, ipa), None), Table1(T, ipa))
    ELSE T

unmap(T, ipa) ==
    IF IsTable(T, ipa) /\ Entry3(T, ipa) # None
    THEN ReleaseTable1(
            ReleaseTable2(set_entry(T, Table2(T, ipa), Idx(3, ipa), None), ipa), ipa)
    ELSE T

\* A table in the block's place is cut off; pages keeps its frame
unmap_2mb(T, ipa) ==
    IF HasTable1(T, ipa) /\ Entry2(T, ipa) # None
    THEN ReleaseTable1(set_entry(T, Table1(T, ipa), Idx(2, ipa), None), ipa)
    ELSE T

\* The RISC-V unmap clears by the index of the level above
riscv_unmap0(T, f0, f1, ipa) ==
    LET T0 == set_entry(release(T, f1), f0, Idx(1, ipa), None)
    IN IF empty_page(T0, f0)
       THEN set_entry(release(T0, f0), Dir, Idx(1, ipa), None) ELSE T0
riscv_unmap1(T, f1, ipa) ==
    IF empty_page(T, f1) THEN riscv_unmap0(T, Table1(T, ipa), f1, ipa) ELSE T
riscv_unmap(T, ipa) ==
    IF IsTable(T, ipa) /\ Entry3(T, ipa) # None
    THEN riscv_unmap1(set_entry(T, Table2(T, ipa), Idx(2, ipa), None),
                      Table2(T, ipa), ipa)
    ELSE T

-----------------------------------------------------------------------------
(* Ranges *)

Steps(len, unit) == [k \in 1 .. (len + unit - 1) \div unit |-> (k - 1) * unit]

map_range(T, r) ==
    FoldLeft(LAMBDA U, d : map(U, r.ipa + d, r.pa + d), T, Steps(r.len, 1))
map_range_2mb(T, r) ==
    FoldLeft(LAMBDA U, d : map_2mb(U, r.ipa + d, r.pa + d), T, Steps(r.len, Size))
unmap_range(T, r) ==
    FoldLeft(LAMBDA U, d : IF Arch = "riscv64" THEN riscv_unmap(U, r.ipa + d)
                           ELSE unmap(U, r.ipa + d), T, Steps(r.len, 1))
unmap_range_2mb(T, r) ==
    FoldLeft(LAMBDA U, d : unmap_2mb(U, r.ipa + d), T, Steps(r.len, Size))

\* pt_map_range uses blocks if all three are aligned
BlocksFor(r) ==
    /\ Arch = "aarch64" /\ r.block
    /\ r.ipa % Size = 0 /\ r.len % Size = 0 /\ r.pa % Size = 0

\* pt_unmap_range does not know the physical address
UnmapBlocksFor(r) ==
    /\ Arch = "aarch64" /\ r.block
    /\ r.ipa % Size = 0 /\ r.len % Size = 0

Pages(r) == r.ipa .. r.ipa + r.len - 1

\* A page operation that meets a block takes guest memory for a table
Scribbles(r) == \E p \in Pages(r) : IsBlock(pt, p)

pt_map_range(r) ==
    /\ ~panicked
    /\ pt' = IF BlocksFor(r) THEN map_range_2mb(pt, r) ELSE map_range(pt, r)
    /\ scribbled' = (scribbled \/ (~BlocksFor(r) /\ Scribbles(r)))
    \* the RISC-V map panics without a frame for its first level
    /\ panicked' = (/\ Arch = "riscv64"
                    /\ \E p \in Pages(r) : ~HasTable1(pt', p))

pt_unmap_range(r) ==
    /\ Unmaps /\ ~panicked
    /\ pt' = IF UnmapBlocksFor(r) THEN unmap_range_2mb(pt, r) ELSE unmap_range(pt, r)
    /\ scribbled' = (scribbled \/ (~UnmapBlocksFor(r) /\ Scribbles(r)))
    /\ UNCHANGED panicked

\* pt_set_access_permission: the page, or the block it is in; todo!() on RISC-V
access_permission(ipa, ap) ==
    /\ Arch = "aarch64" /\ ~panicked
    /\ pt' = CASE IsBlock(pt, ipa) ->
                    [pt EXCEPT !.mem[Table1(pt, ipa)][Idx(2, ipa)].ap = ap]
               [] IsTable(pt, ipa) /\ Entry3(pt, ipa) # None ->
                    [pt EXCEPT !.mem[Table2(pt, ipa)][Idx(3, ipa)].ap = ap]
               [] OTHER -> pt
    /\ UNCHANGED <<scribbled, panicked>>

Next ==
    \/ \E r \in Regions : pt_map_range(r) \/ pt_unmap_range(r)
    \/ \E ipa \in Protected, ap \in Access : access_permission(ipa, ap)

Spec == Init /\ [][Next]_vars

-----------------------------------------------------------------------------
(* Where the MMU finds a page: its physical page and permission, or nothing *)
Translate(T, p) ==
    CASE IsBlock(T, p) -> <<Entry2(T, p).pa + (p % Size), Entry2(T, p).ap>>
      [] IsTable(T, p) /\ Entry3(T, p).kind = "page" ->
            <<Entry3(T, p).pa, Entry3(T, p).ap>>
      [] OTHER -> <<>>

Tables(T) ==
    {Table1(T, p) : p \in {q \in Ipas : HasTable1(T, q)}}
        \cup {Table2(T, p) : p \in {q \in Ipas : IsTable(T, q)}}

References(T, f) ==
    {<<g, i>> \in (Tables(T) \cup {Dir}) \X (0 .. Size - 1) : T.mem[g][i] = make_table(f)}

\* The unit an access permission applies to
Unit(T, p) == IF IsBlock(T, p) THEN {q \in Ipas : q \div Size = p \div Size} ELSE {p}

(* The table the MMU walks is a tree of frames it owns (pages): no table that *)
(* was given back is still referred to, none is shared by two entries, and no *)
(* entry is ever written into guest memory taken for a table, whatever order  *)
(* of map, unmap and access permission leads there.                           *)
TablesOwned ==
    /\ Tables(pt) \subseteq pt.pages
    /\ \A f \in Tables(pt) : Cardinality(References(pt, f)) = 1
    /\ ~scribbled

(* A VM's address space changes as asked and nowhere else: mapping a region   *)
(* adds its own pages and leaves those already there alone (it may add only   *)
(* some of them when frames run out), unmapping takes away all its pages,     *)
(* and a change of access permission leaves the addresses as they are.        *)
TranslationStep ==
    /\ \A r \in Regions : pt_map_range(r) => \A p \in Ipas :
          \/ Translate(pt', p) = Translate(pt, p)
          \/ /\ p \in Pages(r) /\ Translate(pt, p) = <<>>
             /\ Translate(pt', p) = <<r.pa + p - r.ipa, "rw">>
    /\ \A r \in Regions : pt_unmap_range(r) => \A p \in Ipas :
          Translate(pt', p) = IF p \in Pages(r) THEN <<>> ELSE Translate(pt, p)
    /\ \A q \in Protected, ap \in Access : access_permission(q, ap) => \A p \in Ipas :
          Translate(pt', p) = IF p \in Unit(pt, q) /\ Translate(pt, p) # <<>>
                              THEN <<Translate(pt, p)[1], ap>>
                              ELSE Translate(pt, p)

TranslationAsAsked == [][TranslationStep]_vars
=============================================================================

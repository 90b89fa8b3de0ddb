------------------------------ MODULE VmMemory ------------------------------
(* The memory the hypervisor hands to VMs: the list of physical regions       *)
(* (VM_REGION), first-fit allocation with splitting, freeing with merging,    *)
(* and the set-up and removal of VMs that use them.  The management VM runs   *)
(* set-up and removal one at a time; a VM that was booted runs on another     *)
(* core, which learns of the removal by a message.                            *)
(*                                                                            *)
(* Addresses and lengths are in pages; a requested length is a whole number   *)
(* of pages, possibly none.                                                   *)
EXTENDS Integers, Sequences, FiniteSets

CONSTANTS
    Guests,     \* the VMs
    Platform,   \* PLAT_DESC.mem_desc.regions without the hypervisor's own
    Requests    \* the memory regions in each VM's configuration, in pages

ASSUME VmMemoryAssumption ==
    /\ Platform \in Seq([base: Nat \ {0}, size: Nat \ {0}])
    /\ Requests \in [Guests -> Seq(Nat)]

VARIABLES
    region,     \* VM_REGION.region: base, size and free pages
    owned,      \* Vm's pa_region: what its stage-2 page table maps
    live,       \* VMs whose vCPU runs on another core
    ready,      \* VMs that are set up
    op,         \* what the management VM is doing: kind, VM, next region
    merge,      \* free_idx of the merge loop, 0 when it is over
    panicked

memVars == <<region, owned, live, ready, op, merge, panicked>>

NoOp == [kind |-> "none"]
Op(kind, v, k) == [kind |-> kind, vm |-> v, k |-> k]
Region(base, size, free) == [base |-> base, size |-> size, free |-> free]
Block(start, len) == [start |-> start, len |-> len]
Pages(base, size) == base .. (base + size - 1)

First(S) == CHOOSE i \in S : \A j \in S : i <= j
WithoutRegion(s, i) == SubSeq(s, 1, i - 1) \o SubSeq(s, i + 1, Len(s))

\* mem_vm_region_init
MemInit ==
    /\ region = [i \in 1..Len(Platform) |->
                    Region(Platform[i].base, Platform[i].size, Platform[i].size)]
    /\ owned = [v \in Guests |-> <<>>]
    /\ live = {}
    /\ ready = {}
    /\ op = NoOp
    /\ merge = 0
    /\ panicked = FALSE

-----------------------------------------------------------------------------
(* mem_vm_region_alloc and mem_vm_region_free *)

Fits(n) == {i \in 1..Len(region) : region[i].free >= n}

\* Variant: the rest starts one page early
TakenOffByOne(i, n) ==
    LET r     == region[i]
        split == IF r.size > n
                 THEN Append(region, Region(r.base + n - 1, r.size - n, r.size - n))
                 ELSE region
    IN [split EXCEPT ![i] = Region(r.base, IF r.size > n THEN n ELSE r.size, 0)]

\* The regions after n pages are taken from region i: the rest becomes a region
Taken(i, n) ==
    LET r     == region[i]
        split == IF r.size > n
                 THEN Append(region, Region(r.base + n, r.size - n, r.size - n))
                 ELSE region
    IN [split EXCEPT ![i] = Region(r.base, IF r.size > n THEN n ELSE r.size, 0)]

\* The allocated regions that start where the freed block does
Allocated(start) ==
    {i \in 1..Len(region) : region[i].base = start /\ region[i].free = 0}

\* The free regions that end where region m starts, or start where it ends
Neighbours(m) ==
    {i \in 1..Len(region) :
        /\ region[i].free # 0
        /\ \/ region[m].base = region[i].base + region[i].size
           \/ region[m].base + region[m].size = region[i].base}

\* Region keep grows by region gone, which leaves the list
Absorb(keep, gone) ==
    LET more  == region[gone].size
        grown == [region EXCEPT ![keep] = Region(@.base, @.size + more, @.free + more)]
    IN WithoutRegion(grown, gone)

Shifted(keep, gone) == IF keep < gone THEN keep ELSE keep - 1

-----------------------------------------------------------------------------
(* vmm_setup_config and vmm_init_memory *)

ManagerIdle == op = NoOp /\ ~ panicked

StartSetup(v) ==
    /\ ManagerIdle /\ v \notin ready \cup live
    /\ op' = Op("setup", v, 1)
    /\ UNCHANGED <<region, owned, live, ready, merge, panicked>>

\* One region of the configuration is allocated, mapped and recorded; with no
\* region large enough vmm_init_memory fails and vmm_setup_config panics
InitMemory ==
    /\ op.kind = "setup" /\ ~ panicked
    /\ op.k <= Len(Requests[op.vm])
    /\ LET n == Requests[op.vm][op.k]
       IN IF Fits(n) = {}
          THEN panicked' = TRUE /\ UNCHANGED <<region, owned, op>>
          ELSE LET i == First(Fits(n))
               IN /\ region' = Taken(i, n)
                  /\ owned' = [owned EXCEPT ![op.vm] =
                                    Append(@, Block(region[i].base, n))]
                  /\ op' = [op EXCEPT !.k = @ + 1]
                  /\ UNCHANGED panicked
    /\ UNCHANGED <<live, ready, merge>>

SetupDone ==
    /\ op.kind = "setup" /\ ~ panicked
    /\ op.k > Len(Requests[op.vm])
    /\ ready' = ready \cup {op.vm}
    /\ op' = NoOp
    /\ UNCHANGED <<region, owned, live, merge, panicked>>

\* vmm_boot_vm: the VM runs on another core from now on
Boot(v) ==
    /\ ManagerIdle /\ v \in ready \ live
    /\ live' = live \cup {v}
    /\ UNCHANGED <<region, owned, ready, op, merge, panicked>>

-----------------------------------------------------------------------------
(* vmm_remove_vm *)

\* vmm_remove_vcpu sends the message and does not wait for it to be handled
StartRemove(v) ==
    /\ ManagerIdle /\ v \in ready
    /\ ready' = ready \ {v}
    /\ op' = Op("remove", v, 1)
    /\ UNCHANGED <<region, owned, live, merge, panicked>>

\* The VM's core handles VmmRemoveCpu; the last reference to the VM may be here
StopVcpu(v) ==
    /\ v \in live \ ready
    /\ live' = live \ {v}
    /\ owned' = IF op.kind = "remove" /\ op.vm = v THEN owned
                ELSE [owned EXCEPT ![v] = <<>>]
    /\ UNCHANGED <<region, ready, op, merge, panicked>>

FreeRegion ==
    /\ op.kind = "remove" /\ merge = 0
    /\ op.k <= Len(owned[op.vm])
    /\ LET b == owned[op.vm][op.k]
           A == Allocated(b.start)
       IN IF A = {} THEN UNCHANGED <<region, merge>>
          ELSE /\ region' = [region EXCEPT ![First(A)] =
                                   Region(@.base, @.size, @.free + b.len)]
               /\ merge' = First(A)
    /\ op' = [op EXCEPT !.k = @ + 1]
    /\ UNCHANGED <<owned, live, ready, panicked>>

\* One round of the merge loop
MergeRegion ==
    /\ merge # 0
    /\ IF Neighbours(merge) = {}
       THEN merge' = 0 /\ UNCHANGED region
       ELSE LET i    == First(Neighbours(merge))
                low  == IF region[i].base < region[merge].base THEN i ELSE merge
                high == IF low = i THEN merge ELSE i
            IN /\ region' = Absorb(low, high)
               /\ merge' = Shifted(low, high)
    /\ UNCHANGED <<owned, live, ready, op, panicked>>

RemoveDone ==
    /\ op.kind = "remove" /\ merge = 0
    /\ op.k > Len(owned[op.vm])
    /\ owned' = IF op.vm \in live THEN owned ELSE [owned EXCEPT ![op.vm] = <<>>]
    /\ op' = NoOp
    /\ UNCHANGED <<region, live, ready, merge, panicked>>

MemNext ==
    \/ \E v \in Guests : StartSetup(v) \/ Boot(v) \/ StartRemove(v) \/ StopVcpu(v)
    \/ InitMemory
    \/ SetupDone
    \/ FreeRegion
    \/ MergeRegion
    \/ RemoveDone

MemSpec == MemInit /\ [][MemNext]_memVars

-----------------------------------------------------------------------------
BlockPages(b) == Pages(b.start, b.len)
OwnedPages(v) == UNION {BlockPages(owned[v][k]) : k \in 1..Len(owned[v])}
RegionPages(i) == Pages(region[i].base, region[i].size)
AllPages == UNION {Pages(Platform[i].base, Platform[i].size) : i \in 1..Len(Platform)}

\* What VM v still holds: during its removal the blocks not yet freed
Held(v) ==
    IF op.kind = "remove" /\ op.vm = v
    THEN UNION {BlockPages(owned[v][k]) : k \in op.k..Len(owned[v])}
    ELSE IF v \in ready \/ (op.kind = "setup" /\ op.vm = v) THEN OwnedPages(v)
    ELSE {}

(* The state is well formed. *)
MemTypeOK ==
    /\ region \in Seq([base: Nat, size: Nat, free: Nat])
    /\ owned \in [Guests -> Seq([start: Nat, len: Nat])]
    /\ live \subseteq Guests /\ ready \subseteq Guests
    /\ op = NoOp \/ op \in [kind: {"setup", "remove"}, vm: Guests, k: Nat]
    /\ merge \in 0..Len(region)
    /\ panicked \in BOOLEAN

(* The regions of VM_REGION cover the platform's memory and never overlap,    *)
(* through every split and merge, and each is wholly free or wholly taken.    *)
RegionsPartition ==
    /\ UNION {RegionPages(i) : i \in 1..Len(region)} = AllPages
    /\ \A i, j \in 1..Len(region) :
          i # j => RegionPages(i) \cap RegionPages(j) = {}
    /\ \A i \in 1..Len(region) : region[i].free \in {0, region[i].size}

(* No page leaks and none is free while a VM holds it: the pages in taken     *)
(* regions are exactly the pages VMs hold (mem_vm_region_free finds the       *)
(* region of every block it is given).                                        *)
NoLeak ==
    UNION {RegionPages(i) : i \in {k \in 1..Len(region) : region[k].free = 0}}
        = UNION {Held(v) : v \in Guests}

(* No fragmentation is left behind: outside the merge loop two free regions   *)
(* are adjacent only where the platform lists two regions that have not been  *)
(* merged yet, so a later VM fits wherever it fitted before.                  *)
Coalesced ==
    merge = 0 =>
        \A i, j \in 1..Len(region) :
            /\ region[i].free # 0 /\ region[j].free # 0
            /\ region[i].base + region[i].size = region[j].base
            => \E k \in 1..Len(Platform) : Platform[k].base = region[j].base

(* The physical regions partition memory through every split and merge, the   *)
(* pages in taken regions are exactly those VMs hold, and free neighbours are *)
(* merged (mem_vm_region_alloc, mem_vm_region_free).                          *)
RegionsExact == RegionsPartition /\ NoLeak /\ Coalesced

(* Isolation: the stage-2 mappings of two VMs never share a page, the         *)
(* mappings of a VM whose core has not stopped it yet included                *)
(* (vmm_remove_vm frees the memory).                                          *)
Isolation ==
    \A u, v \in Guests : u # v => OwnedPages(u) \cap OwnedPages(v) = {}
=============================================================================

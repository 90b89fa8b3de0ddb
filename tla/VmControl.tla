----------------------------- MODULE VmControl -----------------------------
(***************************************************************************)
(* The life of guest VMs as the management VM drives it with hypercalls    *)
(* (kernel/hvc.rs): entries of the configuration table (config/config.rs), *)
(* VM objects made from them (kernel/vm.rs, vmm/init.rs), their removal    *)
(* (vmm/remove.rs), boot and reboot (vmm/manager.rs), and the interrupts   *)
(* (kernel/interrupt.rs) and mediated blocks they hold meanwhile.          *)
(*                                                                         *)
(* The management VM, number 0, has core 0 to itself and makes one         *)
(* hypercall at a time; the other cores take the messages it leaves for    *)
(* them when they get to it, the newest first.  Memory is in VmMemory,     *)
(* the scheduling of a core in CoreSched: here a core switches freely      *)
(* between the vCPUs that run on it.                                       *)
(***************************************************************************)
EXTENDS Integers, Sequences, FiniteSets, SequencesExt, FiniteSetsExt

CONSTANTS
    MaxVm,      \* VM_NUM_MAX
    MaxCore,    \* the cores are 0 .. MaxCore
    Irqs,       \* shared interrupts a device can be passed through with
    Reserved,   \* those the hypervisor handles (interrupt_reserve_int)
    Blocks,     \* number of mediated blocks the management VM appended
    CpuChoices, \* arguments of HVC_CONFIG_CPU: num, bitmap, master
    MaxReboots, \* bound: VMs rebooted by force
    MaxMail     \* bound: messages that wait at a core

\* The management VM has a number; HVC_CONFIG_CPU asks for a number of cores out
\* of the bits of a word.
ControlConstants ==
    /\ MaxVm \in Nat \ {0} /\ Blocks \in Nat
    /\ \A a \in CpuChoices :
         a.num \in Nat /\ a.bitmap \in SUBSET Nat /\ IsFiniteSet(a.bitmap)
ASSUME ControlAssumption == ControlConstants

VARIABLES
    table,      \* DEF_VM_CONFIG_TABLE: entries by VM, vm_bitmap, vm_num
    vms,        \* VM_LIST: for each listed VM the configuration it was made from
    vmif,       \* VM_IF_LIST: master_cpu_id
    glb,        \* INTERRUPT_GLB_BITMAP
    avail,      \* MediatedBlk.avail
    percore,    \* per core: started, vcpu_array, running vCPUs, active one
    mail,       \* CpuIf.msg_queue, a stack
    reset,      \* VMs that were reset; asked: VMs that were to be
    ctlPanicked

ctlVars == <<table, vms, vmif, glb, avail, percore, mail, reset, ctlPanicked>>

None  == -1                  \* no core, VM or block
Absent == [cpu |-> None]      \* no entry, no VM
VmIds == 0 .. MaxVm - 1
CoreIds == 0 .. MaxCore
GuestIds == VmIds \ {0}

\* The members of S, each once, from the least to the greatest
Ordered(S) ==
    CHOOSE s \in [1 .. Cardinality(S) -> S] : \A i, j \in DOMAIN s : i < j => s[i] < s[j]

-----------------------------------------------------------------------------
(* VmCpuConfig::new.  Bitmaps are sets of cores. *)

\* The loop over index, from the lowest bit: what remains to be found below bit i,
\* and the bit at which the loop stops.
Remain(bitmap, num, i) == num - Cardinality({j \in bitmap : j < i})

\* mutant: the loop stops one bit late
WalkLate(bitmap, num) ==
    Min({i \in Min(bitmap) .. Max(bitmap) + 1 :
            Remain(bitmap, num, i - 1) = 0 \/ i > Max(bitmap)})

Walk(bitmap, num) ==
    Min({i \in Min(bitmap) .. Max(bitmap) + 1 :
            Remain(bitmap, num, i) = 0 \/ i > Max(bitmap)})

NoCpu == [num |-> 0, bitmap |-> {}, master |-> None]

CpuConfig(num, bitmap, master) ==
    LET n    == IF num < Cardinality(bitmap) THEN num ELSE Cardinality(bitmap)
        kept == IF bitmap = {} THEN {} ELSE {i \in bitmap : i < Walk(bitmap, n)}
    IN [num |-> n, bitmap |-> kept, master |-> IF master \in kept THEN master ELSE None]

cal_phys_id_list(cpu) ==
    IF cpu.master = None THEN Ordered(cpu.bitmap)
    ELSE <<cpu.master>> \o Ordered(cpu.bitmap \ {cpu.master})

-----------------------------------------------------------------------------
(* VmConfigTable *)

NewEntry == [cpu |-> NoCpu, irqs |-> {}, blk |-> None]
MvmEntry == [NewEntry EXCEPT !.cpu = CpuConfig(1, {0}, 0)]

generate_vm_id == VmIds \ table.bitmap
Configured == {v \in VmIds : table.entries[v] # Absent}
Listed     == {v \in VmIds : vms[v] # Absent}

IdleCore == [started |-> FALSE, array |-> {}, running |-> {}, active |-> None]

ControlInit ==
    /\ table = [entries |-> [v \in VmIds |-> IF v = 0 THEN MvmEntry ELSE Absent],
                bitmap  |-> {0}, num |-> 1]
    /\ vms = [v \in VmIds |-> IF v = 0 THEN MvmEntry ELSE Absent]
    /\ vmif = [v \in VmIds |-> IF v = 0 THEN 0 ELSE None]
    /\ glb = Reserved
    /\ avail = [b \in 1 .. Blocks |-> TRUE]
    /\ percore = [c \in CoreIds |->
                 IF c = 0 THEN [started |-> TRUE, array |-> {0}, running |-> {0}, active |-> 0]
                 ELSE IdleCore]
    /\ mail = [c \in CoreIds |-> <<>>]
    /\ reset = [asked |-> {}, done |-> {}]
    /\ ctlPanicked = FALSE

\* The management VM is about to make a hypercall
Hypercall == ~ctlPanicked /\ percore[0].active = 0

\* vm_cfg_add_vm, vm_cfg_add_vm_entry
vm_cfg_add_vm ==
    /\ Hypercall /\ generate_vm_id # {}
    /\ LET v == Min(generate_vm_id)
       IN table' = [entries |-> [table.entries EXCEPT ![v] = NewEntry],
                    bitmap  |-> table.bitmap \cup {v}, num |-> table.num + 1]
    /\ UNCHANGED <<vms, vmif, glb, avail, percore, mail, reset, ctlPanicked>>

\* The table without v, and avail with its block given back
EntryRemoved(v) ==
    [entries |-> [table.entries EXCEPT ![v] = Absent],
     bitmap  |-> table.bitmap \ {v}, num |-> table.num - 1]

\* mutant: the mediated block stays taken
BlockKept(v) == avail

BlockFreed(v) ==
    IF table.entries[v].blk = None THEN avail
    ELSE [avail EXCEPT ![table.entries[v].blk] = TRUE]

\* vm_cfg_del_vm; the configuration of a VM that was made goes with the VM
vm_cfg_del_vm(v) ==
    /\ Hypercall /\ v \in Configured \ Listed
    /\ table' = EntryRemoved(v)
    /\ avail' = BlockFreed(v)
    /\ UNCHANGED <<vms, vmif, glb, percore, mail, reset, ctlPanicked>>

vm_cfg_editor(v, e) ==
    /\ Hypercall /\ v \in Configured \ Listed
    /\ table' = [entries |-> [table.entries EXCEPT ![v] = e],
                 bitmap  |-> table.bitmap, num |-> table.num]
    /\ UNCHANGED <<vms, vmif, glb, percore, mail, reset, ctlPanicked>>

vm_cfg_set_cpu(v, arg) ==
    /\ vm_cfg_editor(v, [table.entries[v] EXCEPT !.cpu = CpuConfig(arg.num, arg.bitmap, arg.master)])
    /\ UNCHANGED avail

vm_cfg_add_passthrough_device_irqs(v, i) ==
    /\ vm_cfg_editor(v, [table.entries[v] EXCEPT !.irqs = @ \cup {i}])
    /\ UNCHANGED avail

\* The mediated block device of v, with mediated_blk_request; a configuration has
\* one.  With no block left the call fails after the device was added.
vm_cfg_add_emu_dev(v) ==
    LET free == {b \in DOMAIN avail : avail[b]}
        b    == Min(free)
    IN /\ v \in Configured /\ table.entries[v].blk = None /\ free # {}
       /\ vm_cfg_editor(v, [table.entries[v] EXCEPT !.blk = b])
       /\ avail' = [avail EXCEPT ![b] = FALSE]

-----------------------------------------------------------------------------
(* Messages between cores, and what a core does on one *)

Msg(kind, v) == [kind |-> kind, vm |-> v]
Push(m, cs) == [c \in CoreIds |-> IF c \in cs THEN Append(mail[c], m) ELSE mail[c]]
MailFits(cs) == \A c \in cs : Len(mail[c]) < MaxMail
Panic == ctlPanicked' = TRUE /\ UNCHANGED <<percore, reset>>

\* VcpuArray::append_vcpu leaves a slot that is in use alone
Assigned(c, v) == [percore EXCEPT ![c].array = @ \cup {v}]

\* yield_to and vmm_boot on v's own core
BootedOn(C, c, v) ==
    IF v \in C[c].array
    THEN [C EXCEPT ![c].running = @ \cup {v}, ![c].active = v] ELSE C

\* vmm_cpu_remove_vcpu; remove_vcpu panics without a vCPU in the slot
CpuRemove(c, v) ==
    IF v \notin percore[c].array THEN Panic
    ELSE /\ percore' = [percore EXCEPT ![c].array = @ \ {v}, ![c].running = @ \ {v},
                                       ![c].active = IF @ = v THEN None ELSE @]
         /\ UNCHANGED <<reset, ctlPanicked>>

\* vmm_reboot resets the VM that is active on the core, or with the management
\* VM the whole system
vmm_reboot(c) ==
    IF percore[c].active = None THEN Panic
    ELSE /\ reset' = [reset EXCEPT !.done = @ \cup {percore[c].active}]
         /\ UNCHANGED <<percore, ctlPanicked>>

\* vmm_ipi_handler
vmm_ipi_handler(c) ==
    /\ ~ctlPanicked /\ percore[c].started /\ mail[c] # <<>>
    /\ mail' = [mail EXCEPT ![c] = Front(@)]
    /\ LET m == Last(mail[c])
       IN \/ /\ m.kind = "assign"
             /\ percore' = Assigned(c, m.vm) /\ UNCHANGED <<reset, ctlPanicked>>
          \/ /\ m.kind = "boot"
             /\ percore' = BootedOn(percore, c, m.vm) /\ UNCHANGED <<reset, ctlPanicked>>
          \/ m.kind = "remove" /\ CpuRemove(c, m.vm)
          \/ m.kind = "reboot" /\ vmm_reboot(c)
    /\ UNCHANGED <<table, vms, vmif, glb, avail>>

\* The scheduler of core c goes on with another vCPU
Switch(c, v) ==
    /\ ~ctlPanicked /\ v \in percore[c].running \ {percore[c].active}
    /\ percore' = [percore EXCEPT ![c].active = v]
    /\ UNCHANGED <<table, vms, vmif, glb, avail, mail, reset, ctlPanicked>>

-----------------------------------------------------------------------------
(* VM objects *)

\* interrupt_vm_register refuses an interrupt that is taken
Conflict(v) == table.entries[v].irqs \cap glb # {}

\* vm_cfg_upload_kernel_image: the first upload makes the VM (vmm_init_gvm:
\* push_vm, vmm_setup_config).  No core configured, or an interrupt that is
\* taken, panics.  Its cores are told, the one we are on at once.
vm_cfg_upload_kernel_image(v) ==
    LET cpus == cal_phys_id_list(table.entries[v].cpu)
        cs   == ToSet(cpus) \ {0}
    IN /\ Hypercall /\ v \in Configured \ Listed /\ MailFits(cs)
       /\ IF cpus = <<>>
          THEN Panic /\ UNCHANGED <<vms, vmif, glb, mail>>
          ELSE /\ vms' = [vms EXCEPT ![v] = table.entries[v]]
               /\ vmif' = [vmif EXCEPT ![v] = IF @ = None THEN Head(cpus) ELSE @]
               /\ mail' = Push(Msg("assign", v), cs)
               /\ percore' = IF 0 \in ToSet(cpus) THEN Assigned(0, v) ELSE percore
               /\ glb' = IF Conflict(v) THEN glb ELSE glb \cup table.entries[v].irqs
               /\ ctlPanicked' = Conflict(v)
               /\ UNCHANGED reset
       /\ UNCHANGED <<table, avail>>

\* vmm_boot_vm: the master core boots it, after it was started if it was off
\* (psci_vm_maincpu_on, guest_cpu_on)
vmm_boot_vm(v) ==
    LET c == vmif[v]
    IN /\ Hypercall /\ v \in GuestIds /\ c # None /\ MailFits({c})
       /\ v \notin percore[c].running
       /\ CASE c # 0 /\ percore[c].started ->
                 mail' = Push(Msg("boot", v), {c}) /\ UNCHANGED percore
            [] c # 0 /\ ~percore[c].started ->
                 /\ percore' = BootedOn([Assigned(c, v) EXCEPT ![c].started = TRUE], c, v)
                 /\ UNCHANGED mail
            [] OTHER -> percore' = BootedOn(percore, c, v) /\ UNCHANGED mail
       /\ UNCHANGED <<table, vms, vmif, glb, avail, reset, ctlPanicked>>

\* mutant: the master core is remembered
IfKept(v) == vmif

vm_if_reset(v) == [vmif EXCEPT ![v] = None]

\* vmm_remove_passthrough_device: interrupt_vm_remove
IrqsRemoved(v) == glb \ vms[v].irqs

\* vmm_remove_vm: vmm_remove_vcpu tells the VM's cores; on our own core
\* vmm_remove_vcpu_percore takes it out of the array only
vmm_remove_vm(v) ==
    LET cpus == vms[v].cpu.bitmap
    IN /\ Hypercall /\ v \in Listed \ {0} /\ MailFits(cpus \ {0})
       /\ mail' = Push(Msg("remove", v), cpus \ {0})
       /\ percore' = IF 0 \in cpus THEN [percore EXCEPT ![0].array = @ \ {v}] ELSE percore
       /\ ctlPanicked' = (0 \in cpus /\ v \notin percore[0].array)
       /\ vmif' = vm_if_reset(v)
       /\ glb' = IrqsRemoved(v)
       /\ vms' = [vms EXCEPT ![v] = Absent]
       /\ table' = EntryRemoved(v)
       /\ avail' = BlockFreed(v)
       /\ UNCHANGED reset

\* vmm_reboot_vm with force, for a VM that runs
vmm_reboot_vm(v) ==
    /\ Hypercall /\ v \in Listed \ {0} /\ Cardinality(reset.asked) < MaxReboots
    /\ MailFits({vmif[v]}) /\ v \in percore[vmif[v]].running
    /\ mail' = Push(Msg("reboot", v), {vmif[v]})
    /\ reset' = [reset EXCEPT !.asked = @ \cup {v}]
    /\ UNCHANGED <<table, vms, vmif, glb, avail, percore, ctlPanicked>>

-----------------------------------------------------------------------------
ControlNext ==
    \/ vm_cfg_add_vm
    \/ \E v \in GuestIds :
          \/ vm_cfg_del_vm(v)
          \/ \E arg \in CpuChoices : vm_cfg_set_cpu(v, arg)
          \/ \E i \in Irqs : vm_cfg_add_passthrough_device_irqs(v, i)
          \/ vm_cfg_add_emu_dev(v)
          \/ vm_cfg_upload_kernel_image(v)
          \/ vmm_boot_vm(v)
          \/ vmm_remove_vm(v)
          \/ vmm_reboot_vm(v)
    \/ \E c \in CoreIds : vmm_ipi_handler(c)
    \/ \E c \in CoreIds, v \in VmIds : Switch(c, v)

ControlSpec == ControlInit /\ [][ControlNext]_ctlVars

-----------------------------------------------------------------------------
(* The configuration table, its identifier bitmap and its count agree; every  *)
(* listed VM still has the configuration it was made from; and a mediated     *)
(* block is taken exactly while one configuration names it                    *)
(* (vm_cfg_remove_vm_entry), over any history of identifiers used again.      *)
ConfigsAgree ==
    /\ table.bitmap = Configured /\ table.num = Cardinality(Configured)
    /\ \A v \in Listed : table.entries[v] = vms[v]
    /\ \A b \in DOMAIN avail :
          Cardinality({v \in Configured : table.entries[v].blk = b})
              = IF avail[b] THEN 0 ELSE 1

(* An interrupt is marked taken (INTERRUPT_GLB_BITMAP) exactly while the      *)
(* hypervisor or one listed VM has it, so no interrupt ever has two owners    *)
(* and none stays taken after its VM is removed.                              *)
InterruptsOwned ==
    ~ctlPanicked =>
        /\ glb = Reserved \cup UNION {vms[v].irqs : v \in Listed}
        /\ \A u, v \in Listed : u # v => vms[u].irqs \cap vms[v].irqs = {}

(* Over any history of identifiers used again, the tables of VMs agree: the   *)
(* configurations and what was made from them, and the interrupts they hold   *)
(* (vm_cfg_add_vm, vmm_remove_vm, interrupt_vm_register).                      *)
TablesAgree == ConfigsAgree /\ InterruptsOwned

(* The core that boots a VM is the first of its own cores, also when its      *)
(* identifier belonged to a VM with other cores before (vm_if_reset).         *)
MasterCurrent ==
    ~ctlPanicked =>
        \A v \in VmIds :
            vmif[v] = IF v \in Listed THEN Head(cal_phys_id_list(vms[v].cpu)) ELSE None

(* VmCpuConfig::new keeps the lowest num cores of the bitmap, neither fewer   *)
(* nor more, and cal_phys_id_list lists each of them once, the master first.  *)
CpusAsConfigured ==
    \A v \in Configured : \A arg \in CpuChoices :
        LET cpu  == CpuConfig(arg.num, arg.bitmap, arg.master)
            list == cal_phys_id_list(cpu)
        IN table.entries[v].cpu = cpu =>
             /\ Cardinality(cpu.bitmap) = cpu.num /\ cpu.num <= arg.num
             /\ cpu.num = arg.num \/ cpu.bitmap = arg.bitmap
             /\ \A i \in cpu.bitmap, j \in arg.bitmap \ cpu.bitmap : i < j
             /\ IsInjective(list) /\ ToSet(list) = cpu.bitmap
             /\ cpu.master # None => list[1] = arg.master

(* Only a VM whose reboot was asked for is reset (vmm_reboot_vm,              *)
(* vmm_ipi_handler, vmm_reboot).                                              *)
RebootsTarget == reset.done \subseteq reset.asked
=============================================================================

----------------------------- MODULE CoreSched -----------------------------
(* One physical core of the hypervisor: its round-robin vCPU scheduler,       *)
(* the trap frame the core returns to a guest through, and the stack of       *)
(* inter-processor messages the other cores leave for it.                     *)
(*                                                                            *)
(* A VM has at most one vCPU on a core, so a VM names its vCPU.  The register *)
(* values of a frame are abstracted to whose values they are (of) and whose   *)
(* trap handlers wrote results into them (by).                                *)
(*                                                                            *)
(* core is the record of what current_cpu() and its scheduler hold:           *)
(*   queue, idx   SchedulerRR.queue and active_idx (0-based, as in the code)  *)
(*   active       Cpu.active_vcpu                                             *)
(*   vst          VcpuInnerMut.state                                          *)
(*   frame        the ContextFrame Cpu.ctx points to                          *)
(*   saved        VcpuInnerMut.vcpu_ctx                                       *)
(*   parked       VcpuInnerMut.int_list is not empty                          *)
(*   timer        the hypervisor timer interrupt is enabled on the core       *)
(*   dead         VMs whose Arc<Vm> is gone: Vcpu::vm() is None               *)
(*   panic        the hypervisor panicked                                     *)
EXTENDS Integers, Sequences, FiniteSets

CONSTANTS
    VMs,        \* the VMs with a vCPU configured on this core
    Main,       \* those whose vCPU here is vCPU 0: booted, not powered on by PSCI
    Mvm,        \* the management VM if it runs on this core, else NoVM
    NoVM,
    Removing,   \* the management VM may remove VMs
    Paced,      \* management requests wait until the core has drained the last
    MaxMsgs     \* bound: messages waiting for the core

ASSUME CoreSchedAssumption ==
    /\ NoVM \notin VMs
    /\ Main \subseteq VMs
    /\ Mvm \in Main \cup {NoVM}
    /\ Removing \in BOOLEAN
    /\ Paced \in BOOLEAN
    /\ MaxMsgs \in Nat \ {0}

VARIABLES
    core,       \* see above
    array,      \* VcpuArray: the VMs assigned to this core
    msgs,       \* CpuIf.msg_queue, a stack: the last message is on top
    sgi,        \* the IPI interrupt is pending at the core
    mode,       \* "run": a guest or the idle loop; "drain": ipi_irq_handler
    asked,      \* management requests made so far: <<kind, vm>>
    dropped     \* boots and power-ons that found no vCPU in the array

vars == <<core, array, msgs, sgi, mode, asked, dropped>>

Idle == "idle"
States == {"Invalid", "Ready", "Running", "Sleep"}
Frames == [of: VMs \cup {Idle}, by: SUBSET VMs]
Kinds == {"assign", "boot", "cpu_on", "inject", "remove"}
Messages == [kind: Kinds, vm: VMs]

Fresh(v) == [of |-> v, by |-> {}]
IdleFrame == [of |-> Idle, by |-> {}]

-----------------------------------------------------------------------------
(* Cpu and Vcpu *)

\* Vcpu::context_vm_store of the active vCPU
ContextVmStore(c) == [c EXCEPT !.saved[c.active] = c.frame]

\* Vcpu::context_vm_restore; inject_int_inlist empties the list into the
\* virtual GIC, but an interrupt for a vCPU that is not active is parked again
ContextVmRestore(c, v) ==
    [c EXCEPT !.frame = c.saved[v],
              !.parked[v] = c.parked[v] /\ (v \in c.dead \/ c.active # v)]

\* Cpu::schedule_to; vm_pt_dir() unwraps the weak reference to the VM
ScheduleTo(c, v) ==
    LET stored == IF c.active = NoVM THEN c
                  ELSE ContextVmStore([c EXCEPT !.vst[c.active] = "Ready"])
        active == [stored EXCEPT !.active = v, !.vst[v] = "Running"]
    IN [ContextVmRestore(active, v) EXCEPT !.panic = c.panic \/ v \in c.dead]

\* vcpu_run: the context of the active vCPU is restored once more
VcpuRun(c) == ContextVmRestore(c, c.active)

\* run_idle_thread
RunIdleThread(c) == [c EXCEPT !.frame = IdleFrame]

-----------------------------------------------------------------------------
(* SchedulerRR *)

\* The indices next() tries, in order, that hold a vCPU it does not skip
Eligible(c) == {i \in 1..Len(c.queue) :
    c.vst[c.queue[((c.idx + i) % Len(c.queue)) + 1]] # "Invalid"}

\* Variant: the search starts at the active vCPU itself
DoScheduleFromActive(c) ==
    IF Eligible(c) = {} THEN RunIdleThread(c)
    ELSE LET n == c.idx % Len(c.queue)
         IN ScheduleTo([c EXCEPT !.idx = n], c.queue[n + 1])

\* do_schedule with next()
DoSchedule(c) ==
    IF Eligible(c) = {} THEN RunIdleThread(c)
    ELSE LET i == CHOOSE k \in Eligible(c) : \A j \in Eligible(c) : k <= j
             n == (c.idx + i) % Len(c.queue)
         IN ScheduleTo([c EXCEPT !.idx = n], c.queue[n + 1])

\* The queue without its element at the 0-based position p
Without(q, p) == SubSeq(q, 1, p) \o SubSeq(q, p + 2, Len(q))

\* The 0-based positions at which v is queued
Positions(q, v) == {i \in 0..(Len(q) - 1) : q[i + 1] = v}

\* Variant: active_idx does not follow the elements that move down
SleepKeepsIdx(c, v) ==
    LET at == Positions(c.queue, v)
        p  == CHOOSE i \in at : \A j \in at : i <= j
        q  == IF at = {} THEN c.queue ELSE Without(c.queue, p)
        s  == [c EXCEPT !.queue = q, !.vst[v] = "Sleep",
                        !.timer = c.timer /\ Len(q) > 1]
    IN IF at # {} /\ p = c.idx THEN DoSchedule([s EXCEPT !.active = NoVM]) ELSE s

\* sleep
Sleep(c, v) ==
    LET at      == Positions(c.queue, v)
        p       == CHOOSE i \in at : \A j \in at : i <= j
        found   == at # {}
        isLast  == found /\ p = c.idx
        removed == IF found THEN [c EXCEPT !.queue = Without(c.queue, p)] ELSE c
        moved   == IF found /\ p < c.idx
                   THEN [removed EXCEPT !.idx = c.idx - 1] ELSE removed
        off     == IF isLast THEN [moved EXCEPT !.active = NoVM] ELSE moved
        asleep  == [off EXCEPT !.vst[v] = "Sleep",
                               !.timer = off.timer /\ Len(off.queue) > 1]
    IN IF isLast THEN DoSchedule(asleep) ELSE asleep

\* wakeup
Wakeup(c, v) ==
    LET pushed == [c EXCEPT !.vst[v] = "Ready",
                            !.queue = Append(c.queue, v),
                            !.timer = c.timer \/ Len(c.queue) > 0]
    IN IF Len(pushed.queue) = 1 THEN DoSchedule(pushed) ELSE pushed

\* yield_to
YieldTo(c, v) ==
    LET pushed == [c EXCEPT !.queue = Append(c.queue, v), !.idx = Len(c.queue)]
    IN [ScheduleTo(pushed, v) EXCEPT !.timer = c.timer \/ Len(c.queue) > 0]

-----------------------------------------------------------------------------
(* Operations on the core *)

\* interrupt_vm_inject: a sleeping vCPU is woken; the interrupt goes to the
\* virtual GIC of the active vCPU and is parked for any other
InterruptVmInject(c, v) ==
    LET awake == IF c.vst[v] = "Sleep" THEN Wakeup(c, v) ELSE c
    IN IF awake.active = v THEN awake ELSE [awake EXCEPT !.parked[v] = TRUE]

\* psci_vcpu_on: the vCPU gets its entry state and is woken
PsciVcpuOn(c, v) == DoSchedule(Wakeup([c EXCEPT !.saved[v] = Fresh(v)], v))

\* The handler's return value and program-counter step go to Cpu.ctx
HandlerResult(c, v) == [c EXCEPT !.frame.by = @ \cup {v}]

\* PSCI_CPU_SUSPEND_64: smc_guest_handler, then the tail of smc_handler
CpuSuspend(c, v) ==
    HandlerResult(Sleep([c EXCEPT !.saved[v] = Fresh(v)], v), v)

\* Variant: the scheduler keeps the removed vCPU
RemoveUnscheduled(c, v) == [c EXCEPT !.dead = @ \cup {v}]

\* vmm_cpu_remove_vcpu, after remove_vcpu; the message held the last Arc<Vm>
VmmCpuRemoveVcpu(c, v) == [Sleep(c, v) EXCEPT !.dead = @ \cup {v}]

\* vmm_remove_vcpu_percore and the drop of the VM: the scheduler is not told
VmmRemoveVcpuPercore(c, v) == [c EXCEPT !.dead = @ \cup {v}]

-----------------------------------------------------------------------------
(* The messages another core leaves, handled with interrupts masked *)

Asked(kind, v) == <<kind, v>> \in asked

\* What the requesting core checks: the VM is configured and still listed
MaySend(kind, v) ==
    /\ Len(msgs) < MaxMsgs
    /\ Paced => msgs = <<>> /\ mode = "run"
    /\ ~ Asked("remove", v)
    /\ kind = "assign" => ~ Asked("assign", v)
    /\ kind # "assign" => Asked("assign", v)
    /\ kind = "boot"   => v \in Main /\ ~ Asked("boot", v)
    /\ kind = "cpu_on" => v \notin Main /\ ~ Asked("cpu_on", v)
    /\ kind = "remove" => Removing
    /\ v # Mvm \/ kind = "inject"

\* ipi_send: push the message, then raise the interrupt
Send(kind, v) ==
    /\ ~ core.panic
    /\ MaySend(kind, v)
    /\ Mvm # NoVM => kind = "inject"
    /\ msgs' = Append(msgs, [kind |-> kind, vm |-> v])
    /\ sgi' = TRUE
    /\ asked' = IF kind = "inject" THEN asked ELSE asked \cup {<<kind, v>>}
    /\ UNCHANGED <<core, array, mode, dropped>>

\* The core takes the IPI: the interrupt is acknowledged once for all messages
TakeIpi ==
    /\ ~ core.panic /\ mode = "run" /\ sgi
    /\ sgi' = FALSE
    /\ mode' = "drain"
    /\ UNCHANGED <<core, array, msgs, asked, dropped>>

\* vmm_assign_vcpu_percore: VcpuArray::append_vcpu
HandleAssign(v) ==
    /\ array' = array \cup {v}
    /\ UNCHANGED <<core, mode, dropped>>

\* vmm_boot_vm on the VM's own core: vcpu_run enters the guest and never returns
HandleBoot(v) ==
    IF v \notin array
    THEN /\ dropped' = dropped \cup {v}
         /\ UNCHANGED <<core, array, mode>>
    ELSE /\ core' = VcpuRun(YieldTo(core, v))
         /\ mode' = "run"
         /\ UNCHANGED <<array, dropped>>

\* psci_ipi_handler, PsciIpiCpuOn
HandleCpuOn(v) ==
    IF v \notin array
    THEN /\ dropped' = dropped \cup {v}
         /\ UNCHANGED <<core, array, mode>>
    ELSE /\ core' = IF core.vst[v] = "Invalid" THEN PsciVcpuOn(core, v) ELSE core
         /\ UNCHANGED <<array, mode, dropped>>

\* interrupt_inject_ipi_handler: panics if the VM has no vCPU here
HandleInject(v) ==
    /\ core' = IF v \in array THEN InterruptVmInject(core, v)
               ELSE [core EXCEPT !.panic = TRUE]
    /\ UNCHANGED <<array, mode, dropped>>

\* vmm_cpu_remove_vcpu: remove_vcpu panics if the VM has no vCPU here; with no
\* vCPU left the core goes to cpu_idle from inside the handler
HandleRemove(v) ==
    /\ array' = array \ {v}
    /\ core' = IF v \in array THEN VmmCpuRemoveVcpu(core, v)
               ELSE [core EXCEPT !.panic = TRUE]
    /\ mode' = IF v \in array /\ array' = {} THEN "run" ELSE mode
    /\ UNCHANGED dropped

\* ipi_irq_handler: pop the newest message and call its handler
Drain ==
    /\ ~ core.panic /\ mode = "drain" /\ msgs # <<>>
    /\ LET m == msgs[Len(msgs)]
       IN \/ m.kind = "assign" /\ HandleAssign(m.vm)
          \/ m.kind = "boot"   /\ HandleBoot(m.vm)
          \/ m.kind = "cpu_on" /\ HandleCpuOn(m.vm)
          \/ m.kind = "inject" /\ HandleInject(m.vm)
          \/ m.kind = "remove" /\ HandleRemove(m.vm)
    /\ msgs' = SubSeq(msgs, 1, Len(msgs) - 1)
    /\ UNCHANGED <<sgi, asked>>

\* The list is empty: return from the interrupt through the frame
DrainEnd ==
    /\ ~ core.panic /\ mode = "drain" /\ msgs = <<>>
    /\ mode' = "run"
    /\ UNCHANGED <<core, array, msgs, sgi, asked, dropped>>

-----------------------------------------------------------------------------
(* What happens while a guest or the idle loop runs *)

Running == ~ core.panic /\ mode = "run"

\* timer_irq_handler
TimerIrq ==
    /\ Running /\ core.timer
    /\ core' = DoSchedule(core)
    /\ UNCHANGED <<array, msgs, sgi, mode, asked, dropped>>

\* The guest calls PSCI CPU_SUSPEND
GuestSuspend ==
    /\ Running /\ core.active # NoVM
    /\ core' = CpuSuspend(core, core.active)
    /\ UNCHANGED <<array, msgs, sgi, mode, asked, dropped>>

\* interrupt_handler for a passthrough device of v: discarded if v sleeps
DeviceIrq(v) ==
    /\ Running /\ v \in array
    /\ core.vst[v] \in {"Ready", "Running"}
    /\ core' = InterruptVmInject(core, v)
    /\ UNCHANGED <<array, msgs, sgi, mode, asked, dropped>>

\* The management VM on this core: vmm_init_cpu, vmm_boot_vm and vmm_remove_vm
\* take their local paths
Local(kind, v) ==
    /\ Running /\ Mvm # NoVM /\ core.active = Mvm /\ v # Mvm
    /\ MaySend(kind, v)
    /\ \/ kind = "assign" /\ HandleAssign(v)
       \/ kind = "boot"   /\ HandleBoot(v)
       \/ /\ kind = "remove" /\ v \in array
          /\ array' = array \ {v}
          /\ core' = VmmRemoveVcpuPercore(core, v)
          /\ UNCHANGED <<mode, dropped>>
    /\ asked' = asked \cup {<<kind, v>>}
    /\ UNCHANGED <<msgs, sgi>>

-----------------------------------------------------------------------------
Booted == IF Mvm = NoVM THEN {} ELSE {Mvm}

Init ==
    /\ core = [queue  |-> IF Mvm = NoVM THEN <<>> ELSE <<Mvm>>,
               idx    |-> 0,
               active |-> Mvm,
               vst    |-> [v \in VMs |-> IF v = Mvm THEN "Running" ELSE "Invalid"],
               frame  |-> IF Mvm = NoVM THEN IdleFrame ELSE Fresh(Mvm),
               saved  |-> [v \in VMs |-> Fresh(v)],
               parked |-> [v \in VMs |-> FALSE],
               timer  |-> FALSE,
               dead   |-> {},
               panic  |-> FALSE]
    /\ array = Booted
    /\ msgs = <<>>
    /\ sgi = FALSE
    /\ mode = "run"
    /\ asked = {<<"assign", v>> : v \in Booted}
    /\ dropped = {}

Next ==
    \/ \E v \in VMs, kind \in Kinds : Send(kind, v)
    \/ TakeIpi
    \/ Drain
    \/ DrainEnd
    \/ TimerIrq
    \/ GuestSuspend
    \/ \E v \in VMs : DeviceIrq(v)
    \/ \E v \in VMs, kind \in Kinds : Local(kind, v)

\* Pending interrupts are taken and handlers finish; the timer interrupt stays
\* asserted while IPIs are drained; guests and other cores owe nothing
Fairness == WF_vars(TakeIpi \/ Drain \/ DrainEnd) /\ SF_vars(TimerIrq)

Spec == Init /\ [][Next]_vars /\ Fairness

-----------------------------------------------------------------------------
Queued == {core.queue[i] : i \in 1..Len(core.queue)}

(* The state of the core is well formed. *)
TypeOK ==
    /\ core \in [queue: Seq(VMs), idx: Nat, active: VMs \cup {NoVM},
                 vst: [VMs -> States], frame: Frames, saved: [VMs -> Frames],
                 parked: [VMs -> BOOLEAN], timer: BOOLEAN,
                 dead: SUBSET VMs, panic: BOOLEAN]
    /\ array \subseteq VMs
    /\ msgs \in Seq(Messages) /\ Len(msgs) <= MaxMsgs
    /\ sgi \in BOOLEAN
    /\ mode \in {"run", "drain"}
    /\ asked \subseteq Kinds \X VMs
    /\ dropped \subseteq VMs

(* The run queue, active_idx, the active vCPU and the vCPU states tell the    *)
(* same story across sleep, wakeup, yield_to and removal (SchedulerRR): the   *)
(* queue holds each runnable vCPU once, active_idx points at the active one,  *)
(* only that one is Running, and the core is idle only if none is runnable.   *)
(* The preemption timer runs whenever two vCPUs share the core.               *)
SchedConsistent ==
    /\ Cardinality(Queued) = Len(core.queue)
    /\ Queued = {v \in VMs : core.vst[v] \in {"Ready", "Running"}}
    /\ \A v \in VMs : core.vst[v] = "Running" <=> v = core.active
    /\ IF core.active = NoVM THEN core.queue = <<>>
       ELSE /\ core.idx < Len(core.queue)
            /\ core.queue[core.idx + 1] = core.active
    /\ Len(core.queue) > 1 => core.timer

(* The frame the core returns through holds the registers of the active vCPU, *)
(* or of the idle thread, and a vCPU's saved context is its own: no sequence  *)
(* of switches stores one VM's registers into another's Vcpu (schedule_to).   *)
FrameMatches ==
    /\ core.frame.of = IF core.active = NoVM THEN Idle ELSE core.active
    /\ \A v \in VMs : core.saved[v].of = v

(* An interrupt is parked only for a vCPU that is off the core: schedule_to   *)
(* makes the vCPU active before context_vm_restore empties its list.          *)
ParkedOffCore == core.active \in VMs \ core.dead => ~ core.parked[core.active]

(* The hypervisor does not panic: a message finds the vCPU it is for and no   *)
(* vCPU of a destroyed VM is scheduled.                                       *)
NoPanic == ~ core.panic

(* A trap handler writes its result only into the registers of the VM that    *)
(* trapped (set_gpr and set_elr at the end of smc_guest_handler/smc_handler). *)
FrameOwn ==
    /\ core.frame.of \in VMs => core.frame.by \subseteq {core.frame.of}
    /\ \A v \in VMs : core.saved[v].by \subseteq {v}

(* A boot or power-on request sent after the VM was assigned to the core      *)
(* finds its vCPU there (vmm_boot_vm, psci_ipi_handler).                      *)
RequestsFindVcpu == dropped = {}

(* A message left for the core is being drained or has an interrupt pending   *)
(* for it, so it is not forgotten (ipi_irq_handler).                          *)
MessagesNotified == msgs # <<>> => sgi \/ mode = "drain" \/ core.panic

(* Round robin: a runnable vCPU gets the core (SchedulerRR::next).            *)
ReadyRuns == \A v \in VMs : core.vst[v] = "Ready" ~> core.vst[v] # "Ready"
=============================================================================

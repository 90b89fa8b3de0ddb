------------------------------- MODULE Vaplic -------------------------------
(***************************************************************************)
(* Interrupts of RISC-V guests in the build with the advanced interrupt    *)
(* architecture: every VM configures a virtual APLIC whose writes go on to *)
(* the physical one, which then sends message-signalled interrupts to the  *)
(* guest interrupt files of the harts without the hypervisor; devices of   *)
(* the hypervisor write those files themselves (imsic_trigger).            *)
(*                                                                         *)
(* VM 0 sets up the domain as it boots and starts the others afterwards.   *)
(* A VM writes the registers of its own interrupts only, a guest index of  *)
(* 0 and vCPUs it has; its interrupt file on a hart is VM id + 1.          *)
(***************************************************************************)
EXTENDS Integers, FiniteSets

CONSTANTS
    VMs,            \* identifiers, 0 among them
    Pcpu,           \* Pcpu[vm][vcpu] is the hart of a vCPU
    Irqs,           \* records: n, vm, phys
    Eiids,          \* interrupt identities, above 0
    MaxRaise

VARIABLES
    aplic,          \* the physical APLIC
    vaplic,         \* vaplic[vm]: what the virtual one remembers
    files,          \* identities pending in each interrupt file
    ready,          \* VM 0 has set the domain up
    raised,
    asked           \* history: the files and identities each VM asked for

vars == <<aplic, vaplic, files, ready, raised, asked>>

Harts == UNION {{Pcpu[vm][k] : k \in DOMAIN Pcpu[vm]} : vm \in VMs}
Guests == {0} \cup {vm + 1 : vm \in VMs}
Files == [hart : Harts \cup {0}, guest : Guests]
Unset == [file |-> [hart |-> 0, guest |-> 0], eiid |-> 0]

Init ==
    /\ aplic = [msi |-> FALSE, on |-> FALSE, active |-> {}, enabled |-> Irqs,
                pending |-> {}, target |-> [i \in Irqs |-> Unset]]
    /\ vaplic = [vm \in VMs |-> [active |-> {}, target |-> [i \in Irqs |-> Unset]]]
    /\ files = [f \in Files |-> {}]
    /\ ready = FALSE
    /\ raised = [i \in Irqs |-> 0]
    /\ asked = [vm \in VMs |-> {}]

\* a write of identity 0 to an interrupt file has no effect
imsic_trigger(t) ==
    files' = IF t.eiid = 0 THEN files ELSE [files EXCEPT ![t.file] = @ \cup {t.eiid}]

Runs(vm) == vm = 0 \/ ready

\* clrie: VM 0 alone, one bit each
ClearEnables ==
    /\ ~ready /\ aplic.enabled # {}
    /\ aplic' = [aplic EXCEPT !.enabled = {}]
    /\ UNCHANGED <<vaplic, files, ready, raised, asked>>

\* domaincfg: VM 0 alone; the virtual register is never read
SetDomain ==
    /\ ~ready /\ aplic.enabled = {}
    /\ aplic' = [aplic EXCEPT !.msi = TRUE, !.on = TRUE]
    /\ ready' = TRUE
    /\ UNCHANGED <<vaplic, files, raised, asked>>

\* mutant: the hart that the guest names is taken for a physical one
TargetAsNamed(vm, k, e) ==
    [file |-> [hart |-> k, guest |-> vm + 1], eiid |-> e]

\* the vCPU becomes its hart, the guest index the VM's interrupt file
TargetOf(vm, k, e) ==
    [file |-> [hart |-> Pcpu[vm][k], guest |-> vm + 1], eiid |-> e]

set_target_msi(i, t) ==
    /\ aplic' = [aplic EXCEPT !.target[i] = t]
    /\ vaplic' = [vaplic EXCEPT ![i.vm].target[i] = t]

\* before the domain is in MSI mode only VM 0 sets a target, a direct one
WriteTarget(i, k, e) ==
    /\ Runs(i.vm) /\ k \in DOMAIN Pcpu[i.vm]
    /\ \A j \in Irqs \ {i} : j.vm = i.vm => vaplic[i.vm].target[j].eiid # e
    /\ IF aplic.msi THEN set_target_msi(i, TargetOf(i.vm, k, e))
       ELSE IF i.vm = 0
       THEN set_target_msi(i, [file |-> [hart |-> Pcpu[0][k], guest |-> 0], eiid |-> 0])
       ELSE UNCHANGED <<aplic, vaplic>>
    /\ asked' = [asked EXCEPT ![i.vm] =
                   @ \cup {[file |-> [hart |-> Pcpu[i.vm][k], guest |-> i.vm + 1], eiid |-> e]}]
    /\ UNCHANGED <<files, ready, raised>>

WriteSource(i, active) ==
    /\ Runs(i.vm)
    /\ active # (i \in aplic.active)
    /\ LET put(S) == IF active THEN S \cup {i} ELSE S \ {i}
       IN /\ aplic' = [aplic EXCEPT !.active = put(@)]
          /\ vaplic' = [vaplic EXCEPT ![i.vm].active = put(@)]
    /\ UNCHANGED <<files, ready, raised, asked>>

\* setienum and clrienum, by the number alone
WriteEnableNum(i, on) ==
    /\ Runs(i.vm) /\ on # (i \in aplic.enabled)
    /\ aplic' = [aplic EXCEPT !.enabled = IF on THEN @ \cup {i} ELSE @ \ {i}]
    /\ UNCHANGED <<vaplic, files, ready, raised, asked>>

\* the guest's end of interrupt sets a level-sensitive one pending again
setipnum_le(i) ==
    /\ Runs(i.vm) /\ i \in aplic.active /\ raised[i] < MaxRaise
    /\ aplic' = [aplic EXCEPT !.pending = @ \cup {i}]
    /\ raised' = [raised EXCEPT ![i] = @ + 1]
    /\ UNCHANGED <<vaplic, files, ready, asked>>

Raise(i) ==
    /\ i.phys /\ i \in aplic.active /\ raised[i] < MaxRaise
    /\ aplic' = [aplic EXCEPT !.pending = @ \cup {i}]
    /\ raised' = [raised EXCEPT ![i] = @ + 1]
    /\ UNCHANGED <<vaplic, files, ready, asked>>

SendMsi(i) ==
    /\ aplic.on /\ aplic.msi /\ i \in aplic.pending \cap aplic.active \cap aplic.enabled
    /\ aplic' = [aplic EXCEPT !.pending = @ \ {i}]
    /\ imsic_trigger(aplic.target[i])
    /\ UNCHANGED <<vaplic, ready, raised, asked>>

\* inject_intr asks neither for the enable bit nor for the source mode
inject_intr(i) ==
    /\ ~i.phys /\ Runs(i.vm) /\ raised[i] < MaxRaise
    /\ imsic_trigger(vaplic[i.vm].target[i])
    /\ raised' = [raised EXCEPT ![i] = @ + 1]
    /\ UNCHANGED <<aplic, vaplic, ready, asked>>

\* the guest on the hart takes an identity of its file
Take(f, e) ==
    /\ e \in files[f]
    /\ files' = [files EXCEPT ![f] = @ \ {e}]
    /\ UNCHANGED <<aplic, vaplic, ready, raised, asked>>

Next ==
    \/ ClearEnables \/ SetDomain
    \/ \E i \in Irqs :
          \/ \E k \in 0 .. 1, e \in Eiids : WriteTarget(i, k, e)
          \/ \E b \in BOOLEAN : WriteSource(i, b) \/ WriteEnableNum(i, b)
          \/ setipnum_le(i) \/ Raise(i) \/ SendMsi(i) \/ inject_intr(i)
    \/ \E f \in Files, e \in Eiids : Take(f, e)

Spec == Init /\ [][Next]_vars

-----------------------------------------------------------------------------
(* Whatever is pending in a guest's interrupt file, that VM asked for at a    *)
(* vCPU on that hart, and the hypervisor's devices and the APLIC send an      *)
(* interrupt to the same place once the domain is set up.                     *)
MsisOwn ==
    /\ \A vm \in VMs, h \in Harts, e \in Eiids :
          LET f == [hart |-> h, guest |-> vm + 1]
          IN e \in files[f] => [file |-> f, eiid |-> e] \in asked[vm]
    /\ \A f \in Files : f.guest = 0 => files[f] = {}
    /\ \A i \in Irqs : vaplic[i.vm].target[i] = aplic.target[i]
=============================================================================

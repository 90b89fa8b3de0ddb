---------------------------- MODULE MCCoreSched ----------------------------
(***************************************************************************)
(* A core with up to three VMs, in three setups, one to a behaviour:       *)
(*   "guests"  requests of the management VM come from another core, at    *)
(*             any moment (the parameters of the configuration);           *)
(*   "home"    the management VM runs on this core, next to two others;    *)
(*   "pair"    two VMs only, and a request is sent when the core has       *)
(*             drained the one before: no message overtakes another.       *)
(***************************************************************************)
EXTENDS CoreSched

CONSTANTS Manager,    \* the VM that manages the others in setup "home"
          Spare       \* the VM left out in setup "pair"

ASSUME SetupAssumption == Mvm = NoVM /\ Manager \in Main

VARIABLE setup

Home == INSTANCE CoreSched WITH Mvm <- Manager
Pair == INSTANCE CoreSched WITH Paced <- TRUE, MaxMsgs <- 1, Main <- {Manager}

MCInit ==
    \/ setup \in {"guests", "pair"} /\ Init
    \/ setup = "home" /\ Home!Init

MCNext ==
    /\ UNCHANGED setup
    /\ \/ setup = "guests" /\ Next
       \/ setup = "home" /\ Home!Next
       \/ /\ setup = "pair" /\ Pair!Next
          /\ \A request \in asked' : request[2] # Spare

MCSpec ==
    /\ MCInit /\ [][MCNext]_<<vars, setup>>
    /\ WF_vars(setup = "pair" /\ (Pair!TakeIpi \/ Pair!Drain \/ Pair!DrainEnd))
    /\ SF_vars(setup = "pair" /\ Pair!TimerIrq)

(* The queue of a core, the states of its vCPUs, its tick and the frame it    *)
(* returns through agree, a vCPU's saved context is its own, and an interrupt *)
(* is parked only for a vCPU that is off the core: whatever messages,         *)
(* suspensions and switches come in between (schedule_to, do_schedule, sleep, *)
(* wakeup, context_vm_restore).                                               *)
CoreConsistent == TypeOK /\ SchedConsistent /\ FrameMatches /\ ParkedOffCore

(* With messages handled in the order they were sent the core never panics,   *)
(* each finding the vCPU it is for and no vCPU of a destroyed VM being         *)
(* scheduled; and no message is left without an interrupt that announces it,   *)
(* although some handlers do not return (ipi_irq_handler, interrupt_vm_inject, *)
(* Vcpu::context_vm_restore).                                                  *)
OrderedNoPanic == setup = "pair" => NoPanic /\ MessagesNotified

(* Two VMs on a core: whichever is runnable gets the core, whenever the other *)
(* suspends, is woken, booted or removed (SchedulerRR::next and sleep).       *)
PairReadyRuns ==
    \A v \in VMs : (setup = "pair" /\ core.vst[v] = "Ready") ~> core.vst[v] # "Ready"
=============================================================================

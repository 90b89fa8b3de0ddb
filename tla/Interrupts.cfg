SPECIFICATION Spec
CONSTANTS
    Cores = {0, 1}
    Ids = {0, 27, 32, 33, 34, 40}
    HwIds = {27, 40}
    NumLrs = 2
    Prios = {1, 2}
    Cfgs = {0, 1}
    Vms <- AllVms
    MaxMsgs = 1
    MaxList = 3
    MaxEoi = 1
    Vcpus <- MCVcpus
    Started <- MCStarted
    Timed <- MCStarted
    Stoppable <- MCStoppable
    Irqs <- MCIrqs
    Masked <- MCMasked
    MaxRaise = 2
    MaxMask = 1
    AiaVMs = {0, 1}
    AiaPcpu <- MCAiaPcpu
    AiaIrqs <- MCAiaIrqs
    Eiids = {1}
    MaxMsi = 1
INVARIANTS
    
    NothingForgotten
    
    SignalKept
    
    
\* Devices raise a bounded number of interrupts
CHECK_DEADLOCK FALSE

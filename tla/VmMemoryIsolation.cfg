SPECIFICATION StructSpec
CONSTANTS
    v1 = v1
    v2 = v2
    v3 = v3
    Guests <- ThreeVMs
    Platform <- MCPlatform
    Requests <- MCRequests
    i1 = i1
    Irqs = {i1}
    MaxVm = 3
    MaxCore = 2
    Reserved = {}
    Blocks = 1
    CpuChoices <- MCCpus
    MaxReboots = 1
    MaxMail = 2
    MaxKey = 1
    Questions = {"regions"}
INVARIANT Isolation
\* Running out of memory panics, and a stopped hypervisor takes no step
CHECK_DEADLOCK FALSE

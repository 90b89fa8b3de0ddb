SPECIFICATION MCSpec
CONSTANTS
    a = a
    b = b
    c = c
    NoVM = NoVM
    VMs = {a, b, c}
    Main = {a, b}
    Mvm = NoVM
    Removing = TRUE
    Paced = FALSE
    MaxMsgs = 2
    Manager = a
    Spare = c
  
PROPERTY PairReadyRuns
\* With every VM removed, or after a panic, the core has nothing left to do
CHECK_DEADLOCK FALSE

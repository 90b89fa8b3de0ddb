SPECIFICATION MCSpec
CONSTANTS
    NTasks = 3
    WordBits = 2
    Policy = "Masked"
    Racy = FALSE
    Systick = TRUE
    MaxSleep = 1
    NPreempted = 2
INVARIANTS WakesReachTasks AwakeWhileDue
PROPERTY TasksServed

CONSTANTS
    Owners = {v1, v2}
    MaxTasks = 2
    WithRemove = TRUE
SPECIFICATION Spec
INVARIANT OthersStayQueued
CHECK_DEADLOCK FALSE

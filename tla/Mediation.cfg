SPECIFICATION Spec
CONSTANTS
    NVms = 2
    MaxReqs = 2
    Outstanding = 2
    Limit = 1024
    NOwners = 3
    MaxTasks = 2
    c0 = c0
    c1 = c1
    c2 = c2
    Cores = {c0, c1, c2}
    WithRemoval = FALSE
INVARIANTS BoundedBypass   NoFalseCompletion
PROPERTY RequestServed
\* The guests have a bounded number of requests
CHECK_DEADLOCK FALSE

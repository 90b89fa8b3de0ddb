SPECIFICATION FairSpec
CONSTANTS
    v1 = v1
    Values = {v1}
    N = 3
    Preempt = "pusher"
PROPERTY PopperNotStranded

SPECIFICATION MCSpec
CONSTANTS
    v1 = v1
    v2 = v2
    Values = {v1, v2}
    N = 3
    Preempt = "both"
 
PROPERTIES  NoTaskStranded

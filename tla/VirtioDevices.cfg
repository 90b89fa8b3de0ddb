SPECIFICATION Spec
CONSTANTS
    Remote = Remote
    Near = Near
    N = 2
    W = 4
    MaxFrames = 4
    NoBuf = NoBuf
    Queues = {0, 1}
    Areas = {desc, avail, used}
    Bits = {b}
    HighFirst = FALSE
    MaxSegments = 3
    MaxLen = 3
INVARIANTS  RingsAsWritten CopyExact
PROPERTIES InOrder FrameSeen
\* A sender has a bounded number of frames, and a copy ends
CHECK_DEADLOCK FALSE

SPECIFICATION FairSpec
CONSTANTS
    Packets = {p1, p2}
    Streams = {s}
    MaxCalls = 2
    MaxRunning = 1
    MaxAtWork = 3
PROPERTIES
    CallsHaveALife
    EveryCallLeaves
CHECK_DEADLOCK FALSE

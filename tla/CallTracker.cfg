SPECIFICATION Spec
CONSTANTS
    Packets = {p1, p2, p3}
    Streams = {s}
    MaxCalls = 3
    MaxRunning = 2
    MaxAtWork = 2
SYMMETRY PacketSymmetry
INVARIANTS
    TypeOK
    NoForgottenCall
    TimerlessIsInHand
    CallsPerStream
PROPERTIES
    CallsCloseOnce
CHECK_DEADLOCK FALSE

SPECIFICATION Spec
CONSTANTS
    Frames = 2
    Faults = {"lose", "reorder", "duplicate", "crash"}
    MaxRunning = 2
INVARIANTS
    TypeOK
    RepeatsInOrder
    EndIsCalled
PROPERTIES
    EveryFrameRepeated
CHECK_DEADLOCK FALSE

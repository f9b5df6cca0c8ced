SPECIFICATION StreamSpec
CONSTANTS
    Modulus = 256
    MaxFrames = 23
    Superframes = 3
    MaxBurst = 1
    MaxStrays = 3
INVARIANTS
    DivisorNeverZero
    TotalNeverWraps
    NeverOvercharged
    TotalIsHeardAndLost
CHECK_DEADLOCK FALSE

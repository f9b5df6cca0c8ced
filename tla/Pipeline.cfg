SPECIFICATION FairSpec
CONSTANTS
    Addrs = {a1, a2}
    Repeaters = {r1, r2}
    Size = 2
    Capacity = 2
    MaxDatagrams = 2
    MaxSends = 1
INVARIANTS
    NothingOlder
    HandledOnce
    SentToASession
PROPERTIES
    EverythingSettles
CHECK_DEADLOCK FALSE

SPECIFICATION Spec
CONSTANTS
    Talkgroups = {t1}
    Known = {t1}
    Start <- Edits
    Choices <- Edits
    MaxOverlaps = 2
    MaxOps = 2
    MaxSubs = 6
INVARIANTS
    RegisteredIsLive
    CopyWants
    PanicNeedsOverlap
CHECK_DEADLOCK FALSE

SPECIFICATION Spec
CONSTANTS
    Talkgroups = {t1, t2, t3}
    Known = {t1, t2}
    Start <- Edits
    Choices <- Edits
    MaxOverlaps = 0
    MaxOps = 3
    MaxSubs = 8
INVARIANTS
    LinkedIsHeard
CHECK_DEADLOCK FALSE

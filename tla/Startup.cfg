SPECIFICATION FairSpec
CONSTANTS
    BuiltIn <- TwoBuiltIn
    Downloads <- SomeDownloads
    NoID = 0
    Requests = {q1}
    MaxUpdates = 1
    MaxDeaths = 1
INVARIANTS
    TypeOK
    TableComplete
    ServesSeeded
PROPERTIES
    SeedsOnce
    ComesUp
CHECK_DEADLOCK FALSE

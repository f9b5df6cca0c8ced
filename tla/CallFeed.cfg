SPECIFICATION FairSpec
CONSTANTS
    u1 = u1
    u2 = u2
    r1 = r1
    r2 = r2
    Users = {u1, u2}
    Repeaters = {r1, r2}
    OwnerOf <- BothOfU1
    Calls <- SomeCalls
    Links <- SomeLinks
    Conns = {c1}
    MaxUpdates = 1
    MaxRelinks = 1
INVARIANTS
    TypeOK
    OnlyConcerned
    OncePerFollower
    AtMostOneStuck
PROPERTIES
    HandlersReturn
    EndIsTold
CHECK_DEADLOCK FALSE

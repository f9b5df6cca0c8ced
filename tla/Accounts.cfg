SPECIFICATION Spec
CONSTANTS
    m1 = m1
    m2 = m2
    Members = {m1, m2}
    p1 = p1
    p2 = p2
    Procs = {p1, p2}
    MaxRequests = 5
SYMMETRY Symmetry
INVARIANTS
    RightsAreGranted
    AuthorityIsGranted
    AdminsAreApproved
    SystemUsersKept
CHECK_DEADLOCK FALSE

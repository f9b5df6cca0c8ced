SPECIFICATION Spec
CONSTANTS
    a1 = a1
    a2 = a2
    ip1 = ip1
    ip2 = ip2
    Addrs = {a1, a2}
    IpOf <- OneIp
    Configured = {a1}
    Patient = FALSE
    MaxLogins = 2
    MaxInFlight = 2
    MaxLosses = 0
    MaxExpiries = 1
    MaxEdits = 2
INVARIANTS
    SessionsAreProven
CHECK_DEADLOCK FALSE

SPECIFICATION FairSpec
CONSTANTS
    a1 = a1
    a2 = a2
    ip1 = ip1
    ip2 = ip2
    Addrs = {a1}
    IpOf <- OneIp
    Configured = {a1}
    Patient = TRUE
    MaxLogins = 7
    MaxInFlight = 2
    MaxLosses = 3
    MaxExpiries = 2
    MaxEdits = 1
PROPERTIES
    LoginCompletes
CHECK_DEADLOCK FALSE

SPECIFICATION Spec
CONSTANTS
    c1 = c1
    c2 = c2
    acc1 = acc1
    acc2 = acc2
    ClientIPs <- MCClientIPs
    AccountOf <- MCAccountOf
    DigestOf <- MCDigestOf
    Suspect = c1
    ControllerIP = ctl
    GatewayIP = gw
    TcpPort = 6002
    RpcPort = 6003
    AppPort = 6004
    Digests = {0, 1}
    Randoms = {0}
    InitMark = 1
    NoPort = 0
    MaxRules = 1
    NoClient = NoClient
    MaxVouchers = 2
    MaxTickets = 2
    MaxStops = 0
PROPERTIES
    CutOffConcernsOnlyOne
CHECK_DEADLOCK FALSE

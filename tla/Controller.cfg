SPECIFICATION Spec
CONSTANTS
    IPs = {c1, c2, gw}
    GatewayIP = gw
    Registrars = {gw, c1}
    TcpPort = 6002
    Ports = {6002}
    InitMark = 1
    NoPort = 0
    CmdOutcomes = {TRUE}
    MaxRules = 3
    Users = {u}
    Strangers = {s}
    Apps = {6004, 6005}
    Digests = {0, 1}
    MaxVouchers = 2
    MaxRestarts = 1
INVARIANTS
    TypeOK
    GatewayAlwaysHeard
    OpenMeansApps
    UsersMayUseApps
PROPERTIES
    KnockDecides

SPECIFICATION DigestSpec
CONSTANTS
    IPs = {c1, gw}
    GatewayIP = gw
    Registrars = {gw}
    TcpPort = 6002
    Ports = {6002}
    InitMark = 1
    NoPort = 0
    CmdOutcomes = {TRUE}
    MaxRules = 3
    Users = {u}
    Strangers = {s}
    Apps = {6004}
    Digests = {0, 1}
    MaxVouchers = 2
    MaxRestarts = 0
PROPERTY NewVoucherPasses

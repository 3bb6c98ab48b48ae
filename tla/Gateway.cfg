SPECIFICATION Spec
CONSTANTS
    ControllerIP = ctl
    ApplicationIP = app
    IPs = {c1, c2, ctl, app}
    Knockers = {c1, c2, app}
    RpcPort = 6003
    AppPort = 6004
    Ports = {6003, 6004}
    InitMark = 1
    NoPort = 0
    CmdOutcomes = {TRUE}
    MaxRules = 2
    Randoms = {r1}
    ValidSeconds = 1
    Word = 4
    MaxSkew = 1
    MaxTime = 3
    MaxTickets = 2
    MaxRestarts = 1
INVARIANTS
    TypeOK
    BlackListFirst
    Synchronised
    RpcPortOnlyHosts
PROPERTIES
    ReopenNeedsFreshTicket
    AdmissionWindow
    ImplementsAccessPolicy

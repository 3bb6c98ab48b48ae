SPECIFICATION Spec
CONSTANTS
    IPs = {a, b}
    Ports = {6003, 6004}
    InitMark = 1
    NoPort = 0
    CmdOutcomes = {TRUE, FALSE}
    MaxRules = 4
    MaxChain = 4
INVARIANTS
    TypeOK
    FirstMatchCounts
PROPERTIES
    RefinesFirewall

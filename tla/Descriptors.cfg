SPECIFICATION Spec
CONSTANTS
    Process = "application"
    Fds = {2, 7, 8, 9}
    Inherited = {2}
    NoFd = 0
    MaxSockets = 6
INVARIANTS
    TypeOK
    ConnectorOwnsFd
    NullOnlyAtStrangers
    OnlyCallsLeak
PROPERTIES
    AlertStaysHome
CHECK_DEADLOCK FALSE

SPECIFICATION Spec
CONSTANTS
    Process = "controller"
    Fds = {2, 7, 8, 9}
    Inherited = {2}
    NoFd = 0
    MaxSockets = 6
PROPERTIES
    AlertStaysHome
CHECK_DEADLOCK FALSE

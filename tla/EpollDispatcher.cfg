SPECIFICATION Spec
CONSTANTS
    Callers = {application, scanner}
    Looping = {scanner}
    Fds = {6, 7, 8, 9}
    udp_fd_ = 5
    listen_fd_ = 4
    NoCaller = none
    MAXEVENTS = 2
    MaxQueue = 2
    MaxFails = 1
INVARIANTS
    TypeOK
    EventsFresh
    FullBufferIsReported
    NotAllStuck
    FdmapIsLive
PROPERTY CallsReturn
CHECK_DEADLOCK FALSE

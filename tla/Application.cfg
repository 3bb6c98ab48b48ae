SPECIFICATION Spec
CONSTANTS
    IPs = {a, b}
    ACCESS_TIMES_LIMIT_ONE_MIN = 2
    ACCESS_TOO_LAST_LIMIT = 1
    MinuteLen = 3
    IntMax = 100
    NoIP = none
    MaxTime = 4
    MaxVisits = 3
    MaxInbox = 2
    MaxRestarts = 1
INVARIANTS
    TypeOK
    LimitPerMinute
PROPERTIES
    RefusedForTheMinute
    LateOnlyOnce
CHECK_DEADLOCK FALSE

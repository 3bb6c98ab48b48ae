SPECIFICATION Spec
CONSTANTS
    Bytes = {0, 1}
    limit_size = 2
    MaxLen = 5
    MaxBlocks = 2
INVARIANTS
    TypeOK
    RoundTrip
    WellMadeNeverThrows
    SignatureBinds
CHECK_DEADLOCK FALSE

CONSTANTS
    Conns = {c1}
    c1 = c1
    NoConn = NoConn
    MaxSegs = 1
    SndBuf = 1
    WriteLen = 2
    MaxWrites = 1
    ProxyFails = TRUE
SPECIFICATION StackFairSpec
INVARIANTS
    CloseReleasesAccepted
PROPERTIES
    CloseReturns
CHECK_DEADLOCK FALSE

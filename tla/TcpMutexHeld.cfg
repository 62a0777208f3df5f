CONSTANTS
    Conns = {c1}
    c1 = c1
    NoConn = NoConn
    MaxSegs = 2
    SndBuf = 1
    WriteLen = 2
    MaxWrites = 1
    ProxyFails = TRUE
SPECIFICATION FairOpenSpec
PROPERTIES
    LwipMutexReleased
CHECK_DEADLOCK FALSE

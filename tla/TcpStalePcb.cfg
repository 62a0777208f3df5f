CONSTANTS
    Conns = {c1}
    c1 = c1
    NoConn = NoConn
    MaxSegs = 1
    SndBuf = 1
    WriteLen = 2
    MaxWrites = 1
    ProxyFails = FALSE
SPECIFICATION Spec
INVARIANTS
    NoStalePcb
CHECK_DEADLOCK FALSE

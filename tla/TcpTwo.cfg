CONSTANTS
    Conns = {c1, c2}
    c1 = c1
    c2 = c2
    NoConn = NoConn
    MaxSegs = 1
    SndBuf = 1
    WriteLen = 2
    MaxWrites = 0
    ProxyFails = FALSE
SPECIFICATION Spec
PROPERTIES
    LwipSingleThread
SYMMETRY Symmetry
CHECK_DEADLOCK FALSE

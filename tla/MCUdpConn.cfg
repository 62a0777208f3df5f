SPECIFICATION FairSpec
CONSTANTS
    Srcs = {s1}
    Sessions = {u1, u2}
    NoSession = NoSession
    Rx = Rx
    Stack = Stack
    s1 = s1
    u1 = u1
    u2 = u2
    MaxPkts = 2
    PendingCap = 1
    IdleTicks = 2
    ProxyFails = TRUE
INVARIANTS ForwardedOnce SocketOfSession
PROPERTIES EarlyPacketsLeave
CHECK_DEADLOCK FALSE

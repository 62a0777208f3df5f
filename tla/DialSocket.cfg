CONSTANTS
    Dialers = {d1, d2}
    d1 = d1
    d2 = d2
    NoDialer = NoDialer
    MaxFd = 4
SPECIFICATION DialSpec
INVARIANT ConnKeepsSocket
CHECK_DEADLOCK FALSE

SPECIFICATION TasksFairSpec
CONSTANTS
    NProc = 4
    Busy = {0}
    HD = 2
    SYS = 1
    TestA = 3
    Clients = {3}
    NilPid = 99
    NULL = NULL
    GET_TICKS = 2
    DEV_OPEN = 3
    Types = {2, 3}
    HARD_INT = 1
    Spurious = FALSE
    Sends <- TaskSends
    Receives <- TaskReceives
PROPERTIES CallsReturn

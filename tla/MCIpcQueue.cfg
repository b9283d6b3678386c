SPECIFICATION Spec
CONSTANTS
    NProc = 5
    Busy = {0}
    HD = 2
    NilPid = 99
    NULL = NULL
    Types = {2}
    HARD_INT = 1
    Spurious = TRUE
    Sends <- QueueSends
    Receives <- QueueReceives
INVARIANTS QueueInv
PROPERTIES ImplementsRendezvous

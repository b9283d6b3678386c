SPECIFICATION FairSpec
CONSTANTS
    NProc = 4
    Busy = {0}
    HD = 2
    NilPid = 99
    NULL = NULL
    Types = {2}
    HARD_INT = 1
    Spurious = FALSE
    Sends <- AnySends
    Receives <- AnyReceives
INVARIANTS NoSendCycle NoMissedRendezvous AssertionsHold IrqNotLost
PROPERTIES SendMeansDelivered ImplementsRendezvous CallsEnd

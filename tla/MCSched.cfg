SPECIFICATION FairSpec
CONSTANTS
    NProc = 4
    TTY = 0
    HD = 1
    Busy = {0, 3}
    Priority = 2
    NrConsole = 2
    MinTicks = 0
INVARIANTS ReadyRuns OutputFollowsUser
PROPERTIES NoEarlyRefill ScheduleEnds NoStarvation

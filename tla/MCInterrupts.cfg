SPECIFICATION Spec
CONSTANTS
    Procs = {0, 4}
    NR_SYS_TASKS_PROC = 3
    CLOCK = 0
    CASCADE = 2
    EarlyLines = {0, 1}
    LateLines = {2, 14}
    SysCalls = {"send_rec", "print", "assert"}
    Leftover <- MCLeftover
INVARIANTS NestingBounded NoLineLost ContextKept ResultIsMine CallerServed FrameSafe
PROPERTIES SwitchAtBottom

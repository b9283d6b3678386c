SPECIFICATION WritersSpec
CONSTANTS
    SCREEN_WIDTH = 2
    SCREEN_SIZE = 4
    V_MEM_SIZE = 40
    NR_CONSOLE = 2
    UINT = 64
    Overlap = FALSE
INVARIANTS ConsolesApart StoresInside
PROPERTIES TypingKeepsVisible ImplementsConsole

CONSTANTS
    BytsPerSec = 4
    RootDirSectors = 2
    EntriesPerSector = 2
    FATSz = 3
    SecPerTrk = 5
    Clusters <- MCClusters
    MaxSectors = 4
    Segment = 12
    Word = 64
    PageSize = 2
    PtesPerTable = 4
    Ranges <- MCRanges
    MaxRanges = 3
    Room = 2
    Kernels <- MCKernels
    GDT_SIZE = 16
    NR_SYS_TASKS_PROC = 3
    stacksize <- MCstacksize
    STACK_SIZE_TOTAL <- MCTotal
    TssAddress <- MCTss
    ProcTable <- MCProcTable
    TaskStack = 1000
    Codes = {7}
SPECIFICATION MCSpec
INVARIANTS FileLoaded NoFileIfAbsent MemoryMapped RunawayExplained KernelInPlace ReportIsTrue ProcessesApart
PROPERTIES LoadEnds

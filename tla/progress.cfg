SPECIFICATION FairSpec
CONSTANTS
    NPAGES = 29
    NPAGETABLEENTRIES = 15
    MEMSIZE_VIRTUAL = 17
    NPROC = 4
    KERNEL = {1, 2, 3, 4, 5, 6}
    RESERVED = {0, 7}
    CONSOLE = 7
    KPT = 1
    KTEXT = 6
    TEMPPT = 8
    PROC_START = 12
    NALLOC = 1
    Segments <- MCSegments
    Image <- MCImage
    Commands = {"fork"}
    Syscalls = {"INT_SYS_FORK", "INT_SYS_GETPID"}
    AllocVAs = {}
    RemapVAs = {}
    TouchVAs = {14, 16}
    TouchIndexes = {0}
    UserWords <- MCUserWords
    UserRax = {100}
    MaxReboots = 1
PROPERTIES
    KernelReturns
    RunnableRuns

SPECIFICATION Spec
CONSTANTS
    NPAGES = 26
    NPAGETABLEENTRIES = 14
    MEMSIZE_VIRTUAL = 16
    NPROC = 3
    KERNEL = {1, 2, 3, 4, 5, 6}
    RESERVED = {0, 7}
    CONSOLE = 7
    KPT = 1
    KTEXT = 6
    TEMPPT = 8
    PROC_START = 12
    NALLOC = 1
    Segments <- MCSegments
    Image <- MCImage
    Commands = {"fork"}
    Syscalls = {"INT_SYS_YIELD", "INT_SYS_FORK", "INT_SYS_GETPID", "INT_SYS_PAGE_ALLOC"}
    AllocVAs = {13, 14}
    RemapVAs = {}
    TouchVAs = {13, 15}
    TouchIndexes = {0}
    UserWords <- MCUserWords
    UserRax = {100}
    MaxReboots = 0
INVARIANTS
    TypeOK
    RefcountsExact
    NoPanic
    DumpsRight
PROPERTIES
    ImplementsAddressSpaces

SPECIFICATION Spec
CONSTANTS
    NPAGES = 25
    NPAGETABLEENTRIES = 24
    MEMSIZE_VIRTUAL = 26
    NPROC = 4
    KERNEL = {1, 2, 3, 4, 5, 6}
    RESERVED = {0, 7}
    CONSOLE = 7
    KPT = 1
    KTEXT = 6
    TEMPPT = 8
    PROC_START = 20
    NALLOC = 2
    Segments <- MCSegments
    Image <- MCImage
    Commands = {"allocator", "fork"}
    Syscalls = {"INT_SYS_YIELD", "INT_SYS_PAGE_ALLOC"}
    AllocVAs = {22, 24}
    RemapVAs = {}
    TouchVAs = {22}
    TouchIndexes = {0}
    UserWords <- MCUserWords
    UserRax = {100}
    MaxReboots = 1
INVARIANTS
    RefcountsExact
    UserPagesOwned
    NoPanic
PROPERTIES
    ImplementsAddressSpaces

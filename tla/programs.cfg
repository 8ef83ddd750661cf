SPECIFICATION FairSpec
CONSTANTS
    NPROC = 5
    HeapPages = 2
    MemoryFor <- MCMemoryFor
INVARIANTS
    AllocsUnmapped
    HeapShape
PROPERTIES
    StoresOwnPid
    ThreeNewCopies
    AllocatorsFinish
CHECK_DEADLOCK FALSE

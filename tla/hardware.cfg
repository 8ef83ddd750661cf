SPECIFICATION HardwareSpec
CONSTANTS
    Lines = {0, 1, 14}
    MaxReboots = 2
    UserInts = {0, 13, 32, 33, 47, 48, 49, 52, 53, 63, 64}
    Keys <- MCKeys
    QueueSize = 2
    MaxDown = 3
    TRIES = 2
    Length = 4
    BUSES = 2
    SLOTS = 2
    FUNCS = 4
    MaxFunctions = 3
    NPROC = 6
    TicksModulus = 32
    Commands = {1, 4}
    LogRoom = 6
    ClockHZ = 6
    TICK_LIMIT = 18
    PAGESIZE = 4
    SECTORSIZE = 2
    BYTE = 2
    MaxText = 5
    MaxData = 5
INVARIANTS
    InterruptsAsSetUp
    KernelNotInterrupted
    NothingStuck
    LogComplete
    OneDumpPerSecond
    KernelLoaded
    ProgramLoaded
PROPERTIES
    TicksGoOn
    ReadsAsTyped
    QuitObeyed
    
    ShownWhileAnimated
    EndsWell
CHECK_DEADLOCK FALSE

SPECIFICATION LibrarySpec
CONSTANTS
    CONSOLE_ROWS = 3
    CONSOLE_COLUMNS = 2
    AppRows = 2
    Processes = {p1, p2}
    Kernel = kernel
    Positions = {0, 4, 9}
    IntBits = 8
    LongBits = 12
    PanicSize = 8
    PanicPrefix = 3
    Inputs <- MCInputs
    MEMORY = 4
    BYTE = 4
    WIDTH = 5
INVARIANTS
    NothingBeyondConsole
    CursorposSettles
    
    BufferBounded
    RoutinesCorrect
    
CHECK_DEADLOCK FALSE

SPECIFICATION AllSpec
CONSTANTS
    Inums = {1, 2}
    Procs = {p1, p2}
    Files = {1, 2, 3}
    ip <- OpenedOn
    BSIZE = 2
    NDIRECT = 2
    nmeta = 3
    nblocks = 8
    MAXOPBLOCKS = 6
    Counts = {1, 7}
    MaxCalls = 4
    MaxImage = 3
    None = None
CHECK_DEADLOCK FALSE
INVARIANTS
    BlocksNeeded
    FilesKept
    WritesAddUp
    PagesOwnedOnce
    OwnMemory
    UnitsOwnedOnce
    FilesCounted
    ConnectedAsTyped

SPECIFICATION FairSpec
CONSTANTS
    Blocks = {b1, b2}
    NoBlock = NoBlock
    Vals = {0, 1}
    Zero = 0
    Procs = {p1, p2}
    MAXOPBLOCKS = 3
    LOGSIZE = 6
    NLOG = 6
    OpBlocks = 2
INVARIANT
    LogSound
PROPERTIES
    ImplementsAtomicDisk
    SleeperWoken

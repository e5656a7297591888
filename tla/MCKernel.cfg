SPECIFICATION AllSpec
CONSTANTS
    NPROC = 4
    CPUs = {c1, c2}
    NoCPU = NoCPU
    Chans = {}
    MINTICKETS = 2
    Requests = {}
    KillPids = {3}
    IntMax = 31
    TicksMod = 1
    MaxPid = 4
SYMMETRY Symmetry
INVARIANTS
    OneCPUEach
    NoOrphans
    NoMissedExit
    EmbryoOwned
    LocksSafe
    ReaderHasReason
    SleepersHaveReason
    LogFits
PROPERTIES
    ZombieReapedByParent
    SleepsItsTime
    ImplementsTty
    ImplementsQueue

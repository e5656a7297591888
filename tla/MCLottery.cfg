SPECIFICATION Spec
CONSTANTS
    NPROC = 3
    CPUs = {c1, c2}
    NoCPU = NoCPU
    Chans = {disk}
    MINTICKETS = 2
    Requests <- AskedTickets
    KillPids = {}
    IntMax = 31
    TicksMod = 2
    MaxPid = 3
SYMMETRY Symmetry
INVARIANTS
    IdleOnlyWhenNoneReady
    FairShare

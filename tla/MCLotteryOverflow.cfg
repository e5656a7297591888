SPECIFICATION Spec
CONSTANTS
    NPROC = 3
    CPUs = {c1, c2}
    NoCPU = NoCPU
    Chans = {}
    MINTICKETS = 2
    Requests = {7}
    KillPids = {}
    IntMax = 7
    TicksMod = 1
    MaxPid = 3
SYMMETRY Symmetry
INVARIANTS
    IdleOnlyWhenNoneReady

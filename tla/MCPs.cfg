SPECIFICATION Spec
CONSTANTS
    NPROC = 3
    CPUs = {c1}
    NoCPU = NoCPU
    Chans = {}
    MINTICKETS = 2
    Requests = {}
    KillPids = {}
    IntMax = 31
    TicksMod = 1
    MaxPid = 4
INVARIANTS
    PsShowsCaller

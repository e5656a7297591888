CONSTANTS
    Procs = {p1, p2}
    Alive = {p1, p2}
    NINODES = 3
    NINODE = 3
    NFILE = 2
    Names = {".", "..", "a", "d", "x"}
    Programs <- NamePrograms
    p1 = p1
    p2 = p2
    None = None
SPECIFICATION Spec
CHECK_DEADLOCK FALSE
INVARIANT NoDeadlock

SPECIFICATION AllSpec
CONSTANTS
    Procs = {p1, p2, p3}
    None = None
INVARIANTS
    SleeperHasWaker
PROPERTIES
    ImplementsMutex
    SleeperWoken
    HangUp
    OrphansReaped
    KilledWaiterExits
    PromptReturns

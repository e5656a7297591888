-------------------------------- MODULE Mutex --------------------------------
(***************************************************************************)
(* What a lock promises: at most one process has it.                       *)
(***************************************************************************)
CONSTANTS Procs, None

VARIABLE holder

Init == holder = None

Acquire(p) == holder = None /\ holder' = p
Release(p) == holder = p /\ holder' = None

Next == \E p \in Procs : Acquire(p) \/ Release(p)

Spec == Init /\ [][Next]_holder
=============================================================================

----------------------------- MODULE AtomicDisk -----------------------------
(***************************************************************************)
(* What log.c promises to the file system above it: the blocks on disk     *)
(* change only all at once, and only between system calls.                 *)
(***************************************************************************)
CONSTANTS
    Blocks,     \* home blocks of the file system
    Vals,       \* what a block can contain
    Procs       \* processes that make file system calls

VARIABLES
    durable,    \* the blocks that a reboot brings back
    current,    \* the blocks as system calls see them
    active      \* processes between begin_op and end_op

vars == <<durable, current, active>>

Init ==
    /\ durable \in [Blocks -> Vals]
    /\ current = durable
    /\ active = {}

Begin(p) ==
    /\ p \notin active
    /\ active' = active \cup {p}
    /\ UNCHANGED <<durable, current>>

Write(p, b, v) ==
    /\ p \in active
    /\ current' = [current EXCEPT ![b] = v]
    /\ UNCHANGED <<durable, active>>

End(p) ==
    /\ p \in active
    /\ active' = active \ {p}
    /\ UNCHANGED <<durable, current>>

\* Every call that ended becomes durable, no call is cut in two.
Commit ==
    /\ active = {}
    /\ durable' = current
    /\ UNCHANGED <<current, active>>

Crash ==
    /\ current' = durable
    /\ active' = {}
    /\ UNCHANGED durable

Next ==
    \/ \E p \in Procs : Begin(p) \/ End(p)
    \/ \E p \in Procs, b \in Blocks, v \in Vals : Write(p, b, v)
    \/ Commit
    \/ Crash

Spec == Init /\ [][Next]_vars
=============================================================================

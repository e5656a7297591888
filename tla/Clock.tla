-------------------------------- MODULE Clock --------------------------------
(***************************************************************************)
(* The tick count (trap.c) and sys_sleep (sysproc.c).                      *)
(*                                                                         *)
(* ticks counts modulo UINT, and sys_sleep compares unsigned numbers: a    *)
(* negative argument is one of UINT \div 2 and more.                       *)
(*                                                                         *)
(* A definition named X_Y is X with the fault Y put in; it is used only to *)
(* see that the properties notice.                                         *)
(***************************************************************************)
EXTENDS Integers

CONSTANTS
    Procs,
    None,
    UINT        \* number of values of a uint (2^32)

VARIABLES
    ticks,
    lock,       \* the process that holds tickslock
    pc,         \* of each process: idle, check, late (about to sleep), asleep
    ticks0, n,  \* of its sys_sleep
    killed,
    elapsed     \* history: the interrupts since the call began, up to UINT

vars == <<ticks, lock, pc, ticks0, n, killed, elapsed>>

Init ==
    /\ ticks = 0
    /\ lock = None
    /\ pc = [p \in Procs |-> "idle"]
    /\ ticks0 = [p \in Procs |-> 0] /\ n = ticks0 /\ elapsed = ticks0
    /\ killed = [p \in Procs |-> FALSE]

\* acquire(&tickslock)
Free == lock = None

\* The timer interrupt of CPU 0.
Tick ==
    /\ Free
    /\ ticks' = (ticks + 1) % UINT
    /\ pc' = [p \in Procs |-> IF pc[p] = "asleep" THEN "check" ELSE pc[p]]
    /\ elapsed' = [p \in Procs |-> IF pc[p] = "idle" \/ elapsed[p] = UINT THEN elapsed[p]
                                   ELSE elapsed[p] + 1]
    /\ UNCHANGED <<lock, ticks0, n, killed>>

sys_sleep(p, k) ==
    /\ pc[p] = "idle" /\ Free
    /\ pc' = [pc EXCEPT ![p] = "check"]
    /\ ticks0' = [ticks0 EXCEPT ![p] = ticks]
    /\ n' = [n EXCEPT ![p] = k]
    /\ elapsed' = [elapsed EXCEPT ![p] = 0]
    /\ lock' = p
    /\ UNCHANGED <<ticks, killed>>

Early_Sum(p) == ticks < (ticks0[p] + n[p]) % UINT

\* ticks - ticks0 < n
Early(p) == (ticks - ticks0[p]) % UINT < n[p]

\* The test of the loop, and that of killed, with tickslock from the start of the call or
\* from sleep; a process that goes on to sleep keeps the lock.
Check(p) ==
    /\ pc[p] = "check" /\ lock \in {None, p}
    /\ \/ /\ ~ Early(p) \/ killed[p]
          /\ pc' = [pc EXCEPT ![p] = "idle"]
          /\ ticks0' = [ticks0 EXCEPT ![p] = 0] /\ n' = [n EXCEPT ![p] = 0]
          /\ elapsed' = [elapsed EXCEPT ![p] = 0]
          /\ lock' = None
       \/ /\ Early(p) /\ ~ killed[p]
          /\ pc' = [pc EXCEPT ![p] = "late"]
          /\ lock' = p
          /\ UNCHANGED <<ticks0, n, elapsed>>
    /\ UNCHANGED <<ticks, killed>>

Sleep(p) ==
    /\ pc[p] = "late"
    /\ pc' = [pc EXCEPT ![p] = "asleep"]
    /\ lock' = None
    /\ UNCHANGED <<ticks, ticks0, n, killed, elapsed>>

Kill(p) ==
    /\ ~ killed[p] /\ pc[p] # "idle"
    /\ killed' = [killed EXCEPT ![p] = TRUE]
    /\ pc' = [pc EXCEPT ![p] = IF @ = "asleep" THEN "check" ELSE @]
    /\ UNCHANGED <<ticks, lock, ticks0, n, elapsed>>

\* trap ends a killed process; another one may sleep.
Exit(p) ==
    /\ killed[p] /\ pc[p] = "idle"
    /\ killed' = [killed EXCEPT ![p] = FALSE]
    /\ UNCHANGED <<ticks, lock, pc, ticks0, n, elapsed>>

Next ==
    \/ Tick
    \/ \E p \in Procs, k \in 0..(UINT - 1) : sys_sleep(p, k)
    \/ \E p \in Procs : Check(p) \/ Sleep(p) \/ Kill(p) \/ Exit(p)

Spec == Init /\ [][Next]_vars

-----------------------------------------------------------------------------
\* sys_sleep never returns early to a process that is not killed, whatever the tick count
\* is when it begins: also when that wraps around in between.
NeverEarly ==
    [][\A p \in Procs : pc[p] = "check" /\ pc'[p] = "idle" /\ ~ killed[p]
                            => elapsed[p] >= n[p]]_vars

\* A process is asleep only while its time is not over: no tick comes between the test
\* and the sleep.
AsleepInTime == \A p \in Procs : pc[p] = "asleep" => elapsed[p] % UINT < n[p]
=============================================================================

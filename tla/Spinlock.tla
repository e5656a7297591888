------------------------------ MODULE Spinlock ------------------------------
(***************************************************************************)
(* Spin locks and the interrupt flag (spinlock.c), as the threads of the   *)
(* kernel use them: the scheduler of each CPU, processes in system calls   *)
(* and in sched (proc.c), and the timer interrupt (trap.c).                *)
(*                                                                         *)
(* A thread is the sequence of the operations that it still has to do;     *)
(* nothing to do is user mode, or the top of the scheduler's loop.  An     *)
(* interrupt puts its operations in front.  Who is RUNNABLE is left to     *)
(* module Proc: a thread that no CPU is on may be run.                     *)
(*                                                                         *)
(* Panics are not steps: NoPanic says that they are not reached.           *)
(* A definition named X_Y is X with the fault Y put in; it is used only to *)
(* see that the properties notice.                                         *)
(***************************************************************************)
EXTENDS Integers, Sequences, FiniteSets

CONSTANTS
    NCPU,
    Procs,      \* threads of processes
    NoCPU

AllCPUs == 1..NCPU
Locks == {"ptable", "ticks"}
Scheduler(c) == c
Threads == Procs \cup AllCPUs

VARIABLES
    locked, cpu,        \* struct spinlock
    eflags,             \* of each CPU: are interrupts enabled?
    ncli, intena,       \* struct cpu
    on,                 \* the thread that each CPU executes
    todo,               \* of each thread
    saved               \* intena in sched, of each process

vars == <<locked, cpu, eflags, ncli, intena, on, todo, saved>>

-----------------------------------------------------------------------------
(***************************************************************************)
(* The code that threads execute                                           *)
(***************************************************************************)
Op(name) == <<name, "">>

acquire_LateCli(l) == <<<<"xchg", l>>, <<"setcpu", l>>, Op("pushcli")>>
acquire(l) == <<Op("pushcli"), <<"xchg", l>>, <<"setcpu", l>>>>

release(l) == <<<<"clearcpu", l>>, <<"unlock", l>>, Op("popcli")>>

sched == <<Op("swtch"), Op("restore")>>

yield == acquire("ptable") \o sched \o release("ptable")
wakeup == acquire("ptable") \o release("ptable")

\* sleep(&ticks, &tickslock), with tickslock held.
sleep == acquire("ptable") \o release("ticks") \o sched \o release("ptable") \o acquire("ticks")

\* sys_sleep that sleeps once, and sys_uptime.
SystemCalls == {acquire("ticks") \o sleep \o release("ticks"),
                acquire("ticks") \o release("ticks")}

\* The first CPU counts ticks; a process gives up its CPU.
timer(c) ==
    (IF c = 1 THEN acquire("ticks") \o wakeup \o release("ticks") ELSE <<>>)
        \o (IF on[c] \in Procs THEN yield ELSE <<>>)
        \o <<Op("iret")>>

scheduler == <<Op("sti")>> \o acquire("ptable") \o <<Op("run")>> \o release("ptable")
forkret == release("ptable")

Init ==
    /\ locked = [l \in Locks |-> FALSE] /\ cpu = [l \in Locks |-> NoCPU]
    /\ eflags = [c \in AllCPUs |-> FALSE]
    /\ ncli = [c \in AllCPUs |-> 0] /\ intena = [c \in AllCPUs |-> FALSE]
    /\ on = [c \in AllCPUs |-> Scheduler(c)]
    /\ todo = [t \in Threads |-> IF t \in Procs THEN forkret ELSE <<>>]
    /\ saved = [p \in Procs |-> FALSE]

-----------------------------------------------------------------------------
AtOp(c, name) == todo[on[c]] # <<>> /\ Head(todo[on[c]])[1] = name
LockOf(c) == Head(todo[on[c]])[2]
Goes(c) == todo' = [todo EXCEPT ![on[c]] = Tail(@)]

\* Is this the outermost pushcli?
Saves(c) == ncli[c] = 0

pushcli(c) ==
    /\ AtOp(c, "pushcli") /\ Goes(c)
    /\ eflags' = [eflags EXCEPT ![c] = FALSE]
    /\ intena' = IF Saves(c) THEN [intena EXCEPT ![c] = eflags[c]] ELSE intena
    /\ ncli' = [ncli EXCEPT ![c] = @ + 1]
    /\ UNCHANGED <<locked, cpu, on, saved>>

popcli(c) ==
    /\ AtOp(c, "popcli") /\ Goes(c)
    /\ ncli' = [ncli EXCEPT ![c] = @ - 1]
    /\ eflags' = IF ncli[c] = 1 /\ intena[c] THEN [eflags EXCEPT ![c] = TRUE] ELSE eflags
    /\ UNCHANGED <<locked, cpu, intena, on, saved>>

\* xchg returns 0 when the lock is free; otherwise the CPU spins.
xchg(c) ==
    /\ AtOp(c, "xchg") /\ ~ locked[LockOf(c)]
    /\ Goes(c)
    /\ locked' = [locked EXCEPT ![LockOf(c)] = TRUE]
    /\ UNCHANGED <<cpu, eflags, ncli, intena, on, saved>>

SetCpu(c) ==
    /\ \/ AtOp(c, "setcpu") /\ cpu' = [cpu EXCEPT ![LockOf(c)] = c]
       \/ AtOp(c, "clearcpu") /\ cpu' = [cpu EXCEPT ![LockOf(c)] = NoCPU]
    /\ Goes(c)
    /\ UNCHANGED <<locked, eflags, ncli, intena, on, saved>>

Unlock(c) ==
    /\ AtOp(c, "unlock") /\ Goes(c)
    /\ locked' = [locked EXCEPT ![LockOf(c)] = FALSE]
    /\ UNCHANGED <<cpu, eflags, ncli, intena, on, saved>>

\* sched: intena belongs to the thread; the CPU goes on in its scheduler.
Swtch(c) ==
    /\ AtOp(c, "swtch") /\ Goes(c)
    /\ saved' = [saved EXCEPT ![on[c]] = intena[c]]
    /\ on' = [on EXCEPT ![c] = Scheduler(c)]
    /\ UNCHANGED <<locked, cpu, eflags, ncli, intena>>

Restore(c) ==
    /\ AtOp(c, "restore") /\ Goes(c)
    /\ intena' = [intena EXCEPT ![c] = saved[on[c]]]
    /\ UNCHANGED <<locked, cpu, eflags, ncli, on, saved>>

\* The scheduler finds a thread to run, or none.
Run(c) ==
    /\ AtOp(c, "run") /\ Goes(c)
    /\ on' \in {on} \cup {[on EXCEPT ![c] = p] : p \in {q \in Procs : \A d \in AllCPUs : on[d] # q}}
    /\ UNCHANGED <<locked, cpu, eflags, ncli, intena, saved>>

\* sti of the scheduler; iret of the timer interrupt.
Enable(c) ==
    /\ AtOp(c, "sti") \/ AtOp(c, "iret")
    /\ Goes(c)
    /\ eflags' = [eflags EXCEPT ![c] = TRUE]
    /\ UNCHANGED <<locked, cpu, ncli, intena, on, saved>>

\* The next system call, or the next round of the scheduler.
Starts(c) ==
    /\ todo[on[c]] = <<>>
    /\ \E ops \in IF on[c] \in Procs THEN SystemCalls ELSE {scheduler} :
            todo' = [todo EXCEPT ![on[c]] = ops]
    /\ UNCHANGED <<locked, cpu, eflags, ncli, intena, on, saved>>

Interrupt(c) ==
    /\ eflags[c]
    /\ eflags' = [eflags EXCEPT ![c] = FALSE]
    /\ todo' = [todo EXCEPT ![on[c]] = timer(c) \o @]
    /\ UNCHANGED <<locked, cpu, ncli, intena, on, saved>>

Next ==
    \E c \in AllCPUs :
        \/ pushcli(c) \/ popcli(c) \/ xchg(c) \/ SetCpu(c) \/ Unlock(c)
        \/ Swtch(c) \/ Restore(c) \/ Run(c) \/ Enable(c)
        \/ Starts(c) \/ Interrupt(c)

Spec == Init /\ [][Next]_vars

-----------------------------------------------------------------------------
(***************************************************************************)
(* Properties                                                              *)
(***************************************************************************)
holding(c, l) == locked[l] /\ cpu[l] = c

\* CPU c is between xchg and the store that unlocks.
Holds(c, l) ==
    \E k \in DOMAIN todo[on[c]] :
        /\ todo[on[c]][k] = <<"unlock", l>>
        /\ \A j \in 1..(k - 1) : todo[on[c]][j] # <<"xchg", l>>

\* A lock that one CPU has locked stays with it, also when it goes from one thread to
\* another in sched and in the scheduler; and a CPU that has a lock is not interrupted.
OneHolder ==
    \A l \in Locks, c \in AllCPUs :
        Holds(c, l) => /\ locked[l] /\ ~ eflags[c]
                       /\ \A d \in AllCPUs \ {c} : ~ Holds(d, l)

\* The panics of acquire, release, popcli and sched are not reached: holding tells the
\* truth to the CPU that asks, whatever the others do to the lock at the same time, no
\* interrupt handler spins for a lock of the code that it interrupted, and a process
\* enters the scheduler with ptable.lock and no other lock.
NoPanic ==
    \A c \in AllCPUs :
        /\ AtOp(c, "xchg") => ~ holding(c, LockOf(c))
        /\ AtOp(c, "clearcpu") => holding(c, LockOf(c))
        /\ AtOp(c, "popcli") => ~ eflags[c] /\ ncli[c] > 0
        /\ AtOp(c, "swtch") => holding(c, "ptable") /\ ncli[c] = 1 /\ ~ eflags[c]

Count(t, name) == Cardinality({k \in DOMAIN todo[t] : todo[t][k][1] = name})

\* pushcli and popcli are matched on each CPU, although a process may go through the one
\* on one CPU and through the other on another.
Matched == \A c \in AllCPUs : ncli[c] = Count(on[c], "popcli") - Count(on[c], "pushcli")

\* A process without locks has interrupts enabled, unless it is in an interrupt handler,
\* whatever ran on its CPU while it was switched out: intena is saved and restored.
IntenaKept ==
    \A c \in AllCPUs : on[c] \in Procs /\ ncli[c] = 0 =>
        (eflags[c] <=> Count(on[c], "iret") = 0)
=============================================================================

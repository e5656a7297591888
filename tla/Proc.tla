-------------------------------- MODULE Proc --------------------------------
(***************************************************************************)
(* The process table, its lock and the lottery scheduler (proc.c), with    *)
(* the part of trap.c that kills and preempts processes.                   *)
(*                                                                         *)
(* A stretch of code between acquire(&ptable.lock) and the matching        *)
(* release is one step, unless control changes hands in it: swtch passes   *)
(* the lock from the process to the scheduler of its CPU and back, and     *)
(* each side of a swtch is a step of its own.  What the code does to the   *)
(* table WITHOUT the lock (the error paths of allocproc and fork, and what *)
(* fork stores in the new slot before it publishes it) is a step that does *)
(* not wait for the lock.                                                  *)
(*                                                                         *)
(* A definition named X_Y is X with the fault Y put in; it is used only to *)
(* see that the properties notice.                                         *)
(***************************************************************************)
EXTENDS Integers, FiniteSets

CONSTANTS
    NPROC,      \* slots of the process table
    CPUs,       \* the processors
    NoCPU,      \* "nobody", as a holder of ptable.lock
    Chans,      \* sleep channels other than processes (&ticks, a buffer...)
    MINTICKETS, \* the least number of tickets sys_settickets accepts (10)
    Requests,   \* the arguments that programs pass to settickets
    KillPids,   \* the arguments that programs pass to kill
    IntMax,     \* the largest int
    TicksMod,   \* number of values of p->ticks (2^32; counted from 0)
    MaxPid      \* bound: pids handed out in a behaviour

Slots == 1..NPROC
NoSlot == 0
INITPROC == 1

ASSUME ProcAssumption ==
    /\ NPROC \in Nat \ {0}
    /\ NoCPU \notin CPUs
    /\ Chans \cap (0..NPROC) = {}
    /\ MINTICKETS \in Nat \ {0}
    /\ IntMax \in Nat /\ MINTICKETS <= IntMax
    /\ Requests \subseteq (-IntMax - 1)..IntMax
    /\ KillPids \subseteq Nat
    /\ TicksMod \in Nat \ {0}
    /\ MaxPid \in Nat

VARIABLES
    state,      \* p->state
    pid,        \* p->pid; 0 before the first use and after a reap
    parent,     \* p->parent
    chan,       \* p->chan
    killed,     \* p->killed
    tickets,    \* p->tickets
    ticks,      \* p->ticks: how many times the process was given a CPU
    nextpid,
    cpu,        \* c->proc of each CPU
    lock,       \* the CPU that holds ptable.lock
    pc,         \* where the kernel thread of each process is
    np          \* the local variable np of fork

vars == <<state, pid, parent, chan, killed, tickets, ticks, nextpid, cpu, lock, pc,
          np>>

\* Groups for UNCHANGED: what only fork, wait and exit touch, and the lottery.
family == <<pid, parent, nextpid, np>>
lottery == <<tickets, ticks>>

States == {"UNUSED", "EMBRYO", "SLEEPING", "RUNNABLE", "RUNNING", "ZOMBIE"}

(***************************************************************************)
(* forkret: published by fork, never ran.  user: outside the kernel, or    *)
(* about to leave or enter it.  fork: in fork, after allocproc took a      *)
(* slot.  publish: in fork, the slot filled in.  exit: in exit, closing    *)
(* files, or about to call it.  wait: in the sleep of wait.  sleep: in     *)
(* another sleep.  kernel: back from such a sleep, in the loop that called *)
(* it.  gone: in the sched of exit, or no thread at all.  panic: in panic, *)
(* which spins with interrupts off.                                        *)
(***************************************************************************)
PCs == {"forkret", "user", "fork", "publish", "exit", "wait", "sleep", "kernel",
        "gone", "panic"}

Init ==
    /\ state = [p \in Slots |-> IF p = INITPROC THEN "RUNNABLE" ELSE "UNUSED"]
    /\ pid = [p \in Slots |-> IF p = INITPROC THEN 1 ELSE 0]
    /\ parent = [p \in Slots |-> NoSlot]
    /\ chan = [p \in Slots |-> NoSlot]
    /\ killed = [p \in Slots |-> FALSE]
    /\ tickets = [p \in Slots |-> IF p = INITPROC THEN MINTICKETS ELSE 0]
    /\ ticks = [p \in Slots |-> 0]
    /\ nextpid = 2
    /\ cpu = [c \in CPUs |-> NoSlot]
    /\ lock = NoCPU
    /\ pc = [p \in Slots |-> IF p = INITPROC THEN "forkret" ELSE "gone"]
    /\ np = [p \in Slots |-> NoSlot]

-----------------------------------------------------------------------------
(***************************************************************************)
(* The lottery.  An int sum wraps around: the build has no -O, and the     *)
(* instruction it compiles to is a 32-bit add.                             *)
(***************************************************************************)
WrapInt(n) == ((n + IntMax + 1) % (2 * (IntMax + 1))) - (IntMax + 1)

Ready_Running(p) == state[p] \in {"RUNNABLE", "RUNNING"}

\* Who takes part in the draw.
Ready(p) == state[p] = "RUNNABLE"

\* Partial sums of the tickets of RUNNABLE processes, in table order.
RunningTotal ==
    LET sum[p \in 0..NPROC] ==
            IF p = 0 THEN 0
            ELSE IF Ready(p) THEN WrapInt(sum[p - 1] + tickets[p])
            ELSE sum[p - 1]
    IN  sum

total_tickets == RunningTotal[NPROC]

Passed_OffByOne(q, winner_ticket) == Ready(q) /\ RunningTotal[q] >= winner_ticket

\* The second loop: the first RUNNABLE process whose partial sum passes the
\* winning ticket.
Passed(q, winner_ticket) == Ready(q) /\ RunningTotal[q] > winner_ticket

Wins(p, winner_ticket) ==
    /\ Passed(p, winner_ticket)
    /\ \A q \in 1..(p - 1) : ~ Passed(q, winner_ticket)

\* scheduler: draw a ticket and swtch to its owner, which now has the lock.
Dispatch(c, p) ==
    /\ cpu[c] = NoSlot
    /\ lock = NoCPU
    /\ total_tickets > 0
    /\ \E winner_ticket \in 0..(total_tickets - 1) : Wins(p, winner_ticket)
    /\ cpu' = [cpu EXCEPT ![c] = p]
    /\ state' = [state EXCEPT ![p] = "RUNNING"]
    /\ lock' = c
    /\ UNCHANGED <<chan, killed, pc, family, lottery>>

\* scheduler, after swtch: forget the process, account for its turn, release.
SchedReturn(c) ==
    /\ cpu[c] # NoSlot
    /\ lock = c
    /\ state[cpu[c]] # "RUNNING"
    /\ cpu' = [cpu EXCEPT ![c] = NoSlot]
    /\ ticks' = [ticks EXCEPT ![cpu[c]] = (@ + 1) % TicksMod]
    /\ lock' = NoCPU
    /\ UNCHANGED <<state, chan, killed, tickets, pc, family>>

-----------------------------------------------------------------------------
\* p runs on c; its thread was just switched to and still has the lock.
SwitchedTo(c, p) == cpu[c] = p /\ p # NoSlot /\ state[p] = "RUNNING" /\ lock = c

\* p runs on c and its thread is past the release that follows a swtch.
Runs(c, p) == cpu[c] = p /\ p # NoSlot /\ state[p] = "RUNNING" /\ lock # c

\* p enters a system call: trap lets it only when it is not killed.
InUser(c, p) == Runs(c, p) /\ pc[p] = "user" /\ ~ killed[p]

\* forkret and the end of yield.
Resume(c, p) ==
    /\ SwitchedTo(c, p)
    /\ pc[p] \notin {"wait", "sleep"}
    /\ lock' = NoCPU
    /\ pc' = [pc EXCEPT ![p] = IF @ = "forkret" THEN "user" ELSE @]
    /\ UNCHANGED <<state, chan, killed, cpu, family, lottery>>

\* A clock interrupt.  A killed process in user space exits instead.
Yield(c, p) ==
    /\ Runs(c, p)
    /\ pc[p] = "user" => ~ killed[p]
    /\ pc[p] # "panic"
    /\ lock = NoCPU
    /\ state' = [state EXCEPT ![p] = "RUNNABLE"]
    /\ lock' = c
    /\ UNCHANGED <<chan, killed, cpu, pc, family, lottery>>

-----------------------------------------------------------------------------

\* nextpid++
PidAfter(n) == n + 1

Free_Embryo(q) == state[q] \in {"UNUSED", "EMBRYO"}

Free(q) == state[q] = "UNUSED"

\* Where a process goes on when fork returns -1: init's program calls exit.
Failed(p) == IF p = INITPROC THEN "exit" ELSE "user"

\* fork calls allocproc, which takes the first UNUSED slot.
AllocProc(c, p) ==
    /\ InUser(c, p)
    /\ lock = NoCPU
    /\ nextpid <= MaxPid
    /\ \E q \in Slots :
        /\ Free(q)
        /\ \A r \in 1..(q - 1) : ~ Free(r)
        /\ state' = [state EXCEPT ![q] = "EMBRYO"]
        /\ pid' = [pid EXCEPT ![q] = nextpid]
        /\ np' = [np EXCEPT ![p] = q]
    /\ nextpid' = PidAfter(nextpid)
    /\ pc' = [pc EXCEPT ![p] = "fork"]
    /\ UNCHANGED <<parent, chan, killed, cpu, lock, lottery>>

\* allocproc finds the table full.
AllocNone(c, p) ==
    /\ InUser(c, p)
    /\ lock = NoCPU
    /\ \A q \in Slots : ~ Free(q)
    /\ pc' = [pc EXCEPT ![p] = Failed(p)]
    /\ UNCHANGED <<state, chan, killed, cpu, lock, family, lottery>>

\* No page for the stack, or copyuvm failed: the slot is given back, without
\* the lock, and keeps its pid.
ForkFail(c, p) ==
    /\ Runs(c, p)
    /\ pc[p] = "fork"
    /\ state' = [state EXCEPT ![np[p]] = "UNUSED"]
    /\ np' = [np EXCEPT ![p] = NoSlot]
    /\ pc' = [pc EXCEPT ![p] = Failed(p)]
    /\ UNCHANGED <<pid, parent, chan, killed, nextpid, cpu, lock, lottery>>

ChildTickets(p) == IF MINTICKETS >= tickets[p] THEN MINTICKETS ELSE tickets[p]

ChildTicks(q) == [ticks EXCEPT ![q] = 0]

\* fork fills in the child, without the lock.
ForkFill(c, p) ==
    /\ Runs(c, p)
    /\ pc[p] = "fork"
    /\ ticks' = ChildTicks(np[p])
    /\ tickets' = [tickets EXCEPT ![np[p]] = ChildTickets(p)]
    /\ parent' = [parent EXCEPT ![np[p]] = p]
    /\ pc' = [pc EXCEPT ![p] = "publish"]
    /\ UNCHANGED <<state, pid, chan, killed, nextpid, cpu, lock, np>>

ForkPublish(c, p) ==
    /\ Runs(c, p)
    /\ pc[p] = "publish"
    /\ lock = NoCPU
    /\ state' = [state EXCEPT ![np[p]] = "RUNNABLE"]
    /\ pc' = [pc EXCEPT ![p] = "user", ![np[p]] = "forkret"]
    /\ np' = [np EXCEPT ![p] = NoSlot]
    /\ UNCHANGED <<pid, parent, chan, killed, nextpid, cpu, lock, lottery>>

-----------------------------------------------------------------------------
\* wakeup1: the state of the table once every sleeper on a channel of S is
\* RUNNABLE.
Wakeup1(S) ==
    [q \in Slots |-> IF state[q] = "SLEEPING" /\ chan[q] \in S
                     THEN "RUNNABLE" ELSE state[q]]

Kids(p) == {q \in Slots : parent[q] = p}

\* exit is called: by the program, by trap for a killed process, or by trap
\* after a fault, which sets killed first.  init's program does not fault and
\* calls exit only when fork fails.
ExitBegin(c, p) ==
    /\ Runs(c, p)
    /\ pc[p] = "user"
    /\ p = INITPROC => killed[p]
    /\ pc' = [pc EXCEPT ![p] = "exit"]
    /\ \/ UNCHANGED killed
       \/ killed' = [killed EXCEPT ![p] = TRUE]
    /\ UNCHANGED <<state, chan, cpu, lock, family, lottery>>

\* The check at the top of exit: panic("init exiting").
ExitPanic(c, p) ==
    /\ Runs(c, p)
    /\ pc[p] = "exit"
    /\ p = INITPROC
    /\ pc' = [pc EXCEPT ![p] = "panic"]
    /\ UNCHANGED <<state, chan, killed, cpu, lock, family, lottery>>

ExitWakes_ParentOnly(p) == {parent[p]}

ExitWakes_InitOnly(p) ==
    {INITPROC : q \in {r \in Kids(p) : state[r] = "ZOMBIE"}}

\* Whom exit wakes: the parent, and init if it inherits a ZOMBIE.
ExitWakes(p) ==
    {parent[p]} \cup {INITPROC : q \in {r \in Kids(p) : state[r] = "ZOMBIE"}}

Reparent_Not(p) == parent

\* The parents once p has passed its children to init.
Reparent(p) == [q \in Slots |-> IF parent[q] = p THEN INITPROC ELSE parent[q]]

\* exit under the lock, up to the swtch to the scheduler.
ExitFinish(c, p) ==
    /\ Runs(c, p)
    /\ pc[p] = "exit"
    /\ p # INITPROC
    /\ lock = NoCPU
    /\ state' = [Wakeup1(ExitWakes(p)) EXCEPT ![p] = "ZOMBIE"]
    /\ parent' = Reparent(p)
    /\ pc' = [pc EXCEPT ![p] = "gone"]
    /\ lock' = c
    /\ UNCHANGED <<pid, chan, killed, nextpid, cpu, np, lottery>>

-----------------------------------------------------------------------------
\* sleep: p is off the CPU until somebody makes it RUNNABLE.
SleepOn(c, p, ch) ==
    /\ chan' = [chan EXCEPT ![p] = ch]
    /\ state' = [state EXCEPT ![p] = "SLEEPING"]
    /\ lock' = c

Found_Any(p, q) == state[q] = "ZOMBIE"

Found(p, q) == q \in Kids(p) /\ state[q] = "ZOMBIE"

\* One pass of the loop of wait, with the lock held.  old is the table's chan
\* column on entry, after sleep has tidied up.
Reap(p, q, old) ==
    /\ Found(p, q)
    /\ \A r \in 1..(q - 1) : ~ Found(p, r)
    /\ state' = [state EXCEPT ![q] = "UNUSED"]
    /\ pid' = [pid EXCEPT ![q] = 0]
    /\ parent' = [parent EXCEPT ![q] = NoSlot]
    /\ killed' = [killed EXCEPT ![q] = FALSE]
    /\ chan' = old
    /\ lock' = NoCPU
    /\ pc' = [pc EXCEPT ![p] = "user"]

WaitPass(c, p, old) ==
    /\ \/ \E q \in Slots : Reap(p, q, old)
       \/ /\ \A q \in Slots : ~ Found(p, q)
          /\ Kids(p) = {} \/ killed[p]
          /\ chan' = old
          /\ lock' = NoCPU
          /\ pc' = [pc EXCEPT ![p] = "user"]
          /\ UNCHANGED <<state, pid, parent, killed>>
       \/ /\ \A q \in Slots : ~ Found(p, q)
          /\ Kids(p) # {} /\ ~ killed[p]
          /\ SleepOn(c, p, p)
          /\ pc' = [pc EXCEPT ![p] = "wait"]
          /\ UNCHANGED <<pid, parent, killed>>
    /\ UNCHANGED <<nextpid, cpu, np, lottery>>

Wait(c, p) ==
    /\ InUser(c, p)
    /\ lock = NoCPU
    /\ WaitPass(c, p, chan)

WaitResume(c, p) ==
    /\ SwitchedTo(c, p)
    /\ pc[p] = "wait"
    /\ WaitPass(c, p, [chan EXCEPT ![p] = NoSlot])

-----------------------------------------------------------------------------
\* Any other caller of sleep: a system call finds its condition false and
\* sleeps on ch.  (exit may sleep too while it closes files; that only delays
\* ExitFinish.)
Sleep(c, p, ch) ==
    /\ Runs(c, p)
    /\ \/ pc[p] = "user" /\ ~ killed[p]
       \/ pc[p] = "kernel"
    /\ lock = NoCPU
    /\ SleepOn(c, p, ch)
    /\ pc' = [pc EXCEPT ![p] = "sleep"]
    /\ UNCHANGED <<killed, cpu, family, lottery>>

\* The end of sleep: back in the loop of the caller, which looks again.
SleepResume(c, p) ==
    /\ SwitchedTo(c, p)
    /\ pc[p] = "sleep"
    /\ chan' = [chan EXCEPT ![p] = NoSlot]
    /\ pc' = [pc EXCEPT ![p] = "kernel"]
    /\ lock' = NoCPU
    /\ UNCHANGED <<state, killed, cpu, family, lottery>>

\* The caller finds its condition true, or gives up: the call returns.
KernelReturn(c, p) ==
    /\ Runs(c, p)
    /\ pc[p] = "kernel"
    /\ pc' = [pc EXCEPT ![p] = "user"]
    /\ UNCHANGED <<state, chan, killed, cpu, lock, family, lottery>>

\* wakeup, from an interrupt handler or a system call on some CPU.
Wakeup(ch) ==
    /\ lock = NoCPU
    /\ state' = Wakeup1({ch})
    /\ UNCHANGED <<chan, killed, cpu, lock, pc, family, lottery>>

KilledState_Asleep(st) == st

KilledState(st) == IF st = "SLEEPING" THEN "RUNNABLE" ELSE st

\* kill: the first slot with that pid, whatever its state.
Kill(c, p, target) ==
    /\ InUser(c, p)
    /\ lock = NoCPU
    /\ \E q \in Slots :
        /\ pid[q] = target
        /\ \A r \in 1..(q - 1) : pid[r] # target
        /\ killed' = [killed EXCEPT ![q] = TRUE]
        /\ state' = [state EXCEPT ![q] = KilledState(@)]
    /\ UNCHANGED <<chan, cpu, lock, pc, family, lottery>>

Accepted_Any(n) == TRUE

\* sys_settickets refuses a number below 10.
Accepted(n) == n >= MINTICKETS

SetTickets(c, p, n) ==
    /\ InUser(c, p)
    /\ Accepted(n)
    /\ lock = NoCPU
    /\ tickets' = [tickets EXCEPT ![p] = n]
    /\ UNCHANGED <<state, chan, killed, ticks, cpu, lock, pc, family>>

-----------------------------------------------------------------------------
Step(c, p) ==
    \/ Dispatch(c, p)
    \/ Resume(c, p)
    \/ Yield(c, p)
    \/ AllocProc(c, p)
    \/ AllocNone(c, p)
    \/ ForkFail(c, p)
    \/ ForkFill(c, p)
    \/ ForkPublish(c, p)
    \/ ExitBegin(c, p)
    \/ ExitPanic(c, p)
    \/ ExitFinish(c, p)
    \/ Wait(c, p)
    \/ WaitResume(c, p)
    \/ \E ch \in Chans : Sleep(c, p, ch)
    \/ SleepResume(c, p)
    \/ KernelReturn(c, p)
    \/ \E target \in KillPids : Kill(c, p, target)
    \/ \E n \in Requests : SetTickets(c, p, n)

panicked == pc[INITPROC] = "panic"

\* The other CPUs freeze when they next print something (consputc).
Frozen == panicked /\ UNCHANGED vars

Next ==
    \/ \E c \in CPUs, p \in Slots : Step(c, p)
    \/ \E c \in CPUs : SchedReturn(c)
    \/ \E ch \in Chans : Wakeup(ch)
    \/ Frozen

Spec == Init /\ [][Next]_vars
-----------------------------------------------------------------------------
\* The type of every field of the process table, the CPUs and the lock.
TypeOK ==
    /\ state \in [Slots -> States]
    /\ pid \in [Slots -> Nat]
    /\ parent \in [Slots -> Slots \cup {NoSlot}]
    /\ chan \in [Slots -> Slots \cup {NoSlot} \cup Chans]
    /\ killed \in [Slots -> BOOLEAN]
    /\ tickets \in [Slots -> 0..IntMax]
    /\ ticks \in [Slots -> 0..(TicksMod - 1)]
    /\ nextpid \in Nat
    /\ cpu \in [CPUs -> Slots \cup {NoSlot}]
    /\ lock \in CPUs \cup {NoCPU}
    /\ pc \in [Slots -> PCs]
    /\ np \in [Slots -> Slots \cup {NoSlot}]

\* Slots that hold a process with a kernel thread and a parent.
Live(p) == state[p] \in {"SLEEPING", "RUNNABLE", "RUNNING", "ZOMBIE"}

\* No process is on two CPUs, a RUNNING process is on one, and a CPU keeps
\* c->proc pointing at a process that is not RUNNING only while it holds the
\* lock, between the swtch in sched and the end of the turn in scheduler: so
\* nobody reaps, wakes or dispatches a process whose stack is still in use.
OneCPUEach ==
    /\ \A c, d \in CPUs : cpu[c] = cpu[d] /\ cpu[c] # NoSlot => c = d
    /\ \A p \in Slots : state[p] = "RUNNING" => \E c \in CPUs : cpu[c] = p
    /\ \A c \in CPUs :
        cpu[c] # NoSlot => \/ state[cpu[c]] = "RUNNING"
                           \/ lock = c /\ Live(cpu[c])

\* Every process but init has a parent that can still reap it, and a slot
\* without a process is nobody's child but that of the fork that fills it in:
\* exit passes its children on before it becomes a ZOMBIE, wait frees no parent
\* and counts no slot that is not a child.
NoOrphans ==
    \A p \in Slots :
        IF Live(p) /\ p # INITPROC
        THEN /\ parent[p] \notin {NoSlot, p}
             /\ state[parent[p]] \in {"SLEEPING", "RUNNABLE", "RUNNING"}
        ELSE \/ parent[p] = NoSlot
             \/ state[p] = "EMBRYO" /\ np[parent[p]] = p /\ pc[parent[p]] = "publish"

\* A process asleep in wait has something to wait for and nothing to do: a
\* child, no ZOMBIE child, no pending kill.  The wakeup of exit, the one for
\* the ZOMBIEs that init inherits and the one of kill are never lost.
NoMissedExit ==
    \A p \in Slots :
        state[p] = "SLEEPING" /\ pc[p] = "wait" =>
            /\ Kids(p) # {}
            /\ \A q \in Kids(p) : state[q] # "ZOMBIE"
            /\ ~ killed[p]

\* An EMBRYO slot belongs to exactly one fork in progress, so the error paths
\* that write state = UNUSED without the lock hit no other process, and no
\* slot is lost as an EMBRYO for ever.
EmbryoOwned ==
    /\ \A p \in Slots : state[p] = "EMBRYO" => \E q \in Slots : np[q] = p
    /\ \A q \in Slots : np[q] # NoSlot =>
            state[np[q]] = "EMBRYO" /\ pc[q] \in {"fork", "publish"} /\ Live(q)
    /\ \A q, r \in Slots : np[q] = np[r] /\ np[q] # NoSlot => q = r

\* No two slots in use have the same pid, so kill reaches the process it names.
PidsUnique ==
    \A p, q \in Slots :
        p # q /\ state[p] # "UNUSED" /\ state[q] # "UNUSED" => pid[p] # pid[q]

\* Every process that can run has at least MINTICKETS tickets (sys_settickets
\* and fork keep the floor of 10), so each one can win the lottery.
TicketFloor ==
    \A p \in Slots : Live(p) => tickets[p] >= MINTICKETS

\* A process that never ran has no ticks, also in a slot used before.
FreshTicks ==
    \A p \in Slots : pc[p] = "forkret" => ticks[p] = 0

\* scheduler (proc.c:360): when the total is not positive, "there isn't a
\* process ready to run"; when it is, some ticket names a process.
IdleOnlyWhenNoneReady ==
    total_tickets > 0 <=> \E p \in Slots : state[p] = "RUNNABLE"

\* Each winning ticket that can be drawn selects a process, and each RUNNABLE
\* process holds as many of those tickets as p->tickets says.
FairShare ==
    LET Owned(p) == {t \in 0..(total_tickets - 1) : Wins(p, t)}
    IN  \A p \in Slots :
            Cardinality(Owned(p)) =
                IF state[p] = "RUNNABLE" THEN tickets[p] ELSE 0

\* Only wait frees a ZOMBIE, and only for the parent that called it.
ZombieReapedByParent ==
    [][\A p \in Slots :
         state[p] = "ZOMBIE" /\ state'[p] # "ZOMBIE" =>
            /\ state'[p] = "UNUSED"
            /\ \E c \in CPUs : cpu[c] = parent[p] /\ pc'[parent[p]] = "user"]_vars

-----------------------------------------------------------------------------
(***************************************************************************)
(* Fairness.  A CPU finishes a switch it is in the middle of, interrupts   *)
(* being off, and clock interrupts keep coming: weak fairness.  A process  *)
(* that runs again and again is not preempted at the same instruction      *)
(* every time: strong fairness of what it is about to do.  The lottery:    *)
(* random is a full-period generator and every RUNNABLE process owns       *)
(* tickets, so whoever stays in the draw wins: strong fairness of each     *)
(* process's dispatch.  init's program calls wait again and again          *)
(* (init.c:34); no other program is assumed to do anything.                *)
(***************************************************************************)
FinishSwitch(c) ==
    \/ SchedReturn(c)
    \/ \E p \in Slots : Resume(c, p) \/ WaitResume(c, p) \/ SleepResume(c, p)

FinishCall(p) ==
    \E c \in CPUs :
        \/ ForkFail(c, p) \/ ForkFill(c, p) \/ ForkPublish(c, p)
        \/ killed[p] /\ ExitBegin(c, p)
        \/ ExitPanic(c, p) \/ ExitFinish(c, p)

Fairness ==
    /\ \A c \in CPUs :
        /\ WF_vars(FinishSwitch(c))
        /\ WF_vars(\E p \in Slots : Yield(c, p))
    /\ \A p \in Slots :
        /\ SF_vars(\E c \in CPUs : Dispatch(c, p))
        /\ SF_vars(FinishCall(p))
    /\ SF_vars(\E c \in CPUs : Wait(c, INITPROC))

FairSpec == Spec /\ Fairness

\* A ZOMBIE whose parent is init is reaped, also one that init inherits while
\* it sleeps in wait, unless the kernel panics.
OrphansReaped ==
    \A p \in Slots :
        state[p] = "ZOMBIE" /\ parent[p] = INITPROC ~>
            state[p] = "UNUSED" \/ panicked

\* A process that is killed while it sleeps in wait exits, unless the kernel
\* panics.
KilledWaiterExits ==
    \A p \in Slots \ {INITPROC} :
        killed[p] /\ pc[p] = "wait" ~> state[p] = "ZOMBIE" \/ panicked
=============================================================================

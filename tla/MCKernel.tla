------------------------------ MODULE MCKernel ------------------------------
(***************************************************************************)
(* The process table, spin locks, the clock, the console, pipes and a log  *)
(* that fills up, side by side for TLC: in a behaviour the component named *)
(* by part takes steps, the others stay in their initial states.  What is  *)
(* checked is that none of them loses a process, a wakeup or a byte, or    *)
(* runs past the end of what it has.                                       *)
(***************************************************************************)
EXTENDS Proc, TLC

VARIABLES
    part,
    locked, holder, eflags, ncli, intena, on, todo, saved,                  \* Spinlock
    now, tickslock, spc, ticks0, n, skilled, elapsed,                       \* Clock
    buf, r, w, e, conslock, cpc, want, target, ckilled, taken,              \* Console
    data, nread, nwrite, readopen, writeopen, freed, plock, rd, wr, ppc, left, pkilled, got,
    home, dlog, dhead, cache, dirty, lh, outstanding, committing, phase, tail, lpc, bp, wrote

spinlock == <<locked, holder, eflags, ncli, intena, on, todo, saved>>
clock == <<now, tickslock, spc, ticks0, n, skilled, elapsed>>
console == <<buf, r, w, e, conslock, cpc, want, target, ckilled, taken>>
pipe == <<data, nread, nwrite, readopen, writeopen, freed, plock, rd, wr, ppc, left, pkilled,
          got>>
log == <<home, dlog, dhead, cache, dirty, lh, outstanding, committing, phase, tail, lpc, bp,
         wrote>>
allvars == <<part, vars, spinlock, clock, console, pipe, log>>

\* Two CPUs and two processes, numbered unlike the CPUs.
S == INSTANCE Spinlock WITH NCPU <- 2, Procs <- {11, 12}, NoCPU <- 0, cpu <- holder

\* A uint with three values: ticks wraps around while processes sleep.
K == INSTANCE Clock WITH
        Procs <- {"p1", "p2"}, None <- "none", UINT <- 3,
        ticks <- now, lock <- tickslock, pc <- spc, killed <- skilled

\* A buffer of three characters and counters that wrap around at six.
C == INSTANCE Console WITH
        Procs <- {"p1", "p2"}, None <- "none", Chars <- {"a"}, INPUT_BUF <- 3, UINT <- 6,
        MaxCount <- 2, lock <- conslock, pc <- cpc, left <- want, killed <- ckilled

\* A reader and two writers, a buffer of two bytes, calls for up to three.
P == INSTANCE Pipe WITH
        Readers <- {"r1"}, Writers <- {"w1", "w2"}, Killable <- {"w1"},
        NoProc <- "none", Bytes <- {0}, PIPESIZE <- 2, UINT <- 4, MaxCount <- 3,
        lock <- plock, pc <- ppc, killed <- pkilled

\* A reader and a writer of bytes that differ, on the same pipe.
F == INSTANCE Pipe WITH
        Readers <- {"r1"}, Writers <- {"w1"}, Killable <- {"r1"}, NoProc <- "none",
        Bytes <- {0, 1}, PIPESIZE <- 2, UINT <- 4, MaxCount <- 3,
        lock <- plock, pc <- ppc, killed <- pkilled

\* Five blocks, of which the log has room for four.
L == INSTANCE Log WITH
        Blocks <- 1..5, NoBlock <- 0, Vals <- {0}, Zero <- 0, Procs <- {"p1", "p2"},
        MAXOPBLOCKS <- 2, LOGSIZE <- 5, NLOG <- 5, OpBlocks <- 1, pc <- lpc, buf <- bp

AllInit ==
    /\ part \in {"table", "spinlock", "clock", "console", "pipe", "fifo", "log"}
    /\ Init /\ S!Init /\ K!Init /\ C!Init /\ L!Init
    /\ IF part = "fifo" THEN F!Init ELSE P!Init

AllNext ==
    \/ part = "table" /\ Next /\ UNCHANGED <<part, spinlock, clock, console, pipe, log>>
    \/ part = "spinlock" /\ S!Next /\ UNCHANGED <<part, vars, clock, console, pipe, log>>
    \/ part = "clock" /\ K!Next /\ UNCHANGED <<part, vars, spinlock, console, pipe, log>>
    \/ part = "console" /\ C!Next /\ UNCHANGED <<part, vars, spinlock, clock, pipe, log>>
    \/ part = "pipe" /\ P!Next /\ UNCHANGED <<part, vars, spinlock, clock, console, log>>
    \/ part = "fifo" /\ F!Next /\ UNCHANGED <<part, vars, spinlock, clock, console, log>>
    \/ part = "log" /\ L!Next /\ UNCHANGED <<part, vars, spinlock, clock, console, pipe>>

AllSpec == AllInit /\ [][AllNext]_allvars

Symmetry == Permutations(CPUs)

-----------------------------------------------------------------------------
\* The properties of the components, under names of their own.

\* acquire, release, sched and the scheduler: no two CPUs have one lock, no panic of theirs
\* is reached, pushcli and popcli are matched on each CPU, and intena stays with its thread.
LocksSafe == part = "spinlock" => S!OneHolder /\ S!NoPanic /\ S!Matched /\ S!IntenaKept

\* sys_sleep returns 0 only after n clock interrupts, and nobody is asleep in it who has no
\* more of them to wait for.
SleepsItsTime == K!NeverEarly /\ [](part = "clock" => K!AsleepInTime)

\* consoleintr and consoleread implement a line discipline.
ImplementsTty ==
    C!TtyView!Init /\ [][part = "console" => C!TtyView!Next]_(C!TtyView!vars)

\* Nobody sleeps in consoleread while there is something to read, a full input buffer can be
\* read, so that it does not stay full, and r, w and e stay in order.
ReaderHasReason ==
    part = "console" => C!InOrder /\ C!FullIsReadable /\ C!SleeperHasReason

\* Whoever sleeps on a pipe waits for bytes, or for room, that are not there, and the page of
\* the pipe is freed exactly when both ends are closed.
SleepersHaveReason == part = "pipe" => P!TypeOK /\ P!SleepersHaveReason /\ P!FreedWhenClosed

\* What piperead returns is what pipewrite was given, in that order.
ImplementsQueue ==
    F!Queue!Init /\ [][part = "fifo" => F!Queue!Next]_(F!Queue!vars)

\* The reservation of begin_op keeps log_write and end_op clear of their panics, and the log
\* within its area on disk.
LogFits == part = "log" => L!NoPanic /\ L!LogFits
=============================================================================

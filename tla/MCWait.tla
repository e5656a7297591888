------------------------------- MODULE MCWait -------------------------------
(***************************************************************************)
(* Sleep locks, pipes, wait and the shell, side by side for TLC: in a      *)
(* behaviour the component named by part takes steps, the others stay in   *)
(* their initial states.  What is checked is that whoever waits goes on in *)
(* the end, each property under the fairness of its own component.         *)
(***************************************************************************)
EXTENDS Sleeplock, Integers

VARIABLES
    part,
    data, nread, nwrite, readopen, writeopen, freed, plock, rd, wr, ppc, left, pkilled, got,
    state, tpid, parent, chan, killed, tickets, ticks, nextpid, cpu, tlock, tpc, np,
    tab, full, sstate, sparent, todo, pfd, has, job, leads, sh

pipe == <<data, nread, nwrite, readopen, writeopen, freed, plock, rd, wr, ppc, left, pkilled,
          got>>
table == <<state, tpid, parent, chan, killed, tickets, ticks, nextpid, cpu, tlock, tpc, np>>
shell == <<tab, full, sstate, sparent, todo, pfd, has, job, leads, sh>>
allvars == <<part, vars, pipe, table, shell>>

\* A pipe of two bytes, with calls for up to three and counters that wrap around at four.
P == INSTANCE Pipe WITH
        Readers <- {"r1"}, Writers <- {"w1"}, Killable <- {}, NoProc <- "none",
        Bytes <- {0}, PIPESIZE <- 2, UINT <- 4, MaxCount <- 3,
        lock <- plock, pc <- ppc, killed <- pkilled

\* A process table of three slots on one CPU, with kills.
T == INSTANCE Proc WITH
        NPROC <- 3, CPUs <- {"c1"}, NoCPU <- "none", Chans <- {}, MINTICKETS <- 2,
        Requests <- {}, KillPids <- {2, 3}, IntMax <- 31, TicksMod <- 1, MaxPid <- 3,
        pid <- tpid, lock <- tlock, pc <- tpc

\* Two lines, one with nothing behind the pipe but a program in the background, for a shell
\* whose forks may fail.
Y == INSTANCE ShellParser WITH MAXARGS <- 2
Runs(word) == [Y!execcmd EXCEPT !.argv = <<<<word>>>>]
Lines == {Y!pipecmd(Runs("yes"), Runs("echo")), Y!pipecmd(Y!execcmd, Y!backcmd(Runs("cat")))}
H == INSTANCE Shell WITH
        Slots <- 1..6, NOFILE <- 5, NFILE <- 3, NPAGE <- 1, MAXARGS <- 2,
        Commands <- Lines, BadLines <- {<<"cat", "|", ")">>}, Missing <- {}, MaxProcs <- 2,
        state <- sstate, parent <- sparent

AllInit ==
    /\ part \in {"sleeplock", "pipe", "table", "shell"}
    /\ Init /\ P!Init /\ T!Init /\ H!Init

AllNext ==
    \/ part = "sleeplock" /\ Next /\ UNCHANGED <<part, pipe, table, shell>>
    \/ part = "pipe" /\ P!Next /\ UNCHANGED <<part, vars, table, shell>>
    \/ part = "table" /\ T!Next /\ UNCHANGED <<part, vars, pipe, shell>>
    \/ part = "shell" /\ H!Next /\ UNCHANGED <<part, vars, pipe, table>>

AllSpec == AllInit /\ [][AllNext]_allvars /\ Fairness

-----------------------------------------------------------------------------
\* A piperead or pipewrite that is blocked ends once the other end is closed.
HangUp == P!Fairness => P!HangUp

\* A ZOMBIE whose parent is init is reaped by the wait of init.
OrphansReaped == T!Fairness => T!OrphansReaped

\* A process that is killed while it sleeps in wait exits.
KilledWaiterExits == T!Fairness => T!KilledWaiterExits

\* A command line ends, and the shell takes the next one.
PromptReturns == H!Fairness => H!PromptReturns
=============================================================================

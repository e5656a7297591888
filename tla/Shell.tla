-------------------------------- MODULE Shell -------------------------------
(***************************************************************************)
(* The shell and init (sh.c, init.c) with the processes that they make, on *)
(* the tables of OpenFiles.  What a process still has to do is a sequence  *)
(* of system calls, in the order in which runcmd makes them; a system call *)
(* is one step (FileTable looks inside those of files).  The programs that *)
(* commands name are external, and stand for all: echo writes something,   *)
(* cat copies its input to its output, yes writes into a pipe until it     *)
(* cannot.  A pipe is full with one write (Pipe has the bytes).            *)
(*                                                                         *)
(* A definition named X_Y is X with the fault Y put in.                    *)
(***************************************************************************)
EXTENDS OpenFiles, ShellParser

CONSTANTS
    Commands,   \* the commands that the user types
    BadLines,   \* lines that are not commands
    Missing,    \* names that open does not find
    MaxProcs    \* bound: the processes there are when a line is typed

VARIABLES
    tab,        \* files and pipes, see OpenFiles
    full,       \* the pipes with something in them
    state, parent,
    todo,       \* system calls to come
    pfd,        \* the array p of runcmd
    has,        \* has a program something to write?
    job,        \* what the user has typed for this process (not in the code)
    leads,      \* what a file was opened as (not in the code)
    sh          \* pid of init's loop

vars == <<tab, full, state, parent, todo, pfd, has, job, leads, sh>>

Console == <<"console">>
Sh == <<<<"ensure">>, <<"getcmd">>>>

\* init waits for the shell, which it has started with the console as descriptors 0, 1, 2.
Init ==
    LET std == [fd \in Fds |-> IF fd < 3 THEN 1 ELSE 0] IN
    /\ tab = [Empty EXCEPT !.file[1] = [Unused EXCEPT !.ref = 6, !.type = "FD_INODE"],
                           !.ofile[1] = std, !.ofile[2] = std, !.iref = 1]
    /\ full = {}
    /\ state = [p \in Slots |-> IF p <= 2 THEN "run" ELSE "unused"]
    /\ parent = [p \in Slots |-> IF p = 2 THEN 1 ELSE 0]
    /\ todo = [p \in Slots |-> CASE p = 1 -> <<<<"initwait">>>> [] p = 2 -> Sh [] OTHER -> <<>>]
    /\ pfd = [p \in Slots |-> <<0, 0>>]
    /\ has = {}
    /\ job = [p \in Slots |-> Broken]
    /\ leads = [f \in AllFiles |-> Console]
    /\ sh = 2

-----------------------------------------------------------------------------
\* The system calls of runcmd(c); path is the way to c from what the user typed.
Exit == <<<<"exit">>>>
End_KeepsOther(k) == <<<<"close", k>>, <<"dup", k>>, <<"closep", k>>>>

\* The child that gets end k of the pipe in place of its descriptor k.
End(k) == <<<<"close", k>>, <<"dup", k>>, <<"closep", 0>>, <<"closep", 1>>>>

RECURSIVE runcmd(_, _)
runcmd(c, path) ==
    LET sub(d, way) == runcmd(d, Append(path, way)) IN
    CASE c = Broken -> Exit
      [] c.type = "EXEC" ->
            IF c.argv = <<>> THEN Exit ELSE <<<<"exec", c.argv[1], path>>>> \o Exit
      [] c.type = "REDIR" ->
            <<<<"close", c.fd>>, <<"open", c.file>>>> \o sub(c.cmd, "cmd")
      [] c.type = "LIST" ->
            <<<<"fork", sub(c.left, "left")>>, <<"wait">>>> \o sub(c.right, "right")
      [] c.type = "PIPE" ->
            <<<<"pipe", path>>, <<"fork", End(1) \o sub(c.left, "left")>>,
              <<"fork", End(0) \o sub(c.right, "right")>>,
              <<"closep", 0>>, <<"closep", 1>>, <<"wait">>, <<"wait">>>> \o Exit
      [] c.type = "BACK" -> <<<<"fork", sub(c.cmd, "cmd")>>>> \o Exit

Next1(p) == Head(todo[p])
Calls(p, call) == state[p] = "run" /\ todo[p] # <<>> /\ Next1(p)[1] = call
Goes(p, seq) == todo' = [todo EXCEPT ![p] = seq]
Returns(p) == Goes(p, Tail(todo[p]))

procs == <<state, parent, sh>>
ghosts == <<job, leads>>

\* Files are closed; what was in a pipe goes with it.
Closed(t) ==
    /\ tab' = t
    /\ full' = {pg \in full : t.ends[pg] # {}}
    /\ leads' = [f \in AllFiles |-> IF t.file[f].ref = 0 THEN Console ELSE leads[f]]

close(p) ==
    /\ Calls(p, "close") \/ Calls(p, "closep")
    /\ LET fd == IF Calls(p, "close") THEN Next1(p)[2] ELSE pfd[p][Next1(p)[2] + 1] IN
        Closed(sys_close(tab, p, fd))
    /\ Returns(p)
    /\ UNCHANGED <<procs, pfd, has, job>>

dup(p) ==
    /\ Calls(p, "dup")
    /\ tab' = sys_dup(tab, p, pfd[p][IF Next1(p)[2] = 1 THEN 2 ELSE 1])
    /\ Returns(p)
    /\ UNCHANGED <<full, procs, pfd, has, ghosts>>

\* open of a redirection.
CanOpen(p) == FreeFile(tab) # -1 /\ FreeFd(tab, p) # -1
Opened(p, name) ==
    LET f == FreeFile(tab) IN
    /\ tab' = [fdalloc(filealloc(tab), p, f) EXCEPT !.file[f].type = "FD_INODE", !.iref = @ + 1]
    /\ leads' = [leads EXCEPT ![f] = name]

open(p) ==
    /\ Calls(p, "open")
    /\ IF CanOpen(p) /\ Next1(p)[2] \notin Missing
       THEN Opened(p, Next1(p)[2]) /\ Returns(p)
       ELSE Goes(p, Exit) /\ UNCHANGED <<tab, leads>>
    /\ UNCHANGED <<full, procs, pfd, has, job>>

Ensure_NoBreak(p) ==
    /\ Calls(p, "ensure")
    /\ IF CanOpen(p) /\ FreeFd(tab, p) < 3 THEN Opened(p, Console) ELSE UNCHANGED <<tab, leads>>
    /\ UNCHANGED <<todo, full, procs, pfd, has, job>>

\* The first loop of main: the shell opens the console until it has descriptors 0, 1 and 2.
\* (The one that it opens above these, and closes again, is left out.)
Ensure(p) ==
    /\ Calls(p, "ensure")
    /\ IF CanOpen(p) /\ FreeFd(tab, p) < 3
       THEN Opened(p, Console) /\ UNCHANGED todo
       ELSE Returns(p) /\ UNCHANGED <<tab, leads>>
    /\ UNCHANGED <<full, procs, pfd, has, job>>

pipe(p) ==
    /\ Calls(p, "pipe")
    /\ LET rf == FreeFile(tab)
           t == filealloc(tab)
           wf == FreeFile(t)
           t0 == fdalloc(PipeIn(filealloc(t), First(tab.free), rf, wf), p, rf)
       IN  IF rf = -1 \/ wf = -1 \/ tab.free = {} \/ FreeFd(tab, p) = -1 \/ FreeFd(t0, p) = -1
           THEN Goes(p, Exit) /\ UNCHANGED <<tab, pfd, leads>>
           ELSE /\ tab' = fdalloc(t0, p, wf)
                /\ pfd' = [pfd EXCEPT ![p] = <<FreeFd(tab, p), FreeFd(t0, p)>>]
                /\ leads' = [leads EXCEPT ![rf] = Next1(p)[2], ![wf] = Next1(p)[2]]
                /\ Returns(p)
    /\ UNCHANGED <<full, procs, has, job>>

\* fork1, and the fork of init.  (When that one fails init exits, and the kernel panics: only
\* the others fail here.)
FreeSlots == {p \in Slots : state[p] = "unused"}
fork(p) ==
    /\ Calls(p, "fork") /\ FreeSlots # {}
    /\ LET np == Min(FreeSlots) IN
        /\ tab' = Copied(tab, p, np)
        /\ state' = [state EXCEPT ![np] = "run"]
        /\ parent' = [parent EXCEPT ![np] = p]
        /\ todo' = [todo EXCEPT ![p] = Tail(@), ![np] = Next1(p)[2]]
        /\ pfd' = [pfd EXCEPT ![np] = pfd[p]]
        /\ job' = [job EXCEPT ![np] = job[p]]
        /\ sh' = IF p = 1 THEN np ELSE sh
    /\ UNCHANGED <<full, has, leads>>

ForkFails(p) ==
    /\ Calls(p, "fork") /\ p # 1
    /\ Goes(p, Exit)
    /\ UNCHANGED <<tab, full, procs, pfd, has, ghosts>>

exit(p) ==
    /\ Calls(p, "exit")
    /\ Closed(AllClosed(tab, p))
    /\ state' = [state EXCEPT ![p] = "zombie"]
    /\ parent' = [q \in Slots |-> IF parent[q] = p THEN 1 ELSE parent[q]]
    /\ Goes(p, <<>>)
    /\ job' = [job EXCEPT ![p] = Broken]
    /\ has' = has \ {p}
    /\ pfd' = [pfd EXCEPT ![p] = <<0, 0>>]
    /\ UNCHANGED sh

\* The first ZOMBIE of p goes.
Children(p) == {q \in Slots : parent[q] = p}
Zombies(p) == {q \in Children(p) : state[q] = "zombie"}
Reap(p) ==
    /\ state' = [state EXCEPT ![Min(Zombies(p))] = "unused"]
    /\ parent' = [parent EXCEPT ![Min(Zombies(p))] = 0]

wait(p) ==
    /\ Calls(p, "wait")
    /\ IF Children(p) = {} THEN UNCHANGED <<state, parent>> ELSE Zombies(p) # {} /\ Reap(p)
    /\ Returns(p)
    /\ job' = [job EXCEPT ![p] = IF p = sh THEN Broken ELSE @]
    /\ UNCHANGED <<tab, full, pfd, has, leads, sh>>

\* The loop of init: it starts another shell when the one it has started ends.
InitWait ==
    /\ Calls(1, "initwait") /\ Zombies(1) # {}
    /\ Reap(1)
    /\ IF Min(Zombies(1)) = sh THEN Goes(1, <<<<"fork", Sh>>>> \o todo[1]) ELSE UNCHANGED todo
    /\ UNCHANGED <<tab, full, pfd, has, ghosts, sh>>

-----------------------------------------------------------------------------
\* main: a line is typed, or ^D.  The child parses it, for itself and before anything else.
\* (cd, which main handles without a child, is not among the lines.)
Getcmd(p, line, meant) ==
    /\ Calls(p, "getcmd") /\ Cardinality(Slots \ FreeSlots) <= MaxProcs
    /\ Goes(p, <<<<"fork", runcmd(parsecmd(line), <<>>)>>, <<"wait">>, <<"getcmd">>>>)
    /\ job' = [job EXCEPT ![p] = meant]
    /\ UNCHANGED <<tab, full, procs, pfd, has, leads>>

EOF(p) ==
    /\ Calls(p, "getcmd")
    /\ Goes(p, Exit)
    /\ UNCHANGED <<tab, full, procs, pfd, has, ghosts>>

Programs == {<<"echo">>, <<"cat">>, <<"yes">>}
exec(p) ==
    /\ Calls(p, "exec")
    /\ IF Next1(p)[2] \in Programs
       THEN /\ Goes(p, <<[Next1(p) EXCEPT ![1] = "program"]>>)
            /\ has' = IF Next1(p)[2] = <<"cat">> THEN has ELSE has \cup {p}
       ELSE Returns(p) /\ UNCHANGED has
    /\ UNCHANGED <<tab, full, procs, pfd, ghosts>>

\* A program reads, or writes; without anything more to do it exits.
Std(p, fd) == tab.file[tab.ofile[p][fd]]
Ends(p) == Goes(p, Exit) /\ UNCHANGED <<full, has>>

Read(p) ==
    /\ Calls(p, "program") /\ p \notin has
    /\ \/ Next1(p)[2] # <<"cat">> /\ Ends(p)
       \/ Next1(p)[2] = <<"cat">> /\ Std(p, 0).type # "FD_PIPE" /\ Ends(p)
       \/ /\ Next1(p)[2] = <<"cat">> /\ Std(p, 0).type = "FD_PIPE"
          /\ LET pg == Std(p, 0).pipe IN
              IF pg \in full
              THEN full' = full \ {pg} /\ has' = has \cup {p} /\ UNCHANGED todo
              ELSE TRUE \notin tab.ends[pg] /\ Ends(p)
    /\ UNCHANGED <<tab, procs, pfd, ghosts>>

Write(p) ==
    /\ Calls(p, "program") /\ p \in has
    /\ IF Std(p, 1).type # "FD_PIPE"
       THEN has' = has \ {p} /\ UNCHANGED <<full, todo>>
       ELSE LET pg == Std(p, 1).pipe IN
            IF FALSE \notin tab.ends[pg] THEN Ends(p)
            ELSE /\ pg \notin full
                 /\ full' = full \cup {pg}
                 /\ has' = IF Next1(p)[2] = <<"yes">> THEN has ELSE has \ {p}
                 /\ UNCHANGED todo
    /\ UNCHANGED <<tab, procs, pfd, ghosts>>

Step(p) ==
    \/ close(p) \/ dup(p) \/ open(p) \/ Ensure(p) \/ pipe(p) \/ fork(p) \/ exit(p) \/ wait(p)
    \/ exec(p) \/ Read(p) \/ Write(p)

Types(p) ==
    \/ \E c \in Commands : Getcmd(p, Text(c), c)
    \/ \E l \in BadLines : Getcmd(p, l, Broken)
    \/ EOF(p)

Next == InitWait \/ \E p \in Slots : Step(p) \/ ForkFails(p) \/ Types(p)

Spec == Init /\ [][Next]_vars

\* Every process gets its turns; the user need not type.
Fairness == WF_vars(InitWait) /\ \A p \in Slots : WF_vars(Step(p))

-----------------------------------------------------------------------------
(***************************************************************************)
(* Properties                                                              *)
(***************************************************************************)
\* What the standard input (fd 0) or output (1) of a part of a command leads to: the file
\* it is redirected to, the pipe next to it, or what the whole command has.
RECURSIVE Meant(_, _, _, _, _)
Meant(c, path, done, fd, before) ==
    LET inside == IF c.type = "REDIR" /\ c.fd = fd THEN c.file
                  ELSE IF c.type = "PIPE" /\ Head(path) = (IF fd = 1 THEN "left" ELSE "right")
                  THEN done ELSE before
    IN  IF path = <<>> THEN before
        ELSE Meant(c[Head(path)], Tail(path), Append(done, Head(path)), fd, inside)

\* The parser finds what was meant, and runcmd arranges it: a program runs with its input
\* and output where the line says, at the right end of each pipe, and with no descriptors
\* but these: an end of a pipe left open would keep its readers waiting.
ConnectedAsTyped ==
    \A p \in Slots :
        /\ p = sh /\ Calls(p, "fork") => Next1(p)[2] = runcmd(job[p], <<>>)
        /\ Calls(p, "program") =>
            /\ \A fd \in Fds : tab.ofile[p][fd] # 0 <=> fd < 3
            /\ \A fd \in {0, 1} :
                /\ leads[tab.ofile[p][fd]] = Meant(job[p], Next1(p)[3], <<>>, fd, Console)
                /\ Std(p, fd).type = "FD_PIPE" => (Std(p, fd).writable <=> fd = 1)
            /\ leads[tab.ofile[p][2]] = Console

\* With nobody but init and the shell left, nothing is open but the console.
AllGivenBack ==
    (\A p \in Slots : state[p] # "unused" => p \in {1, sh}) /\ Calls(sh, "getcmd")
        => /\ tab.free = Frames
           /\ \A f \in AllFiles : tab.file[f].ref > 0 => leads[f] = Console

\* A command, whatever fails in it, ends, and the shell takes the next line.
PromptReturns == ~ Calls(sh, "getcmd") ~> Calls(sh, "getcmd")
=============================================================================

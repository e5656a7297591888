----------------------------- MODULE FileTable ------------------------------
(***************************************************************************)
(* Processes that open, duplicate and close files and pipes, fork and      *)
(* exit, in a system that runs out of descriptors, of files and of pages   *)
(* (sysfile.c, file.c, pipe.c, fork and exit of proc.c).  A step reaches   *)
(* up to where a process lets others in: the two halves of fileclose, and  *)
(* each allocation of sys_pipe, are steps of their own.                    *)
(***************************************************************************)
EXTENDS OpenFiles, Sequences

CONSTANT MaxCalls   \* bound: system calls made

VARIABLES
    tab,        \* the tables, see OpenFiles
    live,       \* the processes
    calls,      \* system calls made so far
    at          \* what a process is doing: the files that it still has to
                \* close (todo), the file whose last reference it has dropped
                \* (ff) and the files that sys_pipe has allocated (held)

vars == <<tab, live, calls, at>>

User == [pc |-> "user", todo |-> <<>>, ff |-> Unused, held |-> <<>>]

\* init, before it has opened the console.
Init ==
    /\ tab = Empty
    /\ live = {1} /\ calls = 0
    /\ at = [p \in Slots |-> User]

\* A process in user mode makes a system call.
Calls(p) == p \in live /\ at[p] = User /\ calls < MaxCalls /\ calls' = calls + 1

\* The process goes on with closing files, in this order, and returns to pc.
Closes(p, files, pc) == at' = [at EXCEPT ![p] = [User EXCEPT !.pc = pc, !.todo = files]]

-----------------------------------------------------------------------------
Dup(p, fd) ==
    /\ Calls(p) /\ tab.ofile[p][fd] # 0 /\ FreeFd(tab, p) # -1
    /\ tab' = sys_dup(tab, p, fd)
    /\ UNCHANGED <<live, at>>

Close(p, fd) ==
    /\ Calls(p) /\ tab.ofile[p][fd] # 0
    /\ tab' = [tab EXCEPT !.ofile[p][fd] = 0]
    /\ Closes(p, <<tab.ofile[p][fd]>>, "user")
    /\ UNCHANGED live

\* sys_open, which has the inode: without a descriptor it closes the file that it has just
\* got, and gives the inode back.
sys_open(p) ==
    /\ Calls(p) /\ FreeFile(tab) # -1
    /\ LET f == FreeFile(tab)
           t == filealloc(tab)
       IN  IF FreeFd(tab, p) = -1
           THEN tab' = t /\ Closes(p, <<f>>, "user")
           ELSE /\ tab' = [fdalloc(t, p, f) EXCEPT !.file[f].type = "FD_INODE", !.iref = @ + 1]
                /\ UNCHANGED at
    /\ UNCHANGED live

\* filealloc, twice, in pipealloc.
PipeFile(p) ==
    /\ Calls(p) \/ (at[p].pc = "pipe" /\ Len(at[p].held) = 1 /\ UNCHANGED calls)
    /\ IF FreeFile(tab) = -1
       THEN Closes(p, at[p].held, "user") /\ UNCHANGED tab
       ELSE /\ tab' = filealloc(tab)
            /\ at' = [at EXCEPT ![p].pc = "pipe", ![p].held = Append(@, FreeFile(tab))]
    /\ UNCHANGED live

\* kalloc in pipealloc, and the descriptors that sys_pipe allocates: fd0, then fd1.
sys_pipe(p) ==
    /\ at[p].pc = "pipe" /\ Len(at[p].held) = 2
    /\ IF tab.free = {}
       THEN UNCHANGED tab /\ Closes(p, at[p].held, "user")
       ELSE LET rf == at[p].held[1]
                wf == at[p].held[2]
                t == PipeIn(tab, Min(tab.free), rf, wf)
                t0 == fdalloc(t, p, rf)
            IN  IF FreeFd(t, p) = -1 \/ FreeFd(t0, p) = -1
                THEN tab' = t /\ Closes(p, at[p].held, "user")
                ELSE tab' = fdalloc(t0, p, wf) /\ at' = [at EXCEPT ![p] = User]
    /\ UNCHANGED <<live, calls>>

\* fileclose up to the release of ftable.lock.
Drop(p) ==
    /\ at[p].todo # <<>> /\ at[p].ff = Unused
    /\ LET f == Head(at[p].todo) IN
        /\ tab' = Dropped(tab, f)
        /\ at' = [at EXCEPT ![p].todo = Tail(@),
                            ![p].ff = IF tab.file[f].ref = 1 THEN tab.file[f] ELSE Unused]
    /\ UNCHANGED <<live, calls>>

\* The rest of fileclose.
Finish(p) ==
    /\ at[p].ff # Unused
    /\ tab' = Finished(tab, at[p].ff)
    /\ at' = [at EXCEPT ![p].ff = Unused]
    /\ UNCHANGED <<live, calls>>

fork(p, np) ==
    /\ Calls(p) /\ np \notin live
    /\ tab' = Copied(tab, p, np)
    /\ live' = live \cup {np}
    /\ UNCHANGED at

\* exit closes the descriptors in their order; a descriptor is cleared behind its fileclose,
\* here with it: nobody else looks at it.
exit(p) ==
    /\ Calls(p) /\ p # 1
    /\ tab' = [tab EXCEPT !.ofile[p] = NoFds]
    /\ LET open == {fd \in Fds : tab.ofile[p][fd] # 0}
           nth[n \in 0..NOFILE] == IF n = 0 THEN -1 ELSE First({fd \in open : fd > nth[n - 1]})
       IN  Closes(p, [n \in 1..Cardinality(open) |-> tab.ofile[p][nth[n]]], "exit")
    /\ UNCHANGED live

Exited(p) ==
    /\ at[p] = [User EXCEPT !.pc = "exit"]
    /\ live' = live \ {p} /\ at' = [at EXCEPT ![p] = User]
    /\ UNCHANGED <<tab, calls>>

Next ==
    \/ \E p \in Slots, fd \in Fds : Dup(p, fd) \/ Close(p, fd)
    \/ \E p \in Slots : \/ sys_open(p) \/ PipeFile(p) \/ sys_pipe(p) \/ Drop(p) \/ Finish(p)
                        \/ exit(p) \/ Exited(p)
    \/ \E p, np \in Slots : fork(p, np)

Spec == Init /\ [][Next]_vars

-----------------------------------------------------------------------------
\* The references to file f: descriptors, and calls that have it in hand.
Refs(f) ==
    Cardinality({<<p, fd>> \in Slots \X Fds : tab.ofile[p][fd] = f})
    + Cardinality({<<p, k>> \in Slots \X (1..NOFILE) :
                    \/ k <= Len(at[p].todo) /\ at[p].todo[k] = f
                    \/ k <= Len(at[p].held) /\ at[p].held[k] = f})

\* The files that are open, and those whose fileclose is not over.
Opened(type) ==
    {<<0, f>> : f \in {g \in AllFiles : tab.file[g].ref > 0 /\ tab.file[g].type = type}}
    \cup {<<1, p>> : p \in {q \in Slots : at[q].ff.type = type}}
FileOf(x) == IF x[1] = 0 THEN tab.file[x[2]] ELSE at[x[2]].ff

\* ref of a file is the number of its descriptors and of the calls that hold it, whatever
\* fails on the way; each end of a pipe is open as long as a file leads to it, and then its
\* page is in use, and an inode is referred to by each file that is one.
FilesCounted ==
    /\ \A f \in AllFiles : tab.file[f].ref = Refs(f)
    /\ \A pg \in Frames :
        /\ tab.ends[pg] = {FileOf(x).writable :
                                x \in {y \in Opened("FD_PIPE") : FileOf(y).pipe = pg}}
        /\ pg \in tab.free <=> tab.ends[pg] = {}
    /\ tab.iref = Cardinality(Opened("FD_INODE"))
=============================================================================

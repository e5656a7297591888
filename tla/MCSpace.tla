------------------------------- MODULE MCSpace -------------------------------
(***************************************************************************)
(* The blocks of files, the pages of processes, the heap of a program, the *)
(* table of open files and the shell, side by side for TLC: in a behaviour *)
(* the component named by part takes steps, the others stay in an initial  *)
(* state.  What is checked is that every block, page, unit or file is free *)
(* or has an owner, who gives it back, and keeps what is put there.        *)
(***************************************************************************)
EXTENDS FileData

VARIABLES
    part,
    pages, taken, frames, state, kstack, sz, space, new, doing, vmcalls, mem,   \* Vm
    size, ptr, freep, brk, used, own,                                           \* Umalloc
    tab, live, ncalls, midway,                                                  \* FileTable
    stab, full, sstate, parent, todo, pfd, has, job, leads, sh                  \* Shell

memory == <<pages, taken, frames, state, kstack, sz, space, new, doing, vmcalls, mem>>
heap == <<size, ptr, freep, brk, used, own>>
table == <<tab, live, ncalls, midway>>
shell == <<stab, full, sstate, parent, todo, pfd, has, job, leads, sh>>

\* The first inode can be opened twice, the second once.
OpenedOn == <<1, 1, 2>>

\* Thirteen pages, of which the kernel may have any number; page tables for two pages; programs
\* of no, one and two segments, and one that is too large.
V == INSTANCE Vm WITH
        NPROC <- 2, PHYSTOP <- 13, NPDE <- 2, NPTE <- 2, PGSIZE <- 2,
        Images <- {<<>>, <<2, 1>>, <<8>>}, Deltas <- {3, -1, -3},
        MaxCalls <- 4, free <- pages, data <- frames, at <- doing, calls <- vmcalls

\* Blocks of up to four units, in a heap that grows by three at a time.
U == INSTANCE Umalloc WITH MaxBrk <- 10, MinCore <- 3, MaxUnits <- 4

\* Two processes with three descriptors each, three files and a page for one pipe.
T == INSTANCE FileTable WITH
        Slots <- {1, 2}, NOFILE <- 3, NFILE <- 3, NPAGE <- 1, MaxCalls <- 6,
        calls <- ncalls, at <- midway

\* One line at a time for a shell with room for pipelines of three, where forks may fail.
Y == INSTANCE ShellParser WITH MAXARGS <- 3
Runs(word) == [Y!execcmd EXCEPT !.argv = <<<<word>>>>]
InFile(c, n) == Y!redircmd(c, <<"f">>, n)
Lines ==
    {Y!pipecmd(Runs("yes"), Y!pipecmd(Runs("cat"), Runs("echo"))),
     Y!pipecmd(InFile(Runs("cat"), 0), InFile([Runs("echo") EXCEPT !.argv = @ \o @], 1)),
     Y!pipecmd(Y!listcmd(Y!execcmd, Runs("nothing")), Y!backcmd(Runs("cat"))),
     InFile(Y!listcmd(Runs("echo"), Y!redircmd(Runs("cat"), <<"absent">>, 0)), 1)}
H == INSTANCE Shell WITH
        Slots <- 1..7, NOFILE <- 5, NFILE <- 6, NPAGE <- 2, MAXARGS <- 3,
        Commands <- Lines, Missing <- {<<"absent">>}, MaxProcs <- 2,
        BadLines <- {<<"cat", "|", ")">>, <<"cat", ">">>, <<"(", "cat">>, <<"cat", "&", "cat">>},
        tab <- stab, state <- sstate

AllInit ==
    /\ part \in {"files", "memory", "heap", "table", "shell"}
    /\ Init /\ V!Init /\ U!Init /\ T!Init /\ H!Init
    /\ part # "files" => \A i \in Inums : inode[i].size = 0
    /\ part # "memory" => taken = {}

AllNext ==
    \/ part = "files" /\ Next /\ UNCHANGED <<part, memory, heap, table, shell>>
    \/ part = "memory" /\ V!Next /\ UNCHANGED <<part, vars, heap, table, shell>>
    \/ part = "heap" /\ U!Next /\ UNCHANGED <<part, vars, memory, table, shell>>
    \/ part = "table" /\ T!Next /\ UNCHANGED <<part, vars, memory, heap, shell>>
    \/ part = "shell" /\ H!Next /\ UNCHANGED <<part, vars, memory, heap, table>>

AllSpec == AllInit /\ [][AllNext]_<<part, vars, memory, heap, table, shell>>

-----------------------------------------------------------------------------
\* kalloc, kfree and the error paths of fork, exec and sbrk: a page is free or held once.
PagesOwnedOnce == part = "memory" => V!TypeOK /\ V!PagesOwnedOnce

\* A process that runs has exactly the pages below its size, with what its own program has put
\* there, the pointers that argptr accepts lead to these, and copyuvm finds them.
OwnMemory == part = "memory" => V!Mapped /\ V!Private /\ V!ArgsMapped /\ V!CopyFindsPages

\* dup, pipe, open, close, fork and exit: a file has as many references as there are
\* descriptors and calls with it, and a pipe is there as long as a file leads to it.
FilesCounted == part = "table" => T!FilesCounted

\* Programs run with their descriptors as the line says, and leave none behind.
ConnectedAsTyped == part = "shell" => H!ConnectedAsTyped /\ H!AllGivenBack

\* malloc and free: every unit of the heap is free, or in one block, or the program's; the
\* free blocks are in the order of their addresses, and no two of them touch.
UnitsOwnedOnce == part = "heap" => U!UnitsOwnedOnce /\ U!InOrder /\ U!Joined
=============================================================================

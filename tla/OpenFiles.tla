----------------------------- MODULE OpenFiles ------------------------------
(***************************************************************************)
(* File descriptors, open files and pipes (file.c, sysfile.c, pipe.c): the *)
(* operations on the tables, as functions of their contents.  A table t is *)
(* a record:                                                               *)
(*   t.ofile[p][fd]   the file of descriptor fd of process p, 0 if none    *)
(*   t.file[f]        struct file: ref, type, pipe, writable               *)
(*   t.ends[pg]       readopen and writeopen of the pipe in page pg, as    *)
(*                    the set of the ends that are open (TRUE: the end     *)
(*                    that is written); empty when the page is no pipe     *)
(*   t.free           the pages that kalloc has                            *)
(*   t.iref           the references to inodes that the files should hold  *)
(* Files that are not pipes have an inode; which one does not matter.      *)
(*                                                                         *)
(* A definition named X_Y is X with the fault Y put in.                    *)
(***************************************************************************)
EXTENDS Integers, FiniteSets, FiniteSetsExt

CONSTANTS
    Slots,      \* the slots of the process table
    NOFILE,     \* descriptors of a process
    NFILE,      \* open files in the system
    NPAGE       \* pages that kalloc has for pipes

Fds == 0..(NOFILE - 1)
AllFiles == 1..NFILE
Frames == 1..NPAGE

Unused == [ref |-> 0, type |-> "FD_NONE", pipe |-> 0, writable |-> FALSE]
NoFds == [fd \in Fds |-> 0]
Empty == [ofile |-> [p \in Slots |-> NoFds], file |-> [f \in AllFiles |-> Unused],
          ends |-> [pg \in Frames |-> {}], free |-> Frames, iref |-> 0]

First(S) == IF S = {} THEN -1 ELSE Min(S)

\* The file that filealloc finds, or -1; its other fields are as fileclose left them.
FreeFile(t) == First({f \in AllFiles : t.file[f].ref = 0})
filealloc(t) == [t EXCEPT !.file[FreeFile(t)].ref = 1]

\* The descriptor that fdalloc finds, or -1.
FreeFd(t, p) == First({fd \in Fds : t.ofile[p][fd] = 0})
fdalloc(t, p, f) == [t EXCEPT !.ofile[p][FreeFd(t, p)] = f]

filedup(t, f) == [t EXCEPT !.file[f].ref = @ + 1]

Dropped_KeepsType(t, f) == [t EXCEPT !.file[f].ref = @ - 1]

\* fileclose with ftable.lock held.
Dropped(t, f) ==
    [t EXCEPT !.file[f].ref = @ - 1, !.file[f].type = IF t.file[f].ref > 1 THEN @ ELSE "FD_NONE"]

pipeclose(t, pg, writable) ==
    LET left == t.ends[pg] \ {writable}
    IN  [t EXCEPT !.ends[pg] = left, !.free = IF left = {} THEN @ \cup {pg} ELSE @]

\* fileclose after it has released ftable.lock: ff is what the file was when its last
\* reference went.
Finished(t, ff) ==
    CASE ff.ref > 1 -> t
      [] ff.type = "FD_PIPE" -> pipeclose(t, ff.pipe, ff.writable)
      [] ff.type = "FD_INODE" -> [t EXCEPT !.iref = @ - 1]
      [] OTHER -> t

fileclose(t, f) == Finished(Dropped(t, f), t.file[f])

\* The part of pipealloc behind its kalloc, which gets page pg: f0 and f1 are its files.
PipeIn(t, pg, f0, f1) ==
    [t EXCEPT !.free = @ \ {pg}, !.ends[pg] = {FALSE, TRUE},
              !.file[f0] = [@ EXCEPT !.type = "FD_PIPE", !.pipe = pg, !.writable = FALSE],
              !.file[f1] = [@ EXCEPT !.type = "FD_PIPE", !.pipe = pg, !.writable = TRUE]]

sys_dup(t, p, fd) == filedup(fdalloc(t, p, t.ofile[p][fd]), t.ofile[p][fd])

\* sys_close from call to return.
sys_close(t, p, fd) ==
    IF t.ofile[p][fd] = 0 THEN t ELSE fileclose([t EXCEPT !.ofile[p][fd] = 0], t.ofile[p][fd])

\* The loop of exit: each descriptor of p takes a reference away, and the files that have no
\* others left are closed.
AllClosed(t, p) ==
    LET own(f) == Cardinality({fd \in Fds : t.ofile[p][fd] = f})
        last == {f \in AllFiles : own(f) > 0 /\ own(f) = t.file[f].ref}
        left == [pg \in Frames |-> t.ends[pg] \
                    {t.file[f].writable : f \in {g \in last : t.file[g].type = "FD_PIPE"
                                                            /\ t.file[g].pipe = pg}}]
    IN  [t EXCEPT
            !.ofile[p] = NoFds,
            !.file = [f \in AllFiles |-> [@[f] EXCEPT
                        !.ref = @ - own(f), !.type = IF f \in last THEN "FD_NONE" ELSE @]],
            !.ends = left,
            !.free = @ \cup {pg \in Frames : left[pg] = {}},
            !.iref = @ - Cardinality({f \in last : t.file[f].type = "FD_INODE"})]

\* The descriptors that np gets from curproc in fork.
Copied(t, curproc, np) ==
    [t EXCEPT
        !.ofile[np] = t.ofile[curproc],
        !.file = [f \in AllFiles |-> [t.file[f] EXCEPT
            !.ref = @ + Cardinality({fd \in Fds : t.ofile[curproc][fd] = f})]]]
=============================================================================

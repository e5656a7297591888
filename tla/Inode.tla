------------------------------- MODULE Inode --------------------------------
(***************************************************************************)
(* Inodes, directories and path names (fs.c), the file table (file.c) and  *)
(* the system calls that change names (sysfile.c): the in-memory inodes    *)
(* with their reference counts and sleep locks, and the inodes and         *)
(* directories on the disk that they stand for.                            *)
(*                                                                         *)
(* What a process does with an inode locked is one step, as long as it     *)
(* does not wait for another lock meanwhile; iput is cut where another     *)
(* process can see it halfway.  Directories are functions from names to    *)
(* inode numbers, 0 for a name that is not there; blocks and sizes are in  *)
(* module FileData, and transactions in module Log: they commit only when  *)
(* no call is in progress, so a crash leaves the disk as it is in a state  *)
(* where every process is idle.                                            *)
(*                                                                         *)
(* A definition named X_Y is X with the fault Y put in; it is used only to *)
(* see that the properties notice.                                         *)
(***************************************************************************)
EXTENDS Integers, Sequences, FiniteSets

CONSTANTS
    Procs,
    Alive,      \* the processes that exist at first, in the root directory
    NINODES,    \* inodes on the disk, 1 is the root directory
    NINODE,     \* in-memory inodes
    NFILE,      \* open files
    Names,      \* names of directory entries, "." and ".." among them
    Programs,   \* bound: what the processes may call, [Procs -> SUBSET calls]
    None        \* nobody, nothing

ROOTINO == 1
Inums == 1..NINODES
Slots == 1..NINODE
Files == 1..NFILE

ASSUME InodeAssumption ==
    /\ Alive \subseteq Procs
    /\ {NINODES, NINODE, NFILE} \subseteq Nat \ {0}
    /\ {".", ".."} \subseteq Names
    /\ None \notin Procs \cup Slots \cup Files

VARIABLES
    dinode,     \* on the disk: the type and nlink of each inode
    entries,    \* on the disk: the directory each inode holds
    inum, ref, mem, lock,   \* struct inode; mem: type and nlink, None if not valid
    fileref, fileip,        \* struct file
    fd, cwd,    \* struct proc: one open file, and the current directory
    at,         \* where each process is: the call, its place, path and inodes
    todo,       \* inodes it has to iput before it goes on
    prog,       \* which of Programs the processes run
    rmdirs      \* whether a directory was ever removed

disk == <<dinode, entries>>
icache == <<inum, ref, mem, lock>>
ftable == <<fileref, fileip>>
vars == <<disk, icache, ftable, fd, cwd, at, todo, prog, rmdirs>>

Free == [type |-> "none", nlink |-> 0]
NoEntries == [n \in Names |-> 0]
Dots(i, parent) == [NoEntries EXCEPT !["."] = i, ![".."] = parent]

\* walk: in namex.  found: namei or nameiparent has returned ip.  bad: at that
\* label of sys_link.  new, made: create has got an inode, has linked it.  exists:
\* create has found one.  victim, gone: sys_unlink has found the inode, has taken
\* its name away.  undp: about to unlock dp and fail.
Idle == [pc |-> "idle", call |-> "none", path |-> <<>>, new |-> <<>>,
         ip |-> None, dp |-> None, src |-> None]

\* The disk as mkfs leaves it, without files; the processes have the root
\* directory as their cwd (userinit, fork).
Init ==
    /\ dinode = [i \in Inums |-> IF i = ROOTINO THEN [type |-> "dir", nlink |-> 1] ELSE Free]
    /\ entries = [i \in Inums |-> IF i = ROOTINO THEN Dots(ROOTINO, ROOTINO) ELSE NoEntries]
    /\ inum = [s \in Slots |-> IF s = 1 THEN ROOTINO ELSE 0]
    /\ ref = [s \in Slots |-> IF s = 1 THEN Cardinality(Alive) ELSE 0]
    /\ mem = [s \in Slots |-> None]
    /\ lock = [s \in Slots |-> None]
    /\ fileref = [f \in Files |-> 0] /\ fileip = [f \in Files |-> None]
    /\ fd = [p \in Procs |-> None]
    /\ cwd = [p \in Procs |-> IF p \in Alive THEN 1 ELSE None]
    /\ at = [p \in Procs |-> Idle]
    /\ todo = [p \in Procs |-> <<>>]
    /\ prog \in Programs
    /\ rmdirs = FALSE

-----------------------------------------------------------------------------
Loads(s) == IF mem[s] = None THEN [mem EXCEPT ![s] = dinode[inum[s]]] ELSE mem

\* iget finds i, or the first slot that is not used.
Gets(i) ==
    IF \E s \in Slots : ref[s] > 0 /\ inum[s] = i
    THEN CHOOSE s \in Slots : ref[s] > 0 /\ inum[s] = i
    ELSE CHOOSE s \in Slots : ref[s] = 0 /\ \A t \in 1..(s - 1) : ref[t] > 0

Recycled_Valid(m, s) == m
Recycled(m, s) == IF ref[s] = 0 THEN [m EXCEPT ![s] = None] ELSE m

\* iget, by a process that has m as the in-memory inodes.  It panics when there is
\* no slot ("iget: no inodes").
iget(i, m) ==
    /\ \E s \in Slots : ref[s] = 0 \/ inum[s] = i
    /\ inum' = [inum EXCEPT ![Gets(i)] = i]
    /\ ref' = [ref EXCEPT ![Gets(i)] = @ + 1]
    /\ mem' = Recycled(m, Gets(i))

Puts(ss) == [k \in DOMAIN ss |-> <<"put", ss[k]>>]

\* p goes on as a, once it has called iput for the inodes ss.
Then(p, a, ss) ==
    /\ at' = [at EXCEPT ![p] = a]
    /\ todo' = [todo EXCEPT ![p] = Puts(ss)]

Ready(p, pc) == at[p].pc = pc /\ todo[p] = <<>>

\* ilock does not have to wait.
CanLock(s) == lock[s] = None

-----------------------------------------------------------------------------
(***************************************************************************)
(* iput(s), for the first inode of todo[p]: acquiresleep and the test; if  *)
(* it has to free the inode, itrunc and iupdate, then valid = 0 and        *)
(* releasesleep; at the end ref--.                                         *)
(***************************************************************************)
Head1(p, step, s) == todo[p] # <<>> /\ Head(todo[p]) = <<step, s>>

Goes(p, step) == todo' = [todo EXCEPT ![p][1][1] = step]

LastRef_Any(s) == mem[s] # None /\ mem[s].nlink = 0

\* valid, no links, and no other reference.
LastRef(s) == mem[s] # None /\ mem[s].nlink = 0 /\ ref[s] = 1

iput(p, s) ==
    /\ Head1(p, "put", s)
    /\ CanLock(s)
    /\ IF LastRef(s) THEN lock' = [lock EXCEPT ![s] = p] /\ Goes(p, "free")
                     ELSE Goes(p, "unref") /\ UNCHANGED lock
    /\ UNCHANGED <<disk, inum, ref, mem, ftable, fd, cwd, at, prog, rmdirs>>

IputFree(p, s) ==
    /\ Head1(p, "free", s)
    /\ Goes(p, "forget")
    /\ entries' = [entries EXCEPT ![inum[s]] = NoEntries]
    /\ mem' = [mem EXCEPT ![s].type = "none"]
    /\ dinode' = [dinode EXCEPT ![inum[s]] = mem'[s]]
    /\ UNCHANGED <<inum, ref, lock, ftable, fd, cwd, at, prog, rmdirs>>

Forgets(s) == [mem EXCEPT ![s] = None]

IputForget(p, s) ==
    /\ Head1(p, "forget", s)
    /\ Goes(p, "unref")
    /\ mem' = Forgets(s)
    /\ lock' = [lock EXCEPT ![s] = None]
    /\ UNCHANGED <<disk, inum, ref, ftable, fd, cwd, at, prog, rmdirs>>

IputUnref(p, s) ==
    /\ Head1(p, "unref", s)
    /\ todo' = [todo EXCEPT ![p] = Tail(@)]
    /\ ref' = [ref EXCEPT ![s] = @ - 1]
    /\ UNCHANGED <<disk, inum, mem, lock, ftable, fd, cwd, at, prog, rmdirs>>

-----------------------------------------------------------------------------
(***************************************************************************)
(* namex                                                                   *)
(***************************************************************************)
Parent(a) == a.call \in {"create", "mkdir", "mknod", "unlink"} \/ a.src # None

\* What follows a failure: sys_link must undo, the other calls return.
Failed(a) == IF a.src # None THEN [Idle EXCEPT !.pc = "bad", !.src = a.src] ELSE Idle

\* namex starts at the root or at the current directory, and may end there.
Starts(a) == [a EXCEPT !.pc = IF a.path = <<>> /\ ~ Parent(a) THEN "found" ELSE "walk"]

Origin(p, abs) == IF abs THEN ROOTINO ELSE inum[cwd[p]]

\* A call with a path name; for link, c.new is the second one, which is relative.
Call(p, c) ==
    /\ Ready(p, "idle") /\ cwd[p] # None /\ c.call \notin {"fork", "exit"}
    /\ iget(Origin(p, c.abs), mem)
    /\ Then(p, Starts([Idle EXCEPT !.call = c.call, !.path = c.path, !.new = c.new,
                                   !.ip = Gets(Origin(p, c.abs))]), <<>>)
    /\ UNCHANGED <<disk, lock, ftable, fd, cwd, prog, rmdirs>>

\* One element of the path.
namex(p) ==
    LET a == at[p]  s == a.ip  m == Loads(s)
        next == entries[inum[s]][Head(a.path)]
    IN
    /\ Ready(p, "walk")
    /\ \/ /\ a.path = <<>>      \* the parent of "/"
          /\ Then(p, Failed(a), <<s>>)
          /\ UNCHANGED <<inum, ref, mem>>
       \/ /\ a.path # <<>> /\ CanLock(s)
          /\ \/ m[s].type # "dir"
             \/ ~ (Parent(a) /\ Len(a.path) = 1) /\ next = 0
          /\ mem' = m
          /\ Then(p, Failed(a), <<s>>)
          /\ UNCHANGED <<inum, ref>>
       \/ /\ a.path # <<>> /\ CanLock(s)
          /\ m[s].type = "dir" /\ Parent(a) /\ Len(a.path) = 1
          /\ mem' = m
          /\ Then(p, [a EXCEPT !.pc = "found"], <<>>)
          /\ UNCHANGED <<inum, ref>>
       \/ /\ a.path # <<>> /\ CanLock(s)
          /\ m[s].type = "dir" /\ ~ (Parent(a) /\ Len(a.path) = 1) /\ next # 0
          /\ iget(next, m)
          /\ Then(p, Starts([a EXCEPT !.path = Tail(a.path), !.ip = Gets(next)]), <<s>>)
    /\ UNCHANGED <<disk, lock, ftable, fd, cwd, prog, rmdirs>>
-----------------------------------------------------------------------------
(***************************************************************************)
(* sys_open without O_CREATE, sys_chdir.  openw: not O_RDONLY.             *)
(***************************************************************************)
CanOpen(p) == fd[p] = None /\ \E f \in Files : fileref[f] = 0

\* filealloc and fdalloc, for the inode s, which p has locked; then iunlock.
Opens(p, s) ==
    LET f == CHOOSE f \in Files : fileref[f] = 0 /\ \A g \in 1..(f - 1) : fileref[g] > 0
    IN  /\ fd' = [fd EXCEPT ![p] = f]
        /\ fileref' = [fileref EXCEPT ![f] = 1]
        /\ fileip' = [fileip EXCEPT ![f] = s]
        /\ Then(p, Idle, <<>>)

\* iunlockput and return -1.
GivesUp(p, s) == Then(p, Idle, <<s>>) /\ UNCHANGED <<fd, ftable>>

sys_open(p) ==
    LET s == at[p].ip IN
    /\ Ready(p, "found") /\ at[p].call \in {"open", "openw"}
    /\ CanLock(s)
    /\ mem' = Loads(s)
    /\ IF CanOpen(p) /\ ~ (mem'[s].type = "dir" /\ at[p].call = "openw")
       THEN Opens(p, s)
       ELSE GivesUp(p, s)
    /\ UNCHANGED <<disk, inum, ref, lock, cwd, prog, rmdirs>>

sys_chdir(p) ==
    LET s == at[p].ip IN
    /\ Ready(p, "found") /\ at[p].call = "chdir"
    /\ CanLock(s)
    /\ mem' = Loads(s)
    /\ IF mem'[s].type = "dir"
       THEN cwd' = [cwd EXCEPT ![p] = s] /\ Then(p, Idle, <<cwd[p]>>)
       ELSE Then(p, Idle, <<s>>) /\ UNCHANGED cwd
    /\ UNCHANGED <<disk, inum, ref, lock, ftable, fd, prog, rmdirs>>

-----------------------------------------------------------------------------
(***************************************************************************)
(* sys_link: nlink++ first, then the new name, or back.                    *)
(***************************************************************************)
\* nlink changes by d, in memory and, by iupdate, on the disk.
Links(m, s, d) ==
    /\ mem' = [m EXCEPT ![s].nlink = @ + d]
    /\ dinode' = [dinode EXCEPT ![inum[s]] = mem'[s]]

sys_link(p) ==
    LET a == at[p]  s == a.ip  m == Loads(s)
        second == Starts([a EXCEPT !.path = a.new, !.src = s, !.ip = cwd[p]])
    IN
    /\ Ready(p, "found") /\ a.call = "link" /\ a.src = None
    /\ CanLock(s)
    /\ \/ /\ m[s].type = "dir"
          /\ mem' = m
          /\ Then(p, Idle, <<s>>)
          /\ UNCHANGED <<dinode, ref>>
       \/ /\ m[s].type # "dir"
          /\ Links(m, s, 1)
          /\ ref' = [ref EXCEPT ![cwd[p]] = @ + 1]      \* idup, in nameiparent(new)
          /\ Then(p, second, <<>>)
    /\ UNCHANGED <<entries, inum, lock, ftable, fd, cwd, prog, rmdirs>>

\* nameiparent has found dp: dirlink.
LinkDir(p) ==
    LET a == at[p]  d == a.ip  n == Head(a.path)  old == entries[inum[d]][n] IN
    /\ Ready(p, "found") /\ a.src # None
    /\ CanLock(d)
    /\ \/ /\ old # 0
          /\ lock' = [lock EXCEPT ![d] = p]
          /\ iget(old, Loads(d))
          /\ Then(p, [a EXCEPT !.pc = "undp", !.dp = d], <<Gets(old)>>)
          /\ UNCHANGED entries
       \/ /\ old = 0
          /\ mem' = Loads(d)
          /\ entries' = [entries EXCEPT ![inum[d]][n] = inum[a.src]]
          /\ Then(p, Idle, <<d, a.src>>)
          /\ UNCHANGED <<lock, inum, ref>>
    /\ UNCHANGED <<dinode, ftable, fd, cwd, prog, rmdirs>>

\* iunlockput(dp), and then bad in sys_link, or return -1.
UnlockDir(p) ==
    LET a == at[p] IN
    /\ Ready(p, "undp")
    /\ lock' = [lock EXCEPT ![a.dp] = None]
    /\ Then(p, Failed(a), <<a.dp>>)
    /\ UNCHANGED <<disk, inum, ref, mem, ftable, fd, cwd, prog, rmdirs>>

LinkUndo_No(s) == mem' = Loads(s) /\ UNCHANGED dinode
LinkUndo(s) == Links(Loads(s), s, -1)

LinkBad(p) ==
    LET s == at[p].src IN
    /\ Ready(p, "bad")
    /\ CanLock(s)
    /\ LinkUndo(s)
    /\ Then(p, Idle, <<s>>)
    /\ UNCHANGED <<entries, inum, ref, lock, ftable, fd, cwd, prog, rmdirs>>

-----------------------------------------------------------------------------
(***************************************************************************)
(* sys_unlink                                                              *)
(***************************************************************************)
sys_unlink(p) ==
    LET a == at[p]  d == a.ip  n == Head(a.path)  i == entries[inum[d]][n] IN
    /\ Ready(p, "found") /\ a.call = "unlink"
    /\ CanLock(d)
    /\ \/ /\ n \in {".", ".."} \/ i = 0
          /\ mem' = Loads(d)
          /\ Then(p, Idle, <<d>>)
          /\ UNCHANGED <<lock, inum, ref>>
       \/ /\ n \notin {".", ".."} /\ i # 0
          /\ lock' = [lock EXCEPT ![d] = p]
          /\ iget(i, Loads(d))
          /\ Then(p, [a EXCEPT !.pc = "victim", !.dp = d, !.ip = Gets(i)], <<>>)
    /\ UNCHANGED <<disk, ftable, fd, cwd, prog, rmdirs>>

isdirempty(i) == \A n \in Names \ {".", ".."} : entries[i][n] = 0

\* The victim is locked: its name goes, and iunlockput(dp).
UnlinkName(p) ==
    LET a == at[p]  s == a.ip  d == a.dp  m == Loads(s)  isdir == m[s].type = "dir" IN
    /\ Ready(p, "victim")
    /\ CanLock(s)
    /\ \/ /\ isdir /\ ~ isdirempty(inum[s])
          /\ mem' = m
          /\ Then(p, [a EXCEPT !.pc = "undp"], <<s>>)
          /\ UNCHANGED <<disk, lock, rmdirs>>
       \/ /\ ~ (isdir /\ ~ isdirempty(inum[s]))
          /\ entries' = [entries EXCEPT ![inum[d]][Head(a.path)] = 0]
          /\ Links(m, d, IF isdir THEN -1 ELSE 0)
          /\ lock' = [lock EXCEPT ![d] = None, ![s] = p]
          /\ Then(p, [a EXCEPT !.pc = "gone"], <<d>>)
          /\ rmdirs' = (rmdirs \/ isdir)
    /\ UNCHANGED <<inum, ref, ftable, fd, cwd, prog>>

UnlinkDone(p) ==
    LET s == at[p].ip IN
    /\ Ready(p, "gone")
    /\ Links(mem, s, -1)
    /\ lock' = [lock EXCEPT ![s] = None]
    /\ Then(p, Idle, <<s>>)
    /\ UNCHANGED <<entries, inum, ref, ftable, fd, cwd, prog, rmdirs>>

-----------------------------------------------------------------------------
(***************************************************************************)
(* create, for sys_open with O_CREATE, sys_mkdir and sys_mknod             *)
(***************************************************************************)
TypeFor(call) == CASE call = "mkdir" -> "dir" [] call = "mknod" -> "dev" [] OTHER -> "file"

Creates(p) == at[p].call \in {"create", "mkdir", "mknod"}

\* ialloc takes the first free inode; it panics when there is none.
FreeInum == CHOOSE i \in Inums : /\ dinode[i].type = "none"
                                 /\ \A j \in 1..(i - 1) : dinode[j].type # "none"

create(p) ==
    LET a == at[p]  d == a.ip  i == entries[inum[d]][Head(a.path)] IN
    /\ Ready(p, "found") /\ Creates(p)
    /\ CanLock(d)
    /\ \/ /\ i # 0
          /\ iget(i, Loads(d))
          /\ Then(p, [a EXCEPT !.pc = "exists", !.ip = Gets(i)], <<d>>)
          /\ UNCHANGED <<dinode, lock>>
       \/ /\ i = 0 /\ \E j \in Inums : dinode[j].type = "none"
          /\ dinode' = [dinode EXCEPT ![FreeInum] = [Free EXCEPT !.type = TypeFor(a.call)]]
          /\ iget(FreeInum, Loads(d))
          /\ lock' = [lock EXCEPT ![d] = p]
          /\ Then(p, [a EXCEPT !.pc = "new", !.dp = d, !.ip = Gets(FreeInum)], <<>>)
    /\ UNCHANGED <<entries, ftable, fd, cwd, prog, rmdirs>>

CreateExists(p) ==
    LET s == at[p].ip IN
    /\ Ready(p, "exists")
    /\ CanLock(s)
    /\ mem' = Loads(s)
    /\ IF at[p].call = "create" /\ mem'[s].type = "file" /\ CanOpen(p)
       THEN Opens(p, s)
       ELSE GivesUp(p, s)
    /\ UNCHANGED <<disk, inum, ref, lock, cwd, prog, rmdirs>>

DotDot(isdir) == IF isdir THEN 1 ELSE 0

\* The new inode is locked, and dp too: nlink, the dots, the name, iunlockput(dp).
CreateLink(p) ==
    LET a == at[p]  s == a.ip  d == a.dp  i == inum[s]
        m == [Loads(s) EXCEPT ![s].nlink = 1]
        isdir == a.call = "mkdir"
    IN
    /\ Ready(p, "new")
    /\ CanLock(s)
    /\ mem' = [m EXCEPT ![d].nlink = @ + DotDot(isdir)]
    /\ dinode' = [dinode EXCEPT ![i] = mem'[s], ![inum[d]] = mem'[d]]
    /\ entries' = [entries EXCEPT ![i] = IF isdir THEN Dots(i, inum[d]) ELSE @,
                                  ![inum[d]][Head(a.path)] = i]
    /\ lock' = [lock EXCEPT ![d] = None, ![s] = p]
    /\ Then(p, [a EXCEPT !.pc = "made"], <<d>>)
    /\ UNCHANGED <<inum, ref, ftable, fd, cwd, prog, rmdirs>>

\* Back in the system call, with the new inode locked.
CreateDone(p) ==
    LET s == at[p].ip IN
    /\ Ready(p, "made")
    /\ lock' = [lock EXCEPT ![s] = None]
    /\ IF at[p].call = "create" /\ CanOpen(p) THEN Opens(p, s) ELSE GivesUp(p, s)
    /\ UNCHANGED <<disk, inum, ref, mem, cwd, prog, rmdirs>>
-----------------------------------------------------------------------------
(***************************************************************************)
(* fileclose, fork and exit                                                *)
(***************************************************************************)
MayCall(p, call) == \E c \in prog[p] : c.call = call

LastClose_Any(f) == TRUE
LastClose(f) == fileref[f] = 1

\* The inodes to iput when p closes its file.
Closes(p) == IF fd[p] # None /\ LastClose(fd[p]) THEN <<fileip[fd[p]]>> ELSE <<>>

Unshared(p) ==
    fileref' = IF fd[p] = None THEN fileref
               ELSE [fileref EXCEPT ![fd[p]] = IF LastClose(fd[p]) THEN 0 ELSE @ - 1]

sys_close(p) ==
    /\ Ready(p, "idle") /\ fd[p] # None
    /\ Unshared(p)
    /\ fd' = [fd EXCEPT ![p] = None]
    /\ Then(p, Idle, Closes(p))
    /\ UNCHANGED <<disk, icache, fileip, cwd, prog, rmdirs>>

\* fork: filedup and idup.
fork(p, q) ==
    /\ Ready(p, "idle") /\ cwd[p] # None
    /\ Ready(q, "idle") /\ cwd[q] = None /\ MayCall(p, "fork")
    /\ fd' = [fd EXCEPT ![q] = fd[p]]
    /\ fileref' = IF fd[p] = None THEN fileref ELSE [fileref EXCEPT ![fd[p]] = @ + 1]
    /\ cwd' = [cwd EXCEPT ![q] = cwd[p]]
    /\ ref' = [ref EXCEPT ![cwd[p]] = @ + 1]
    /\ UNCHANGED <<disk, inum, mem, lock, fileip, at, todo, prog, rmdirs>>

\* exit: fileclose, iput(cwd).
exit(p) ==
    /\ Ready(p, "idle") /\ cwd[p] # None /\ MayCall(p, "exit")
    /\ Unshared(p)
    /\ fd' = [fd EXCEPT ![p] = None]
    /\ cwd' = [cwd EXCEPT ![p] = None]
    /\ Then(p, Idle, Closes(p) \o <<cwd[p]>>)
    /\ UNCHANGED <<disk, icache, fileip, prog, rmdirs>>

Iput(p, s) == iput(p, s) \/ IputFree(p, s) \/ IputForget(p, s) \/ IputUnref(p, s)

InCall(p) ==
    \/ namex(p)
    \/ sys_open(p) \/ sys_chdir(p)
    \/ sys_link(p) \/ LinkDir(p) \/ UnlockDir(p) \/ LinkBad(p)
    \/ sys_unlink(p) \/ UnlinkName(p) \/ UnlinkDone(p)
    \/ create(p) \/ CreateExists(p) \/ CreateLink(p) \/ CreateDone(p)

Next ==
    \/ \E p \in Procs : \E c \in prog[p] : Call(p, c)
    \/ \E p \in Procs : InCall(p) \/ sys_close(p) \/ exit(p)
    \/ \E p \in Procs, s \in Slots : Iput(p, s)
    \/ \E p, q \in Procs : fork(p, q)

Spec == Init /\ [][Next]_vars

-----------------------------------------------------------------------------
\* The type of the inodes, the directories and the calls in progress.
TypeOK ==
    /\ dinode \in [Inums -> [type : {"none", "dir", "file", "dev"}, nlink : Nat]]
    /\ entries \in [Inums -> [Names -> Inums \cup {0}]]
    /\ inum \in [Slots -> Inums \cup {0}] /\ ref \in [Slots -> Nat]
    /\ \A s \in Slots : mem[s] # None => mem[s].nlink \in Nat
    /\ lock \in [Slots -> Procs \cup {None}]
    /\ fileref \in [Files -> Nat]
    /\ fd \in [Procs -> Files \cup {None}] /\ cwd \in [Procs -> Slots \cup {None}]

InKernel(p) == at[p] # Idle \/ todo[p] # <<>>

\* No call is in progress: what the log can commit, and a crash leave.
Quiet == \A p \in Procs : ~ InKernel(p)

\* The pointers to s that the processes and open files have.
Pointers(s) ==
    Cardinality({p \in Procs : cwd[p] = s})
        + Cardinality({f \in Files : fileref[f] > 0 /\ fileip[f] = s})

\* Every way out of every call gives back the references it took, and the locks:
\* ref counts the current directories and open files, fileref the descriptors.
RefsGivenBack ==
    /\ Quiet => \A s \in Slots : ref[s] = Pointers(s)
    /\ \A p \in Procs, s \in Slots : lock[s] = p => InKernel(p)
    /\ \A f \in Files : fileref[f] = Cardinality({p \in Procs : fd[p] = f})

\* icache has one entry for an inode, also while the inode is freed and
\* allocated again.
OneSlotPerInode ==
    \A s, t \in Slots : ref[s] > 0 /\ ref[t] > 0 /\ inum[s] = inum[t] => s = t

Live(i) == dinode[i].type = "dir" /\ dinode[i].nlink > 0

\* The names that directories have for inode i, "." aside.
NamesOf(i) ==
    {<<d, n>> \in Inums \X (Names \ {"."}) : Live(d) /\ entries[d][n] = i}

\* A name leads to an inode that exists, at every moment, and ilock never meets a
\* free one ("ilock: no type"), nor sys_unlink one without links ("unlink: nlink <
\* 1").
NoDangling ==
    /\ \A i \in Inums : NamesOf(i) # {} => dinode[i].type # "none"
    /\ \A s \in Slots :
        mem[s] # None /\ mem[s].type = "none" =>
            \E p \in Procs : Head1(p, "forget", s)
    /\ \A p \in Procs : at[p].pc = "gone" => mem[at[p].ip].nlink > 0

\* When no call is in progress nlink is the number of names, and so after a crash:
\* sys_link counts before it names and undoes it, sys_unlink the other way round.
\* After a directory was removed nlink may be too large: create and sys_link still
\* put names into it.
LinksCounted ==
    Quiet => \A i \in Inums :
        /\ dinode[i].nlink >= Cardinality(NamesOf(i))
        /\ ~ rmdirs => dinode[i].nlink = Cardinality(NamesOf(i))

\* What is in memory is what is on the disk, whenever nobody has the lock (the
\* comment on iupdate: the cache is write-through).
WriteThrough ==
    \A s \in Slots :
        ref[s] > 0 /\ mem[s] # None /\ lock[s] = None => mem[s] = dinode[inum[s]]

\* iput, fs.c:328: "If that was the last reference and the inode has no links to
\* it, free the inode (and its content) on disk."
LastPutFrees ==
    Quiet => \A i \in Inums :
        dinode[i].type # "none" /\ dinode[i].nlink = 0 =>
            \E s \in Slots : ref[s] > 0 /\ inum[s] = i

\* p waits for a sleep lock that q has.
Wants(p) ==
    IF todo[p] # <<>> THEN IF Head(todo[p])[1] = "put" THEN {Head(todo[p])[2]} ELSE {}
    ELSE CASE at[p].pc \in {"walk", "found", "exists", "new", "victim"} -> {at[p].ip}
           [] at[p].pc = "bad" -> {at[p].src}
           [] OTHER -> {}

WaitsFor(p, q) == \E s \in Wants(p) : lock[s] = q

\* The linkunlink test has processes create, link and unlink one name "to look for deadlocks"
\* (usertests.c:855): no two processes wait for each other's locks, and none for its own.
NoDeadlock == \A p, q \in Procs : ~ (WaitsFor(p, q) /\ WaitsFor(q, p))
=============================================================================

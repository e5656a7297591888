-------------------------------- MODULE Log --------------------------------
(***************************************************************************)
(* The write-ahead log of the file system (log.c): concurrent system calls *)
(* grouped into one transaction, commit, crash and recovery.               *)
(*                                                                         *)
(* Each bwrite is one step, atomic with respect to a crash (the disk       *)
(* writes a sector as a whole).  A stretch of code under log.lock is one   *)
(* step.  The buffer cache is seen from above: cache[b] is what bread(b)   *)
(* returns; a buffer that is neither locked nor B_DIRTY can be recycled,   *)
(* and is then read from the disk again.                                   *)
(*                                                                         *)
(* A definition named X_Y is X with the fault Y put in; it is used only to *)
(* see that the properties notice.                                         *)
(***************************************************************************)
EXTENDS Integers, Sequences, FiniteSets

CONSTANTS
    Blocks,         \* home blocks of the file system
    NoBlock,        \* "none", as the buffer a process has locked
    Vals,           \* what a block can contain
    Zero,           \* what mkfs fills the log with
    Procs,          \* processes that make file system calls
    MAXOPBLOCKS,    \* blocks that begin_op reserves for a call
    LOGSIZE,        \* entries of the header
    NLOG,           \* blocks of the log on disk, header included (sb.nlog)
    OpBlocks        \* the most blocks a call really writes

ASSUME LogAssumption ==
    /\ IsFiniteSet(Procs)
    /\ NoBlock \notin Blocks
    /\ Zero \in Vals
    /\ {OpBlocks, MAXOPBLOCKS, LOGSIZE, NLOG} \subseteq Nat
    \* 10 and 30 in param.h; mkfs makes the log LOGSIZE blocks long; the longest call,
    \* a chunk of filewrite, logs fewer blocks than it may (module FileData).
    /\ OpBlocks < MAXOPBLOCKS /\ MAXOPBLOCKS < LOGSIZE /\ LOGSIZE <= NLOG

VARIABLES
    home,       \* disk: the home blocks
    dlog,       \* disk: the data blocks of the log
    dhead,      \* disk: the header, as the sequence block[0..n-1]
    cache,      \* memory: contents of the buffers
    dirty,      \* memory: buffers with B_DIRTY, which bget does not recycle
    lh,         \* memory: log.lh
    outstanding,
    committing,
    phase,      \* where commit or recover_from_log is
    tail,       \* log blocks that the loop of that phase is done with
    pc,         \* where each process is
    buf,        \* the buffer a process has modified and still has locked
    wrote       \* blocks that the call of a process has logged

disk == <<home, dlog, dhead>>
calls == <<pc, buf, wrote>>
vars == <<home, dlog, dhead, cache, dirty, lh, outstanding, committing, phase,
          tail, pc, buf, wrote>>

Phases == {"up", "write_log", "commit", "install", "erase", "done",
           "boot", "recover", "clear"}

\* begin: in begin_op, awake.  sleep: in begin_op, asleep.  op: in a system
\* call.  log_write: past the checks of log_write.  commit: in end_op's commit.
\* panic: in a panic of log_write.  dead: in that of end_op, with log.lock.
PCs == {"idle", "begin", "sleep", "op", "log_write", "commit", "panic", "dead"}

\* log.lock is not lost in a panic.
LockFree == \A p \in Procs : pc[p] # "dead"

\* Calls between begin_op and end_op.
Active == {p \in Procs : pc[p] \in {"op", "log_write", "panic"}}

Init ==
    /\ home \in [Blocks -> Vals]
    /\ dlog = [i \in 1..LOGSIZE |-> Zero]
    /\ dhead = <<>>
    /\ cache = home
    /\ dirty = {}
    /\ lh = <<>>
    /\ outstanding = 0
    /\ committing = FALSE
    /\ phase = "up"
    /\ tail = 0
    /\ pc = [p \in Procs |-> "idle"]
    /\ buf = [p \in Procs |-> NoBlock]
    /\ wrote = [p \in Procs |-> {}]

Logged(h) == {h[i] : i \in 1..Len(h)}

-----------------------------------------------------------------------------
\* wakeup(&log)
Woken(f) == [p \in Procs |-> IF f[p] = "sleep" THEN "begin" ELSE f[p]]

NoSpace_ForNewcomer(n) == n + outstanding * MAXOPBLOCKS > LOGSIZE

\* "this op might exhaust log space; wait for commit."
NoSpace(n) == n + (outstanding + 1) * MAXOPBLOCKS > LOGSIZE

\* log.outstanding += 1
Reserved(n) == n + 1

begin_op(p) ==
    /\ pc[p] \in {"idle", "begin"}
    /\ LockFree
    /\ phase \notin {"boot", "recover", "clear"}
    /\ IF committing \/ NoSpace(Len(lh))
       THEN pc' = [pc EXCEPT ![p] = "sleep"] /\ UNCHANGED <<outstanding, wrote>>
       ELSE /\ pc' = [pc EXCEPT ![p] = "op"]
            /\ wrote' = [wrote EXCEPT ![p] = {}]
            /\ outstanding' = Reserved(outstanding)
    /\ UNCHANGED <<disk, cache, dirty, lh, committing, phase, tail, buf>>

TooBig == Len(lh) >= LOGSIZE \/ Len(lh) >= NLOG - 1

\* A call modifies a buffer that it has locked and calls log_write, which
\* reads log.lh.n and log.outstanding before it takes the lock.
Modify(p, b, v) ==
    /\ pc[p] = "op"
    /\ \A q \in Procs : buf[q] # b
    /\ Cardinality(wrote[p] \cup {b}) <= OpBlocks
    /\ cache' = [cache EXCEPT ![b] = v]
    /\ buf' = [buf EXCEPT ![p] = b]
    /\ pc' = [pc EXCEPT ![p] =
                IF TooBig \/ outstanding < 1 THEN "panic" ELSE "log_write"]
    /\ UNCHANGED <<disk, dirty, lh, outstanding, committing, phase, tail, wrote>>

\* log_write looks for the block in the header before it appends it.
Absorb(b) == IF b \in Logged(lh) THEN lh ELSE Append(lh, b)

log_write(p) ==
    /\ pc[p] = "log_write"
    /\ LockFree
    /\ lh' = Absorb(buf[p])
    /\ dirty' = dirty \cup {buf[p]}
    /\ wrote' = [wrote EXCEPT ![p] = @ \cup {buf[p]}]
    /\ buf' = [buf EXCEPT ![p] = NoBlock]
    /\ pc' = [pc EXCEPT ![p] = "op"]
    /\ UNCHANGED <<disk, cache, outstanding, committing, phase, tail>>

LastOut_Never(n) == TRUE

\* end_op commits if this was the last outstanding operation.
LastOut(n) == n = 0

\* commit does something only for a transaction that wrote something.
Pending(n) == n > 0

end_op(p) ==
    /\ pc[p] = "op"
    /\ LockFree
    /\ outstanding' = outstanding - 1
    /\ IF committing
       THEN /\ pc' = [pc EXCEPT ![p] = "dead"]
            /\ UNCHANGED <<committing, phase, tail>>
       ELSE IF LastOut(outstanding')
       THEN /\ committing' = TRUE
            /\ phase' = IF Pending(Len(lh)) THEN "write_log" ELSE "done"
            /\ tail' = 0
            /\ pc' = [pc EXCEPT ![p] = "commit"]
       ELSE /\ pc' = [Woken(pc) EXCEPT ![p] = "idle"]
            /\ UNCHANGED <<committing, phase, tail>>
    /\ UNCHANGED <<disk, cache, dirty, lh, buf, wrote>>

-----------------------------------------------------------------------------
MoreToLog_OffByOne(t) == t < Len(lh) - 1

MoreToLog(t) == t < Len(lh)

\* commit: one bwrite per step.
write_log ==
    /\ phase = "write_log"
    /\ dlog' = [dlog EXCEPT ![tail + 1] = cache[lh[tail + 1]]]
    /\ tail' = tail + 1
    /\ phase' = IF MoreToLog(tail') THEN "write_log" ELSE "commit"
    /\ UNCHANGED <<home, dhead, cache, dirty, lh, outstanding, committing, calls>>

\* The first write_head: the true point at which the transaction commits.
commit ==
    /\ phase = "commit"
    /\ dhead' = lh
    /\ phase' = "install"
    /\ tail' = 0
    /\ UNCHANGED <<home, dlog, cache, dirty, lh, outstanding, committing, calls>>

\* A turn of the loop of install_trans: the log block is copied into the
\* buffer of its home, which is written and is no longer dirty.
InstallBlock ==
    LET b == lh[tail + 1] IN
    /\ cache' = [cache EXCEPT ![b] = dlog[tail + 1]]
    /\ home' = [home EXCEPT ![b] = dlog[tail + 1]]
    /\ dirty' = dirty \ {b}
    /\ tail' = tail + 1
    /\ UNCHANGED <<dlog, dhead>>

install_trans ==
    /\ phase = "install"
    /\ InstallBlock
    /\ phase' = IF tail' < Len(lh) THEN "install" ELSE "erase"
    /\ UNCHANGED <<lh, outstanding, committing, calls>>

\* log.lh.n = 0 and the second write_head.
erase ==
    /\ phase = "erase"
    /\ lh' = <<>>
    /\ dhead' = <<>>
    /\ phase' = "done"
    /\ UNCHANGED <<home, dlog, cache, dirty, outstanding, committing, tail, calls>>

AfterCommit_NoWakeup(p) == [pc EXCEPT ![p] = "idle"]

\* The rest of end_op.
AfterCommit(p) == [Woken(pc) EXCEPT ![p] = "idle"]

committed(p) ==
    /\ phase = "done"
    /\ pc[p] = "commit"
    /\ LockFree
    /\ committing' = FALSE
    /\ phase' = "up"
    /\ pc' = AfterCommit(p)
    /\ UNCHANGED <<disk, cache, dirty, lh, outstanding, tail, buf, wrote>>

-----------------------------------------------------------------------------
\* Power fails, or the kernel panics and is rebooted: memory is lost.
crash ==
    /\ cache' = home
    /\ dirty' = {}
    /\ lh' = <<>>
    /\ outstanding' = 0
    /\ committing' = FALSE
    /\ phase' = "boot"
    /\ tail' = 0
    /\ pc' = [p \in Procs |-> "idle"]
    /\ buf' = [p \in Procs |-> NoBlock]
    /\ wrote' = [p \in Procs |-> {}]
    /\ UNCHANGED disk

\* recover_from_log: read the header, install what it names, clear it.
read_head ==
    /\ phase = "boot"
    /\ lh' = dhead
    /\ phase' = IF Len(dhead) > 0 THEN "recover" ELSE "clear"
    /\ UNCHANGED <<disk, cache, dirty, outstanding, committing, tail, calls>>

recover_install ==
    /\ phase = "recover"
    /\ InstallBlock
    /\ phase' = IF tail' < Len(lh) THEN "recover" ELSE "clear"
    /\ UNCHANGED <<lh, outstanding, committing, calls>>

recover_clear ==
    /\ phase = "clear"
    /\ lh' = <<>>
    /\ dhead' = <<>>
    /\ phase' = "up"
    /\ UNCHANGED <<home, dlog, cache, dirty, outstanding, committing, tail, calls>>

-----------------------------------------------------------------------------
Next ==
    \/ \E p \in Procs : begin_op(p) \/ log_write(p) \/ end_op(p) \/ committed(p)
    \/ \E p \in Procs, b \in Blocks, v \in Vals : Modify(p, b, v)
    \/ write_log
    \/ commit
    \/ install_trans
    \/ erase
    \/ read_head
    \/ recover_install
    \/ recover_clear
    \/ crash

Spec == Init /\ [][Next]_vars

-----------------------------------------------------------------------------
\* The type of the disk, the memory and the counters of log.c.
TypeOK ==
    /\ home \in [Blocks -> Vals]
    /\ dlog \in [1..LOGSIZE -> Vals]
    /\ dhead \in Seq(Blocks)
    /\ cache \in [Blocks -> Vals]
    /\ dirty \subseteq Blocks
    /\ lh \in Seq(Blocks)
    /\ outstanding \in Nat
    /\ committing \in BOOLEAN
    /\ phase \in Phases
    /\ tail \in 0..LOGSIZE
    /\ pc \in [Procs -> PCs]
    /\ buf \in [Procs -> Blocks \cup {NoBlock}]
    /\ wrote \in [Procs -> SUBSET Blocks]

\* What a reboot makes of the disk: the home blocks, and over them the log
\* blocks that the header names.
Recovered ==
    [b \in Blocks |->
        IF b \in Logged(dhead)
        THEN dlog[CHOOSE i \in 1..Len(dhead) :
                    /\ dhead[i] = b
                    /\ \A j \in (i + 1)..Len(dhead) : dhead[j] # b]
        ELSE home[b]]

Atomic ==
    INSTANCE AtomicDisk WITH
        durable <- Recovered,
        current <- IF phase \in {"boot", "recover", "clear"} THEN Recovered ELSE cache,
        active <- Active

\* log.c implements AtomicDisk, whatever the moment of a crash, a crash in the
\* middle of recovery included.
ImplementsAtomicDisk == Atomic!Spec

\* Neither "too big a transaction" nor "log_write outside of trans" nor
\* "log.committing": the reservation of begin_op keeps every call clear of the
\* panics of log_write and end_op, although log_write checks without the lock.
NoPanic == \A p \in Procs : pc[p] \notin {"panic", "dead"}

\* The log blocks never run past the log area into the inode blocks that
\* follow it on disk.
LogFits == Len(lh) <= NLOG - 1 /\ Len(lh) <= LOGSIZE

\* A process asleep in begin_op has somebody to wake it: a call in progress or
\* a commit.
SleeperHasWaker ==
    (\E p \in Procs : pc[p] = "sleep") =>
        committing \/ Active # {}

\* outstanding counts the calls between begin_op and end_op, and there are none
\* during a commit, so the commit copies no half-done call.
CommitAlone ==
    /\ outstanding = Cardinality(Active)
    /\ committing => outstanding = 0

\* When no call is in progress and no commit either, everything the calls wrote
\* is at home, the log is empty and no buffer is pinned.
QuietMeansInstalled ==
    phase = "up" /\ outstanding = 0 =>
        home = cache /\ dhead = <<>> /\ lh = <<>> /\ dirty = {}

\* begin_op, end_op and commit: a commit meets no call in progress, a call that waits has
\* somebody to wake it, and between the two everything logged is installed.
LogSound == TypeOK /\ CommitAlone /\ SleeperHasWaker /\ QuietMeansInstalled

-----------------------------------------------------------------------------
(***************************************************************************)
(* Fairness: every call ends, a commit and a recovery go on, a process     *)
(* that is awake in begin_op gets log.lock.  Crashes need not happen.      *)
(***************************************************************************)
Fairness ==
    /\ WF_vars(write_log \/ commit \/ install_trans \/ erase)
    /\ WF_vars(read_head \/ recover_install \/ recover_clear)
    /\ \A p \in Procs :
        /\ WF_vars(log_write(p) \/ committed(p))
        /\ SF_vars(end_op(p))

FairSpec == Spec /\ Fairness

\* Whoever sleeps in begin_op is woken (or the machine reboots).
SleeperWoken == \A p \in Procs : pc[p] = "sleep" ~> pc[p] # "sleep"
=============================================================================

------------------------------- MODULE Bcache -------------------------------
(***************************************************************************)
(* The buffer cache (bio.c) on top of the disk driver (ide.c, or memide.c  *)
(* in a kernel built with the disk in memory), with the processes that     *)
(* read and write blocks through it.                                       *)
(*                                                                         *)
(* A stretch of code under bcache.lock or idelock is one step, and so is   *)
(* getting or giving up the sleep lock of a buffer (module Sleeplock).     *)
(*                                                                         *)
(* A definition named X_Y is X with the fault Y put in; it is used only to *)
(* see that the properties notice.                                         *)
(***************************************************************************)
EXTENDS Integers, Sequences, FiniteSets

CONSTANTS
    Procs,
    NBUF,       \* number of buffers
    Blocks,     \* the blocks of the file system
    Written,    \* bound: the blocks that are ever written
    BadBlocks,  \* blocks that the disk fails to read
    Values,     \* what a block can hold
    Zero,       \* what a buffer holds that was never used
    Image,      \* what the disk holds at boot
    MaxPinned,  \* bound: the most blocks the log has pinned with B_DIRTY
    Nests,      \* the pairs <<j, k>> of blocks where k is taken with j held
    None        \* nobody, nothing

Bufs == 1..NBUF

\* A process has up to two buffers: the second while it holds the first.
Uses == Procs \X {1, 2}

\* What idestart tells the disk.
Commands == [buf : Bufs, blk : Blocks, write : BOOLEAN, data : Values]

ASSUME BcacheAssumption ==
    /\ NBUF \in Nat \ {0} /\ IsFiniteSet(Procs)
    /\ BadBlocks \subseteq Blocks /\ Written \subseteq Blocks /\ Nests \subseteq Blocks \X Blocks
    /\ Zero \in Values /\ Image \in [Blocks -> Values]
    /\ None \notin Uses \cup Blocks \cup Bufs \cup Commands

VARIABLES
    blockno, valid, dirty, refcnt, lock, data,  \* struct buf
    lru,        \* the list of buffers, the most recently used first
    idequeue,   \* the buffers that wait for the disk
    command,    \* what idestart gave the disk to do
    disk,       \* the contents of the blocks on the disk
    driver,     \* "ide" or "mem": ide.o or memide.o is linked in
    pc, buf     \* of each use: where the process is with it, and its buffer

vars == <<blockno, valid, dirty, refcnt, lock, data, lru, idequeue, command, disk,
          driver, pc, buf>>

(***************************************************************************)
(* lock: bget has chosen a buffer, in acquiresleep.  rw: about to call     *)
(* iderw, with the buffer locked.  sleep, woken: in iderw.  held: has the  *)
(* buffer from bread.  unref: in brelse, the sleep lock given up.          *)
(***************************************************************************)
PCs == {"idle", "lock", "rw", "sleep", "woken", "held", "unref"}

\* binit puts each buffer in front of the ones before it; no buffer has a block.
binit ==
    /\ blockno = [b \in Bufs |-> None]
    /\ valid = [b \in Bufs |-> FALSE] /\ dirty = [b \in Bufs |-> FALSE]
    /\ refcnt = [b \in Bufs |-> 0]
    /\ lock = [b \in Bufs |-> None]
    /\ lru = [i \in Bufs |-> NBUF + 1 - i]

Init ==
    /\ binit
    /\ data = [b \in Bufs |-> Zero]
    /\ disk = Image
    /\ idequeue = <<>> /\ command = None
    /\ driver \in {"ide", "mem"}
    /\ pc = [u \in Uses |-> "idle"]
    /\ buf = [u \in Uses |-> None]

Other(u) == <<u[1], 3 - u[2]>>

\* The process is not in a call of the cache about its other buffer.
Runs(u) == pc[Other(u)] \in {"idle", "held"}

Go(u, from, to) == pc[u] = from /\ pc' = [pc EXCEPT ![u] = to]

ide == <<idequeue, command, disk>>

-----------------------------------------------------------------------------
\* First loop of bget.
Cached(k) == {b \in Bufs : blockno[b] = k}

Recyclable_Dirty(b) == refcnt[b] = 0
Recyclable(b) == refcnt[b] = 0 /\ ~ dirty[b]

\* Second loop of bget, from the least recently used.
Victim == lru[CHOOSE i \in Bufs : /\ Recyclable(lru[i])
                                  /\ \A j \in (i + 1)..NBUF : ~ Recyclable(lru[j])]

Reset_KeepsFlags(b) == UNCHANGED <<valid, dirty>>
Reset(b) == valid' = [valid EXCEPT ![b] = FALSE] /\ dirty' = [dirty EXCEPT ![b] = FALSE]

\* The callers of bread: write_log and install_trans have a block of the log and read its
\* home, bmap and itrunc have an indirect block and read a bitmap, or the block that is zeroed.
Asks(u, k) ==
    \/ u[2] = 1 /\ pc[Other(u)] = "idle"
    \/ u[2] = 2 /\ pc[Other(u)] = "held" /\ <<blockno[buf[Other(u)]], k>> \in Nests

\* bget up to release(&bcache.lock).
bget(u, k) ==
    /\ Asks(u, k)
    /\ \/ \E b \in Cached(k) :
              /\ Go(u, "idle", "lock")
              /\ buf' = [buf EXCEPT ![u] = b]
              /\ refcnt' = [refcnt EXCEPT ![b] = @ + 1]
              /\ UNCHANGED <<blockno, valid, dirty>>
       \/ /\ Cached(k) = {} /\ \E b \in Bufs : Recyclable(b)
          /\ Go(u, "idle", "lock")
          /\ buf' = [buf EXCEPT ![u] = Victim]
          /\ blockno' = [blockno EXCEPT ![Victim] = k]
          /\ Reset(Victim)
          /\ refcnt' = [refcnt EXCEPT ![Victim] = 1]
    /\ UNCHANGED <<lock, data, lru, ide, driver>>

\* acquiresleep in bget, and the test of B_VALID in bread.
bread(u) ==
    LET b == buf[u] IN
    /\ Go(u, "lock", IF valid[b] THEN "held" ELSE "rw")
    /\ lock[b] = None
    /\ lock' = [lock EXCEPT ![b] = u]
    /\ UNCHANGED <<blockno, valid, dirty, refcnt, data, lru, ide, driver, buf>>

\* The caller changes the block and calls log_write, which sets B_DIRTY.
log_write(u, v) ==
    LET b == buf[u] IN
    /\ pc[u] = "held" /\ Runs(u) /\ blockno[b] \in Written
    /\ dirty[b] \/ Cardinality({c \in Bufs : dirty[c]}) < MaxPinned
    /\ data' = [data EXCEPT ![b] = v]
    /\ dirty' = [dirty EXCEPT ![b] = TRUE]
    /\ UNCHANGED <<blockno, valid, refcnt, lock, lru, ide, driver, pc, buf>>

\* The log changes the block, or takes it as it is, and calls bwrite.
bwrite(u, v) ==
    LET b == buf[u] IN
    /\ Go(u, "held", "rw") /\ Runs(u)
    /\ blockno[b] \in Written
    /\ data' = [data EXCEPT ![b] = v]
    /\ dirty' = [dirty EXCEPT ![b] = TRUE]
    /\ UNCHANGED <<blockno, valid, refcnt, lock, lru, ide, driver, buf>>

\* brelse up to releasesleep.
brelse(u) ==
    /\ Go(u, "held", "unref") /\ Runs(u)
    /\ lock' = [lock EXCEPT ![buf[u]] = None]
    /\ UNCHANGED <<blockno, valid, dirty, refcnt, data, lru, ide, driver, buf>>

\* b is taken out of the list and put in front; those that were in front of it move up.
MovesToFront(b) ==
    LET k == CHOOSE i \in Bufs : lru[i] = b
    IN  [i \in Bufs |-> IF i = 1 THEN b ELSE IF i <= k THEN lru[i - 1] ELSE lru[i]]

Unref_Contended(b) == IF lock[b] = None THEN [refcnt EXCEPT ![b] = @ - 1] ELSE refcnt
Unref(b) == [refcnt EXCEPT ![b] = @ - 1]

\* brelse, with bcache.lock.
BrelseUnref(u) ==
    LET b == buf[u] IN
    /\ Go(u, "unref", "idle")
    /\ refcnt' = Unref(b)
    /\ lru' = IF refcnt'[b] = 0 THEN MovesToFront(b) ELSE lru
    /\ buf' = [buf EXCEPT ![u] = None]
    /\ UNCHANGED <<blockno, valid, dirty, lock, data, ide, driver>>

-----------------------------------------------------------------------------
\* idestart(b): the disk has the command, and the data of a write.
Command(b) == [buf |-> b, blk |-> blockno[b], write |-> dirty[b], data |-> data[b]]

Needed(b) == ~ (valid[b] /\ ~ dirty[b])

\* iderw, from the call to the first sleep.
iderw(u) ==
    LET b == buf[u] IN
    /\ driver = "ide"
    /\ Go(u, "rw", "sleep")
    /\ idequeue' = Append(idequeue, b)
    /\ command' = IF idequeue = <<>> THEN Command(b) ELSE command
    /\ UNCHANGED <<blockno, valid, dirty, refcnt, lock, data, lru, disk, driver, buf>>

\* iderw of memide.c: at once.
MemRw(u) ==
    LET b == buf[u] IN
    /\ driver = "mem"
    /\ Go(u, "rw", "held")
    /\ \/ /\ dirty[b]
          /\ disk' = [disk EXCEPT ![blockno[b]] = data[b]]
          /\ UNCHANGED data
       \/ /\ ~ dirty[b]
          /\ data' = [data EXCEPT ![b] = disk[blockno[b]]]
          /\ UNCHANGED disk
    /\ dirty' = [dirty EXCEPT ![b] = FALSE]
    /\ valid' = [valid EXCEPT ![b] = TRUE]
    /\ UNCHANGED <<blockno, refcnt, lock, lru, idequeue, command, driver, buf>>

\* The while of iderw.
SleepsOn(b) == Needed(b)

\* iderw with idelock again, after a wakeup.
IderwWoken(u) ==
    /\ Go(u, "woken", IF SleepsOn(buf[u]) THEN "sleep" ELSE "held")
    /\ UNCHANGED <<blockno, valid, dirty, refcnt, lock, data, lru, ide, driver, buf>>

\* insl: not for a write, nor when idewait(1) reports an error.
Transfers(b) == ~ dirty[b] /\ blockno[b] \notin BadBlocks

StartNext_No(q) == None

\* idestart(idequeue)
StartNext(q) == IF q = <<>> THEN None ELSE Command(Head(q))

\* The disk has done its command, and interrupts.
ideintr ==
    LET b == Head(idequeue) IN
    /\ command # None
    /\ disk' = IF command.write THEN [disk EXCEPT ![command.blk] = command.data] ELSE disk
    /\ idequeue' = Tail(idequeue)
    /\ data' = IF Transfers(b) THEN [data EXCEPT ![b] = disk[command.blk]] ELSE data
    /\ valid' = [valid EXCEPT ![b] = TRUE]
    /\ dirty' = [dirty EXCEPT ![b] = FALSE]
    /\ pc' = [u \in Uses |-> IF pc[u] = "sleep" /\ buf[u] = b THEN "woken" ELSE pc[u]]
    /\ command' = StartNext(Tail(idequeue))
    /\ UNCHANGED <<blockno, refcnt, lock, lru, driver, buf>>

\* kill makes a sleeper runnable.
Kill(u) ==
    /\ Go(u, "sleep", "woken")
    /\ UNCHANGED <<blockno, valid, dirty, refcnt, lock, data, lru, ide, driver, buf>>

Running(u) == bread(u) \/ BrelseUnref(u) \/ iderw(u) \/ MemRw(u) \/ IderwWoken(u)

Step(u) ==
    \/ \E k \in Blocks : bget(u, k)
    \/ \E v \in Values : log_write(u, v) \/ bwrite(u, v)
    \/ brelse(u)
    \/ Running(u)
    \/ Kill(u)

Next ==
    \/ \E u \in Uses : Step(u)
    \/ ideintr

Spec == Init /\ [][Next]_vars

-----------------------------------------------------------------------------
\* The type of the buffers, the disk queue and the calls in progress.
TypeOK ==
    /\ blockno \in [Bufs -> Blocks \cup {None}]
    /\ valid \in [Bufs -> BOOLEAN] /\ dirty \in [Bufs -> BOOLEAN]
    /\ refcnt \in [Bufs -> 0..Cardinality(Uses)]
    /\ lock \in [Bufs -> Uses \cup {None}]
    /\ data \in [Bufs -> Values] /\ disk \in [Blocks -> Values]
    /\ lru \in [Bufs -> Bufs]
    /\ idequeue \in Seq(Bufs)
    /\ command \in Commands \cup {None}
    /\ driver \in {"ide", "mem"}
    /\ pc \in [Uses -> PCs] /\ buf \in [Uses -> Bufs \cup {None}]

\* bget never gives one block two buffers, however the searches of two processes
\* and the recycling interleave.
OneBufferPerBlock ==
    \A a, b \in Bufs : blockno[a] = blockno[b] /\ a # b => blockno[a] = None

\* refcnt counts the processes between bget and the end of brelse, and the list
\* keeps every buffer: what bget takes for unused is unused.
RefsCounted ==
    /\ \A b \in Bufs : refcnt[b] = Cardinality({u \in Uses : buf[u] = b})
    /\ \A b \in Bufs : \E i \in Bufs : lru[i] = b

\* A buffer that claims to hold its block does: unless the log has pinned a newer
\* version or a write is on its way, it has what the disk has, also after it was
\* recycled.  A block that the disk cannot read is the exception: ideintr sets
\* B_VALID all the same.
Coherent ==
    \A b \in Bufs :
        valid[b] /\ ~ dirty[b] /\ blockno[b] \notin BadBlocks => data[b] = disk[blockno[b]]

\* What a process that calls bread for block k would find.
Current(k) ==
    IF \E b \in Bufs : blockno[b] = k /\ (valid[b] \/ dirty[b])
    THEN data[CHOOSE b \in Bufs : blockno[b] = k]
    ELSE disk[k]

\* The contents of a block change only by a step of the process that has it from
\* bread: recycling, the disk and the other processes never change them.
OnlyHolderChanges ==
    [][\A k \in Blocks \ BadBlocks :
        Current(k)' # Current(k) =>
            \E u \in Uses : pc[u] = "held" /\ blockno[buf[u]] = k]_vars

\* bread and iderw return with the block asked for, valid and locked for nobody
\* else.
HeldIsValid ==
    \A u \in Uses :
        pc[u] = "held" => valid[buf[u]] /\ lock[buf[u]] = u

\* The disk works on the head of idequeue, and a process asleep in iderw has its
\* buffer in the queue: no request is forgotten and no wakeup lost.
DiskBusy ==
    /\ idequeue # <<>> => command # None /\ command = Command(Head(idequeue))
    /\ \A u \in Uses :
        pc[u] = "sleep" => \E i \in DOMAIN idequeue : idequeue[i] = buf[u]

\* bget runs out of buffers ("bget: no buffers") only when the pinned blocks and
\* the buffers in use, up to two for each process, are all there are: no buffer
\* leaks.  And iderw is never called with nothing to do (its panic).
NoPanic ==
    /\ (\A b \in Bufs : ~ Recyclable(b)) =>
        Cardinality({b \in Bufs : dirty[b] /\ refcnt[b] = 0})
            + Cardinality({u \in Uses : pc[u] # "idle"}) >= NBUF
    /\ \A u \in Uses : pc[u] = "rw" => Needed(buf[u])

\* bget, bread and iderw: a block has one buffer, which holds what the disk holds unless it is
\* dirty, is valid for the process that has it, and is queued as long as somebody waits for it.
CacheCoherent == OneBufferPerBlock /\ Coherent /\ HeldIsValid /\ DiskBusy

\* brelse gives back what bget took, so that bget does not come to its panic.
BuffersSuffice == TypeOK /\ RefsCounted /\ NoPanic

-----------------------------------------------------------------------------
(***************************************************************************)
(* Fairness: a process in the kernel goes on, and gets a sleep lock that   *)
(* is free again and again; the caller of bread releases the buffer; the   *)
(* disk does what it was told to.                                          *)
(***************************************************************************)
Fairness ==
    /\ \A u \in Uses : SF_vars(Running(u)) /\ SF_vars(brelse(u))
    /\ WF_vars(ideintr)

FairSpec == Spec /\ Fairness

\* bread and bwrite return.
DiskAnswers == \A u \in Uses : pc[u] \in {"lock", "rw", "sleep", "woken"} ~> pc[u] = "held"
=============================================================================

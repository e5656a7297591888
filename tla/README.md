# A verification of the xv6 kernel with the lottery scheduler

The repository is the xv6 teaching kernel for x86 with a lottery scheduler:
`tickets` and `ticks` in `struct proc`, `settickets`, `getpinfo` and `ps`. This
directory holds TLA+ models of the kernel and of its shell and allocator,
configurations that check them with TLC, and proofs that TLAPS checks.
`PROJECT.json` lists the components, runs, mutants, findings, hazards and
theorems, and maps every definition to the lines it models.

## The system

| Part | State | Operations | What is hard about it |
|---|---|---|---|
| Process table, scheduler (`proc.c`, `trap.c`) | `ptable`, `nextpid`, `c->proc`, `ptable.lock` | `allocproc` `fork` `exit` `wait` `sleep` `wakeup` `kill` `yield` `scheduler` `settickets` | the lock changes hands in `swtch`; unlocked error paths; lost wakeups; orphans; the int sum of the tickets |
| Process listing (`fillpstat`, `ulib.c`) | a copy of the table | `fillpstat` `ps` | holes in the table |
| Spin locks (`spinlock.c`) | `locked`, `ncli`, `intena` | `acquire` `release` `pushcli` `popcli` | nesting, interrupts, switches between threads |
| Sleep locks (`sleeplock.c`) | `locked`, `pid`, `lk` | `acquiresleep` `releasesleep` `holdingsleep` | two spin locks swapped inside `sleep` |
| Log (`log.c`) | header, log and home blocks, `outstanding`, `committing` | `begin_op` `log_write` `end_op` `commit`, recovery | crashes, grouping of calls, space |
| Buffer cache, disk (`bio.c`, `ide.c`, `memide.c`) | buffers, LRU list, request queue | `bget` `bread` `bwrite` `brelse` `iderw` `ideintr` | pinned buffers, interrupt against sleep |
| Inodes, directories (`fs.c`, `sysfile.c`) | inode cache, link counts, directories | `iget` `ilock` `iput` `namex` `link` `unlink` `create` `open` | reference counts seen halfway, lock order |
| Files (`fs.c`, `file.c`, `mkfs.c`) | bitmap, block numbers, offsets | `balloc` `bmap` `itrunc` `readi` `writei` `filewrite` | full disk, chunks, indirect blocks |
| Descriptors, pipes (`file.c`, `sysfile.c`, `pipe.c`) | `ofile`, `ftable`, `data`, `nread`, `nwrite` | `fdalloc` `filealloc` `dup` `close` `pipe` `pipewrite` `piperead` | counts, error paths, wakeups, hang-up, wrap-around |
| Memory (`kalloc.c`, `vm.c`, `exec.c`, `syscall.c`) | free list, page tables, `sz` | `growproc` `copyuvm` `allocuvm` `deallocuvm` `exec` `argptr` | running out half-way |
| Console, clock (`console.c`, `trap.c`, `sysproc.c`) | ring of characters, `ticks` | `consoleintr` `consoleread` `sys_sleep` | interrupts, kill, unsigned arithmetic |
| User level (`umalloc.c`, `sh.c`, `init.c`) | free list; descriptors of each process | `malloc` `free`; `parsecmd` `runcmd` | coalescing; pipes that are left open |

The parts meet in `sleep`, `wakeup` and `kill`: pipes, log, sleep locks, disk,
console and clock all wait with them. Inodes and buffers are guarded by sleep locks;
file system calls write through the log; `exit` closes files, hence pipes; the shell
makes its pipelines out of `fork`, `pipe`, `dup` and `close`.

## Modules

| Module | What it is |
|---|---|
| `Proc`, `Pstat` | process table, scheduler, the checks of `trap`; what `getpinfo` and `ps` show |
| `ProcProofs` | inductive invariant of `Proc`, its lemmas, the theorems; the lottery |
| `Spinlock` | spin locks and interrupt flags, instruction by instruction |
| `Sleeplock`, `Mutex`, `SleeplockProofs` | sleep locks, the lock they implement, the theorems |
| `Log`, `AtomicDisk`, `LogProofs` | the log, the disk with atomic calls it implements, the theorems |
| `Bcache`, `BcacheProofs` | buffer cache and disk driver, the theorems |
| `Inode` | inodes, directories, path names and the calls that change names |
| `FileData` | blocks of files, `filewrite` and `fileread`, the image that `mkfs` makes |
| `FileDataBlocks`, `FileDataWrites`, `FileDataProofs` | its proofs: block numbers, `bmap` and the image; the invariant and `writei`; the other steps and the theorems |
| `OpenFiles`, `FileTable` | operations on descriptors, files and ends of pipes; processes that use them |
| `Pipe`, `ByteQueue`, `PipeProofs` | the bytes of a pipe, the bounded queue it implements, the theorems |
| `Vm` | pages and address spaces |
| `Console`, `Tty` | console input, and the line discipline it implements |
| `Clock` | the tick count and `sys_sleep` |
| `Umalloc` | `malloc` and `free` |
| `ShellParser`, `Shell` | the parser of the shell; init, the shell and the processes of a line |
| `MCKernel`, `MCLottery`, `MCWait`, `MCLog`, `MCBcache`, `MCInode`, `MCSpace` | instances for TLC |

A definition `X_Y` is `X` with a plausible bug `Y`; each property is known to be
broken by one of them.

`MCKernel`, `MCWait` and `MCSpace` hold several components side by side. In one
behaviour the component named by `part` takes steps and the others stay as they are,
so that the number of states is the sum, and not the product, of those of the
components.

### Proc, Pstat

The variables are the fields of `struct proc` as functions of the slot, and
`nextpid`, `c->proc` (`cpu`), the holder of `ptable.lock`, the place of each kernel
thread (`pc`) and the local `np` of `fork`. A section under the lock is one step.
`swtch` passes the lock on, so each side of it is a step: `Dispatch` gives the CPU
and the lock to a process; `Resume`, `WaitResume` or `SleepResume` is what that
process does before it releases; `Yield`, `ExitFinish` and the sleeps take the lock
and leave it with the CPU for `SchedReturn`. What `fork` does without the lock
(`ForkFail`, `ForkFill`) is a step that does not wait for it. The lottery is exact:
partial sums with int wrap-around, any winning ticket below the total, the first
process past it. `init` calls `exit` when `fork` fails, as `init.c` does; a panic
stops its CPU with the process at `pc = "panic"`, and the others may stop at any
point (`Frozen`). `Pstat` derives the rows of `fillpstat` and the output of `ps` from
a state.

Left out: memory, files, names and trap frames, which other modules have; where
`exit` sleeps while it closes files (that delays `ExitFinish` and no more); the
generator `random` (any draw). `ticks`, an int, is counted modulo its number of
values from 0.

### Spinlock, Sleeplock

In `Spinlock` a thread is the sequence of operations it still has to do: `cli`,
`xchg`, the stores of `acquire` and `release`, `swtch`. An interrupt puts the
operations of the handler in front. In `Sleeplock` both spin locks are explicit, and
each acquire, release and test is a step, so the order "take `ptable.lock`, then
release `lk`" in `sleep` is visible. `Kill` wakes a sleeper at any time.

### Log, Bcache

In `Log` every `bwrite` is a step and a crash can come before it;
`recover_from_log` is modelled write by write and can be cut short too. `cache` is
what `bread` returns. `log_write` reads `log.lh.n` before it takes the lock, hence
`Modify` and `log_write` are two steps. `NLOG` (superblock) and `LOGSIZE` (header)
differ, as in the code. Refinement: the durable state of `AtomicDisk` is what a
reboot would make of the disk (`Recovered`), its current state is the cache.

`Bcache` is the layer below: buffers in LRU order, reference counts, the flags
`B_VALID` and `B_DIRTY`, the request queue and the interrupt. A block that cannot be
read, kills, and the driver of the disk in memory are inputs. `log_write` appears in
it as what pins a buffer. A process has up to two buffers (`Uses`): `install_trans` and
`write_log` have a block of the log and read its home, `bmap` and `itrunc` have an
indirect block and read the bitmap, or the block that `balloc` zeroes. No caller has
three. The constant `Nests` has the pairs of blocks that are taken so, and the two may
be released in either order.

### Inode, FileData

In `Inode` what a process does with an inode locked is one step as long as it does
not wait for another lock; `iput` is cut where others see it halfway. Directories are
functions from names to inode numbers. `FileData` has the contents: one block of
`writei` is one step, `filewrite` works in chunks, `itrunc` frees, and the initial
states are images made by `mkfs`. A crash needs no step in these two modules: by
`Log`, it leaves the disk as it is in a state where no call is in progress.

### OpenFiles, FileTable, Pipe

`OpenFiles` defines `filealloc`, `fdalloc`, `filedup`, `fileclose`, `pipealloc` and
`pipeclose` as functions of the tables. `FileTable` uses them in steps that end where
a process lets others in: `fileclose` releases `ftable.lock` before `pipeclose` or
`iput`, and `sys_pipe` allocates one thing after another, each of which can fail. In
`Pipe`, `pipewrite` and `piperead` run under `p->lock` from a call or wakeup to the
return or the sleep; between the check of `killed` and the sleep is a step boundary,
since `kill` does not take `p->lock`.

### Vm, Umalloc

`Vm` has the pages of every address space: the directory, page tables, kernel stack
and user pages. Each step allocates for at most one user page, so two processes
interleave inside `fork`, `exec` and `sbrk`, and memory runs out at any point of
them. A program that has no page to run in (`CanRun`), as after `sbrk` down to size 0,
makes no call any more: its next instruction faults and `trap` kills it. `Umalloc` is the circular free list of `malloc`, with calls of `sbrk` by the
program itself in between.

### Console, Clock

`Console` is the ring between `consoleintr` and `consoleread`, with indices that wrap
around; refinement of `Tty`, a line that can be edited until it is ended. `Clock` is
the tick interrupt and `sys_sleep`, with the unsigned comparison.

### ShellParser, Shell

A line is a sequence of symbols; the parser is the recursive descent of `sh.c` with
its positions, and fails where the code panics. `Shell` turns the parsed command into
the system calls that `runcmd` makes, in their order, one call a step, on the tables
of `OpenFiles`. `init` adopts and reaps. The programs are external: `echo` writes,
`cat` copies, `yes` writes until it cannot.

## Runs

| Run | Bounds | Shows |
|---|---|---|
| `kernel` | process table with 4 slots, 2 CPUs and a kill; 2 CPUs and 2 threads on spin locks; 2 sleepers and ticks modulo 3; 2 readers of a ring of 3; pipes of 2 bytes; a log of 5 blocks | nobody is lost, run twice or asleep without a reason; the table, the locks and the log stay consistent; the console implements `Tty`, the pipe `ByteQueue` |
| `lottery` | 3 slots, 2 CPUs, requests for -1 and 3 tickets | draws in proportion to the tickets; the CPU idles only when nobody is ready |
| `wait` | 3 processes at a sleep lock; a pipe; 3 slots on 1 CPU with kills; 2 command lines with forks that fail | whoever waits goes on in the end: at a lock (a `Mutex`), on a pipe that hangs up, in `wait`, in the shell |
| `log_atomic` | 2 calls, 2 blocks, 2 values, a log of 6 | atomicity across crashes; waiting calls are woken |
| `bcache` | 2 processes with up to 2 buffers each, 3 buffers, 4 blocks, one bad and one written | the cache is coherent; only the holder changes a buffer; no buffer leaks |
| `bcache_live` | the same with 2 buffers, 3 blocks, two written, and one value | `bread` and `bwrite` return |
| `names` | 3 inodes, 2 processes, 5 sets of calls | reference and link counts are right when no call is in progress; no name leads to a free inode |
| `space` | disk with 8 data blocks, 13 pages, a heap of 10 units, 3 files, 4 command lines and 4 bad ones | blocks, pages, units, files and descriptors are owned and counted as they should be; what is read is what was written; programs run with the descriptors that the line asks for |

Three slots are the least with init, a parent and a child, hence orphans and reuse
of slots; with the fourth, init inherits a ZOMBIE while it sleeps in `wait`. That
case is too large for the run `wait`: there `kernel` and the theorem
`NoMissedExitHolds` cover it. Two CPUs let any two steps of the table race. Two
processes and two blocks are the least for calls that share a transaction and a
block. Buffers of two or three elements with counters that wrap around soon
(`PIPESIZE` 2, `UINT` 3, 4 and 6) make writers block in the middle and the indices
overflow. The disk of `space` has direct and indirect blocks and fills up, its
memory runs out inside every call, and its tables of descriptors and files have fewer
entries than the calls want. The line `yes | cat | echo` needs three forks and two
pipes, whose ends every process of it must close. `MaxPid`, `MaxCount`, `MaxCalls`,
`MaxImage`, `MaxBrk`, `MaxUnits`, `MaxPinned`, `MaxProcs` and `OpBlocks` are the named
bounds, with `Written` and `Nests` of `Bcache`. In `bcache` a block of the log is taken
before an indirect block, and that before two others; a process that has a buffer meets
recycling, the bad block and a holder of the block it wants. Only CPUs, and in `bcache`
the processes, are interchangeable in the runs that use symmetry, and no liveness run
uses it.

`names` and `space` do not check for deadlock: in `names` processes really can come
to wait for each other (`fs_deadlock`), and in `space` the calls are numbered up to
`MaxCalls`. In all the other passing runs TLC finds no deadlock.

Runs that end in a violation, each against a line of the repository (see
`findings`):

| Run | What happens |
|---|---|
| `proc_overflow` | the int sum of the tickets wraps and the scheduler idles with processes ready |
| `ps_listing` | `ps` stops at the first free slot and does not show its own caller |
| `fs_deadlock` | `create` has the inode it made locked and waits for the directory in `iput(dp)`; `unlink` has the directory and waits for the inode |
| `fs_leak` | two `iput`s of an unlinked inode both see the other's reference; nobody frees it |

## Properties

- Nobody is lost. `NoMissedExit`, `SleeperHasWaker`, `SleepersHaveReason`,
  `ReaderHasReason`: a sleeper's reason still holds, or a wakeup is coming.
  `SleeperWoken`, `HangUp`, `OrphansReaped`, `KilledWaiterExits`, `DiskAnswers`,
  `PromptReturns`: it goes on in the end. `SleepsItsTime`: and not too early.
- Everything has one owner. `OneCPUEach`, `EmbryoOwned`, `NoOrphans`,
  `ZombieReapedByParent`; `LocksSafe`; `BlocksNeeded`, `PagesOwnedOnce`, `OwnMemory`,
  `UnitsOwnedOnce`; `RefsGivenBack`, `LinksCounted`, `NoDangling`, `OneCopyEach`,
  `FilesCounted`, `BuffersSuffice`.
- What goes in comes out. `ImplementsAtomicDisk`, `ImplementsQueue`, `ImplementsTty`,
  `ImplementsMutex`; `CacheCoherent`, `OnlyHolderChanges`, `FilesKept`,
  `WritesAddUp`; `LogSound`, `LogFits`; `ConnectedAsTyped`.
- The lottery. `FairShare`: of the winning tickets, each ready process has as many as
  it holds. `IdleOnlyWhenNoneReady`.

## Fairness

- `Proc`: weak fairness of finishing a switch (interrupts are off) and of the clock
  interrupt; strong fairness of what a process is about to do in the kernel, since
  it is not preempted at the same instruction every time; strong fairness of the
  dispatch of each process. The last stands for the lottery: each process owns
  tickets (`TicketFloor`) and `random` has full period. It idealises: the generator
  is deterministic, and nothing in the code excludes a draw pattern locked in step
  with the workload. `init` goes on calling `wait` (`init.c:34`).
- `Sleeplock`: a process in the kernel goes on and gets a spin lock that is free
  again and again; a holder releases the lock, as every caller in the kernel does.
- `Log`: calls end, commits and recoveries go on. Crashes need not happen.
- `Bcache`: a process in the kernel goes on and releases its buffers, and the
  controller interrupts once it has been given a command. `DiskAnswers` also needs that
  processes with two buffers take them in one order; the callers above do, from the log
  to its home and from an indirect block to the bitmap or a new block.
- `Pipe`: a process in the kernel goes on. No program is assumed to call anything.
- `Shell`: every process that can take a step takes it in the end, and `init` waits.
  Nobody need type a line.

`PromptReturns` says nothing of a line that runs a program which never ends. It says
that a line whose programs end when their input or output does leaves no process
behind in the way of the prompt; for that the shell and the children must close the
ends of the pipes that are not theirs.

## Proofs

### Process table

`ProcProofs` proves, for every number of slots, CPUs, pids and tickets, that `Proc`
keeps its types and satisfies `OneCPUEach`, `NoOrphans`, `NoMissedExit`,
`EmbryoOwned`, `PidsUnique`, `TicketFloor`, `FreshTicks` and `ZombieReapedByParent`,
from `ProcAssumption`. None of them is inductive alone. `IInv` adds:

- `PcState`: where a thread can be, given the state of its process, and that `np` is
  set just in `fork`. It separates slots without a thread from the rest.
- `InitAlive`: `init` never becomes a ZOMBIE, so it can inherit children.
- `Filled`: what `fork` stored without the lock is still there at publication. Here
  `NoOrphans`, `TicketFloor` and `FreshTicks` of a new child come from.
- `WaitChan`: who sleeps in `wait` sleeps on itself, so `exit` finds it.
- `PidsPast`: pids in use are below `nextpid`.
- `NeverRan`: a new process leaves `forkret` before its CPU switches away, so that
  `scheduler` counts no turn for it before.

There is one lemma per conjunct, with one step per action that can disturb it.
`wait` is split into the three ways a pass can end (`WaitCases`). The longest
argument is the one of `exit`: children change parents and sleepers wake in one
step, and `NoMissedExit` needs that the wakeups cover the parent and, if a ZOMBIE
is passed on, `init`.

### The lottery

The last part of `ProcProofs` proves `FairShare` and `IdleOnlyWhenNoneReady` for any
table and any number of CPUs, under one more hypothesis, `TicketsFit(M)`: no request of
`settickets` is above `M`, and `NPROC * M` is an int. With `NPROC` 64 that is any `M` up
to 33,554,431. It is needed: `proc_overflow` shows what happens without it. The
invariant is that no process has more than `M` tickets. Then the partial sums of
`scheduler` do not wrap, so they are the sums of the tickets of the RUNNABLE processes
so far (`SumsAdd`), they grow (`SumsGrow`), and the tickets that select a process are
those between its partial sum and the one before, as many as it holds (`Winners`,
`Shares`). Where an induction over the table is needed, the proof takes the least slot
at which the claim fails (`Least`): that a recursive sum exists (`SumsExist`) is shown
the same way.

### Sleep locks

`SleeplockProofs` proves, for every set of processes, `OneHolder`, `SleeperHasWaker`
and that `Sleeplock` implements `Mutex`. The invariant says which program points
hold which spin lock, and that a process that saw `locked` can count on a wakeup
until it is asleep.

### Log

`LogProofs` proves, for any number of calls at a time and of blocks, that the panics
of `log_write` and `end_op` are not reached (`NoPanic`), that the log stays in its
area (`LogFits`), `LogSound`, and that `Log` implements `AtomicDisk`. `LogAssumption`
asks for `OpBlocks < MAXOPBLOCKS < LOGSIZE <= NLOG`: `param.h` says 10 and 30, `mkfs`
makes a log of `LOGSIZE` blocks, and a call logs fewer blocks than it may. The last is
needed. The log on disk has one block less for data than `begin_op` counts on, and
`log_write` stops at a full log even if the block is there already; with calls of
exactly `MAXOPBLOCKS` blocks the panic can be reached. The longest call in the code,
a chunk of `filewrite`, stays below (`WritesAddUp`, which is proved with `<`).

The inductive invariant `IInv` has, besides the types:

- `Control`: `outstanding` counts the calls, and calls, commit and recovery exclude
  each other.
- `Space`: the blocks logged, and those that the calls in progress may still log
  (`ToCome`, a set of pairs, so that its size can be compared), leave one block free.
  `begin_op` adds a call if what is reserved for all of them fits; each new block that
  is logged is one less to come.
- `Progress`: what the header in memory and the one on disk hold in each phase, and
  how far the loop of that phase is.
- `Contents`: in each phase, which copies of a block agree: cache and home but for the
  logged blocks, log and cache once the log is written, home and log as far as it is
  installed.

There is one lemma per action. The refinement needs that a header has no block twice
(`Distinct`): then `Recovered` is the log block for a logged block (`ReplayOf`), the
write of the header makes it equal to the cache, which is the commit of `AtomicDisk`,
and no write of installation or recovery changes it.

### Buffer cache

`BcacheProofs` proves `CacheCoherent`, `BuffersSuffice` and the action property
`OnlyHolderChanges` for any finite set of processes, each with up to two buffers, and
any number of buffers, blocks and values (`BcacheAssumption`), with kills, bad blocks
and either disk driver. `BuffersSuffice` tells when `bget` can panic: only when the
pinned blocks and the buffers in use, two for each process at the most, are `NBUF` or
more. It does not say that the 30 buffers of `param.h` suffice, and they need not: the
log may have most of them pinned while up to `NPROC` processes read. The invariant `IInv` adds to them:

- `Owners`: a process has a buffer with a block from `bget` until it is done, and the
  sleep lock of a buffer is held by exactly the process that is between `bread` and
  `brelse` of it. So `bget` recycles no buffer in use and one process works on a
  buffer at a time.
- `Flags`: only valid buffers are dirty, and `iderw` is called for a buffer that needs
  the disk, which is its panic.
- `Queued`: a buffer is in the queue once, its holder is in `iderw`, whoever waits is
  in the queue, and the disk has the command for the first. So the interrupt completes
  the transfer of the buffer it wakes up.

`refcnt` counts the set of users, so `bget` and `brelse` need that a set with one
element more or less has one more or less (`UserAdded`, `UserRemoved`); that a miss
finds a buffer to recycle, the last one in LRU order, is `VictimRecyclable`, from the
least element of a set of positions. In `brelse`, moving a buffer to the front keeps
every buffer in the list (`FrontKeepsAll`). For `OnlyHolderChanges`, a transfer makes
buffer and disk equal without changing what `bread` would find (`TransferKeeps`), and
recycling takes a buffer that is clean, hence equal to the disk (`RecyclingKeeps`).

### Files

`FileDataProofs` proves `BlocksNeeded`, `FilesKept` and `WritesAddUp` for any number of
files, open files and processes and any sizes of blocks, inodes, transactions and disk
(`FileDataAssumption`: `MAXOPBLOCKS` is at least 6, and the image of `mkfs` has room for
its file). The indirect block is one more reference of an inode (`Ref`, with the
place of each in `Place`), so that "no block has two owners" and "a file has exactly the
blocks of its size" are about one set of references. `IInv` has, besides the types and
the properties themselves:

- `Locking`: an inode is locked by the process that copies to it, and how far its chunk
  is.
- `Mapped`: an inode has the references that `End` needs, which is its size or, while a
  chunk that extends it is copied, the end of what was copied.
- `Written`: each byte up to `End` is what was written there last (`Expected`).
- `Saved`: the inode on disk is the one in memory, but for blocks that the chunk in
  progress has added.
- `InLog`: a chunk has logged the bitmap, the indirect block and the blocks it has
  touched (`Touched`), and no other. With the arithmetic of `filewrite`'s `max` this
  bounds the log.

`BmapIs` says what `bmap` does where `balloc` does not panic: it adds the missing
references of a path, at most two, to free blocks, and changes no other reference
(`RefsAfter`, `OtherRefs`). `CopyInv` shows that an iteration of `writei` keeps the invariant, with a
step for each conjunct. The initial states are images that `mkfs` makes block by
block; `ImagesAre` shows that they satisfy the invariant, for an image of any size, by
the least size at which it fails.

### Pipes

`PipeProofs` proves, for any processes, any bytes and any interleaving of calls, closes
and kills, that `SleepersHaveReason` and `FreedWhenClosed` of `Pipe` are invariant and
that `Pipe` implements `ByteQueue` (`Refinement`). The hypothesis is `SizesFit`:
`PIPESIZE` is less than the number of values of a counter and divides it (512 and 2^32),
and both ends are open at first. That it divides is needed: otherwise
`nread % PIPESIZE` jumps when `nread` wraps around. `IInv` has:

- `Fits`: `nwrite` is at most `PIPESIZE` ahead of `nread`, modulo the range of the
  counters.
- `Locking`: whoever is between its test and its sleep has `p->lock`, so the result of
  the test still holds when it sleeps.
- `Waiting`: what was true at the test is true until the wakeup. A reader may sleep with
  bytes in the buffer in one case, that of a writer which was killed on a full pipe. If
  a writer gives up because the read end is closed, nobody is asleep at that end.
- `Using` and `Ends`: a call has its end open, at most one process is in `pipeclose` for
  each end, and the end is marked open until that process is through. Hence a page is
  freed only when nobody has a call in progress.

`PutBytes` and `TakeBytes` say what `pipewrite` and `piperead` do to the queue that the
buffer stands for, also across a wrap: `k` bytes are appended and the old ones stay, or
the first `k` are removed. They rest on a few facts about remainders (`Wraps`, `Ahead`,
`PlaceAhead`).

### Only model-checked

- Liveness, here and in every component: TLAPS does not reach it.
- `Spinlock`, `Console`, `Clock`, `Inode`, `FileTable`, `Vm`, `Umalloc` and `Shell`, that
  is `LocksSafe`, `ReaderHasReason`, `ImplementsTty`, `SleepsItsTime`, `RefsGivenBack`,
  `NoDangling`, `LinksCounted`, `OneCopyEach`, `PagesOwnedOnce`, `OwnMemory`,
  `UnitsOwnedOnce`, `FilesCounted` and `ConnectedAsTyped`: checked on the instances above
  and not yet proved. Most of them count: references to an inode, a file or a page over
  all tables, or operations in a sequence; each count needs lemmas of the kind that
  `LogProofs` and `BcacheProofs` have for theirs, and an invariant for every place in
  which a count is briefly off.
- The shell's parser, which is made of recursive operators, and `ConnectedAsTyped`, which
  refers to the command that a line was written from and so covers the parser.

`SleepersHaveReason`, `ImplementsQueue` and `LogFits` of the run `kernel` are the
properties of the same names of `Pipe` and `Log`, on instances of these modules; the
theorems are about the modules.

## What else was seen

Behaviours met while modelling that no run is about:

- `kill` does not look at the state (`proc.c:531`): it marks a free slot that kept its
  pid after a failed `fork`, and the next process in that slot is born killed.
- `piperead` and `pipewrite` test `killed` before they sleep and `kill` does not take
  `p->lock` (`pipe.c:107`): a process killed in between sleeps until the other end
  does something.
- `growproc` takes the size 0 that `deallocuvm` returns for a failure (`proc.c:185`) and
  leaves `sz` as it was, with the pages gone. The process is killed by its next fault,
  so `copyuvm` and the argument checks do not see the old size (`OwnMemory`).
- `mkfs` rounds the size of the root directory up to a whole block (`mkfs.c:161`), and
  adds a block that is not there if the size is a multiple of `BSIZE` already;
  `FileData` begins with directories whose entries do not fill their blocks.
- `malloc` rounds up with an addition that overflows for sizes near 2^32
  (`umalloc.c:69`); `Umalloc` has smaller requests.

## Not modelled

- Assembly, device registers, start-up: `swtch` appears as the passing of the lock,
  the controllers as the requests they answer.
- Formatting, string functions, console output, key tables: no shared state, and no
  property here tells their results apart.
- `cd` of the shell, the first lines of `init` and `initcode.S`: `chdir` and `open` are
  in `Inode`; what they add is the order of three calls at start-up.
- `skipelem`: path names are sequences of elements.
- `sys_fstat` and the dispatch of system calls: they copy fields and call a function
  from a table.
- Test and example programs: their calls are the inputs of the models.

The composition of `Log`, `Bcache`, `Inode` and `FileData` in one state space is out
of TLC's reach; each layer is checked against what the one below it promises.

------------------------------ MODULE FileData ------------------------------
(***************************************************************************)
(* The contents of files: blocks, the bitmap and the block numbers of an   *)
(* inode (fs.c), reading and writing through open files (file.c), and the  *)
(* image that mkfs.c makes.                                                *)
(*                                                                         *)
(* One block of writei is one step; the inode stays locked from the first  *)
(* to the last block of a chunk.  A block is a function from 0..BSIZE - 1  *)
(* to numbers, which are bytes or, in an indirect block, block numbers: so *)
(* NINDIRECT is BSIZE here.                                                *)
(*                                                                         *)
(* A definition named X_Y is X with the fault Y put in; it is used only to *)
(* see that the properties notice.                                         *)
(***************************************************************************)
EXTENDS Integers, Sequences, FiniteSets

CONSTANTS
    Inums,          \* the inodes
    Procs,
    Files,          \* 1..n, entries of the file table
    ip,             \* the inode that each of them is opened on
    BSIZE, NDIRECT,
    nmeta,          \* the first data block
    nblocks,        \* number of data blocks
    MAXOPBLOCKS,
    Counts,         \* bound: how many bytes a call asks for
    MaxCalls,       \* bound: how many times open, read and write are called
    MaxImage,       \* bound: the most bytes in a file of mkfs
    None

NINDIRECT == BSIZE
MAXFILE == NDIRECT + NINDIRECT
Blocks == nmeta..(nmeta + nblocks - 1)
Offs == 0..(BSIZE - 1)

\* The only block of the bitmap, and the one with the inodes.
InodeBlock == nmeta - 2
BitmapBlock == nmeta - 1

ASSUME FileDataAssumption ==
    /\ ip \in [Files -> Inums] /\ Files \subseteq Nat
    /\ {BSIZE, NDIRECT, nblocks} \subseteq Nat \ {0}
    /\ nmeta \in Nat /\ nmeta > 2
    /\ MAXOPBLOCKS \in Nat /\ MAXOPBLOCKS >= 6
    /\ Counts \subseteq Nat \ {0} /\ MaxCalls \in Nat
    \* the image of mkfs has room for its file
    /\ MaxImage \in 0..(MAXFILE * BSIZE) /\ MaxImage <= (nblocks - 1) * BSIZE
    /\ None \notin Files \cup Procs

VARIABLES
    bitmap,     \* the data blocks in use
    data,       \* the contents of the data blocks
    inode,      \* in memory: size and addrs of each inode
    dinode,     \* on the disk
    lock,       \* the process that holds the lock of an inode
    fd, off,    \* the file that a process has open; the offset of a file
    at,         \* a write in progress: place, bytes left, in this chunk, done of it
    logged,     \* the blocks that it has logged in this transaction
    calls,      \* bound: calls made
    wanted,     \* history: what should be in each inode
    moved       \* history: the bytes read and written through a file since it was opened

vars == <<bitmap, data, inode, dinode, lock, fd, off, at, logged, calls, wanted, moved>>
fs == <<bitmap, data, inode, dinode>>

Zeroes == [k \in Offs |-> 0]
NoFile == [size |-> 0, addrs |-> [k \in 0..NDIRECT |-> 0]]
Idle == [pc |-> "idle", left |-> 0, n |-> 0, done |-> 0]

\* The byte that is written to offset o through file f (0: by mkfs).  It is a block
\* number too: a stale block that is taken for an indirect block is noticed.
Byte(f, o) == nmeta + ((2 * o + f) % nblocks)

Smaller(m, n) == IF m < n THEN m ELSE n

-----------------------------------------------------------------------------
(***************************************************************************)
(* mkfs: iappend, a byte at a time, and balloc                             *)
(***************************************************************************)
\* The block number fbn of the file is there, or is the next free one.
Appended(im) ==
    LET fbn == im.size \div BSIZE
        isdirect == fbn < NDIRECT
        ind == im.addrs[NDIRECT]
        \* the indirect block comes first
        needInd == ~ isdirect /\ ind = 0
        ind1 == IF needInd THEN im.free ELSE ind
        free1 == IF needInd THEN im.free + 1 ELSE im.free
        x0 == IF isdirect THEN im.addrs[fbn] ELSE im.data[ind1][fbn - NDIRECT]
        x == IF x0 = 0 THEN free1 ELSE x0
        addrs == IF isdirect THEN [im.addrs EXCEPT ![fbn] = x]
                             ELSE [im.addrs EXCEPT ![NDIRECT] = ind1]
        data1 == IF isdirect THEN im.data ELSE [im.data EXCEPT ![ind1][fbn - NDIRECT] = x]
    IN  [size |-> im.size + 1,
         addrs |-> addrs,
         data |-> [data1 EXCEPT ![x][im.size % BSIZE] = Byte(0, im.size)],
         free |-> IF x0 = 0 THEN free1 + 1 ELSE free1]

Empty == [size |-> 0, addrs |-> NoFile.addrs, data |-> [b \in Blocks |-> Zeroes], free |-> nmeta]

\* The image with one file of k bytes.
iappend[k \in 0..MaxImage] == IF k = 0 THEN Empty ELSE Appended(iappend[k - 1])

\* balloc(freeblock)
UsedBlocks(free) == nmeta..(free - 1)

\* The size of the root directory is rounded up to whole blocks.  Bound: its entries do
\* not fill their last block (32 of them would; the image has 21).
Sizes(k) == {k} \cup (IF k % BSIZE = 0 THEN {} ELSE {((k \div BSIZE) + 1) * BSIZE})

\* The image has a file or a directory of k bytes, and an inode that is empty.
Init ==
    /\ \E i \in Inums, k \in 0..MaxImage : \E size \in Sizes(k) :
        LET im == iappend[k] IN
        /\ bitmap = UsedBlocks(im.free)
        /\ data = im.data
        /\ inode = [j \in Inums |-> IF j = i THEN [size |-> size, addrs |-> im.addrs] ELSE NoFile]
        /\ wanted = [j \in Inums |-> IF j # i THEN <<>>
                        ELSE [o \in 1..size |-> IF o <= k THEN Byte(0, o - 1) ELSE 0]]
    /\ dinode = inode
    /\ lock = [i \in Inums |-> None]
    /\ fd = [p \in Procs |-> None]
    /\ off = [f \in Files |-> 0] /\ moved = off
    /\ at = [p \in Procs |-> Idle]
    /\ logged = [p \in Procs |-> {}]
    /\ calls = 0

-----------------------------------------------------------------------------
\* balloc takes the first free block and clears it.
FirstFree(used) == CHOOSE b \in Blocks \ used : \A c \in Blocks \ used : b <= c

Cleared_No(d, b) == d
Cleared(d, b) == [d EXCEPT ![b] = Zeroes]

\* A file system during bmap: the block that was found, and what has changed.
Fs(used, d, node, log, b) == [used |-> used, data |-> d, node |-> node, log |-> log, blk |-> b]

\* balloc in a file system s; the bitmap block and the cleared block are logged.
balloc(s) ==
    LET b == FirstFree(s.used)
    IN  Fs(s.used \cup {b}, Cleared(s.data, b), s.node, s.log \cup {BitmapBlock, b}, b)

\* bmap with bn < NDIRECT, or for the indirect block itself.
Direct(s, k) ==
    IF s.node.addrs[k] # 0 THEN [s EXCEPT !.blk = s.node.addrs[k]]
    ELSE LET t == balloc(s) IN [t EXCEPT !.node.addrs[k] = t.blk]

Indirect(s, k) ==
    LET a == s.blk IN
    IF s.data[a][k] # 0 THEN [s EXCEPT !.blk = s.data[a][k]]
    ELSE LET t == balloc(s)
         IN  [t EXCEPT !.data[a][k] = t.blk, !.log = @ \cup {a}]

bmap(s, bn) ==
    IF bn < NDIRECT THEN Direct(s, bn)
    ELSE Indirect(Direct(s, NDIRECT), bn - NDIRECT)

-----------------------------------------------------------------------------
(***************************************************************************)
(* The places of an inode for block numbers: 0 to NDIRECT are in addrs,    *)
(* the last of these for the indirect block, the others in the indirect    *)
(* block.                                                                  *)
(***************************************************************************)
Place(bn) == IF bn < NDIRECT THEN bn ELSE bn + 1

\* The number in place k of an inode with these addrs, on a disk with these data blocks.
RefIn(d, addrs, k) ==
    IF k <= NDIRECT THEN addrs[k]
    ELSE IF addrs[NDIRECT] = 0 THEN 0
    ELSE d[addrs[NDIRECT]][k - NDIRECT - 1]

Ref(node, k) == RefIn(data, node.addrs, k)

BlocksOf(node) == {Ref(node, k) : k \in 0..MAXFILE} \ {0}

\* The places that bmap comes to.
Path(bn) == IF bn < NDIRECT THEN {bn} ELSE {NDIRECT, Place(bn)}

\* balloc has a block for each empty one of them; otherwise it panics.
HasRoom(node, bn) ==
    Cardinality({k \in Path(bn) : Ref(node, k) = 0}) <= Cardinality(Blocks \ bitmap)

-----------------------------------------------------------------------------
Called == calls < MaxCalls /\ calls' = calls + 1

Opened(f) == \E p \in Procs : fd[p] = f

\* sys_open: an entry that is not used, at offset 0.
Open(p, f) ==
    /\ fd[p] = None /\ ~ Opened(f) /\ Called
    /\ fd' = [fd EXCEPT ![p] = f]
    /\ off' = [off EXCEPT ![f] = 0]
    /\ moved' = [moved EXCEPT ![f] = 0]
    /\ UNCHANGED <<fs, lock, at, logged, wanted>>

\* filedup in fork: p has the file of its parent q.
filedup(p, q) ==
    /\ fd[p] = None /\ fd[q] # None /\ at[q].pc = "idle"
    /\ fd' = [fd EXCEPT ![p] = fd[q]]
    /\ UNCHANGED <<fs, lock, off, at, logged, calls, wanted, moved>>

Close(p) ==
    /\ fd[p] # None /\ at[p].pc = "idle"
    /\ fd' = [fd EXCEPT ![p] = None]
    /\ UNCHANGED <<fs, lock, off, at, logged, calls, wanted, moved>>

\* ilock
CanLock(i) == lock[i] = None

\* readi: how many bytes it returns.
Readable(i, o, n) == Smaller(n, inode[i].size - o)

\* ilock, readi, iunlock: it changes nothing but the offset.
fileread(p, n) ==
    LET f == fd[p]  r == Readable(ip[f], off[f], n) IN
    /\ f # None /\ at[p].pc = "idle" /\ CanLock(ip[f])
    /\ r > 0 /\ Called
    /\ off' = [off EXCEPT ![f] = @ + r]
    /\ moved' = [moved EXCEPT ![f] = @ + r]
    /\ UNCHANGED <<fs, lock, fd, at, logged, wanted>>

Write(p, n) ==
    /\ fd[p] # None /\ at[p].pc = "idle" /\ Called
    /\ at' = [at EXCEPT ![p] = [Idle EXCEPT !.pc = "chunk", !.left = n]]
    /\ UNCHANGED <<fs, lock, fd, off, logged, wanted, moved>>

Chunk_Whole(n) == n

\* filewrite: the bytes of one transaction.
Chunk(n) == Smaller(n, ((MAXOPBLOCKS - 1 - 1 - 2) \div 2) * BSIZE)

\* writei returns -1.
TooLong(o, n) == o + n > MAXFILE * BSIZE

\* begin_op, ilock, and the tests at the start of writei.
filewrite(p) ==
    LET f == fd[p]  i == ip[f]  n == Chunk(at[p].left)
        fails == off[f] > inode[i].size \/ TooLong(off[f], n)
    IN
    /\ at[p].pc = "chunk" /\ CanLock(i)
    /\ \/ /\ fails
          /\ at' = [at EXCEPT ![p] = Idle]
          /\ UNCHANGED lock
       \/ /\ ~ fails
          /\ lock' = [lock EXCEPT ![i] = p]
          /\ at' = [at EXCEPT ![p].pc = "copy", ![p].n = n]
    /\ logged' = [logged EXCEPT ![p] = {}]
    /\ UNCHANGED <<fs, fd, off, calls, wanted, moved>>

Replaced(old, o, new) ==
    [k \in 1..(IF Len(old) > o + Len(new) THEN Len(old) ELSE o + Len(new)) |->
        IF k > o /\ k <= o + Len(new) THEN new[k - o] ELSE old[k]]

Grows(pos, size) == pos > size

\* One block of writei; after the last one the size, iupdate, iunlock and end_op.
writei(p) ==
    LET f == fd[p]  i == ip[f]  a == at[p]
        pos == off[f] + a.done
        k == pos % BSIZE
        m == Smaller(a.n - a.done, BSIZE - k)
        s == bmap(Fs(bitmap, data, inode[i], logged[p], 0), pos \div BSIZE)
        last == a.done + m = a.n
        grows == last /\ Grows(pos + m, inode[i].size)
        node == IF grows THEN [s.node EXCEPT !.size = pos + m] ELSE s.node
    IN
    /\ a.pc = "copy" /\ HasRoom(inode[i], pos \div BSIZE)
    /\ bitmap' = s.used
    /\ data' = [s.data EXCEPT ![s.blk] =
                    [c \in Offs |-> IF c \in k..(k + m - 1) THEN Byte(f, pos - k + c) ELSE @[c]]]
    /\ inode' = [inode EXCEPT ![i] = node]
    /\ dinode' = IF grows THEN [dinode EXCEPT ![i] = node] ELSE dinode
    /\ logged' = [logged EXCEPT ![p] =
                    s.log \cup {s.blk} \cup (IF grows THEN {InodeBlock} ELSE {})]
    /\ \/ /\ ~ last
          /\ at' = [at EXCEPT ![p].done = @ + m]
          /\ UNCHANGED <<lock, off, wanted, moved>>
       \/ /\ last
          /\ off' = [off EXCEPT ![f] = pos + m]
          /\ moved' = [moved EXCEPT ![f] = @ + a.n]
          /\ lock' = [lock EXCEPT ![i] = None]
          /\ at' = [at EXCEPT ![p] = IF a.left = a.n THEN Idle
                                     ELSE [Idle EXCEPT !.pc = "chunk", !.left = a.left - a.n]]
          /\ wanted' = [wanted EXCEPT ![i] =
                           Replaced(@, off[f], [c \in 1..a.n |-> Byte(f, off[f] + c - 1)])]
    /\ UNCHANGED <<fd, calls>>

-----------------------------------------------------------------------------
Freed_KeepsIndirect(node) == BlocksOf(node) \ {node.addrs[NDIRECT]}

\* The blocks that itrunc gives to bfree.
Freed(node) == BlocksOf(node)

\* The last name and the last reference of the file go (module Inode): itrunc.
itrunc(i) ==
    /\ inode[i].size > 0 /\ CanLock(i)
    /\ \A f \in Files : ip[f] = i => ~ Opened(f)
    /\ bitmap' = bitmap \ Freed(inode[i])
    /\ inode' = [inode EXCEPT ![i] = NoFile]
    /\ dinode' = [dinode EXCEPT ![i] = NoFile]
    /\ wanted' = [wanted EXCEPT ![i] = <<>>]
    /\ UNCHANGED <<data, lock, fd, off, at, logged, calls, moved>>

Next ==
    \/ \E p \in Procs, f \in Files : Open(p, f)
    \/ \E p, q \in Procs : filedup(p, q)
    \/ \E p \in Procs, n \in Counts : fileread(p, n) \/ Write(p, n)
    \/ \E p \in Procs : filewrite(p) \/ writei(p) \/ Close(p)
    \/ \E i \in Inums : itrunc(i)

Spec == Init /\ [][Next]_vars

-----------------------------------------------------------------------------
(***************************************************************************)
(* Properties                                                              *)
(***************************************************************************)
\* What a read of the whole file returns (readi with bmap, which finds a block).
Contents(node) ==
    [o \in 1..node.size |-> data[Ref(node, Place((o - 1) \div BSIZE))][(o - 1) % BSIZE]]

Nodes == [size : 0..(MAXFILE * BSIZE), addrs : [0..NDIRECT -> Blocks \cup {0}]]

\* Block numbers are data blocks, and sizes, offsets and the bytes of a call are within
\* MAXFILE blocks.
TypeOK ==
    /\ bitmap \subseteq Blocks
    /\ data \in [Blocks -> [Offs -> Blocks \cup {0}]]
    /\ inode \in [Inums -> Nodes] /\ dinode \in [Inums -> Nodes]
    /\ lock \in [Inums -> Procs \cup {None}]
    /\ fd \in [Procs -> Files \cup {None}]
    /\ off \in [Files -> 0..(MAXFILE * BSIZE)]
    /\ at \in [Procs -> [pc : {"idle", "chunk", "copy"}, left : Nat, n : Nat, done : Nat]]
    /\ \A p \in Procs : at[p].done <= at[p].n /\ at[p].n <= at[p].left
    /\ logged \in [Procs -> SUBSET (Blocks \cup {BitmapBlock, InodeBlock})]
    /\ wanted \in [Inums -> Seq(Blocks \cup {0})] /\ moved \in [Files -> Nat]

\* The bitmap, the inodes and the indirect blocks agree: a block is marked in use exactly
\* when one place of one inode refers to it (balloc, bmap, bfree and itrunc of fs.c, and
\* balloc and iappend of mkfs.c).  A block with two places would be two files' data.
BlocksOwnedOnce ==
    /\ bitmap = UNION {BlocksOf(inode[i]) : i \in Inums}
    /\ \A i, j \in Inums, k, l \in 0..MAXFILE :
        Ref(inode[i], k) = Ref(inode[j], l) /\ Ref(inode[i], k) # 0 => i = j /\ k = l

\* A file that nobody has locked reads as what was written to it, whatever blocks it got,
\* whoever had these before, and whoever else writes (readi and writei of fs.c).
ReadsWhatWasWritten == \A i \in Inums : lock[i] = None => Contents(inode[i]) = wanted[i]

\* The number of blocks for n bytes.
NBlocks(n) == (n + BSIZE - 1) \div BSIZE

\* A file of n blocks needs place k.
Needs(n, k) == IF k <= NDIRECT THEN k < n ELSE k <= n

\* The blocks of a file are exactly those that its size needs, so readi never comes to
\* a block that bmap would have to allocate, outside a transaction.
NoHoles ==
    \A i \in Inums, k \in 0..MAXFILE :
        /\ Needs(NBlocks(inode[i].size), k) => Ref(inode[i], k) # 0
        /\ lock[i] = None /\ Ref(inode[i], k) # 0 => Needs(NBlocks(inode[i].size), k)

\* writei calls iupdate only when the size grows; still an inode that nobody has locked
\* is on the disk as it is in memory, block numbers included.
OnDisk == \A i \in Inums : lock[i] = None => dinode[i] = inode[i]

\* filewrite's chunks are small enough: a transaction logs fewer blocks than the MAXOPBLOCKS
\* that begin_op of log.c reserves for each of them (module Log needs one to spare).
LogSpace == \A p \in Procs : Cardinality(logged[p]) < MAXOPBLOCKS

\* The offset of a file that processes share is the number of bytes that they have read
\* and written through it: none is read or written over twice, and it is in the file.
OffsetAdds ==
    \A f \in Files : Opened(f) => off[f] = moved[f] /\ off[f] <= inode[ip[f]].size

\* balloc, bfree, bmap and itrunc: a block is free or in one file, and a file has exactly the
\* blocks that its size needs.
BlocksNeeded == TypeOK /\ BlocksOwnedOnce /\ NoHoles

\* readi and writei: a file reads as what was written to it, also from its inode on the disk.
FilesKept == ReadsWhatWasWritten /\ OnDisk

\* filewrite: each chunk fits into its transaction, with a block to spare, and the offset moves
\* by what was written.
WritesAddUp == LogSpace /\ OffsetAdds
=============================================================================

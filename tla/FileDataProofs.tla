--------------------------- MODULE FileDataProofs ---------------------------
(***************************************************************************)
(* Proofs about the contents of files, for any number of inodes, files,    *)
(* processes and blocks, and any sizes of blocks and of transactions.      *)
(***************************************************************************)
EXTENDS FileDataWrites

-----------------------------------------------------------------------------
(***************************************************************************)
(* The steps that leave the file system as it is                           *)
(***************************************************************************)

\* What a step keeps that does not change the file system.
LEMMA FsKept ==
    ASSUME IInv, UNCHANGED <<fs, wanted>>, TypeOK', Locking', OffsetAdds',
           \A i \in Inums : End(i)' = End(i),
           \A i \in Inums, o \in Nat : Expected(i, o)' = Expected(i, o),
           \A i \in Inums : (lock'[i] = None \/ To(i)' <= inode[i].size) =>
                             (lock[i] = None \/ To(i) <= inode[i].size),
           \A q \in Procs : logged'[q] = {} \/ logged'[q] = logged[q],
           \A q \in Procs : at'[q].pc = "copy" /\ logged'[q] # {} =>
                /\ at[q].pc = "copy" /\ fd'[q] = fd[q]
                /\ From(ip[fd[q]])' = From(ip[fd[q]]) /\ To(ip[fd[q]])' = To(ip[fd[q]])
    PROVE  IInv'
<1>0. /\ TypeOK /\ Locking /\ BlocksOwnedOnce /\ Mapped /\ Written /\ Saved /\ InLog /\ LogSpace
  BY Zenon DEF IInv
<1>1. bitmap' = bitmap /\ data' = data /\ inode' = inode /\ dinode' = dinode /\ wanted' = wanted
  BY Zenon DEF fs
<1>2. \A j \in Inums, k \in 0..MAXFILE : Ref(inode[j], k)' = Ref(inode[j], k)
  BY <1>1, Zenon DEF Ref
<1>3. BlocksOwnedOnce'
  BY <1>0, <1>1 DEF BlocksOwnedOnce, BlocksOf, Ref
<1>4. Mapped'
  BY <1>0, <1>2, ZenonT(40) DEF Mapped, NBlocks
<1>5. Written'
  <2>1. ASSUME NEW j \in Inums, NEW o \in 0..(End(j)' - 1)
        PROVE  data'[Ref(inode[j], Place(o \div BSIZE))'][o % BSIZE] = Expected(j, o)'
    <3>1. o \in 0..(End(j) - 1)
      BY <2>1, Zenon
    <3>2. o \in Nat /\ Place(o \div BSIZE) \in 0..MAXFILE
      BY <1>0, <3>1, ByteHasPlace
    <3>3. data[Ref(inode[j], Place(o \div BSIZE))][o % BSIZE] = Expected(j, o)
      BY <1>0, <3>1, Zenon DEF Written
    <3> QED
      BY <1>1, <1>2, <3>2, <3>3, Zenon
  <2>2. \A j \in Inums : DOMAIN wanted'[j] = 1..inode'[j].size
    BY <1>0, <1>1, Zenon DEF Written
  <2> QED
    BY <2>1, <2>2, Zenon DEF Written
<1>6. Saved'
  BY <1>0, <1>1, Zenon DEF Saved
<1>7. InLog'
  <2> SUFFICES ASSUME NEW q \in Procs, at'[q].pc = "copy"
               PROVE  logged'[q] \subseteq
                       {BitmapBlock, inode'[ip[fd'[q]]].addrs[NDIRECT]} \cup
                       {Ref(inode[ip[fd[q]]], Place(x))' : x \in Touched(From(ip[fd[q]])', To(ip[fd[q]])')}
    BY Zenon DEF InLog, Touched
  <2>1. CASE logged'[q] = {}
    BY <2>1, Zenon
  <2>2. CASE logged'[q] # {}
    <3>1. /\ at[q].pc = "copy" /\ fd'[q] = fd[q] /\ logged'[q] = logged[q]
          /\ From(ip[fd[q]])' = From(ip[fd[q]]) /\ To(ip[fd[q]])' = To(ip[fd[q]])
      BY <2>2, Zenon
    <3>2. logged[q] \subseteq {BitmapBlock, inode[ip[fd[q]]].addrs[NDIRECT]} \cup
             {Ref(inode[ip[fd[q]]], Place(x)) : x \in Touched(From(ip[fd[q]]), To(ip[fd[q]]))}
      BY <1>0, <3>1, Zenon DEF InLog
    <3>3. PICK j : j = ip[fd[q]]
      BY Zenon
    <3>3a. j = ip[fd'[q]]
      BY <3>1, <3>3, Zenon
    <3>4. \A x : Ref(inode[j], Place(x))' = Ref(inode[j], Place(x))
      BY <1>1, Zenon DEF Ref
    <3>5. From(j)' = From(j) /\ To(j)' = To(j)
      BY <3>1, <3>3, <3>3a, Zenon
    <3>6. logged[q] \subseteq {BitmapBlock, inode[j].addrs[NDIRECT]} \cup
             {Ref(inode[j], Place(x)) : x \in Touched(From(j), To(j))}
      BY <3>2, <3>3, Zenon
    <3>7. logged'[q] \subseteq {BitmapBlock, inode'[j].addrs[NDIRECT]} \cup
             {Ref(inode[j], Place(x))' : x \in Touched(From(j)', To(j)')}
      <4>1. PICK a, b : a = From(j) /\ b = To(j)
        BY Zenon
      <4>2. {Ref(inode[j], Place(x))' : x \in Touched(a, b)} = {Ref(inode[j], Place(x)) : x \in Touched(a, b)}
        BY <3>4, Zenon
      <4>3. From(j)' = a /\ To(j)' = b /\ inode'[j] = inode[j] /\ logged'[q] = logged[q]
        BY <1>1, <3>1, <3>5, <4>1, Zenon
      <4>4. logged[q] \subseteq {BitmapBlock, inode[j].addrs[NDIRECT]} \cup
               {Ref(inode[j], Place(x)) : x \in Touched(a, b)}
        BY <3>6, <4>1, Zenon
      <4> QED
        BY <4>2, <4>3, <4>4, Zenon
    <3> QED
      BY <3>3a, <3>7, Zenon
  <2> QED
    BY <2>1, <2>2, Zenon
<1>8. LogSpace'
  <2> SUFFICES ASSUME NEW q \in Procs
               PROVE  Cardinality(logged'[q]) < MAXOPBLOCKS
    BY Zenon DEF LogSpace
  <2>1. CASE logged'[q] = {}
    <3>1. Cardinality({}) = 0
      BY FS_EmptySet, Zenon
    <3> QED
      BY <2>1, <3>1, FileDataAssumption
  <2>2. CASE logged'[q] = logged[q]
    BY <1>0, <2>2, Zenon DEF LogSpace
  <2> QED
    BY <2>1, <2>2, Zenon
<1> QED
  BY <1>3, <1>4, <1>5, <1>6, <1>7, <1>8, Zenon DEF IInv

\* A step that takes no lock, and does not move a file that is being written.
LEMMA LocksKept ==
    ASSUME IInv, UNCHANGED <<fs, wanted, lock, logged>>, TypeOK', Locking', OffsetAdds',
           \A q \in Procs : at[q].pc = "copy" \/ at'[q].pc = "copy" => at'[q] = at[q] /\ fd'[q] = fd[q],
           \A q \in Procs : at[q].pc = "copy" => off'[fd[q]] = off[fd[q]]
    PROVE  IInv'
<1>0. TypeOK /\ Locking
  BY Zenon DEF IInv
<1>1. lock' = lock /\ inode' = inode /\ logged' = logged /\ wanted' = wanted
  BY Zenon DEF fs
<1>2. ASSUME NEW i \in Inums, lock[i] # None
      PROVE  From(i)' = From(i) /\ To(i)' = To(i) /\ fd'[lock[i]] = fd[lock[i]]
  <2>1. lock[i] \in Procs
    BY <1>0, <1>2, ZenonT(40) DEF TypeOK
  <2>2. at[lock[i]].pc = "copy"
    BY <1>0, <1>2, Zenon DEF Locking
  <2> QED
    BY <1>1, <2>1, <2>2, Zenon DEF From, To
<1>3. \A i \in Inums : End(i)' = End(i)
  BY <1>1, <1>2, Zenon DEF End
<1>4. \A i \in Inums, o \in Nat : Expected(i, o)' = Expected(i, o)
  BY <1>1, <1>2, Zenon DEF Expected
<1>5. \A i \in Inums : (lock'[i] = None \/ To(i)' <= inode[i].size) =>
                        (lock[i] = None \/ To(i) <= inode[i].size)
  BY <1>1, <1>2, Zenon
<1>6. ASSUME NEW q \in Procs, at'[q].pc = "copy"
      PROVE  /\ at[q].pc = "copy" /\ fd'[q] = fd[q]
             /\ From(ip[fd[q]])' = From(ip[fd[q]]) /\ To(ip[fd[q]])' = To(ip[fd[q]])
  <2>1. at'[q] = at[q] /\ fd'[q] = fd[q]
    BY <1>6, Zenon
  <2>2. at[q].pc = "copy"
    BY <1>6, <2>1, Zenon
  <2>3. PICK i : i = ip[fd[q]]
    BY Zenon
  <2>4. lock[i] = q /\ fd[q] # None
    BY <1>0, <2>2, <2>3, Zenon DEF Locking
  <2>5. i \in Inums /\ lock[i] # None
    <3>1. fd[q] \in Files
      BY <1>0, <2>4, Zenon DEF TypeOK
    <3> QED
      BY <2>3, <2>4, <3>1, FileDataAssumption, Zenon
  <2>6. From(i)' = From(i) /\ To(i)' = To(i)
    BY <1>2, <2>5, Zenon
  <2>7. i = ip[fd'[q]]
    BY <2>1, <2>3, Zenon
  <2> QED
    BY <2>1, <2>2, <2>3, <2>6, <2>7, Zenon
<1>7. \A q \in Procs : logged'[q] = {} \/ logged'[q] = logged[q]
  BY <1>1, Zenon
<1>8. UNCHANGED <<fs, wanted>>
  BY Zenon
<1>9. \A q \in Procs : at'[q].pc = "copy" /\ logged'[q] # {} =>
                /\ at[q].pc = "copy" /\ fd'[q] = fd[q]
                /\ From(ip[fd[q]])' = From(ip[fd[q]]) /\ To(ip[fd[q]])' = To(ip[fd[q]])
  BY <1>6, Zenon
<1> QED
  BY <1>3, <1>4, <1>5, <1>7, <1>8, <1>9, FsKept

\* A step that leaves the locks and the writes in progress alone keeps Locking.
LEMMA LockingKept ==
    ASSUME TypeOK, Locking, lock' = lock, at' = at,
           \A q \in Procs : at[q].pc # "idle" => fd'[q] = fd[q] /\ off'[fd[q]] = off[fd[q]]
    PROVE  Locking'
<1>1. ASSUME NEW i \in Inums, lock'[i] # None
      PROVE  fd'[lock'[i]] # None /\ ip[fd'[lock'[i]]] = i /\ at'[lock'[i]].pc = "copy"
  <2>1. lock[i] \in Procs
    BY <1>1, Zenon DEF TypeOK
  <2>2. fd[lock[i]] # None /\ ip[fd[lock[i]]] = i /\ at[lock[i]].pc = "copy"
    BY <1>1, Zenon DEF Locking
  <2>3. fd'[lock[i]] = fd[lock[i]]
    BY <2>1, <2>2
  <2> QED
    BY <2>2, <2>3, Zenon
<1>2. ASSUME NEW q \in Procs
      PROVE  /\ at'[q].pc # "idle" => fd'[q] # None /\ at'[q].left > 0
             /\ at'[q].pc # "copy" => at'[q].done = 0
  BY Zenon DEF Locking
<1>3. ASSUME NEW q \in Procs, at'[q].pc = "copy"
      PROVE  /\ lock'[ip[fd'[q]]] = q
             /\ at'[q].done < at'[q].n /\ at'[q].n <= Chunk(at'[q].left)
             /\ off'[fd'[q]] + at'[q].n <= MAXFILE * BSIZE
  <2>1. at[q].pc = "copy" /\ at[q].pc # "idle"
    BY <1>3
  <2> QED
    BY <2>1, ZenonT(40) DEF Locking
<1> QED
  BY <1>1, <1>2, <1>3, Zenon DEF Locking

\* sys_open keeps the invariant.
LEMMA OpenInv ==
    ASSUME IInv, NEW p \in Procs, NEW f \in Files, Open(p, f)
    PROVE  IInv'
<1>0. TypeOK /\ Locking /\ OffsetAdds
  BY Zenon DEF IInv
<1>1. /\ fd[p] = None /\ ~ Opened(f)
      /\ fd' = [fd EXCEPT ![p] = f] /\ off' = [off EXCEPT ![f] = 0] /\ moved' = [moved EXCEPT ![f] = 0]
      /\ bitmap' = bitmap /\ data' = data /\ inode' = inode /\ dinode' = dinode
      /\ lock' = lock /\ at' = at /\ logged' = logged /\ wanted' = wanted
  BY Zenon DEF Open, fs
<1>2. /\ \A q \in Procs : q # p => fd'[q] = fd[q] /\ fd[q] # f
      /\ fd'[p] = f /\ off'[f] = 0 /\ moved'[f] = 0
      /\ \A g \in Files : g # f => off'[g] = off[g] /\ moved'[g] = moved[g]
  BY <1>0, <1>1, Zenon DEF TypeOK, Opened
<1>3. at[p].pc = "idle"
  BY <1>0, <1>1, Zenon DEF Locking
<1>4. TypeOK'
  <2>1. 0 \in 0..(MAXFILE * BSIZE) /\ 0 \in Nat
    BY Constants
  <2>2. off' \in [Files -> 0..(MAXFILE * BSIZE)] /\ moved' \in [Files -> Nat] /\ fd' \in [Procs -> Files \cup {None}]
    BY <1>0, <1>1, <2>1, Zenon DEF TypeOK
  <2> QED
    BY <1>0, <1>1, <2>2, Zenon DEF TypeOK
<1>5. \A q \in Procs : at[q].pc # "idle" => fd'[q] = fd[q] /\ off'[fd[q]] = off[fd[q]]
  <2> SUFFICES ASSUME NEW q \in Procs, at[q].pc # "idle"
               PROVE  fd'[q] = fd[q] /\ off'[fd[q]] = off[fd[q]]
    BY Zenon
  <2>1. q # p
    BY <1>3, Zenon
  <2>2. fd[q] \in Files
    <3>1. fd[q] # None
      BY <1>0, Zenon DEF Locking
    <3> QED
      BY <1>0, <3>1, Zenon DEF TypeOK
  <2> QED
    BY <1>2, <2>1, <2>2, Zenon
<1>6. Locking'
  BY <1>0, <1>1, <1>5, LockingKept
<1>7. OffsetAdds'
  <2> SUFFICES ASSUME NEW g \in Files, Opened(g)'
               PROVE  off'[g] = moved'[g] /\ off'[g] <= inode'[ip[g]].size
    BY Zenon DEF OffsetAdds
  <2>1. CASE g = f
    <3>1. inode[ip[f]] \in Nodes
      BY <1>0, FileDataAssumption, Zenon DEF TypeOK
    <3>2. inode[ip[f]].size >= 0
      BY <3>1, Constants DEF Nodes
    <3> QED
      BY <1>1, <1>2, <2>1, <3>2
  <2>2. CASE g # f
    <3>1. Opened(g)
      BY <1>2, <2>2, Zenon DEF Opened
    <3> QED
      BY <1>0, <1>1, <1>2, <2>2, <3>1, Zenon DEF OffsetAdds
  <2> QED
    BY <2>1, <2>2, Zenon
<1>8. UNCHANGED <<fs, wanted, lock, logged>>
  BY <1>1, Zenon DEF fs
<1>9. /\ \A q \in Procs : at[q].pc = "copy" \/ at'[q].pc = "copy" => at'[q] = at[q] /\ fd'[q] = fd[q]
      /\ \A q \in Procs : at[q].pc = "copy" => off'[fd[q]] = off[fd[q]]
  BY <1>1, <1>5, Zenon
<1> QED
  BY <1>4, <1>6, <1>7, <1>8, <1>9, LocksKept

\* filedup keeps the invariant.
LEMMA filedupInv ==
    ASSUME IInv, NEW p \in Procs, NEW q \in Procs, filedup(p, q)
    PROVE  IInv'
<1>0. TypeOK /\ Locking /\ OffsetAdds
  BY Zenon DEF IInv
<1>1. /\ fd[p] = None /\ fd[q] # None /\ fd' = [fd EXCEPT ![p] = fd[q]]
      /\ bitmap' = bitmap /\ data' = data /\ inode' = inode /\ dinode' = dinode
      /\ lock' = lock /\ at' = at /\ logged' = logged /\ wanted' = wanted /\ off' = off /\ moved' = moved
  BY Zenon DEF filedup, fs
<1>2. at[p].pc = "idle"
  BY <1>0, <1>1, Zenon DEF Locking
<1>3. fd' \in [Procs -> Files \cup {None}]
  BY <1>0, <1>1, Zenon DEF TypeOK
<1>4. TypeOK'
  BY <1>0, <1>1, <1>3, Zenon DEF TypeOK
<1>5. \A r \in Procs : at[r].pc # "idle" => fd'[r] = fd[r] /\ off'[fd[r]] = off[fd[r]]
  BY <1>0, <1>1, <1>2, Zenon DEF TypeOK
<1>6. Locking'
  BY <1>0, <1>1, <1>5, LockingKept
<1>7. OffsetAdds'
  <2>1. \A g : Opened(g)' => Opened(g)
    BY <1>0, <1>1, Zenon DEF Opened, TypeOK
  <2> QED
    BY <1>0, <1>1, <2>1, Zenon DEF OffsetAdds
<1>8. UNCHANGED <<fs, wanted, lock, logged>>
  BY <1>1, Zenon DEF fs
<1>9. /\ \A r \in Procs : at[r].pc = "copy" \/ at'[r].pc = "copy" => at'[r] = at[r] /\ fd'[r] = fd[r]
      /\ \A r \in Procs : at[r].pc = "copy" => off'[fd[r]] = off[fd[r]]
  BY <1>1, <1>5, Zenon
<1> QED
  BY <1>4, <1>6, <1>7, <1>8, <1>9, LocksKept

\* fileclose keeps the invariant.
LEMMA CloseInv ==
    ASSUME IInv, NEW p \in Procs, Close(p)
    PROVE  IInv'
<1>0. TypeOK /\ Locking /\ OffsetAdds
  BY Zenon DEF IInv
<1>1. /\ at[p].pc = "idle" /\ fd' = [fd EXCEPT ![p] = None]
      /\ bitmap' = bitmap /\ data' = data /\ inode' = inode /\ dinode' = dinode
      /\ lock' = lock /\ at' = at /\ logged' = logged /\ wanted' = wanted /\ off' = off /\ moved' = moved
  BY Zenon DEF Close, fs
<1>3. fd' \in [Procs -> Files \cup {None}]
  BY <1>0, <1>1, Zenon DEF TypeOK
<1>4. TypeOK'
  BY <1>0, <1>1, <1>3, Zenon DEF TypeOK
<1>5. \A r \in Procs : at[r].pc # "idle" => fd'[r] = fd[r] /\ off'[fd[r]] = off[fd[r]]
  BY <1>0, <1>1, Zenon DEF TypeOK
<1>6. Locking'
  BY <1>0, <1>1, <1>5, LockingKept
<1>7. OffsetAdds'
  <2>1. \A g \in Files : Opened(g)' => Opened(g)
    BY <1>0, <1>1, FileDataAssumption, Zenon DEF Opened, TypeOK
  <2> QED
    BY <1>0, <1>1, <2>1, Zenon DEF OffsetAdds
<1>8. UNCHANGED <<fs, wanted, lock, logged>>
  BY <1>1, Zenon DEF fs
<1>9. /\ \A r \in Procs : at[r].pc = "copy" \/ at'[r].pc = "copy" => at'[r] = at[r] /\ fd'[r] = fd[r]
      /\ \A r \in Procs : at[r].pc = "copy" => off'[fd[r]] = off[fd[r]]
  BY <1>1, <1>5, Zenon
<1> QED
  BY <1>4, <1>6, <1>7, <1>8, <1>9, LocksKept

\* fileread keeps the invariant.
LEMMA filereadInv ==
    ASSUME IInv, NEW p \in Procs, NEW n \in Counts, fileread(p, n)
    PROVE  IInv'
<1>0. TypeOK /\ Locking /\ OffsetAdds
  BY Zenon DEF IInv
<1>1. PICK f, r : f = fd[p] /\ r = Readable(ip[f], off[f], n)
  BY Zenon
<1>2. /\ f # None /\ at[p].pc = "idle" /\ lock[ip[f]] = None /\ r > 0
      /\ off' = [off EXCEPT ![f] = @ + r] /\ moved' = [moved EXCEPT ![f] = @ + r]
      /\ bitmap' = bitmap /\ data' = data /\ inode' = inode /\ dinode' = dinode
      /\ lock' = lock /\ at' = at /\ logged' = logged /\ wanted' = wanted /\ fd' = fd
  BY <1>1, Zenon DEF fileread, fs, CanLock
<1>3. f \in Files /\ Opened(f) /\ ip[f] \in Inums
  BY <1>0, <1>1, <1>2, FileDataAssumption, Zenon DEF TypeOK, Opened
<1>4. off[f] = moved[f] /\ off[f] <= inode[ip[f]].size
  BY <1>0, <1>3, Zenon DEF OffsetAdds
<1>5. PICK top : top = MAXFILE * BSIZE /\ top \in Nat
  BY Constants
<1>6. off[f] \in Nat /\ inode[ip[f]].size \in 0..top /\ moved[f] \in Nat
  <2>1. inode[ip[f]] \in Nodes
    BY <1>0, <1>3, Zenon DEF TypeOK
  <2>2. inode[ip[f]].size \in 0..top
    BY <1>5, <2>1, Zenon DEF Nodes
  <2>3. off[f] \in 0..top /\ moved[f] \in Nat
    BY <1>0, <1>3, <1>5, Zenon DEF TypeOK
  <2> QED
    BY <1>5, <2>2, <2>3
<1>7. r \in Nat /\ off[f] + r <= inode[ip[f]].size /\ off[f] + r \in 0..top /\ moved[f] + r \in Nat
  <2>1. n \in Nat
    BY FileDataAssumption, Zenon
  <2>2. PICK o, s : o = off[f] /\ s = inode[ip[f]].size
    BY Zenon
  <2>3. o \in Nat /\ s \in 0..top /\ o <= s /\ r = Smaller(n, s - o)
    BY <1>1, <1>4, <1>6, <2>2, Zenon DEF Readable
  <2>4. r \in Nat /\ o + r <= s /\ o + r \in 0..top
    BY <1>2, <1>5, <2>1, <2>3 DEF Smaller
  <2> QED
    BY <1>6, <2>2, <2>4
<1>8. off'[f] = off[f] + r /\ moved'[f] = moved[f] + r
      /\ \A g \in Files : g # f => off'[g] = off[g] /\ moved'[g] = moved[g]
  BY <1>0, <1>2, <1>3, Zenon DEF TypeOK
<1>9. TypeOK'
  <2>1. off' \in [Files -> 0..(MAXFILE * BSIZE)] /\ moved' \in [Files -> Nat]
    BY <1>0, <1>2, <1>3, <1>5, <1>7, Zenon DEF TypeOK
  <2> QED
    BY <1>0, <1>2, <2>1, Zenon DEF TypeOK
<1>10. \A q \in Procs : at[q].pc = "copy" => off'[fd[q]] = off[fd[q]]
  <2> SUFFICES ASSUME NEW q \in Procs, at[q].pc = "copy"
               PROVE  off'[fd[q]] = off[fd[q]]
    BY Zenon
  <2>1. lock[ip[fd[q]]] = q /\ fd[q] # None
    BY <1>0, Zenon DEF Locking
  <2>2. fd[q] \in Files
    BY <1>0, <2>1, Zenon DEF TypeOK
  <2>3. fd[q] # f
    BY <1>2, <2>1, FileDataAssumption, Zenon
  <2> QED
    BY <1>8, <2>2, <2>3, Zenon
<1>11. Locking'
  <2>1. ASSUME NEW q \in Procs, at[q].pc = "copy"
        PROVE  /\ lock[ip[fd[q]]] = q
               /\ at[q].done < at[q].n /\ at[q].n <= Chunk(at[q].left)
               /\ off'[fd[q]] + at[q].n <= MAXFILE * BSIZE
    BY <1>0, <1>10, <2>1, Zenon DEF Locking
  <2> QED
    BY <1>0, <1>2, <2>1, Zenon DEF Locking
<1>12. OffsetAdds'
  <2> SUFFICES ASSUME NEW g \in Files, Opened(g)'
               PROVE  off'[g] = moved'[g] /\ off'[g] <= inode'[ip[g]].size
    BY Zenon DEF OffsetAdds
  <2>1. Opened(g)
    BY <1>2, Zenon DEF Opened
  <2>2. CASE g = f
    BY <1>2, <1>4, <1>7, <1>8, <2>2, Zenon
  <2>3. CASE g # f
    BY <1>0, <1>2, <1>8, <2>1, <2>3, Zenon DEF OffsetAdds
  <2> QED
    BY <2>2, <2>3, Zenon
<1>13. UNCHANGED <<fs, wanted, lock, logged>>
  BY <1>2, Zenon DEF fs
<1>14. \A r1 \in Procs : at[r1].pc = "copy" \/ at'[r1].pc = "copy" => at'[r1] = at[r1] /\ fd'[r1] = fd[r1]
  BY <1>2, Zenon
<1> QED
  BY <1>9, <1>10, <1>11, <1>12, <1>13, <1>14, LocksKept

\* The call of filewrite keeps the invariant.
LEMMA WriteInv ==
    ASSUME IInv, NEW p \in Procs, NEW n \in Counts, Write(p, n)
    PROVE  IInv'
<1>0. TypeOK /\ Locking /\ OffsetAdds
  BY Zenon DEF IInv
<1>1. PICK z : z = [Idle EXCEPT !.pc = "chunk", !.left = n]
  BY Zenon
<1>2. /\ fd[p] # None /\ at[p].pc = "idle" /\ at' = [at EXCEPT ![p] = z]
      /\ bitmap' = bitmap /\ data' = data /\ inode' = inode /\ dinode' = dinode /\ off' = off /\ moved' = moved
      /\ lock' = lock /\ logged' = logged /\ wanted' = wanted /\ fd' = fd
  BY <1>1, Zenon DEF Write, fs
<1>3. z = [pc |-> "chunk", left |-> n, n |-> 0, done |-> 0] /\ n \in Nat /\ n > 0
  <2>1. n \in Nat \ {0}
    BY FileDataAssumption, Zenon
  <2>2. z = [pc |-> "chunk", left |-> n, n |-> 0, done |-> 0]
    BY <1>1 DEF Idle
  <2> QED
    BY <2>1, <2>2
<1>4. /\ z \in [pc : {"idle", "chunk", "copy"}, left : Nat, n : Nat, done : Nat]
      /\ z.done = 0 /\ z.n = 0 /\ z.left = n /\ z.pc = "chunk"
  BY <1>3
<1>5. at'[p] = z /\ \A q \in Procs : q # p => at'[q] = at[q]
  BY <1>0, <1>2, Zenon DEF TypeOK
<1>6. TypeOK'
  <2>1. at' \in [Procs -> [pc : {"idle", "chunk", "copy"}, left : Nat, n : Nat, done : Nat]]
    BY <1>0, <1>2, <1>4, Zenon DEF TypeOK
  <2>2. z.done <= z.n /\ z.n <= z.left
    BY <1>3, <1>4
  <2>3. \A q \in Procs : at'[q].done <= at'[q].n /\ at'[q].n <= at'[q].left
    BY <1>0, <1>5, <2>2, Zenon DEF TypeOK
  <2> QED
    BY <1>0, <1>2, <2>1, <2>3, Zenon DEF TypeOK
<1>7. Locking'
  <2>1. ASSUME NEW i \in Inums, lock'[i] # None
        PROVE  fd'[lock'[i]] # None /\ ip[fd'[lock'[i]]] = i /\ at'[lock'[i]].pc = "copy"
    <3>1. lock[i] \in Procs
      BY <1>0, <1>2, <2>1, Zenon DEF TypeOK
    <3>2. fd[lock[i]] # None /\ ip[fd[lock[i]]] = i /\ at[lock[i]].pc = "copy"
      BY <1>0, <1>2, <2>1, Zenon DEF Locking
    <3>3. lock[i] # p
      BY <1>2, <3>2
    <3> QED
      BY <1>2, <1>5, <3>1, <3>2, <3>3, Zenon
  <2>2. ASSUME NEW q \in Procs
        PROVE  /\ at'[q].pc # "idle" => fd'[q] # None /\ at'[q].left > 0
               /\ at'[q].pc # "copy" => at'[q].done = 0
    <3>1. CASE q = p
      BY <1>2, <1>3, <1>4, <1>5, <3>1, Zenon
    <3>2. CASE q # p
      BY <1>0, <1>2, <1>5, <3>2, Zenon DEF Locking
    <3> QED
      BY <3>1, <3>2, Zenon
  <2>3. ASSUME NEW q \in Procs, at'[q].pc = "copy"
        PROVE  /\ lock'[ip[fd'[q]]] = q
               /\ at'[q].done < at'[q].n /\ at'[q].n <= Chunk(at'[q].left)
               /\ off'[fd'[q]] + at'[q].n <= MAXFILE * BSIZE
    <3>1. q # p
      BY <1>4, <1>5, <2>3
    <3> QED
      BY <1>0, <1>2, <1>5, <2>3, <3>1, Zenon DEF Locking
  <2> QED
    BY <2>1, <2>2, <2>3, Zenon DEF Locking
<1>8. OffsetAdds'
  BY <1>0, <1>2, Zenon DEF OffsetAdds, Opened
<1>9. UNCHANGED <<fs, wanted, lock, logged>>
  BY <1>2, Zenon DEF fs
<1>10. \A q \in Procs : at[q].pc = "copy" \/ at'[q].pc = "copy" => at'[q] = at[q] /\ fd'[q] = fd[q]
  <2> SUFFICES ASSUME NEW q \in Procs, at[q].pc = "copy" \/ at'[q].pc = "copy"
               PROVE  at'[q] = at[q] /\ fd'[q] = fd[q]
    BY Zenon
  <2>1. q # p
    BY <1>2, <1>4, <1>5
  <2> QED
    BY <1>2, <1>5, <2>1, Zenon
<1>11. \A q \in Procs : at[q].pc = "copy" => off'[fd[q]] = off[fd[q]]
  BY <1>2, Zenon
<1> QED
  BY <1>6, <1>7, <1>8, <1>9, <1>10, <1>11, LocksKept

\* A chunk has at least one byte, and no more than there are left.
LEMMA ChunkSize ==
    ASSUME NEW left \in Nat, left > 0
    PROVE  Chunk(left) \in Nat /\ Chunk(left) > 0 /\ Chunk(left) <= left
<1>1. PICK z : z = (MAXOPBLOCKS - 1 - 1 - 2) \div 2
  BY Zenon
<1>2. MAXOPBLOCKS \in Nat /\ MAXOPBLOCKS >= 6
  BY FileDataAssumption, Zenon
<1>3. z \in Nat /\ z > 0
  BY <1>1, <1>2
<1>4. PICK y : y = z * BSIZE /\ y \in Nat /\ y > 0
  BY <1>3, Constants
<1>5. Chunk(left) = Smaller(left, y)
  BY <1>1, <1>4, Zenon DEF Chunk
<1> QED
  BY <1>4, <1>5 DEF Smaller

\* filewrite begins a chunk, with the inode locked, or gives up: the invariant stays.
LEMMA filewriteInv ==
    ASSUME IInv, NEW p \in Procs, filewrite(p)
    PROVE  IInv'
<1>0. TypeOK /\ Locking /\ OffsetAdds
  BY Zenon DEF IInv
<1>1. PICK f, i, n : f = fd[p] /\ i = ip[f] /\ n = Chunk(at[p].left)
  BY Zenon
<1>2. /\ at[p].pc = "chunk" /\ lock[i] = None /\ logged' = [logged EXCEPT ![p] = {}]
      /\ bitmap' = bitmap /\ data' = data /\ inode' = inode /\ dinode' = dinode /\ off' = off /\ moved' = moved
      /\ wanted' = wanted /\ fd' = fd
      /\ \/ at' = [at EXCEPT ![p] = Idle] /\ lock' = lock
         \/ /\ ~ (off[f] > inode[i].size) /\ ~ TooLong(off[f], n)
            /\ lock' = [lock EXCEPT ![i] = p]
            /\ at' = [at EXCEPT ![p].pc = "copy", ![p].n = n]
  BY <1>1, Zenon DEF filewrite, fs, CanLock
<1>3. f \in Files /\ i \in Inums /\ at[p].left > 0 /\ at[p].done = 0
  <2>1. fd[p] # None /\ at[p].left > 0
    BY <1>0, <1>2 DEF Locking
  <2>2. at[p].done = 0
    BY <1>0, <1>2 DEF Locking
  <2>3. f \in Files
    BY <1>0, <1>1, <2>1, Zenon DEF TypeOK
  <2> QED
    BY <1>1, <2>1, <2>2, <2>3, FileDataAssumption, Zenon
<1>4. n \in Nat /\ n > 0 /\ n <= at[p].left /\ at[p].left \in Nat
  <2>1. at[p].left \in Nat
    BY <1>0 DEF TypeOK
  <2> QED
    BY <1>1, <1>3, <2>1, ChunkSize, Zenon
<1>5. off[f] \in Nat /\ inode[i].size \in Nat
  <2>1. inode[i] \in Nodes
    BY <1>0, <1>3, Zenon DEF TypeOK
  <2>2. inode[i].size \in Nat
    BY <2>1 DEF Nodes
  <2>3. off[f] \in Nat
    BY <1>0, <1>3, Constants DEF TypeOK
  <2> QED
    BY <2>2, <2>3, Zenon
<1>6. \A q \in Procs : q # p => at'[q] = at[q] /\ logged'[q] = logged[q]
  <2>1. \A q \in Procs : q # p => logged'[q] = logged[q]
    BY <1>0, <1>2, Zenon DEF TypeOK
  <2>2. \A q \in Procs : q # p => at'[q] = at[q]
    BY <1>0, <1>2, Zenon DEF TypeOK
  <2> QED
    BY <2>1, <2>2, Zenon
<1>7. logged'[p] = {}
  BY <1>0, <1>2, Zenon DEF TypeOK
<1>8. \/ at'[p] = [pc |-> "idle", left |-> 0, n |-> 0, done |-> 0] /\ lock' = lock
      \/ /\ off[f] <= inode[i].size /\ off[f] + n <= MAXFILE * BSIZE
         /\ lock' = [lock EXCEPT ![i] = p]
         /\ at'[p] = [pc |-> "copy", left |-> at[p].left, n |-> n, done |-> 0]
  <2>1. CASE at' = [at EXCEPT ![p] = Idle] /\ lock' = lock
    BY <1>0, <2>1, Zenon DEF TypeOK, Idle
  <2>2. CASE /\ ~ (off[f] > inode[i].size) /\ ~ TooLong(off[f], n)
             /\ lock' = [lock EXCEPT ![i] = p]
             /\ at' = [at EXCEPT ![p].pc = "copy", ![p].n = n]
    <3>1. off[f] <= inode[i].size
      BY <1>5, <2>2
    <3>2. off[f] + n <= MAXFILE * BSIZE
      <4>1. PICK top : top = MAXFILE * BSIZE /\ top \in Nat
        BY Constants
      <4>2. ~ (off[f] + n > top)
        BY <2>2, <4>1, Zenon DEF TooLong
      <4> QED
        BY <1>4, <1>5, <4>1, <4>2
    <3>3. at'[p] = [pc |-> "copy", left |-> at[p].left, n |-> n, done |-> 0]
      <4>1. at \in [Procs -> [pc : {"idle", "chunk", "copy"}, left : Nat, n : Nat, done : Nat]]
        BY <1>0, Zenon DEF TypeOK
      <4> QED
        BY <1>3, <2>2, <4>1
    <3> QED
      BY <2>2, <3>1, <3>2, <3>3, Zenon
  <2> QED
    BY <1>2, <2>1, <2>2, Zenon
<1>9. /\ at'[p] \in [pc : {"idle", "chunk", "copy"}, left : Nat, n : Nat, done : Nat]
      /\ at'[p].done <= at'[p].n /\ at'[p].n <= at'[p].left /\ at'[p].done = 0 /\ at'[p].pc # "chunk"
  BY <1>4, <1>8
<1>10. TypeOK'
  <2>1. at' \in [Procs -> [pc : {"idle", "chunk", "copy"}, left : Nat, n : Nat, done : Nat]]
    <3>1. at' = [at EXCEPT ![p] = at'[p]]
      <4>1. at \in [Procs -> [pc : {"idle", "chunk", "copy"}, left : Nat, n : Nat, done : Nat]]
        BY <1>0, Zenon DEF TypeOK
      <4>2. CASE at' = [at EXCEPT ![p] = Idle]
        BY <4>1, <4>2
      <4>3. CASE at' = [at EXCEPT ![p].pc = "copy", ![p].n = n]
        BY <4>1, <4>3
      <4> QED
        BY <1>2, <4>2, <4>3, Zenon
    <3> QED
      BY <1>0, <1>9, <3>1, Zenon DEF TypeOK
  <2>2. \A q \in Procs : at'[q].done <= at'[q].n /\ at'[q].n <= at'[q].left
    BY <1>0, <1>6, <1>9, Zenon DEF TypeOK
  <2>3. lock' \in [Inums -> Procs \cup {None}]
    BY <1>0, <1>3, <1>8, Zenon DEF TypeOK
  <2>4. logged' \in [Procs -> SUBSET (Blocks \cup {BitmapBlock, InodeBlock})]
    BY <1>0, <1>2, Zenon DEF TypeOK
  <2> QED
    BY <1>0, <1>2, <2>1, <2>2, <2>3, <2>4, Zenon DEF TypeOK
<1>11. \A j \in Inums : j # i => lock'[j] = lock[j]
  BY <1>0, <1>3, <1>8, Zenon DEF TypeOK
<1>12. /\ at'[p].pc = "idle" /\ lock'[i] = None
       \/ /\ at'[p].pc = "copy" /\ lock'[i] = p /\ at'[p].n = n /\ at'[p].left = at[p].left
          /\ off[f] <= inode[i].size /\ off[f] + n <= MAXFILE * BSIZE
  <2>1. CASE at'[p] = [pc |-> "idle", left |-> 0, n |-> 0, done |-> 0] /\ lock' = lock
    BY <1>2, <2>1
  <2>2. CASE /\ off[f] <= inode[i].size /\ off[f] + n <= MAXFILE * BSIZE
             /\ lock' = [lock EXCEPT ![i] = p]
             /\ at'[p] = [pc |-> "copy", left |-> at[p].left, n |-> n, done |-> 0]
    <3>1. lock'[i] = p
      BY <1>0, <1>3, <2>2, Zenon DEF TypeOK
    <3>2. at'[p].pc = "copy" /\ at'[p].n = n /\ at'[p].left = at[p].left
      BY <2>2
    <3> QED
      BY <2>2, <3>1, <3>2, Zenon
  <2> QED
    BY <1>8, <2>1, <2>2, Zenon
<1>13. ASSUME NEW j \in Inums, lock[j] # None
       PROVE  j # i /\ lock'[j] = lock[j] /\ lock[j] \in Procs /\ lock[j] # p /\ at'[lock[j]] = at[lock[j]]
              /\ fd[lock[j]] # None /\ ip[fd[lock[j]]] = j /\ at[lock[j]].pc = "copy"
  <2>1. j # i /\ lock'[j] = lock[j]
    BY <1>2, <1>11, <1>13, Zenon
  <2>2. lock[j] \in Procs
    BY <1>0, <1>13, Zenon DEF TypeOK
  <2>3. fd[lock[j]] # None /\ ip[fd[lock[j]]] = j /\ at[lock[j]].pc = "copy"
    BY <1>0, <1>13, Zenon DEF Locking
  <2>4. lock[j] # p
    BY <1>2, <2>3
  <2> QED
    BY <1>6, <2>1, <2>2, <2>3, <2>4, Zenon
<1>14. Locking'
  <2>1. ASSUME NEW j \in Inums, lock'[j] # None
        PROVE  fd'[lock'[j]] # None /\ ip[fd'[lock'[j]]] = j /\ at'[lock'[j]].pc = "copy"
    <3>1. CASE j = i
      <4>1. lock'[i] = p /\ at'[p].pc = "copy"
        BY <1>12, <2>1, <3>1, Zenon
      <4> QED
        BY <1>1, <1>2, <1>3, <3>1, <4>1, FileDataAssumption, Zenon
    <3>2. CASE j # i
      <4>1. lock'[j] = lock[j]
        BY <1>11, <3>2, Zenon
      <4>2. /\ at'[lock[j]] = at[lock[j]] /\ fd[lock[j]] # None /\ ip[fd[lock[j]]] = j
            /\ at[lock[j]].pc = "copy"
        BY <1>13, <2>1, <4>1, Zenon
      <4>3. fd' = fd
        BY <1>2, Zenon
      <4> QED
        BY <4>1, <4>2, <4>3, Zenon
    <3> QED
      BY <3>1, <3>2, Zenon
  <2>2. ASSUME NEW q \in Procs
        PROVE  /\ at'[q].pc # "idle" => fd'[q] # None /\ at'[q].left > 0
               /\ at'[q].pc # "copy" => at'[q].done = 0
    <3>1. CASE q = p
      <4>1. fd[p] # None
        BY <1>1, <1>3, FileDataAssumption, Zenon
      <4> QED
        BY <1>2, <1>3, <1>9, <1>12, <3>1, <4>1, Zenon
    <3>2. CASE q # p
      BY <1>0, <1>2, <1>6, <3>2, ZenonT(40) DEF Locking
    <3> QED
      BY <3>1, <3>2, Zenon
  <2>3. ASSUME NEW q \in Procs, at'[q].pc = "copy"
        PROVE  /\ lock'[ip[fd'[q]]] = q
               /\ at'[q].done < at'[q].n /\ at'[q].n <= Chunk(at'[q].left)
               /\ off'[fd'[q]] + at'[q].n <= MAXFILE * BSIZE
    <3>1. CASE q = p
      <4>1. /\ lock'[i] = p /\ at'[p].n = n /\ at'[p].left = at[p].left /\ at'[p].done = 0
            /\ off[f] + n <= MAXFILE * BSIZE
        BY <1>9, <1>12, <2>3, <3>1
      <4>2. n <= Chunk(at[p].left) /\ 0 < n
        BY <1>1, <1>4
      <4> QED
        BY <1>1, <1>2, <3>1, <4>1, <4>2, Zenon
    <3>2. CASE q # p
      <4>1. at[q].pc = "copy"
        BY <1>6, <2>3, <3>2, Zenon
      <4>2. /\ lock[ip[fd[q]]] = q
            /\ at[q].done < at[q].n /\ at[q].n <= Chunk(at[q].left)
            /\ off[fd[q]] + at[q].n <= MAXFILE * BSIZE /\ fd[q] # None
        BY <1>0, <4>1 DEF Locking
      <4>3. ip[fd[q]] \in Inums
        BY <1>0, <4>2, FileDataAssumption, Zenon DEF TypeOK
      <4>4. lock'[ip[fd[q]]] = q
        BY <1>13, <4>2, <4>3, FileDataAssumption, Zenon
      <4> QED
        BY <1>2, <1>6, <3>2, <4>2, <4>4, Zenon
    <3> QED
      BY <3>1, <3>2, Zenon
  <2> QED
    BY <2>1, <2>2, <2>3, Zenon DEF Locking
<1>15. OffsetAdds'
  BY <1>0, <1>2, Zenon DEF OffsetAdds, Opened
<1>16. ASSUME NEW j \in Inums, lock[j] # None
       PROVE  lock'[j] = lock[j] /\ From(j)' = From(j) /\ To(j)' = To(j) /\ fd'[lock[j]] = fd[lock[j]]
  BY <1>2, <1>13, <1>16, Zenon DEF From, To
<1>17. ASSUME lock'[i] # None
       PROVE  lock'[i] = p /\ From(i)' = off[f] /\ To(i)' = off[f] /\ off[f] <= inode[i].size
  <2>1. lock'[i] = p /\ off[f] <= inode[i].size
    BY <1>12, <1>17, Zenon
  <2>2. From(i)' = off[f] /\ To(i)' = off[f] + 0
    BY <1>1, <1>2, <1>9, <2>1, Zenon DEF From, To
  <2> QED
    BY <1>5, <2>1, <2>2
<1>18. \A j \in Inums : End(j)' = End(j)
  BY <1>2, <1>11, <1>16, <1>17, Zenon DEF End
<1>19. ASSUME NEW j \in Inums, NEW o \in Nat
       PROVE  Expected(j, o)' = Expected(j, o)
  <2>1. CASE lock[j] # None
    BY <1>2, <1>16, <2>1, Zenon DEF Expected
  <2>2. CASE lock[j] = None
    <3>1. Expected(j, o) = wanted[j][o + 1]
      BY <2>2, Zenon DEF Expected
    <3>2. ~ (lock'[j] # None /\ From(j)' <= o /\ o < To(j)')
      <4>1. CASE j = i
        BY <1>5, <1>17, <4>1
      <4>2. CASE j # i
        BY <1>11, <2>2, <4>2, Zenon
      <4> QED
        BY <4>1, <4>2, Zenon
    <3>3. Expected(j, o)' = wanted'[j][o + 1]
      BY <3>2, Zenon DEF Expected
    <3> QED
      BY <1>2, <3>1, <3>3, Zenon
  <2> QED
    BY <2>1, <2>2, Zenon
<1>20. \A j \in Inums : (lock'[j] = None \/ To(j)' <= inode[j].size) =>
                         (lock[j] = None \/ To(j) <= inode[j].size)
  BY <1>16, Zenon
<1>21. \A q \in Procs : logged'[q] = {} \/ logged'[q] = logged[q]
  BY <1>6, <1>7, Zenon
<1>22. ASSUME NEW q \in Procs, at'[q].pc = "copy", logged'[q] # {}
       PROVE  /\ at[q].pc = "copy" /\ fd'[q] = fd[q]
              /\ From(ip[fd[q]])' = From(ip[fd[q]]) /\ To(ip[fd[q]])' = To(ip[fd[q]])
  <2>1. q # p
    BY <1>7, <1>22, Zenon
  <2>2. at[q].pc = "copy" /\ fd'[q] = fd[q]
    BY <1>2, <1>6, <1>22, <2>1, Zenon
  <2>3. PICK j : j = ip[fd[q]]
    BY Zenon
  <2>4. lock[j] = q /\ fd[q] # None
    BY <1>0, <2>2, <2>3, Zenon DEF Locking
  <2>5. j \in Inums /\ lock[j] # None
    <3>1. fd[q] \in Files
      BY <1>0, <2>4, Zenon DEF TypeOK
    <3> QED
      BY <2>3, <2>4, <3>1, FileDataAssumption, Zenon
  <2>6. From(j)' = From(j) /\ To(j)' = To(j)
    BY <1>16, <2>5, Zenon
  <2>7. j = ip[fd'[q]]
    BY <2>2, <2>3, Zenon
  <2> QED
    BY <2>2, <2>3, <2>6, <2>7, Zenon
<1>23. UNCHANGED <<fs, wanted>>
  BY <1>2, Zenon DEF fs
<1>24. \A q \in Procs : at'[q].pc = "copy" /\ logged'[q] # {} =>
              /\ at[q].pc = "copy" /\ fd'[q] = fd[q]
              /\ From(ip[fd[q]])' = From(ip[fd[q]]) /\ To(ip[fd[q]])' = To(ip[fd[q]])
  BY <1>22, Zenon
<1>25. \A j \in Inums, o \in Nat : Expected(j, o)' = Expected(j, o)
  BY <1>19, Zenon
<1> QED
  BY <1>10, <1>14, <1>15, <1>18, <1>20, <1>21, <1>23, <1>24, <1>25, FsKept

-----------------------------------------------------------------------------
(***************************************************************************)
(* itrunc, the file system that mkfs makes, and the theorems               *)
(***************************************************************************)

\* itrunc keeps the invariant.
LEMMA itruncInv ==
    ASSUME IInv, NEW i \in Inums, itrunc(i)
    PROVE  IInv'
<1>0. /\ TypeOK /\ Locking /\ OffsetAdds /\ BlocksOwnedOnce /\ Mapped /\ Written /\ Saved /\ InLog
      /\ LogSpace
  BY Zenon DEF IInv
<1>1. /\ lock[i] = None /\ \A f \in Files : ip[f] = i => ~ Opened(f)
      /\ bitmap' = bitmap \ BlocksOf(inode[i])
      /\ inode' = [inode EXCEPT ![i] = NoFile] /\ dinode' = [dinode EXCEPT ![i] = NoFile]
      /\ wanted' = [wanted EXCEPT ![i] = <<>>]
      /\ data' = data /\ lock' = lock /\ fd' = fd /\ off' = off /\ at' = at /\ logged' = logged /\ moved' = moved
  BY Zenon DEF itrunc, CanLock, Freed
<1>2. /\ inode'[i] = NoFile /\ dinode'[i] = NoFile /\ wanted'[i] = <<>>
      /\ \A j \in Inums : j # i => inode'[j] = inode[j] /\ dinode'[j] = dinode[j] /\ wanted'[j] = wanted[j]
  BY <1>0, <1>1, Zenon DEF TypeOK
<1>3. \A j \in Inums, k \in 0..MAXFILE : Ref(inode[j], k)' = IF j = i THEN 0 ELSE Ref(inode[j], k)
  <2> SUFFICES ASSUME NEW j \in Inums, NEW k \in 0..MAXFILE
               PROVE  Ref(inode[j], k)' = IF j = i THEN 0 ELSE Ref(inode[j], k)
    BY Zenon
  <2>1. CASE j = i
    <3>1. Ref(inode[j], k)' = RefIn(data', NoFile.addrs, k)
      BY <1>2, <2>1, Zenon DEF Ref
    <3>2. \A d : RefIn(d, NoFile.addrs, k) = 0
      BY NoFileIs, Zenon
    <3> QED
      BY <2>1, <3>1, <3>2, Zenon
  <2>2. CASE j # i
    <3>1. inode'[j] = inode[j] /\ data' = data
      BY <1>1, <1>2, <2>2, Zenon
    <3> QED
      BY <2>2, <3>1, Zenon DEF Ref
  <2> QED
    BY <2>1, <2>2, Zenon
<1>4. \A j \in Inums : From(j)' = From(j) /\ To(j)' = To(j)
  BY <1>1, Zenon DEF From, To
<1>5. End(i)' = 0 /\ \A j \in Inums : j # i => End(j)' = End(j)
  <2>1. NoFile.size = 0
    BY NoFileIs, Zenon
  <2>2. End(i)' = inode'[i].size
    BY <1>1, Zenon DEF End
  <2>3. ASSUME NEW j \in Inums, j # i
        PROVE  End(j)' = End(j)
    <3>1. inode'[j] = inode[j] /\ To(j)' = To(j) /\ lock' = lock
      BY <1>1, <1>2, <1>4, <2>3, Zenon
    <3> QED
      BY <3>1, Zenon DEF End
  <2> QED
    BY <1>2, <2>1, <2>2, <2>3, Zenon
<1>6. TypeOK'
  <2>1. bitmap' \subseteq Blocks
    BY <1>0, <1>1, Zenon DEF TypeOK
  <2>2. inode' \in [Inums -> Nodes] /\ dinode' \in [Inums -> Nodes]
    BY <1>0, <1>1, NoFileIs, Zenon DEF TypeOK
  <2>3. wanted' \in [Inums -> Seq(Blocks \cup {0})]
    <3>1. <<>> \in Seq(Blocks \cup {0})
      OBVIOUS
    <3> QED
      BY <1>0, <1>1, <3>1, Zenon DEF TypeOK
  <2> QED
    BY <1>0, <1>1, <2>1, <2>2, <2>3, Zenon DEF TypeOK
<1>7. Locking'
  BY <1>0, <1>1, Zenon DEF Locking
<1>8. OffsetAdds'
  <2> SUFFICES ASSUME NEW f \in Files, Opened(f)'
               PROVE  off'[f] = moved'[f] /\ off'[f] <= inode'[ip[f]].size
    BY Zenon DEF OffsetAdds
  <2>1. Opened(f)
    BY <1>1, Zenon DEF Opened
  <2>2. ip[f] # i /\ ip[f] \in Inums
    BY <1>1, <2>1, FileDataAssumption, Zenon
  <2> QED
    BY <1>0, <1>1, <1>2, <2>1, <2>2, Zenon DEF OffsetAdds
<1>9. BlocksOwnedOnce'
  <2>1. \A j, l \in Inums, k, r \in 0..MAXFILE :
          Ref(inode[j], k) = Ref(inode[l], r) /\ Ref(inode[j], k) # 0 => j = l /\ k = r
    BY <1>0, Zenon DEF BlocksOwnedOnce
  <2>2. \A j, l \in Inums, k, r \in 0..MAXFILE :
          Ref(inode[j], k)' = Ref(inode[l], r)' /\ Ref(inode[j], k)' # 0 => j = l /\ k = r
    <3> SUFFICES ASSUME NEW j \in Inums, NEW l \in Inums, NEW k \in 0..MAXFILE, NEW r \in 0..MAXFILE,
                        Ref(inode[j], k)' = Ref(inode[l], r)', Ref(inode[j], k)' # 0
                 PROVE  j = l /\ k = r
      OBVIOUS
    <3>1. j # i /\ l # i
      BY <1>3, Zenon
    <3>2. Ref(inode[j], k) = Ref(inode[l], r) /\ Ref(inode[j], k) # 0
      BY <1>3, <3>1, Zenon
    <3> QED
      BY <2>1, <3>2
  <2>3. ASSUME NEW x
        PROVE  x \in bitmap' <=> \E j \in Inums : x \in BlocksOf(inode[j])'
    <3>1. ASSUME x \in bitmap'
          PROVE  \E j \in Inums : x \in BlocksOf(inode[j])'
      <4>1. x \in bitmap /\ x \notin BlocksOf(inode[i])
        BY <1>1, <3>1, Zenon
      <4>2. PICK j \in Inums : x \in BlocksOf(inode[j])
        BY <1>0, <4>1, ZenonT(40) DEF BlocksOwnedOnce
      <4>3. j # i
        BY <4>1, <4>2, Zenon
      <4>4. x \in BlocksOf(inode[j])'
        BY <1>3, <4>2, <4>3, Zenon DEF BlocksOf
      <4> QED
        BY <4>4, Zenon
    <3>2. ASSUME NEW j \in Inums, x \in BlocksOf(inode[j])'
          PROVE  x \in bitmap'
      <4>1. PICK k \in 0..MAXFILE : Ref(inode[j], k)' = x /\ x # 0
        BY <3>2, Zenon DEF BlocksOf
      <4>2. j # i /\ Ref(inode[j], k) = x
        BY <1>3, <4>1, Zenon
      <4>3. x \in bitmap
        BY <1>0, <4>1, <4>2, RefsUsed, Zenon
      <4>4. ASSUME x \in BlocksOf(inode[i])
            PROVE  FALSE
        <5>1. PICK r \in 0..MAXFILE : Ref(inode[i], r) = x
          BY <4>4, Zenon DEF BlocksOf
        <5>2. i = j
          BY <2>1, <4>1, <4>2, <5>1
        <5> QED
          BY <4>2, <5>2, Zenon
      <4> QED
        BY <1>1, <4>3, <4>4, Zenon
    <3> QED
      BY <3>1, <3>2, Zenon
  <2>4. bitmap' = UNION {BlocksOf(inode[j])' : j \in Inums}
    BY <2>3, Zenon
  <2> QED
    BY <2>2, <2>4, Zenon DEF BlocksOwnedOnce
<1>10. Mapped'
  <2> SUFFICES ASSUME NEW j \in Inums, NEW q \in 0..MAXFILE
               PROVE  Ref(inode[j], q)' # 0 <=> Needs(NBlocks(End(j)'), q)
    BY Zenon DEF Mapped, NBlocks
  <2>1. CASE j = i
    <3>1. ~ Needs(0, q)
      BY Constants DEF Needs
    <3> QED
      BY <1>3, <1>5, <2>1, <3>1, NoFileIs, Zenon
  <2>2. CASE j # i
    BY <1>0, <1>3, <1>5, <2>2, Zenon DEF Mapped
  <2> QED
    BY <2>1, <2>2, Zenon
<1>11. Written'
  <2>1. \A j \in Inums : DOMAIN wanted'[j] = 1..inode'[j].size
    <3>1. DOMAIN <<>> = 1..0
      OBVIOUS
    <3> QED
      BY <1>0, <1>2, <3>1, NoFileIs, Zenon DEF Written
  <2>2. ASSUME NEW j \in Inums, NEW o \in 0..(End(j)' - 1)
        PROVE  data'[Ref(inode[j], Place(o \div BSIZE))'][o % BSIZE] = Expected(j, o)'
    <3>1. j # i
      BY <1>5, <2>2
    <3>2. o \in 0..(End(j) - 1)
      BY <1>5, <2>2, <3>1, Zenon
    <3>3. Place(o \div BSIZE) \in 0..MAXFILE
      BY <1>0, <3>2, ByteHasPlace
    <3>4. data[Ref(inode[j], Place(o \div BSIZE))][o % BSIZE] = Expected(j, o)
      BY <1>0, <3>2, Zenon DEF Written
    <3>5. Expected(j, o)' = Expected(j, o)
      <4>1. /\ From(j)' = From(j) /\ To(j)' = To(j) /\ lock' = lock /\ fd' = fd
            /\ wanted'[j] = wanted[j]
        BY <1>1, <1>2, <1>4, <3>1, Zenon
      <4> QED
        BY <4>1, Zenon DEF Expected
    <3> QED
      BY <1>1, <1>3, <3>1, <3>3, <3>4, <3>5, Zenon
  <2> QED
    BY <2>1, <2>2, Zenon DEF Written
<1>12. Saved'
  BY <1>0, <1>1, <1>2, <1>4, Zenon DEF Saved
<1>13. InLog'
  <2> SUFFICES ASSUME NEW q \in Procs, at'[q].pc = "copy"
               PROVE  logged'[q] \subseteq
                       {BitmapBlock, inode'[ip[fd'[q]]].addrs[NDIRECT]} \cup
                       {Ref(inode[ip[fd[q]]], Place(x))' : x \in Touched(From(ip[fd[q]])', To(ip[fd[q]])')}
    BY Zenon DEF InLog, Touched
  <2>1. at[q].pc = "copy" /\ logged'[q] = logged[q]
    BY <1>1, Zenon
  <2>2. PICK j : j = ip[fd[q]]
    BY Zenon
  <2>3. lock[j] = q /\ fd[q] # None
    BY <1>0, <2>1, <2>2, Zenon DEF Locking
  <2>4. j \in Inums /\ j # i
    <3>1. fd[q] \in Files
      BY <1>0, <2>3, Zenon DEF TypeOK
    <3> QED
      BY <1>1, <2>2, <2>3, <3>1, FileDataAssumption, Zenon
  <2>5. \A x \in Touched(From(j), To(j)) : Ref(inode[j], Place(x))' = Ref(inode[j], Place(x))
    <3>1. \A x \in Touched(From(j), To(j)) : Place(x) \in 0..MAXFILE
      BY Places, Zenon DEF Touched
    <3> QED
      BY <1>3, <2>4, <3>1, Zenon
  <2>6. logged[q] \subseteq {BitmapBlock, inode[ip[fd[q]]].addrs[NDIRECT]} \cup
             {Ref(inode[ip[fd[q]]], Place(x)) : x \in Touched(From(ip[fd[q]]), To(ip[fd[q]]))}
    BY <1>0, <2>1, Zenon DEF InLog
  <2>7. logged[q] \subseteq {BitmapBlock, inode[j].addrs[NDIRECT]} \cup
             {Ref(inode[j], Place(x)) : x \in Touched(From(j), To(j))}
    BY <2>2, <2>6, Zenon
  <2>8. Touched(From(j)', To(j)') = Touched(From(j), To(j))
    BY <1>4, <2>4, Zenon
  <2>9. logged'[q] \subseteq {BitmapBlock, inode'[j].addrs[NDIRECT]} \cup
             {Ref(inode[j], Place(x))' : x \in Touched(From(j)', To(j)')}
    <3>1. {Ref(inode[j], Place(x)) : x \in Touched(From(j), To(j))} =
          {Ref(inode[j], Place(x))' : x \in Touched(From(j)', To(j)')}
      BY <2>5, <2>8, Zenon
    <3>2. inode'[j] = inode[j]
      BY <1>2, <2>4, Zenon
    <3> QED
      BY <2>1, <2>7, <3>1, <3>2, Zenon
  <2>10. j = ip[fd'[q]]
    BY <1>1, <2>2, Zenon
  <2> QED
    BY <2>9, <2>10, Zenon
<1>14. LogSpace'
  BY <1>0, <1>1, Zenon DEF LogSpace
<1> QED
  BY <1>6, <1>7, <1>8, <1>9, <1>10, <1>11, <1>12, <1>13, <1>14, Zenon DEF IInv

\* What mkfs makes: inode i has a file of size bytes, the first k of them written.
Made(i, k, size, addrs, free) ==
    /\ Image(data, addrs, free, k)
    /\ bitmap = UsedBlocks(free)
    /\ inode = [j \in Inums |-> IF j = i THEN [size |-> size, addrs |-> addrs] ELSE NoFile]
    /\ wanted = [j \in Inums |-> IF j # i THEN <<>>
                        ELSE [o \in 1..size |-> IF o <= k THEN Byte(0, o - 1) ELSE 0]]

\* The first state has an image that iappend made.
LEMMA InitMade ==
    ASSUME Init
    PROVE  \E i \in Inums, k \in 0..MaxImage : \E size \in Sizes(k) :
              \E addrs, free : Made(i, k, size, addrs, free)
<1>0. PICK i \in Inums, k \in 0..MaxImage : \E size \in Sizes(k) :
        /\ bitmap = UsedBlocks(iappend[k].free)
        /\ data = iappend[k].data
        /\ inode = [j \in Inums |-> IF j = i THEN [size |-> size, addrs |-> iappend[k].addrs] ELSE NoFile]
        /\ wanted = [j \in Inums |-> IF j # i THEN <<>>
                        ELSE [o \in 1..size |-> IF o <= k THEN Byte(0, o - 1) ELSE 0]]
  BY Zenon DEF Init
<1>1. PICK size \in Sizes(k) :
        /\ bitmap = UsedBlocks(iappend[k].free)
        /\ data = iappend[k].data
        /\ inode = [j \in Inums |-> IF j = i THEN [size |-> size, addrs |-> iappend[k].addrs] ELSE NoFile]
        /\ wanted = [j \in Inums |-> IF j # i THEN <<>>
                        ELSE [o \in 1..size |-> IF o <= k THEN Byte(0, o - 1) ELSE 0]]
  BY <1>0, Zenon
<1>2. Image(iappend[k].data, iappend[k].addrs, iappend[k].free, k)
  BY ImagesAre, Zenon
<1>3. PICK addrs, free : addrs = iappend[k].addrs /\ free = iappend[k].free
  BY Zenon
<1>4. Made(i, k, size, addrs, free)
  BY <1>1, <1>2, <1>3, Zenon DEF Made
<1> QED
  BY <1>4, Zenon

\* Its blocks are all in one inode.
LEMMA MadeRefs ==
    ASSUME NEW i \in Inums, NEW k \in 0..MaxImage, NEW addrs, NEW free, NEW size \in Sizes(k),
           Made(i, k, size, addrs, free)
    PROVE  /\ \A q \in 0..MAXFILE : Ref(inode[i], q) = RefIn(data, addrs, q)
           /\ \A j \in Inums, q \in 0..MAXFILE : j # i => Ref(inode[j], q) = 0
           /\ inode[i].size = size /\ \A j \in Inums : j # i => inode[j].size = 0
           /\ inode \in [Inums -> Nodes] /\ bitmap \subseteq Blocks
<1>1. inode[i] = [size |-> size, addrs |-> addrs] /\ \A j \in Inums : j # i => inode[j] = NoFile
  BY Zenon DEF Made
<1>2. inode[i].size = size /\ inode[i].addrs = addrs
  BY <1>1
<1>3. addrs \in Addrs
  BY Zenon DEF Made, Image
<1>4. size \in 0..(MAXFILE * BSIZE)
  BY SizesAre, Zenon
<1>5. [size |-> size, addrs |-> addrs] \in Nodes
  BY <1>3, <1>4 DEF Nodes, Addrs
<1>6. inode \in [Inums -> Nodes]
  BY <1>5, NoFileIs, Zenon DEF Made
<1>7. bitmap \subseteq Blocks
  <2>1. \A b \in UsedBlocks(free) : \E q \in 0..MAXFILE : RefIn(data, addrs, q) = b
    BY Zenon DEF Made, Image
  <2>2. \A q \in 0..MAXFILE : RefIn(data, addrs, q) \in Blocks \cup {0}
    <3>1. data \in DiskData
      BY Zenon DEF Made, Image
    <3>2. \A q \in 0..MAXFILE : /\ q <= NDIRECT => q \in 0..NDIRECT
                                /\ ~ (q <= NDIRECT) => q - NDIRECT - 1 \in Offs
                                /\ NDIRECT \in 0..NDIRECT
      BY Constants DEF Offs
    <3> QED
      BY <1>3, <3>1, <3>2, Zenon DEF RefIn, Addrs, DiskData
  <2>3. 0 \notin UsedBlocks(free)
    BY Constants DEF UsedBlocks
  <2> QED
    BY <2>1, <2>2, <2>3, Zenon DEF Made
<1> QED
  BY <1>1, <1>2, <1>6, <1>7, NoFileIs, Zenon DEF Ref

\* At first, the bitmap has the blocks of the files.
LEMMA InitOwned ==
    ASSUME NEW i \in Inums, NEW k \in 0..MaxImage, NEW addrs, NEW free, NEW size \in Sizes(k),
           Made(i, k, size, addrs, free)
    PROVE  BlocksOwnedOnce
<1>1. /\ bitmap = UsedBlocks(free)
      /\ \A q \in 0..MAXFILE : RefIn(data, addrs, q) \in UsedBlocks(free) \cup {0}
      /\ \A q, r \in 0..MAXFILE :
            RefIn(data, addrs, q) = RefIn(data, addrs, r) /\ RefIn(data, addrs, q) # 0 => q = r
      /\ \A b \in UsedBlocks(free) : \E q \in 0..MAXFILE : RefIn(data, addrs, q) = b
  BY Zenon DEF Made, Image
<1>2. /\ \A q \in 0..MAXFILE : Ref(inode[i], q) = RefIn(data, addrs, q)
      /\ \A j \in Inums, q \in 0..MAXFILE : j # i => Ref(inode[j], q) = 0
  BY MadeRefs, Zenon
<1>3. 0 \notin UsedBlocks(free)
  BY Constants DEF UsedBlocks
<1>4. \A j \in Inums : j # i => BlocksOf(inode[j]) = {}
  BY <1>2, Zenon DEF BlocksOf
<1>5. BlocksOf(inode[i]) = UsedBlocks(free)
  <2>1. ASSUME NEW b \in UsedBlocks(free) PROVE b \in BlocksOf(inode[i])
    <3>1. PICK q \in 0..MAXFILE : RefIn(data, addrs, q) = b
      BY <1>1, Zenon
    <3>2. Ref(inode[i], q) = b /\ b # 0
      BY <1>2, <1>3, <3>1, Zenon
    <3> QED
      BY <3>2, Zenon DEF BlocksOf
  <2>2. ASSUME NEW b \in BlocksOf(inode[i]) PROVE b \in UsedBlocks(free)
    <3>1. PICK q \in 0..MAXFILE : Ref(inode[i], q) = b
      BY Zenon DEF BlocksOf
    <3>2. b # 0
      BY Zenon DEF BlocksOf
    <3> QED
      BY <1>1, <1>2, <3>1, <3>2, Zenon
  <2> QED
    BY <2>1, <2>2, Zenon
<1>6. bitmap = UNION {BlocksOf(inode[j]) : j \in Inums}
  <2>1. ASSUME NEW b \in UNION {BlocksOf(inode[j]) : j \in Inums} PROVE b \in UsedBlocks(free)
    BY <1>4, <1>5, Zenon
  <2>2. ASSUME NEW b \in UsedBlocks(free) PROVE b \in UNION {BlocksOf(inode[j]) : j \in Inums}
    BY <1>5, Zenon
  <2> QED
    BY <1>1, <2>1, <2>2, Zenon
<1>7. \A j, l \in Inums, q, r \in 0..MAXFILE :
        Ref(inode[j], q) = Ref(inode[l], r) /\ Ref(inode[j], q) # 0 => j = l /\ q = r
  <2> SUFFICES ASSUME NEW j \in Inums, NEW l \in Inums, NEW q \in 0..MAXFILE, NEW r \in 0..MAXFILE,
                      Ref(inode[j], q) = Ref(inode[l], r), Ref(inode[j], q) # 0
               PROVE  j = l /\ q = r
    OBVIOUS
  <2>1. j = i /\ l = i
    BY <1>2, Zenon
  <2>2. RefIn(data, addrs, q) = RefIn(data, addrs, r) /\ RefIn(data, addrs, q) # 0
    BY <1>2, <2>1, Zenon
  <2> QED
    BY <1>1, <2>1, <2>2, Zenon
<1> QED
  BY <1>6, <1>7, Zenon DEF BlocksOwnedOnce

\* The contents: block and offset of byte o.
LEMMA InitContents ==
    ASSUME NEW i \in Inums, NEW k \in 0..MaxImage, NEW addrs, NEW free, NEW size \in Sizes(k),
           Made(i, k, size, addrs, free), NEW o \in 0..(size - 1)
    PROVE  data[Ref(inode[i], Place(o \div BSIZE))][o % BSIZE] = wanted[i][o + 1]
<1>1. PICK b, c : b = o \div BSIZE /\ c = o % BSIZE
  BY Zenon
<1>2. k \in Nat /\ size \in Nat /\ size \in 0..(MAXFILE * BSIZE) /\ NBlocks(size) = NBlocks(k)
  BY SizesAre, Zenon
<1>3. o \in Nat /\ b \in Nat /\ c \in Offs /\ o = b * BSIZE + c /\ b < NBlocks(size)
  BY <1>1, <1>2, BlockOfByte, Zenon
<1>4. b \in 0..(MAXFILE - 1)
  <2>1. PICK top : top = MAXFILE * BSIZE /\ top \in Nat
    BY Constants
  <2>2. o < top
    <3>1. size \in 0..top
      BY <1>2, <2>1, Zenon
    <3> QED
      BY <1>3, <2>1, <3>1
  <2>3. c \in Nat
    BY <1>3, Constants DEF Offs
  <2>4. b < MAXFILE
    BY <1>3, <2>1, <2>2, <2>3, BlockBelow, Constants, Zenon
  <2> QED
    BY <1>3, <2>4, Constants
<1>5. data[RefIn(data, addrs, Place(b))][c] = IF b * BSIZE + c < k THEN Byte(0, b * BSIZE + c) ELSE 0
  <2>1. b < NBlocks(k)
    BY <1>2, <1>3, Zenon
  <2> QED
    BY <1>3, <1>4, <2>1, Zenon DEF Made, Image
<1>6. Place(b) \in 0..MAXFILE
  BY <1>4, Places, Zenon
<1>7. data[Ref(inode[i], Place(b))][c] = IF o < k THEN Byte(0, o) ELSE 0
  <2>1. Ref(inode[i], Place(b)) = RefIn(data, addrs, Place(b))
    BY <1>6, MadeRefs, Zenon
  <2> QED
    BY <1>3, <1>5, <2>1, Zenon
<1>8. o + 1 \in 1..size /\ (o + 1 <= k <=> o < k) /\ (o + 1) - 1 = o
  BY <1>2, <1>3
<1>9. wanted[i][o + 1] = IF o + 1 <= k THEN Byte(0, (o + 1) - 1) ELSE 0
  <2>1. wanted[i] = [x \in 1..size |-> IF x <= k THEN Byte(0, x - 1) ELSE 0]
    BY Zenon DEF Made
  <2> QED
    BY <1>8, <2>1, Zenon
<1> QED
  BY <1>1, <1>7, <1>8, <1>9, Zenon

\* The first state has the types.
LEMMA InitType ==
    ASSUME Init
    PROVE  TypeOK
<1>0. PICK i \in Inums, k \in 0..MaxImage : \E size \in Sizes(k) :
         \E addrs, free : Made(i, k, size, addrs, free)
  BY InitMade, Zenon
<1>1. PICK size \in Sizes(k) : \E addrs, free : Made(i, k, size, addrs, free)
  BY <1>0, Zenon
<1>2. PICK addrs, free : Made(i, k, size, addrs, free)
  BY <1>1, Zenon
<1>3. /\ lock = [j \in Inums |-> None] /\ fd = [p \in Procs |-> None] /\ off = [f \in Files |-> 0]
      /\ moved = off /\ at = [p \in Procs |-> Idle] /\ logged = [p \in Procs |-> {}] /\ dinode = inode
  BY Zenon DEF Init
<1>4. inode \in [Inums -> Nodes] /\ bitmap \subseteq Blocks
  BY <1>2, MadeRefs, Zenon
<1>5. data \in [Blocks -> [Offs -> Blocks \cup {0}]]
  BY <1>2, Zenon DEF Made, Image, DiskData
<1>6. wanted \in [Inums -> Seq(Blocks \cup {0})]
  <2>1. PICK S : S = Blocks \cup {0}
    BY Zenon
  <2>2. k \in Nat /\ size \in Nat
    BY SizesAre, Zenon
  <2>3. ASSUME NEW o \in 1..size PROVE (IF o <= k THEN Byte(0, o - 1) ELSE 0) \in S
    <3>1. o - 1 \in Nat /\ 0 \in Nat
      BY <2>2
    <3>2. Byte(0, o - 1) \in Blocks
      BY <3>1, BytesFit, Zenon
    <3> QED
      BY <2>1, <3>2, Zenon
  <2>4. [o \in 1..size |-> IF o <= k THEN Byte(0, o - 1) ELSE 0] \in [1..size -> S]
    BY <2>3, Zenon
  <2>5. [o \in 1..size |-> IF o <= k THEN Byte(0, o - 1) ELSE 0] \in Seq(S)
    <3>1. PICK w : w = [o \in 1..size |-> IF o <= k THEN Byte(0, o - 1) ELSE 0]
      BY Zenon
    <3>2. w \in [1..size -> S]
      BY <2>4, <3>1, Zenon
    <3>3. w \in Seq(S)
      BY <2>2, <3>2
    <3> QED
      BY <3>1, <3>3, Zenon
  <2>6. << >> \in Seq(S)
    OBVIOUS
  <2>7. wanted = [j \in Inums |-> IF j # i THEN <<>>
                     ELSE [o \in 1..size |-> IF o <= k THEN Byte(0, o - 1) ELSE 0]]
    BY <1>2, Zenon DEF Made
  <2> QED
    BY <2>1, <2>5, <2>6, <2>7, Zenon
<1>7. off \in [Files -> 0..(MAXFILE * BSIZE)] /\ moved \in [Files -> Nat]
  <2>1. 0 \in Nat /\ 0 \in 0..(MAXFILE * BSIZE)
    BY Constants
  <2> QED
    BY <1>3, <2>1, Zenon
<1>8. /\ at \in [Procs -> [pc : {"idle", "chunk", "copy"}, left : Nat, n : Nat, done : Nat]]
      /\ \A p \in Procs : at[p].done <= at[p].n /\ at[p].n <= at[p].left
  <2>1. /\ Idle \in [pc : {"idle", "chunk", "copy"}, left : Nat, n : Nat, done : Nat]
        /\ Idle.done <= Idle.n /\ Idle.n <= Idle.left
    BY DEF Idle
  <2> QED
    BY <1>3, <2>1, Zenon
<1>9. /\ lock \in [Inums -> Procs \cup {None}] /\ fd \in [Procs -> Files \cup {None}]
      /\ logged \in [Procs -> SUBSET (Blocks \cup {BitmapBlock, InodeBlock})]
  <2>1. {} \in SUBSET (Blocks \cup {BitmapBlock, InodeBlock})
    BY Zenon
  <2> QED
    BY <1>3, <2>1, Zenon
<1> QED
  BY <1>3, <1>4, <1>5, <1>6, <1>7, <1>8, <1>9, Zenon DEF TypeOK

\* The first state satisfies the invariant.
LEMMA InitInv ==
    ASSUME Init
    PROVE  IInv
<1>0. PICK i \in Inums, k \in 0..MaxImage : \E size \in Sizes(k) :
         \E addrs, free : Made(i, k, size, addrs, free)
  BY InitMade, Zenon
<1>1. PICK size \in Sizes(k) : \E addrs, free : Made(i, k, size, addrs, free)
  BY <1>0, Zenon
<1>2. PICK addrs, free : Made(i, k, size, addrs, free)
  BY <1>1, Zenon
<1>3. /\ lock = [j \in Inums |-> None] /\ fd = [p \in Procs |-> None]
      /\ at = [p \in Procs |-> Idle] /\ logged = [p \in Procs |-> {}] /\ dinode = inode
  BY Zenon DEF Init
<1>4. Idle.pc = "idle" /\ Idle.done = 0
  BY DEF Idle
<1>5. /\ \A p \in Procs : at[p].pc = "idle" /\ at[p].done = 0 /\ fd[p] = None /\ logged[p] = {}
      /\ \A j \in Inums : lock[j] = None /\ End(j) = inode[j].size
  BY <1>3, <1>4, Zenon DEF End
<1>6. Locking
  <2>1. "idle" # "copy"
    OBVIOUS
  <2> QED
    BY <1>5, <2>1, Zenon DEF Locking
<1>7. OffsetAdds
  BY <1>5, FileDataAssumption, Zenon DEF OffsetAdds, Opened
<1>8. k \in Nat /\ size \in Nat /\ NBlocks(size) = NBlocks(k)
  BY SizesAre, Zenon
<1>9. /\ \A q \in 0..MAXFILE : Ref(inode[i], q) = RefIn(data, addrs, q)
      /\ \A j \in Inums, q \in 0..MAXFILE : j # i => Ref(inode[j], q) = 0
      /\ inode[i].size = size /\ \A j \in Inums : j # i => inode[j].size = 0
  BY <1>2, MadeRefs, Zenon
<1>10. Mapped
  <2> SUFFICES ASSUME NEW j \in Inums, NEW q \in 0..MAXFILE
               PROVE  Ref(inode[j], q) # 0 <=> Needs(NBlocks(End(j)), q)
    BY Zenon DEF Mapped
  <2>1. CASE j = i
    <3>1. RefIn(data, addrs, q) # 0 <=> Needs(NBlocks(k), q)
      BY <1>2, Zenon DEF Made, Image
    <3> QED
      BY <1>5, <1>8, <1>9, <2>1, <3>1, Zenon
  <2>2. CASE j # i
    <3>1. ~ Needs(0, q)
      BY Constants DEF Needs
    <3> QED
      BY <1>5, <1>9, <2>2, <3>1, NoFileIs, Zenon
  <2> QED
    BY <2>1, <2>2, Zenon
<1>11. Written
  <2>1. ASSUME NEW j \in Inums
        PROVE  DOMAIN wanted[j] = 1..inode[j].size
    <3>1. CASE j = i
      <4>1. wanted[i] = [o \in 1..size |-> IF o <= k THEN Byte(0, o - 1) ELSE 0]
        BY <1>2, Zenon DEF Made
      <4> QED
        BY <1>9, <3>1, <4>1, Zenon
    <3>2. CASE j # i
      <4>1. wanted[j] = << >>
        BY <1>2, <3>2, Zenon DEF Made
      <4>2. DOMAIN << >> = 1..0
        OBVIOUS
      <4> QED
        BY <1>9, <3>2, <4>1, <4>2, Zenon
    <3> QED
      BY <3>1, <3>2, Zenon
  <2>2. ASSUME NEW j \in Inums, NEW o \in 0..(End(j) - 1)
        PROVE  data[Ref(inode[j], Place(o \div BSIZE))][o % BSIZE] = wanted[j][o + 1]
    <3>1. CASE j = i
      <4>1. o \in 0..(size - 1)
        BY <1>5, <1>9, <3>1, Zenon
      <4> QED
        BY <1>2, <3>1, <4>1, InitContents, ZenonT(40)
    <3>2. CASE j # i
      <4>1. End(j) = 0
        BY <1>5, <1>9, <3>2, Zenon
      <4> QED
        BY <4>1
    <3> QED
      BY <3>1, <3>2, Zenon
  <2>3. \A j \in Inums : \A o : Expected(j, o) = wanted[j][o + 1]
    BY <1>5, Zenon DEF Expected
  <2> QED
    BY <2>1, <2>2, <2>3, Zenon DEF Written
<1>12. Saved
  BY <1>3, Zenon DEF Saved
<1>13. InLog
  <2>1. "idle" # "copy"
    OBVIOUS
  <2> QED
    BY <1>5, <2>1, Zenon DEF InLog
<1>14. LogSpace
  <2>1. Cardinality({}) = 0
    BY FS_EmptySet, Zenon
  <2>2. 0 < MAXOPBLOCKS
    BY FileDataAssumption
  <2> QED
    BY <1>5, <2>1, <2>2, Zenon DEF LogSpace
<1>15. BlocksOwnedOnce
  BY <1>2, InitOwned, Zenon
<1> QED
  BY <1>6, <1>7, <1>10, <1>11, <1>12, <1>13, <1>14, <1>15, InitType, Zenon DEF IInv

\* Every step keeps it.
LEMMA NextInv ==
    ASSUME IInv, [Next]_vars
    PROVE  IInv'
<1>1. ASSUME NEW p \in Procs, NEW f \in Files, Open(p, f) PROVE IInv'
  BY <1>1, OpenInv, Zenon
<1>2. ASSUME NEW p \in Procs, NEW q \in Procs, filedup(p, q) PROVE IInv'
  BY <1>2, filedupInv, Zenon
<1>3. ASSUME NEW p \in Procs, NEW n \in Counts, fileread(p, n) PROVE IInv'
  BY <1>3, filereadInv, Zenon
<1>4. ASSUME NEW p \in Procs, NEW n \in Counts, Write(p, n) PROVE IInv'
  BY <1>4, WriteInv, Zenon
<1>5. ASSUME NEW p \in Procs, filewrite(p) PROVE IInv'
  BY <1>5, filewriteInv, Zenon
<1>6. ASSUME NEW p \in Procs, writei(p) PROVE IInv'
  BY <1>6, WriteiInv, Zenon
<1>7. ASSUME NEW p \in Procs, Close(p) PROVE IInv'
  BY <1>7, CloseInv, Zenon
<1>8. ASSUME NEW i \in Inums, itrunc(i) PROVE IInv'
  BY <1>8, itruncInv, Zenon
<1>9. CASE UNCHANGED vars
  <2>1. /\ bitmap' = bitmap /\ data' = data /\ inode' = inode /\ dinode' = dinode /\ lock' = lock
        /\ fd' = fd /\ off' = off /\ at' = at /\ logged' = logged /\ wanted' = wanted /\ moved' = moved
    BY <1>9 DEF vars
  <2>2. UNCHANGED <<fs, wanted, lock, logged>>
    BY <2>1 DEF fs
  <2>3. TypeOK /\ Locking /\ OffsetAdds
    BY Zenon DEF IInv
  <2>4. TypeOK'
    BY <2>1, <2>3, Zenon DEF TypeOK
  <2>5. Locking'
    BY <2>1, <2>3, LockingKept, Zenon
  <2>6. OffsetAdds'
    BY <2>1, <2>3, Zenon DEF OffsetAdds, Opened
  <2> QED
    BY <2>1, <2>2, <2>4, <2>5, <2>6, LocksKept, Zenon
<1> QED
  BY <1>1, <1>2, <1>3, <1>4, <1>5, <1>6, <1>7, <1>8, <1>9, Zenon DEF Next

\* The inductive invariant holds in every state.
THEOREM Invariance == Spec => []IInv
<1>1. Init => IInv
  BY InitInv, Zenon
<1>2. IInv /\ [Next]_vars => IInv'
  BY NextInv, Zenon
<1> QED
  BY <1>1, <1>2, PTL DEF Spec

\* balloc, bfree, bmap, itrunc and iappend: a block is marked in use exactly when one place of
\* one inode refers to it, and a file has exactly the blocks that its size needs.
THEOREM BlocksNeededHolds == Spec => []BlocksNeeded
<1>1. IInv => BlocksNeeded
  <2> SUFFICES ASSUME IInv PROVE BlocksNeeded
    BY Zenon
  <2>1. TypeOK /\ Locking /\ BlocksOwnedOnce /\ Mapped
    BY Zenon DEF IInv
  <2>2. ASSUME NEW i \in Inums, NEW k \in 0..MAXFILE
        PROVE  /\ Needs(NBlocks(inode[i].size), k) => Ref(inode[i], k) # 0
               /\ lock[i] = None /\ Ref(inode[i], k) # 0 => Needs(NBlocks(inode[i].size), k)
    <3>1. PICK s, e, n, m : /\ s = inode[i].size /\ e = End(i) /\ n = NBlocks(inode[i].size)
                            /\ m = NBlocks(End(i))
      BY Zenon
    <3>2. s \in Nat
      <4>1. inode[i] \in Nodes
        BY <2>1, Zenon DEF TypeOK
      <4> QED
        BY <3>1, <4>1, Constants DEF Nodes
    <3>3. e \in Nat
      BY <2>1, <3>1, EndFits, Zenon
    <3>4. s <= e
      <4>1. CASE e = s
        BY <3>2, <4>1
      <4>2. CASE e # s
        <5>1. e = To(i) /\ ~ (To(i) <= s)
          BY <3>1, <4>2, Zenon DEF End
        <5> QED
          BY <3>2, <3>3, <5>1
      <4> QED
        BY <4>1, <4>2, Zenon
    <3>5. n \in Nat /\ m \in Nat /\ n <= m
      <4>1. /\ n \in Nat /\ \A q \in Nat : q < n <=> q * BSIZE < s
            /\ m \in Nat /\ \A q \in Nat : q < m <=> q * BSIZE < e
        BY <3>1, <3>2, <3>3, NBlocksIs, Zenon
      <4>2. ~ (m < m)
        BY <4>1
      <4>3. ~ (m * BSIZE < e)
        BY <4>1, <4>2, Zenon
      <4>4. PICK o : o = m * BSIZE /\ o \in Nat
        BY <4>1, Constants
      <4>5. ~ (m * BSIZE < s)
        BY <3>2, <3>3, <3>4, <4>3, <4>4
      <4>6. ~ (m < n)
        BY <4>1, <4>5, Zenon
      <4> QED
        BY <4>1, <4>6
    <3>6. Needs(n, k) => Needs(m, k)
      BY <3>5, Constants DEF Needs
    <3>7. Ref(inode[i], k) # 0 <=> Needs(m, k)
      BY <2>1, <3>1, Zenon DEF Mapped
    <3>8. lock[i] = None => m = n
      BY <3>1, Zenon DEF End
    <3> QED
      BY <3>1, <3>6, <3>7, <3>8, Zenon
  <2> QED
    BY <2>1, <2>2, Zenon DEF BlocksNeeded, NoHoles
<1> QED
  BY <1>1, Invariance, PTL

\* readi, writei and iupdate: a file that nobody has locked reads as what was written to it,
\* and its inode on the disk is the one in memory.
THEOREM FilesKeptHolds == Spec => []FilesKept
<1>1. IInv => FilesKept
  <2> SUFFICES ASSUME IInv PROVE FilesKept
    BY Zenon
  <2>1. TypeOK /\ Written /\ Saved
    BY Zenon DEF IInv
  <2>2. ASSUME NEW i \in Inums, lock[i] = None
        PROVE  Contents(inode[i]) = wanted[i]
    <3>1. PICK s : s = inode[i].size
      BY Zenon
    <3>2. s \in Nat /\ End(i) = s
      <4>1. inode[i] \in Nodes
        BY <2>1, Zenon DEF TypeOK
      <4>2. s \in Nat
        BY <3>1, <4>1, Constants DEF Nodes
      <4> QED
        BY <2>2, <3>1, <4>2, Zenon DEF End
    <3>3. DOMAIN wanted[i] = 1..s /\ wanted[i] = [o \in DOMAIN wanted[i] |-> wanted[i][o]]
      <4>1. wanted[i] \in Seq(Blocks \cup {0})
        BY <2>1, Zenon DEF TypeOK
      <4>2. wanted[i] \in [1..Len(wanted[i]) -> Blocks \cup {0}]
        BY <4>1
      <4>3. DOMAIN wanted[i] = 1..s
        BY <2>1, <3>1, Zenon DEF Written
      <4> QED
        BY <4>2, <4>3, Zenon
    <3>4. ASSUME NEW o \in 1..s
          PROVE  data[Ref(inode[i], Place((o - 1) \div BSIZE))][(o - 1) % BSIZE] = wanted[i][o]
      <4>1. PICK x : x = o - 1
        BY Zenon
      <4>2. x \in 0..(s - 1) /\ x + 1 = o
        BY <3>2, <4>1
      <4>3. data[Ref(inode[i], Place(x \div BSIZE))][x % BSIZE] = Expected(i, x)
        BY <2>1, <3>2, <4>2, Zenon DEF Written
      <4>4. Expected(i, x) = wanted[i][x + 1]
        BY <2>2, Zenon DEF Expected
      <4> QED
        BY <4>1, <4>2, <4>3, <4>4, Zenon
    <3>5. Contents(inode[i]) =
            [o \in 1..s |-> data[Ref(inode[i], Place((o - 1) \div BSIZE))][(o - 1) % BSIZE]]
      BY <3>1, Zenon DEF Contents
    <3>6. Contents(inode[i]) = [o \in 1..s |-> wanted[i][o]]
      BY <3>4, <3>5, Zenon
    <3> QED
      BY <3>3, <3>6, Zenon
  <2>3. OnDisk
    BY <2>1, Zenon DEF Saved, OnDisk
  <2> QED
    BY <2>2, <2>3, Zenon DEF FilesKept, ReadsWhatWasWritten
<1> QED
  BY <1>1, Invariance, PTL

\* filewrite: the blocks that a chunk logs fit into a transaction, whatever the sizes of
\* blocks and transactions, and a shared offset moves by what was read and written.
THEOREM WritesAddUpHolds == Spec => []WritesAddUp
<1>1. IInv => WritesAddUp
  BY Zenon DEF IInv, WritesAddUp
<1> QED
  BY <1>1, Invariance, PTL
=============================================================================

--------------------------- MODULE FileDataWrites ---------------------------
(***************************************************************************)
(* The inductive invariant of module FileData, and the proof that writei   *)
(* keeps it.                                                               *)
(***************************************************************************)
EXTENDS FileDataBlocks

-----------------------------------------------------------------------------
(***************************************************************************)
(* The inductive invariant                                                 *)
(***************************************************************************)
\* Where the chunk that is being written to inode i begins, and how far it is.
From(i) == off[fd[lock[i]]]
To(i) == From(i) + at[lock[i]].done

\* The bytes of an inode that have blocks.
End(i) == IF lock[i] = None \/ To(i) <= inode[i].size THEN inode[i].size ELSE To(i)

Locking ==
    /\ \A i \in Inums : lock[i] # None =>
        fd[lock[i]] # None /\ ip[fd[lock[i]]] = i /\ at[lock[i]].pc = "copy"
    /\ \A p \in Procs : at[p].pc # "idle" => fd[p] # None /\ at[p].left > 0
    /\ \A p \in Procs : at[p].pc # "copy" => at[p].done = 0
    /\ \A p \in Procs : at[p].pc = "copy" =>
        /\ lock[ip[fd[p]]] = p
        /\ at[p].done < at[p].n /\ at[p].n <= Chunk(at[p].left)
        /\ off[fd[p]] + at[p].n <= MAXFILE * BSIZE

Mapped ==
    \A i \in Inums, k \in 0..MAXFILE :
        Ref(inode[i], k) # 0 <=> Needs(NBlocks(End(i)), k)

Expected(i, o) ==
    IF lock[i] # None /\ From(i) <= o /\ o < To(i) THEN Byte(fd[lock[i]], o)
    ELSE wanted[i][o + 1]

Written ==
    \A i \in Inums :
        /\ DOMAIN wanted[i] = 1..inode[i].size
        /\ \A o \in 0..(End(i) - 1) :
            data[Ref(inode[i], Place(o \div BSIZE))][o % BSIZE] = Expected(i, o)

Saved ==
    \A i \in Inums : lock[i] = None \/ To(i) <= inode[i].size => dinode[i] = inode[i]

Touched(a, b) == {x \in 0..(MAXFILE - 1) : x * BSIZE < b /\ a < (x + 1) * BSIZE}

InLog ==
    \A p \in Procs : at[p].pc = "copy" =>
        LET i == ip[fd[p]] IN
        logged[p] \subseteq {BitmapBlock, inode[i].addrs[NDIRECT]} \cup
                             {Ref(inode[i], Place(x)) : x \in Touched(From(i), To(i))}

IInv ==
    /\ TypeOK /\ Locking /\ OffsetAdds /\ BlocksOwnedOnce /\ Mapped
    /\ Written /\ Saved /\ InLog /\ LogSpace

-----------------------------------------------------------------------------
(***************************************************************************)
(* What an iteration of writei does                                        *)
(***************************************************************************)

\* The block that a chunk has come to, and the bytes of it that go there.
CopyAt(p, f, i, pos, k, bn, m) ==
    /\ at[p].pc = "copy" /\ f = fd[p] /\ i = ip[f] /\ pos = off[f] + at[p].done /\ k = pos % BSIZE
    /\ bn = pos \div BSIZE /\ m = Smaller(at[p].n - at[p].done, BSIZE - k)

CopyInRange(p, f, i, pos, k, bn, m) ==
    /\ f \in Files /\ f \in Nat /\ i \in Inums /\ lock[i] = p /\ Opened(f)
    /\ off[f] \in Nat /\ off[f] <= inode[i].size /\ inode[i].size \in Nat
    /\ pos \in Nat /\ off[f] <= pos /\ k \in Offs /\ bn \in 0..(MAXFILE - 1)
    /\ pos = bn * BSIZE + k
    /\ m \in Nat /\ m > 0 /\ k + m <= BSIZE
    /\ at[p].done \in Nat /\ at[p].n \in Nat /\ at[p].left \in Nat
    /\ at[p].done + m <= at[p].n /\ off[f] + at[p].n <= MAXFILE * BSIZE
    /\ at[p].n <= at[p].left
    /\ From(i) = off[f] /\ To(i) = pos

LEMMA CopyNumbers ==
    ASSUME TypeOK, Locking, OffsetAdds, NEW p \in Procs, NEW f, NEW i, NEW pos, NEW k, NEW bn, NEW m,
           CopyAt(p, f, i, pos, k, bn, m)
    PROVE  CopyInRange(p, f, i, pos, k, bn, m)
<1>0. /\ at[p].pc = "copy" /\ f = fd[p] /\ i = ip[f] /\ pos = off[f] + at[p].done /\ k = pos % BSIZE
      /\ bn = pos \div BSIZE /\ m = Smaller(at[p].n - at[p].done, BSIZE - k)
  BY Zenon DEF CopyAt
<1>1. f \in Files /\ f \in Nat /\ i \in Inums /\ lock[i] = p /\ Opened(f)
  <2>1. fd[p] # None /\ lock[ip[fd[p]]] = p
    BY <1>0, Zenon DEF Locking
  <2>2. f \in Files
    BY <1>0, <2>1, Zenon DEF TypeOK
  <2> QED
    BY <1>0, <2>1, <2>2, FileDataAssumption, Zenon DEF Opened
<1>2. off[f] \in Nat /\ off[f] <= inode[i].size /\ inode[i].size \in Nat
  <2>1. off[f] \in Nat
    BY <1>1, Constants DEF TypeOK
  <2>2. inode[i].size \in Nat
    <3>1. inode[i] \in Nodes
      BY <1>1, Zenon DEF TypeOK
    <3> QED
      BY <3>1 DEF Nodes
  <2> QED
    BY <1>0, <1>1, <2>1, <2>2, Zenon DEF OffsetAdds
<1>3. /\ at[p].done \in Nat /\ at[p].n \in Nat /\ at[p].left \in Nat
      /\ at[p].done < at[p].n /\ at[p].n <= at[p].left /\ off[f] + at[p].n <= MAXFILE * BSIZE
  BY <1>0 DEF TypeOK, Locking
<1>4. pos \in Nat /\ off[f] <= pos /\ pos < MAXFILE * BSIZE
  BY <1>0, <1>2, <1>3, Constants
<1>5. k \in Offs /\ bn \in Nat /\ pos = bn * BSIZE + k
  BY <1>0, <1>4, DivMod, Zenon
<1>6. bn \in 0..(MAXFILE - 1)
  <2>1. k \in Nat
    BY <1>5, Constants DEF Offs
  <2>2. bn < MAXFILE
    BY <1>4, <1>5, <2>1, BlockBelow, Constants, Zenon
  <2> QED
    BY <1>5, <2>2, Constants
<1>7. m \in Nat /\ m > 0 /\ k + m <= BSIZE /\ at[p].done + m <= at[p].n
  <2>1. k \in Nat /\ k < BSIZE /\ BSIZE \in Nat
    BY <1>5, Constants DEF Offs
  <2>2. PICK dn : dn = at[p].done
    BY Zenon
  <2>3. PICK n : n = at[p].n
    BY Zenon
  <2>4. dn \in Nat /\ n \in Nat /\ dn < n /\ m = Smaller(n - dn, BSIZE - k)
    BY <1>0, <1>3, <2>2, <2>3, Zenon
  <2>5. m \in Nat /\ m > 0 /\ k + m <= BSIZE /\ dn + m <= n
    BY <2>1, <2>4 DEF Smaller
  <2> QED
    BY <2>2, <2>3, <2>5, Zenon
<1>8. From(i) = off[f] /\ To(i) = pos
  BY <1>0, <1>1, Zenon DEF From, To
<1> QED
  BY <1>1, <1>2, <1>3, <1>4, <1>5, <1>6, <1>7, <1>8, Zenon DEF CopyInRange

\* Process p copies m bytes through file f to inode i, at byte k of its block bn, and new
\* has the blocks of the path to this block.
Copies(p, f, i, pos, k, bn, m, new) ==
    LET last == at[p].done + m = at[p].n
        grows == last /\ pos + m > inode[i].size
    IN
    /\ f = fd[p] /\ i = ip[f] /\ pos = off[f] + at[p].done /\ k = pos % BSIZE
    /\ bn = pos \div BSIZE /\ m = Smaller(at[p].n - at[p].done, BSIZE - k) /\ at[p].pc = "copy"
    /\ Bmapped(data, bitmap, inode[i].addrs, bn, new, data', bitmap', inode'[i].addrs)
    /\ \A c \in k..(k + m - 1) : data'[new[Place(bn)]][c] = Byte(f, pos - k + c)
    /\ Ref(inode[i], Place(bn)) # 0 =>
        \A c \in Offs \ (k..(k + m - 1)) : data'[new[Place(bn)]][c] = data[new[Place(bn)]][c]
    /\ inode'[i] = [size |-> IF grows THEN pos + m ELSE inode[i].size, addrs |-> inode'[i].addrs]
    /\ inode' = [inode EXCEPT ![i] = inode'[i]]
    /\ dinode' = IF grows THEN [dinode EXCEPT ![i] = inode'[i]] ELSE dinode
    /\ logged' = [logged EXCEPT ![p] = logged'[p]]
    /\ logged'[p] \subseteq logged[p] \cup {BitmapBlock} \cup {new[q] : q \in Path(bn)}
                             \cup (IF last THEN {InodeBlock} ELSE {})
    /\ \/ /\ ~ last
          /\ at' = [at EXCEPT ![p].done = @ + m]
          /\ UNCHANGED <<lock, off, wanted, moved>>
       \/ /\ last
          /\ off' = [off EXCEPT ![f] = pos + m]
          /\ moved' = [moved EXCEPT ![f] = @ + at[p].n]
          /\ lock' = [lock EXCEPT ![i] = None]
          /\ at' = [at EXCEPT ![p] = IF at[p].left = at[p].n THEN Idle
                                     ELSE [Idle EXCEPT !.pc = "chunk", !.left = at[p].left - at[p].n]]
          /\ wanted' = [wanted EXCEPT ![i] =
                           Replaced(@, off[f], [c \in 1..at[p].n |-> Byte(f, off[f] + c - 1)])]
    /\ fd' = fd

\* The blocks that inodes refer to are in use.
LEMMA RefsUsed ==
    ASSUME TypeOK, BlocksOwnedOnce, NEW i \in Inums
    PROVE  /\ \A k \in 0..MAXFILE : Ref(inode[i], k) \in bitmap \cup {0}
           /\ \A k, l \in 0..MAXFILE :
                Ref(inode[i], k) = Ref(inode[i], l) /\ Ref(inode[i], k) # 0 => k = l
           /\ inode[i] \in Nodes /\ inode[i].addrs \in Addrs /\ data \in DiskData
           /\ bitmap \in SUBSET Blocks
<1>1. inode[i] \in Nodes /\ data \in DiskData /\ bitmap \in SUBSET Blocks
  BY Zenon DEF TypeOK, DiskData
<1>2. inode[i].addrs \in Addrs
  BY <1>1 DEF Nodes, Addrs
<1>3. \A k \in 0..MAXFILE : Ref(inode[i], k) \in bitmap \cup {0}
  <2> SUFFICES ASSUME NEW k \in 0..MAXFILE, Ref(inode[i], k) # 0
               PROVE  Ref(inode[i], k) \in bitmap
    BY Zenon
  <2>1. Ref(inode[i], k) \in BlocksOf(inode[i])
    BY Zenon DEF BlocksOf
  <2> QED
    BY <2>1, Zenon DEF BlocksOwnedOnce
<1> QED
  BY <1>1, <1>2, <1>3, Zenon DEF BlocksOwnedOnce

\* What an iteration of writei does, in terms of the blocks that bmap returned.
LEMMA WriteiCopies ==
    ASSUME IInv, NEW p \in Procs, writei(p)
    PROVE  \E f, i, pos, k, bn, m, new : Copies(p, f, i, pos, k, bn, m, new)
<1>0. TypeOK /\ Locking /\ OffsetAdds /\ BlocksOwnedOnce
  BY Zenon DEF IInv
<1>1. PICK f : f = fd[p]
  BY Zenon
<1>2. PICK i : i = ip[f]
  BY Zenon
<1>3. PICK pos : pos = off[f] + at[p].done
  BY Zenon
<1>4. PICK k : k = pos % BSIZE
  BY Zenon
<1>5. PICK bn : bn = pos \div BSIZE
  BY Zenon
<1>6. PICK m : m = Smaller(at[p].n - at[p].done, BSIZE - k)
  BY Zenon
<1>7. PICK s : s = bmap(Fs(bitmap, data, inode[i], logged[p], 0), bn)
  BY Zenon
<1> DEFINE last == at[p].done + m = at[p].n
           grows == last /\ pos + m > inode[i].size
           node == IF grows THEN [s.node EXCEPT !.size = pos + m] ELSE s.node
<1>8. /\ at[p].pc = "copy" /\ HasRoom(inode[i], bn)
      /\ bitmap' = s.used
      /\ data' = [s.data EXCEPT ![s.blk] =
                    [c \in Offs |-> IF c \in k..(k + m - 1) THEN Byte(f, pos - k + c) ELSE @[c]]]
      /\ inode' = [inode EXCEPT ![i] = node]
      /\ dinode' = IF grows THEN [dinode EXCEPT ![i] = node] ELSE dinode
      /\ logged' = [logged EXCEPT ![p] =
                      s.log \cup {s.blk} \cup (IF grows THEN {InodeBlock} ELSE {})]
  BY <1>1, <1>2, <1>3, <1>4, <1>5, <1>6, <1>7, Zenon DEF writei, Grows
<1>9. /\ \/ /\ ~ last
            /\ at' = [at EXCEPT ![p].done = @ + m]
            /\ UNCHANGED <<lock, off, wanted, moved>>
         \/ /\ last
            /\ off' = [off EXCEPT ![f] = pos + m]
            /\ moved' = [moved EXCEPT ![f] = @ + at[p].n]
            /\ lock' = [lock EXCEPT ![i] = None]
            /\ at' = [at EXCEPT ![p] = IF at[p].left = at[p].n THEN Idle
                                       ELSE [Idle EXCEPT !.pc = "chunk", !.left = at[p].left - at[p].n]]
            /\ wanted' = [wanted EXCEPT ![i] =
                             Replaced(@, off[f], [c \in 1..at[p].n |-> Byte(f, off[f] + c - 1)])]
      /\ fd' = fd
  BY <1>1, <1>2, <1>3, <1>4, <1>5, <1>6, <1>7, Zenon DEF writei
<1>8a. at[p].pc = "copy" /\ HasRoom(inode[i], bn)
  BY <1>8, Zenon
<1>10. /\ f \in Nat /\ i \in Inums /\ pos \in Nat /\ k \in Offs /\ bn \in 0..(MAXFILE - 1)
       /\ m \in Nat /\ k + m <= BSIZE /\ pos = bn * BSIZE + k
  <2>1. CopyAt(p, f, i, pos, k, bn, m)
    BY <1>1, <1>2, <1>3, <1>4, <1>5, <1>6, <1>8a, Zenon DEF CopyAt
  <2>2. CopyInRange(p, f, i, pos, k, bn, m)
    BY <1>0, <2>1, CopyNumbers, Zenon
  <2> QED
    BY <2>2, Zenon DEF CopyInRange
<1>11. /\ \A q \in 0..MAXFILE : Ref(inode[i], q) \in bitmap \cup {0}
       /\ \A q, l \in 0..MAXFILE :
            Ref(inode[i], q) = Ref(inode[i], l) /\ Ref(inode[i], q) # 0 => q = l
       /\ inode[i] \in Nodes /\ inode[i].addrs \in Addrs /\ bitmap \in SUBSET Blocks
  BY <1>10, RefsUsed, Zenon DEF IInv
<1>12. /\ s.node = [size |-> inode[i].size, addrs |-> s.node.addrs]
       /\ \E new : /\ Bmapped(data, bitmap, inode[i].addrs, bn, new, s.data, s.used, s.node.addrs)
                   /\ s.blk = new[Place(bn)]
                   /\ s.log \subseteq logged[p] \cup {BitmapBlock} \cup {new[q] : q \in Path(bn)}
                   /\ \A c \in bitmap : (NDIRECT \in Path(bn) => c # new[NDIRECT]) => s.data[c] = data[c]
  <2>1. inode[i] \in Nodes
    BY <1>11, Zenon
  <2> HIDE DEF last, grows, node
  <2> QED
    BY <1>0, <1>7, <1>8a, <1>10, <1>11, <2>1, BmapIs
<1>13. PICK new : /\ Bmapped(data, bitmap, inode[i].addrs, bn, new, s.data, s.used, s.node.addrs)
                  /\ s.blk = new[Place(bn)]
                  /\ s.log \subseteq logged[p] \cup {BitmapBlock} \cup {new[q] : q \in Path(bn)}
                  /\ \A c \in bitmap : (NDIRECT \in Path(bn) => c # new[NDIRECT]) => s.data[c] = data[c]
  BY <1>12, Zenon
<1>14. node = [size |-> IF grows THEN pos + m ELSE inode[i].size, addrs |-> s.node.addrs]
  BY <1>12
<1>15. inode'[i] = node /\ node.addrs = s.node.addrs
  BY <1>8, <1>10, <1>14, Zenon DEF IInv, TypeOK
<1>16. /\ s.data \in DiskData /\ s.blk \in Blocks /\ s.blk = new[Place(bn)]
       /\ \A q \in Path(bn) : q # Place(bn) => new[q] # s.blk
  BY <1>10, <1>13, Places, Zenon DEF Bmapped
<1>17. /\ \A b \in Blocks : b # s.blk => data'[b] = s.data[b]
       /\ \A c \in k..(k + m - 1) : data'[s.blk][c] = Byte(f, pos - k + c)
       /\ \A c \in Offs \ (k..(k + m - 1)) : data'[s.blk][c] = s.data[s.blk][c]
       /\ data' \in DiskData
  <2>1. k..(k + m - 1) \subseteq Offs
    BY <1>10, Constants DEF Offs
  <2>2. \A c \in k..(k + m - 1) : Byte(f, pos - k + c) \in Blocks
    <3> SUFFICES ASSUME NEW c \in k..(k + m - 1)
                 PROVE  Byte(f, pos - k + c) \in Blocks
      BY Zenon
    <3>1. pos - k + c \in Nat
      BY <1>10, Constants DEF Offs
    <3> QED
      BY <1>10, <3>1, BytesFit, Zenon
  <2>3. PICK new2 : new2 = [c \in Offs |-> IF c \in k..(k + m - 1) THEN Byte(f, pos - k + c)
                                           ELSE s.data[s.blk][c]]
    BY Zenon
  <2>4. data' = [s.data EXCEPT ![s.blk] = new2]
    BY <1>8, <2>3, Zenon
  <2>5. new2 \in [Offs -> Blocks \cup {0}]
    BY <1>16, <2>2, <2>3, Zenon DEF DiskData
  <2> QED
    BY <1>16, <2>1, <2>3, <2>4, <2>5, Zenon DEF DiskData
<1>18. Bmapped(data, bitmap, inode[i].addrs, bn, new, data', bitmap', inode'[i].addrs)
  <2>1. \A b \in bitmap : b # new[Place(bn)] /\ (NDIRECT \in Path(bn) => b # new[NDIRECT])
                           => data'[b] = data[b]
    BY <1>11, <1>13, <1>16, <1>17, Zenon DEF Bmapped
  <2>2. NDIRECT \in Path(bn) => data'[new[NDIRECT]] = s.data[new[NDIRECT]]
    BY <1>10, <1>13, <1>16, <1>17, Places, Zenon DEF Bmapped
  <2>3. bitmap' = s.used /\ inode'[i].addrs = s.node.addrs
    BY <1>8, <1>15, Zenon
  <2>4. /\ new \in [Path(bn) -> Blocks]
        /\ \A q \in Path(bn) : IF RefIn(data, inode[i].addrs, q) # 0
                               THEN new[q] = RefIn(data, inode[i].addrs, q) ELSE new[q] \notin bitmap
        /\ \A q, l \in Path(bn) : new[q] = new[l] => q = l
        /\ bitmap' = bitmap \cup {new[q] : q \in Path(bn)}
    BY <1>13, <2>3, Zenon DEF Bmapped
  <2>5. inode'[i].addrs = [q \in 0..NDIRECT |-> IF q \in Path(bn) THEN new[q] ELSE inode[i].addrs[q]]
    BY <1>13, <2>3, Zenon DEF Bmapped
  <2>6. NDIRECT \in Path(bn) =>
          \A c \in Offs : data'[new[NDIRECT]][c] =
            IF c = bn - NDIRECT THEN new[Place(bn)]
            ELSE IF inode[i].addrs[NDIRECT] = 0 THEN 0 ELSE data[new[NDIRECT]][c]
    BY <1>13, <2>2, Zenon DEF Bmapped
  <2> QED
    BY <1>17, <2>1, <2>4, <2>5, <2>6, Zenon DEF Bmapped
<1>19. /\ \A c \in k..(k + m - 1) : data'[new[Place(bn)]][c] = Byte(f, pos - k + c)
       /\ Ref(inode[i], Place(bn)) # 0 =>
           \A c \in Offs \ (k..(k + m - 1)) : data'[new[Place(bn)]][c] = data[new[Place(bn)]][c]
  <2>1. ASSUME Ref(inode[i], Place(bn)) # 0
        PROVE  s.data[s.blk] = data[s.blk]
    <3>1. Place(bn) \in Path(bn) /\ Place(bn) \in 0..MAXFILE
      BY <1>10, Places, Zenon
    <3>2. s.blk = Ref(inode[i], Place(bn))
      BY <1>13, <1>16, <2>1, <3>1, Zenon DEF Bmapped, Ref
    <3>3. s.blk \in bitmap
      BY <1>11, <2>1, <3>1, <3>2, Zenon
    <3> QED
      BY <1>10, <1>13, <1>16, <3>3, Places, Zenon
  <2> QED
    BY <1>16, <1>17, <2>1, Zenon
<1>20. /\ inode'[i] = [size |-> IF grows THEN pos + m ELSE inode[i].size, addrs |-> inode'[i].addrs]
       /\ inode' = [inode EXCEPT ![i] = inode'[i]]
       /\ dinode' = IF grows THEN [dinode EXCEPT ![i] = inode'[i]] ELSE dinode
  BY <1>8, <1>14, <1>15, Zenon
<1>21. /\ logged' = [logged EXCEPT ![p] = logged'[p]]
       /\ logged'[p] \subseteq logged[p] \cup {BitmapBlock} \cup {new[q] : q \in Path(bn)}
                                \cup (IF last THEN {InodeBlock} ELSE {})
  <2>1. logged'[p] \subseteq s.log \cup {s.blk} \cup (IF grows THEN {InodeBlock} ELSE {})
    BY <1>0, <1>8, Zenon DEF TypeOK
  <2>2. s.blk \in {new[q] : q \in Path(bn)}
    BY <1>10, <1>16, Places, Zenon
  <2>3. logged' = [logged EXCEPT ![p] = logged'[p]]
    <3>1. PICK l : l = s.log \cup {s.blk} \cup (IF grows THEN {InodeBlock} ELSE {})
      BY Zenon
    <3>2. logged' = [logged EXCEPT ![p] = l]
      BY <1>8, <3>1, Zenon
    <3> QED
      BY <3>2
  <2> QED
    BY <1>13, <2>1, <2>2, <2>3, Zenon
<1>22. Copies(p, f, i, pos, k, bn, m, new)
  BY <1>1, <1>2, <1>3, <1>4, <1>5, <1>6, <1>8a, <1>9, <1>18, <1>19, <1>20, <1>21, Zenon DEF Copies
<1> QED
  BY <1>22, Zenon

\* A sequence that is written over, and made longer, has the same kind of elements.
LEMMA ReplacedType ==
    ASSUME NEW S, NEW old \in Seq(S), NEW o \in Nat, NEW n \in Nat, NEW new \in [1..n -> S],
           o <= Len(old)
    PROVE  /\ Replaced(old, o, new) \in Seq(S)
           /\ DOMAIN Replaced(old, o, new) = 1..(IF Len(old) > o + n THEN Len(old) ELSE o + n)
           /\ \A c \in 1..(IF Len(old) > o + n THEN Len(old) ELSE o + n) :
                Replaced(old, o, new)[c] = IF c > o /\ c <= o + n THEN new[c - o] ELSE old[c]
<1>1. PICK top : top = IF Len(old) > o + n THEN Len(old) ELSE o + n
  BY Zenon
<1>2. new \in Seq(S) /\ Len(new) = n
  OBVIOUS
<1>3. Replaced(old, o, new) =
        [c \in 1..top |-> IF c > o /\ c <= o + n THEN new[c - o] ELSE old[c]]
  BY <1>1, <1>2, Zenon DEF Replaced
<1>4. Len(old) \in Nat /\ top \in Nat /\ old \in [1..Len(old) -> S]
  BY <1>1
<1>5. ASSUME NEW c \in 1..top
      PROVE  (IF c > o /\ c <= o + n THEN new[c - o] ELSE old[c]) \in S
  <2>1. CASE c > o /\ c <= o + n
    <3>1. c - o \in 1..n
      BY <1>4, <2>1
    <3> QED
      BY <2>1, <3>1, Zenon
  <2>2. CASE ~ (c > o /\ c <= o + n)
    <3>1. c \in 1..Len(old)
      <4>1. PICK l : l = Len(old)
        BY Zenon
      <4>2. l \in Nat /\ top = (IF l > o + n THEN l ELSE o + n) /\ o <= l
        BY <1>1, <1>4, <4>1, Zenon
      <4>3. c \in 1..l
        BY <2>2, <4>2
      <4> QED
        BY <4>1, <4>3, Zenon
    <3> QED
      BY <1>4, <2>2, <3>1, Zenon
  <2> QED
    BY <2>1, <2>2, Zenon
<1>6. Replaced(old, o, new) \in [1..top -> S]
  BY <1>3, <1>5, Zenon
<1>7. Replaced(old, o, new) \in Seq(S)
  <2>1. PICK r : r = Replaced(old, o, new)
    BY Zenon
  <2>2. r \in [1..top -> S]
    BY <1>6, <2>1, Zenon
  <2>3. r \in Seq(S)
    BY <1>4, <2>2
  <2> QED
    BY <2>1, <2>3, Zenon
<1> QED
  BY <1>1, <1>3, <1>7, Zenon

\* The rest of the state, after a block that is not the last one, and after the last one.
MoreToCopy(p, m) ==
    at[p].done + m # at[p].n =>
        /\ lock' = lock /\ off' = off /\ wanted' = wanted /\ moved' = moved
        /\ at'[p].pc = "copy" /\ at'[p].done = at[p].done + m
        /\ at'[p].n = at[p].n /\ at'[p].left = at[p].left

ChunkDone(p, f, i, pos, m) ==
    at[p].done + m = at[p].n =>
        /\ lock'[i] = None /\ off'[f] = pos + m /\ moved'[f] = moved[f] + at[p].n
        /\ \A g \in Files : g # f => off'[g] = off[g] /\ moved'[g] = moved[g]
        /\ at'[p].pc # "copy" /\ at'[p].done = 0 /\ (at'[p].pc # "idle" => at'[p].left > 0)
        /\ wanted'[i] = Replaced(wanted[i], off[f],
                                 [c \in 1..at[p].n |-> Byte(f, off[f] + c - 1)])

\* The files have at most MAXFILE blocks.
LEMMA EndFits ==
    ASSUME TypeOK, Locking, NEW i \in Inums
    PROVE  End(i) \in Nat /\ NBlocks(End(i)) \in Nat /\ NBlocks(End(i)) <= MAXFILE
<1>1. inode[i].size \in Nat /\ inode[i].size <= MAXFILE * BSIZE
  <2>1. inode[i] \in Nodes
    BY Zenon DEF TypeOK
  <2>2. PICK top : top = MAXFILE * BSIZE /\ top \in Nat
    BY Constants
  <2>3. inode[i].size \in 0..top
    BY <2>1, <2>2, Zenon DEF Nodes
  <2> QED
    BY <2>2, <2>3
<1>2. ASSUME lock[i] # None
      PROVE  To(i) \in Nat /\ To(i) <= MAXFILE * BSIZE
  <2>1. PICK p, f : p = lock[i] /\ f = fd[p]
    BY Zenon
  <2>2. p \in Procs /\ at[p].pc = "copy" /\ f # None
    <3>1. p \in Procs
      BY <1>2, <2>1, Zenon DEF TypeOK
    <3> QED
      BY <1>2, <2>1, <3>1, Zenon DEF Locking
  <2>3. f \in Files
    BY <2>1, <2>2, Zenon DEF TypeOK
  <2>4. at[p].done < at[p].n /\ off[f] + at[p].n <= MAXFILE * BSIZE
    BY <2>1, <2>2, Zenon DEF Locking
  <2>5. PICK top : top = MAXFILE * BSIZE /\ top \in Nat
    BY Constants
  <2>6. off[f] \in 0..top /\ at[p].done \in Nat /\ at[p].n \in Nat
    BY <2>2, <2>3, <2>5 DEF TypeOK
  <2>7. To(i) = off[f] + at[p].done
    BY <2>1, Zenon DEF To, From
  <2> QED
    BY <2>4, <2>5, <2>6, <2>7
<1>3. End(i) \in Nat /\ End(i) <= MAXFILE * BSIZE
  BY <1>1, <1>2, Zenon DEF End
<1>4. NBlocks(End(i)) \in Nat /\ ~ (MAXFILE < NBlocks(End(i)))
  <2>1. PICK e : e = End(i)
    BY Zenon
  <2>2. NBlocks(e) \in Nat /\ (MAXFILE < NBlocks(e) <=> MAXFILE * BSIZE < e)
    BY <1>3, <2>1, NBlocksIs, Constants, Zenon
  <2>3. ~ (MAXFILE * BSIZE < e)
    BY <1>3, <2>1, Constants
  <2> QED
    BY <2>1, <2>2, <2>3, Zenon
<1> QED
  BY <1>3, <1>4, Constants

\* A byte that has a block is in place Place(o \div BSIZE), and the place is not empty.
LEMMA ByteHasPlace ==
    ASSUME TypeOK, Locking, Mapped, NEW j \in Inums, NEW o \in 0..(End(j) - 1)
    PROVE  /\ o \in Nat /\ o \div BSIZE \in 0..(MAXFILE - 1) /\ o % BSIZE \in Offs
           /\ o = (o \div BSIZE) * BSIZE + (o % BSIZE)
           /\ Place(o \div BSIZE) \in 0..MAXFILE /\ Ref(inode[j], Place(o \div BSIZE)) # 0
<1>1. End(j) \in Nat /\ NBlocks(End(j)) \in Nat /\ NBlocks(End(j)) <= MAXFILE
  BY EndFits
<1>2. PICK e, n : e = End(j) /\ n = NBlocks(End(j))
  BY Zenon
<1>3. PICK b, c : b = o \div BSIZE /\ c = o % BSIZE
  BY Zenon
<1>4. o \in Nat /\ b \in Nat /\ c \in Offs /\ o = b * BSIZE + c /\ b < n
  BY <1>1, <1>2, <1>3, BlockOfByte
<1>5. b \in 0..(MAXFILE - 1)
  BY <1>1, <1>2, <1>4, Constants
<1>6. Place(b) \in 0..MAXFILE
  BY <1>5, Places, Zenon
<1>7. Needs(n, Place(b))
  <2>1. n \in Nat
    BY <1>1, <1>2, Zenon
  <2> QED
    BY <1>4, <2>1, Constants DEF Needs, Place
<1>8. Ref(inode[j], Place(b)) # 0
  BY <1>2, <1>6, <1>7, Zenon DEF Mapped
<1> QED
  BY <1>3, <1>4, <1>5, <1>6, <1>8, Zenon

\* The blocks that a chunk logs: at most one for every block that its bytes are in, the
\* indirect block, the bitmap and the inode.
LEMMA TouchedFew ==
    ASSUME NEW a \in Nat, NEW b \in Nat, NEW n \in Nat, b <= a + n * BSIZE
    PROVE  IsFiniteSet(Touched(a, b)) /\ Cardinality(Touched(a, b)) <= n + 1
<1>1. PICK d : d = a \div BSIZE
  BY Zenon
<1>2. d \in Nat /\ d * BSIZE <= a /\ a < (d + 1) * BSIZE
  <2>1. PICK c : c = a % BSIZE
    BY Zenon
  <2>2. d \in Nat /\ c \in Offs /\ a = d * BSIZE + c
    BY <1>1, <2>1, DivMod, Zenon
  <2> QED
    BY <2>2, Constants DEF Offs
<1>3. Touched(a, b) \subseteq d..(d + n)
  <2> SUFFICES ASSUME NEW x \in 0..(MAXFILE - 1), x * BSIZE < b, a < (x + 1) * BSIZE
               PROVE  x \in d..(d + n)
    BY Zenon DEF Touched
  <2>1. x \in Nat
    BY Constants
  <2>2. d < x + 1
    <3>1. d * BSIZE < (x + 1) * BSIZE
      BY <1>2, <2>1, Constants
    <3> QED
      BY <1>2, <2>1, <3>1, Constants
  <2>3. x < d + 1 + n
    <3>1. x * BSIZE < (d + 1) * BSIZE + n * BSIZE
      BY <1>2, <2>1, Constants
    <3>2. (d + 1) * BSIZE + n * BSIZE = (d + 1 + n) * BSIZE
      BY <1>2, Constants
    <3> QED
      BY <1>2, <2>1, <3>1, <3>2, Constants
  <2> QED
    BY <1>2, <2>1, <2>2, <2>3
<1>4. IsFiniteSet(d..(d + n)) /\ Cardinality(d..(d + n)) = n + 1
  <2>1. d + n \in Int /\ d \in Int /\ (d + n) - d + 1 = n + 1 /\ ~ (d > d + n)
    BY <1>2
  <2> QED
    BY <2>1, FS_Interval
<1> QED
  BY <1>3, <1>4, FS_Subset, Zenon

\* A set that has at most three elements more than there are numbers in X.
LEMMA ImageAndThree ==
    ASSUME NEW X, NEW S, NEW g, IsFiniteSet(X), NEW n \in Nat, Cardinality(X) <= n,
           NEW u, NEW v, NEW w, S \subseteq {u, v, w} \cup {g[x] : x \in X}
    PROVE  IsFiniteSet(S) /\ Cardinality(S) <= n + 3
<1>1. PICK T : T = {g[x] : x \in X}
  BY Zenon
<1>2. IsFiniteSet(T) /\ Cardinality(T) <= n /\ Cardinality(T) \in Nat
  <2>1. PICK h : h = [x \in X |-> g[x]]
    BY Zenon
  <2>2. h \in Surjection(X, T)
    BY <1>1, <2>1, Zenon DEF Surjection
  <2>3. IsFiniteSet(T) /\ Cardinality(T) <= Cardinality(X)
    BY <2>2, FS_Surjection, Zenon
  <2>4. Cardinality(T) \in Nat /\ Cardinality(X) \in Nat
    BY <2>3, FS_CardinalityType, Zenon
  <2> QED
    BY <2>3, <2>4
<1>3. PICK T1 : T1 = T \cup {w}
  BY Zenon
<1>4. PICK T2 : T2 = T1 \cup {v}
  BY Zenon
<1>5. PICK T3 : T3 = T2 \cup {u}
  BY Zenon
<1>6. IsFiniteSet(T1) /\ Cardinality(T1) <= n + 1 /\ Cardinality(T1) \in Nat
  <2>1. IsFiniteSet(T1) /\ Cardinality(T1) = IF w \in T THEN Cardinality(T) ELSE Cardinality(T) + 1
    BY <1>2, <1>3, FS_AddElement, Zenon
  <2> QED
    BY <1>2, <2>1
<1>7. IsFiniteSet(T2) /\ Cardinality(T2) <= n + 2 /\ Cardinality(T2) \in Nat
  <2>1. IsFiniteSet(T2) /\ Cardinality(T2) = IF v \in T1 THEN Cardinality(T1) ELSE Cardinality(T1) + 1
    BY <1>4, <1>6, FS_AddElement, Zenon
  <2> QED
    BY <1>6, <2>1
<1>8. IsFiniteSet(T3) /\ Cardinality(T3) <= n + 3 /\ Cardinality(T3) \in Nat
  <2>1. IsFiniteSet(T3) /\ Cardinality(T3) = IF u \in T2 THEN Cardinality(T2) ELSE Cardinality(T2) + 1
    BY <1>5, <1>7, FS_AddElement, Zenon
  <2> QED
    BY <1>7, <2>1
<1>9. S \subseteq T3
  BY <1>1, <1>3, <1>4, <1>5, Zenon
<1>10. IsFiniteSet(S) /\ Cardinality(S) <= Cardinality(T3)
  BY <1>8, <1>9, FS_Subset, Zenon
<1>11. Cardinality(S) \in Nat
  BY <1>10, FS_CardinalityType, Zenon
<1> QED
  BY <1>8, <1>10, <1>11

\* The bytes of a chunk leave room in the log for the rest.
LEMMA ChunkFits ==
    ASSUME NEW left \in Nat, NEW n \in Nat, n <= Chunk(left)
    PROVE  \E z \in Nat : n <= z * BSIZE /\ z + 4 < MAXOPBLOCKS
<1>1. PICK z : z = (MAXOPBLOCKS - 1 - 1 - 2) \div 2
  BY Zenon
<1>2. MAXOPBLOCKS \in Nat /\ MAXOPBLOCKS >= 6
  BY FileDataAssumption, Zenon
<1>3. z \in Nat /\ z + 4 < MAXOPBLOCKS
  BY <1>1, <1>2
<1>4. n <= z * BSIZE
  <2>1. PICK y : y = z * BSIZE /\ y \in Nat
    BY <1>3, Constants
  <2>2. Chunk(left) = Smaller(left, y)
    BY <1>1, <2>1, Zenon DEF Chunk
  <2>3. n <= y
    BY <2>1, <2>2 DEF Smaller
  <2> QED
    BY <2>1, <2>3, Zenon
<1> QED
  BY <1>3, <1>4, Zenon

\* Arithmetic of the positions in a chunk.
LEMMA NextPosition ==
    ASSUME NEW a \in Nat, NEW b \in Nat, NEW c \in Nat
    PROVE  a + (b + c) = (a + b) + c
OBVIOUS

LEMMA AtMost ==
    ASSUME NEW a \in Nat, NEW b \in Nat, NEW c \in Nat, NEW d \in Nat, a + b <= c, c <= d
    PROVE  a + b <= d
OBVIOUS

LEMMA OutOfRange ==
    ASSUME NEW z \in Nat, NEW a \in Nat, NEW b \in Nat, NEW c \in Nat,
           NEW x, x = z + a, NEW y, y = z + c, ~ (x <= y /\ y < x + b)
    PROVE  c \notin a..(a + b - 1)
OBVIOUS

\* An iteration of writei keeps the invariant.
LEMMA CopyInv ==
    ASSUME IInv, NEW p \in Procs, NEW f, NEW i, NEW pos, NEW k, NEW bn, NEW m, NEW new,
           Copies(p, f, i, pos, k, bn, m, new)
    PROVE  IInv'
\* An iteration of writei changes the places of its path, and no other place of any inode.
<1>1. \A j \in Inums, q \in 0..MAXFILE :
         Ref(inode[j], q)' = IF j = i /\ q \in Path(bn) THEN new[q] ELSE Ref(inode[j], q)
  <2>0. TypeOK /\ Locking /\ OffsetAdds /\ BlocksOwnedOnce
    BY Zenon DEF IInv
  <2>1. i \in Inums /\ bn \in 0..(MAXFILE - 1)
    <3>1. CopyAt(p, f, i, pos, k, bn, m)
      BY Zenon DEF Copies, CopyAt
    <3>2. CopyInRange(p, f, i, pos, k, bn, m)
      BY <2>0, <3>1, CopyNumbers, Zenon
    <3> QED
      BY <3>2, Zenon DEF CopyInRange
  <2>2. /\ Bmapped(data, bitmap, inode[i].addrs, bn, new, data', bitmap', inode'[i].addrs)
        /\ inode' = [inode EXCEPT ![i] = inode'[i]]
    BY Zenon DEF Copies
  <2>3. \A j \in Inums : /\ \A q \in 0..MAXFILE : RefIn(data, inode[j].addrs, q) \in bitmap \cup {0}
                         /\ inode[j].addrs \in Addrs /\ data \in DiskData /\ bitmap \in SUBSET Blocks
    BY <2>0, RefsUsed, Zenon DEF Ref
  <2>4. \A j, l \in Inums, q, r \in 0..MAXFILE :
           RefIn(data, inode[j].addrs, q) = RefIn(data, inode[l].addrs, r)
              /\ RefIn(data, inode[j].addrs, q) # 0 => j = l /\ q = r
    BY <2>0, Zenon DEF BlocksOwnedOnce, Ref
  <2>5. \A q \in 0..MAXFILE : RefIn(data', inode'[i].addrs, q) =
                      IF q \in Path(bn) THEN new[q] ELSE RefIn(data, inode[i].addrs, q)
    <3>1. \A q, r \in 0..MAXFILE :
             RefIn(data, inode[i].addrs, q) = RefIn(data, inode[i].addrs, r)
              /\ RefIn(data, inode[i].addrs, q) # 0 => q = r
      BY <2>1, <2>4, Zenon
    <3>2. PICK addrs2 : addrs2 = inode'[i].addrs
      BY Zenon
    <3>3. PICK addrs : addrs = inode[i].addrs
      BY Zenon
    <3>4. PICK d2, u2 : d2 = data' /\ u2 = bitmap'
      BY Zenon
    <3>5. /\ Bmapped(data, bitmap, addrs, bn, new, d2, u2, addrs2)
          /\ addrs \in Addrs /\ data \in DiskData /\ bitmap \in SUBSET Blocks
          /\ \A q \in 0..MAXFILE : RefIn(data, addrs, q) \in bitmap \cup {0}
          /\ \A q, r \in 0..MAXFILE :
                RefIn(data, addrs, q) = RefIn(data, addrs, r) /\ RefIn(data, addrs, q) # 0 => q = r
      BY <2>1, <2>2, <2>3, <3>1, <3>2, <3>3, <3>4, Zenon
    <3>6. \A q \in 0..MAXFILE :
                RefIn(d2, addrs2, q) = IF q \in Path(bn) THEN new[q] ELSE RefIn(data, addrs, q)
      BY <2>1, <3>5, RefsAfter
    <3> QED
      BY <3>2, <3>3, <3>4, <3>6, Zenon
  <2>6. ASSUME NEW j \in Inums, j # i
        PROVE  \A q \in 0..MAXFILE : RefIn(data', inode'[j].addrs, q) = RefIn(data, inode[j].addrs, q)
    <3>1. inode'[j] = inode[j]
      BY <2>0, <2>2, <2>6, Zenon DEF TypeOK
    <3>2. PICK addrs2 : addrs2 = inode'[i].addrs
      BY Zenon
    <3>3. PICK addrs : addrs = inode[i].addrs
      BY Zenon
    <3>4. PICK d2, u2 : d2 = data' /\ u2 = bitmap'
      BY Zenon
    <3>5. PICK other : other = inode[j].addrs
      BY Zenon
    <3>6. /\ Bmapped(data, bitmap, addrs, bn, new, d2, u2, addrs2)
          /\ addrs \in Addrs /\ other \in Addrs /\ data \in DiskData /\ bitmap \in SUBSET Blocks
      BY <2>1, <2>2, <2>3, <3>2, <3>3, <3>4, <3>5, Zenon
    <3>7. NDIRECT \in 0..MAXFILE /\ NDIRECT <= NDIRECT
      BY Constants
    <3>8. RefIn(data, other, NDIRECT) = other[NDIRECT]
      BY <3>7, Zenon DEF RefIn
    <3>9. /\ other[NDIRECT] \in bitmap \cup {0}
          /\ \A q \in 0..MAXFILE : RefIn(data, addrs, q) # 0 => RefIn(data, addrs, q) # other[NDIRECT]
      <4>1. other[NDIRECT] \in bitmap \cup {0}
        BY <2>3, <3>5, <3>7, <3>8, Zenon
      <4>2. \A q \in 0..MAXFILE :
               RefIn(data, addrs, q) = RefIn(data, other, NDIRECT) /\ RefIn(data, addrs, q) # 0 => i = j
        BY <2>1, <2>4, <3>3, <3>5, <3>7, Zenon
      <4> QED
        BY <2>6, <3>8, <4>1, <4>2, Zenon
    <3>10. \A q \in 0..MAXFILE : RefIn(d2, other, q) = RefIn(data, other, q)
      BY <2>1, <3>6, <3>9, OtherRefs
    <3> QED
      BY <3>1, <3>4, <3>5, <3>10, Zenon
  <2> QED
    BY <2>5, <2>6, Zenon DEF Ref
\* The numbers of an iteration, collected.
<1>2. /\ f \in Files /\ f \in Nat /\ i \in Inums /\ lock[i] = p /\ Opened(f)
      /\ off[f] \in Nat /\ off[f] <= inode[i].size /\ inode[i].size \in Nat
      /\ pos \in Nat /\ off[f] <= pos /\ k \in Offs /\ bn \in 0..(MAXFILE - 1)
      /\ pos = bn * BSIZE + k
      /\ m \in Nat /\ m > 0 /\ k + m <= BSIZE
      /\ at[p].done \in Nat /\ at[p].n \in Nat /\ at[p].left \in Nat
      /\ at[p].done + m <= at[p].n /\ off[f] + at[p].n <= MAXFILE * BSIZE
      /\ at[p].n <= at[p].left
      /\ From(i) = off[f] /\ To(i) = pos
      /\ at[p].pc = "copy" /\ f = fd[p] /\ i = ip[f] /\ pos = off[f] + at[p].done
      /\ k = pos % BSIZE /\ bn = pos \div BSIZE
  <2>0. TypeOK /\ Locking /\ OffsetAdds
    BY Zenon DEF IInv
  <2>1. CopyAt(p, f, i, pos, k, bn, m)
    BY Zenon DEF Copies, CopyAt
  <2>2. CopyInRange(p, f, i, pos, k, bn, m)
    BY <2>0, <2>1, CopyNumbers, Zenon
  <2> QED
    BY <2>1, <2>2, Zenon DEF CopyAt, CopyInRange
\* Only the inode that is written gets more bytes with blocks.
<1>3. /\ \A j \in Inums : j # i =>
           /\ lock'[j] = lock[j] /\ inode'[j] = inode[j] /\ dinode'[j] = dinode[j]
           /\ wanted'[j] = wanted[j]
           /\ lock[j] # None => /\ From(j)' = From(j) /\ To(j)' = To(j)
                                /\ fd[lock[j]]' = fd[lock[j]]
           /\ End(j)' = End(j)
      /\ End(i) \in Nat /\ pos <= End(i) /\ inode[i].size <= End(i)
      /\ End(i) = IF pos <= inode[i].size THEN inode[i].size ELSE pos
      /\ End(i)' = IF pos + m > End(i) THEN pos + m ELSE End(i)
  <2>1. TypeOK /\ Locking
    BY Zenon DEF IInv
  <2>2. /\ f \in Files /\ i \in Inums /\ lock[i] = p /\ inode[i].size \in Nat /\ pos \in Nat
        /\ m \in Nat /\ m > 0 /\ From(i) = off[f] /\ To(i) = pos /\ pos = off[f] + at[p].done
        /\ f = fd[p] /\ off[f] \in Nat /\ at[p].done \in Nat
    BY <1>2
  <2>3. lock[i] # None
    BY <2>2, FileDataAssumption, Zenon
  <2>4. ASSUME NEW j \in Inums, j # i
        PROVE  /\ lock'[j] = lock[j] /\ inode'[j] = inode[j] /\ dinode'[j] = dinode[j]
               /\ wanted'[j] = wanted[j]
               /\ lock[j] # None => /\ From(j)' = From(j) /\ To(j)' = To(j)
                                    /\ fd[lock[j]]' = fd[lock[j]]
               /\ End(j)' = End(j)
    <3>1. /\ lock'[j] = lock[j] /\ inode'[j] = inode[j] /\ dinode'[j] = dinode[j]
          /\ wanted'[j] = wanted[j]
      <4>1. inode'[j] = inode[j]
        BY <2>1, <2>2, <2>4, Zenon DEF Copies, TypeOK
      <4>2. dinode'[j] = dinode[j]
        BY <2>1, <2>2, <2>4, Zenon DEF Copies, TypeOK
      <4>3. lock'[j] = lock[j] /\ wanted'[j] = wanted[j]
        BY <2>1, <2>2, <2>4, Zenon DEF Copies, TypeOK
      <4> QED
        BY <4>1, <4>2, <4>3, Zenon
    <3>2. ASSUME lock[j] # None
          PROVE  From(j)' = From(j) /\ To(j)' = To(j) /\ fd[lock[j]]' = fd[lock[j]]
      <4>1. PICK q : q = lock[j]
        BY Zenon
      <4>2. q \in Procs /\ fd[q] \in Files /\ ip[fd[q]] = j
        <5>1. q \in Procs
          BY <2>1, <3>2, <4>1, Zenon DEF TypeOK
        <5>2. fd[q] # None /\ ip[fd[q]] = j
          BY <2>1, <3>2, <4>1, Zenon DEF Locking
        <5> QED
          BY <2>1, <5>1, <5>2, Zenon DEF TypeOK
      <4>3. q # p /\ fd[q] # f
        BY <2>2, <2>4, <4>1, <4>2, Zenon DEF Copies
      <4>4. fd' = fd /\ at'[q] = at[q] /\ off'[fd[q]] = off[fd[q]]
        BY <2>1, <2>2, <4>2, <4>3, ZenonT(40) DEF Copies, TypeOK
      <4> QED
        BY <3>1, <4>1, <4>4, Zenon DEF From, To
    <3> QED
      BY <3>1, <3>2, Zenon DEF End
  <2>5. /\ End(i) = IF pos <= inode[i].size THEN inode[i].size ELSE pos
        /\ End(i) \in Nat /\ pos <= End(i) /\ inode[i].size <= End(i)
    <3>1. End(i) = IF pos <= inode[i].size THEN inode[i].size ELSE pos
      BY <2>2, <2>3, Zenon DEF End
    <3> QED
      BY <2>2, <3>1
  <2>6. End(i)' = IF pos + m <= inode[i].size THEN inode[i].size ELSE pos + m
    <3> DEFINE last == at[p].done + m = at[p].n
    <3>1. inode'[i].size = IF last /\ pos + m > inode[i].size THEN pos + m ELSE inode[i].size
      <4>1. inode'[i] = [size |-> IF last /\ pos + m > inode[i].size THEN pos + m ELSE inode[i].size,
                         addrs |-> inode'[i].addrs]
        BY Zenon DEF Copies
      <4> HIDE DEF last
      <4> QED
        BY <4>1
    <3>2. CASE last
      <4>1. lock'[i] = None
        BY <2>1, <2>2, <3>2, Zenon DEF Copies, TypeOK
      <4>2. End(i)' = inode'[i].size
        BY <4>1, Zenon DEF End
      <4> QED
        BY <2>2, <3>1, <3>2, <4>2
    <3>3. CASE ~ last
      <4>1. lock' = lock /\ fd' = fd /\ off' = off /\ at' = [at EXCEPT ![p].done = @ + m]
        BY <3>3, Zenon DEF Copies
      <4>2. at'[p].done = at[p].done + m
        BY <2>1, <4>1 DEF TypeOK
      <4>3. To(i)' = pos + m
        <5>1. To(i)' = off[f] + (at[p].done + m)
          BY <2>2, <4>1, <4>2, Zenon DEF To, From
        <5> QED
          BY <2>2, <5>1
      <4>4. End(i)' = IF To(i)' <= inode'[i].size THEN inode'[i].size ELSE To(i)'
        BY <2>3, <4>1, Zenon DEF End
      <4> QED
        BY <3>1, <3>3, <4>3, <4>4
    <3> QED
      BY <3>2, <3>3, Zenon
  <2>7. End(i)' = IF pos + m > End(i) THEN pos + m ELSE End(i)
    BY <2>2, <2>5, <2>6
  <2> QED
    BY <2>4, <2>5, <2>7, Zenon
\* The size does not shrink, and grows only with the last block of a chunk.
<1>4. /\ inode'[i].size = IF at[p].done + m = at[p].n /\ pos + m > inode[i].size
                           THEN pos + m ELSE inode[i].size
      /\ inode'[i].size \in Nat /\ inode'[i].size >= inode[i].size
      /\ inode'[i].size <= MAXFILE * BSIZE
      /\ at[p].done + m = at[p].n => pos + m = off[f] + at[p].n /\ pos + m <= inode'[i].size
      /\ pos + m \in 0..(MAXFILE * BSIZE)
  <2>1. TypeOK
    BY Zenon DEF IInv
  <2>2. /\ i \in Inums /\ off[f] \in Nat /\ inode[i].size \in Nat /\ pos \in Nat /\ m \in Nat
        /\ at[p].done \in Nat /\ at[p].n \in Nat /\ at[p].done + m <= at[p].n
        /\ off[f] + at[p].n <= MAXFILE * BSIZE /\ pos = off[f] + at[p].done
    BY <1>2
  <2>3. inode'[i] = [size |-> IF at[p].done + m = at[p].n /\ pos + m > inode[i].size
                              THEN pos + m ELSE inode[i].size, addrs |-> inode'[i].addrs]
    BY Zenon DEF Copies
  <2>4. inode'[i].size = IF at[p].done + m = at[p].n /\ pos + m > inode[i].size
                         THEN pos + m ELSE inode[i].size
    BY <2>3
  <2>5. inode[i].size <= MAXFILE * BSIZE
    <3>1. inode[i] \in Nodes
      BY <2>1, <2>2, Zenon DEF TypeOK
    <3>2. inode[i].size \in 0..(MAXFILE * BSIZE)
      BY <3>1, Zenon DEF Nodes
    <3> QED
      BY <3>2, Constants
  <2>6. PICK top : top = MAXFILE * BSIZE /\ top \in Nat
    BY Constants
  <2>7. /\ at[p].done + m = at[p].n => pos + m = off[f] + at[p].n
        /\ pos + m \in 0..top
    BY <2>2, <2>6
  <2> QED
    BY <2>2, <2>4, <2>5, <2>6, <2>7, SMTT(30)
\* An iteration of writei keeps the types.
<1>5. TypeOK'
  <2>0. TypeOK /\ Written
    BY Zenon DEF IInv
  <2>1. /\ f \in Files /\ f \in Nat /\ i \in Inums /\ off[f] \in Nat /\ bn \in 0..(MAXFILE - 1)
        /\ at[p].done \in Nat /\ at[p].n \in Nat /\ at[p].left \in Nat /\ m \in Nat
        /\ at[p].done + m <= at[p].n /\ at[p].n <= at[p].left /\ off[f] <= inode[i].size
        /\ inode[i].size \in Nat
    BY <1>2
  <2>2. /\ inode'[i].size \in Nat /\ inode'[i].size <= MAXFILE * BSIZE
        /\ pos + m \in 0..(MAXFILE * BSIZE)
    BY <1>4, Zenon
  <2>3. Bmapped(data, bitmap, inode[i].addrs, bn, new, data', bitmap', inode'[i].addrs)
    BY Zenon DEF Copies
  <2>4. \A q \in Path(bn) : new[q] \in Blocks
    BY <2>3, Zenon DEF Bmapped
  <2>5. bitmap' \subseteq Blocks
    <3>1. bitmap' = bitmap \cup {new[q] : q \in Path(bn)}
      BY <2>3, Zenon DEF Bmapped
    <3>2. bitmap \subseteq Blocks
      BY <2>0, Zenon DEF TypeOK
    <3> QED
      BY <2>4, <3>1, <3>2, Zenon
  <2>6. data' \in [Blocks -> [Offs -> Blocks \cup {0}]]
    BY <2>3, Zenon DEF Bmapped, DiskData
  <2>7. inode'[i] \in Nodes
    <3>1. inode[i] \in Nodes
      BY <2>0, <2>1, Zenon DEF TypeOK
    <3>2. inode[i].addrs \in [0..NDIRECT -> Blocks \cup {0}]
      BY <3>1, Zenon DEF Nodes
    <3>3. inode'[i].addrs \in [0..NDIRECT -> Blocks \cup {0}]
      <4>1. inode'[i].addrs = [q \in 0..NDIRECT |-> IF q \in Path(bn) THEN new[q] ELSE inode[i].addrs[q]]
        BY <2>3, Zenon DEF Bmapped
      <4> QED
        BY <2>4, <3>2, <4>1, Zenon
    <3>4. PICK sz, as : sz = inode'[i].size /\ as = inode'[i].addrs
      BY Zenon
    <3>5. PICK top : top = MAXFILE * BSIZE /\ top \in Nat
      BY Constants
    <3>6. sz \in 0..top
      BY <2>2, <3>4, <3>5
    <3>7. inode'[i] = [size |-> sz, addrs |-> as]
      BY <2>2, <3>4 DEF Copies
    <3> QED
      BY <3>3, <3>4, <3>5, <3>6, <3>7, Zenon DEF Nodes
  <2>8. inode' \in [Inums -> Nodes] /\ dinode' \in [Inums -> Nodes]
    <3>1. inode' = [inode EXCEPT ![i] = inode'[i]]
      BY Zenon DEF Copies
    <3>2. dinode' = [dinode EXCEPT ![i] = inode'[i]] \/ dinode' = dinode
      BY Zenon DEF Copies
    <3> QED
      BY <2>0, <2>1, <2>7, <3>1, <3>2, Zenon DEF TypeOK
  <2>9. lock' \in [Inums -> Procs \cup {None}] /\ fd' \in [Procs -> Files \cup {None}]
    BY <2>0, <2>1, Zenon DEF TypeOK, Copies
  <2>10. off' \in [Files -> 0..(MAXFILE * BSIZE)]
    <3>1. off' = off \/ off' = [off EXCEPT ![f] = pos + m]
      BY Zenon DEF Copies
    <3> QED
      BY <2>0, <2>1, <2>2, <3>1, Zenon DEF TypeOK
  <2>11. moved' \in [Files -> Nat]
    <3>1. moved[f] + at[p].n \in Nat
      BY <2>0, <2>1 DEF TypeOK
    <3> QED
      <4>1. moved' = moved \/ moved' = [moved EXCEPT ![f] = moved[f] + at[p].n]
        BY Zenon DEF Copies
      <4> QED
        BY <2>0, <2>1, <3>1, <4>1, Zenon DEF TypeOK
  <2>12. /\ at' \in [Procs -> [pc : {"idle", "chunk", "copy"}, left : Nat, n : Nat, done : Nat]]
         /\ \A q \in Procs : at'[q].done <= at'[q].n /\ at'[q].n <= at'[q].left
    <3>1. /\ at \in [Procs -> [pc : {"idle", "chunk", "copy"}, left : Nat, n : Nat, done : Nat]]
          /\ \A q \in Procs : at[q].done <= at[q].n /\ at[q].n <= at[q].left
      BY <2>0, Zenon DEF TypeOK
    <3>2. CASE at' = [at EXCEPT ![p].done = @ + m]
      BY <2>1, <3>1, <3>2
    <3>3. CASE at' = [at EXCEPT ![p] = IF at[p].left = at[p].n THEN Idle
                                         ELSE [Idle EXCEPT !.pc = "chunk", !.left = at[p].left - at[p].n]]
      <4>1. PICK z : z = IF at[p].left = at[p].n THEN Idle
                         ELSE [Idle EXCEPT !.pc = "chunk", !.left = at[p].left - at[p].n]
        BY Zenon
      <4>2. PICK l, n : l = at[p].left /\ n = at[p].n
        BY Zenon
      <4>3. l - n \in Nat
        BY <2>1, <4>2
      <4>4. z = Idle \/ z = [pc |-> "chunk", left |-> l - n, n |-> 0, done |-> 0]
        BY <4>1, <4>2 DEF Idle
      <4>5. z \in [pc : {"idle", "chunk", "copy"}, left : Nat, n : Nat, done : Nat]
        BY <4>3, <4>4 DEF Idle
      <4>6. z.done <= z.n /\ z.n <= z.left
        BY <4>3, <4>4 DEF Idle
      <4>7. at' = [at EXCEPT ![p] = z]
        BY <3>3, <4>1, Zenon
      <4> QED
        BY <3>1, <4>5, <4>6, <4>7, Zenon
    <3> QED
      BY <3>2, <3>3, Zenon DEF Copies
  <2>13. logged' \in [Procs -> SUBSET (Blocks \cup {BitmapBlock, InodeBlock})]
    <3>1. logged'[p] \subseteq Blocks \cup {BitmapBlock, InodeBlock}
      <4>1. logged[p] \subseteq Blocks \cup {BitmapBlock, InodeBlock}
        BY <2>0, Zenon DEF TypeOK
      <4>2. logged'[p] \subseteq logged[p] \cup {BitmapBlock} \cup {new[q] : q \in Path(bn)} \cup {InodeBlock}
        BY Zenon DEF Copies
      <4>3. {new[q] : q \in Path(bn)} \subseteq Blocks
        BY <2>4, Zenon
      <4> QED
        BY <4>1, <4>2, <4>3, Zenon
    <3> QED
      BY <2>0, <3>1, Zenon DEF TypeOK, Copies
  <2>14. wanted' \in [Inums -> Seq(Blocks \cup {0})]
    <3>1. PICK new2 : new2 = [c \in 1..at[p].n |-> Byte(f, off[f] + c - 1)]
      BY Zenon
    <3>2. new2 \in [1..at[p].n -> Blocks \cup {0}]
      <4>1. \A c \in 1..at[p].n : Byte(f, off[f] + c - 1) \in Blocks
        <5> SUFFICES ASSUME NEW c \in 1..at[p].n
                     PROVE  Byte(f, off[f] + c - 1) \in Blocks
          BY Zenon
        <5>1. off[f] + c - 1 \in Nat
          BY <2>1
        <5> QED
          BY <2>1, <5>1, BytesFit, Zenon
      <4> QED
        BY <3>1, <4>1, Zenon
    <3>3. wanted[i] \in Seq(Blocks \cup {0}) /\ off[f] <= Len(wanted[i])
      <4>1. wanted[i] \in Seq(Blocks \cup {0})
        BY <2>0, <2>1, Zenon DEF TypeOK
      <4>2. DOMAIN wanted[i] = 1..inode[i].size
        BY <2>0, <2>1, Zenon DEF Written
      <4> QED
        BY <2>1, <4>1, <4>2
    <3>4. Replaced(wanted[i], off[f], new2) \in Seq(Blocks \cup {0})
      BY <2>1, <3>2, <3>3, ReplacedType
    <3>5. wanted' = wanted \/ wanted' = [wanted EXCEPT ![i] = Replaced(wanted[i], off[f], new2)]
      BY <3>1, Zenon DEF Copies
    <3> QED
      BY <2>0, <2>1, <3>4, <3>5, Zenon DEF TypeOK
  <2> QED
    BY <2>5, <2>6, <2>8, <2>9, <2>10, <2>11, <2>12, <2>13, <2>14, Zenon DEF TypeOK
\* An iteration goes on with the chunk, or is its last.
<1>6. /\ fd' = fd
      /\ \A q \in Procs : q # p => at'[q] = at[q] /\ logged'[q] = logged[q]
      /\ MoreToCopy(p, m) /\ ChunkDone(p, f, i, pos, m)
  <2>0. TypeOK
    BY Zenon DEF IInv
  <2>1. /\ f \in Files /\ i \in Inums /\ at[p].done \in Nat /\ at[p].n \in Nat /\ at[p].left \in Nat
        /\ at[p].n <= at[p].left /\ at[p].pc = "copy"
    BY <1>2
  <2>2. fd' = fd
    BY Zenon DEF Copies
  <2>3. \A q \in Procs : q # p => at'[q] = at[q] /\ logged'[q] = logged[q]
    <3>1. \A q \in Procs : q # p => logged'[q] = logged[q]
      <4>1. logged' = [logged EXCEPT ![p] = logged'[p]]
        BY Zenon DEF Copies
      <4> QED
        BY <2>0, <4>1, Zenon DEF TypeOK
    <3>2. \A q \in Procs : q # p => at'[q] = at[q]
      <4>1. at' = [at EXCEPT ![p].done = @ + m]
              \/ at' = [at EXCEPT ![p] = IF at[p].left = at[p].n THEN Idle
                                     ELSE [Idle EXCEPT !.pc = "chunk", !.left = at[p].left - at[p].n]]
        BY Zenon DEF Copies
      <4> QED
        BY <2>0, <4>1, Zenon DEF TypeOK
    <3> QED
      BY <3>1, <3>2, Zenon
  <2>4. ASSUME at[p].done + m # at[p].n
        PROVE  /\ lock' = lock /\ off' = off /\ wanted' = wanted /\ moved' = moved
               /\ at'[p].pc = "copy" /\ at'[p].done = at[p].done + m
               /\ at'[p].n = at[p].n /\ at'[p].left = at[p].left
    <3>1. /\ lock' = lock /\ off' = off /\ wanted' = wanted /\ moved' = moved
          /\ at' = [at EXCEPT ![p].done = @ + m]
      BY <2>4, Zenon DEF Copies
    <3>2. at \in [Procs -> [pc : {"idle", "chunk", "copy"}, left : Nat, n : Nat, done : Nat]]
      BY <2>0, Zenon DEF TypeOK
    <3>3. /\ at'[p].pc = "copy" /\ at'[p].done = at[p].done + m
          /\ at'[p].n = at[p].n /\ at'[p].left = at[p].left
      BY <2>1, <3>1, <3>2
    <3> QED
      BY <3>1, <3>3, Zenon
  <2>5. ASSUME at[p].done + m = at[p].n
        PROVE  /\ lock'[i] = None /\ off'[f] = pos + m /\ moved'[f] = moved[f] + at[p].n
               /\ \A g \in Files : g # f => off'[g] = off[g] /\ moved'[g] = moved[g]
               /\ at'[p].pc # "copy" /\ at'[p].done = 0 /\ (at'[p].pc # "idle" => at'[p].left > 0)
               /\ wanted'[i] = Replaced(wanted[i], off[f],
                                           [c \in 1..at[p].n |-> Byte(f, off[f] + c - 1)])
    <3>1. PICK new2 : new2 = [c \in 1..at[p].n |-> Byte(f, off[f] + c - 1)]
      BY Zenon
    <3>2. /\ off' = [off EXCEPT ![f] = pos + m]
          /\ moved' = [moved EXCEPT ![f] = @ + at[p].n]
          /\ lock' = [lock EXCEPT ![i] = None]
          /\ at' = [at EXCEPT ![p] = IF at[p].left = at[p].n THEN Idle
                                     ELSE [Idle EXCEPT !.pc = "chunk", !.left = at[p].left - at[p].n]]
          /\ wanted' = [wanted EXCEPT ![i] = Replaced(@, off[f], new2)]
      BY <2>5, <3>1, Zenon DEF Copies
    <3>3. /\ lock'[i] = None /\ off'[f] = pos + m /\ moved'[f] = moved[f] + at[p].n
          /\ \A g \in Files : g # f => off'[g] = off[g] /\ moved'[g] = moved[g]
          /\ wanted'[i] = Replaced(wanted[i], off[f], new2)
      BY <2>0, <2>1, <3>2, Zenon DEF TypeOK
    <3>4. at'[p] = IF at[p].left = at[p].n THEN Idle
                   ELSE [Idle EXCEPT !.pc = "chunk", !.left = at[p].left - at[p].n]
      BY <2>0, <3>2, Zenon DEF TypeOK
    <3>5. at'[p].pc # "copy" /\ at'[p].done = 0 /\ (at'[p].pc # "idle" => at'[p].left > 0)
      <4>1. PICK l, n : l = at[p].left /\ n = at[p].n
        BY Zenon
      <4>2. at'[p] = Idle \/ (l # n /\ at'[p] = [pc |-> "chunk", left |-> l - n, n |-> 0, done |-> 0])
        BY <3>4, <4>1 DEF Idle
      <4>3. l # n => l - n > 0
        BY <2>1, <4>1
      <4> QED
        BY <4>2, <4>3 DEF Idle
    <3> QED
      BY <3>1, <3>3, <3>5, Zenon
  <2> QED
    BY <2>2, <2>3, <2>4, <2>5, Zenon DEF MoreToCopy, ChunkDone
\* An iteration keeps the lock on the inode, and the last one releases it.
<1>7. Locking'
  <2>0. TypeOK /\ Locking
    BY Zenon DEF IInv
  <2>1. /\ f \in Files /\ i \in Inums /\ lock[i] = p /\ at[p].pc = "copy" /\ f = fd[p] /\ i = ip[f]
        /\ at[p].done \in Nat /\ at[p].n \in Nat /\ m \in Nat /\ at[p].done + m <= at[p].n
        /\ off[f] + at[p].n <= MAXFILE * BSIZE
    BY <1>2
  <2>2. \A j \in Inums : j # i => lock'[j] = lock[j]
    BY <1>3
  <2>3. fd' = fd /\ (\A q \in Procs : q # p => at'[q] = at[q])
    BY <1>6
  <2>3a. MoreToCopy(p, m) /\ ChunkDone(p, f, i, pos, m)
    BY <1>6
  <2>4. \A j \in Inums : lock'[j] # None =>
          fd'[lock'[j]] # None /\ ip[fd'[lock'[j]]] = j /\ at'[lock'[j]].pc = "copy"
    <3> SUFFICES ASSUME NEW j \in Inums, lock'[j] # None
                 PROVE  fd'[lock'[j]] # None /\ ip[fd'[lock'[j]]] = j /\ at'[lock'[j]].pc = "copy"
      BY Zenon
    <3>1. CASE j = i
      <4>1. lock'[i] = p /\ at'[p].pc = "copy"
        BY <2>1, <2>3a, <3>1, Zenon DEF MoreToCopy, ChunkDone
      <4> QED
        BY <2>1, <2>3, <3>1, <4>1, FileDataAssumption, Zenon
    <3>2. CASE j # i
      <4>1. lock[j] # None /\ lock[j] \in Procs
        BY <2>0, <2>2, <3>2, Zenon DEF TypeOK
      <4>2. fd[lock[j]] # None /\ ip[fd[lock[j]]] = j /\ at[lock[j]].pc = "copy"
        BY <2>0, <4>1, Zenon DEF Locking
      <4>3. lock[j] # p
        BY <2>1, <3>2, <4>2, Zenon
      <4> QED
        BY <2>2, <2>3, <3>2, <4>1, <4>2, <4>3, Zenon
    <3> QED
      BY <3>1, <3>2, Zenon
  <2>5. \A q \in Procs : at'[q].pc # "idle" => fd'[q] # None /\ at'[q].left > 0
    <3> SUFFICES ASSUME NEW q \in Procs, at'[q].pc # "idle"
                 PROVE  fd'[q] # None /\ at'[q].left > 0
      BY Zenon
    <3>1. CASE q # p
      BY <2>0, <2>3, <3>1, Zenon DEF Locking
    <3>2. CASE q = p
      <4>1. fd[p] # None /\ at[p].left > 0
        BY <2>0, <2>1, Zenon DEF Locking
      <4>2. at'[p].left > 0
        BY <2>3a, <3>2, <4>1, Zenon DEF MoreToCopy, ChunkDone
      <4> QED
        BY <2>3, <3>2, <4>1, <4>2, Zenon
    <3> QED
      BY <3>1, <3>2, Zenon
  <2>6. \A q \in Procs : at'[q].pc = "copy" =>
          /\ lock'[ip[fd'[q]]] = q
          /\ at'[q].done < at'[q].n /\ at'[q].n <= Chunk(at'[q].left)
          /\ off'[fd'[q]] + at'[q].n <= MAXFILE * BSIZE
    <3> SUFFICES ASSUME NEW q \in Procs, at'[q].pc = "copy"
                 PROVE  /\ lock'[ip[fd[q]]] = q
                        /\ at'[q].done < at'[q].n /\ at'[q].n <= Chunk(at'[q].left)
                        /\ off'[fd[q]] + at'[q].n <= MAXFILE * BSIZE
      BY <2>3, Zenon
    <3>1. CASE q # p
      <4>1. at[q].pc = "copy"
        BY <2>3, <3>1, Zenon
      <4>2. /\ lock[ip[fd[q]]] = q /\ fd[q] # None
            /\ at[q].done < at[q].n /\ at[q].n <= Chunk(at[q].left)
            /\ off[fd[q]] + at[q].n <= MAXFILE * BSIZE
        BY <2>0, <4>1, Zenon DEF Locking
      <4>3. fd[q] \in Files /\ ip[fd[q]] \in Inums
        BY <2>0, <4>2, FileDataAssumption, Zenon DEF TypeOK
      <4>4. ip[fd[q]] # i /\ fd[q] # f
        BY <2>1, <3>1, <4>2, Zenon
      <4>5. off'[fd[q]] = off[fd[q]]
        BY <2>3a, <4>3, <4>4, Zenon DEF MoreToCopy, ChunkDone
      <4> QED
        BY <2>2, <2>3, <3>1, <4>2, <4>3, <4>4, <4>5, Zenon
    <3>2. CASE q = p
      <4>1. at[p].done + m # at[p].n
        BY <2>3a, <3>2, Zenon DEF MoreToCopy, ChunkDone
      <4>2. /\ lock' = lock /\ off' = off /\ at'[p].done = at[p].done + m
            /\ at'[p].n = at[p].n /\ at'[p].left = at[p].left
        BY <2>3a, <4>1, Zenon DEF MoreToCopy, ChunkDone
      <4>3. at[p].done + m < at[p].n
        BY <2>1, <4>1
      <4>4. at[p].n <= Chunk(at[p].left)
        BY <2>0, <2>1, Zenon DEF Locking
      <4> QED
        BY <2>1, <3>2, <4>2, <4>3, <4>4, Zenon
    <3> QED
      BY <3>1, <3>2, Zenon
  <2>7. \A q \in Procs : at'[q].pc # "copy" => at'[q].done = 0
    <3> SUFFICES ASSUME NEW q \in Procs, at'[q].pc # "copy"
                 PROVE  at'[q].done = 0
      BY Zenon
    <3>1. CASE q # p
      BY <2>0, <2>3, <3>1, Zenon DEF Locking
    <3>2. CASE q = p
      BY <2>3a, <3>2, Zenon DEF MoreToCopy, ChunkDone
    <3> QED
      BY <3>1, <3>2, Zenon
  <2> QED
    BY <2>4, <2>5, <2>6, <2>7, Zenon DEF Locking
\* The last iteration moves the offset by the bytes of the chunk.
<1>8. OffsetAdds'
  <2>0. TypeOK /\ OffsetAdds
    BY Zenon DEF IInv
  <2>1. /\ f \in Files /\ i \in Inums /\ i = ip[f] /\ Opened(f) /\ off[f] \in Nat /\ at[p].n \in Nat
    BY <1>2
  <2>1a. MoreToCopy(p, m) /\ ChunkDone(p, f, i, pos, m)
    BY <1>6
  <2> SUFFICES ASSUME NEW g \in Files, Opened(g)'
               PROVE  off'[g] = moved'[g] /\ off'[g] <= inode'[ip[g]].size
    BY Zenon DEF OffsetAdds
  <2>2. Opened(g)
    BY <1>6, Zenon DEF Opened
  <2>3. off[g] = moved[g] /\ off[g] <= inode[ip[g]].size
    BY <2>0, <2>2, Zenon DEF OffsetAdds
  <2>4. ip[g] \in Inums /\ off[g] \in Nat /\ inode[ip[g]].size \in Nat
    <3>1. ip[g] \in Inums
      BY FileDataAssumption, Zenon
    <3>2. off[g] \in Nat
      BY <2>0, Constants DEF TypeOK
    <3>3. inode[ip[g]] \in Nodes
      BY <2>0, <3>1, Zenon DEF TypeOK
    <3>4. inode[ip[g]].size \in Nat
      BY <3>3 DEF Nodes
    <3> QED
      BY <3>1, <3>2, <3>4, Zenon
  <2>5. off[g] <= inode'[ip[g]].size
    <3>1. CASE ip[g] = i
      <4>1. inode'[i].size \in Nat /\ inode'[i].size >= inode[i].size
        BY <1>4, Zenon
      <4> QED
        BY <2>3, <2>4, <3>1, <4>1
    <3>2. CASE ip[g] # i
      BY <2>3, <2>4, <3>2, <1>3
    <3> QED
      BY <3>1, <3>2, Zenon
  <2>6. CASE at[p].done + m = at[p].n /\ g = f
    <3>1. off'[f] = pos + m /\ moved'[f] = moved[f] + at[p].n
      BY <2>1a, <2>6, Zenon DEF MoreToCopy, ChunkDone
    <3>2. pos + m = off[f] + at[p].n /\ pos + m <= inode'[i].size
      BY <2>6, <1>4, Zenon
    <3> QED
      BY <2>1, <2>3, <2>6, <3>1, <3>2, Zenon
  <2>7. CASE at[p].done + m # at[p].n \/ g # f
    <3>1. off'[g] = off[g] /\ moved'[g] = moved[g]
      BY <2>1a, <2>7, Zenon DEF MoreToCopy, ChunkDone
    <3> QED
      BY <2>3, <2>5, <3>1, Zenon
  <2> QED
    BY <2>6, <2>7, Zenon
\* The blocks of the path are those that were there, and others that were free.
<1>9. /\ bitmap' = bitmap \cup {new[q] : q \in Path(bn)}
      /\ \A q \in Path(bn) : /\ q \in 0..MAXFILE /\ new[q] \in Blocks /\ new[q] # 0
                             /\ Ref(inode[i], q) # 0 => new[q] = Ref(inode[i], q)
                             /\ Ref(inode[i], q) = 0 => new[q] \notin bitmap
      /\ \A q, r \in Path(bn) : new[q] = new[r] => q = r
  <2>1. Bmapped(data, bitmap, inode[i].addrs, bn, new, data', bitmap', inode'[i].addrs)
    BY Zenon DEF Copies
  <2>2. bn \in 0..(MAXFILE - 1)
    BY <1>2
  <2>3. \A q \in Path(bn) : q \in 0..MAXFILE
    BY <2>2, Places, Zenon
  <2>4. \A q \in Path(bn) : new[q] \in Blocks /\ new[q] # 0
    <3>1. \A q \in Path(bn) : new[q] \in Blocks
      BY <2>1, Zenon DEF Bmapped
    <3> QED
      BY <3>1, Constants, Zenon
  <2>5. \A q \in Path(bn) : /\ Ref(inode[i], q) # 0 => new[q] = Ref(inode[i], q)
                            /\ Ref(inode[i], q) = 0 => new[q] \notin bitmap
    BY <2>1, Zenon DEF Bmapped, Ref
  <2>6. bitmap' = bitmap \cup {new[q] : q \in Path(bn)}
    BY <2>1, Zenon DEF Bmapped
  <2>7. \A q, r \in Path(bn) : new[q] = new[r] => q = r
    BY <2>1, Zenon DEF Bmapped
  <2> QED
    BY <2>3, <2>4, <2>5, <2>6, <2>7, Zenon
\* The blocks that bmap takes are nobody else's.
<1>10. BlocksOwnedOnce'
  <2>0. TypeOK /\ BlocksOwnedOnce
    BY Zenon DEF IInv
  <2>1. i \in Inums
    BY <1>2
  <2>2. \A j \in Inums, q \in 0..MAXFILE :
           Ref(inode[j], q)' = IF j = i /\ q \in Path(bn) THEN new[q] ELSE Ref(inode[j], q)
    BY <1>1
  <2>3. /\ bitmap' = bitmap \cup {new[q] : q \in Path(bn)}
        /\ \A q \in Path(bn) : /\ q \in 0..MAXFILE /\ new[q] \in Blocks /\ new[q] # 0
                               /\ Ref(inode[i], q) # 0 => new[q] = Ref(inode[i], q)
                               /\ Ref(inode[i], q) = 0 => new[q] \notin bitmap
        /\ \A q, r \in Path(bn) : new[q] = new[r] => q = r
    BY <1>9
  <2>4. /\ \A j \in Inums, q \in 0..MAXFILE : Ref(inode[j], q) \in bitmap \cup {0}
        /\ 0 \notin bitmap
    BY <2>0, RefsUsed, Constants, Zenon DEF TypeOK
  <2>5. \A x \in bitmap : \E j \in Inums, q \in 0..MAXFILE : Ref(inode[j], q) = x /\ x # 0
    <3> SUFFICES ASSUME NEW x \in bitmap
                 PROVE  \E j \in Inums, q \in 0..MAXFILE : Ref(inode[j], q) = x /\ x # 0
      BY Zenon
    <3>1. PICK j \in Inums : x \in BlocksOf(inode[j])
      BY <2>0, Zenon DEF BlocksOwnedOnce
    <3> QED
      BY <3>1, Zenon DEF BlocksOf
  <2>6. ASSUME NEW x \in bitmap'
        PROVE  \E j \in Inums, q \in 0..MAXFILE : Ref(inode[j], q)' = x /\ x # 0
    <3>1. CASE x \in bitmap
      <4>1. PICK j \in Inums, q \in 0..MAXFILE : Ref(inode[j], q) = x /\ x # 0
        BY <2>5, <3>1, Zenon
      <4>2. Ref(inode[j], q)' = x
        BY <2>2, <2>3, <4>1, Zenon
      <4> QED
        BY <4>1, <4>2, Zenon
    <3>2. CASE \E q \in Path(bn) : x = new[q]
      BY <2>1, <2>2, <2>3, <3>2, Zenon
    <3> QED
      BY <2>3, <2>6, <3>1, <3>2, Zenon
  <2>7. \A j \in Inums, q \in 0..MAXFILE : Ref(inode[j], q)' \in bitmap' \cup {0}
    <3> SUFFICES ASSUME NEW j \in Inums, NEW q \in 0..MAXFILE
                 PROVE  Ref(inode[j], q)' \in bitmap' \cup {0}
      BY Zenon
    <3>1. CASE j = i /\ q \in Path(bn)
      BY <2>2, <2>3, <3>1, Zenon
    <3>2. CASE ~ (j = i /\ q \in Path(bn))
      <4>1. Ref(inode[j], q)' = Ref(inode[j], q)
        BY <2>2, <3>2, Zenon
      <4>2. Ref(inode[j], q) \in bitmap \cup {0}
        BY <2>4, Zenon
      <4> QED
        BY <2>3, <4>1, <4>2, Zenon
    <3> QED
      BY <3>1, <3>2, Zenon
  <2>8. \A x : x \in bitmap' <=> \E j \in Inums : x \in BlocksOf(inode[j])'
    <3>1. ASSUME NEW x, x \in bitmap'
          PROVE  \E j \in Inums : x \in BlocksOf(inode[j])'
      <4>1. PICK j \in Inums, q \in 0..MAXFILE : Ref(inode[j], q)' = x /\ x # 0
        BY <2>6, <3>1, Zenon
      <4>2. x \in BlocksOf(inode[j])'
        BY <4>1, Zenon DEF BlocksOf
      <4> QED
        BY <4>2, Zenon
    <3>2. ASSUME NEW x, NEW j \in Inums, x \in BlocksOf(inode[j])'
          PROVE  x \in bitmap'
      <4>1. PICK q \in 0..MAXFILE : Ref(inode[j], q)' = x /\ x # 0
        BY <3>2, Zenon DEF BlocksOf
      <4> QED
        BY <2>7, <4>1, Zenon
    <3> QED
      BY <3>1, <3>2, Zenon
  <2>9. ASSUME NEW j \in Inums, NEW l \in Inums, NEW q \in 0..MAXFILE, NEW r \in 0..MAXFILE,
               Ref(inode[j], q)' = Ref(inode[l], r)', Ref(inode[j], q)' # 0
        PROVE  j = l /\ q = r
    <3>0. \A a, b \in Inums, c, d \in 0..MAXFILE :
            Ref(inode[a], c) = Ref(inode[b], d) /\ Ref(inode[a], c) # 0 => a = b /\ c = d
      BY <2>0, Zenon DEF BlocksOwnedOnce
    <3>1. ASSUME NEW b \in Inums, NEW c \in Path(bn), NEW d \in 0..MAXFILE,
                 ~ (b = i /\ d \in Path(bn)), new[c] = Ref(inode[b], d)
          PROVE  FALSE
      <4>1. Ref(inode[b], d) # 0 /\ Ref(inode[b], d) \in bitmap
        BY <2>3, <2>4, <3>1, Zenon
      <4>2. Ref(inode[i], c) = Ref(inode[b], d) /\ c \in 0..MAXFILE
        BY <2>3, <3>1, <4>1, Zenon
      <4>3. i = b /\ c = d
        BY <2>1, <3>0, <4>1, <4>2
      <4> QED
        BY <3>1, <4>3, Zenon
    <3>2. CASE (j = i /\ q \in Path(bn)) /\ (l = i /\ r \in Path(bn))
      BY <2>2, <2>3, <2>9, <3>2, Zenon
    <3>3. CASE ~ (j = i /\ q \in Path(bn)) /\ ~ (l = i /\ r \in Path(bn))
      <4>1. Ref(inode[j], q)' = Ref(inode[j], q) /\ Ref(inode[l], r)' = Ref(inode[l], r)
        BY <2>2, <3>3, Zenon
      <4> QED
        <5>1. Ref(inode[j], q) = Ref(inode[l], r) /\ Ref(inode[j], q) # 0
          BY <2>9, <4>1, Zenon
        <5> HIDE DEF Ref
        <5> QED
          BY <3>0, <5>1
    <3>4. CASE (j = i /\ q \in Path(bn)) /\ ~ (l = i /\ r \in Path(bn))
      <4>1. Ref(inode[j], q)' = new[q] /\ Ref(inode[l], r)' = Ref(inode[l], r)
        BY <2>2, <3>4, Zenon
      <4> QED
        BY <2>9, <3>1, <3>4, <4>1, Zenon
    <3>5. CASE ~ (j = i /\ q \in Path(bn)) /\ (l = i /\ r \in Path(bn))
      <4>1. Ref(inode[l], r)' = new[r] /\ Ref(inode[j], q)' = Ref(inode[j], q)
        BY <2>2, <3>5, Zenon
      <4>2. new[r] = Ref(inode[j], q)
        BY <2>9, <4>1, Zenon
      <4> QED
        BY <3>1, <3>5, <4>2, Zenon
    <3> QED
      BY <3>2, <3>3, <3>4, <3>5, Zenon
  <2>10. bitmap' = UNION {BlocksOf(inode[j])' : j \in Inums}
    BY <2>8, Zenon
  <2> QED
    <3>1. \A j, l \in Inums, q, r \in 0..MAXFILE :
            Ref(inode[j], q)' = Ref(inode[l], r)' /\ Ref(inode[j], q)' # 0 => j = l /\ q = r
      BY <2>9
    <3> QED
      BY <2>10, <3>1, Zenon DEF BlocksOwnedOnce
\* The block of an iteration is one that the file has, or the next one.
<1>11. /\ End(i)' \in Nat /\ NBlocks(End(i)) \in Nat /\ bn \in Nat /\ bn <= NBlocks(End(i))
       /\ NBlocks(End(i)') = IF bn < NBlocks(End(i)) THEN NBlocks(End(i)) ELSE bn + 1
       /\ bn = NBlocks(End(i)) => k = 0 /\ pos = End(i)
       /\ pos + m <= End(i) => bn < NBlocks(End(i))
       /\ bn < NBlocks(End(i)) => \A q \in Path(bn) : Ref(inode[i], q) # 0
       /\ bn = NBlocks(End(i)) => Ref(inode[i], Place(bn)) = 0
  <2>0. TypeOK /\ Mapped
    BY Zenon DEF IInv
  <2>1. /\ i \in Inums /\ bn \in 0..(MAXFILE - 1) /\ k \in Offs /\ m \in Nat /\ m > 0 /\ k + m <= BSIZE
        /\ pos = bn * BSIZE + k
    BY <1>2
  <2>2. PICK e : e = End(i)
    BY Zenon
  <2>3. PICK e2 : e2 = End(i)'
    BY Zenon
  <2>4. e \in Nat /\ pos <= e /\ e2 = IF pos + m > e THEN pos + m ELSE e
    <3>1. End(i) \in Nat /\ pos <= End(i) /\ End(i)' = IF pos + m > End(i) THEN pos + m ELSE End(i)
      BY <1>3
    <3> QED
      BY <2>2, <2>3, <3>1, Zenon
  <2>5. bn \in Nat
    BY <2>1, Constants
  <2>6. /\ e2 \in Nat /\ NBlocks(e) \in Nat /\ bn <= NBlocks(e)
        /\ NBlocks(e2) = IF bn < NBlocks(e) THEN NBlocks(e) ELSE bn + 1
        /\ bn = NBlocks(e) => k = 0 /\ pos = e
        /\ pos + m <= e => bn < NBlocks(e)
    BY <2>1, <2>4, <2>5, OneMoreBlock
  <2>7. \A q \in 0..MAXFILE : Ref(inode[i], q) # 0 <=> Needs(NBlocks(e), q)
    BY <2>0, <2>1, <2>2, Zenon DEF Mapped
  <2>8. ASSUME bn < NBlocks(e), NEW q \in Path(bn)
        PROVE  Ref(inode[i], q) # 0
    <3>1. q \in 0..MAXFILE
      BY <2>1, Places, Zenon
    <3>2. Needs(NBlocks(e), q)
      BY <2>5, <2>6, <2>8, <3>1, PathNeeded, Zenon
    <3> QED
      BY <2>7, <3>1, <3>2, Zenon
  <2>9. ASSUME bn = NBlocks(e)
        PROVE  Ref(inode[i], Place(bn)) = 0
    <3>1. Place(bn) \in 0..MAXFILE
      BY <2>1, Places, Zenon
    <3>2. ~ Needs(NBlocks(e), Place(bn))
      BY <2>5, <2>9, Constants DEF Needs, Place
    <3> QED
      BY <2>7, <3>1, <3>2, Zenon
  <2> QED
    BY <2>2, <2>3, <2>5, <2>6, <2>8, <2>9, Zenon
\* The places that an iteration fills are those that the bytes copied so far need.
<1>12. Mapped'
  <2>0. Mapped
    BY Zenon DEF IInv
  <2>1. i \in Inums
    BY <1>2
  <2>2. \A j \in Inums, q \in 0..MAXFILE :
           Ref(inode[j], q)' = IF j = i /\ q \in Path(bn) THEN new[q] ELSE Ref(inode[j], q)
    BY <1>1
  <2>3. \A q \in Path(bn) : q \in 0..MAXFILE /\ new[q] # 0
    BY <1>9
  <2>4. \A j \in Inums : j # i => End(j)' = End(j)
    BY <1>3
  <2>5. /\ NBlocks(End(i)) \in Nat /\ bn \in Nat /\ bn <= NBlocks(End(i))
        /\ NBlocks(End(i)') = IF bn < NBlocks(End(i)) THEN NBlocks(End(i)) ELSE bn + 1
    BY <1>11
  <2> SUFFICES ASSUME NEW j \in Inums, NEW q \in 0..MAXFILE
               PROVE  Ref(inode[j], q)' # 0 <=> Needs(NBlocks(End(j)'), q)
    BY Zenon DEF Mapped, NBlocks
  <2>6. CASE j # i
    BY <2>0, <2>2, <2>4, <2>6, Zenon DEF Mapped
  <2>7. CASE j = i
    <3>1. Ref(inode[i], q)' # 0 <=> q \in Path(bn) \/ Needs(NBlocks(End(i)), q)
      BY <2>0, <2>1, <2>2, <2>3, Zenon DEF Mapped
    <3>2. /\ bn < NBlocks(End(i)) /\ q \in Path(bn) => Needs(NBlocks(End(i)), q)
          /\ bn = NBlocks(End(i)) => (Needs(NBlocks(End(i)) + 1, q) <=> Needs(NBlocks(End(i)), q) \/ q \in Path(bn))
      BY <2>5, PathNeeded
    <3>3. bn < NBlocks(End(i)) \/ bn = NBlocks(End(i))
      BY <2>5
    <3>4. CASE bn < NBlocks(End(i))
      BY <2>5, <2>7, <3>1, <3>2, <3>4, Zenon
    <3>5. CASE bn = NBlocks(End(i))
      <4>1. NBlocks(End(i)') = NBlocks(End(i)) + 1
        BY <2>5, <3>5
      <4> QED
        BY <2>7, <3>1, <3>2, <3>5, <4>1, Zenon
    <3> QED
      BY <3>3, <3>4, <3>5, Zenon
  <2> QED
    BY <2>6, <2>7, Zenon
\* iupdate writes the inode if the size grows; otherwise no block was added.
<1>13. Saved'
  <2>0. TypeOK /\ Saved
    BY Zenon DEF IInv
  <2>1. /\ i \in Inums /\ inode[i].size \in Nat /\ pos \in Nat /\ m \in Nat /\ lock[i] = p /\ To(i) = pos
        /\ bn \in 0..(MAXFILE - 1) /\ f = fd[p] /\ off[f] \in Nat /\ at[p].done \in Nat
        /\ pos = off[f] + at[p].done
    BY <1>2
  <2>1a. MoreToCopy(p, m) /\ ChunkDone(p, f, i, pos, m) /\ fd' = fd
    BY <1>6
  <2> SUFFICES ASSUME NEW j \in Inums, lock'[j] = None \/ To(j)' <= inode'[j].size
               PROVE  dinode'[j] = inode'[j]
    BY Zenon DEF Saved
  <2>2. CASE j # i
    <3>1. /\ lock'[j] = lock[j] /\ inode'[j] = inode[j] /\ dinode'[j] = dinode[j]
          /\ lock[j] # None => To(j)' = To(j)
      BY <2>2, <1>3
    <3> QED
      BY <2>0, <3>1, Zenon DEF Saved
  <2>3. CASE j = i
    <3> DEFINE last == at[p].done + m = at[p].n
               grows == last /\ pos + m > inode[i].size
    <3>1. CASE grows
      <4>1. dinode' = [dinode EXCEPT ![i] = inode'[i]]
        BY <3>1, Zenon DEF Copies
      <4> QED
        BY <2>0, <2>1, <2>3, <4>1, Zenon DEF TypeOK
    <3>2. CASE ~ grows
      <4>1. /\ dinode' = dinode
            /\ inode'[i] = [size |-> inode[i].size, addrs |-> inode'[i].addrs]
        BY <3>2, Zenon DEF Copies
      <4>2. pos + m <= inode[i].size
        <5>1. CASE last
          BY <2>1, <3>2, <5>1
        <5>2. CASE ~ last
          <6>1. lock' = lock /\ off' = off /\ at'[p].done = at[p].done + m
            BY <2>1a, <5>2, Zenon DEF MoreToCopy
          <6>2. To(i)' = off[f] + (at[p].done + m)
            BY <2>1, <2>1a, <6>1, Zenon DEF To, From
          <6>3. To(i)' <= inode[i].size
            <7>1. inode'[i].size = inode[i].size
              BY <4>1
            <7>2. lock[i] # None
              BY <2>1, FileDataAssumption, Zenon
            <7> QED
              BY <2>3, <6>1, <7>1, <7>2, Zenon
          <6> QED
            BY <2>1, <6>2, <6>3
        <5> QED
          BY <5>1, <5>2, Zenon
      <4>3. dinode[i] = inode[i]
        <5>1. pos <= inode[i].size
          BY <2>1, <4>2
        <5> QED
          BY <2>0, <2>1, <5>1, Zenon DEF Saved
      <4>4. bn < NBlocks(End(i))
        <5>1. End(i) \in Nat /\ inode[i].size <= End(i)
          BY <1>3
        <5>2. pos + m <= End(i)
          BY <2>1, <4>2, <5>1, AtMost, Zenon
        <5> QED
          BY <5>2, <1>11
      <4>5. \A q \in Path(bn) : Ref(inode[i], q) # 0
        BY <4>4, <1>11
      <4>6. \A q \in Path(bn) : new[q] = Ref(inode[i], q)
        BY <4>5, <1>9
      <4>7. inode'[i].addrs = [q \in 0..NDIRECT |-> IF q \in Path(bn) THEN new[q] ELSE inode[i].addrs[q]]
        BY Zenon DEF Copies, Bmapped
      <4>8. inode[i].addrs \in [0..NDIRECT -> Blocks \cup {0}] /\ inode[i] = [size |-> inode[i].size, addrs |-> inode[i].addrs]
        <5>1. inode[i] \in Nodes
          BY <2>0, <2>1, Zenon DEF TypeOK
        <5> QED
          BY <5>1 DEF Nodes
      <4>9. \A q \in 0..NDIRECT : q <= NDIRECT /\ Ref(inode[i], q) = inode[i].addrs[q]
        BY Constants DEF Ref, RefIn
      <4>10. inode'[i].addrs = inode[i].addrs
        BY <4>6, <4>7, <4>8, <4>9, Zenon
      <4> QED
        BY <2>3, <4>1, <4>3, <4>8, <4>10, Zenon
    <3> QED
      BY <3>1, <3>2, Zenon
  <2> QED
    BY <2>2, <2>3, Zenon
\* The blocks of the other places stay as they are.
<1>14. ASSUME NEW j \in Inums, NEW q \in 0..MAXFILE, ~ (j = i /\ q \in Path(bn)), Ref(inode[j], q) # 0
       PROVE  Ref(inode[j], q)' = Ref(inode[j], q) /\ data'[Ref(inode[j], q)] = data[Ref(inode[j], q)]
  <2>0. TypeOK /\ BlocksOwnedOnce
    BY Zenon DEF IInv
  <2>1. i \in Inums /\ bn \in 0..(MAXFILE - 1)
    BY <1>2
  <2>2. PICK b : b = Ref(inode[j], q)
    BY Zenon
  <2>3. b \in bitmap
    BY <1>14, <2>0, <2>2, RefsUsed, Zenon
  <2>4. ASSUME NEW r \in Path(bn)
        PROVE  b # new[r]
    <3>1. /\ r \in 0..MAXFILE /\ (Ref(inode[i], r) # 0 => new[r] = Ref(inode[i], r))
          /\ (Ref(inode[i], r) = 0 => new[r] \notin bitmap)
      BY <2>4, <1>9
    <3>2. Ref(inode[i], r) # Ref(inode[j], q) \/ Ref(inode[i], r) = 0
      <4>1. Ref(inode[j], q) = Ref(inode[i], r) /\ Ref(inode[j], q) # 0 => j = i /\ q = r
        BY <2>0, <2>1, <3>1 DEF BlocksOwnedOnce
      <4> QED
        BY <1>14, <2>4, <4>1, Zenon
    <3> QED
      BY <2>2, <2>3, <3>1, <3>2, Zenon
  <2>5. data'[b] = data[b]
    <3>1. Bmapped(data, bitmap, inode[i].addrs, bn, new, data', bitmap', inode'[i].addrs)
      BY Zenon DEF Copies
    <3>2. \A c \in bitmap : c # new[Place(bn)] /\ (NDIRECT \in Path(bn) => c # new[NDIRECT]) => data'[c] = data[c]
      BY <3>1, Zenon DEF Bmapped
    <3>3. Place(bn) \in Path(bn)
      BY <2>1, Places, Zenon
    <3> QED
      BY <2>3, <2>4, <3>2, <3>3, Zenon
  <2>6. \A l \in Inums, r \in 0..MAXFILE :
           Ref(inode[l], r)' = IF l = i /\ r \in Path(bn) THEN new[r] ELSE Ref(inode[l], r)
    BY <1>1
  <2>7. Ref(inode[j], q)' = Ref(inode[j], q)
    BY <1>14, <2>6, Zenon
  <2> QED
    BY <2>2, <2>5, <2>7, Zenon
\* What is expected after the step.
<1>15. /\ DOMAIN wanted'[i] = 1..inode'[i].size
       /\ \A o \in 0..(End(i)' - 1) :
            Expected(i, o)' = IF off[f] <= o /\ o < pos + m THEN Byte(f, o) ELSE wanted[i][o + 1]
  <2>0. TypeOK /\ Written
    BY Zenon DEF IInv
  <2>1. /\ f \in Files /\ f \in Nat /\ i \in Inums /\ inode[i].size \in Nat /\ pos \in Nat /\ m \in Nat
        /\ f = fd[p] /\ off[f] \in Nat /\ at[p].done \in Nat /\ pos = off[f] + at[p].done
        /\ lock[i] = p /\ at[p].n \in Nat /\ off[f] <= inode[i].size
    BY <1>2
  <2>2. MoreToCopy(p, m) /\ ChunkDone(p, f, i, pos, m) /\ fd' = fd
    BY <1>6
  <2>3. /\ inode'[i].size = IF at[p].done + m = at[p].n /\ pos + m > inode[i].size
                                  THEN pos + m ELSE inode[i].size
        /\ at[p].done + m = at[p].n => pos + m = off[f] + at[p].n
    BY <1>4
  <2>4. wanted[i] \in Seq(Blocks \cup {0}) /\ DOMAIN wanted[i] = 1..inode[i].size
    BY <2>0, <2>1, Zenon DEF TypeOK, Written
  <2>5. CASE at[p].done + m # at[p].n
    <3>1. lock' = lock /\ off' = off /\ wanted' = wanted /\ at'[p].done = at[p].done + m
      BY <2>2, <2>5, Zenon DEF MoreToCopy
    <3>2. DOMAIN wanted'[i] = 1..inode'[i].size
      BY <2>3, <2>4, <2>5, <3>1, Zenon
    <3>3. From(i)' = off[f] /\ To(i)' = off[f] + (at[p].done + m)
      BY <2>1, <2>2, <3>1, Zenon DEF From, To
    <3>4. To(i)' = pos + m
      <4>1. off[f] \in Nat /\ at[p].done \in Nat /\ m \in Nat /\ pos = off[f] + at[p].done
        BY <2>1, Zenon
      <4>2. off[f] + (at[p].done + m) = (off[f] + at[p].done) + m
        BY <4>1, NextPosition, Zenon
      <4> QED
        BY <3>3, <4>1, <4>2, Zenon
    <3>5. lock'[i] = p /\ lock'[i] # None
      BY <2>1, <3>1, FileDataAssumption, Zenon
    <3>6. \A o : Expected(i, o)' = IF off[f] <= o /\ o < pos + m THEN Byte(f, o) ELSE wanted[i][o + 1]
      BY <2>1, <2>2, <3>1, <3>3, <3>4, <3>5, Zenon DEF Expected
    <3> QED
      BY <3>2, <3>6, Zenon
  <2>6. CASE at[p].done + m = at[p].n
    <3>0. PICK n : n = at[p].n
      BY Zenon
    <3>1. PICK new2 : new2 = [c \in 1..n |-> Byte(f, off[f] + c - 1)]
      BY Zenon
    <3>2. lock'[i] = None /\ wanted'[i] = Replaced(wanted[i], off[f], new2)
      BY <2>2, <2>6, <3>0, <3>1, Zenon DEF ChunkDone
    <3>3. new2 \in [1..n -> Blocks \cup {0}]
      <4>1. \A c \in 1..n : Byte(f, off[f] + c - 1) \in Blocks
        <5> SUFFICES ASSUME NEW c \in 1..n
                     PROVE  Byte(f, off[f] + c - 1) \in Blocks
          BY Zenon
        <5>1. PICK o : o = off[f]
          BY Zenon
        <5>2. o \in Nat /\ n \in Nat
          BY <2>1, <3>0, <5>1, Zenon
        <5>3. o + c - 1 \in Nat
          BY <5>2
        <5> QED
          BY <2>1, <5>1, <5>3, BytesFit, Zenon
      <4> QED
        BY <3>1, <4>1, Zenon
    <3>4. Len(wanted[i]) = inode[i].size
      BY <2>1, <2>4, SMTT(30)
    <3>5. PICK old, o0, size : old = wanted[i] /\ o0 = off[f] /\ size = inode[i].size
      BY Zenon
    <3>6. n \in Nat /\ o0 \in Nat /\ size \in Nat /\ pos + m = o0 + n
      BY <2>1, <2>3, <2>6, <3>0, <3>5, Zenon
    <3>7a. PICK top : top = IF size > o0 + n THEN size ELSE o0 + n
      BY Zenon
    <3>7. /\ DOMAIN wanted'[i] = 1..top
          /\ \A c \in 1..top :
               wanted'[i][c] = IF c > o0 /\ c <= o0 + n THEN new2[c - o0] ELSE old[c]
      <4>1. old \in Seq(Blocks \cup {0}) /\ Len(old) = size /\ o0 <= Len(old)
        BY <2>1, <2>4, <3>4, <3>5, Zenon
      <4>2. wanted'[i] = Replaced(old, o0, new2)
        BY <3>2, <3>5, Zenon
      <4> QED
        <5>1. PICK S : S = Blocks \cup {0}
          BY Zenon
        <5>2. old \in Seq(S) /\ new2 \in [1..n -> S] /\ n \in Nat /\ o0 \in Nat /\ o0 <= Len(old)
          BY <3>3, <3>6, <4>1, <5>1, Zenon
        <5>3. /\ DOMAIN Replaced(old, o0, new2) = 1..(IF Len(old) > o0 + n THEN Len(old) ELSE o0 + n)
              /\ \A c \in 1..(IF Len(old) > o0 + n THEN Len(old) ELSE o0 + n) :
                   Replaced(old, o0, new2)[c] = IF c > o0 /\ c <= o0 + n THEN new2[c - o0] ELSE old[c]
          BY <5>2, ReplacedType
        <5>4. Len(old) = size
          BY <4>1, Zenon
        <5> QED
          BY <3>7a, <4>2, <5>3, <5>4, Zenon
    <3>8. inode'[i].size = top /\ top \in Nat
      BY <2>3, <2>6, <3>5, <3>6, <3>7a
    <3>9. End(i)' = inode'[i].size
      BY <3>2, Zenon DEF End
    <3>10. ASSUME NEW o \in 0..(End(i)' - 1)
           PROVE  Expected(i, o)' = IF off[f] <= o /\ o < pos + m THEN Byte(f, o) ELSE wanted[i][o + 1]
      <4>1. Expected(i, o)' = wanted'[i][o + 1]
        BY <3>2, Zenon DEF Expected
      <4>2. o \in Nat /\ o + 1 \in 1..top
        BY <3>8, <3>9
      <4>3. wanted'[i][o + 1] = IF o + 1 > o0 /\ o + 1 <= o0 + n THEN new2[(o + 1) - o0] ELSE old[o + 1]
        <5>1. PICK c : c = o + 1
          BY Zenon
        <5>2. c \in 1..top
          BY <4>2, <5>1, Zenon
        <5>3. wanted'[i][c] = IF c > o0 /\ c <= o0 + n THEN new2[c - o0] ELSE old[c]
          BY <3>7, <5>2, Zenon
        <5> QED
          BY <5>1, <5>3, Zenon
      <4>4. o + 1 > o0 /\ o + 1 <= o0 + n <=> o0 <= o /\ o < pos + m
        BY <3>6, <4>2
      <4>5. ASSUME o + 1 > o0 /\ o + 1 <= o0 + n
            PROVE  new2[(o + 1) - o0] = Byte(f, o)
        <5>1. (o + 1) - o0 \in 1..n /\ o0 + ((o + 1) - o0) - 1 = o
          BY <3>6, <4>2, <4>5
        <5> QED
          BY <3>1, <3>5, <5>1, Zenon
      <4> QED
        BY <3>5, <4>1, <4>3, <4>4, <4>5, Zenon
    <3> QED
      BY <3>7, <3>8, <3>10, Zenon
  <2> QED
    BY <2>5, <2>6, Zenon
\* An iteration writes the bytes of the chunk, and no other byte of any file changes.
<1>16. Written'
  <2>0. TypeOK /\ Locking /\ Mapped /\ Written
    BY Zenon DEF IInv
  <2>1. /\ f \in Nat /\ i \in Inums /\ inode[i].size \in Nat /\ pos \in Nat /\ m \in Nat /\ m > 0
        /\ k \in Offs /\ k + m <= BSIZE /\ bn \in 0..(MAXFILE - 1) /\ pos = bn * BSIZE + k
        /\ f = fd[p] /\ lock[i] = p /\ off[f] \in Nat /\ off[f] <= pos /\ From(i) = off[f] /\ To(i) = pos
    BY <1>2
  <2>2. \A j \in Inums : DOMAIN wanted'[j] = 1..inode'[j].size
    <3> SUFFICES ASSUME NEW j \in Inums
                 PROVE  DOMAIN wanted'[j] = 1..inode'[j].size
      BY Zenon
    <3>1. CASE j = i
      BY <3>1, <1>15
    <3>2. CASE j # i
      <4>1. wanted'[j] = wanted[j] /\ inode'[j] = inode[j]
        BY <3>2, <1>3
      <4> QED
        BY <2>0, <4>1, Zenon DEF Written
    <3> QED
      BY <3>1, <3>2, Zenon
  <2>3. ASSUME NEW j \in Inums, j # i, NEW o \in 0..(End(j)' - 1)
        PROVE  data'[Ref(inode[j], Place(o \div BSIZE))'][o % BSIZE] = Expected(j, o)'
    <3>1. /\ lock'[j] = lock[j] /\ wanted'[j] = wanted[j] /\ End(j)' = End(j)
          /\ lock[j] # None => From(j)' = From(j) /\ To(j)' = To(j) /\ fd[lock[j]]' = fd[lock[j]]
      BY <2>3, <1>3
    <3>2. o \in 0..(End(j) - 1)
      BY <3>1, Zenon
    <3>3. Place(o \div BSIZE) \in 0..MAXFILE /\ Ref(inode[j], Place(o \div BSIZE)) # 0
      BY <2>0, <3>2, ByteHasPlace
    <3>4. PICK q : q = Place(o \div BSIZE)
      BY Zenon
    <3>5. Ref(inode[j], q)' = Ref(inode[j], q) /\ data'[Ref(inode[j], q)] = data[Ref(inode[j], q)]
      BY <2>3, <3>3, <3>4, <1>14
    <3>6. data[Ref(inode[j], q)][o % BSIZE] = Expected(j, o)
      BY <2>0, <3>2, <3>4, Zenon DEF Written
    <3>7. Expected(j, o)' = Expected(j, o)
      BY <3>1, Zenon DEF Expected
    <3> QED
      BY <3>4, <3>5, <3>6, <3>7, Zenon
  <2>4. ASSUME NEW o \in 0..(End(i)' - 1)
        PROVE  data'[Ref(inode[i], Place(o \div BSIZE))'][o % BSIZE] = Expected(i, o)'
    <3>0. PICK b, c : b = o \div BSIZE /\ c = o % BSIZE
      BY Zenon
    <3>1. o \in Nat /\ b \in Nat /\ c \in Offs /\ o = b * BSIZE + c
      BY <3>0, DivMod
    <3>2. Expected(i, o)' = IF off[f] <= o /\ o < pos + m THEN Byte(f, o) ELSE wanted[i][o + 1]
      BY <2>4, <1>15
    <3>3. /\ End(i) \in Nat /\ pos <= End(i) /\ End(i)' = IF pos + m > End(i) THEN pos + m ELSE End(i)
      BY <1>3
    <3>4. CASE pos <= o /\ o < pos + m
      <4>1. b = bn
        <5>1. bn \in Nat
          <6>1. bn \in 0..(MAXFILE - 1) /\ MAXFILE \in Nat
            BY <2>1, Constants, Zenon
          <6> QED
            BY <6>1
        <5>2. bn * BSIZE + k <= b * BSIZE + c /\ b * BSIZE + c < bn * BSIZE + k + m
          BY <2>1, <3>1, <3>4, Zenon
        <5> QED
          BY <2>1, <3>1, <5>1, <5>2, SameBlock
      <4>2. c \in k..(k + m - 1) /\ pos - k + c = o
        <5>1. PICK z : z = bn * BSIZE
          BY Zenon
        <5>2. pos = z + k /\ o = z + c
          BY <2>1, <3>1, <4>1, <5>1, Zenon
        <5>3. bn \in 0..(MAXFILE - 1) /\ k \in Offs /\ c \in Offs
          BY <2>1, <3>1, Zenon
        <5>4. bn \in Nat /\ BSIZE \in Nat /\ k \in Nat /\ c \in Nat
          BY <5>3, Constants DEF Offs
        <5>5. z \in Nat
          BY <5>1, <5>4
        <5>6. m \in Nat /\ z + k <= z + c /\ z + c < z + k + m
          BY <2>1, <3>4, <5>2, Zenon
        <5> QED
          BY <5>2, <5>4, <5>5, <5>6
      <4>3. data'[new[Place(bn)]][c] = Byte(f, o)
        <5>1. \A d \in k..(k + m - 1) : data'[new[Place(bn)]][d] = Byte(f, pos - k + d)
          BY Zenon DEF Copies
        <5> QED
          BY <4>2, <5>1, Zenon
      <4>4. Ref(inode[i], Place(bn))' = new[Place(bn)]
        <5>1. Place(bn) \in Path(bn) /\ Place(bn) \in 0..MAXFILE
          BY <2>1, Places, Zenon
        <5> QED
          BY <2>1, <5>1, <1>1
      <4>5. off[f] <= o
        BY <2>1, <3>1, <3>4, SMTT(30)
      <4> QED
        BY <3>0, <3>2, <3>4, <4>1, <4>3, <4>4, <4>5, Zenon
    <3>5. CASE ~ (pos <= o /\ o < pos + m)
      <4>1. o \in 0..(End(i) - 1)
        <5>1. PICK e : e = End(i)
          BY Zenon
        <5> QED
          BY <2>1, <2>4, <3>1, <3>3, <3>5, <5>1
      <4>2. b \in 0..(MAXFILE - 1) /\ Place(b) \in 0..MAXFILE /\ Ref(inode[i], Place(b)) # 0
        BY <2>0, <2>1, <3>0, <4>1, ByteHasPlace
      <4>3. data[Ref(inode[i], Place(b))][c] = Expected(i, o)
        BY <2>0, <2>1, <3>0, <4>1, Zenon DEF Written
      <4>4. Expected(i, o)' = Expected(i, o)
        <5>1. Expected(i, o) = IF off[f] <= o /\ o < pos THEN Byte(f, o) ELSE wanted[i][o + 1]
          <6>1. lock[i] # None
            BY <2>1, FileDataAssumption, Zenon
          <6> QED
            BY <2>1, <6>1, Zenon DEF Expected
        <5>2. off[f] <= o /\ o < pos + m <=> off[f] <= o /\ o < pos
          BY <2>1, <3>1, <3>5
        <5>3. CASE off[f] <= o /\ o < pos
          BY <3>2, <5>1, <5>2, <5>3, Zenon
        <5>4. CASE ~ (off[f] <= o /\ o < pos)
          BY <3>2, <5>1, <5>2, <5>4, Zenon
        <5> QED
          BY <5>3, <5>4, Zenon
      <4>5. CASE b # bn
        <5>1. PICK q : q = Place(b)
          BY Zenon
        <5>2. q \notin Path(bn) /\ q \in 0..MAXFILE
          BY <2>1, <4>2, <4>5, <5>1, Places, Zenon
        <5>3. Ref(inode[i], q)' = Ref(inode[i], q) /\ data'[Ref(inode[i], q)] = data[Ref(inode[i], q)]
          BY <2>1, <4>2, <5>1, <5>2, <1>14
        <5> QED
          BY <3>0, <4>3, <4>4, <5>1, <5>3, Zenon
      <4>6. CASE b = bn
        <5>1. Place(bn) \in Path(bn) /\ Place(bn) \in 0..MAXFILE
          BY <2>1, Places, Zenon
        <5>2. Ref(inode[i], Place(bn))' = new[Place(bn)]
          BY <2>1, <5>1, <1>1
        <5>3. new[Place(bn)] = Ref(inode[i], Place(bn))
          BY <4>2, <4>6, <5>1, <1>9
        <5>4. c \notin k..(k + m - 1)
          <6>1. PICK z : z = bn * BSIZE /\ z \in Nat
            BY <2>1, Constants
          <6>2. pos = z + k /\ o = z + c
            BY <2>1, <3>1, <4>6, <6>1, Zenon
          <6>3. k \in Nat /\ c \in Nat /\ m \in Nat
            <7>1. k \in Offs /\ c \in Offs /\ m \in Nat /\ BSIZE \in Nat
              BY <2>1, <3>1, Constants, Zenon
            <7> QED
              BY <7>1 DEF Offs
          <6> QED
            BY <3>5, <6>1, <6>2, <6>3, OutOfRange, Zenon
        <5>5. data'[new[Place(bn)]][c] = data[new[Place(bn)]][c]
          <6>1. Ref(inode[i], Place(bn)) # 0 =>
                  \A d \in Offs \ (k..(k + m - 1)) : data'[new[Place(bn)]][d] = data[new[Place(bn)]][d]
            BY Zenon DEF Copies
          <6> QED
            BY <3>1, <4>2, <4>6, <5>4, <6>1, Zenon
        <5> QED
          BY <3>0, <4>3, <4>4, <4>6, <5>2, <5>3, <5>5, Zenon
      <4> QED
        BY <4>5, <4>6, Zenon
    <3> QED
      BY <3>4, <3>5, Zenon
  <2> QED
    <3>1. ASSUME NEW j \in Inums, NEW o \in 0..(End(j)' - 1)
          PROVE  data'[Ref(inode[j], Place(o \div BSIZE))'][o % BSIZE] = Expected(j, o)'
      BY <2>3, <2>4, <3>1, Zenon
    <3> QED
      BY <2>2, <3>1, Zenon DEF Written
\* What an iteration logs.
<1>17. logged'[p] \subseteq
          {BitmapBlock, inode'[i].addrs[NDIRECT]}
          \cup {Ref(inode[i], Place(x))' : x \in Touched(off[f], pos + m)}
          \cup (IF at[p].done + m = at[p].n THEN {InodeBlock} ELSE {})
  <2>0. TypeOK /\ Locking /\ InLog
    BY Zenon DEF IInv
  <2>1. /\ i \in Inums /\ pos \in Nat /\ m \in Nat /\ m > 0 /\ off[f] \in Nat /\ off[f] <= pos
        /\ k \in Offs /\ bn \in 0..(MAXFILE - 1) /\ pos = bn * BSIZE + k
        /\ f = fd[p] /\ i = ip[f] /\ at[p].pc = "copy" /\ From(i) = off[f] /\ To(i) = pos
    BY <1>2
  <2>2. logged[p] \subseteq {BitmapBlock, inode[i].addrs[NDIRECT]} \cup
                            {Ref(inode[i], Place(x)) : x \in Touched(off[f], pos)}
    <3>1. logged[p] \subseteq {BitmapBlock, inode[ip[fd[p]]].addrs[NDIRECT]} \cup
               {Ref(inode[ip[fd[p]]], Place(x)) : x \in Touched(From(ip[fd[p]]), To(ip[fd[p]]))}
      BY <2>0, <2>1, Zenon DEF InLog
    <3> QED
      BY <2>1, <3>1, Zenon
  <2>3. 0 \notin logged[p]
    <3>1. logged[p] \subseteq Blocks \cup {BitmapBlock, InodeBlock}
      BY <2>0, Zenon DEF TypeOK
    <3>2. 0 # BitmapBlock /\ 0 # InodeBlock
      BY Constants DEF BitmapBlock, InodeBlock
    <3> QED
      BY <3>1, <3>2, Constants, Zenon
  <2>4. \A q \in 0..MAXFILE : /\ Ref(inode[i], q) # 0 => Ref(inode[i], q)' = Ref(inode[i], q)
                              /\ q \in Path(bn) => Ref(inode[i], q)' = new[q]
    <3>1. \A q \in 0..MAXFILE :
            Ref(inode[i], q)' = IF q \in Path(bn) THEN new[q] ELSE Ref(inode[i], q)
      BY <2>1, <1>1
    <3>2. \A q \in Path(bn) : Ref(inode[i], q) # 0 => new[q] = Ref(inode[i], q)
      BY <1>9
    <3> QED
      BY <3>1, <3>2, Zenon
  <2>5. NDIRECT \in 0..MAXFILE /\ Ref(inode[i], NDIRECT) = inode[i].addrs[NDIRECT]
        /\ Ref(inode[i], NDIRECT)' = inode'[i].addrs[NDIRECT]
    <3>1. NDIRECT \in 0..MAXFILE /\ NDIRECT <= NDIRECT
      BY Constants
    <3> QED
      BY <3>1, Zenon DEF Ref, RefIn
  <2>6. Touched(off[f], pos) \subseteq Touched(off[f], pos + m)
    <3> SUFFICES ASSUME NEW x \in 0..(MAXFILE - 1), x * BSIZE < pos
                 PROVE  x * BSIZE < pos + m
      BY Zenon DEF Touched
    <3>1. PICK y : y = x * BSIZE /\ y \in Nat
      BY Constants
    <3> QED
      BY <2>1, <3>1
  <2>7. bn \in Touched(off[f], pos + m)
    <3>1. bn * BSIZE < pos + m /\ off[f] < (bn + 1) * BSIZE
      BY <2>1, Constants DEF Offs
    <3> QED
      BY <2>1, <3>1, Zenon DEF Touched
  <2>8. ASSUME NEW y \in logged[p]
        PROVE  y \in {BitmapBlock, inode'[i].addrs[NDIRECT]}
                      \cup {Ref(inode[i], Place(x))' : x \in Touched(off[f], pos + m)}
    <3>0. y # 0
      BY <2>3, Zenon
    <3>1. CASE y = inode[i].addrs[NDIRECT]
      BY <2>4, <2>5, <3>0, <3>1, Zenon
    <3>2. CASE \E x \in Touched(off[f], pos) : y = Ref(inode[i], Place(x))
      <4>1. PICK x \in Touched(off[f], pos) : y = Ref(inode[i], Place(x))
        BY <3>2, Zenon
      <4>2. x \in 0..(MAXFILE - 1)
        BY Zenon DEF Touched
      <4>3. Place(x) \in 0..MAXFILE
        BY <4>2, Places, Zenon
      <4> QED
        BY <2>4, <2>6, <3>0, <4>1, <4>3, Zenon
    <3> QED
      BY <2>2, <3>1, <3>2, Zenon
  <2>9. ASSUME NEW q \in Path(bn)
        PROVE  new[q] \in {BitmapBlock, inode'[i].addrs[NDIRECT]}
                      \cup {Ref(inode[i], Place(x))' : x \in Touched(off[f], pos + m)}
    <3>1. q \in 0..MAXFILE /\ (q # Place(bn) => q = NDIRECT)
      BY <2>1, <2>9, Places, Zenon
    <3>2. Ref(inode[i], q)' = new[q]
      BY <2>4, <2>9, <3>1, Zenon
    <3> QED
      BY <2>5, <2>7, <3>1, <3>2, Zenon
  <2>10. logged'[p] \subseteq logged[p] \cup {BitmapBlock} \cup {new[q] : q \in Path(bn)}
                               \cup (IF at[p].done + m = at[p].n THEN {InodeBlock} ELSE {})
    BY Zenon DEF Copies
  <2>11. PICK A : A = {BitmapBlock, inode'[i].addrs[NDIRECT]}
                      \cup {Ref(inode[i], Place(x))' : x \in Touched(off[f], pos + m)}
    BY Zenon
  <2>12. BitmapBlock \in A /\ (\A y \in logged[p] : y \in A) /\ (\A q \in Path(bn) : new[q] \in A)
    BY <2>8, <2>9, <2>11, Zenon
  <2>13. logged'[p] \subseteq A \cup (IF at[p].done + m = at[p].n THEN {InodeBlock} ELSE {})
    BY <2>10, <2>12, Zenon
  <2> QED
    BY <2>11, <2>13, Zenon
\* The blocks that are logged for a chunk are the bitmap, the indirect block and the blocks
\* that the bytes written so far are in.
<1>18. InLog'
  <2>0. TypeOK /\ Locking /\ InLog
    BY Zenon DEF IInv
  <2>1. /\ i \in Inums /\ f \in Files /\ lock[i] = p /\ f = fd[p] /\ i = ip[f]
        /\ pos = off[f] + at[p].done /\ off[f] \in Nat /\ at[p].done \in Nat /\ m \in Nat
    BY <1>2
  <2>2. MoreToCopy(p, m) /\ ChunkDone(p, f, i, pos, m) /\ fd' = fd
    BY <1>6
  <2>2a. \A q \in Procs : q # p => at'[q] = at[q] /\ logged'[q] = logged[q]
    BY <1>6
  <2> SUFFICES ASSUME NEW q \in Procs, at'[q].pc = "copy"
               PROVE  logged'[q] \subseteq
                         {BitmapBlock, inode'[ip[fd[q]]].addrs[NDIRECT]} \cup
                         {Ref(inode[ip[fd[q]]], Place(x))' : x \in Touched(From(ip[fd[q]])', To(ip[fd[q]])')}
    BY <2>2, Zenon DEF InLog, Touched
  <2>3. CASE q = p
    <3>1. at[p].done + m # at[p].n
      BY <2>2, <2>3, Zenon DEF ChunkDone
    <3>2. lock' = lock /\ off' = off /\ at'[p].done = at[p].done + m
      BY <2>2, <3>1, Zenon DEF MoreToCopy
    <3>3. From(i)' = off[f] /\ To(i)' = off[f] + (at[p].done + m)
      BY <2>1, <2>2, <3>2, Zenon DEF From, To
    <3>4. To(i)' = pos + m
      <4>1. off[f] \in Nat /\ at[p].done \in Nat /\ m \in Nat /\ pos = off[f] + at[p].done
        BY <2>1, Zenon
      <4>2. off[f] + (at[p].done + m) = (off[f] + at[p].done) + m
        BY <4>1, NextPosition, Zenon
      <4> QED
        BY <3>3, <4>1, <4>2, Zenon
    <3>5. logged'[p] \subseteq {BitmapBlock, inode'[i].addrs[NDIRECT]}
                  \cup {Ref(inode[i], Place(x))' : x \in Touched(off[f], pos + m)}
                  \cup (IF at[p].done + m = at[p].n THEN {InodeBlock} ELSE {})
      BY <1>17
    <3>6. logged'[p] \subseteq {BitmapBlock, inode'[i].addrs[NDIRECT]}
                  \cup {Ref(inode[i], Place(x))' : x \in Touched(off[f], pos + m)}
      BY <3>1, <3>5, Zenon
    <3>7. i = ip[fd'[q]] /\ i = ip[fd[q]]
      BY <2>1, <2>2, <2>3, Zenon
    <3>8. logged'[q] \subseteq {BitmapBlock, inode'[i].addrs[NDIRECT]}
                  \cup {Ref(inode[i], Place(x))' : x \in Touched(From(i)', To(i)')}
      BY <2>3, <3>3, <3>4, <3>6, Zenon
    <3> QED
      BY <3>7, <3>8, Zenon
  <2>4. CASE q # p
    <3>1. at[q].pc = "copy" /\ logged'[q] = logged[q]
      BY <2>2a, <2>4, Zenon
    <3>2. PICK j : j = ip[fd[q]]
      BY Zenon
    <3>3. lock[j] = q /\ j \in Inums
      <4>1. lock[j] = q /\ fd[q] # None
        BY <2>0, <3>1, <3>2, Zenon DEF Locking
      <4>2. fd[q] \in Files
        BY <2>0, <4>1, Zenon DEF TypeOK
      <4> QED
        BY <3>2, <4>1, <4>2, FileDataAssumption, Zenon
    <3>4. j # i /\ lock[j] # None
      BY <2>1, <2>4, <3>3, FileDataAssumption, Zenon
    <3>5. inode'[j] = inode[j] /\ From(j)' = From(j) /\ To(j)' = To(j)
      BY <3>3, <3>4, <1>3
    <3>6. \A r \in 0..MAXFILE : Ref(inode[j], r)' = Ref(inode[j], r)
      BY <3>3, <3>4, <1>1
    <3>7. \A x \in Touched(From(j), To(j)) : Place(x) \in 0..MAXFILE
      BY Places, Zenon DEF Touched
    <3>8. logged[q] \subseteq {BitmapBlock, inode[ip[fd[q]]].addrs[NDIRECT]} \cup
               {Ref(inode[ip[fd[q]]], Place(x)) : x \in Touched(From(ip[fd[q]]), To(ip[fd[q]]))}
      BY <2>0, <3>1, Zenon DEF InLog
    <3>9. logged[q] \subseteq {BitmapBlock, inode[j].addrs[NDIRECT]} \cup
               {Ref(inode[j], Place(x)) : x \in Touched(From(j), To(j))}
      BY <3>2, <3>8, Zenon
    <3>10. {Ref(inode[j], Place(x)) : x \in Touched(From(j), To(j))} =
           {Ref(inode[j], Place(x))' : x \in Touched(From(j)', To(j)')}
      <4>1. \A x \in Touched(From(j), To(j)) : Ref(inode[j], Place(x))' = Ref(inode[j], Place(x))
        BY <3>6, <3>7, Zenon
      <4>2. Touched(From(j)', To(j)') = Touched(From(j), To(j))
        BY <3>5, Zenon
      <4> QED
        BY <4>1, <4>2, Zenon
    <3>11. logged'[q] \subseteq {BitmapBlock, inode'[j].addrs[NDIRECT]} \cup
               {Ref(inode[j], Place(x))' : x \in Touched(From(j)', To(j)')}
      BY <3>1, <3>5, <3>9, <3>10, Zenon
    <3>12. j = ip[fd'[q]]
      BY <2>2, <3>2, Zenon
    <3> QED
      BY <3>2, <3>11, <3>12, Zenon
  <2> QED
    BY <2>3, <2>4, Zenon
\* A chunk stays within its transaction.
<1>19. LogSpace'
  <2>0. TypeOK /\ Locking /\ LogSpace
    BY Zenon DEF IInv
  <2>1. /\ pos \in Nat /\ m \in Nat /\ off[f] \in Nat /\ pos = off[f] + at[p].done
        /\ at[p].done \in Nat /\ at[p].n \in Nat /\ at[p].left \in Nat /\ at[p].done + m <= at[p].n
        /\ at[p].pc = "copy"
    BY <1>2
  <2>2. \A q \in Procs : q # p => logged'[q] = logged[q]
    BY <1>6
  <2>3. Cardinality(logged'[p]) < MAXOPBLOCKS
    <3>1. PICK z \in Nat : at[p].n <= z * BSIZE /\ z + 4 < MAXOPBLOCKS
      <4>1. at[p].n <= Chunk(at[p].left)
        BY <2>0, <2>1, Zenon DEF Locking
      <4> QED
        BY <2>1, <4>1, ChunkFits, Zenon
    <3>2. PICK X : X = Touched(off[f], pos + m)
      BY Zenon
    <3>3. IsFiniteSet(X) /\ Cardinality(X) <= z + 1
      <4>1. PICK y : y = z * BSIZE /\ y \in Nat
        BY Constants
      <4>2. pos + m \in Nat /\ pos + m <= off[f] + z * BSIZE
        BY <2>1, <3>1, <4>1
      <4> QED
        BY <2>1, <3>2, <4>2, TouchedFew, Zenon
    <3>4. PICK g : g = [x \in X |-> Ref(inode[i], Place(x))']
      BY Zenon
    <3>5. logged'[p] \subseteq {BitmapBlock, inode'[i].addrs[NDIRECT]}
                \cup {Ref(inode[i], Place(x))' : x \in Touched(off[f], pos + m)}
                \cup (IF at[p].done + m = at[p].n THEN {InodeBlock} ELSE {})
      BY <1>17
    <3>6. PICK u, v, w, S : u = BitmapBlock /\ v = inode'[i].addrs[NDIRECT] /\ w = InodeBlock /\ S = logged'[p]
      BY Zenon
    <3>7. S \subseteq {u, v, w} \cup {g[x] : x \in X}
      BY <3>2, <3>4, <3>5, <3>6, Zenon
    <3>8. z + 1 \in Nat
      OBVIOUS
    <3>9. IsFiniteSet(S) /\ Cardinality(S) <= (z + 1) + 3
      BY <3>3, <3>7, <3>8, ImageAndThree
    <3>10. Cardinality(S) \in Nat /\ MAXOPBLOCKS \in Nat
      BY <3>9, FS_CardinalityType, FileDataAssumption, Zenon
    <3>11. Cardinality(S) < MAXOPBLOCKS
      BY <3>1, <3>9, <3>10
    <3> QED
      BY <3>6, <3>11, Zenon
  <2> QED
    BY <2>0, <2>2, <2>3, Zenon DEF LogSpace
<1> QED
  BY <1>5, <1>7, <1>8, <1>10, <1>12, <1>16, <1>13, <1>18, <1>19, Zenon DEF IInv

\* writei keeps the invariant.
LEMMA WriteiInv ==
    ASSUME IInv, NEW p \in Procs, writei(p)
    PROVE  IInv'
BY WriteiCopies, CopyInv, Zenon
=============================================================================

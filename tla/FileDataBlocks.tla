--------------------------- MODULE FileDataBlocks ---------------------------
(***************************************************************************)
(* The blocks of files in module FileData: what the arithmetic of offsets  *)
(* and blocks comes to, what bmap does to the blocks of an inode, and what *)
(* mkfs has put on the disk.                                               *)
(***************************************************************************)
EXTENDS FileData, FiniteSetTheorems, TLAPS

-----------------------------------------------------------------------------
(***************************************************************************)
(* Numbers                                                                 *)
(***************************************************************************)

\* The assumptions on the constants, spelled out.
LEMMA Constants ==
    /\ BSIZE \in Nat /\ BSIZE > 0 /\ NDIRECT \in Nat /\ NDIRECT > 0
    /\ nblocks \in Nat /\ nblocks > 0 /\ nmeta \in Nat /\ nmeta > 2
    /\ MAXFILE \in Nat /\ MAXFILE = NDIRECT + BSIZE
    /\ 0 \notin Blocks /\ Blocks \subseteq Nat
BY FileDataAssumption DEF Blocks, MAXFILE, NINDIRECT

\* A set of numbers has a least one.
LEMMA Least ==
    ASSUME NEW T \in SUBSET Nat, T # {}
    PROVE  \E x \in T : \A y \in T : x <= y
<1>1. PICK x \in T : \A y \in T : ~ (<<y, x>> \in OpToRel(<, Nat))
  BY WFMin, NatLessThanWellFounded, Zenon
<1>2. \A y \in T : ~ (y < x)
  BY <1>1, Zenon DEF OpToRel
<1> QED
  BY <1>2

\* An offset is a block number and an offset in the block.
LEMMA DivMod ==
    ASSUME NEW o \in Nat
    PROVE  /\ o \div BSIZE \in Nat /\ o % BSIZE \in Offs
           /\ o = (o \div BSIZE) * BSIZE + (o % BSIZE)
<1>1. o % BSIZE \in Offs
  BY Constants DEF Offs
<1>2. o \div BSIZE \in Nat
  BY Constants
<1>3. o = (o \div BSIZE) * BSIZE + (o % BSIZE)
  BY Constants
<1> QED
  BY <1>1, <1>2, <1>3, Zenon

\* Block q is one of the blocks for e bytes exactly when e reaches into it.
LEMMA NBlocksIs ==
    ASSUME NEW e \in Nat
    PROVE  /\ NBlocks(e) \in Nat
           /\ \A q \in Nat : q < NBlocks(e) <=> q * BSIZE < e
BY Constants DEF NBlocks

\* The bytes that are written are block numbers too.
LEMMA BytesFit ==
    ASSUME NEW f \in Nat, NEW o \in Nat
    PROVE  Byte(f, o) \in Blocks
BY Constants DEF Byte, Blocks

\* A byte before the end of block n - 1 is in a block before n.
LEMMA BlockBelow ==
    ASSUME NEW bn \in Nat, NEW k \in Nat, NEW n \in Nat, bn * BSIZE + k < n * BSIZE
    PROVE  bn < n
BY Constants

\* The bytes of an iteration are in one block.
LEMMA SameBlock ==
    ASSUME NEW b \in Nat, NEW bn \in Nat, NEW c \in Offs, NEW k \in Offs, NEW m \in Nat, k + m <= BSIZE,
           bn * BSIZE + k <= b * BSIZE + c, b * BSIZE + c < bn * BSIZE + k + m
    PROVE  b = bn
<1>1. CASE b < bn
  <2>1. (b + 1) * BSIZE <= bn * BSIZE
    BY <1>1, Constants
  <2> QED
    BY <2>1, Constants DEF Offs
<1>2. CASE b > bn
  <2>1. (bn + 1) * BSIZE <= b * BSIZE
    BY <1>2, Constants
  <2> QED
    BY <2>1, Constants DEF Offs
<1> QED
  BY <1>1, <1>2

\* A byte of a file is in one of its blocks.
LEMMA BlockOfByte ==
    ASSUME NEW e \in Nat, NEW o \in 0..(e - 1)
    PROVE  /\ o \in Nat /\ o \div BSIZE \in Nat /\ o % BSIZE \in Offs
           /\ o = (o \div BSIZE) * BSIZE + (o % BSIZE)
           /\ o \div BSIZE < NBlocks(e)
<1>1. o \in Nat /\ o < e
  OBVIOUS
<1>2. o \div BSIZE \in Nat /\ o % BSIZE \in Offs /\ o = (o \div BSIZE) * BSIZE + (o % BSIZE)
  BY <1>1, DivMod, Zenon
<1>3. PICK b, c : b = o \div BSIZE /\ c = o % BSIZE
  BY Zenon
<1>4. b * BSIZE < e
  BY <1>1, <1>2, <1>3, Constants DEF Offs
<1>5. b < NBlocks(e)
  BY <1>2, <1>3, <1>4, NBlocksIs, Zenon
<1> QED
  BY <1>1, <1>2, <1>3, <1>5, Zenon

\* Place numbers the blocks of a file without the place of the indirect block, and bmap
\* passes only that place on its way.
LEMMA Places ==
    ASSUME NEW bn \in 0..(MAXFILE - 1)
    PROVE  /\ Place(bn) \in 0..MAXFILE /\ Place(bn) # NDIRECT
           /\ Place(bn) \in Path(bn) /\ Path(bn) \subseteq 0..MAXFILE
           /\ \A k \in Path(bn) : k # Place(bn) => k = NDIRECT
           /\ NDIRECT \in Path(bn) <=> bn >= NDIRECT
           /\ \A c \in 0..(MAXFILE - 1) : Place(c) = Place(bn) => c = bn
BY Constants DEF Place, Path

-----------------------------------------------------------------------------
(***************************************************************************)
(* bmap                                                                    *)
(***************************************************************************)
DiskData == [Blocks -> [Offs -> Blocks \cup {0}]]
Addrs == [0..NDIRECT -> Blocks \cup {0}]

\* A place holds a data block or nothing.
LEMMA RefType ==
    ASSUME NEW d \in DiskData, NEW addrs \in Addrs, NEW k \in 0..MAXFILE
    PROVE  RefIn(d, addrs, k) \in Blocks \cup {0}
<1>1. CASE k <= NDIRECT
  BY <1>1, Constants DEF RefIn, Addrs
<1>2. CASE ~ (k <= NDIRECT)
  <2>1. NDIRECT \in 0..NDIRECT /\ k - NDIRECT - 1 \in Offs
    BY <1>2, Constants DEF Offs
  <2>2. addrs[NDIRECT] \in Blocks \cup {0}
    BY <2>1, Zenon DEF Addrs
  <2>3. CASE addrs[NDIRECT] = 0
    BY <1>2, <2>3, Zenon DEF RefIn
  <2>4. CASE addrs[NDIRECT] # 0
    <3>1. d[addrs[NDIRECT]][k - NDIRECT - 1] \in Blocks \cup {0}
      BY <2>1, <2>2, <2>4, Zenon DEF DiskData
    <3> QED
      BY <1>2, <2>4, <3>1, Zenon DEF RefIn
  <2> QED
    BY <2>3, <2>4, Zenon
<1> QED
  BY <1>1, <1>2, Zenon

\* balloc finds a block that is free.
LEMMA FirstFreeIs ==
    ASSUME NEW used, Blocks \ used # {}
    PROVE  FirstFree(used) \in Blocks \ used
<1>1. Blocks \ used \in SUBSET Nat
  BY Constants, Zenon
<1>2. \E b \in Blocks \ used : \A c \in Blocks \ used : b <= c
  BY <1>1, Least, Zenon
<1> QED
  BY <1>2, Zenon DEF FirstFree

\* What bmap makes of a file system: new has the blocks on the path to bn, some of which
\* were there before.
Bmapped(d, used, addrs, bn, new, d2, used2, addrs2) ==
    /\ new \in [Path(bn) -> Blocks]
    /\ \A k \in Path(bn) : IF RefIn(d, addrs, k) # 0 THEN new[k] = RefIn(d, addrs, k)
                                                     ELSE new[k] \notin used
    /\ \A k, l \in Path(bn) : new[k] = new[l] => k = l
    /\ used2 = used \cup {new[k] : k \in Path(bn)}
    /\ addrs2 = [k \in 0..NDIRECT |-> IF k \in Path(bn) THEN new[k] ELSE addrs[k]]
    /\ d2 \in DiskData
    /\ \A b \in used : b # new[Place(bn)] /\ (NDIRECT \in Path(bn) => b # new[NDIRECT]) => d2[b] = d[b]
    /\ NDIRECT \in Path(bn) =>
        \A c \in Offs : d2[new[NDIRECT]][c] =
            IF c = bn - NDIRECT THEN new[Place(bn)]
            ELSE IF addrs[NDIRECT] = 0 THEN 0 ELSE d[new[NDIRECT]][c]

\* The places of the inode afterwards.
LEMMA RefsAfter ==
    ASSUME NEW d \in DiskData, NEW used \in SUBSET Blocks, NEW addrs \in Addrs,
           NEW bn \in 0..(MAXFILE - 1), NEW new, NEW d2, NEW used2, NEW addrs2,
           \A k \in 0..MAXFILE : RefIn(d, addrs, k) \in used \cup {0},
           \A k, l \in 0..MAXFILE :
              RefIn(d, addrs, k) = RefIn(d, addrs, l) /\ RefIn(d, addrs, k) # 0 => k = l,
           Bmapped(d, used, addrs, bn, new, d2, used2, addrs2)
    PROVE  \A k \in 0..MAXFILE :
              RefIn(d2, addrs2, k) = IF k \in Path(bn) THEN new[k] ELSE RefIn(d, addrs, k)
<1> SUFFICES ASSUME NEW k \in 0..MAXFILE
             PROVE  RefIn(d2, addrs2, k) = IF k \in Path(bn) THEN new[k] ELSE RefIn(d, addrs, k)
  BY Zenon
<1>0. NDIRECT \in 0..NDIRECT /\ NDIRECT \in 0..MAXFILE /\ NDIRECT <= NDIRECT
  BY Constants
<1>1. CASE k <= NDIRECT
  <2>1. k \in 0..NDIRECT
    BY <1>1, Constants
  <2> QED
    BY <1>1, <2>1, Zenon DEF RefIn, Bmapped
<1>2. CASE ~ (k <= NDIRECT)
  <2> DEFINE c == k - NDIRECT - 1
             ind == addrs[NDIRECT]
  <2>1. c \in Offs
    BY <1>2, Constants DEF Offs
  <2>2. CASE NDIRECT \in Path(bn)
    <3>0. new[NDIRECT] \in Blocks
      BY <2>2, Zenon DEF Bmapped
    <3>1. addrs2[NDIRECT] = new[NDIRECT] /\ new[NDIRECT] # 0
      BY <1>0, <2>2, <3>0, Constants, Zenon DEF Bmapped
    <3>2. RefIn(d2, addrs2, k) = d2[new[NDIRECT]][c]
      BY <1>2, <3>1, Zenon DEF RefIn
    <3>3. c = bn - NDIRECT <=> k = Place(bn)
      BY <1>2, <2>2, Constants, Places DEF Place
    <3>4. k \in Path(bn) <=> k = Place(bn)
      BY <1>2, <1>0, Places, Zenon
    <3>5. ind # 0 => new[NDIRECT] = ind
      BY <1>0, <2>2, Zenon DEF RefIn, Bmapped
    <3>6. d2[new[NDIRECT]][c] = IF k = Place(bn) THEN new[Place(bn)]
                                ELSE IF ind = 0 THEN 0 ELSE d[new[NDIRECT]][c]
      BY <2>1, <2>2, <3>3, Zenon DEF Bmapped
    <3>7. RefIn(d, addrs, k) = IF ind = 0 THEN 0 ELSE d[ind][c]
      BY <1>2, Zenon DEF RefIn
    <3> QED
      BY <3>2, <3>4, <3>5, <3>6, <3>7, Zenon
  <2>3. CASE NDIRECT \notin Path(bn)
    <3>1. addrs2[NDIRECT] = ind /\ k \notin Path(bn)
      BY <1>0, <1>2, <2>3, Places, Constants DEF Bmapped, Place, Path
    <3>2. CASE ind = 0
      BY <1>2, <3>1, <3>2, Zenon DEF RefIn
    <3>3. CASE ind # 0
      <4>1. ind \in used /\ RefIn(d, addrs, NDIRECT) = ind
        BY <1>0, <3>3, Zenon DEF RefIn
      <4>2. ind # new[Place(bn)]
        BY <1>0, <3>3, <4>1, Places, Zenon DEF Bmapped
      <4>3. d2[ind] = d[ind]
        BY <2>3, <4>1, <4>2, Zenon DEF Bmapped
      <4> QED
        BY <1>2, <3>1, <3>3, <4>3, Zenon DEF RefIn
    <3> QED
      BY <3>2, <3>3, Zenon
  <2> QED
    BY <2>2, <2>3, Zenon
<1> QED
  BY <1>1, <1>2, Zenon

\* The places of another inode.
LEMMA OtherRefs ==
    ASSUME NEW d \in DiskData, NEW used \in SUBSET Blocks, NEW addrs \in Addrs,
           NEW bn \in 0..(MAXFILE - 1), NEW new, NEW d2, NEW used2, NEW addrs2,
           Bmapped(d, used, addrs, bn, new, d2, used2, addrs2),
           NEW other \in Addrs, other[NDIRECT] \in used \cup {0},
           \A k \in 0..MAXFILE : RefIn(d, addrs, k) # 0 => RefIn(d, addrs, k) # other[NDIRECT]
    PROVE  \A k \in 0..MAXFILE : RefIn(d2, other, k) = RefIn(d, other, k)
<1>1. CASE other[NDIRECT] = 0
  BY <1>1, Zenon DEF RefIn
<1>2. CASE other[NDIRECT] # 0
  <2>1. \A k \in Path(bn) : new[k] # other[NDIRECT]
    BY <1>2, Places, Zenon DEF Bmapped
  <2>2. d2[other[NDIRECT]] = d[other[NDIRECT]]
    BY <1>2, <2>1, Places, Zenon DEF Bmapped
  <2> QED
    BY <2>2, Zenon DEF RefIn
<1> QED
  BY <1>1, <1>2, Zenon
\* balloc finds a block for a place that is empty, and then one for a second place.
LEMMA BlocksFinite == IsFiniteSet(Blocks)
BY FS_Interval, Constants DEF Blocks

\* A free block for one of the empty places.
LEMMA RoomForOne ==
    ASSUME NEW L, NEW x \in L, IsFiniteSet(L), NEW F, IsFiniteSet(F),
           Cardinality(L) <= Cardinality(F)
    PROVE  F # {}
<1>1. Cardinality(L) \in Nat /\ Cardinality(L) # 0 /\ Cardinality(F) \in Nat
  BY FS_CardinalityType, FS_EmptySet, Zenon
<1>2. Cardinality(F) # 0
  BY <1>1
<1> QED
  BY <1>2, FS_EmptySet, Zenon

\* Two free blocks for two of them.
LEMMA RoomForTwo ==
    ASSUME NEW x, NEW y, x # y, NEW F, IsFiniteSet(F),
           Cardinality({x, y}) <= Cardinality(F), NEW b \in F
    PROVE  F \ {b} # {}
<1>1. {x, y} = {x} \cup {y} /\ y \notin {x}
  BY Zenon
<1>2. Cardinality({x, y}) = 2
  <2>1. IsFiniteSet({x}) /\ Cardinality({x}) = 1
    BY FS_Singleton, Zenon
  <2>2. Cardinality({x} \cup {y}) = Cardinality({x}) + 1
    BY <1>1, <2>1, FS_AddElement, Zenon
  <2> QED
    BY <1>1, <2>1, <2>2
<1>3. Cardinality(F \ {b}) = Cardinality(F) - 1 /\ Cardinality(F) \in Nat
  BY FS_RemoveElement, FS_CardinalityType, Zenon
<1>4. Cardinality(F \ {b}) # 0
  BY <1>2, <1>3
<1> QED
  BY <1>4, FS_EmptySet, Zenon

\* bmap in a file system with room for what it has to allocate.
LEMMA BmapIs ==
    ASSUME TypeOK, NEW node \in Nodes, NEW bn \in 0..(MAXFILE - 1), NEW log, HasRoom(node, bn),
           \A k \in 0..MAXFILE : Ref(node, k) \in bitmap \cup {0},
           \A k, l \in 0..MAXFILE : Ref(node, k) = Ref(node, l) /\ Ref(node, k) # 0 => k = l,
           NEW s, s = bmap(Fs(bitmap, data, node, log, 0), bn)
    PROVE  /\ s.node = [size |-> node.size, addrs |-> s.node.addrs]
           /\ \E new : /\ Bmapped(data, bitmap, node.addrs, bn, new, s.data, s.used, s.node.addrs)
                      /\ s.blk = new[Place(bn)]
                      /\ s.log \subseteq log \cup {BitmapBlock} \cup {new[k] : k \in Path(bn)}
                      /\ \A c \in bitmap : (NDIRECT \in Path(bn) => c # new[NDIRECT]) => s.data[c] = data[c]
<1> DEFINE addrs == node.addrs
           free == Blocks \ bitmap
           ind == node.addrs[NDIRECT]
           b == FirstFree(bitmap)
           entry == data[ind][bn - NDIRECT]
           lacking == {k \in Path(bn) : Ref(node, k) = 0}
<1>0. /\ data \in DiskData /\ bitmap \subseteq Blocks
      /\ node.addrs \in Addrs /\ node = [size |-> node.size, addrs |-> node.addrs]
      /\ NDIRECT \in 0..NDIRECT /\ NDIRECT \in 0..MAXFILE /\ NDIRECT <= NDIRECT
  BY Constants DEF TypeOK, DiskData, Nodes, Addrs
<1>1. IsFiniteSet(lacking) /\ IsFiniteSet(free) /\ Cardinality(lacking) <= Cardinality(free)
  <2>1. IsFiniteSet(0..MAXFILE) /\ lacking \subseteq 0..MAXFILE
    <3>1. 0 \in Int /\ MAXFILE \in Int
      BY Constants
    <3> QED
      BY <3>1, FS_Interval, Places, Zenon
  <2> QED
    BY <2>1, BlocksFinite, FS_Subset, Zenon DEF HasRoom
<1>2. lacking # {} => b \in Blocks \ bitmap
  BY <1>1, RoomForOne, FirstFreeIs, Zenon
<1>3. CASE bn < NDIRECT
  <2>1. /\ Path(bn) = {bn} /\ Place(bn) = bn /\ bn \in 0..NDIRECT /\ bn \in 0..MAXFILE
        /\ NDIRECT \notin Path(bn) /\ bn <= NDIRECT
    BY <1>3, Constants DEF Path, Place
  <2>2. Ref(node, bn) = addrs[bn]
    BY <2>1, Zenon DEF Ref, RefIn
  <2>3. CASE addrs[bn] # 0
    <3> DEFINE new == [k \in Path(bn) |-> addrs[bn]]
    <3>1. s.used = bitmap /\ s.data = data /\ s.node = node /\ s.log = log /\ s.blk = addrs[bn]
      BY <1>3, <2>3 DEF bmap, Direct, Fs
    <3>2. addrs[bn] \in bitmap /\ addrs[bn] \in Blocks
      BY <1>0, <2>1, <2>2, <2>3, Zenon
    <3>3. new \in [Path(bn) -> Blocks] /\ {new[k] : k \in Path(bn)} = {addrs[bn]} /\ new[bn] = addrs[bn]
      BY <2>1, <3>2
    <3>4. addrs = [k \in 0..NDIRECT |-> IF k \in Path(bn) THEN new[k] ELSE addrs[k]]
      BY <1>0, <2>1 DEF Addrs
    <3> HIDE DEF new
    <3>5. Bmapped(data, bitmap, addrs, bn, new, data, bitmap, addrs)
      BY <1>0, <2>1, <2>2, <2>3, <3>2, <3>3, <3>4 DEF Bmapped, Ref
    <3> QED
      BY <1>0, <2>1, <3>1, <3>3, <3>5, Zenon
  <2>4. CASE addrs[bn] = 0
    <3> DEFINE new == [k \in Path(bn) |-> b]
    <3>0. b \in Blocks \ bitmap
      BY <1>2, <2>1, <2>2, <2>4, Zenon
    <3>1. /\ s.used = bitmap \cup {b} /\ s.data = Cleared(data, b) /\ s.blk = b
          /\ s.node = [node EXCEPT !.addrs[bn] = b] /\ s.log = log \cup {BitmapBlock, b}
      BY <1>3, <2>4 DEF bmap, Direct, balloc, Fs
    <3>2. s.node = [size |-> node.size, addrs |-> [addrs EXCEPT ![bn] = b]]
      BY <1>0, <3>1
    <3>3. new \in [Path(bn) -> Blocks] /\ {new[k] : k \in Path(bn)} = {b} /\ new[bn] = b
      BY <2>1, <3>0
    <3>4. [addrs EXCEPT ![bn] = b] = [k \in 0..NDIRECT |-> IF k \in Path(bn) THEN new[k] ELSE addrs[k]]
      BY <1>0, <2>1 DEF Addrs
    <3>5. Cleared(data, b) \in DiskData /\ \A c \in bitmap : Cleared(data, b)[c] = data[c]
      BY <1>0, <3>0 DEF Cleared, DiskData, Zeroes
    <3> HIDE DEF new
    <3>6. Bmapped(data, bitmap, addrs, bn, new, s.data, s.used, s.node.addrs)
      BY <2>1, <2>2, <2>4, <3>0, <3>1, <3>2, <3>3, <3>4, <3>5 DEF Bmapped, Ref
    <3> QED
      BY <2>1, <3>1, <3>2, <3>3, <3>5, <3>6
  <2> QED
    BY <2>3, <2>4
<1>4. CASE ~ (bn < NDIRECT)
  <2>1. /\ Path(bn) = {NDIRECT, bn + 1} /\ Place(bn) = bn + 1 /\ bn + 1 \in 0..MAXFILE
        /\ bn + 1 # NDIRECT /\ ~ (bn + 1 <= NDIRECT) /\ bn - NDIRECT \in Offs
        /\ (bn + 1) - NDIRECT - 1 = bn - NDIRECT
    BY <1>4, Constants DEF Path, Place, Offs
  <2>2. /\ Ref(node, NDIRECT) = ind
        /\ Ref(node, bn + 1) = IF ind = 0 THEN 0 ELSE entry
    BY <1>0, <2>1, Zenon DEF Ref, RefIn
  <2>3. CASE ind # 0 /\ entry # 0
    <3> DEFINE new == [k \in Path(bn) |-> IF k = NDIRECT THEN ind ELSE entry]
    <3>1. s.used = bitmap /\ s.data = data /\ s.node = node /\ s.log = log /\ s.blk = entry
      BY <1>4, <2>3 DEF bmap, Direct, Indirect, Fs
    <3>2. ind \in bitmap /\ entry \in bitmap /\ ind # entry
      BY <1>0, <2>1, <2>2, <2>3, Zenon
    <3>3. /\ new \in [Path(bn) -> Blocks] /\ {new[k] : k \in Path(bn)} = {ind, entry}
          /\ new[NDIRECT] = ind /\ new[bn + 1] = entry
      BY <1>0, <2>1, <3>2
    <3>4. addrs = [k \in 0..NDIRECT |-> IF k \in Path(bn) THEN new[k] ELSE addrs[k]]
      BY <1>0, <2>1, <3>3 DEF Addrs
    <3> HIDE DEF new
    <3>5. Bmapped(data, bitmap, addrs, bn, new, data, bitmap, addrs)
      BY <1>0, <2>1, <2>2, <2>3, <3>2, <3>3, <3>4 DEF Bmapped, Ref
    <3> QED
      BY <1>0, <2>1, <3>1, <3>3, <3>5, Zenon
  <2>4. CASE ind # 0 /\ entry = 0
    <3> DEFINE new == [k \in Path(bn) |-> IF k = NDIRECT THEN ind ELSE b]
               d2 == [Cleared(data, b) EXCEPT ![ind][bn - NDIRECT] = b]
    <3>0. b \in Blocks \ bitmap
      BY <1>2, <2>1, <2>2, <2>4, Zenon
    <3>1. /\ s.used = bitmap \cup {b} /\ s.data = d2 /\ s.blk = b
          /\ s.node = node /\ s.log = (log \cup {BitmapBlock, b}) \cup {ind}
      BY <1>4, <2>4, ZenonT(40) DEF bmap, Direct, Indirect, balloc, Fs
    <3>2. ind \in bitmap /\ ind # b /\ ind \in Blocks
      BY <1>0, <2>2, <2>4, <3>0, Zenon
    <3>3. /\ new \in [Path(bn) -> Blocks] /\ {new[k] : k \in Path(bn)} = {ind, b}
          /\ new[NDIRECT] = ind /\ new[bn + 1] = b
      BY <2>1, <3>0, <3>2
    <3>4. addrs = [k \in 0..NDIRECT |-> IF k \in Path(bn) THEN new[k] ELSE addrs[k]]
      BY <1>0, <2>1, <3>3 DEF Addrs
    <3>5. /\ d2 \in DiskData /\ \A c \in bitmap : c # ind => d2[c] = data[c]
          /\ \A c \in Offs : d2[ind][c] = IF c = bn - NDIRECT THEN b ELSE data[ind][c]
      BY <1>0, <2>1, <3>0, <3>2 DEF Cleared, DiskData, Zeroes
    <3> HIDE DEF new, d2
    <3>6. Bmapped(data, bitmap, addrs, bn, new, s.data, s.used, addrs)
      BY <1>0, <2>1, <2>2, <2>4, <3>0, <3>1, <3>2, <3>3, <3>4, <3>5 DEF Bmapped, Ref
    <3> QED
      BY <1>0, <2>1, <3>1, <3>3, <3>5, <3>6
  <2>5. CASE ind = 0
    <3> DEFINE b2 == FirstFree(bitmap \cup {b})
               new == [k \in Path(bn) |-> IF k = NDIRECT THEN b ELSE b2]
               d1 == Cleared(data, b)
               d2 == [Cleared(d1, b2) EXCEPT ![b][bn - NDIRECT] = b2]
    <3>0. b \in Blocks \ bitmap /\ b2 \in Blocks \ (bitmap \cup {b})
      <4>1. lacking = {NDIRECT, bn + 1}
        BY <2>1, <2>2, <2>5, Zenon
      <4>2. b \in free
        BY <1>2, <4>1, Zenon
      <4>3. free \ {b} # {}
        BY <1>1, <2>1, <4>1, <4>2, RoomForTwo, Zenon
      <4>4. Blocks \ (bitmap \cup {b}) # {}
        BY <4>3, Zenon
      <4> QED
        BY <4>2, <4>4, FirstFreeIs, Zenon
    <3>1. d1[b][bn - NDIRECT] = 0
      BY <1>0, <2>1, <3>0 DEF Cleared, DiskData, Zeroes
    <3>2. Direct(Fs(bitmap, data, node, log, 0), NDIRECT)
            = Fs(bitmap \cup {b}, d1, [node EXCEPT !.addrs[NDIRECT] = b], log \cup {BitmapBlock, b}, b)
      BY <2>5 DEF Direct, balloc, Fs
    <3>3. /\ s.used = (bitmap \cup {b}) \cup {b2} /\ s.data = d2 /\ s.blk = b2
          /\ s.node = [node EXCEPT !.addrs[NDIRECT] = b]
          /\ s.log = ((log \cup {BitmapBlock, b}) \cup {BitmapBlock, b2}) \cup {b}
      <4> DEFINE node2 == [node EXCEPT !.addrs[NDIRECT] = b]
                 log2 == log \cup {BitmapBlock, b}
      <4>1. PICK u : u = Fs(bitmap \cup {b}, d1, node2, log2, b)
        OBVIOUS
      <4>2. /\ u.used = bitmap \cup {b} /\ u.data = d1 /\ u.node = node2 /\ u.log = log2
            /\ u.blk = b
        BY <4>1 DEF Fs
      <4>3. s = Indirect(u, bn - NDIRECT)
        BY <1>4, <3>2, <4>1, Zenon DEF bmap
      <4>4. PICK v : v = balloc(u)
        OBVIOUS
      <4>5. /\ v.used = (bitmap \cup {b}) \cup {b2} /\ v.data = Cleared(d1, b2) /\ v.node = node2
            /\ v.log = log2 \cup {BitmapBlock, b2} /\ v.blk = b2
        BY <4>2, <4>4 DEF balloc, Fs
      <4>6. s = [v EXCEPT !.data[b][bn - NDIRECT] = v.blk, !.log = @ \cup {b}]
        BY <3>1, <4>2, <4>3, <4>4 DEF Indirect
      <4>7. v = Fs(v.used, v.data, v.node, v.log, v.blk)
        BY <4>4 DEF balloc, Fs
      <4> QED
        BY <4>5, <4>6, <4>7 DEF Fs
    <3>4. s.node = [size |-> node.size, addrs |-> [addrs EXCEPT ![NDIRECT] = b]]
      BY <1>0, <3>3
    <3>5. /\ new \in [Path(bn) -> Blocks] /\ {new[k] : k \in Path(bn)} = {b, b2}
          /\ new[NDIRECT] = b /\ new[bn + 1] = b2
      BY <2>1, <3>0
    <3>6. [addrs EXCEPT ![NDIRECT] = b] = [k \in 0..NDIRECT |-> IF k \in Path(bn) THEN new[k] ELSE addrs[k]]
      <4>1. \A k \in 0..NDIRECT : k \in Path(bn) <=> k = NDIRECT
        BY <1>0, <2>1, Constants
      <4> HIDE DEF new
      <4> QED
        BY <1>0, <3>5, <4>1, Zenon DEF Addrs
    <3>7. /\ d2 \in DiskData /\ \A c \in bitmap : d2[c] = data[c]
          /\ \A c \in Offs : d2[b][c] = IF c = bn - NDIRECT THEN b2 ELSE 0
      BY <1>0, <2>1, <3>0 DEF Cleared, DiskData, Zeroes
    <3> HIDE DEF new, d2, b2
    <3>8. Bmapped(data, bitmap, addrs, bn, new, s.data, s.used, s.node.addrs)
      BY <2>1, <2>2, <2>5, <3>0, <3>3, <3>4, <3>5, <3>6, <3>7 DEF Bmapped, Ref
    <3> QED
      BY <2>1, <3>3, <3>4, <3>5, <3>7, <3>8
  <2> QED
    BY <2>3, <2>4, <2>5, Zenon
<1> QED
  BY <1>3, <1>4, Zenon

\* A file with e bytes has blocks up to the one that a chunk has come to, which may be new.
LEMMA OneMoreBlock ==
    ASSUME NEW e \in Nat, NEW bn \in Nat, NEW k \in Offs, NEW m \in Nat, m > 0, k + m <= BSIZE,
           NEW pos, pos = bn * BSIZE + k, pos <= e,
           NEW e2, e2 = IF pos + m > e THEN pos + m ELSE e
    PROVE  /\ e2 \in Nat /\ NBlocks(e) \in Nat /\ bn <= NBlocks(e)
           /\ NBlocks(e2) = IF bn < NBlocks(e) THEN NBlocks(e) ELSE bn + 1
           /\ bn = NBlocks(e) => k = 0 /\ pos = e
           /\ pos + m <= e => bn < NBlocks(e)
<1>1. e2 \in Nat /\ pos \in Nat
  BY Constants DEF Offs
<1>2. /\ NBlocks(e) \in Nat /\ NBlocks(e2) \in Nat
      /\ \A q \in Nat : q < NBlocks(e) <=> q * BSIZE < e
      /\ \A q \in Nat : q < NBlocks(e2) <=> q * BSIZE < e2
  BY <1>1, NBlocksIs, Zenon
<1>3. bn < NBlocks(e) <=> bn * BSIZE < e
  BY <1>2, Zenon
<1>4. bn <= NBlocks(e) /\ (bn = NBlocks(e) => k = 0 /\ pos = e)
  <2>1. CASE NBlocks(e) < bn
    <3>1. ~ (NBlocks(e) * BSIZE < e)
      BY <1>2
    <3>2. (NBlocks(e) + 1) * BSIZE <= bn * BSIZE
      BY <1>2, <2>1, Constants, SMTT(30)
    <3> QED
      BY <1>2, <3>1, <3>2, Constants DEF Offs
  <2>2. CASE bn = NBlocks(e)
    BY <1>3, <2>2, Constants DEF Offs
  <2> QED
    BY <1>2, <2>1, <2>2
<1>5. bn < NBlocks(e2) /\ ~ (bn + 1 < NBlocks(e2) /\ NBlocks(e) <= bn + 1)
  <2>1. bn * BSIZE < e2 /\ pos + m <= (bn + 1) * BSIZE
    BY Constants DEF Offs
  <2>2. ASSUME NBlocks(e) <= bn + 1
        PROVE  e <= (bn + 1) * BSIZE
    <3>1. ~ ((bn + 1) * BSIZE < e)
      BY <1>2, <2>2
    <3> QED
      BY <3>1, Constants
  <2> QED
    BY <1>1, <1>2, <2>1, <2>2, Constants
<1>6. CASE bn < NBlocks(e)
  <2>1. NBlocks(e) - 1 \in Nat /\ NBlocks(e) - 1 < NBlocks(e) /\ bn <= NBlocks(e) - 1
    BY <1>2, <1>6
  <2>2. (NBlocks(e) - 1) * BSIZE < e
    BY <1>2, <2>1, Zenon
  <2>3. e <= NBlocks(e) * BSIZE /\ pos + m <= NBlocks(e) * BSIZE
    <3>1. ~ (NBlocks(e) * BSIZE < e)
      BY <1>2
    <3>2. (bn + 1) * BSIZE <= NBlocks(e) * BSIZE
      BY <1>2, <1>6, Constants
    <3> QED
      BY <1>2, <3>1, <3>2, Constants DEF Offs
  <2>4. NBlocks(e) - 1 < NBlocks(e2) /\ ~ (NBlocks(e) < NBlocks(e2))
    BY <1>1, <1>2, <2>1, <2>2, <2>3, Constants
  <2>5. NBlocks(e2) = NBlocks(e)
    BY <1>2, <2>4
  <2> QED
    BY <1>1, <1>2, <1>4, <1>6, <2>5
<1>7. CASE bn = NBlocks(e)
  <2>1. NBlocks(e2) = bn + 1
    BY <1>2, <1>5, <1>7
  <2> QED
    BY <1>1, <1>2, <1>4, <1>7, <2>1
<1> QED
  BY <1>2, <1>4, <1>6, <1>7

\* With one block more, the places of the path to it are needed too.
LEMMA PathNeeded ==
    ASSUME NEW n \in Nat, NEW bn \in Nat, bn <= n, NEW k \in 0..MAXFILE
    PROVE  /\ bn < n /\ k \in Path(bn) => Needs(n, k)
           /\ bn = n => (Needs(n + 1, k) <=> Needs(n, k) \/ k \in Path(bn))
BY Constants DEF Needs, Path, Place

\* An inode without blocks.
LEMMA NoFileIs ==
    /\ NoFile \in Nodes /\ NoFile.size = 0 /\ NBlocks(0) = 0
    /\ \A d, k : k \in 0..MAXFILE => RefIn(d, NoFile.addrs, k) = 0
<1>1. 0 \in 0..(MAXFILE * BSIZE) /\ NDIRECT \in 0..NDIRECT
  BY Constants
<1>2. NoFile.size = 0 /\ NoFile.addrs = [k \in 0..NDIRECT |-> 0]
  BY DEF NoFile
<1>3. NoFile \in Nodes
  BY <1>1 DEF NoFile, Nodes
<1>4. ASSUME NEW d, NEW k \in 0..MAXFILE
      PROVE  RefIn(d, NoFile.addrs, k) = 0
  <2>1. CASE k <= NDIRECT
    <3>1. k \in 0..NDIRECT
      BY <2>1, Constants
    <3> QED
      BY <1>2, <2>1, <3>1, Zenon DEF RefIn
  <2>2. CASE ~ (k <= NDIRECT)
    BY <1>1, <1>2, <2>2, Zenon DEF RefIn
  <2> QED
    BY <2>1, <2>2, Zenon
<1>5. NBlocks(0) = 0
  <2>1. NBlocks(0) \in Nat /\ (0 < NBlocks(0) <=> 0 * BSIZE < 0)
    BY NBlocksIs
  <2>2. 0 * BSIZE = 0
    BY Constants
  <2> QED
    BY <2>1, <2>2
<1> QED
  BY <1>2, <1>3, <1>4, <1>5, Zenon

-----------------------------------------------------------------------------
(***************************************************************************)
(* mkfs                                                                    *)
(***************************************************************************)
\* An image with one file of k bytes; the data blocks from free on are free.
Image(d, addrs, free, k) ==
    /\ d \in DiskData /\ addrs \in Addrs
    /\ free = nmeta + NBlocks(k) + (IF NBlocks(k) > NDIRECT THEN 1 ELSE 0)
    /\ \A q \in 0..MAXFILE : /\ RefIn(d, addrs, q) # 0 <=> Needs(NBlocks(k), q)
                             /\ RefIn(d, addrs, q) \in UsedBlocks(free) \cup {0}
    /\ \A q, r \in 0..MAXFILE :
          RefIn(d, addrs, q) = RefIn(d, addrs, r) /\ RefIn(d, addrs, q) # 0 => q = r
    /\ \A b \in UsedBlocks(free) : \E q \in 0..MAXFILE : RefIn(d, addrs, q) = b
    /\ \A b \in 0..(MAXFILE - 1), c \in Offs : b < NBlocks(k) =>
          d[RefIn(d, addrs, Place(b))][c] = IF b * BSIZE + c < k THEN Byte(0, b * BSIZE + c) ELSE 0
    /\ \A b \in Blocks : b >= free => d[b] = Zeroes

\* The block that iappend comes to, and the number of blocks before and after.
LEMMA AppendNumbers ==
    ASSUME NEW k \in Nat, k < MaxImage, NEW bn, bn = k \div BSIZE, NEW c, c = k % BSIZE,
           NEW n, n = NBlocks(k), NEW n2, n2 = NBlocks(k + 1)
    PROVE  /\ bn \in Nat /\ c \in Offs /\ k = bn * BSIZE + c /\ bn \in 0..(MAXFILE - 1)
           /\ n \in Nat /\ n2 \in Nat /\ bn <= n /\ n2 = (IF bn < n THEN n ELSE bn + 1)
           /\ bn = n => c = 0
           /\ n2 <= nblocks - 1
<1>1. /\ bn \in Nat /\ c \in Offs /\ k = bn * BSIZE + c /\ bn \in 0..(MAXFILE - 1)
      /\ MaxImage \in Nat /\ MaxImage <= MAXFILE * BSIZE /\ MaxImage <= (nblocks - 1) * BSIZE
  <2>1. bn \in Nat /\ c \in Offs /\ k = bn * BSIZE + c
    BY DivMod, Zenon
  <2>2. PICK top, room : /\ top = MAXFILE * BSIZE /\ top \in Nat
                         /\ room = (nblocks - 1) * BSIZE /\ room \in Nat
    BY Constants
  <2>3. MaxImage \in 0..top /\ MaxImage <= room
    BY <2>2, FileDataAssumption, Zenon
  <2>4. k < top
    BY <2>2, <2>3
  <2>5. c \in Nat
    BY <2>1, Constants DEF Offs
  <2>6. bn < MAXFILE
    BY <2>1, <2>2, <2>4, <2>5, BlockBelow, Constants, Zenon
  <2>7. bn \in 0..(MAXFILE - 1)
    BY <2>1, <2>6, Constants
  <2> QED
    BY <2>1, <2>2, <2>3, <2>7
<1>3. /\ n \in Nat /\ n2 \in Nat /\ bn <= n /\ n2 = (IF bn < n THEN n ELSE bn + 1)
      /\ bn = n => c = 0
      /\ n2 <= nblocks - 1
  <2>1. PICK e2 : e2 = IF k + 1 > k THEN k + 1 ELSE k
    BY Zenon
  <2>2. e2 = k + 1 /\ k <= k /\ k + 1 \in Nat
    BY <2>1
  <2>3. c + 1 <= BSIZE /\ 1 \in Nat /\ 1 > 0
    BY <1>1, Constants DEF Offs
  <2>4. /\ NBlocks(k) \in Nat /\ bn <= NBlocks(k)
        /\ NBlocks(e2) = IF bn < NBlocks(k) THEN NBlocks(k) ELSE bn + 1
        /\ bn = NBlocks(k) => c = 0
    BY <1>1, <2>1, <2>2, <2>3, OneMoreBlock, SMTT(30)
  <2>5. n2 \in Nat /\ (nblocks - 1 < n2 <=> (nblocks - 1) * BSIZE < k + 1)
    <3>1. nblocks - 1 \in Nat
      BY Constants
    <3> QED
      BY <2>2, <3>1, NBlocksIs, Zenon
  <2>6. ~ ((nblocks - 1) * BSIZE < k + 1)
    <3>1. PICK room : room = (nblocks - 1) * BSIZE /\ room \in Nat
      BY Constants
    <3> QED
      BY <1>1, <3>1
  <2>7. n2 <= nblocks - 1
    BY <2>5, <2>6, Constants
  <2> QED
    BY <2>2, <2>4, <2>5, <2>7, Zenon
<1> QED
  BY <1>1, <1>3, Zenon

\* What iappend does for byte k: new has the blocks of the path to it.
Appends(im, im2, k, bn, c, new) ==
    /\ bn = k \div BSIZE /\ c = k % BSIZE /\ im2.size = k + 1
    /\ Bmapped(im.data, UsedBlocks(im.free), im.addrs, bn, new,
               im2.data, UsedBlocks(im2.free), im2.addrs)
    /\ im2.free = nmeta + NBlocks(k + 1) + (IF NBlocks(k + 1) > NDIRECT THEN 1 ELSE 0)
    /\ im2.free >= im.free
    /\ im2.data[new[Place(bn)]][c] = Byte(0, k)
    /\ \A e \in Offs : e # c => im2.data[new[Place(bn)]][e] =
          IF RefIn(im.data, im.addrs, Place(bn)) # 0 THEN im.data[new[Place(bn)]][e] ELSE 0
    /\ \A b \in Blocks : b >= im2.free => im2.data[b] = Zeroes

\* iappend of one byte: the image stays one.
LEMMA AppendInv ==
    ASSUME NEW k \in Nat, k < MaxImage, NEW im, im.size = k,
           Image(im.data, im.addrs, im.free, k), NEW im2, im2 = Appended(im)
    PROVE  im2.size = k + 1 /\ Image(im2.data, im2.addrs, im2.free, k + 1)
\* iappend takes the blocks that it needs in the order of their numbers.
<1>1. \E bn, c, new : Appends(im, im2, k, bn, c, new)
  <2> PICK bn, c : bn = k \div BSIZE /\ c = k % BSIZE
    BY Zenon
  <2>1. PICK d, addrs, free : d = im.data /\ addrs = im.addrs /\ free = im.free
    BY Zenon
  <2>2. Image(d, addrs, free, k)
    BY <2>1, Zenon
  <2>4. PICK n, n2 : n = NBlocks(k) /\ n2 = NBlocks(k + 1)
    BY Zenon
  <2>30. /\ bn \in Nat /\ c \in Offs /\ k = bn * BSIZE + c /\ bn \in 0..(MAXFILE - 1)
         /\ n \in Nat /\ n2 \in Nat /\ bn <= n /\ n2 = (IF bn < n THEN n ELSE bn + 1)
         /\ bn = n => c = 0
         /\ n2 <= nblocks - 1
    BY <2>4, AppendNumbers
  <2>3. /\ bn \in Nat /\ c \in Offs /\ k = bn * BSIZE + c /\ bn \in 0..(MAXFILE - 1)
    BY <2>30, Zenon
  <2>5. /\ n \in Nat /\ n2 \in Nat /\ bn <= n /\ n2 = (IF bn < n THEN n ELSE bn + 1)
        /\ bn = n => c = 0
        /\ n2 <= nblocks - 1
    BY <2>30, Zenon
  <2> DEFINE isdirect == bn < NDIRECT
             ind == addrs[NDIRECT]
             needInd == ~ isdirect /\ ind = 0
             ind1 == IF needInd THEN free ELSE ind
             free1 == IF needInd THEN free + 1 ELSE free
             x0 == IF isdirect THEN addrs[bn] ELSE d[ind1][bn - NDIRECT]
             x == IF x0 = 0 THEN free1 ELSE x0
             as2 == IF isdirect THEN [addrs EXCEPT ![bn] = x] ELSE [addrs EXCEPT ![NDIRECT] = ind1]
             d1 == IF isdirect THEN d ELSE [d EXCEPT ![ind1][bn - NDIRECT] = x]
             d2 == [d1 EXCEPT ![x][c] = Byte(0, k)]
             free2 == IF x0 = 0 THEN free1 + 1 ELSE free1
             new == [q \in Path(bn) |-> IF q = Place(bn) THEN x ELSE ind1]
  <2>6. im2.addrs = as2 /\ im2.data = d2 /\ im2.free = free2 /\ im2.size = k + 1
    <3>1. im2 = [size |-> k + 1, addrs |-> as2, data |-> d2, free |-> free2]
      BY <2>1, Zenon DEF Appended
    <3> HIDE DEF as2, d2, free2
    <3> QED
      BY <3>1
  <2>7. /\ d \in DiskData /\ addrs \in Addrs /\ NDIRECT \in 0..NDIRECT /\ NDIRECT \in 0..MAXFILE
        /\ Place(bn) \in 0..MAXFILE /\ Place(bn) \in Path(bn) /\ Place(bn) # NDIRECT
        /\ NDIRECT \in Path(bn) <=> ~ isdirect
        /\ \A q \in Path(bn) : q \in 0..MAXFILE /\ (q # Place(bn) => q = NDIRECT)
    <3>1. NDIRECT \in 0..NDIRECT /\ NDIRECT \in 0..MAXFILE /\ (bn >= NDIRECT <=> ~ (bn < NDIRECT))
      BY <2>3, Constants
    <3>2. d \in DiskData /\ addrs \in Addrs
      BY <2>2, Zenon DEF Image
    <3> QED
      BY <2>3, <3>1, <3>2, Places, Zenon
  <2>8. /\ \A q \in 0..MAXFILE : /\ RefIn(d, addrs, q) # 0 <=> Needs(n, q)
                                 /\ RefIn(d, addrs, q) \in UsedBlocks(free) \cup {0}
        /\ \A q, r \in 0..MAXFILE :
            RefIn(d, addrs, q) = RefIn(d, addrs, r) /\ RefIn(d, addrs, q) # 0 => q = r
        /\ \A b \in Blocks : b >= free => d[b] = Zeroes
        /\ free = nmeta + n + (IF n > NDIRECT THEN 1 ELSE 0)
    BY <2>2, <2>4, Zenon DEF Image
  <2>9. RefIn(d, addrs, NDIRECT) = ind
    <3>1. NDIRECT <= NDIRECT
      BY Constants
    <3> QED
      BY <3>1, Zenon DEF RefIn
  <2>10. needInd <=> bn >= NDIRECT /\ n <= NDIRECT
    <3>1. ind # 0 <=> Needs(n, NDIRECT)
      BY <2>7, <2>8, <2>9, Zenon
    <3>2. Needs(n, NDIRECT) <=> ~ (n <= NDIRECT)
      BY <2>5, Constants DEF Needs
    <3>3. isdirect <=> ~ (bn >= NDIRECT)
      BY <2>3, Constants
    <3> QED
      BY <3>1, <3>2, <3>3, Zenon
  <2>11. /\ free \in Nat /\ free1 \in Nat /\ nmeta <= free /\ free <= free1
         /\ needInd => bn = n /\ free + 1 < nmeta + nblocks
         /\ bn = n => free1 < nmeta + nblocks
         /\ (IF bn = n THEN free1 + 1 ELSE free1) = nmeta + n2 + (IF n2 > NDIRECT THEN 1 ELSE 0)
         /\ (IF bn = n THEN free1 + 1 ELSE free1) \in Nat
         /\ (IF bn = n THEN free1 + 1 ELSE free1) <= nmeta + nblocks
    <3>1. PICK f2, f1 : f2 = (IF bn = n THEN free1 + 1 ELSE free1) /\ f1 = free1
      BY Zenon
    <3>2. /\ f1 = (IF bn >= NDIRECT /\ n <= NDIRECT THEN free + 1 ELSE free)
          /\ f2 = (IF bn = n THEN f1 + 1 ELSE f1)
      <4> HIDE DEF needInd
      <4> QED
        BY <2>10, <3>1, Zenon
    <3> HIDE DEF needInd, free1
    <3>3. /\ free \in Nat /\ f1 \in Nat /\ f2 \in Nat
          /\ f2 = nmeta + n2 + (IF n2 > NDIRECT THEN 1 ELSE 0)
          /\ nmeta <= free /\ free <= f1 /\ f1 <= f2 /\ f2 <= nmeta + nblocks
          /\ bn >= NDIRECT /\ n <= NDIRECT => bn = n
      <4>1. CASE bn < n
        BY <2>3, <2>5, <2>8, <3>2, <4>1, Constants
      <4>2. CASE bn = n
        BY <2>3, <2>5, <2>8, <3>2, <4>2, Constants
      <4> QED
        BY <2>3, <2>5, <4>1, <4>2
    <3>4. bn >= NDIRECT /\ n <= NDIRECT => free + 1 < nmeta + nblocks
      BY <3>2, <3>3, Constants
    <3>5. bn = n => f1 < nmeta + nblocks
      BY <3>2, <3>3, Constants
    <3> QED
      BY <2>10, <3>1, <3>3, <3>4, <3>5, Zenon
  <2>12. RefIn(d, addrs, Place(bn)) = x0
    <3>1. CASE isdirect
      <4>1. Place(bn) = bn /\ bn <= NDIRECT
        BY <2>3, <3>1, Constants DEF Place
      <4> QED
        BY <3>1, <4>1, Zenon DEF RefIn
    <3>2. CASE ~ isdirect
      <4>1. ~ (Place(bn) <= NDIRECT) /\ Place(bn) - NDIRECT - 1 = bn - NDIRECT /\ bn - NDIRECT \in Offs
        BY <2>3, <3>2, Constants DEF Place, Offs
      <4>2. CASE ind # 0
        BY <3>2, <4>1, <4>2, Zenon DEF RefIn
      <4>3. CASE ind = 0
        <5>1. free \in Blocks /\ free >= free
          BY <2>11, <3>2, <4>3, Constants DEF Blocks
        <5>2. d[free] = Zeroes
          BY <2>8, <5>1, Zenon
        <5>3. x0 = 0
          BY <3>2, <4>1, <4>3, <5>2, Zenon DEF Zeroes
        <5> QED
          BY <3>2, <4>1, <4>3, <5>3, Zenon DEF RefIn
      <4> QED
        BY <4>2, <4>3, Zenon
    <3> QED
      BY <3>1, <3>2, Zenon
  <2>13. x0 = 0 <=> bn = n
    <3>1. x0 # 0 <=> Needs(n, Place(bn))
      BY <2>7, <2>8, <2>12, Zenon
    <3>2. Needs(n, Place(bn)) <=> bn < n
      BY <2>3, <2>5, Constants DEF Needs, Place
    <3>3. bn = n <=> ~ (bn < n)
      BY <2>3, <2>5
    <3> QED
      BY <3>1, <3>2, <3>3, Zenon
  <2>14. /\ x \in Blocks /\ (x0 = 0 => x = free1 /\ x \notin UsedBlocks(free))
         /\ x0 # 0 => x = x0 /\ x \in UsedBlocks(free)
         /\ ~ isdirect => /\ ind1 \in Blocks /\ ind1 # x
                          /\ ind = 0 => ind1 = free /\ ind1 \notin UsedBlocks(free) /\ x0 = 0
                          /\ ind # 0 => ind1 = ind /\ ind1 \in UsedBlocks(free)
    <3>1. UsedBlocks(free) \subseteq Blocks /\ free \notin UsedBlocks(free) /\ free1 \notin UsedBlocks(free)
      <4>1. free <= nmeta + nblocks
        BY <2>11, Constants
      <4> QED
        BY <2>11, <4>1, Constants DEF UsedBlocks, Blocks
    <3>2. x0 \in UsedBlocks(free) \cup {0} /\ ind \in UsedBlocks(free) \cup {0}
      <4> HIDE DEF x0, ind
      <4> QED
        BY <2>7, <2>8, <2>9, <2>12, Zenon
    <3>3. bn = n => free1 \in Blocks
      BY <2>11, Constants DEF Blocks
    <3>4. needInd => free \in Blocks /\ free # free1 /\ x0 = 0
      BY <2>11, <2>13, Constants DEF Blocks
    <3>5. x0 # 0 /\ ind # 0 => x0 # ind
      <4>1. RefIn(d, addrs, Place(bn)) = RefIn(d, addrs, NDIRECT) /\ RefIn(d, addrs, Place(bn)) # 0
               => Place(bn) = NDIRECT
        BY <2>7, <2>8, Zenon
      <4> HIDE DEF x0, ind
      <4> QED
        BY <2>7, <2>9, <2>12, <4>1, Zenon
    <3> QED
      BY <2>13, <3>1, <3>2, <3>3, <3>4, <3>5, Zenon
  <2>15. /\ new \in [Path(bn) -> Blocks] /\ new[Place(bn)] = x
         /\ ~ isdirect => new[NDIRECT] = ind1
    <3> HIDE DEF x, ind1
    <3>1. \A q \in Path(bn) : (IF q = Place(bn) THEN x ELSE ind1) \in Blocks
      BY <2>7, <2>14, Zenon
    <3> QED
      BY <2>7, <3>1, Zenon
  <2>16. UsedBlocks(free2) = UsedBlocks(free) \cup {new[q] : q \in Path(bn)}
    <3>1. {new[q] : q \in Path(bn)} = IF isdirect THEN {x} ELSE {ind1, x}
      <4> HIDE DEF x, ind1, new
      <4> QED
        BY <2>7, <2>15, Zenon
    <3>2. UsedBlocks(free2) = UsedBlocks(free) \cup (IF needInd THEN {free} ELSE {})
                                 \cup (IF x0 = 0 THEN {free1} ELSE {})
      <4>1. PICK f1, nd, z : /\ f1 = free1 /\ nd = needInd /\ nd \in BOOLEAN /\ z = (x0 = 0) /\ z \in BOOLEAN
        BY Zenon
      <4>2. f1 = IF nd THEN free + 1 ELSE free
        BY <4>1, Zenon
      <4>3. nmeta..((IF z THEN f1 + 1 ELSE f1) - 1) =
               (nmeta..(free - 1)) \cup (IF nd THEN {free} ELSE {}) \cup (IF z THEN {f1} ELSE {})
        <5> HIDE DEF free1, needInd, x0
        <5> QED
          BY <2>11, <4>2, Constants
      <4> QED
        BY <4>1, <4>3, Zenon DEF UsedBlocks
    <3> QED
      BY <2>14, <3>1, <3>2, Zenon
  <2>17. as2 = [q \in 0..NDIRECT |-> IF q \in Path(bn) THEN new[q] ELSE addrs[q]]
    <3>1. CASE isdirect
      <4>1. Path(bn) = {bn} /\ Place(bn) = bn
        BY <3>1, Zenon DEF Path, Place
      <4> HIDE DEF x, ind1, new
      <4>2. addrs = [q \in 0..NDIRECT |-> addrs[q]]
        BY <2>7, Zenon DEF Addrs
      <4>3. [addrs EXCEPT ![bn] = x] = [q \in 0..NDIRECT |-> IF q = bn THEN x ELSE addrs[q]]
        BY <2>7 DEF Addrs
      <4>4. new[bn] = x
        BY <2>15, <4>1, Zenon
      <4> QED
        BY <3>1, <4>1, <4>3, <4>4, Zenon
    <3>2. CASE ~ isdirect
      <4> HIDE DEF x, ind1, new
      <4>1. \A q \in 0..NDIRECT : q \in Path(bn) <=> q = NDIRECT
        BY <2>3, <3>2, Constants DEF Path, Place
      <4>2. [addrs EXCEPT ![NDIRECT] = ind1] = [q \in 0..NDIRECT |-> IF q = NDIRECT THEN ind1 ELSE addrs[q]]
        BY <2>7 DEF Addrs
      <4>3. \A q \in 0..NDIRECT : (IF q = NDIRECT THEN ind1 ELSE addrs[q])
                                    = IF q \in Path(bn) THEN new[q] ELSE addrs[q]
        BY <2>15, <3>2, <4>1, Zenon
      <4>4. as2 = [q \in 0..NDIRECT |-> IF q = NDIRECT THEN ind1 ELSE addrs[q]]
        BY <3>2, <4>2, Zenon
      <4> HIDE DEF as2
      <4> QED
        BY <4>3, <4>4, Zenon
    <3> QED
      BY <3>1, <3>2, Zenon
  <2>18. Byte(0, k) \in Blocks
    <3>1. \A y \in Nat : y % nblocks \in 0..(nblocks - 1)
      BY Constants
    <3>2. 2 * k + 0 \in Nat
      OBVIOUS
    <3> QED
      BY <3>1, <3>2, Constants DEF Byte, Blocks
  <2>19. /\ d1 \in DiskData
         /\ \A b \in Blocks : isdirect \/ b # ind1 => d1[b] = d[b]
         /\ ~ isdirect => \A e \in Offs : d1[ind1][e] = IF e = bn - NDIRECT THEN x ELSE d[ind1][e]
    <3>1. CASE isdirect
      BY <2>7, <3>1, Zenon
    <3>2. CASE ~ isdirect
      <4>1. bn - NDIRECT \in Offs /\ ind1 \in Blocks /\ x \in Blocks /\ d1 = [d EXCEPT ![ind1][bn - NDIRECT] = x]
        <5>1. bn - NDIRECT \in Offs
          BY <2>3, <3>2, Constants DEF Offs
        <5> QED
          BY <2>14, <3>2, <5>1, Zenon
      <4>2. PICK y, v, w, z : y = x /\ v = ind1 /\ w = d1 /\ z = bn - NDIRECT
        BY Zenon
      <4> HIDE DEF x, ind1, d1
      <4>3. /\ w \in DiskData /\ \A b \in Blocks : b # v => w[b] = d[b]
            /\ \A e \in Offs : w[v][e] = IF e = z THEN y ELSE d[v][e]
        BY <2>7, <4>1, <4>2 DEF DiskData
      <4> QED
        BY <3>2, <4>2, <4>3, Zenon
    <3> QED
      BY <3>1, <3>2, Zenon
  <2>20. /\ d2 \in DiskData
         /\ \A b \in Blocks : b # x => d2[b] = d1[b]
         /\ \A e \in Offs : d2[x][e] = IF e = c THEN Byte(0, k) ELSE d1[x][e]
    <3>1. PICK y, w : y = x /\ w = d1
      BY Zenon
    <3>2. y \in Blocks /\ w \in DiskData
      BY <2>14, <2>19, <3>1, Zenon
    <3> HIDE DEF x, d1
    <3> QED
      BY <2>3, <2>18, <3>1, <3>2 DEF DiskData
  <2>21. Bmapped(d, UsedBlocks(free), addrs, bn, new, d2, UsedBlocks(free2), as2)
    <3> HIDE DEF x, ind1, d1, d2, as2, new, free1, free2
    <3>1. \A q \in Path(bn) : IF RefIn(d, addrs, q) # 0 THEN new[q] = RefIn(d, addrs, q)
                                                       ELSE new[q] \notin UsedBlocks(free)
      <4>1. IF RefIn(d, addrs, Place(bn)) # 0 THEN new[Place(bn)] = RefIn(d, addrs, Place(bn))
                                              ELSE new[Place(bn)] \notin UsedBlocks(free)
        <5> HIDE DEF x0
        <5> QED
          BY <2>12, <2>14, <2>15, Zenon
      <4>2. NDIRECT \in Path(bn) =>
               IF RefIn(d, addrs, NDIRECT) # 0 THEN new[NDIRECT] = RefIn(d, addrs, NDIRECT)
                                               ELSE new[NDIRECT] \notin UsedBlocks(free)
        <5> HIDE DEF x0
        <5> QED
          BY <2>7, <2>9, <2>14, <2>15, Zenon
      <4> QED
        BY <2>7, <4>1, <4>2, Zenon
    <3>2. \A q, r \in Path(bn) : new[q] = new[r] => q = r
      BY <2>7, <2>14, <2>15, Zenon
    <3>3. UsedBlocks(free) \subseteq Blocks
      <4>1. free <= nmeta + nblocks
        BY <2>11, Constants
      <4> QED
        BY <2>11, <4>1, Constants DEF UsedBlocks, Blocks
    <3>4. \A b \in UsedBlocks(free) :
             b # new[Place(bn)] /\ (NDIRECT \in Path(bn) => b # new[NDIRECT]) => d2[b] = d[b]
      BY <2>7, <2>15, <2>19, <2>20, <3>3, Zenon
    <3>5. NDIRECT \in Path(bn) =>
             \A e \in Offs : d2[new[NDIRECT]][e] =
               IF e = bn - NDIRECT THEN new[Place(bn)]
               ELSE IF addrs[NDIRECT] = 0 THEN 0 ELSE d[new[NDIRECT]][e]
      <4> SUFFICES ASSUME NDIRECT \in Path(bn), NEW e \in Offs
                   PROVE  d2[new[NDIRECT]][e] =
                             IF e = bn - NDIRECT THEN new[Place(bn)]
                             ELSE IF addrs[NDIRECT] = 0 THEN 0 ELSE d[new[NDIRECT]][e]
        BY Zenon
      <4>1. ~ isdirect /\ ind1 \in Blocks /\ ind1 # x /\ new[NDIRECT] = ind1 /\ new[Place(bn)] = x
        BY <2>7, <2>14, <2>15, Zenon
      <4>2. d2[ind1][e] = IF e = bn - NDIRECT THEN x ELSE d[ind1][e]
        BY <2>19, <2>20, <4>1, ZenonT(40)
      <4>3. addrs[NDIRECT] = 0 => d[ind1][e] = 0
        <5>1. addrs[NDIRECT] = 0 => ind1 = free
          BY <2>14, <4>1, Zenon
        <5>2. free >= free
          BY <2>11
        <5>3. addrs[NDIRECT] = 0 => d[ind1] = Zeroes
          BY <2>8, <4>1, <5>1, <5>2, Zenon
        <5> QED
          BY <5>3, Zenon DEF Zeroes
      <4> QED
        BY <4>1, <4>2, <4>3, Zenon
    <3> QED
      BY <2>15, <2>16, <2>17, <2>20, <3>1, <3>2, <3>4, <3>5, Zenon DEF Bmapped
  <2>22. free2 = nmeta + n2 + (IF n2 > NDIRECT THEN 1 ELSE 0) /\ free2 >= free
    <3>1. free2 = IF bn = n THEN free1 + 1 ELSE free1
      BY <2>13, Zenon
    <3> HIDE DEF free2, free1
    <3> QED
      BY <2>11, <3>1
  <2>23. \A e \in Offs : e # c => d2[x][e] = IF x0 # 0 THEN d[x][e] ELSE 0
    <3> SUFFICES ASSUME NEW e \in Offs, e # c
                 PROVE  d2[x][e] = IF x0 # 0 THEN d[x][e] ELSE 0
      BY Zenon
    <3>1. d1[x] = d[x]
      BY <2>14, <2>19, Zenon
    <3>2. d2[x][e] = d[x][e]
      <4> HIDE DEF x, d1, d2
      <4> QED
        BY <2>20, <3>1, Zenon
    <3>3. x0 = 0 => d[x][e] = 0
      <4>1. x0 = 0 => x >= free
        BY <2>11, <2>14
      <4>2. x0 = 0 => d[x] = Zeroes
        BY <2>8, <2>14, <4>1, Zenon
      <4> QED
        BY <4>2, Zenon DEF Zeroes
    <3> QED
      BY <3>2, <3>3, Zenon
  <2>24. \A b \in Blocks : b >= free2 => d2[b] = Zeroes
    <3> SUFFICES ASSUME NEW b \in Blocks, b >= free2
                 PROVE  d2[b] = Zeroes
      BY Zenon
    <3>1. b >= free /\ b \notin UsedBlocks(free2)
      <4>1. b \in Nat /\ free2 \in Nat
        BY <2>5, <2>22, Constants DEF Blocks
      <4> HIDE DEF free2
      <4> QED
        BY <2>11, <2>22, <4>1, Constants DEF UsedBlocks
    <3>2. \A q \in Path(bn) : b # new[q]
      <4> HIDE DEF free2, new
      <4> QED
        BY <2>16, <3>1, Zenon
    <3>3. b # x /\ (isdirect \/ b # ind1)
      <4> HIDE DEF x, ind1, new
      <4> QED
        BY <2>7, <2>15, <3>2, Zenon
    <3> HIDE DEF d1, d2, x, ind1
    <3> QED
      BY <2>8, <2>19, <2>20, <3>1, <3>3, Zenon
  <2> HIDE DEF d2, as2, free2, new, x, x0
  <2>25. /\ Bmapped(im.data, UsedBlocks(im.free), im.addrs, bn, new,
                    im2.data, UsedBlocks(im2.free), im2.addrs)
         /\ im2.free = nmeta + NBlocks(k + 1) + (IF NBlocks(k + 1) > NDIRECT THEN 1 ELSE 0)
         /\ im2.free >= im.free
    BY <2>1, <2>4, <2>6, <2>21, <2>22, Zenon
  <2>26. im2.data[new[Place(bn)]][c] = Byte(0, k)
    BY <2>3, <2>6, <2>15, <2>20, Zenon
  <2>27. \A e \in Offs : e # c => im2.data[new[Place(bn)]][e] =
            IF RefIn(im.data, im.addrs, Place(bn)) # 0 THEN im.data[new[Place(bn)]][e] ELSE 0
    BY <2>1, <2>6, <2>12, <2>15, <2>23, Zenon
  <2>28. \A b \in Blocks : b >= im2.free => im2.data[b] = Zeroes
    BY <2>6, <2>24, Zenon
  <2>31. \E z : Appends(im, im2, k, bn, c, z)
    BY <2>6, <2>25, <2>26, <2>27, <2>28, Zenon DEF Appends
  <2> QED
    BY <2>31, Zenon
<1> PICK bn, c, new : Appends(im, im2, k, bn, c, new)
  BY <1>1, Zenon
\* iappend keeps the invariant of the image.
<1>2. Image(im2.data, im2.addrs, im2.free, k + 1)
  <2>1. PICK d, addrs, free, d2, addrs2, free2 :
           /\ d = im.data /\ addrs = im.addrs /\ free = im.free
           /\ d2 = im2.data /\ addrs2 = im2.addrs /\ free2 = im2.free
    BY Zenon
  <2>2. PICK n, n2 : n = NBlocks(k) /\ n2 = NBlocks(k + 1)
    BY Zenon
  <2>3. /\ bn \in Nat /\ c \in Offs /\ k = bn * BSIZE + c /\ bn \in 0..(MAXFILE - 1)
        /\ n \in Nat /\ n2 \in Nat /\ bn <= n /\ n2 = (IF bn < n THEN n ELSE bn + 1)
        /\ bn = n => c = 0
        /\ n2 <= nblocks - 1
    <3>1. bn = k \div BSIZE /\ c = k % BSIZE
      BY Zenon DEF Appends
    <3> QED
      BY <2>2, <3>1, AppendNumbers
  <2>30. /\ bn \in Nat /\ c \in Offs /\ bn \in 0..(MAXFILE - 1)
         /\ n \in Nat /\ n2 \in Nat /\ bn <= n /\ n2 = (IF bn < n THEN n ELSE bn + 1)
         /\ bn = n => c = 0
         /\ n2 <= nblocks - 1
    BY <2>3, Zenon
  <2>4. Bmapped(d, UsedBlocks(free), addrs, bn, new, d2, UsedBlocks(free2), addrs2)
    BY <2>1, Zenon DEF Appends
  <2>5. Image(d, addrs, free, k)
    BY <2>1, Zenon
  <2>6. /\ d \in DiskData /\ addrs \in Addrs
        /\ \A q \in 0..MAXFILE : /\ RefIn(d, addrs, q) # 0 <=> Needs(n, q)
                                 /\ RefIn(d, addrs, q) \in UsedBlocks(free) \cup {0}
        /\ \A q, r \in 0..MAXFILE :
              RefIn(d, addrs, q) = RefIn(d, addrs, r) /\ RefIn(d, addrs, q) # 0 => q = r
        /\ \A b \in UsedBlocks(free) : \E q \in 0..MAXFILE : RefIn(d, addrs, q) = b
        /\ \A b \in 0..(MAXFILE - 1), e \in Offs : b < n =>
              d[RefIn(d, addrs, Place(b))][e] = IF b * BSIZE + e < k THEN Byte(0, b * BSIZE + e) ELSE 0
        /\ free = nmeta + n + (IF n > NDIRECT THEN 1 ELSE 0)
    BY <2>2, <2>5, Zenon DEF Image
  <2>7. UsedBlocks(free) \in SUBSET Blocks /\ 0 \notin UsedBlocks(free) /\ 0 \notin UsedBlocks(free2)
    <3>1. free2 = nmeta + n2 + (IF n2 > NDIRECT THEN 1 ELSE 0) /\ free2 >= free
      BY <2>1, <2>2, Zenon DEF Appends
    <3>2. free \in Nat /\ free2 \in Nat /\ free2 <= nmeta + nblocks
      <4>1. free = nmeta + n + (IF n > NDIRECT THEN 1 ELSE 0)
        BY <2>6, Zenon
      <4> QED
        BY <2>30, <3>1, <4>1, Constants
    <3> QED
      BY <3>1, <3>2, Constants DEF UsedBlocks, Blocks
  <2>8. \A q \in 0..MAXFILE :
           RefIn(d2, addrs2, q) = IF q \in Path(bn) THEN new[q] ELSE RefIn(d, addrs, q)
    <3>1. /\ \A q \in 0..MAXFILE : RefIn(d, addrs, q) \in UsedBlocks(free) \cup {0}
          /\ \A q, r \in 0..MAXFILE :
                RefIn(d, addrs, q) = RefIn(d, addrs, r) /\ RefIn(d, addrs, q) # 0 => q = r
      BY <2>6, Zenon
    <3>2. PICK u, u2 : u = UsedBlocks(free) /\ u2 = UsedBlocks(free2)
      BY Zenon
    <3>3. /\ Bmapped(d, u, addrs, bn, new, d2, u2, addrs2) /\ bn \in 0..(MAXFILE - 1)
          /\ d \in DiskData /\ addrs \in Addrs /\ u \in SUBSET Blocks
      BY <2>30, <2>4, <2>6, <2>7, <3>2, Zenon
    <3>4. /\ \A q \in 0..MAXFILE : RefIn(d, addrs, q) \in u \cup {0}
          /\ \A q, r \in 0..MAXFILE :
                RefIn(d, addrs, q) = RefIn(d, addrs, r) /\ RefIn(d, addrs, q) # 0 => q = r
      BY <3>1, <3>2, Zenon
    <3> QED
      BY <3>3, <3>4, RefsAfter
  <2>9. /\ new \in [Path(bn) -> Blocks]
        /\ \A q \in Path(bn) : IF RefIn(d, addrs, q) # 0 THEN new[q] = RefIn(d, addrs, q)
                                                         ELSE new[q] \notin UsedBlocks(free)
        /\ \A q, r \in Path(bn) : new[q] = new[r] => q = r
        /\ UsedBlocks(free2) = UsedBlocks(free) \cup {new[q] : q \in Path(bn)}
        /\ d2 \in DiskData
        /\ addrs2 = [q \in 0..NDIRECT |-> IF q \in Path(bn) THEN new[q] ELSE addrs[q]]
        /\ \A b \in UsedBlocks(free) :
              b # new[Place(bn)] /\ (NDIRECT \in Path(bn) => b # new[NDIRECT]) => d2[b] = d[b]
    BY <2>4, Zenon DEF Bmapped
  <2>10. /\ Place(bn) \in 0..MAXFILE /\ Place(bn) \in Path(bn) /\ Path(bn) \subseteq 0..MAXFILE
         /\ \A q \in Path(bn) : q # Place(bn) => q = NDIRECT
         /\ \A b \in 0..(MAXFILE - 1) : Place(b) \in 0..MAXFILE /\ Place(b) # NDIRECT /\ (Place(b) = Place(bn) => b = bn)
    BY <2>3, Places, Zenon
  <2>11. addrs2 \in Addrs
    <3>1. \A q \in 0..NDIRECT : (IF q \in Path(bn) THEN new[q] ELSE addrs[q]) \in Blocks \cup {0}
      BY <2>6, <2>9, Zenon DEF Addrs
    <3> QED
      BY <2>9, <3>1, Zenon DEF Addrs
  <2>12. \A q \in 0..MAXFILE : /\ RefIn(d2, addrs2, q) # 0 <=> Needs(n2, q)
                               /\ RefIn(d2, addrs2, q) \in UsedBlocks(free2) \cup {0}
    <3> SUFFICES ASSUME NEW q \in 0..MAXFILE
                 PROVE  /\ RefIn(d2, addrs2, q) # 0 <=> Needs(n2, q)
                        /\ RefIn(d2, addrs2, q) \in UsedBlocks(free2) \cup {0}
      BY Zenon
    <3>1. /\ bn < n /\ q \in Path(bn) => Needs(n, q)
          /\ bn = n => (Needs(n + 1, q) <=> Needs(n, q) \/ q \in Path(bn))
      BY <2>3, PathNeeded, Zenon
    <3>2. (bn < n /\ n2 = n) \/ (bn = n /\ n2 = n + 1)
      BY <2>30
    <3>3. Needs(n2, q) <=> Needs(n, q) \/ q \in Path(bn)
      BY <3>1, <3>2, Zenon
    <3>4. q \in Path(bn) => new[q] # 0 /\ new[q] \in UsedBlocks(free2)
      BY <2>7, <2>9, Zenon
    <3>5. RefIn(d, addrs, q) \in UsedBlocks(free2) \cup {0}
      BY <2>6, <2>9, Zenon
    <3> QED
      BY <2>6, <2>8, <3>3, <3>4, <3>5, Zenon
  <2>13. \A q, r \in 0..MAXFILE :
            RefIn(d2, addrs2, q) = RefIn(d2, addrs2, r) /\ RefIn(d2, addrs2, q) # 0 => q = r
    <3>1. \A q \in Path(bn), r \in 0..MAXFILE :
             r \notin Path(bn) /\ RefIn(d, addrs, r) # 0 => new[q] # RefIn(d, addrs, r)
      <4> SUFFICES ASSUME NEW q \in Path(bn), NEW r \in 0..MAXFILE, r \notin Path(bn), RefIn(d, addrs, r) # 0
                   PROVE  new[q] # RefIn(d, addrs, r)
        BY Zenon
      <4>1. q \in 0..MAXFILE /\ q # r
        BY <2>10, Zenon
      <4>2. CASE RefIn(d, addrs, q) # 0
        BY <2>6, <2>9, <4>1, <4>2, Zenon
      <4>3. CASE RefIn(d, addrs, q) = 0
        <5>1. RefIn(d, addrs, r) \in UsedBlocks(free)
          BY <2>6, Zenon
        <5> QED
          BY <2>9, <4>3, <5>1, Zenon
      <4> QED
        BY <4>2, <4>3, Zenon
    <3> SUFFICES ASSUME NEW q \in 0..MAXFILE, NEW r \in 0..MAXFILE,
                        RefIn(d2, addrs2, q) = RefIn(d2, addrs2, r), RefIn(d2, addrs2, q) # 0
                 PROVE  q = r
      BY Zenon
    <3>2. CASE q \in Path(bn) /\ r \in Path(bn)
      BY <2>8, <2>9, <3>2, ZenonT(40)
    <3>3. CASE q \in Path(bn) /\ r \notin Path(bn)
      BY <2>8, <3>1, <3>3, Zenon
    <3>4. CASE q \notin Path(bn) /\ r \in Path(bn)
      BY <2>8, <3>1, <3>4, Zenon
    <3>5. CASE q \notin Path(bn) /\ r \notin Path(bn)
      BY <2>6, <2>8, <3>5, Zenon
    <3> QED
      BY <3>2, <3>3, <3>4, <3>5, Zenon
  <2>14. \A b \in UsedBlocks(free2) : \E q \in 0..MAXFILE : RefIn(d2, addrs2, q) = b
    <3> SUFFICES ASSUME NEW b \in UsedBlocks(free2)
                 PROVE  \E q \in 0..MAXFILE : RefIn(d2, addrs2, q) = b
      BY Zenon
    <3>1. CASE b \in {new[q] : q \in Path(bn)}
      BY <2>8, <2>10, <3>1, Zenon
    <3>2. CASE b \in UsedBlocks(free)
      <4>1. PICK q \in 0..MAXFILE : RefIn(d, addrs, q) = b
        BY <2>6, <3>2, Zenon
      <4>2. RefIn(d, addrs, q) # 0
        BY <2>7, <3>2, <4>1, Zenon
      <4>3. RefIn(d2, addrs2, q) = b
        BY <2>8, <2>9, <4>1, <4>2, Zenon
      <4> QED
        BY <4>3, Zenon
    <3> QED
      BY <2>9, <3>1, <3>2, Zenon
  <2>15. \A b \in 0..(MAXFILE - 1), e \in Offs : b < n2 =>
            d2[RefIn(d2, addrs2, Place(b))][e] =
               IF b * BSIZE + e < k + 1 THEN Byte(0, b * BSIZE + e) ELSE 0
    <3> SUFFICES ASSUME NEW b \in 0..(MAXFILE - 1), NEW e \in Offs, b < n2
                 PROVE  d2[RefIn(d2, addrs2, Place(b))][e] =
                           IF b * BSIZE + e < k + 1 THEN Byte(0, b * BSIZE + e) ELSE 0
      BY Zenon
    <3>0. b \in Nat /\ e \in Nat /\ c \in Nat /\ e < BSIZE /\ c < BSIZE
      BY <2>30, Constants DEF Offs
    <3>1. CASE b # bn
      <4>1. b < n
        BY <2>30, <3>0, <3>1
      <4>2. PICK r : r = RefIn(d, addrs, Place(b))
        BY Zenon
      <4>3. Place(b) \in 0..MAXFILE /\ Place(b) \notin Path(bn)
        BY <2>10, <3>1, Zenon
      <4>4. r # 0
        <5>1. Needs(n, Place(b))
          BY <3>0, <4>1, <2>30, Constants DEF Needs, Place
        <5> QED
          BY <2>6, <4>2, <4>3, <5>1, Zenon
      <4>5. r \in UsedBlocks(free) /\ RefIn(d2, addrs2, Place(b)) = r
        BY <2>6, <2>8, <4>2, <4>3, <4>4, Zenon
      <4>6. \A q \in Path(bn) : r # new[q]
        <5> SUFFICES ASSUME NEW q \in Path(bn) PROVE r # new[q]
          BY Zenon
        <5>1. q \in 0..MAXFILE /\ q # Place(b)
          BY <2>10, <4>3, Zenon
        <5>2. CASE RefIn(d, addrs, q) # 0
          BY <2>6, <2>9, <4>2, <4>3, <5>1, <5>2, Zenon
        <5>3. CASE RefIn(d, addrs, q) = 0
          BY <2>9, <4>5, <5>3, Zenon
        <5> QED
          BY <5>2, <5>3, Zenon
      <4>7. d2[r] = d[r]
        BY <2>9, <2>10, <4>5, <4>6, Zenon
      <4>8. b * BSIZE + e < k + 1 <=> b * BSIZE + e < k
        <5>1. PICK o : o = b * BSIZE + e /\ o \in Nat
          BY <3>0, Constants
        <5>2. o # k
          <6>1. SUFFICES ASSUME o = k PROVE FALSE
            BY Zenon
          <6>2. bn * BSIZE + c <= b * BSIZE + e /\ b * BSIZE + e < bn * BSIZE + c + 1 /\ c + 1 <= BSIZE /\ 1 \in Nat
            BY <2>3, <3>0, <5>1, <6>1, Constants
          <6> QED
            BY <2>3, <3>0, <3>1, <6>2, SameBlock, Zenon
        <5> QED
          BY <5>1, <5>2
      <4>9. d[r][e] = IF b * BSIZE + e < k THEN Byte(0, b * BSIZE + e) ELSE 0
        BY <2>6, <4>1, <4>2, Zenon
      <4> QED
        BY <4>5, <4>7, <4>8, <4>9, Zenon
    <3>2. CASE b = bn
      <4>1. RefIn(d2, addrs2, Place(b)) = new[Place(bn)]
        BY <2>8, <2>10, <3>2, Zenon
      <4>2. CASE e = c
        <5>1. k < k + 1
          OBVIOUS
        <5>2. b * BSIZE + e = k
          BY <2>3, <3>2, <4>2, Zenon
        <5>3. d2[new[Place(bn)]][c] = Byte(0, k)
          BY <2>1, Zenon DEF Appends
        <5> QED
          BY <4>1, <4>2, <5>1, <5>2, <5>3, Zenon
      <4>3. CASE e # c
        <5>1. d2[new[Place(bn)]][e] = IF RefIn(d, addrs, Place(bn)) # 0 THEN d[new[Place(bn)]][e] ELSE 0
          BY <2>1, <4>3, Zenon DEF Appends
        <5>2. b * BSIZE + e < k + 1 <=> b * BSIZE + e < k
          <6>1. PICK o : o = bn * BSIZE /\ o \in Nat
            BY <2>3, Constants
          <6> QED
            BY <2>3, <3>0, <3>2, <4>3, <6>1
        <5>3. CASE RefIn(d, addrs, Place(bn)) # 0
          <6>1. new[Place(bn)] = RefIn(d, addrs, Place(bn))
            BY <2>9, <2>10, <5>3, Zenon
          <6>2. b < n
            <7>1. Needs(n, Place(bn))
              BY <2>6, <2>10, <5>3, Zenon
            <7> QED
              BY <2>30, <3>2, <7>1, Constants DEF Needs, Place
          <6>3. d[RefIn(d, addrs, Place(b))][e] = IF b * BSIZE + e < k THEN Byte(0, b * BSIZE + e) ELSE 0
            BY <2>6, <6>2, Zenon
          <6> QED
            BY <3>2, <4>1, <5>1, <5>2, <5>3, <6>1, <6>3, Zenon
        <5>4. CASE RefIn(d, addrs, Place(bn)) = 0
          <6>1. bn = n
            <7>1. ~ Needs(n, Place(bn))
              BY <2>6, <2>10, <5>4, Zenon
            <7> QED
              BY <2>30, <3>2, <7>1, Constants DEF Needs, Place
          <6>2. ~ (b * BSIZE + e < k)
            <7>1. PICK o : o = bn * BSIZE /\ o \in Nat
              BY <2>3, Constants
            <7> QED
              BY <2>3, <3>0, <3>2, <6>1, <7>1
          <6> QED
            BY <4>1, <5>1, <5>2, <5>4, <6>2, Zenon
        <5> QED
          BY <5>3, <5>4, Zenon
      <4> QED
        BY <4>2, <4>3, Zenon
    <3> QED
      BY <3>1, <3>2, Zenon
  <2>16. Image(d2, addrs2, free2, k + 1)
    <3>1. free2 = nmeta + n2 + (IF n2 > NDIRECT THEN 1 ELSE 0)
      BY <2>1, <2>2, Zenon DEF Appends
    <3>2. \A b \in Blocks : b >= free2 => d2[b] = Zeroes
      BY <2>1, Zenon DEF Appends
    <3> QED
      BY <2>2, <2>9, <2>11, <2>12, <2>13, <2>14, <2>15, <3>1, <3>2, ZenonT(40) DEF Image
  <2> QED
    BY <2>1, <2>16, Zenon
<1> QED
  BY <1>2, Zenon DEF Appends

\* g has the images of up to n bytes.
Images(g, n) == g = [k \in 0..n |-> IF k = 0 THEN Empty ELSE Appended(g[k - 1])]

\* Every image is as described, by induction over the number of bytes.
LEMMA ImagesAre ==
    \A k \in 0..MaxImage :
        iappend[k].size = k /\ Image(iappend[k].data, iappend[k].addrs, iappend[k].free, k)
\* The recursion of iappend has a solution, by induction over the number of bytes.
<1>1. \A n \in Nat : \E g : Images(g, n)
  <2> DEFINE T == {n \in Nat : ~ \E g : Images(g, n)}
  <2> SUFFICES ASSUME T # {}
               PROVE  FALSE
    BY Zenon
  <2>1. PICK n \in T : \A m \in T : n <= m
    BY Least, Zenon
  <2>2. n \in Nat /\ ~ \E g : Images(g, n)
    BY Zenon
  <2> HIDE DEF T
  <2>3. CASE n = 0
    <3> DEFINE g == [k \in 0..0 |-> Empty]
    <3>1. \A k \in 0..0 : k = 0
      OBVIOUS
    <3>2. Images(g, 0)
      BY <3>1, Zenon DEF Images
    <3> QED
      BY <2>2, <2>3, <3>2, Zenon
  <2>4. CASE n # 0
    <3>1. n - 1 \in Nat /\ ~ (n <= n - 1)
      BY <2>2, <2>4
    <3>2. PICK f : Images(f, n - 1)
      BY <2>1, <3>1, Zenon DEF T
    <3> DEFINE g == [k \in 0..n |-> IF k = n THEN Appended(f[n - 1]) ELSE f[k]]
    <3>3. \A k \in 0..(n - 1) : g[k] = f[k]
      <4>1. \A k \in 0..(n - 1) : k \in 0..n /\ k # n
        BY <2>2
      <4> QED
        BY <4>1, Zenon
    <3>4. ASSUME NEW k \in 0..n
          PROVE  g[k] = IF k = 0 THEN Empty ELSE Appended(g[k - 1])
      <4>1. CASE k = n
        <5>1. k # 0 /\ k - 1 = n - 1 /\ n - 1 \in 0..(n - 1)
          BY <2>2, <2>4, <3>1, <4>1
        <5>2. g[k] = Appended(f[n - 1])
          BY <4>1, Zenon
        <5> HIDE DEF g
        <5> QED
          BY <3>3, <5>1, <5>2, Zenon
      <4>2. CASE k # n
        <5>1. k \in 0..(n - 1) /\ (k # 0 => k - 1 \in 0..(n - 1))
          BY <2>2, <4>2
        <5>2. f[k] = IF k = 0 THEN Empty ELSE Appended(f[k - 1])
          BY <3>2, <5>1, Zenon DEF Images
        <5> HIDE DEF g
        <5> QED
          BY <3>3, <5>1, <5>2, Zenon
      <4> QED
        BY <4>1, <4>2, Zenon
    <3>5. Images(g, n)
      <4>1. g = [k \in 0..n |-> g[k]]
        BY Zenon
      <4> HIDE DEF g
      <4> QED
        BY <3>4, <4>1, Zenon DEF Images
    <3> QED
      BY <2>2, <3>5, Zenon
  <2> QED
    BY <2>3, <2>4, Zenon
\* So iappend satisfies its definition.
<1>2. Images(iappend, MaxImage)
  <2>1. MaxImage \in Nat
    BY FileDataAssumption, Constants
  <2>2. \E g : Images(g, MaxImage)
    BY <2>1, <1>1, Zenon
  <2> QED
    BY <2>2, Zenon DEF iappend, Images
\* The image without a file.
<1>3. Empty.size = 0 /\ Image(Empty.data, Empty.addrs, Empty.free, 0)
  <2>1. PICK d, addrs : d = [b \in Blocks |-> Zeroes] /\ addrs = NoFile.addrs
    BY Zenon
  <2>2. Empty.size = 0 /\ Empty.data = d /\ Empty.addrs = addrs /\ Empty.free = nmeta
    BY <2>1 DEF Empty
  <2>3. NBlocks(0) = 0 /\ \A q \in 0..MAXFILE : RefIn(d, addrs, q) = 0
    BY <2>1, NoFileIs, Zenon
  <2>4. d \in DiskData /\ addrs \in Addrs
    <3>1. d \in DiskData
      BY <2>1, Zenon DEF DiskData, Zeroes
    <3>2. NoFile.addrs \in Addrs
      BY DEF NoFile, Addrs
    <3> QED
      BY <2>1, <3>1, <3>2, Zenon
  <2>5. /\ nmeta = nmeta + 0 + (IF 0 > NDIRECT THEN 1 ELSE 0) /\ UsedBlocks(nmeta) = {}
        /\ \A q \in 0..MAXFILE : ~ Needs(0, q)
        /\ \A b \in 0..(MAXFILE - 1) : ~ (b < 0)
    BY Constants DEF UsedBlocks, Needs
  <2>6. Image(d, addrs, nmeta, 0)
    BY <2>1, <2>3, <2>4, <2>5, Zenon DEF Image
  <2> QED
    BY <2>2, <2>6, Zenon
<1> DEFINE Good(k) == iappend[k].size = k /\ Image(iappend[k].data, iappend[k].addrs, iappend[k].free, k)
           T == {k \in 0..MaxImage : ~ Good(k)}
<1> SUFFICES ASSUME T # {}
             PROVE  FALSE
  BY Zenon
<1>4. MaxImage \in Nat
  BY FileDataAssumption, Constants
<1>5. PICK k \in T : \A m \in T : k <= m
  <2>1. T \in SUBSET Nat
    BY <1>4
  <2> QED
    BY <2>1, Least, Zenon
<1>6. k \in 0..MaxImage /\ ~ Good(k)
  BY Zenon
<1>7. iappend[k] = IF k = 0 THEN Empty ELSE Appended(iappend[k - 1])
  BY <1>6, <1>2, Zenon DEF Images
<1>8. CASE k = 0
  BY <1>6, <1>7, <1>8, <1>3, Zenon
<1>9. CASE k # 0
  <2>1. PICK l : l = k - 1
    BY Zenon
  <2>2. l \in 0..MaxImage /\ ~ (k <= l) /\ l \in Nat /\ l < MaxImage /\ l + 1 = k
    BY <1>4, <1>6, <1>9, <2>1
  <2>3. Good(l)
    BY <1>5, <2>2, Zenon
  <2>4. PICK im, im2 : im = iappend[l] /\ im2 = iappend[k]
    BY Zenon
  <2>5. im2 = Appended(im)
    BY <1>7, <1>9, <2>1, <2>4, Zenon
  <2>6. im.size = l /\ Image(im.data, im.addrs, im.free, l)
    BY <2>3, <2>4, Zenon
  <2>7. im2.size = l + 1 /\ Image(im2.data, im2.addrs, im2.free, l + 1)
    BY <2>2, <2>5, <2>6, AppendInv, Zenon
  <2>8. Good(k)
    BY <2>2, <2>4, <2>7, Zenon
  <2> QED
    BY <1>6, <2>8, Zenon
<1> QED
  BY <1>8, <1>9, Zenon

\* The size of a file of k bytes, rounded up or not, needs the same blocks.
LEMMA SizesAre ==
    ASSUME NEW k \in 0..MaxImage, NEW size \in Sizes(k)
    PROVE  /\ k \in Nat /\ size \in Nat /\ size \in 0..(MAXFILE * BSIZE) /\ k <= size
           /\ NBlocks(size) = NBlocks(k)
<1>1. PICK top : top = MAXFILE * BSIZE /\ top \in Nat
  BY Constants
<1>2. MaxImage \in 0..top
  BY <1>1, FileDataAssumption, Zenon
<1>3. k \in Nat /\ k <= top
  BY <1>1, <1>2
<1>4. CASE size = k
  BY <1>1, <1>3, <1>4
<1>5. CASE size # k
  <2>1. PICK b, c : b = k \div BSIZE /\ c = k % BSIZE
    BY Zenon
  <2>2. c # 0 /\ size = (b + 1) * BSIZE
    BY <1>5, <2>1, Zenon DEF Sizes
  <2>3. b \in Nat /\ c \in Offs /\ k = b * BSIZE + c
    BY <1>3, <2>1, DivMod, Zenon
  <2>4. c \in Nat /\ c > 0 /\ c < BSIZE
    BY <2>2, <2>3, Constants DEF Offs
  <2>5. /\ size \in Nat /\ b + 1 \in Nat /\ b * BSIZE < k /\ k < size /\ b * BSIZE < size
        /\ ~ ((b + 1) * BSIZE < k) /\ ~ ((b + 1) * BSIZE < size)
    <3>1. PICK o : o = b * BSIZE /\ o \in Nat
      BY <2>3, Constants
    <3>2. (b + 1) * BSIZE = o + BSIZE
      BY <2>3, <3>1, Constants
    <3> QED
      BY <2>2, <2>3, <2>4, <3>1, <3>2, Constants
  <2>6. size <= top
    <3>1. b * BSIZE + 0 < MAXFILE * BSIZE
      BY <1>1, <1>3, <2>3, <2>4, <2>5, Constants
    <3>2. b < MAXFILE
      BY <2>3, <3>1, BlockBelow, Constants
    <3> QED
      BY <1>1, <2>2, <2>3, <3>2, Constants
  <2>7. NBlocks(size) = NBlocks(k)
    <3>1. /\ NBlocks(size) \in Nat /\ NBlocks(k) \in Nat
          /\ b < NBlocks(k) /\ ~ (b + 1 < NBlocks(k)) /\ b < NBlocks(size) /\ ~ (b + 1 < NBlocks(size))
      BY <1>3, <2>3, <2>5, NBlocksIs, Zenon
    <3> QED
      BY <2>3, <3>1
  <2> QED
    BY <1>1, <1>3, <2>5, <2>6, <2>7
<1> QED
  BY <1>4, <1>5, Zenon
=============================================================================

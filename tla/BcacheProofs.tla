---------------------------- MODULE BcacheProofs ----------------------------
(***************************************************************************)
(* Proofs about the buffer cache, for any number of processes, buffers,    *)
(* blocks and values.                                                      *)
(***************************************************************************)
EXTENDS Bcache, FiniteSetTheorems, TLAPS

-----------------------------------------------------------------------------
(***************************************************************************)
(* The inductive invariant                                                 *)
(***************************************************************************)
Locked == {"rw", "sleep", "woken", "held"}

\* A process in the cache has a buffer with a block, and the sleep lock of the buffer says
\* which process is between bread and brelse.
Owners ==
    /\ \A u \in Uses : pc[u] = "idle" <=> buf[u] = None
    /\ \A u \in Uses : pc[u] # "idle" => blockno[buf[u]] # None
    /\ \A u \in Uses : pc[u] \in Locked => lock[buf[u]] = u
    /\ \A b \in Bufs : lock[b] # None => buf[lock[b]] = b /\ pc[lock[b]] \in Locked

\* Only a valid buffer is changed, and iderw is called for what is not valid or is dirty.
Flags ==
    /\ \A b \in Bufs : dirty[b] => valid[b]
    /\ \A b \in Bufs : valid[b] => blockno[b] # None
    /\ \A u \in Uses : pc[u] = "held" => valid[buf[u]]
    /\ \A u \in Uses : pc[u] = "rw" => Needed(buf[u])

Waits(u) == pc[u] = "sleep" \/ (pc[u] = "woken" /\ Needed(buf[u]))

\* idequeue has each buffer that a process in iderw waits for, once, and no other; the disk
\* has been given the first.
Queued ==
    /\ \A i, j \in DOMAIN idequeue : idequeue[i] = idequeue[j] => i = j
    /\ \A i \in DOMAIN idequeue :
        /\ Needed(idequeue[i])
        /\ lock[idequeue[i]] # None
        /\ pc[lock[idequeue[i]]] \in {"sleep", "woken"}
    /\ \A u \in Uses : Waits(u) => \E i \in DOMAIN idequeue : idequeue[i] = buf[u]
    /\ command = StartNext(idequeue)

IInv ==
    /\ TypeOK /\ OneBufferPerBlock /\ RefsCounted /\ Coherent
    /\ Owners /\ Flags /\ Queued

-----------------------------------------------------------------------------
(***************************************************************************)
(* Lemmas                                                                  *)
(***************************************************************************)
\* A set of numbers has a least one.
LEMMA Least ==
    ASSUME NEW T \in SUBSET Nat, T # {}
    PROVE  \E x \in T : \A y \in T : x <= y
<1>1. PICK x \in T : \A y \in T : ~ (<<y, x>> \in OpToRel(<, Nat))
  BY WFMin, NatLessThanWellFounded, Zenon
<1>2. \A y \in T : ~ (y < x)
  BY <1>1, Zenon DEF OpToRel
<1> QED
  BY <1>2

\* The second loop of bget finds a buffer that may be recycled if there is one.
LEMMA VictimRecyclable ==
    ASSUME TypeOK, RefsCounted, \E b \in Bufs : Recyclable(b)
    PROVE  Victim \in Bufs /\ Recyclable(Victim)
<1> DEFINE T == {n \in Nat : \E i \in Bufs : n = NBUF - i /\ Recyclable(lru[i])}
           Last(i) == /\ Recyclable(lru[i])
                      /\ \A j \in (i + 1)..NBUF : ~ Recyclable(lru[j])
<1>1. PICK m \in Bufs : Recyclable(lru[m])
  BY Zenon DEF RefsCounted
<1>2. NBUF - m \in T
  BY <1>1, BcacheAssumption DEF Bufs
<1>3. PICK x \in T : \A y \in T : x <= y
  BY <1>2, Least, Zenon
<1>4. PICK i \in Bufs : x = NBUF - i /\ Recyclable(lru[i])
  BY <1>3, Zenon
<1>5. ASSUME NEW j \in (i + 1)..NBUF, Recyclable(lru[j])
      PROVE  FALSE
  <2>1. j \in Bufs /\ NBUF - j \in Nat
    BY <1>5, BcacheAssumption DEF Bufs
  <2>2. NBUF - j \in T
    BY <1>5, <2>1, Zenon
  <2> QED
    BY <1>3, <1>4, <2>1, <2>2, BcacheAssumption DEF Bufs
<1>6. Last(i)
  BY <1>4, <1>5, Zenon
<1>7. (CHOOSE k \in Bufs : Last(k)) \in Bufs /\ Last(CHOOSE k \in Bufs : Last(k))
  <2> HIDE DEF Last
  <2> QED
    BY <1>6, Zenon
<1>8. Victim = lru[CHOOSE k \in Bufs : Last(k)]
  BY Zenon DEF Victim
<1> QED
  BY <1>7, <1>8, Zenon DEF TypeOK

\* A process in the cache has a buffer, and the buffer has a block.
LEMMA HasBuffer ==
    ASSUME TypeOK, Owners, NEW u \in Uses, pc[u] # "idle"
    PROVE  buf[u] \in Bufs /\ blockno[buf[u]] \in Blocks
BY DEF TypeOK, Owners

\* Two uses for each process are finitely many.
LEMMA UsesFinite == IsFiniteSet(Uses) /\ Cardinality(Uses) \in Nat
<1>1. {1, 2} = 1..2 /\ 1 \in Int /\ 2 \in Int
  OBVIOUS
<1>2. IsFiniteSet(1..2)
  BY <1>1, FS_Interval, Zenon
<1>3. IsFiniteSet({1, 2})
  BY <1>1, <1>2, Zenon
<1> QED
  BY <1>3, BcacheAssumption, FS_Product, FS_CardinalityType, Zenon DEF Uses

\* The uses of b: who has it from bget.
Using(b) == {u \in Uses : buf[u] = b}

LEMMA UsingFinite ==
    ASSUME NEW b
    PROVE  /\ IsFiniteSet(Using(b)) /\ Cardinality(Using(b)) \in 0..Cardinality(Uses)
           /\ IsFiniteSet(Using(b)') /\ Cardinality(Using(b)') \in 0..Cardinality(Uses)
<1>1. Using(b) \subseteq Uses /\ Using(b)' \subseteq Uses
  BY Zenon DEF Using
<1> QED
  BY <1>1, UsesFinite, FS_Subset, FS_CardinalityType

\* A buffer with refcnt 0 is nobody's.
LEMMA Unused ==
    ASSUME TypeOK, RefsCounted, Owners, NEW b \in Bufs, refcnt[b] = 0
    PROVE  Using(b) = {} /\ lock[b] = None
<1>1. Using(b) = {}
  BY UsingFinite, FS_EmptySet, Zenon DEF RefsCounted, Using
<1> QED
  BY <1>1 DEF Using, Owners, TypeOK

\* bget and brelse move one process from one set of users to another.
LEMMA UserAdded ==
    ASSUME NEW u \in Uses, NEW b \in Bufs, buf \in [Uses -> Bufs \cup {None}],
           buf[u] = None, buf' = [buf EXCEPT ![u] = b]
    PROVE  /\ Cardinality(Using(b)') = Cardinality(Using(b)) + 1
           /\ \A c \in Bufs \ {b} : Using(c)' = Using(c)
<1>1. Using(b)' = Using(b) \cup {u} /\ u \notin Using(b)
  BY BcacheAssumption DEF Using
<1>2. \A c \in Bufs \ {b} : Using(c)' = Using(c)
  BY BcacheAssumption, Zenon DEF Using
<1> QED
  BY <1>1, <1>2, UsingFinite, FS_AddElement, ZenonT(30)

LEMMA UserRemoved ==
    ASSUME NEW u \in Uses, NEW b \in Bufs, buf \in [Uses -> Bufs \cup {None}],
           buf[u] = b, buf' = [buf EXCEPT ![u] = None]
    PROVE  /\ Cardinality(Using(b)') = Cardinality(Using(b)) - 1
           /\ \A c \in Bufs \ {b} : Using(c)' = Using(c)
<1>1. Using(b)' = Using(b) \ {u} /\ u \in Using(b)
  BY BcacheAssumption, Zenon DEF Using
<1>2. \A c \in Bufs \ {b} : Using(c)' = Using(c)
  BY BcacheAssumption, Zenon DEF Using
<1> QED
  BY <1>1, <1>2, UsingFinite, FS_RemoveElement, Zenon

\* What refcnt counts bounds it.
LEMMA RefcntBound ==
    ASSUME RefsCounted', refcnt' \in [Bufs -> Int]
    PROVE  refcnt' \in [Bufs -> 0..Cardinality(Uses)]
<1>1. \A b \in Bufs : refcnt'[b] = Cardinality(Using(b)')
  BY Zenon DEF RefsCounted, Using
<1> QED
  BY <1>1, UsingFinite, Zenon

\* A buffer whose holder is not in iderw is not in the queue.
LEMMA NotQueued ==
    ASSUME TypeOK, Queued, NEW b \in Bufs,
           lock[b] = None \/ pc[lock[b]] \notin {"sleep", "woken"}
    PROVE  \A i \in DOMAIN idequeue : idequeue[i] # b /\ idequeue[i] \in Bufs
<1> SUFFICES ASSUME NEW i \in DOMAIN idequeue
             PROVE  idequeue[i] # b /\ idequeue[i] \in Bufs
  OBVIOUS
<1>1. idequeue[i] \in Bufs
  BY DEF TypeOK
<1>2. lock[idequeue[i]] # None /\ pc[lock[idequeue[i]]] \in {"sleep", "woken"}
  BY Zenon DEF Queued
<1> QED
  BY <1>1, <1>2, Zenon

\* A buffer in the queue has its process in iderw.
LEMMA QueuedOwner ==
    ASSUME TypeOK, Owners, Queued, NEW i \in DOMAIN idequeue
    PROVE  /\ idequeue[i] \in Bufs /\ Needed(idequeue[i])
           /\ lock[idequeue[i]] \in Uses /\ pc[lock[idequeue[i]]] \in {"sleep", "woken"}
           /\ buf[lock[idequeue[i]]] = idequeue[i]
<1>1. idequeue[i] \in Bufs
  BY DEF TypeOK
<1>2. /\ Needed(idequeue[i]) /\ lock[idequeue[i]] # None
      /\ pc[lock[idequeue[i]]] \in {"sleep", "woken"}
  BY Zenon DEF Queued
<1> QED
  BY <1>1, <1>2 DEF TypeOK, Owners

LEMMA HeadQueued ==
    ASSUME TypeOK, idequeue # <<>>
    PROVE  1 \in DOMAIN idequeue /\ Head(idequeue) = idequeue[1] /\ Head(idequeue) \in Bufs
BY DEF TypeOK

\* The first buffer of the queue is a block's, and needs the disk.
LEMMA HeadInUse ==
    ASSUME TypeOK, Owners, Queued, idequeue # <<>>
    PROVE  /\ Head(idequeue) \in Bufs /\ Needed(Head(idequeue))
           /\ blockno[Head(idequeue)] \in Blocks
<1>0. PICK b : b = Head(idequeue)
  OBVIOUS
<1>1. 1 \in DOMAIN idequeue /\ b = idequeue[1]
  BY <1>0, HeadQueued, Zenon
<1>2. /\ b \in Bufs /\ Needed(b) /\ lock[b] \in Uses /\ buf[lock[b]] = b
      /\ pc[lock[b]] \in {"sleep", "woken"}
  BY <1>1, QueuedOwner, Zenon
<1>3. pc[lock[b]] # "idle"
  BY <1>2
<1>4. blockno[b] \in Blocks
  BY <1>2, <1>3, HasBuffer, Zenon
<1> QED
  BY <1>0, <1>2, <1>4, Zenon

\* The command of the disk stays what it was when the first buffer of the queue does.
LEMMA CommandKept ==
    ASSUME TypeOK, Queued, UNCHANGED <<idequeue, command>>,
           \A i \in DOMAIN idequeue :
                UNCHANGED <<blockno[idequeue[i]], dirty[idequeue[i]], data[idequeue[i]]>>
    PROVE  command' = StartNext(idequeue)'
<1>1. CASE idequeue = <<>>
  BY <1>1, Zenon DEF Queued, StartNext
<1>2. CASE idequeue # <<>>
  BY <1>2, HeadQueued DEF Queued, StartNext, Command
<1> QED
  BY <1>1, <1>2, Zenon

-----------------------------------------------------------------------------
(***************************************************************************)
(* Every step keeps the invariant                                          *)
(***************************************************************************)
LEMMA InitInv == Init => IInv
<1> SUFFICES ASSUME Init
             PROVE  IInv
  OBVIOUS
<1>1. \A b \in Bufs : {u \in Uses : buf[u] = b} = {}
  BY BcacheAssumption, Zenon DEF Init
<1>2. \A b \in Bufs : NBUF + 1 - b \in Bufs /\ lru[NBUF + 1 - b] = b
  BY BcacheAssumption DEF Init, binit, Bufs
<1>3. RefsCounted
  BY <1>1, <1>2, FS_EmptySet, Zenon DEF Init, binit, RefsCounted
<1>4. TypeOK
  <2>1. 0 \in 0..Cardinality(Uses)
    BY UsesFinite
  <2>2. lru \in [Bufs -> Bufs]
    BY BcacheAssumption DEF Init, binit, Bufs
  <2> QED
    BY <2>1, <2>2, BcacheAssumption DEF Init, binit, TypeOK, PCs
<1>5. OneBufferPerBlock /\ Coherent /\ Owners /\ Flags
  BY Zenon DEF Init, binit, OneBufferPerBlock, Coherent, Owners, Flags, Locked
<1>6. Queued
  BY DEF Init, binit, Queued, Waits, StartNext
<1> QED
  BY <1>3, <1>4, <1>5, <1>6, Zenon DEF IInv

\* bget of a block that has a buffer.
LEMMA HitInv ==
    ASSUME IInv, NEW u \in Uses, NEW k \in Blocks, NEW b \in Cached(k),
           Go(u, "idle", "lock"),
           buf' = [buf EXCEPT ![u] = b],
           refcnt' = [refcnt EXCEPT ![b] = @ + 1],
           UNCHANGED <<blockno, valid, dirty, lock, data, lru, ide, driver>>
    PROVE  IInv'
<1> USE DEF IInv
<1>1. b \in Bufs /\ blockno[b] = k /\ k # None
  BY BcacheAssumption, Zenon DEF Cached
<1>2. pc[u] = "idle" /\ buf[u] = None /\ pc' = [pc EXCEPT ![u] = "lock"]
  BY Zenon DEF Go, Owners
<1>3. RefsCounted'
  <2>1. \A c \in Bufs : refcnt[c] = Cardinality(Using(c)) /\ refcnt[c] \in Int
    BY DEF RefsCounted, Using, TypeOK
  <2>2. /\ Cardinality(Using(b)') = Cardinality(Using(b)) + 1
        /\ \A c \in Bufs \ {b} : Using(c)' = Using(c)
    BY <1>1, <1>2, UserAdded, Zenon DEF TypeOK
  <2>3. ASSUME NEW c \in Bufs
        PROVE  refcnt'[c] = Cardinality(Using(c)')
    <3>1. CASE c = b
      BY <3>1, <2>1, <2>2, Zenon DEF TypeOK
    <3>2. CASE c # b
      BY <3>2, <2>1, <2>2, Zenon DEF TypeOK
    <3> QED
      BY <3>1, <3>2, Zenon
  <2> QED
    BY <2>3, Zenon DEF RefsCounted, Using
<1>4. TypeOK'
  <2>1. refcnt' \in [Bufs -> Int]
    BY <1>1 DEF TypeOK
  <2>2. refcnt' \in [Bufs -> 0..Cardinality(Uses)]
    BY <1>3, <2>1, RefcntBound, Zenon
  <2> QED
    BY <1>1, <1>2, <2>2, Zenon DEF TypeOK, PCs, ide
<1>5. OneBufferPerBlock' /\ Coherent'
  BY Zenon DEF OneBufferPerBlock, Coherent, ide
<1>6. Owners'
  BY <1>1, <1>2, BcacheAssumption DEF Owners, TypeOK, Locked
<1>7. Flags'
  BY <1>1, <1>2, Zenon DEF Flags, TypeOK, Needed
<1>8. Queued'
  BY <1>1, <1>2, BcacheAssumption DEF Queued, Waits, StartNext, Command, Needed, TypeOK, ide
<1> QED
  BY <1>3, <1>4, <1>5, <1>6, <1>7, <1>8, Zenon

\* bget of a block that gets the buffer of another.
LEMMA MissInv ==
    ASSUME IInv, NEW u \in Uses, NEW k \in Blocks,
           Cached(k) = {}, \E b \in Bufs : Recyclable(b),
           Go(u, "idle", "lock"),
           buf' = [buf EXCEPT ![u] = Victim],
           blockno' = [blockno EXCEPT ![Victim] = k],
           Reset(Victim),
           refcnt' = [refcnt EXCEPT ![Victim] = 1],
           UNCHANGED <<lock, data, lru, ide, driver>>
    PROVE  IInv'
<1> USE DEF IInv
<1>0. PICK v : v = Victim
  OBVIOUS
<1>1. v \in Bufs /\ Recyclable(v)
  BY <1>0, VictimRecyclable, Zenon
<1>2. pc[u] = "idle" /\ buf[u] = None /\ pc' = [pc EXCEPT ![u] = "lock"]
  BY Zenon DEF Go, Owners
<1>3. refcnt[v] = 0 /\ ~ dirty[v] /\ lock[v] = None /\ \A q \in Uses : buf[q] # v
  BY <1>1, Unused, Zenon DEF Recyclable, Using
<1>4. k # None /\ \A b \in Bufs : blockno[b] # k
  BY BcacheAssumption, Zenon DEF Cached
<1>5. \A i \in DOMAIN idequeue : idequeue[i] # v /\ idequeue[i] \in Bufs
  BY <1>3 DEF Queued, TypeOK
<1>6. /\ buf' = [buf EXCEPT ![u] = v] /\ blockno' = [blockno EXCEPT ![v] = k]
      /\ valid' = [valid EXCEPT ![v] = FALSE] /\ dirty' = [dirty EXCEPT ![v] = FALSE]
      /\ refcnt' = [refcnt EXCEPT ![v] = 1]
  BY <1>0, Zenon DEF Reset
<1>7. RefsCounted'
  <2>1. \A c \in Bufs : refcnt[c] = Cardinality(Using(c)) /\ refcnt[c] \in Int
    BY DEF RefsCounted, Using, TypeOK
  <2>2. /\ Cardinality(Using(v)') = Cardinality(Using(v)) + 1
        /\ \A c \in Bufs \ {v} : Using(c)' = Using(c)
    BY <1>1, <1>2, <1>6, UserAdded, Zenon DEF TypeOK
  <2>3. ASSUME NEW c \in Bufs
        PROVE  refcnt'[c] = Cardinality(Using(c)')
    <3>1. CASE c = v
      BY <3>1, <1>3, <1>6, <2>1, <2>2 DEF TypeOK
    <3>2. CASE c # v
      BY <3>2, <1>6, <2>1, <2>2, Zenon DEF TypeOK
    <3> QED
      BY <3>1, <3>2, Zenon
  <2> QED
    BY <2>3, Zenon DEF RefsCounted, Using
<1>8. TypeOK'
  <2>1. refcnt' \in [Bufs -> Int]
    BY <1>1, <1>6 DEF TypeOK
  <2>2. refcnt' \in [Bufs -> 0..Cardinality(Uses)]
    BY <1>7, <2>1, RefcntBound, Zenon
  <2> QED
    BY <1>1, <1>2, <1>6, <2>2 DEF TypeOK, PCs, ide
<1>9. OneBufferPerBlock' /\ Coherent'
  BY <1>1, <1>4, <1>6 DEF OneBufferPerBlock, Coherent, TypeOK, ide
<1>10. Owners'
  BY <1>1, <1>2, <1>3, <1>4, <1>6, BcacheAssumption DEF Owners, TypeOK, Locked
<1>11. Flags'
  BY <1>1, <1>2, <1>3, <1>6 DEF Flags, TypeOK, Needed, Owners
<1>12. Queued'
  <2>1. \A b \in Bufs \ {v} : Needed(b)' = Needed(b) /\ Command(b)' = Command(b)
    BY <1>1, <1>6 DEF Needed, Command, TypeOK
  <2>2. \A i \in DOMAIN idequeue : Needed(idequeue[i])' = Needed(idequeue[i])
    BY <1>5, <2>1, Zenon DEF ide
  <2>3. StartNext(idequeue)' = StartNext(idequeue)
    BY <1>5, <2>1 DEF StartNext, TypeOK, ide
  <2>4. \A q \in Uses : Waits(q)' => Waits(q) /\ q # u
    BY <1>1, <1>2, <1>3, <1>6, <2>1, HasBuffer, ZenonT(30) DEF Waits, TypeOK
  <2>5. \A i \in DOMAIN idequeue : lock[idequeue[i]] # u
    BY <1>2, Zenon DEF Queued
  <2> QED
    BY <1>2, <1>6, <2>2, <2>3, <2>4, <2>5 DEF Queued, TypeOK, ide
<1> QED
  BY <1>7, <1>8, <1>9, <1>10, <1>11, <1>12, Zenon

LEMMA BreadInv ==
    ASSUME IInv, NEW u \in Uses, bread(u)
    PROVE  IInv'
<1> USE DEF IInv
<1>0. PICK b : b = buf[u]
  OBVIOUS
<1>1. /\ pc[u] = "lock" /\ lock[b] = None
      /\ pc' = [pc EXCEPT ![u] = IF valid[b] THEN "held" ELSE "rw"]
      /\ lock' = [lock EXCEPT ![b] = u]
      /\ UNCHANGED <<blockno, valid, dirty, refcnt, data, lru, ide, driver, buf>>
  BY <1>0, Zenon DEF bread, Go
<1>2. b \in Bufs
  BY <1>0, <1>1, HasBuffer, Zenon
<1>3. TypeOK'
  BY <1>1, <1>2, Zenon DEF TypeOK, PCs, ide
<1>4. OneBufferPerBlock' /\ Coherent' /\ RefsCounted'
  <2>1. /\ blockno' = blockno /\ buf' = buf /\ refcnt' = refcnt /\ lru' = lru
        /\ valid' = valid /\ dirty' = dirty /\ data' = data /\ disk' = disk
    BY <1>1, Zenon DEF ide
  <2>2. RefsCounted'
    BY <2>1 DEF RefsCounted
  <2> QED
    BY <2>1, <2>2, Zenon DEF OneBufferPerBlock, Coherent
<1>5. Owners'
  BY <1>0, <1>1, <1>2, BcacheAssumption DEF Owners, TypeOK, Locked
<1>6. Flags'
  BY <1>0, <1>1, <1>2, Zenon DEF Flags, TypeOK, Needed
<1>7. Queued'
  <2>1. \A i \in DOMAIN idequeue : idequeue[i] # b /\ idequeue[i] \in Bufs
    BY <1>1 DEF Queued, TypeOK
  <2>2. \A i \in DOMAIN idequeue : lock[idequeue[i]] # u
    BY <1>1, Zenon DEF Queued
  <2>3. \A q \in Uses : Waits(q)' => Waits(q)
    BY <1>1, Zenon DEF Waits, TypeOK, Needed
  <2>4. command' = StartNext(idequeue)'
    BY <1>1, Zenon DEF Queued, StartNext, Command, ide
  <2> QED
    BY <1>1, <1>2, <2>1, <2>2, <2>3, <2>4 DEF Queued, TypeOK, ide, Needed
<1> QED
  BY <1>3, <1>4, <1>5, <1>6, <1>7, Zenon

\* The holder of a buffer changes it, and goes on (log_write) or writes it (bwrite).
LEMMA ModifyInv ==
    ASSUME IInv, NEW u \in Uses, NEW v \in Values, log_write(u, v) \/ bwrite(u, v)
    PROVE  IInv'
<1> USE DEF IInv
<1>0. PICK b : b = buf[u]
  OBVIOUS
<1>1. /\ pc[u] = "held"
      /\ pc' = pc \/ pc' = [pc EXCEPT ![u] = "rw"]
      /\ data' = [data EXCEPT ![b] = v]
      /\ dirty' = [dirty EXCEPT ![b] = TRUE]
      /\ UNCHANGED <<blockno, valid, refcnt, lock, lru, ide, driver, buf>>
  BY <1>0, Zenon DEF log_write, bwrite, Go
<1>2. b \in Bufs /\ blockno[b] # None /\ valid[b] /\ lock[b] = u
  BY <1>0, <1>1, HasBuffer, BcacheAssumption, Zenon DEF Flags, Owners, Locked
<1>3. TypeOK'
  BY <1>1, <1>2, Zenon DEF TypeOK, PCs, ide
<1>4. OneBufferPerBlock' /\ Coherent' /\ RefsCounted'
  BY <1>1, <1>2, SMTT(30) DEF OneBufferPerBlock, Coherent, RefsCounted, ide, TypeOK
<1>5. Owners'
  <2>1. \A q \in Uses : /\ pc'[q] = "idle" <=> pc[q] = "idle"
                        /\ pc'[q] \in Locked <=> pc[q] \in Locked
    BY <1>1, Zenon DEF TypeOK, Locked
  <2> QED
    BY <1>1, <2>1, SMTT(30) DEF Owners, TypeOK
<1>6. Flags'
  BY <1>0, <1>1, <1>2 DEF Flags, TypeOK, Needed
<1>7. Queued'
  <2>1. \A i \in DOMAIN idequeue : idequeue[i] # b /\ idequeue[i] \in Bufs
    BY <1>1, <1>2, NotQueued, Zenon
  <2>2. \A i \in DOMAIN idequeue : lock[idequeue[i]] # u
    BY <1>1, Zenon DEF Queued
  <2>3. ASSUME NEW q \in Uses, Waits(q)'
        PROVE  Waits(q)
    <3>1. q # u
      BY <1>1, <2>3, Zenon DEF Waits, TypeOK
    <3>2. pc[q] = "sleep" \/ pc[q] = "woken"
      BY <1>1, <2>3, <3>1, Zenon DEF Waits, TypeOK
    <3>3. buf[q] # b
      BY <1>2, <3>1, <3>2 DEF Owners, Locked
    <3> QED
      BY <1>1, <2>3, <3>1, <3>3 DEF Waits, TypeOK, Needed
  <2>4. command' = StartNext(idequeue)'
    BY <1>1, <1>2, <2>1, CommandKept, Zenon DEF ide, TypeOK
  <2> QED
    BY <1>1, <1>2, <2>1, <2>2, <2>3, <2>4 DEF Queued, TypeOK, ide, Needed
<1> QED
  BY <1>3, <1>4, <1>5, <1>6, <1>7, Zenon

LEMMA BrelseInv ==
    ASSUME IInv, NEW u \in Uses, brelse(u)
    PROVE  IInv'
<1> USE DEF IInv
<1>0. PICK b : b = buf[u]
  OBVIOUS
<1>1. /\ pc[u] = "held" /\ pc' = [pc EXCEPT ![u] = "unref"]
      /\ lock' = [lock EXCEPT ![b] = None]
      /\ UNCHANGED <<blockno, valid, dirty, refcnt, data, lru, ide, driver, buf>>
  BY <1>0, Zenon DEF brelse, Go
<1>2. b \in Bufs /\ lock[b] = u
  BY <1>0, <1>1, HasBuffer, Zenon DEF Owners, Locked
<1>3. TypeOK'
  BY <1>1, <1>2, Zenon DEF TypeOK, PCs, ide
<1>4. OneBufferPerBlock' /\ Coherent' /\ RefsCounted'
  <2>1. /\ blockno' = blockno /\ buf' = buf /\ refcnt' = refcnt /\ lru' = lru
        /\ valid' = valid /\ dirty' = dirty /\ data' = data /\ disk' = disk
    BY <1>1, Zenon DEF ide
  <2>2. RefsCounted'
    BY <2>1 DEF RefsCounted
  <2> QED
    BY <2>1, <2>2, Zenon DEF OneBufferPerBlock, Coherent
<1>5. Owners'
  BY <1>0, <1>1, <1>2, BcacheAssumption DEF Owners, TypeOK, Locked
<1>6. Flags'
  BY <1>0, <1>1, <1>2, Zenon DEF Flags, TypeOK, Needed
<1>7. Queued'
  <2>1. \A i \in DOMAIN idequeue : idequeue[i] # b /\ idequeue[i] \in Bufs
    BY <1>1, <1>2, NotQueued, Zenon
  <2>2. \A i \in DOMAIN idequeue : lock[idequeue[i]] # u
    BY <1>1, Zenon DEF Queued
  <2>3. \A q \in Uses : Waits(q)' => Waits(q)
    BY <1>1, Zenon DEF Waits, TypeOK, Needed
  <2>4. command' = StartNext(idequeue)'
    BY <1>1, Zenon DEF Queued, StartNext, Command, ide
  <2> QED
    BY <1>1, <1>2, <2>1, <2>2, <2>3, <2>4 DEF Queued, TypeOK, ide, Needed
<1> QED
  BY <1>3, <1>4, <1>5, <1>6, <1>7, Zenon

\* A buffer that moves to the front of the list leaves every buffer in the list.
LEMMA FrontKeepsAll ==
    ASSUME NEW b \in Bufs, lru \in [Bufs -> Bufs], \A c \in Bufs : \E i \in Bufs : lru[i] = c
    PROVE  /\ MovesToFront(b) \in [Bufs -> Bufs]
           /\ \A c \in Bufs : \E i \in Bufs : MovesToFront(b)[i] = c
<1> DEFINE k == CHOOSE i \in Bufs : lru[i] = b
<1>1. k \in Bufs /\ lru[k] = b
  OBVIOUS
<1>2. MovesToFront(b) =
        [i \in Bufs |-> IF i = 1 THEN b ELSE IF i <= k THEN lru[i - 1] ELSE lru[i]]
  BY Zenon DEF MovesToFront
<1> HIDE DEF k
<1>3. MovesToFront(b) \in [Bufs -> Bufs]
  <2>1. \A i \in Bufs : i # 1 => i - 1 \in Bufs
    BY BcacheAssumption DEF Bufs
  <2> QED
    BY <1>2, <2>1
<1>4. ASSUME NEW c \in Bufs
      PROVE  \E i \in Bufs : MovesToFront(b)[i] = c
  <2>1. CASE c = b
    BY <1>2, <2>1, BcacheAssumption DEF Bufs
  <2>2. CASE c # b
    <3>1. PICK j \in Bufs : lru[j] = c
      OBVIOUS
    <3>2. CASE j < k
      <4>1. j + 1 \in Bufs /\ MovesToFront(b)[j + 1] = c
        BY <1>1, <1>2, <3>1, <3>2, BcacheAssumption DEF Bufs
      <4> QED
        BY <4>1, Zenon
    <3>3. CASE j > k
      BY <1>1, <1>2, <3>1, <3>3, BcacheAssumption DEF Bufs
    <3> QED
      BY <1>1, <2>2, <3>1, <3>2, <3>3, BcacheAssumption DEF Bufs
  <2> QED
    BY <2>1, <2>2, Zenon
<1> QED
  BY <1>3, <1>4, Zenon

LEMMA UnrefInv ==
    ASSUME IInv, NEW u \in Uses, BrelseUnref(u)
    PROVE  IInv'
<1> USE DEF IInv
<1>0. PICK b : b = buf[u]
  OBVIOUS
<1>1. /\ pc[u] = "unref" /\ pc' = [pc EXCEPT ![u] = "idle"]
      /\ refcnt' = [refcnt EXCEPT ![b] = @ - 1]
      /\ lru' = MovesToFront(b) \/ lru' = lru
      /\ buf' = [buf EXCEPT ![u] = None]
      /\ UNCHANGED <<blockno, valid, dirty, lock, data, ide, driver>>
  BY <1>0, Zenon DEF BrelseUnref, Go, Unref
<1>2. b \in Bufs
  BY <1>0, <1>1, HasBuffer, Zenon
<1>3. lru' \in [Bufs -> Bufs] /\ \A c \in Bufs : \E i \in Bufs : lru'[i] = c
  <2>1. lru \in [Bufs -> Bufs] /\ \A c \in Bufs : \E i \in Bufs : lru[i] = c
    BY Zenon DEF TypeOK, RefsCounted
  <2>2. CASE lru' = MovesToFront(b)
    BY <1>2, <2>1, <2>2, FrontKeepsAll, Zenon
  <2> QED
    BY <1>1, <2>1, <2>2, Zenon
<1>4. RefsCounted'
  <2>1. \A c \in Bufs : refcnt[c] = Cardinality(Using(c)) /\ refcnt[c] \in Int
    BY DEF RefsCounted, Using, TypeOK
  <2>2. /\ Cardinality(Using(b)') = Cardinality(Using(b)) - 1
        /\ \A c \in Bufs \ {b} : Using(c)' = Using(c)
    BY <1>0, <1>1, <1>2, UserRemoved, Zenon DEF TypeOK
  <2>3. ASSUME NEW c \in Bufs
        PROVE  refcnt'[c] = Cardinality(Using(c)')
    <3>1. CASE c = b
      BY <3>1, <1>1, <2>1, <2>2, Zenon DEF TypeOK
    <3>2. CASE c # b
      BY <3>2, <1>1, <2>1, <2>2, Zenon DEF TypeOK
    <3> QED
      BY <3>1, <3>2, Zenon
  <2> QED
    BY <1>3, <2>3, Zenon DEF RefsCounted, Using
<1>5. TypeOK'
  <2>1. refcnt' \in [Bufs -> Int]
    BY <1>1, <1>2 DEF TypeOK
  <2>2. refcnt' \in [Bufs -> 0..Cardinality(Uses)]
    BY <1>4, <2>1, RefcntBound, Zenon
  <2> QED
    BY <1>1, <1>2, <1>3, <2>2, Zenon DEF TypeOK, PCs, ide
<1>6. OneBufferPerBlock' /\ Coherent'
  BY <1>1, Zenon DEF OneBufferPerBlock, Coherent, ide
<1>7. \A c \in Bufs : lock[c] # u
  <2>1. u # None
    BY BcacheAssumption, Zenon
  <2>2. pc[u] \notin Locked
    BY <1>1, Zenon DEF Locked
  <2> QED
    BY <2>1, <2>2, Zenon DEF Owners
<1>8. Owners'
  BY <1>1, <1>2, <1>7, BcacheAssumption DEF Owners, TypeOK, Locked
<1>9. Flags'
  BY <1>1, <1>2, Zenon DEF Flags, TypeOK, Needed
<1>10. Queued'
  <2>1. \A i \in DOMAIN idequeue : lock[idequeue[i]] # u
    BY <1>7 DEF TypeOK
  <2>2. \A q \in Uses : Waits(q)' => Waits(q) /\ q # u
    BY <1>1, Zenon DEF Waits, TypeOK, Needed
  <2>3. command' = StartNext(idequeue)'
    BY <1>1, CommandKept, Zenon DEF ide
  <2>4. /\ idequeue' = idequeue /\ valid' = valid /\ dirty' = dirty /\ lock' = lock
        /\ pc' = [pc EXCEPT ![u] = "idle"] /\ buf' = [buf EXCEPT ![u] = None]
    BY <1>1, Zenon DEF ide
  <2>5. ASSUME NEW i \in DOMAIN idequeue
        PROVE  pc'[lock[idequeue[i]]] = pc[lock[idequeue[i]]]
    <3>1. idequeue[i] \in Bufs
      BY DEF TypeOK
    <3>2. /\ lock \in [Bufs -> Uses \cup {None}] /\ pc \in [Uses -> PCs]
          /\ lock[idequeue[i]] # None
      BY Zenon DEF TypeOK, Queued
    <3>3. lock[idequeue[i]] \in Uses
      BY <3>1, <3>2, Zenon
    <3> QED
      BY <2>1, <2>4, <3>2, <3>3, Zenon
  <2>6. ASSUME NEW q \in Uses, q # u
        PROVE  buf'[q] = buf[q]
    <3>1. buf \in [Uses -> Bufs \cup {None}]
      BY Zenon DEF TypeOK
    <3> QED
      BY <2>4, <2>6, <3>1, Zenon
  <2>7. ASSUME NEW i \in DOMAIN idequeue'
        PROVE  /\ Needed(idequeue[i])'
               /\ lock'[idequeue'[i]] # None
               /\ pc'[lock'[idequeue'[i]]] \in {"sleep", "woken"}
    <3>1. i \in DOMAIN idequeue
      BY <2>4, <2>7, Zenon
    <3>2. /\ Needed(idequeue[i]) /\ lock[idequeue[i]] # None
          /\ pc[lock[idequeue[i]]] \in {"sleep", "woken"}
      BY <3>1, Zenon DEF Queued
    <3> QED
      BY <2>4, <2>5, <3>1, <3>2, Zenon DEF Needed
  <2>8. ASSUME NEW q \in Uses, Waits(q)'
        PROVE  \E i \in DOMAIN idequeue' : idequeue'[i] = buf'[q]
    <3>1. Waits(q) /\ q # u
      BY <2>2, <2>8, Zenon
    <3>2. \E i \in DOMAIN idequeue : idequeue[i] = buf[q]
      BY <3>1, Zenon DEF Queued
    <3> QED
      BY <2>4, <2>6, <3>1, <3>2, Zenon
  <2> QED
    BY <2>3, <2>4, <2>7, <2>8, Zenon DEF Queued
<1> QED
  BY <1>4, <1>5, <1>6, <1>8, <1>9, <1>10, Zenon

\* kill wakes a process in iderw, which looks at its buffer again.
LEMMA WakeInv ==
    ASSUME IInv, NEW u \in Uses, IderwWoken(u) \/ Kill(u)
    PROVE  IInv'
<1> USE DEF IInv
<1>1. /\ pc[u] \in {"sleep", "woken"}
      /\ \/ pc' = [pc EXCEPT ![u] = "woken"] /\ pc[u] = "sleep"
         \/ pc' = [pc EXCEPT ![u] = "sleep"] /\ Needed(buf[u]) /\ pc[u] = "woken"
         \/ pc' = [pc EXCEPT ![u] = "held"] /\ ~ Needed(buf[u]) /\ pc[u] = "woken"
      /\ UNCHANGED <<blockno, valid, dirty, refcnt, lock, data, lru, ide, driver, buf>>
  BY Zenon DEF IderwWoken, Kill, Go, SleepsOn
<1>2. buf[u] \in Bufs /\ lock[buf[u]] = u
  BY <1>1, HasBuffer, Zenon DEF Owners, Locked
<1>3. TypeOK'
  BY <1>1, ZenonT(30) DEF TypeOK, PCs, ide
<1>4. OneBufferPerBlock' /\ Coherent' /\ RefsCounted'
  <2>1. /\ blockno' = blockno /\ buf' = buf /\ refcnt' = refcnt /\ lru' = lru
        /\ valid' = valid /\ dirty' = dirty /\ data' = data /\ disk' = disk
    BY <1>1, Zenon DEF ide
  <2>2. RefsCounted'
    BY <2>1 DEF RefsCounted
  <2> QED
    BY <2>1, <2>2, Zenon DEF OneBufferPerBlock, Coherent
<1>5. Owners'
  <2>1. \A q \in Uses : /\ pc'[q] = "idle" <=> pc[q] = "idle"
                        /\ pc'[q] \in Locked <=> pc[q] \in Locked
    BY <1>1, Zenon DEF TypeOK, Locked
  <2> QED
    BY <1>1, <2>1 DEF Owners, TypeOK
<1>6. Flags'
  BY <1>1, <1>2 DEF Flags, TypeOK, Needed
<1>7. Queued'
  <2>1. \A i \in DOMAIN idequeue : pc'[lock[idequeue[i]]] \in {"sleep", "woken"}
    <3> SUFFICES ASSUME NEW i \in DOMAIN idequeue
                 PROVE  pc'[lock[idequeue[i]]] \in {"sleep", "woken"}
      OBVIOUS
    <3>1. /\ idequeue[i] \in Bufs /\ Needed(idequeue[i])
          /\ lock[idequeue[i]] \in Uses /\ pc[lock[idequeue[i]]] \in {"sleep", "woken"}
          /\ buf[lock[idequeue[i]]] = idequeue[i]
      BY QueuedOwner, Zenon
    <3> QED
      BY <1>1, <3>1, Zenon DEF TypeOK
  <2>2. \A q \in Uses : Waits(q)' => Waits(q)
    BY <1>1 DEF Waits, TypeOK, Needed
  <2>3. command' = StartNext(idequeue)'
    BY <1>1, CommandKept, Zenon DEF ide
  <2> QED
    BY <1>1, <2>1, <2>2, <2>3, Zenon DEF Queued, TypeOK, ide, Needed
<1> QED
  BY <1>3, <1>4, <1>5, <1>6, <1>7, Zenon

\* iderw puts the buffer at the end of the queue.
LEMMA IderwInv ==
    ASSUME IInv, NEW u \in Uses, iderw(u)
    PROVE  IInv'
<1> USE DEF IInv
<1>0. PICK b : b = buf[u]
  OBVIOUS
<1>1. /\ pc[u] = "rw" /\ pc' = [pc EXCEPT ![u] = "sleep"]
      /\ idequeue' = Append(idequeue, b)
      /\ command' = IF idequeue = <<>> THEN Command(b) ELSE command
      /\ UNCHANGED <<blockno, valid, dirty, refcnt, lock, data, lru, disk, driver, buf>>
  BY <1>0, Zenon DEF iderw, Go
<1>2. b \in Bufs /\ blockno[b] \in Blocks /\ lock[b] = u /\ Needed(b)
  BY <1>0, <1>1, HasBuffer, Zenon DEF Owners, Locked, Flags
<1>3. Command(b) \in Commands
  BY <1>2, Zenon DEF Command, Commands, TypeOK
<1>4. TypeOK'
  BY <1>1, <1>2, <1>3 DEF TypeOK, PCs
<1>5. OneBufferPerBlock' /\ Coherent' /\ RefsCounted'
  BY <1>1 DEF OneBufferPerBlock, Coherent, RefsCounted
<1>6. Owners'
  <2>1. \A q \in Uses : /\ pc'[q] = "idle" <=> pc[q] = "idle"
                        /\ pc'[q] \in Locked <=> pc[q] \in Locked
    BY <1>1, Zenon DEF TypeOK, Locked
  <2> QED
    BY <1>1, <2>1 DEF Owners, TypeOK
<1>7. Flags'
  BY <1>1, <1>2, Zenon DEF Flags, TypeOK, Needed
<1>8. Queued'
  <2>1. \A i \in DOMAIN idequeue : idequeue[i] # b /\ idequeue[i] \in Bufs
    BY <1>1, <1>2, NotQueued, Zenon
  <2> DEFINE n == Len(idequeue)
  <2>2. /\ n \in Nat /\ DOMAIN idequeue = 1..n /\ DOMAIN idequeue' = 1..(n + 1)
        /\ \A i \in 1..n : idequeue'[i] = idequeue[i]
        /\ idequeue'[n + 1] = b
    BY <1>1, <1>2 DEF TypeOK
  <2> HIDE DEF n
  <2>3. \A i, j \in DOMAIN idequeue' : idequeue'[i] = idequeue'[j] => i = j
    BY <2>1, <2>2 DEF Queued
  <2>4. ASSUME NEW i \in DOMAIN idequeue'
        PROVE  /\ Needed(idequeue[i])'
               /\ lock'[idequeue'[i]] # None
               /\ pc'[lock'[idequeue'[i]]] \in {"sleep", "woken"}
    <3>1. CASE i = n + 1
      <4>1. idequeue'[i] = b /\ lock'[b] = u /\ Needed(b)'
        BY <1>1, <1>2, <2>2, <3>1, Zenon DEF Needed
      <4>2. u # None /\ pc'[u] = "sleep"
        BY <1>1, BcacheAssumption, Zenon DEF TypeOK
      <4> QED
        BY <4>1, <4>2, Zenon DEF Needed
    <3>2. CASE i \in 1..n
      BY <1>1, <2>2, <3>2 DEF Queued, Needed, TypeOK
    <3> QED
      BY <2>2, <2>4, <3>1, <3>2, SMTT(30)
  <2>5. ASSUME NEW q \in Uses, Waits(q)'
        PROVE  \E i \in DOMAIN idequeue' : idequeue'[i] = buf'[q]
    <3>1. CASE q = u
      <4>1. n + 1 \in DOMAIN idequeue' /\ buf'[q] = b
        BY <1>0, <1>1, <2>2, <3>1
      <4> QED
        BY <2>2, <4>1, Zenon
    <3>2. CASE q # u
      <4>1. Waits(q)
        BY <1>1, <2>5, <3>2, Zenon DEF Waits, Needed, TypeOK
      <4> QED
        BY <1>1, <2>2, <4>1 DEF Queued
    <3> QED
      BY <3>1, <3>2, ZenonT(30)
  <2>6. command' = StartNext(idequeue)'
    <3>1. idequeue' # <<>>
      BY <2>2
    <3>2. CASE idequeue = <<>>
      <4>1. Head(idequeue') = b
        BY <1>1, <1>2, <3>2
      <4> QED
        BY <1>1, <3>1, <3>2, <4>1, Zenon DEF StartNext, Command
    <3>3. CASE idequeue # <<>>
      <4>1. Head(idequeue') = Head(idequeue)
        BY <1>1, <1>2, <3>3 DEF TypeOK
      <4> QED
        BY <1>1, <3>1, <3>3, <4>1, Zenon DEF StartNext, Command, Queued
    <3> QED
      BY <3>2, <3>3, Zenon
  <2> QED
    BY <2>3, <2>4, <2>5, <2>6, Zenon DEF Queued
<1> QED
  BY <1>4, <1>5, <1>6, <1>7, <1>8, Zenon

\* iderw of the disk in memory.
LEMMA MemRwInv ==
    ASSUME IInv, NEW u \in Uses, MemRw(u)
    PROVE  IInv'
<1> USE DEF IInv
<1>0. PICK b : b = buf[u]
  OBVIOUS
<1>1. /\ pc[u] = "rw" /\ pc' = [pc EXCEPT ![u] = "held"]
      /\ \/ dirty[b] /\ disk' = [disk EXCEPT ![blockno[b]] = data[b]] /\ data' = data
         \/ ~ dirty[b] /\ data' = [data EXCEPT ![b] = disk[blockno[b]]] /\ disk' = disk
      /\ dirty' = [dirty EXCEPT ![b] = FALSE] /\ valid' = [valid EXCEPT ![b] = TRUE]
      /\ UNCHANGED <<blockno, refcnt, lock, lru, idequeue, command, driver, buf>>
  BY <1>0, Zenon DEF MemRw, Go
<1>2. b \in Bufs /\ blockno[b] \in Blocks /\ blockno[b] # None /\ lock[b] = u
  BY <1>0, <1>1, HasBuffer, BcacheAssumption, Zenon DEF Owners, Locked
<1>3. TypeOK'
  BY <1>1, <1>2, Zenon DEF TypeOK, PCs
<1>4. OneBufferPerBlock' /\ RefsCounted'
  <2>1. blockno' = blockno /\ buf' = buf /\ refcnt' = refcnt /\ lru' = lru
    BY <1>1, Zenon
  <2>2. RefsCounted'
    BY <2>1 DEF RefsCounted
  <2> QED
    BY <2>1, <2>2, Zenon DEF OneBufferPerBlock
<1>5. Coherent'
  <2> SUFFICES ASSUME NEW c \in Bufs, valid'[c], ~ dirty'[c], blockno[c] \notin BadBlocks
               PROVE  data'[c] = disk'[blockno[c]]
    BY <1>1, Zenon DEF Coherent
  <2>1. CASE c = b
    BY <1>1, <1>2, <2>1, SMTT(30) DEF TypeOK
  <2>2. CASE c # b
    <3>1. valid[c] /\ ~ dirty[c] /\ blockno[c] # blockno[b]
      BY <1>1, <1>2, <2>2, Zenon DEF TypeOK, OneBufferPerBlock
    <3> QED
      BY <1>1, <1>2, <2>2, <3>1 DEF TypeOK, Coherent, Flags
  <2> QED
    BY <2>1, <2>2, Zenon
<1>6. Owners'
  <2>1. \A q \in Uses : /\ pc'[q] = "idle" <=> pc[q] = "idle"
                        /\ pc'[q] \in Locked <=> pc[q] \in Locked
    BY <1>1, Zenon DEF TypeOK, Locked
  <2> QED
    BY <1>1, <2>1 DEF Owners, TypeOK
<1>7. \A q \in Uses : q # u /\ pc[q] \in Locked => buf[q] # b
  BY <1>2, Zenon DEF Owners
<1>8. Flags'
  BY <1>0, <1>1, <1>2, <1>7, SMTT(30) DEF Flags, TypeOK, Needed, Locked
<1>9. Queued'
  <2>1. \A i \in DOMAIN idequeue : idequeue[i] # b /\ idequeue[i] \in Bufs
    BY <1>1, <1>2, NotQueued, Zenon
  <2>2. \A i \in DOMAIN idequeue : lock[idequeue[i]] # u
    BY <1>1, Zenon DEF Queued
  <2>3. \A q \in Uses : Waits(q)' => Waits(q)
    BY <1>1, <1>7 DEF Waits, TypeOK, Needed, Locked
  <2>4. command' = StartNext(idequeue)'
    BY <1>1, <1>2, <2>1, CommandKept, Zenon DEF TypeOK
  <2> QED
    BY <1>1, <1>2, <2>1, <2>2, <2>3, <2>4 DEF Queued, TypeOK, Needed
<1> QED
  BY <1>3, <1>4, <1>5, <1>6, <1>8, <1>9, Zenon

LEMMA IdeintrInv ==
    ASSUME IInv, ideintr
    PROVE  IInv'
<1> USE DEF IInv
<1>0. PICK b : b = Head(idequeue)
  OBVIOUS
<1>1. idequeue # <<>> /\ command = Command(b)
  BY <1>0, Zenon DEF ideintr, Queued, StartNext
<1>2. b \in Bufs /\ 1 \in DOMAIN idequeue /\ b = idequeue[1]
  BY <1>0, <1>1, HeadQueued, Zenon
<1>3. PICK o \in Uses : lock[b] = o /\ buf[o] = b /\ pc[o] \in {"sleep", "woken"} /\ Needed(b)
  BY <1>2, QueuedOwner, Zenon
<1>4. blockno[b] \in Blocks /\ blockno[b] # None
  BY <1>3, HasBuffer, BcacheAssumption, Zenon
<1>5. /\ disk' = IF dirty[b] THEN [disk EXCEPT ![blockno[b]] = data[b]] ELSE disk
      /\ idequeue' = Tail(idequeue)
      /\ data' = IF Transfers(b) THEN [data EXCEPT ![b] = disk[blockno[b]]] ELSE data
      /\ valid' = [valid EXCEPT ![b] = TRUE] /\ dirty' = [dirty EXCEPT ![b] = FALSE]
      /\ pc' = [u \in Uses |-> IF pc[u] = "sleep" /\ buf[u] = b THEN "woken" ELSE pc[u]]
      /\ command' = StartNext(Tail(idequeue))
      /\ UNCHANGED <<blockno, refcnt, lock, lru, driver, buf>>
  BY <1>0, <1>1, Zenon DEF ideintr, Command
<1> DEFINE n == Len(idequeue)
<1>6. /\ n \in Nat /\ DOMAIN idequeue = 1..n /\ DOMAIN idequeue' = 1..(n - 1)
      /\ \A i \in 1..(n - 1) : idequeue'[i] = idequeue[i + 1]
  BY <1>1, <1>5 DEF TypeOK
<1> HIDE DEF n
<1>7. \A i \in 1..(n - 1) : idequeue[i + 1] # b /\ idequeue[i + 1] \in Bufs
  <2> SUFFICES ASSUME NEW i \in 1..(n - 1)
               PROVE  idequeue[i + 1] # b /\ idequeue[i + 1] \in Bufs
    OBVIOUS
  <2>1. i + 1 \in DOMAIN idequeue /\ i + 1 # 1
    BY <1>6
  <2>2. idequeue[i + 1] # idequeue[1]
    BY <1>2, <2>1, Zenon DEF Queued
  <2> QED
    BY <1>2, <2>1, <2>2 DEF TypeOK
<1>8. idequeue' # <<>> =>
        /\ Head(idequeue') = idequeue[2] /\ 2 \in DOMAIN idequeue
        /\ idequeue[2] # b /\ idequeue[2] \in Bufs
  <2> SUFFICES ASSUME idequeue' # <<>>
               PROVE  /\ Head(idequeue') = idequeue[2] /\ 2 \in DOMAIN idequeue
                      /\ idequeue[2] # b /\ idequeue[2] \in Bufs
    OBVIOUS
  <2>1. idequeue' \in Seq(Bufs)
    BY <1>1, <1>5 DEF TypeOK
  <2>2. 1 \in DOMAIN idequeue' /\ Head(idequeue') = idequeue'[1]
    BY <2>1
  <2>3. 1 \in 1..(n - 1) /\ 1 + 1 = 2
    BY <1>6, <2>2
  <2>4. /\ idequeue'[1] = idequeue[1 + 1]
        /\ idequeue[1 + 1] # b /\ idequeue[1 + 1] \in Bufs
    BY <1>6, <1>7, <2>3, Zenon
  <2>5. 2 \in DOMAIN idequeue
    BY <1>6, <2>3
  <2> QED
    BY <2>2, <2>3, <2>4, <2>5, Zenon
<1>9. command' = StartNext(idequeue)'
  <2>1. CASE idequeue' = <<>>
    BY <1>5, <2>1, Zenon DEF StartNext
  <2>2. CASE idequeue' # <<>>
    BY <1>2, <1>5, <1>8, <2>2, Zenon DEF StartNext, Command, TypeOK
  <2> QED
    BY <2>1, <2>2, Zenon
<1>10. TypeOK'
  <2>1. idequeue' \in Seq(Bufs)
    BY <1>1, <1>5 DEF TypeOK
  <2>2. data' \in [Bufs -> Values] /\ disk' \in [Blocks -> Values]
    BY <1>2, <1>4, <1>5, Zenon DEF TypeOK
  <2>3. pc' \in [Uses -> PCs]
    BY <1>5, Zenon DEF TypeOK, PCs
  <2>4. \A i \in DOMAIN idequeue : blockno[idequeue[i]] \in Blocks
    <3> SUFFICES ASSUME NEW i \in DOMAIN idequeue
                 PROVE  blockno[idequeue[i]] \in Blocks
      OBVIOUS
    <3>1. /\ lock[idequeue[i]] \in Uses /\ pc[lock[idequeue[i]]] # "idle"
          /\ buf[lock[idequeue[i]]] = idequeue[i]
      BY QueuedOwner, Zenon
    <3> QED
      BY <3>1, HasBuffer, Zenon
  <2>5. command' \in Commands \cup {None}
    <3>1. CASE idequeue' = <<>>
      BY <1>5, <3>1, Zenon DEF StartNext
    <3>2. CASE idequeue' # <<>>
      BY <1>5, <1>8, <2>4, <3>2, Zenon DEF StartNext, Command, Commands, TypeOK
    <3> QED
      BY <3>1, <3>2, Zenon
  <2> QED
    BY <1>2, <1>5, <2>1, <2>2, <2>3, <2>5, Zenon DEF TypeOK
<1>11. OneBufferPerBlock' /\ RefsCounted'
  BY <1>5, Zenon DEF OneBufferPerBlock, RefsCounted
<1>12. Coherent'
  <2> SUFFICES ASSUME NEW c \in Bufs, valid'[c], ~ dirty'[c], blockno[c] \notin BadBlocks
               PROVE  data'[c] = disk'[blockno[c]]
    BY <1>5, ZenonT(30) DEF Coherent
  <2>1. CASE c = b
    BY <1>2, <1>4, <1>5, <2>1, Zenon DEF TypeOK, Transfers
  <2>2. CASE c # b
    <3>1. valid[c] /\ ~ dirty[c] /\ blockno[c] # blockno[b]
      BY <1>2, <1>4, <1>5, <2>2, Zenon DEF TypeOK, OneBufferPerBlock
    <3>2. data[c] = disk[blockno[c]]
      BY <3>1, Zenon DEF Coherent
    <3>3. /\ data \in [Bufs -> Values] /\ disk \in [Blocks -> Values]
          /\ blockno[c] \in Blocks \cup {None}
      BY Zenon DEF TypeOK
    <3>4. blockno[c] \in Blocks
      BY <3>1, <3>3, Zenon DEF Flags
    <3>5. data'[c] = data[c]
      BY <1>5, <2>2, <3>3, Zenon
    <3>6. disk'[blockno[c]] = disk[blockno[c]]
      BY <1>5, <3>1, <3>3, <3>4, Zenon
    <3> QED
      BY <3>2, <3>5, <3>6, Zenon
  <2> QED
    BY <2>1, <2>2, Zenon
<1>13. Owners'
  <2>1. \A q \in Uses : /\ pc'[q] = "idle" <=> pc[q] = "idle"
                        /\ pc'[q] \in Locked <=> pc[q] \in Locked
    BY <1>5, Zenon DEF TypeOK, Locked
  <2> QED
    BY <1>5, <2>1 DEF Owners, TypeOK
<1>14. \A q \in Uses : q # o /\ pc[q] \in Locked => buf[q] # b
  BY <1>3, Zenon DEF Owners
<1>15. Flags'
  <2>1. \A c \in Bufs : (dirty'[c] => valid'[c]) /\ (valid'[c] => blockno'[c] # None)
    BY <1>2, <1>4, <1>5, Zenon DEF Flags, TypeOK
  <2>2. \A q \in Uses : pc'[q] = "held" => valid'[buf'[q]]
    BY <1>2, <1>5, HasBuffer, Zenon DEF Flags, TypeOK
  <2>3. \A q \in Uses : pc'[q] = "rw" => pc[q] = "rw" /\ buf[q] # b /\ buf[q] \in Bufs
    BY <1>3, <1>5, <1>14, HasBuffer, Zenon DEF TypeOK, Locked
  <2>4. ASSUME NEW q \in Uses, pc'[q] = "rw"
        PROVE  Needed(buf[q])'
    <3>1. pc[q] = "rw" /\ buf[q] # b /\ buf[q] \in Bufs /\ buf'[q] = buf[q]
      BY <1>5, <2>3, <2>4, Zenon
    <3>2. valid'[buf[q]] = valid[buf[q]] /\ dirty'[buf[q]] = dirty[buf[q]]
      BY <1>5, <3>1, Zenon DEF TypeOK
    <3>3. Needed(buf[q])
      BY <3>1, Zenon DEF Flags
    <3> QED
      BY <3>1, <3>2, <3>3, Zenon DEF Needed
  <2> QED
    BY <1>5, <2>1, <2>2, <2>4, Zenon DEF Flags
<1>16. Queued'
  <2>1. \A i, j \in DOMAIN idequeue' : idequeue'[i] = idequeue'[j] => i = j
    BY <1>6, SMTT(30) DEF Queued
  <2>2. ASSUME NEW i \in DOMAIN idequeue'
        PROVE  /\ Needed(idequeue[i])'
               /\ lock'[idequeue'[i]] # None
               /\ pc'[lock'[idequeue'[i]]] \in {"sleep", "woken"}
    <3>1. /\ idequeue'[i] = idequeue[i + 1] /\ i + 1 \in DOMAIN idequeue
          /\ idequeue[i + 1] # b /\ idequeue[i + 1] \in Bufs
      BY <1>6, <1>7, SMTT(30)
    <3>2. /\ Needed(idequeue[i + 1]) /\ lock[idequeue[i + 1]] \in Uses
          /\ lock[idequeue[i + 1]] # None
          /\ pc[lock[idequeue[i + 1]]] \in {"sleep", "woken"}
      <4>1. lock \in [Bufs -> Uses \cup {None}]
        BY Zenon DEF TypeOK
      <4>2. /\ Needed(idequeue[i + 1]) /\ lock[idequeue[i + 1]] # None
            /\ pc[lock[idequeue[i + 1]]] \in {"sleep", "woken"}
        BY <3>1, Zenon DEF Queued
      <4> QED
        BY <3>1, <4>1, <4>2, Zenon
    <3> QED
      BY <1>2, <1>5, <3>1, <3>2, Zenon DEF Needed, TypeOK
  <2>3. ASSUME NEW q \in Uses, Waits(q)'
        PROVE  \E i \in DOMAIN idequeue' : idequeue'[i] = buf'[q]
    <3>1. pc[q] \in {"sleep", "woken"} /\ buf[q] \in Bufs
      BY <1>5, <2>3, HasBuffer, Zenon DEF Waits, TypeOK
    <3>2. buf[q] # b
      BY <1>2, <1>5, <2>3, Zenon DEF Waits, Needed, TypeOK
    <3>3. Waits(q)
      BY <1>5, <2>3, <3>1, <3>2, Zenon DEF Waits, Needed, TypeOK
    <3>4. PICK i \in DOMAIN idequeue : idequeue[i] = buf[q]
      BY <3>3, ZenonT(30) DEF Queued
    <3>5. i \in 1..n /\ i # 1
      BY <1>2, <1>6, <3>2, <3>4, Zenon
    <3>6. i - 1 \in 1..(n - 1) /\ (i - 1) + 1 = i
      BY <1>6, <3>5
    <3>7. idequeue'[i - 1] = idequeue[(i - 1) + 1]
      BY <1>6, <3>6, Zenon
    <3> QED
      BY <1>5, <1>6, <3>4, <3>6, <3>7
  <2> QED
    BY <1>9, <2>1, <2>2, <2>3, Zenon DEF Queued
<1> QED
  BY <1>10, <1>11, <1>12, <1>13, <1>15, <1>16, Zenon

LEMMA StepInv == IInv /\ [Next]_vars => IInv'
<1> SUFFICES ASSUME IInv, [Next]_vars
             PROVE  IInv'
  OBVIOUS
<1>1. CASE UNCHANGED vars
  <2>1. TypeOK' /\ OneBufferPerBlock' /\ RefsCounted' /\ Coherent'
    BY <1>1 DEF vars, IInv, TypeOK, OneBufferPerBlock, RefsCounted, Coherent
  <2>2. Owners' /\ Flags' /\ Queued'
    BY <1>1, Zenon DEF vars, IInv, Owners, Flags, Queued, Waits, Needed, StartNext, Command
  <2> QED
    BY <2>1, <2>2, Zenon DEF IInv
<1>2. CASE ideintr
  BY <1>2, IdeintrInv, Zenon
<1>3. ASSUME NEW u \in Uses, Step(u)
      PROVE  IInv'
  <2>1. ASSUME NEW k \in Blocks, bget(u, k)
        PROVE  IInv'
    <3>1. CASE \E b \in Cached(k) :
                    /\ Go(u, "idle", "lock")
                    /\ buf' = [buf EXCEPT ![u] = b]
                    /\ refcnt' = [refcnt EXCEPT ![b] = @ + 1]
                    /\ UNCHANGED <<blockno, valid, dirty>>
      BY <2>1, <3>1, HitInv, Zenon DEF bget
    <3>2. CASE /\ Cached(k) = {} /\ \E b \in Bufs : Recyclable(b)
               /\ Go(u, "idle", "lock")
               /\ buf' = [buf EXCEPT ![u] = Victim]
               /\ blockno' = [blockno EXCEPT ![Victim] = k]
               /\ Reset(Victim)
               /\ refcnt' = [refcnt EXCEPT ![Victim] = 1]
      BY <2>1, <3>2, MissInv, Zenon DEF bget
    <3> QED
      BY <2>1, <3>1, <3>2, Zenon DEF bget
  <2> QED
    BY <1>3, <2>1, ModifyInv, BrelseInv, BreadInv, UnrefInv, IderwInv, MemRwInv, WakeInv, Zenon
       DEF Step, Running
<1> QED
  BY <1>1, <1>2, <1>3, Zenon DEF Next

-----------------------------------------------------------------------------
(***************************************************************************)
(* Theorems                                                                *)
(***************************************************************************)
\* The invariant of the buffer cache holds in every state of it.
THEOREM Invariance == Spec => []IInv
BY InitInv, StepInv, PTL DEF Spec

\* bget, bread and iderw: one buffer for each block, with the contents of the disk unless it
\* is dirty, valid for its holder, and in the queue of the disk as long as somebody waits.
THEOREM CacheCoherentHolds == Spec => []CacheCoherent
<1>1. IInv => CacheCoherent
  <2> SUFFICES ASSUME IInv
               PROVE  CacheCoherent
    OBVIOUS
  <2> USE DEF IInv
  <2>1. HeldIsValid
    BY Zenon DEF HeldIsValid, Flags, Owners, Locked
  <2>2. DiskBusy
    <3>1. ASSUME idequeue # <<>>
          PROVE  command # None /\ command = Command(Head(idequeue))
      <4>1. command = Command(Head(idequeue))
        BY <3>1, ZenonT(30) DEF Queued, StartNext
      <4>2. /\ Head(idequeue) \in Bufs
            /\ blockno[Head(idequeue)] \in Blocks
        BY <3>1, HeadInUse, Zenon
      <4>3. command \in Commands
        BY <4>1, <4>2, Zenon DEF Command, Commands, TypeOK
      <4> QED
        BY <4>1, <4>3, BcacheAssumption, Zenon
    <3> QED
      BY <3>1, Zenon DEF DiskBusy, Queued, Waits
  <2> QED
    BY <2>1, <2>2, Zenon DEF CacheCoherent
<1> QED
  BY <1>1, Invariance, PTL

\* A use that is not idle is of one buffer: the buffers with a refcnt are no more than
\* those uses.
LEMMA UsersBound ==
    ASSUME TypeOK, RefsCounted, Owners
    PROVE  LET R == {b \in Bufs : refcnt[b] # 0}
               Q == {u \in Uses : pc[u] # "idle"}
           IN  /\ IsFiniteSet(R) /\ IsFiniteSet(Q)
               /\ Cardinality(R) \in Nat /\ Cardinality(Q) \in Nat
               /\ Cardinality(R) <= Cardinality(Q)
<1> DEFINE R == {b \in Bufs : refcnt[b] # 0}
           Q == {u \in Uses : pc[u] # "idle"}
           U == {u \in Uses : buf[u] \in R}
           f == [u \in U |-> buf[u]]
<1>1. IsFiniteSet(Q) /\ IsFiniteSet(U) /\ U \subseteq Q
  <2>1. Q \subseteq Uses /\ U \subseteq Uses /\ U \subseteq Q
    BY BcacheAssumption, SMTT(30) DEF Owners
  <2> QED
    BY <2>1, UsesFinite, FS_Subset, Zenon
<1>2. ASSUME NEW b \in R
      PROVE  \E u \in U : f[u] = b
  <2>1. Using(b) # {}
    BY <1>2, FS_EmptySet, Zenon DEF RefsCounted, Using
  <2> QED
    BY <2>1, Zenon DEF Using
<1>3. f \in Surjection(U, R)
  BY <1>2, Zenon DEF Surjection
<1>4. IsFiniteSet(R) /\ Cardinality(R) <= Cardinality(U)
  BY <1>1, <1>3, FS_Surjection, Zenon
<1>5. Cardinality(U) <= Cardinality(Q)
  BY <1>1, FS_Subset, Zenon
<1> QED
  BY <1>1, <1>4, <1>5, FS_CardinalityType, SMTT(30)

\* bget, brelse and B_DIRTY: when no buffer can be recycled, the blocks the log has pinned and
\* the buffers in use, up to two for each process, account for every one of them; and
\* iderw is not called with nothing to do.
THEOREM BuffersSufficeHolds == Spec => []BuffersSuffice
<1>1. IInv => BuffersSuffice
  <2> SUFFICES ASSUME IInv
               PROVE  NoPanic
    BY Zenon DEF IInv, BuffersSuffice
  <2> USE DEF IInv
  <2>1. ASSUME \A b \in Bufs : ~ Recyclable(b)
        PROVE  Cardinality({b \in Bufs : dirty[b] /\ refcnt[b] = 0})
                + Cardinality({u \in Uses : pc[u] # "idle"}) >= NBUF
    <3> DEFINE D == {b \in Bufs : dirty[b] /\ refcnt[b] = 0}
               R == {b \in Bufs : refcnt[b] # 0}
               Q == {u \in Uses : pc[u] # "idle"}
    <3>1. Bufs = D \cup R
      BY <2>1, Zenon DEF Recyclable
    <3>2. D \cap R = {}
      OBVIOUS
    <3>3. /\ IsFiniteSet(R) /\ Cardinality(R) \in Nat /\ Cardinality(Q) \in Nat
          /\ Cardinality(R) <= Cardinality(Q)
      BY UsersBound, Zenon
    <3>4. IsFiniteSet(Bufs) /\ Cardinality(Bufs) = NBUF
      <4>1. 1 \in Int /\ NBUF \in Int /\ 1 <= NBUF
        BY BcacheAssumption
      <4> QED
        BY <4>1, FS_Interval DEF Bufs
    <3>5. IsFiniteSet(D) /\ Cardinality(D) \in Nat
      <4>1. D \subseteq Bufs
        OBVIOUS
      <4> QED
        BY <3>4, <4>1, FS_Subset, FS_CardinalityType, Zenon
    <3>6. NBUF = Cardinality(D) + Cardinality(R) - 0
      <4>1. Cardinality(D \cup R) = Cardinality(D) + Cardinality(R) - Cardinality(D \cap R)
        BY <3>3, <3>5, FS_Union, Zenon
      <4>2. Cardinality(D \cap R) = 0
        BY <3>2, FS_EmptySet, Zenon
      <4> QED
        BY <3>1, <3>4, <4>1, <4>2, Zenon
    <3> HIDE DEF D, R, Q
    <3>7. Cardinality(D) + Cardinality(Q) >= NBUF
      BY <3>3, <3>5, <3>6
    <3> QED
      BY <3>7, Zenon DEF D, Q
  <2> QED
    BY <2>1, Zenon DEF NoPanic, Flags
<1> QED
  BY <1>1, Invariance, PTL

-----------------------------------------------------------------------------
(***************************************************************************)
(* Who changes the contents of a block                                     *)
(***************************************************************************)
\* bread finds a block in its buffer when that is valid, and on the disk otherwise.
LEMMA CurrentIs ==
    ASSUME OneBufferPerBlock, Flags, NEW k \in Blocks
    PROVE  /\ \A b \in Bufs : blockno[b] = k /\ valid[b] => Current(k) = data[b]
           /\ (\A b \in Bufs : blockno[b] = k => ~ valid[b]) => Current(k) = disk[k]
<1>1. ASSUME NEW b \in Bufs, blockno[b] = k, valid[b]
      PROVE  Current(k) = data[b]
  <2>1. \A c \in Bufs : blockno[c] = k => c = b
    BY <1>1, BcacheAssumption, Zenon DEF OneBufferPerBlock
  <2>2. (CHOOSE c \in Bufs : blockno[c] = k) = b
    BY <1>1, <2>1, Zenon
  <2> QED
    BY <1>1, <2>2, Zenon DEF Current
<1> QED
  BY <1>1, Zenon DEF Current, Flags

LEMMA CurrentIsAfter ==
    ASSUME OneBufferPerBlock', Flags', NEW k \in Blocks
    PROVE  /\ \A b \in Bufs : blockno'[b] = k /\ valid'[b] => Current(k)' = data'[b]
           /\ (\A b \in Bufs : blockno'[b] = k => ~ valid'[b]) => Current(k)' = disk'[k]
<1>1. ASSUME NEW b \in Bufs, blockno'[b] = k, valid'[b]
      PROVE  Current(k)' = data'[b]
  <2>1. \A c \in Bufs : blockno'[c] = k => c = b
    BY <1>1, BcacheAssumption, Zenon DEF OneBufferPerBlock
  <2>2. (CHOOSE c \in Bufs : blockno'[c] = k) = b
    BY <1>1, <2>1, Zenon
  <2> QED
    BY <1>1, <2>2, Zenon DEF Current
<1> QED
  BY <1>1, Zenon DEF Current, Flags

\* Nothing changes for k when its buffer, if it has one, and its block on the disk do not.
LEMMA CurrentKept ==
    ASSUME IInv, IInv', NEW k \in Blocks, blockno' = blockno, valid' = valid,
           \A b \in Bufs : blockno[b] = k => data'[b] = data[b],
           disk'[k] = disk[k]
    PROVE  Current(k)' = Current(k)
<1>1. CASE \E b \in Bufs : blockno[b] = k /\ valid[b]
  <2>1. PICK b \in Bufs : blockno[b] = k /\ valid[b]
    BY <1>1, Zenon
  <2>2. Current(k) = data[b]
    BY <2>1, CurrentIs, Zenon DEF IInv
  <2>3. Current(k)' = data'[b]
    BY <2>1, CurrentIsAfter, Zenon DEF IInv
  <2> QED
    BY <2>1, <2>2, <2>3, Zenon
<1>2. CASE \A b \in Bufs : blockno[b] = k => ~ valid[b]
  <2>1. Current(k) = disk[k]
    BY <1>2, CurrentIs, Zenon DEF IInv
  <2>2. Current(k)' = disk'[k]
    BY <1>2, CurrentIsAfter, Zenon DEF IInv
  <2> QED
    BY <2>1, <2>2, Zenon
<1> QED
  BY <1>1, <1>2, Zenon

\* A read from the disk makes a buffer valid, a write makes it clean: k is what it was.
LEMMA TransferKeeps ==
    ASSUME IInv, IInv', NEW k \in Blocks \ BadBlocks, NEW b \in Bufs,
           blockno[b] # None, Needed(b),
           blockno' = blockno, valid' = [valid EXCEPT ![b] = TRUE],
           \/ /\ dirty[b] /\ disk' = [disk EXCEPT ![blockno[b]] = data[b]]
              /\ data' = data
           \/ /\ ~ dirty[b] /\ disk' = disk
              /\ blockno[b] \notin BadBlocks =>
                    data' = [data EXCEPT ![b] = disk[blockno[b]]]
              /\ \A c \in Bufs \ {b} : data'[c] = data[c]
    PROVE  Current(k)' = Current(k)
<1> USE DEF IInv
<1>1. CASE blockno[b] = k
  <2>1. Current(k)' = data'[b]
    BY <1>1, CurrentIsAfter, ZenonT(30) DEF TypeOK
  <2>2. \A c \in Bufs : blockno[c] = k => c = b
    BY <1>1, Zenon DEF OneBufferPerBlock
  <2>3. CASE dirty[b]
    <3>1. valid[b] /\ data' = data
      BY <2>3, Zenon DEF Flags
    <3>2. Current(k) = data[b]
      BY <1>1, <3>1, CurrentIs, Zenon
    <3> QED
      BY <2>1, <3>1, <3>2, Zenon
  <2>4. CASE ~ dirty[b]
    <3>1. Current(k) = disk[k]
      BY <1>1, <2>2, <2>4, CurrentIs, Zenon DEF Needed
    <3> QED
      BY <1>1, <2>1, <2>4, <3>1, Zenon DEF TypeOK
  <2> QED
    BY <2>3, <2>4, Zenon
<1>2. CASE blockno[b] # k
  <2>1. disk'[k] = disk[k]
    BY <1>2, Zenon DEF TypeOK
  <2>2. \A c \in Bufs : blockno[c] = k => c # b /\ data'[c] = data[c] /\ valid'[c] = valid[c]
    BY <1>2, Zenon DEF TypeOK
  <2>3. CASE \E c \in Bufs : blockno[c] = k /\ valid[c]
    <3>1. PICK c \in Bufs : blockno[c] = k /\ valid[c]
      BY <2>3, Zenon
    <3>2. Current(k) = data[c]
      BY <3>1, CurrentIs, Zenon
    <3>3. Current(k)' = data'[c]
      BY <2>2, <3>1, CurrentIsAfter, Zenon
    <3> QED
      BY <2>2, <3>1, <3>2, <3>3, Zenon
  <2>4. CASE \A c \in Bufs : blockno[c] = k => ~ valid[c]
    <3>1. Current(k) = disk[k]
      BY <2>4, CurrentIs, Zenon
    <3>2. Current(k)' = disk'[k]
      BY <2>2, <2>4, CurrentIsAfter, Zenon
    <3> QED
      BY <2>1, <3>1, <3>2, Zenon
  <2> QED
    BY <2>3, <2>4, Zenon
<1> QED
  BY <1>1, <1>2, Zenon

\* bget recycles a buffer that holds what the disk holds.
LEMMA RecyclingKeeps ==
    ASSUME IInv, IInv', NEW k \in Blocks \ BadBlocks, NEW j \in Blocks,
           Cached(j) = {}, \E b \in Bufs : Recyclable(b),
           blockno' = [blockno EXCEPT ![Victim] = j], Reset(Victim),
           UNCHANGED <<data, disk>>
    PROVE  Current(k)' = Current(k)
<1> USE DEF IInv
<1>0. PICK v : v = Victim
  OBVIOUS
<1>1. /\ v \in Bufs /\ ~ dirty[v]
      /\ blockno' = [blockno EXCEPT ![v] = j] /\ valid' = [valid EXCEPT ![v] = FALSE]
  BY <1>0, VictimRecyclable, Zenon DEF Recyclable, Reset
<1>2. \A b \in Bufs : blockno[b] # j
  BY Zenon DEF Cached
<1>3. CASE \E c \in Bufs : c # v /\ blockno[c] = k /\ valid[c]
  <2>1. PICK c \in Bufs : c # v /\ blockno[c] = k /\ valid[c]
    BY <1>3, Zenon
  <2>2. Current(k) = data[c]
    BY <2>1, CurrentIs, Zenon
  <2>3. blockno'[c] = k /\ valid'[c]
    BY <1>1, <2>1 DEF TypeOK
  <2>4. Current(k)' = data'[c]
    BY <2>1, <2>3, CurrentIsAfter, Zenon
  <2> QED
    BY <2>2, <2>4, Zenon
<1>4. CASE ~ \E c \in Bufs : c # v /\ blockno[c] = k /\ valid[c]
  <2>1. \A c \in Bufs : blockno'[c] = k => ~ valid'[c]
    BY <1>1, <1>4 DEF TypeOK
  <2>2. Current(k)' = disk[k]
    BY <2>1, CurrentIsAfter, Zenon
  <2>3. CASE blockno[v] = k /\ valid[v]
    <3>1. Current(k) = data[v]
      BY <1>1, <2>3, CurrentIs, Zenon
    <3>2. data[v] = disk[k]
      BY <1>1, <2>3, Zenon DEF Coherent
    <3> QED
      BY <2>2, <3>1, <3>2, Zenon
  <2>4. CASE ~ (blockno[v] = k /\ valid[v])
    <3>1. \A c \in Bufs : blockno[c] = k => ~ valid[c]
      BY <1>4, <2>4, Zenon
    <3> QED
      BY <2>2, <3>1, CurrentIs, Zenon
  <2> QED
    BY <2>3, <2>4, Zenon
<1> QED
  BY <1>3, <1>4, Zenon

\* What bread finds in a block changes only by a step of the process that has the block.
THEOREM OnlyHolderChangesHolds == Spec => OnlyHolderChanges
<1>1. ASSUME IInv, IInv', [Next]_vars, NEW k \in Blocks \ BadBlocks,
             \A u \in Uses : ~ (pc[u] = "held" /\ blockno[buf[u]] = k)
      PROVE  Current(k)' = Current(k)
  <2> USE <1>1 DEF IInv
  <2>1. CASE UNCHANGED <<blockno, valid, data, disk>>
    BY <2>1, CurrentKept, Zenon
  <2>2. CASE ideintr
    <3>0. PICK b : b = Head(idequeue)
      OBVIOUS
    <3>1. idequeue # <<>> /\ command = Command(b)
      BY <2>2, <3>0, ZenonT(30) DEF ideintr, Queued, StartNext
    <3>2. b \in Bufs /\ Needed(b) /\ blockno[b] # None
      BY <3>0, <3>1, HeadInUse, BcacheAssumption, Zenon
    <3> QED
      BY <2>2, <3>0, <3>1, <3>2, TransferKeeps, Zenon DEF ideintr, Command, Transfers, TypeOK
  <2>3. ASSUME NEW u \in Uses, Step(u)
        PROVE  Current(k)' = Current(k)
    <3>1. ASSUME NEW j \in Blocks, bget(u, j)
          PROVE  Current(k)' = Current(k)
      BY <2>1, <3>1, RecyclingKeeps, Zenon DEF bget, ide
    <3>2. ASSUME NEW v \in Values, log_write(u, v) \/ bwrite(u, v)
          PROVE  Current(k)' = Current(k)
      <4>1. /\ pc[u] = "held" /\ data' = [data EXCEPT ![buf[u]] = v]
            /\ UNCHANGED <<blockno, valid, disk>>
        BY <3>2, Zenon DEF log_write, bwrite, Go, ide
      <4>2. \A b \in Bufs : blockno[b] = k => data'[b] = data[b]
        BY <4>1, Zenon DEF TypeOK
      <4> QED
        BY <4>1, <4>2, CurrentKept, Zenon
    <3>3. CASE MemRw(u)
      <4>1. pc[u] = "rw"
        BY <3>3, Zenon DEF MemRw, Go
      <4>2. buf[u] \in Bufs /\ blockno[buf[u]] # None /\ Needed(buf[u])
        BY <4>1, HasBuffer, BcacheAssumption, Zenon DEF Flags
      <4>3. PICK b : b = buf[u]
        OBVIOUS
      <4> QED
        BY <3>3, <4>2, <4>3, TransferKeeps, Zenon DEF MemRw, TypeOK
    <3>4. CASE brelse(u) \/ bread(u) \/ BrelseUnref(u) \/ iderw(u) \/ IderwWoken(u) \/ Kill(u)
      BY <2>1, <3>4, Zenon DEF brelse, bread, BrelseUnref, iderw, IderwWoken, Kill, ide
    <3> QED
      BY <2>3, <3>1, <3>2, <3>3, <3>4, Zenon DEF Step, Running
  <2> QED
    BY <2>1, <2>2, <2>3, Zenon DEF Next, vars
<1>2. IInv /\ IInv' /\ [Next]_vars =>
        [\A k \in Blocks \ BadBlocks :
            Current(k)' # Current(k) =>
                \E u \in Uses : pc[u] = "held" /\ blockno[buf[u]] = k]_vars
  BY <1>1, Zenon
<1> QED
  BY <1>2, Invariance, PTL DEF Spec, OnlyHolderChanges
=============================================================================

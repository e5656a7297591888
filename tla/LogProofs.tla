----------------------------- MODULE LogProofs ------------------------------
(***************************************************************************)
(* The inductive invariant of the log, and the theorems that follow from it. *)
(* To a disk that changes a transaction at a time (module AtomicDisk) every *)
(* step of the log is a step or no change.                                 *)
(*                                                                         *)
(* The proofs hold for any number of processes, blocks and values, and any *)
(* sizes that satisfy LogAssumption.                                       *)
(***************************************************************************)
EXTENDS Log, FiniteSetTheorems, TLAPS

-----------------------------------------------------------------------------
(***************************************************************************)
(* The inductive invariant                                                 *)
(***************************************************************************)
CommitPhases == {"write_log", "commit", "install", "erase", "done"}
BootPhases == {"boot", "recover", "clear"}

\* Who may be where: calls and a commit exclude each other, and nobody is in the file
\* system while it recovers.
Control ==
    /\ outstanding = Cardinality(Active)
    /\ committing <=> phase \in CommitPhases
    /\ phase # "up" => Active = {}
    /\ phase \in BootPhases => \A p \in Procs : pc[p] = "idle"
    /\ NoPanic
    /\ \A p \in Procs : buf[p] # NoBlock <=> pc[p] = "log_write"

Distinct(h) == \A i, j \in 1..Len(h) : h[i] = h[j] => i = j

\* The blocks that the calls in A may still log if they have logged the blocks w, as pairs of
\* a process and a number.
ToCome(A, w) == {x \in A \X (1..OpBlocks) : x[2] <= OpBlocks - Cardinality(w[x[1]])}

\* The log has room for these, one block to spare: log_write stops at a full log even if
\* it is called for a block that is there already.
Space ==
    /\ \A p \in Procs : IsFiniteSet(wrote[p])
    /\ \A p \in Active : wrote[p] \subseteq Logged(lh)
    /\ \A p \in Procs : pc[p] = "log_write" => Cardinality(wrote[p] \cup {buf[p]}) <= OpBlocks
    /\ Active # {} => Len(lh) + Cardinality(ToCome(Active, wrote)) <= LOGSIZE - 2
    /\ Len(lh) <= LOGSIZE - 2 /\ Len(dhead) <= LOGSIZE - 2
    /\ Distinct(lh) /\ Distinct(dhead)

\* What is in the log, and how far a commit or a recovery has come.
Progress ==
    /\ phase = "up" /\ Active = {} => lh = <<>>
    /\ phase = "done" => lh = <<>>
    /\ phase \in {"write_log", "install", "recover"} => tail < Len(lh)
    /\ phase = "commit" => Len(lh) > 0
    /\ phase \in {"up", "write_log", "commit", "done"} => dhead = <<>>
    /\ phase \in {"install", "erase", "recover", "clear"} => dhead = lh
    /\ phase = "boot" => tail = 0

Past(n, x) == \A i \in 1..n : dlog[i] = x[lh[i]]

\* The contents of the disk, the log and the cache.
Contents ==
    /\ phase \in {"up", "write_log", "commit"} =>
        /\ \A b \in Blocks : cache[b] = home[b] \/ b \in Logged(lh) \/ \E p \in Procs : buf[p] = b
        /\ dirty = Logged(lh)
    /\ phase = "write_log" => Past(tail, cache)
    /\ phase \in {"commit", "install", "erase"} => Past(Len(lh), cache)
    /\ phase = "install" =>
        /\ \A b \in Blocks : cache[b] = home[b] \/ \E i \in (tail + 1)..Len(lh) : lh[i] = b
        /\ dirty = {lh[i] : i \in (tail + 1)..Len(lh)}
    /\ phase \in {"erase", "done"} \cup BootPhases => cache = home /\ dirty = {}
    /\ phase = "recover" => Past(tail, home)
    /\ phase = "clear" => Past(Len(lh), home)

IInv == TypeOK /\ Control /\ Space /\ Progress /\ Contents /\ SleeperHasWaker

LEMMA Sizes ==
  /\ OpBlocks \in Nat /\ MAXOPBLOCKS \in Nat /\ LOGSIZE \in Nat /\ NLOG \in Nat
  /\ OpBlocks < MAXOPBLOCKS /\ MAXOPBLOCKS < LOGSIZE /\ LOGSIZE <= NLOG
BY LogAssumption, Zenon

LEMMA ActiveProcs == Active \in SUBSET Procs /\ Active' \in SUBSET Procs
BY Zenon DEF Active

\* A buffer is locked only by a call.
LEMMA QuietCache ==
  ASSUME IInv, Active = {}
  PROVE  \A p \in Procs : buf[p] = NoBlock
BY Zenon DEF IInv, Control, Active

-----------------------------------------------------------------------------
(***************************************************************************)
(* Commit                                                                  *)
(***************************************************************************)
\* The header as a sequence of different blocks, and where the loops are in it.
LEMMA InHeader ==
  ASSUME IInv
  PROVE  /\ Len(lh) \in Nat /\ Len(lh) <= LOGSIZE - 2 /\ tail \in Nat
         /\ \A i \in 1..Len(lh) : lh[i] \in Blocks /\ i \in 1..LOGSIZE
BY Sizes DEF IInv, TypeOK, Space

\* In a step of commit or of recovery nobody is in a call.
LEMMA CallsKept ==
  ASSUME IInv, phase # "up", UNCHANGED <<outstanding, calls>>
  PROVE  /\ Active = {} /\ Active' = {}
         /\ \A p \in Procs : buf[p] = NoBlock /\ pc'[p] # "log_write"
         /\ outstanding' = Cardinality(Active') /\ NoPanic'
         /\ \A p \in Procs : buf'[p] # NoBlock <=> pc'[p] = "log_write"
         /\ outstanding' \in Nat /\ pc' \in [Procs -> PCs]
         /\ buf' \in [Procs -> Blocks \cup {NoBlock}] /\ wrote' \in [Procs -> SUBSET Blocks]
<1>1. Active' = Active /\ Active = {}
  BY Zenon DEF IInv, Control, Active, calls
<1> QED
  BY <1>1, Zenon DEF IInv, Control, TypeOK, NoPanic, Active, calls

LEMMA WriteLogInv == IInv /\ write_log => IInv'
<1> SUFFICES ASSUME IInv, write_log PROVE IInv'
  OBVIOUS
<1> USE DEF IInv
<1>1. phase = "write_log" /\ tail < Len(lh) /\ tail + 1 \in 1..Len(lh)
  BY InHeader DEF write_log, Progress
<1>2. /\ tail' = tail + 1 /\ phase' \in {"write_log", "commit"}
      /\ phase' = "write_log" => tail' < Len(lh)
      /\ phase' = "commit" => tail' = Len(lh)
  BY <1>1, InHeader DEF write_log, MoreToLog
<1>3. TypeOK'
  BY <1>1, <1>2, InHeader, CallsKept, Sizes DEF write_log, TypeOK, Phases
<1>4. Control'
  BY <1>1, <1>2, CallsKept, Zenon DEF write_log, Control, CommitPhases, BootPhases
<1>5. Space'
  BY <1>1, CallsKept, Zenon DEF write_log, Space, calls
<1>6. Progress'
  BY <1>1, <1>2, InHeader DEF write_log, Progress
<1>7. \A i \in 1..(tail + 1) : dlog'[i] = cache[lh[i]]
  <2>1. \A i \in 1..(tail + 1) : i \in 1..LOGSIZE /\ (i = tail + 1 \/ i \in 1..tail)
    BY <1>1, InHeader
  <2>2. \A i \in 1..tail : dlog[i] = cache[lh[i]]
    BY <1>1, Zenon DEF Contents, Past
  <2>3. dlog' = [dlog EXCEPT ![tail + 1] = cache[lh[tail + 1]]] /\ dlog \in [1..LOGSIZE -> Vals]
    BY Zenon DEF write_log, TypeOK
  <2> QED
    BY <2>1, <2>2, <2>3, Zenon
<1>8. Contents'
  BY <1>1, <1>2, <1>7 DEF write_log, Contents, Past, calls, BootPhases
<1>9. SleeperHasWaker'
  BY <1>1, Zenon DEF write_log, Control, CommitPhases, SleeperHasWaker
<1> QED
  BY <1>3, <1>4, <1>5, <1>6, <1>8, <1>9, Zenon

LEMMA CommitInv == IInv /\ commit => IInv'
<1> SUFFICES ASSUME IInv, commit PROVE IInv'
  OBVIOUS
<1> USE DEF IInv
<1>1. phase = "commit" /\ phase' = "install" /\ tail' = 0 /\ Len(lh) > 0 /\ dhead' = lh
  BY Zenon DEF commit, Progress
<1>2. TypeOK'
  BY <1>1, CallsKept, Sizes DEF commit, TypeOK, Phases
<1>3. Control'
  BY <1>1, CallsKept, Zenon DEF commit, Control, CommitPhases, BootPhases
<1>4. Space'
  BY <1>1, CallsKept, Zenon DEF commit, Space, calls
<1>5. Progress'
  BY <1>1, Zenon DEF commit, Progress
<1>6. Contents'
  <2>1. \A b \in Blocks : cache[b] = home[b] \/ b \in Logged(lh)
    <3>1. \A p \in Procs : buf[p] = NoBlock
      BY <1>1, CallsKept, Zenon DEF commit
    <3> QED
      BY <1>1, <3>1, LogAssumption, Zenon DEF Contents
  <2> QED
    BY <1>1, <2>1, InHeader DEF commit, Contents, Past, Logged, BootPhases
<1>7. SleeperHasWaker'
  BY <1>1, Zenon DEF commit, Control, CommitPhases, SleeperHasWaker
<1> QED
  BY <1>2, <1>3, <1>4, <1>5, <1>6, <1>7, Zenon

\* The copy in the cache is the one in the log, so install_trans changes only the home.
LEMMA InstallInv == IInv /\ install_trans => IInv'
<1> SUFFICES ASSUME IInv, install_trans PROVE IInv'
  OBVIOUS
<1> USE DEF IInv
<1> DEFINE b == lh[tail + 1]
<1>1. phase = "install" /\ tail < Len(lh) /\ tail + 1 \in 1..Len(lh) /\ b \in Blocks
  BY InHeader DEF install_trans, Progress
<1>2. /\ tail' = tail + 1 /\ phase' \in {"install", "erase"}
      /\ phase' = "install" => tail' < Len(lh)
      /\ phase' = "erase" => tail' = Len(lh)
  BY <1>1, InHeader DEF install_trans, InstallBlock
<1>3. dlog[tail + 1] = cache[b]
  BY <1>1, Zenon DEF Contents, Past
<1>4. cache' = cache
  BY <1>1, <1>3, Zenon DEF install_trans, InstallBlock, TypeOK
<1>5. home' = [home EXCEPT ![b] = cache[b]] /\ dirty' = dirty \ {b}
  BY <1>3, Zenon DEF install_trans, InstallBlock
<1>6. TypeOK'
  BY <1>1, <1>2, <1>4, <1>5, InHeader, CallsKept, Sizes
  DEF install_trans, InstallBlock, TypeOK, Phases
<1>7. Control'
  BY <1>1, <1>2, CallsKept, Zenon DEF install_trans, Control, CommitPhases, BootPhases
<1>8. Space'
  BY <1>1, CallsKept, Zenon DEF install_trans, InstallBlock, Space, calls
<1>9. Progress'
  BY <1>1, <1>2, InHeader, Zenon DEF install_trans, InstallBlock, Progress
<1>10. Contents'
  <2>1. /\ \A i \in (tail + 1)..Len(lh) : i = tail + 1 \/ i \in (tail + 2)..Len(lh)
        /\ \A i \in (tail + 2)..Len(lh) : i \in (tail + 1)..Len(lh) /\ lh[i] # b
    <3>1. /\ \A i \in (tail + 1)..Len(lh) : i = tail + 1 \/ i \in (tail + 2)..Len(lh)
          /\ \A i \in (tail + 2)..Len(lh) :
                i \in (tail + 1)..Len(lh) /\ i \in 1..Len(lh) /\ i # tail + 1
      BY <1>1, InHeader
    <3> QED
      BY <1>1, <3>1, Zenon DEF Space, Distinct
  <2>2. \A c \in Blocks : cache[c] = home'[c] \/ \E i \in (tail + 2)..Len(lh) : lh[i] = c
    BY <1>1, <1>5, <2>1, Zenon DEF Contents, TypeOK
  <2>3. dirty' = {lh[i] : i \in (tail + 2)..Len(lh)}
    BY <1>1, <1>5, <2>1, InHeader DEF Contents
  <2>4. phase' = "erase" => (tail + 2)..Len(lh) = {}
    BY <1>2, InHeader
  <2>5. phase' = "erase" => cache = home' /\ dirty' = {}
    <3>1. cache \in [Blocks -> Vals] /\ home' \in [Blocks -> Vals]
      BY <1>6, Zenon DEF TypeOK
    <3>2. ASSUME phase' = "erase" PROVE \A c \in Blocks : cache[c] = home'[c]
      BY <2>2, <2>4, <3>2, Zenon
    <3> QED
      BY <2>3, <2>4, <3>1, <3>2
  <2>6. UNCHANGED <<lh, dlog>> /\ tail' + 1 = tail + 2
    BY <1>2, InHeader DEF install_trans, InstallBlock
  <2> QED
    BY <1>1, <1>2, <1>4, <2>2, <2>3, <2>5, <2>6 DEF Contents, Past, BootPhases
<1>11. SleeperHasWaker'
  BY <1>1, Zenon DEF install_trans, Control, CommitPhases, SleeperHasWaker
<1> QED
  BY <1>6, <1>7, <1>8, <1>9, <1>10, <1>11, Zenon

LEMMA EraseInv == IInv /\ erase => IInv'
<1> SUFFICES ASSUME IInv, erase PROVE IInv'
  OBVIOUS
<1> USE DEF IInv
<1>1. /\ phase = "erase" /\ phase' = "done" /\ lh' = <<>> /\ dhead' = <<>>
      /\ UNCHANGED <<home, dlog, cache, dirty, outstanding, committing, tail, calls>>
  BY Zenon DEF erase
<1>2. TypeOK'
  BY <1>1, CallsKept DEF TypeOK, Phases
<1>3. Control'
  BY <1>1, CallsKept, Zenon DEF Control, CommitPhases, BootPhases
<1>4. Space'
  BY <1>1, CallsKept, Sizes DEF Space, Distinct, calls
<1>5. Progress' /\ Contents' /\ SleeperHasWaker'
  BY <1>1, Zenon DEF Progress, Contents, BootPhases, Control, CommitPhases, SleeperHasWaker
<1> QED
  BY <1>2, <1>3, <1>4, <1>5, Zenon

\* The last process out wakes those who wait in begin_op.
LEMMA CommittedInv ==
  ASSUME IInv, NEW p \in Procs, committed(p)
  PROVE  IInv'
<1> USE DEF IInv
<1>1. /\ phase = "done" /\ phase' = "up" /\ committing' = FALSE /\ lh = <<>> /\ dhead = <<>>
      /\ UNCHANGED <<home, dlog, dhead, cache, dirty, lh, outstanding, tail, buf, wrote>>
  BY Zenon DEF committed, Progress, disk
<1>2. \A q \in Procs : pc'[q] = IF q = p THEN "idle" ELSE IF pc[q] = "sleep" THEN "begin" ELSE pc[q]
  BY Zenon DEF committed, AfterCommit, Woken
<1>3. Active = {} /\ Active' = {}
  <2>1. Active = {}
    BY <1>1, Zenon DEF Control
  <2> QED
    BY <1>2, <2>1, Zenon DEF Active
<1>4. TypeOK'
  <2>1. pc' \in [Procs -> PCs]
    BY <1>2, Zenon DEF committed, AfterCommit, Woken, TypeOK, PCs
  <2> QED
    BY <1>1, <2>1, Zenon DEF TypeOK, Phases
<1>5. Control'
  <2>1. NoPanic' /\ \A q \in Procs : buf'[q] # NoBlock <=> pc'[q] = "log_write"
    BY <1>1, <1>2, <1>3, Zenon DEF Control, NoPanic, Active
  <2> QED
    BY <1>1, <1>3, <2>1, Zenon DEF Control, CommitPhases, BootPhases
<1>6. Space'
  BY <1>1, <1>2, <1>3, Zenon DEF Space
<1>7. Progress' /\ Contents'
  BY <1>1 DEF Progress, Contents, Logged, BootPhases
<1>8. SleeperHasWaker'
  BY <1>2, Zenon DEF SleeperHasWaker
<1> QED
  BY <1>4, <1>5, <1>6, <1>7, <1>8, Zenon

-----------------------------------------------------------------------------
(***************************************************************************)
(* Recovery                                                                *)
(***************************************************************************)
LEMMA ReadHeadInv == IInv /\ read_head => IInv'
<1> SUFFICES ASSUME IInv, read_head PROVE IInv'
  OBVIOUS
<1> USE DEF IInv
<1>1. /\ phase = "boot" /\ lh' = dhead /\ tail = 0
      /\ phase' = IF Len(dhead) > 0 THEN "recover" ELSE "clear"
      /\ UNCHANGED <<home, dlog, dhead, cache, dirty, outstanding, committing, tail, calls>>
  BY Zenon DEF read_head, Progress, disk
<1>2. Len(dhead) \in Nat /\ dhead \in Seq(Blocks)
  BY DEF TypeOK
<1>3. TypeOK'
  BY <1>1, <1>2, CallsKept, Zenon DEF TypeOK, Phases
<1>4. Control'
  BY <1>1, CallsKept, Zenon DEF Control, CommitPhases, BootPhases, calls
<1>5. Space'
  BY <1>1, CallsKept, Zenon DEF Space, calls
<1>6. Progress'
  BY <1>1, <1>2, Zenon DEF Progress
<1>7. Contents'
  BY <1>1, <1>2 DEF Contents, Past, BootPhases
<1>8. SleeperHasWaker'
  BY <1>1, Zenon DEF Control, SleeperHasWaker, BootPhases, calls
<1> QED
  BY <1>3, <1>4, <1>5, <1>6, <1>7, <1>8, Zenon

\* The blocks of the header are different, so what is installed stays installed.
LEMMA RecoverInv == IInv /\ recover_install => IInv'
<1> SUFFICES ASSUME IInv, recover_install PROVE IInv'
  OBVIOUS
<1> USE DEF IInv
<1> DEFINE b == lh[tail + 1]
<1>1. phase = "recover" /\ tail < Len(lh) /\ tail + 1 \in 1..Len(lh) /\ b \in Blocks
  BY InHeader DEF recover_install, Progress
<1>2. /\ tail' = tail + 1 /\ phase' \in {"recover", "clear"}
      /\ phase' = "recover" => tail' < Len(lh)
      /\ phase' = "clear" => tail' = Len(lh)
  BY <1>1, InHeader DEF recover_install, InstallBlock
<1>3. UNCHANGED <<lh, dlog, dhead, outstanding, committing, calls>>
  BY Zenon DEF recover_install, InstallBlock
<1>4. home' = [home EXCEPT ![b] = dlog[tail + 1]] /\ cache' = home' /\ dirty' = {}
  BY <1>1, Zenon DEF recover_install, InstallBlock, Contents, BootPhases
<1>5. tail + 1 \in 1..LOGSIZE /\ dlog[tail + 1] \in Vals
  BY <1>1, InHeader, Zenon DEF TypeOK
<1>6. TypeOK'
  BY <1>1, <1>2, <1>3, <1>4, <1>5, CallsKept DEF TypeOK, Phases
<1>7. Control'
  BY <1>1, <1>2, <1>3, CallsKept, Zenon DEF Control, CommitPhases, BootPhases, calls
<1>8. Space'
  BY <1>1, <1>3, CallsKept, Zenon DEF Space, calls
<1>9. Progress'
  BY <1>1, <1>2, <1>3, Zenon DEF Progress
<1>10. Contents'
  <2>1. \A i \in 1..(tail + 1) :
            i \in 1..Len(lh) /\ (i = tail + 1 \/ (i \in 1..tail /\ i # tail + 1))
    BY <1>1, InHeader
  <2>2. \A i \in 1..tail : dlog[i] = home[lh[i]]
    BY <1>1, Zenon DEF Contents, Past
  <2>3. \A i \in 1..(tail + 1) : i # tail + 1 => lh[i] # b /\ lh[i] \in Blocks
    BY <1>1, <2>1, InHeader, Zenon DEF Space, Distinct
  <2>4. home'[b] = dlog[tail + 1] /\ \A c \in Blocks : c # b => home'[c] = home[c]
    BY <1>1, <1>4, Zenon DEF TypeOK
  <2>5. \A i \in 1..(tail + 1) : dlog[i] = home'[lh[i]]
    BY <2>1, <2>2, <2>3, <2>4, Zenon
  <2>6. Past(tail, home)' /\ (phase' = "clear" => Past(Len(lh), home)')
    BY <1>2, <1>3, <2>5, Zenon DEF Past
  <2> QED
    BY <1>2, <1>4, <2>6, Zenon DEF Contents, BootPhases
<1>11. SleeperHasWaker'
  BY <1>1, <1>3, Zenon DEF Control, SleeperHasWaker, BootPhases, calls
<1> QED
  BY <1>6, <1>7, <1>8, <1>9, <1>10, <1>11, Zenon

LEMMA ClearInv == IInv /\ recover_clear => IInv'
<1> SUFFICES ASSUME IInv, recover_clear PROVE IInv'
  OBVIOUS
<1> USE DEF IInv
<1>1. /\ phase = "clear" /\ phase' = "up" /\ lh' = <<>> /\ dhead' = <<>>
      /\ UNCHANGED <<home, dlog, cache, dirty, outstanding, committing, tail, calls>>
  BY Zenon DEF recover_clear
<1>2. TypeOK'
  BY <1>1, CallsKept DEF TypeOK, Phases
<1>3. Control'
  BY <1>1, CallsKept, Zenon DEF Control, CommitPhases, BootPhases
<1>4. Space'
  BY <1>1, CallsKept, Sizes DEF Space, Distinct, calls
<1>5. Progress' /\ Contents'
  BY <1>1 DEF Progress, Contents, Logged, BootPhases
<1>6. SleeperHasWaker'
  BY <1>1, Zenon DEF Control, SleeperHasWaker, BootPhases, calls
<1> QED
  BY <1>2, <1>3, <1>4, <1>5, <1>6, Zenon

-----------------------------------------------------------------------------
(***************************************************************************)
(* What recovery makes of the disk                                         *)
(***************************************************************************)
\* Recovered, of a header h, log blocks l and home blocks m.
Replay(h, l, m) ==
    [b \in Blocks |->
        IF b \in Logged(h)
        THEN l[CHOOSE i \in 1..Len(h) :
                    /\ h[i] = b
                    /\ \A j \in (i + 1)..Len(h) : h[j] # b]
        ELSE m[b]]

LEMMA RecoveredReplays ==
  Recovered = Replay(dhead, dlog, home) /\ Recovered' = Replay(dhead', dlog', home')
BY Zenon DEF Recovered, Replay, Logged

\* A header without repetitions names one log block for each home block in it.
LEMMA ReplayOf ==
  ASSUME NEW h \in Seq(Blocks), Distinct(h), NEW l, NEW m
  PROVE  /\ \A i \in 1..Len(h) : Replay(h, l, m)[h[i]] = l[i]
         /\ \A b \in Blocks : b \notin Logged(h) => Replay(h, l, m)[b] = m[b]
<1>1. ASSUME NEW i \in 1..Len(h) PROVE Replay(h, l, m)[h[i]] = l[i]
  <2> DEFINE P(k) == h[k] = h[i] /\ \A j \in (k + 1)..Len(h) : h[j] # h[i]
             c == CHOOSE k \in 1..Len(h) : P(k)
  <2>1. \A j \in (i + 1)..Len(h) : j \in 1..Len(h) /\ j # i
    OBVIOUS
  <2>2. P(i)
    BY <2>1, Zenon DEF Distinct
  <2>3. c \in 1..Len(h) /\ P(c)
    BY <2>2, Zenon
  <2>4. c = i
    BY <2>3, Zenon DEF Distinct
  <2>5. h[i] \in Blocks /\ h[i] \in Logged(h)
    BY DEF Logged
  <2> QED
    BY <2>4, <2>5, Zenon DEF Replay
<1>2. ASSUME NEW b \in Blocks, b \notin Logged(h) PROVE Replay(h, l, m)[b] = m[b]
  BY <1>2, Zenon DEF Replay
<1> QED
  BY <1>1, <1>2, Zenon

\* An empty header changes nothing.
LEMMA ReplayNothing ==
  ASSUME NEW l, NEW m \in [Blocks -> Vals]
  PROVE  Replay(<<>>, l, m) = m
<1>1. Logged(<<>>) = {}
  BY DEF Logged
<1> QED
  BY <1>1, Zenon DEF Replay

\* A header whose log blocks agree with x, as do the home blocks that it does not name.
LEMMA ReplayAtHome ==
  ASSUME NEW h \in Seq(Blocks), Distinct(h), NEW l, NEW m, NEW x \in [Blocks -> Vals],
         \A i \in 1..Len(h) : l[i] = x[h[i]],
         \A b \in Blocks : b \notin Logged(h) => m[b] = x[b]
  PROVE  Replay(h, l, m) = x
<1>1. \A b \in Blocks : Replay(h, l, m)[b] = x[b]
  BY ReplayOf DEF Logged
<1> QED
  BY <1>1, Zenon DEF Replay

\* Installing a block that the header names changes nothing either.
LEMMA ReplayInstalled ==
  ASSUME NEW h \in Seq(Blocks), NEW l, NEW m, NEW n, NEW c \in Logged(h),
         \A b \in Blocks : b # c => n[b] = m[b]
  PROVE  Replay(h, l, n) = Replay(h, l, m)
<1>1. \A b \in Blocks : b \notin Logged(h) => n[b] = m[b]
  OBVIOUS
<1> QED
  BY <1>1 DEF Replay

-----------------------------------------------------------------------------
(***************************************************************************)
(* The steps of the log, as AtomicDisk sees them                           *)
(***************************************************************************)
Booting == phase \in {"boot", "recover", "clear"}

\* The state of the atomic disk, and what may happen to it in a step.
Seen == IF Booting THEN Recovered ELSE cache

AtomicStep ==
    \/ \E p \in Procs :
        \/ p \notin Active /\ Active' = Active \cup {p} /\ UNCHANGED <<Recovered, Seen>>
        \/ p \in Active /\ Active' = Active \ {p} /\ UNCHANGED <<Recovered, Seen>>
    \/ \E p \in Procs, b \in Blocks, v \in Vals :
        p \in Active /\ Seen' = [Seen EXCEPT ![b] = v] /\ UNCHANGED <<Recovered, Active>>
    \/ Active = {} /\ Recovered' = Seen /\ UNCHANGED <<Seen, Active>>
    \/ Seen' = Recovered /\ Active' = {} /\ UNCHANGED Recovered
    \/ UNCHANGED <<Recovered, Seen, Active>>

LEMMA AtomicStepIs == AtomicStep => [Atomic!Next]_(Atomic!vars)
BY Zenon DEF AtomicStep, Atomic!Next, Atomic!vars, Atomic!Begin, Atomic!End, Atomic!Write,
       Atomic!Commit, Atomic!Crash, Seen, Booting

\* The disk is as it was, hence what a reboot makes of it.
LEMMA RecoveredKept == UNCHANGED <<home, dlog, dhead>> => Recovered' = Recovered
BY RecoveredReplays, Zenon

\* The system calls, as steps of the atomic disk.
LEMMA CallSteps ==
  ASSUME IInv, NEW p \in Procs,
         \/ begin_op(p) \/ log_write(p) \/ end_op(p) \/ committed(p)
         \/ \E b \in Blocks, v \in Vals : Modify(p, b, v)
  PROVE  AtomicStep
<1> USE DEF IInv
<1>1. CASE begin_op(p)
  <2>1. Recovered' = Recovered /\ Seen' = Seen
    BY <1>1, RecoveredKept, Zenon DEF begin_op, disk, Seen, Booting
  <2>2. Active' = Active \/ (p \notin Active /\ Active' = Active \cup {p})
    BY <1>1, Zenon DEF begin_op, Active, TypeOK
  <2> QED
    BY <2>1, <2>2, Zenon DEF AtomicStep
<1>2. CASE log_write(p)
  <2>1. Recovered' = Recovered /\ Seen' = Seen
    BY <1>2, RecoveredKept, Zenon DEF log_write, disk, Seen, Booting
  <2>2. Active' = Active
    BY <1>2, Zenon DEF log_write, Active, TypeOK
  <2> QED
    BY <2>1, <2>2, Zenon DEF AtomicStep
<1>3. CASE end_op(p)
  <2>1. phase = "up" /\ ~ committing
    BY <1>3, Zenon DEF end_op, Active, Control, TypeOK, Phases, CommitPhases, BootPhases
  <2>2. phase' \in {"up", "write_log", "done"}
    BY <1>3, <2>1, Zenon DEF end_op
  <2>3. Recovered' = Recovered /\ Seen' = Seen
    BY <1>3, <2>1, <2>2, RecoveredKept, Zenon DEF end_op, disk, Seen, Booting
  <2>4. \/ pc' = [pc EXCEPT ![p] = "commit"]
        \/ pc' = [Woken(pc) EXCEPT ![p] = "idle"]
    BY <1>3, <2>1, Zenon DEF end_op
  <2>5. p \in Active /\ Active' = Active \ {p}
    BY <1>3, <2>4, Zenon DEF end_op, Active, Woken, TypeOK
  <2> QED
    BY <2>3, <2>5, Zenon DEF AtomicStep
<1>4. CASE committed(p)
  <2>1. Recovered' = Recovered /\ Seen' = Seen
    BY <1>4, RecoveredKept, Zenon DEF committed, disk, Seen, Booting
  <2>2. Active' = Active
    BY <1>4, Zenon DEF committed, AfterCommit, Woken, Active, TypeOK
  <2> QED
    BY <2>1, <2>2, Zenon DEF AtomicStep
<1>5. ASSUME NEW b \in Blocks, NEW v \in Vals, Modify(p, b, v) PROVE AtomicStep
  <2>1. p \in Active /\ phase = "up" /\ phase' = "up"
    BY <1>5, Zenon DEF Modify, Active, Control, TypeOK, Phases, CommitPhases, BootPhases
  <2>2. Recovered' = Recovered /\ Seen' = [Seen EXCEPT ![b] = v]
    BY <1>5, <2>1, RecoveredKept, Zenon DEF Modify, disk, Seen, Booting
  <2>3. Active' = Active
    BY <1>5, Zenon DEF Modify, Active, TypeOK
  <2> QED
    BY <2>1, <2>2, <2>3, Zenon DEF AtomicStep
<1> QED
  BY <1>1, <1>2, <1>3, <1>4, <1>5, Zenon

\* The writes of a commit: the one of the header is the commit of the atomic disk.
LEMMA CommitSteps ==
  ASSUME IInv, write_log \/ commit \/ install_trans \/ erase
  PROVE  AtomicStep
<1> USE DEF IInv
<1>1. phase # "up" /\ ~ Booting /\ ~ Booting' /\ UNCHANGED <<outstanding, calls>>
  BY Zenon DEF write_log, commit, install_trans, erase, Booting
<1>2. Active = {} /\ Active' = {}
  BY <1>1, CallsKept, Zenon
<1>3. cache \in [Blocks -> Vals] /\ home \in [Blocks -> Vals]
  BY Zenon DEF TypeOK
<1>4. CASE write_log
  <2>1. dhead = <<>> /\ dhead' = <<>> /\ home' = home /\ cache' = cache
    BY <1>4, Zenon DEF write_log, Progress
  <2>2. \A l : Replay(<<>>, l, home) = home
    BY <1>3, ReplayNothing, Zenon
  <2> QED
    BY <1>1, <1>2, <2>1, <2>2, RecoveredReplays, Zenon DEF AtomicStep, Seen
<1>5. CASE commit
  <2>1. dhead' = lh /\ UNCHANGED <<home, dlog, cache>> /\ lh \in Seq(Blocks) /\ Distinct(lh)
    BY <1>5, Zenon DEF commit, TypeOK, Space
  <2>2. \A i \in 1..Len(lh) : dlog[i] = cache[lh[i]]
    BY <1>5, Zenon DEF commit, Contents, Past
  <2>3. \A b \in Blocks : b \notin Logged(lh) => home[b] = cache[b]
    BY <1>2, <1>5, QuietCache, LogAssumption, Zenon DEF commit, Contents
  <2>4. Replay(lh, dlog, home) = cache
    BY <1>3, <2>1, <2>2, <2>3, ReplayAtHome, SMTT(30)
  <2> QED
    BY <1>1, <1>2, <2>1, <2>4, RecoveredReplays, Zenon DEF AtomicStep, Seen
<1>6. CASE install_trans
  <2>1. tail + 1 \in 1..Len(lh) /\ lh[tail + 1] \in Blocks /\ lh = dhead /\ dhead \in Seq(Blocks)
    BY <1>6, InHeader, SMTT(30) DEF install_trans, Progress, TypeOK
  <2>2. dlog[tail + 1] = cache[lh[tail + 1]]
    BY <1>6, <2>1, Zenon DEF install_trans, Contents, Past
  <2>3. /\ UNCHANGED <<dhead, dlog, cache>>
        /\ home' = [home EXCEPT ![dhead[tail + 1]] = dlog[tail + 1]]
    BY <1>3, <1>6, <2>1, <2>2, Zenon DEF install_trans, InstallBlock
  <2>4. Recovered' = Recovered
    <3>1. dhead[tail + 1] \in Logged(dhead)
      BY <2>1, Zenon DEF Logged
    <3>2. \A b \in Blocks : b # dhead[tail + 1] => home'[b] = home[b]
      BY <1>3, <2>3, Zenon
    <3>3. Replay(dhead, dlog, home') = Replay(dhead, dlog, home)
      BY <2>1, <3>1, <3>2, ReplayInstalled, Zenon
    <3> QED
      BY <2>3, <3>3, RecoveredReplays, Zenon
  <2> QED
    BY <1>1, <1>2, <2>3, <2>4, Zenon DEF AtomicStep, Seen
<1>7. CASE erase
  <2>1. dhead' = <<>> /\ UNCHANGED <<home, dlog, cache>> /\ cache = home /\ lh = dhead
    BY <1>7, Zenon DEF erase, Contents, Progress
  <2>2. Replay(<<>>, dlog, home) = home
    BY <1>3, ReplayNothing, Zenon
  <2>3. \A i \in 1..Len(dhead) : dlog[i] = home[dhead[i]]
    BY <1>7, <2>1, Zenon DEF erase, Contents, Past
  <2>4. Replay(dhead, dlog, home) = home
    <3>1. dhead \in Seq(Blocks) /\ Distinct(dhead)
      BY Zenon DEF TypeOK, Space
    <3> QED
      BY <1>3, <2>3, <3>1, ReplayAtHome
  <2> QED
    BY <1>1, <1>2, <2>1, <2>2, <2>4, RecoveredReplays, Zenon DEF AtomicStep, Seen
<1> QED
  BY <1>4, <1>5, <1>6, <1>7, Zenon

\* Losing the memory is the crash of the atomic disk, and recovery changes nothing.
LEMMA CrashSteps ==
  ASSUME IInv, crash \/ read_head \/ recover_install \/ recover_clear
  PROVE  AtomicStep
<1> USE DEF IInv
<1>1. cache \in [Blocks -> Vals] /\ home \in [Blocks -> Vals]
  BY Zenon DEF TypeOK
<1>2. CASE crash
  <2>1. Recovered' = Recovered /\ Booting' /\ Active' = {}
    BY <1>2, RecoveredKept, Zenon DEF crash, disk, Booting, Active
  <2> QED
    BY <2>1, Zenon DEF AtomicStep, Seen
<1>3. CASE read_head
  <2>1. Recovered' = Recovered /\ Booting /\ Booting' /\ Active' = Active
    BY <1>3, RecoveredKept, Zenon DEF read_head, disk, Booting, Active, calls
  <2> QED
    BY <2>1, Zenon DEF AtomicStep, Seen
<1>4. CASE recover_install
  <2>1. tail + 1 \in 1..Len(dhead) /\ lh = dhead /\ dhead \in Seq(Blocks)
    BY <1>4, InHeader DEF recover_install, Progress, TypeOK
  <2>2. UNCHANGED <<dhead, dlog>> /\ home' = [home EXCEPT ![dhead[tail + 1]] = dlog[tail + 1]]
    BY <1>4, <2>1, Zenon DEF recover_install, InstallBlock
  <2>3. Recovered' = Recovered
    <3>1. dhead[tail + 1] \in Logged(dhead)
      BY <2>1, Zenon DEF Logged
    <3>2. \A b \in Blocks : b # dhead[tail + 1] => home'[b] = home[b]
      BY <1>1, <2>2, Zenon
    <3>3. Replay(dhead, dlog, home') = Replay(dhead, dlog, home)
      BY <2>1, <3>1, <3>2, ReplayInstalled, Zenon
    <3> QED
      BY <2>2, <3>3, RecoveredReplays, Zenon
  <2>4. Booting /\ Booting' /\ Active' = Active
    BY <1>4, Zenon DEF recover_install, Booting, Active, calls
  <2> QED
    BY <2>3, <2>4, Zenon DEF AtomicStep, Seen
<1>5. CASE recover_clear
  <2>1. /\ dhead' = <<>> /\ UNCHANGED <<home, dlog, cache>> /\ cache = home /\ lh = dhead
        /\ Booting /\ ~ Booting' /\ Active' = Active
    BY <1>5, Zenon DEF recover_clear, Contents, Progress, Booting, BootPhases, Active, calls
  <2>2. Replay(<<>>, dlog, home) = home
    BY <1>1, ReplayNothing, Zenon
  <2>3. \A i \in 1..Len(dhead) : dlog[i] = home[dhead[i]]
    BY <1>5, <2>1, Zenon DEF recover_clear, Contents, Past
  <2>4. Replay(dhead, dlog, home) = home
    <3>1. dhead \in Seq(Blocks) /\ Distinct(dhead)
      BY Zenon DEF TypeOK, Space
    <3> QED
      BY <1>1, <2>3, <3>1, ReplayAtHome
  <2> QED
    BY <2>1, <2>2, <2>4, RecoveredReplays, Zenon DEF AtomicStep, Seen
<1> QED
  BY <1>2, <1>3, <1>4, <1>5, Zenon

-----------------------------------------------------------------------------
(***************************************************************************)
(* Counting the blocks that the calls may still write                      *)
(***************************************************************************)
LEMMA Counted ==
  ASSUME NEW A \in SUBSET Procs
  PROVE  /\ IsFiniteSet(A) /\ Cardinality(A) \in Nat
         /\ Cardinality(A) = 0 <=> A = {}
BY LogAssumption, FS_Subset, FS_CardinalityType, FS_EmptySet, Zenon

\* The blocks to come are OpBlocks for each call at most.
LEMMA ToComeCounted ==
  ASSUME NEW A \in SUBSET Procs, NEW w
  PROVE  /\ IsFiniteSet(ToCome(A, w)) /\ Cardinality(ToCome(A, w)) \in Nat
         /\ Cardinality(ToCome(A, w)) <= Cardinality(A) * OpBlocks
<1>1. IsFiniteSet(1..OpBlocks) /\ Cardinality(1..OpBlocks) = OpBlocks
  BY Sizes, FS_Interval
<1>2. /\ IsFiniteSet(A \X (1..OpBlocks))
      /\ Cardinality(A \X (1..OpBlocks)) = Cardinality(A) * OpBlocks
  <2>1. /\ IsFiniteSet(A \X (1..OpBlocks))
        /\ Cardinality(A \X (1..OpBlocks)) = Cardinality(A) * Cardinality(1..OpBlocks)
    BY <1>1, Counted, FS_Product, Zenon
  <2> QED
    BY <1>1, <2>1, Zenon
<1>3. ToCome(A, w) \in SUBSET (A \X (1..OpBlocks))
  BY Zenon DEF ToCome
<1> QED
  BY <1>2, <1>3, FS_Subset, FS_CardinalityType, Zenon

\* What begin_op reserves for k calls is more than they need, by one block for each.
LEMMA Reserve ==
  ASSUME NEW k \in Nat
  PROVE  k * OpBlocks + k <= k * MAXOPBLOCKS
<1>1. \A a, b, c \in Nat : b < c => a * b + a <= a * c
  OBVIOUS
<1> QED
  BY <1>1, Sizes, Zenon

LEMMA Room ==
  ASSUME NEW l \in Nat, NEW k \in Nat, NEW n \in Nat,
         k > 1, n <= k * OpBlocks, l + k * MAXOPBLOCKS <= LOGSIZE
  PROVE  l + n <= LOGSIZE - 2
<1>1. k * OpBlocks \in Nat /\ k * MAXOPBLOCKS \in Nat
  BY Sizes
<1>2. \A a, b \in Nat : n <= a /\ l + b <= LOGSIZE /\ a + k <= b => l + n <= LOGSIZE - 2
  BY Sizes
<1> QED
  BY <1>1, <1>2, Reserve, Zenon

LEMMA ToComeNat ==
  /\ Cardinality(ToCome(Active, wrote)) \in Nat
  /\ Cardinality(ToCome(Active', wrote)) \in Nat
  /\ Cardinality(ToCome(Active', wrote')) \in Nat
BY ActiveProcs, ToComeCounted, Zenon

-----------------------------------------------------------------------------
(***************************************************************************)
(* Boot, calls and crashes                                                 *)
(***************************************************************************)
LEMMA InitInv == Init => IInv
<1> SUFFICES ASSUME Init PROVE IInv
  OBVIOUS
<1>1. Active = {}
  BY Zenon DEF Init, Active
<1>2. Cardinality(Active) = 0
  BY <1>1, FS_EmptySet, Zenon
<1>3. TypeOK
  <2>1. dlog \in [1..LOGSIZE -> Vals]
    BY LogAssumption, Zenon DEF Init
  <2>2. tail \in 0..LOGSIZE
    BY Sizes DEF Init
  <2>3. pc \in [Procs -> PCs] /\ phase \in Phases
    BY Zenon DEF Init, PCs, Phases
  <2>4. buf \in [Procs -> Blocks \cup {NoBlock}] /\ wrote \in [Procs -> SUBSET Blocks]
    BY Zenon DEF Init
  <2>5. lh \in Seq(Blocks) /\ dhead \in Seq(Blocks)
    BY DEF Init
  <2> QED
    BY <2>1, <2>2, <2>3, <2>4, <2>5, Zenon DEF Init, TypeOK
<1>4. Control
  BY <1>1, <1>2, Zenon DEF Init, Control, NoPanic, CommitPhases, BootPhases
<1>5. Space
  BY <1>1, Sizes, FS_EmptySet DEF Init, Space, Distinct
<1>6. Progress /\ Contents /\ SleeperHasWaker
  BY <1>1 DEF Init, Progress, Contents, SleeperHasWaker, Past, Logged, BootPhases
<1> QED
  BY <1>3, <1>4, <1>5, <1>6, Zenon DEF IInv

\* A call that has to wait: there is somebody to wake it, because an empty log has room.
LEMMA BeginWaits ==
  ASSUME IInv, NEW p \in Procs, begin_op(p), committing \/ NoSpace(Len(lh))
  PROVE  IInv'
<1> USE DEF IInv
<1>1. Active' = Active
  BY Zenon DEF begin_op, Active, TypeOK
<1>2. TypeOK'
  BY Zenon DEF begin_op, TypeOK, PCs, disk
<1>3. Control'
  BY <1>1, Zenon DEF begin_op, Control, NoPanic, TypeOK, CommitPhases, BootPhases, disk
<1>4. committing \/ Active # {}
  <2>1. SUFFICES ASSUME ~ committing, Active = {} PROVE FALSE
    OBVIOUS
  <2>2. outstanding = 0 /\ phase = "up"
    BY <2>1, ActiveProcs, Counted, Zenon
    DEF begin_op, Control, TypeOK, Phases, CommitPhases, BootPhases
  <2>3. lh = <<>>
    BY <2>1, <2>2, Zenon DEF Progress
  <2> QED
    BY <2>1, <2>2, <2>3, Sizes DEF NoSpace
<1>5. SleeperHasWaker'
  BY <1>1, <1>4, Zenon DEF begin_op, SleeperHasWaker
<1>6. Space'
  <2>1. /\ UNCHANGED <<lh, dhead, wrote, buf>>
        /\ \A q \in Procs : pc'[q] = "log_write" => pc[q] = "log_write"
    BY Zenon DEF begin_op, disk, TypeOK
  <2> QED
    BY <1>1, <2>1 DEF Space, Logged, Distinct
<1>7. Progress' /\ Contents'
  BY <1>1 DEF begin_op, Progress, Contents, Logged, Past, disk, BootPhases
<1> QED
  BY <1>2, <1>3, <1>5, <1>6, <1>7, Zenon

\* A call that begins: what is reserved for the others and for itself fits into the log.
LEMMA BeginEnters ==
  ASSUME IInv, NEW p \in Procs, begin_op(p), ~ (committing \/ NoSpace(Len(lh)))
  PROVE  IInv'
<1> USE DEF IInv
<1>1. p \notin Active /\ Active' = Active \cup {p}
  BY Zenon DEF begin_op, Active, TypeOK
<1>2. phase = "up"
  BY Zenon DEF begin_op, Control, TypeOK, Phases, CommitPhases, BootPhases
<1>3. outstanding' = Cardinality(Active') /\ outstanding' = outstanding + 1
  BY <1>1, ActiveProcs, Counted, FS_AddElement, Zenon DEF begin_op, Reserved, Control
<1>4. TypeOK'
  BY DEF begin_op, Reserved, TypeOK, PCs, disk
<1>5. Control'
  BY <1>2, <1>3, Zenon DEF begin_op, Control, NoPanic, TypeOK, CommitPhases, BootPhases, disk
<1>6. Len(lh) + Cardinality(ToCome(Active', wrote')) <= LOGSIZE - 2
  <2> DEFINE k == outstanding + 1
             n == Cardinality(ToCome(Active', wrote'))
  <2>1. k \in Nat /\ n \in Nat /\ n <= k * OpBlocks
    <3>1. n \in Nat /\ n <= Cardinality(Active') * OpBlocks
      BY ActiveProcs, ToComeCounted, Zenon
    <3> QED
      BY <1>3, <3>1 DEF TypeOK, Control
  <2>2. Len(lh) + k * MAXOPBLOCKS <= LOGSIZE /\ Len(lh) \in Nat
    BY Sizes DEF NoSpace, TypeOK
  <2>4. CASE k = 1
    <3>1. lh = <<>>
      BY <1>2, <2>4, ActiveProcs, Counted DEF Control, Progress, TypeOK
    <3> QED
      BY <2>1, <2>4, <3>1, Sizes
  <2>5. CASE k > 1
    BY <2>1, <2>2, <2>5, Room, Zenon
  <2> QED
    BY <2>1, <2>4, <2>5 DEF TypeOK
<1>7. Space'
  <2>1. wrote'[p] = {} /\ \A q \in Procs \ {p} : wrote'[q] = wrote[q]
    BY Zenon DEF begin_op, TypeOK
  <2>2. IsFiniteSet({})
    BY FS_EmptySet, Zenon
  <2>3. /\ UNCHANGED <<lh, dhead, buf>>
        /\ \A q \in Procs : pc'[q] = "log_write" => pc[q] = "log_write" /\ q # p
    BY Zenon DEF begin_op, disk, TypeOK
  <2> QED
    <3>1. \A q \in Active' : wrote'[q] \subseteq Logged(lh')
      BY <1>1, <2>1, <2>3, ActiveProcs DEF Space, Logged
    <3>2. \A q \in Procs : IsFiniteSet(wrote'[q])
      BY <2>1, <2>2, Zenon DEF Space
    <3> QED
      BY <1>6, <2>1, <2>3, <3>1, <3>2, Zenon DEF Space, Distinct
<1>8. Progress' /\ Contents' /\ SleeperHasWaker'
  BY <1>1, <1>2
  DEF begin_op, Progress, Contents, Logged, Past, disk, BootPhases, SleeperHasWaker
<1> QED
  BY <1>4, <1>5, <1>7, <1>8, Zenon

\* The panics of log_write are out of reach, and a modified buffer is locked.
LEMMA ModifyInv ==
  ASSUME IInv, NEW p \in Procs, NEW b \in Blocks, NEW v \in Vals, Modify(p, b, v)
  PROVE  IInv'
<1> USE DEF IInv
<1>1. p \in Active /\ phase = "up" /\ buf[p] = NoBlock
  BY Zenon DEF Modify, Active, Control, TypeOK, Phases, CommitPhases, BootPhases
<1>2. outstanding >= 1
  BY <1>1, ActiveProcs, Counted DEF Control
<1>3. ~ (TooBig \/ outstanding < 1)
  BY <1>2, Sizes DEF TooBig, Space, TypeOK
<1>4. pc' = [pc EXCEPT ![p] = "log_write"]
  BY <1>3, Zenon DEF Modify
<1>5. Active' = Active
  BY <1>4, Zenon DEF Modify, Active, TypeOK
<1>6. TypeOK'
  BY <1>4, Zenon DEF Modify, TypeOK, PCs, disk
<1>7. Control'
  BY <1>1, <1>4, <1>5, LogAssumption, Zenon
  DEF Modify, Control, NoPanic, TypeOK, CommitPhases, BootPhases, disk
<1>8. Space'
  <2>1. UNCHANGED <<lh, dhead, wrote>>
    BY Zenon DEF Modify, disk
  <2>2. \A q \in Procs : pc'[q] = "log_write" => Cardinality(wrote[q] \cup {buf'[q]}) <= OpBlocks
    BY <1>4, Zenon DEF Modify, Space, TypeOK
  <2> QED
    BY <1>5, <2>1, <2>2, Zenon DEF Space
<1>9. Progress' /\ SleeperHasWaker'
  BY <1>1, <1>5, Zenon DEF Modify, Progress, disk, SleeperHasWaker
<1>10. Contents'
  <2>1. \A c \in Blocks : \/ cache'[c] = home'[c] \/ c \in Logged(lh')
                          \/ \E q \in Procs : buf'[q] = c
    <3>1. lh' = lh /\ home' = home /\ buf'[p] = b /\ \A q \in Procs \ {p} : buf'[q] = buf[q]
      BY Zenon DEF Modify, disk, TypeOK
    <3>2. \A c \in Blocks \ {b} : cache'[c] = cache[c]
      BY Zenon DEF Modify, TypeOK
    <3> QED
      BY <1>1, <3>1, <3>2, LogAssumption, SMTT(30) DEF Contents
  <2> QED
    BY <1>1, <2>1 DEF Modify, Contents, Logged, BootPhases
<1> QED
  BY <1>6, <1>7, <1>8, <1>9, <1>10, Zenon

\* What Append adds to the header.
LEMMA LoggedAppend ==
  ASSUME NEW h \in Seq(Blocks), NEW b \in Blocks
  PROVE  /\ Logged(Append(h, b)) = Logged(h) \cup {b}
         /\ Len(Append(h, b)) = Len(h) + 1
         /\ Distinct(h) /\ b \notin Logged(h) => Distinct(Append(h, b))
<1>1. /\ Len(Append(h, b)) = Len(h) + 1 /\ Len(h) \in Nat
      /\ Append(h, b)[Len(h) + 1] = b
      /\ \A i \in 1..Len(h) : Append(h, b)[i] = h[i]
  OBVIOUS
<1>2. 1..(Len(h) + 1) = (1..Len(h)) \cup {Len(h) + 1}
  BY <1>1
<1> QED
  BY <1>1, <1>2 DEF Logged, Distinct

\* A new block is one of the blocks to come.
LEMMA OneLessToCome ==
  ASSUME NEW A \in SUBSET Procs, NEW p \in A, NEW w \in [Procs -> SUBSET Blocks],
         \A q \in Procs : IsFiniteSet(w[q]),
         NEW b \in Blocks, Cardinality(w[p] \cup {b}) <= OpBlocks
  PROVE  LET x == [w EXCEPT ![p] = @ \cup {b}]
             more == Cardinality(ToCome(A, x))
             less == Cardinality(ToCome(A, w))
         IN  more <= less /\ (b \notin w[p] => more + 1 <= less)
<1> DEFINE x == [w EXCEPT ![p] = @ \cup {b}]
           n == OpBlocks - Cardinality(w[p])
<1>1. /\ Cardinality(w[p]) \in Nat
      /\ Cardinality(w[p] \cup {b}) =
            IF b \in w[p] THEN Cardinality(w[p]) ELSE Cardinality(w[p]) + 1
  BY FS_AddElement, FS_CardinalityType, Zenon
<1>2. x[p] = w[p] \cup {b} /\ \A q \in A \ {p} : x[q] = w[q]
  OBVIOUS
<1>3. /\ IsFiniteSet(ToCome(A, w)) /\ Cardinality(ToCome(A, w)) \in Nat
      /\ IsFiniteSet(ToCome(A, x)) /\ Cardinality(ToCome(A, x)) \in Nat
  BY ToComeCounted, Zenon
<1>4. ToCome(A, x) \in SUBSET ToCome(A, w)
  BY <1>1, <1>2, Sizes DEF ToCome
<1>5. Cardinality(ToCome(A, x)) <= Cardinality(ToCome(A, w))
  BY <1>3, <1>4, FS_Subset, Zenon
<1>6. ASSUME b \notin w[p] PROVE Cardinality(ToCome(A, x)) + 1 <= Cardinality(ToCome(A, w))
  <2>1. <<p, n>> \in ToCome(A, w)
    BY <1>1, <1>6, Sizes DEF ToCome
  <2>2. <<p, n>> \notin ToCome(A, x)
    BY <1>1, <1>2, <1>6, Sizes DEF ToCome
  <2>3. ToCome(A, x) \in SUBSET (ToCome(A, w) \ {<<p, n>>})
    BY <1>4, <2>2, Zenon
  <2>4. /\ IsFiniteSet(ToCome(A, w) \ {<<p, n>>})
        /\ Cardinality(ToCome(A, w) \ {<<p, n>>}) = Cardinality(ToCome(A, w)) - 1
    <3> DEFINE S == ToCome(A, w)
    <3>1. /\ IsFiniteSet(S \ {<<p, n>>})
          /\ Cardinality(S \ {<<p, n>>}) =
                IF <<p, n>> \in S THEN Cardinality(S) - 1 ELSE Cardinality(S)
      BY <1>3, FS_RemoveElement, Zenon
    <3> QED
      BY <2>1, <3>1, Zenon
  <2>5. Cardinality(ToCome(A, x)) <= Cardinality(ToCome(A, w) \ {<<p, n>>})
    BY <2>3, <2>4, FS_Subset, Zenon
  <2> QED
    BY <1>3, <2>4, <2>5
<1> QED
  BY <1>5, <1>6, Zenon

LEMMA LogWriteInv ==
  ASSUME IInv, NEW p \in Procs, log_write(p)
  PROVE  IInv'
<1> USE DEF IInv
<1> DEFINE b == buf[p]
<1>1. p \in Active /\ phase = "up" /\ b \in Blocks
  BY Zenon DEF log_write, Active, Control, TypeOK, Phases, CommitPhases, BootPhases
<1>2. Active' = Active
  BY Zenon DEF log_write, Active, TypeOK
<1>3. /\ Len(lh') = IF b \in Logged(lh) THEN Len(lh) ELSE Len(lh) + 1
      /\ Logged(lh') = Logged(lh) \cup {b}
      /\ Distinct(lh') /\ lh' \in Seq(Blocks)
  BY <1>1, LoggedAppend DEF log_write, Absorb, Space, TypeOK
<1>4. wrote'[p] = wrote[p] \cup {b} /\ \A q \in Procs \ {p} : wrote'[q] = wrote[q]
  BY Zenon DEF log_write, TypeOK
<1>5. TypeOK'
  BY <1>1, <1>3, Zenon DEF log_write, TypeOK, PCs, disk
<1>6. Control'
  BY <1>1, <1>2, LogAssumption, Zenon
  DEF log_write, Control, NoPanic, TypeOK, CommitPhases, BootPhases, disk
<1>7. Len(lh') + Cardinality(ToCome(Active', wrote')) <= LOGSIZE - 2
  <2> DEFINE new == Cardinality(ToCome(Active, [wrote EXCEPT ![p] = @ \cup {b}]))
             old == Cardinality(ToCome(Active, wrote))
  <2>1. Len(lh) + old <= LOGSIZE - 2 /\ Cardinality(wrote[p] \cup {b}) <= OpBlocks
    BY <1>1, Zenon DEF Space, log_write
  <2>2. new <= old /\ (b \notin wrote[p] => new + 1 <= old)
    BY <1>1, <2>1, ActiveProcs, OneLessToCome, Zenon DEF Space, TypeOK
  <2>3. b \notin Logged(lh) => b \notin wrote[p]
    BY <1>1, Zenon DEF Space
  <2>4. Cardinality(ToCome(Active', wrote')) = new
    BY <1>2, Zenon DEF log_write
  <2>5. new \in Nat /\ old \in Nat /\ Len(lh) \in Nat
    BY <2>4, ToComeNat DEF TypeOK
  <2> HIDE DEF new, old, b
  <2> QED
    BY <1>3, <2>1, <2>2, <2>3, <2>4, <2>5, Sizes, SMTT(30)
<1>8. Space'
  <2>1. UNCHANGED dhead /\ Len(lh') <= LOGSIZE - 2
    <3>1. Cardinality(ToCome(Active', wrote')) \in Nat /\ Len(lh') \in Nat
      BY <1>5, ToComeNat DEF TypeOK
    <3> QED
      BY <1>7, <3>1, Sizes DEF log_write, disk
  <2>2. \A q \in Procs : pc'[q] = "log_write" => pc[q] = "log_write" /\ q # p /\ buf'[q] = buf[q]
    BY Zenon DEF log_write, TypeOK
  <2>3. \A q \in Procs : IsFiniteSet(wrote'[q])
    <3>1. IsFiniteSet(wrote[p] \cup {b})
      BY FS_AddElement, Zenon DEF Space
    <3> QED
      BY <1>4, <3>1, Zenon DEF Space
  <2>4. \A q \in Active' : wrote'[q] \subseteq Logged(lh')
    BY <1>2, <1>3, <1>4, ActiveProcs, Zenon DEF Space
  <2> QED
    BY <1>3, <1>4, <1>7, <2>1, <2>2, <2>3, <2>4, Zenon DEF Space
<1>9. Progress' /\ SleeperHasWaker'
  BY <1>1, <1>2, Zenon DEF log_write, Progress, disk, SleeperHasWaker
<1>10. Contents'
  <2>1. /\ UNCHANGED <<cache, home, phase>> /\ dirty' = dirty \cup {b}
        /\ \A q \in Procs \ {p} : buf'[q] = buf[q]
    BY Zenon DEF log_write, disk, TypeOK
  <2>2. \A c \in Blocks : \/ cache'[c] = home'[c] \/ c \in Logged(lh')
                          \/ \E q \in Procs : buf'[q] = c
    BY <1>1, <1>3, <2>1, Zenon DEF Contents
  <2>3. dirty' = Logged(lh')
    BY <1>1, <1>3, <2>1, Zenon DEF Contents
  <2> QED
    BY <1>1, <2>1, <2>2, <2>3, Zenon DEF Contents, BootPhases
<1> QED
  BY <1>5, <1>6, <1>8, <1>9, <1>10, Zenon

\* Nobody is left: what is in the log is the transaction to commit.
LEMMA EndLast ==
  ASSUME IInv, NEW p \in Procs, end_op(p), LastOut(outstanding')
  PROVE  IInv'
<1> USE DEF IInv
<1>1. p \in Active /\ phase = "up" /\ ~ committing
  BY Zenon DEF end_op, Active, Control, TypeOK, Phases, CommitPhases, BootPhases
<1>2. /\ pc' = [pc EXCEPT ![p] = "commit"] /\ committing' = TRUE /\ tail' = 0
      /\ phase' = IF Len(lh) > 0 THEN "write_log" ELSE "done"
  BY <1>1, Zenon DEF end_op, Pending
<1>3. Active' = Active \ {p}
  BY <1>2, Zenon DEF Active, TypeOK
<1>4. Active' = {} /\ outstanding' = 0 /\ Cardinality(Active') = 0
  <2>1. outstanding' = Cardinality(Active')
    BY <1>1, <1>3, ActiveProcs, Counted, FS_RemoveElement, Zenon DEF end_op, Control
  <2> QED
    BY <2>1, ActiveProcs, Counted, Zenon DEF LastOut
<1>5. \A q \in Procs : pc'[q] # "log_write" /\ buf[q] = NoBlock
  BY <1>4, ZenonT(30) DEF Active, Control, end_op, TypeOK
<1>6. TypeOK'
  BY <1>2, <1>4, Sizes DEF end_op, TypeOK, PCs, Phases, disk
<1>7. Control'
  BY <1>2, <1>4, <1>5, Zenon DEF end_op, Control, NoPanic, TypeOK, CommitPhases, BootPhases
<1>8. Space'
  BY <1>4, <1>5, Zenon DEF end_op, Space, disk
<1>9. Len(lh) \in Nat /\ (Len(lh) = 0 <=> lh = <<>>)
  BY DEF TypeOK
<1>10. Progress'
  BY <1>1, <1>2, <1>9, SMTT(30) DEF end_op, Progress, disk
<1>11. Contents'
  <2>1. UNCHANGED <<home, cache, dirty, lh, buf, dlog>>
    BY Zenon DEF end_op, disk
  <2>2. Len(lh) = 0 => cache = home /\ dirty = {}
    BY <1>1, <1>5, LogAssumption, SMTT(30) DEF Contents, Logged, TypeOK
  <2> QED
    BY <1>1, <1>2, <1>9, <2>1, <2>2, SMTT(30) DEF Contents, Logged, Past, BootPhases
<1>12. SleeperHasWaker'
  BY <1>2, Zenon DEF SleeperHasWaker
<1> QED
  BY <1>6, <1>7, <1>8, <1>10, <1>11, <1>12, Zenon

\* Others are left: they keep what is reserved for them, and the sleepers are woken.
LEMMA EndEarlier ==
  ASSUME IInv, NEW p \in Procs, end_op(p), ~ LastOut(outstanding')
  PROVE  IInv'
<1> USE DEF IInv
<1>1. p \in Active /\ phase = "up" /\ ~ committing
  BY Zenon DEF end_op, Active, Control, TypeOK, Phases, CommitPhases, BootPhases
<1>2. pc' = [Woken(pc) EXCEPT ![p] = "idle"] /\ UNCHANGED <<committing, phase, tail>>
  BY <1>1, Zenon DEF end_op
<1>3. \A q \in Procs : pc'[q] = IF q = p THEN "idle" ELSE IF pc[q] = "sleep" THEN "begin" ELSE pc[q]
  BY <1>2, Zenon DEF Woken
<1>4. Active' = Active \ {p}
  BY <1>3, Zenon DEF Active
<1>5. outstanding' = Cardinality(Active') /\ outstanding' \in Nat /\ Active' # {}
  <2>1. outstanding' = Cardinality(Active')
    BY <1>1, <1>4, ActiveProcs, Counted, FS_RemoveElement, Zenon DEF end_op, Control
  <2> QED
    BY <2>1, ActiveProcs, Counted, FS_EmptySet, Zenon DEF LastOut
<1>6. TypeOK'
  <2>1. pc' \in [Procs -> PCs]
    BY <1>2, <1>3, Zenon DEF Woken, TypeOK, PCs
  <2> QED
    BY <1>2, <1>5, <2>1, Zenon DEF end_op, TypeOK, disk
<1>7. Control'
  <2>1. \A q \in Procs : buf'[q] # NoBlock <=> pc'[q] = "log_write"
    BY <1>3, Zenon DEF Control, end_op
  <2>2. NoPanic'
    BY <1>3, Zenon DEF Control, NoPanic
  <2> QED
    BY <1>1, <1>2, <1>5, <2>1, <2>2, Zenon DEF Control, BootPhases
<1>8. Space'
  <2>1. UNCHANGED <<lh, dhead, wrote, buf>>
    BY Zenon DEF end_op, disk
  <2>2. ToCome(Active', wrote) \in SUBSET ToCome(Active, wrote)
    BY <1>4, Zenon DEF ToCome
  <2>3. Cardinality(ToCome(Active', wrote)) <= Cardinality(ToCome(Active, wrote))
    BY <2>2, ActiveProcs, ToComeCounted, FS_Subset, Zenon
  <2>4. /\ Len(lh) \in Nat /\ Cardinality(ToCome(Active', wrote)) \in Nat
        /\ Cardinality(ToCome(Active, wrote)) \in Nat
    BY ToComeNat DEF TypeOK
  <2>5. Len(lh) + Cardinality(ToCome(Active', wrote)) <= LOGSIZE - 2
    BY <1>1, <2>3, <2>4, Sizes DEF Space
  <2>6. \A q \in Procs : pc'[q] = "log_write" => pc[q] = "log_write"
    BY <1>3, Zenon
  <2> QED
    BY <1>4, <2>1, <2>5, <2>6, Zenon DEF Space
<1>9. Progress' /\ SleeperHasWaker'
  BY <1>1, <1>2, <1>5, Zenon DEF end_op, Progress, disk, SleeperHasWaker
<1>10. Contents'
  BY <1>1, <1>2, Zenon DEF end_op, Contents, disk, BootPhases
<1> QED
  BY <1>6, <1>7, <1>8, <1>9, <1>10, Zenon

LEMMA CrashInv == IInv /\ crash => IInv'
<1> SUFFICES ASSUME IInv, crash PROVE IInv'
  OBVIOUS
<1> USE DEF IInv
<1>1. \A q \in Procs : pc'[q] = "idle" /\ buf'[q] = NoBlock /\ wrote'[q] = {}
  BY Zenon DEF crash
<1>2. Active' = {} /\ Cardinality(Active') = 0 /\ IsFiniteSet({})
  BY <1>1, FS_EmptySet, Zenon DEF Active
<1>3. TypeOK'
  <2>1. /\ pc' \in [Procs -> PCs] /\ buf' \in [Procs -> Blocks \cup {NoBlock}]
        /\ wrote' \in [Procs -> SUBSET Blocks]
    BY Zenon DEF crash, PCs
  <2>2. tail' \in 0..LOGSIZE
    BY Sizes DEF crash
  <2>3. lh' \in Seq(Blocks) /\ phase' \in Phases
    BY DEF crash, Phases
  <2> QED
    BY <2>1, <2>2, <2>3, Zenon DEF crash, TypeOK, disk
<1>4. Control'
  BY <1>1, <1>2, Zenon DEF crash, Control, NoPanic, CommitPhases, BootPhases
<1>5. Space'
  BY <1>1, <1>2, Sizes, SMTT(30) DEF crash, Space, Distinct, disk
<1>6. Progress' /\ Contents' /\ SleeperHasWaker'
  BY <1>1, Zenon DEF crash, Progress, Contents, BootPhases, SleeperHasWaker, disk
<1> QED
  BY <1>3, <1>4, <1>5, <1>6, Zenon

-----------------------------------------------------------------------------
(***************************************************************************)
(* Theorems                                                                *)
(***************************************************************************)
LEMMA StepInv == IInv /\ [Next]_vars => IInv'
<1> SUFFICES ASSUME IInv, [Next]_vars PROVE IInv'
  OBVIOUS
<1>1. ASSUME NEW p \in Procs, begin_op(p) PROVE IInv'
  BY <1>1, BeginWaits, BeginEnters, Zenon
<1>2. ASSUME NEW p \in Procs, end_op(p) PROVE IInv'
  BY <1>2, EndLast, EndEarlier, Zenon
<1>3. CASE UNCHANGED vars
  <2>1. Active' = Active /\ TypeOK'
    BY <1>3, Zenon DEF vars, IInv, TypeOK, Active
  <2>2. Control' /\ SleeperHasWaker'
    BY <1>3, <2>1, Zenon DEF vars, IInv, Control, NoPanic, SleeperHasWaker
  <2>3. Space' /\ Progress'
    BY <1>3, <2>1, Zenon DEF vars, IInv, Space, Progress
  <2>4. Contents'
    BY <1>3, SMTT(30) DEF vars, IInv, Contents, Past
  <2> QED
    BY <2>1, <2>2, <2>3, <2>4, Zenon DEF IInv
<1> QED
  BY <1>1, <1>2, <1>3, ModifyInv, LogWriteInv, WriteLogInv, CommitInv, InstallInv, EraseInv,
     CommittedInv, CrashInv, ReadHeadInv, RecoverInv, ClearInv, Zenon
  DEF Next

\* log.c keeps the invariant, crashes and recoveries included.
THEOREM Invariance == Spec => []IInv
BY InitInv, StepInv, PTL DEF Spec

\* Neither a panic of log_write nor the one of end_op is reached, though log_write reads
\* log.lh.n without the lock: begin_op has reserved enough.
THEOREM NoPanicHolds == Spec => []NoPanic
BY Invariance, PTL DEF IInv, Control

\* The log blocks stay inside the log area of the disk.
THEOREM LogFitsHolds == Spec => []LogFits
<1>1. IInv => LogFits
  BY InHeader, Sizes DEF LogFits
<1> QED
  BY <1>1, Invariance, PTL

\* begin_op, end_op and commit: the count of calls is right and a commit meets none of them, a
\* process asleep in begin_op can count on a wakeup, and between transactions the home blocks
\* are up to date and no buffer stays pinned.
THEOREM LogSoundHolds == Spec => []LogSound
<1>1. IInv => CommitAlone
  BY FS_EmptySet, Zenon DEF IInv, Control, CommitAlone, CommitPhases, TypeOK
<1>2. ASSUME IInv, phase = "up", outstanding = 0
      PROVE  home = cache /\ dhead = <<>> /\ lh = <<>> /\ dirty = {}
  <2>1. Active = {}
    BY <1>2, ActiveProcs, Counted, Zenon DEF IInv, Control
  <2>2. lh = <<>> /\ dhead = <<>>
    BY <1>2, <2>1, Zenon DEF IInv, Progress
  <2>3. Logged(lh) = {}
    BY <2>2 DEF Logged
  <2>4. \A b \in Blocks : cache[b] = home[b]
    BY <1>2, <2>1, <2>3, QuietCache, LogAssumption, Zenon DEF IInv, Contents
  <2> QED
    BY <1>2, <2>2, <2>3, <2>4, SMTT(30) DEF IInv, Contents, TypeOK
<1>3. IInv => LogSound
  BY <1>1, <1>2, Zenon DEF LogSound, IInv, QuietMeansInstalled
<1> QED
  BY <1>3, Invariance, PTL

\* Whatever the moment of a crash, the disk holds all of the calls that were committed and
\* nothing of the others: log.c implements AtomicDisk.
THEOREM Implementation == Spec => ImplementsAtomicDisk
<1>1. Init => Atomic!Init
  <2> SUFFICES ASSUME Init PROVE Atomic!Init
    OBVIOUS
  <2>1. Active = {} /\ dhead = <<>> /\ cache = home /\ home \in [Blocks -> Vals] /\ phase = "up"
    BY Zenon DEF Init, Active
  <2>2. Replay(<<>>, dlog, home) = home
    BY <2>1, ReplayNothing, Zenon
  <2> QED
    BY <2>1, <2>2, RecoveredReplays, Zenon DEF Atomic!Init
<1>2. IInv /\ [Next]_vars => AtomicStep
  <2> SUFFICES ASSUME IInv, [Next]_vars PROVE AtomicStep
    OBVIOUS
  <2>1. CASE UNCHANGED vars
    BY <2>1, RecoveredKept, Zenon DEF vars, AtomicStep, Seen, Booting, Active
  <2> QED
    BY <2>1, CallSteps, CommitSteps, CrashSteps, Zenon DEF Next
<1>3. IInv /\ [Next]_vars => [Atomic!Next]_(Atomic!vars)
  BY <1>2, AtomicStepIs, Zenon
<1> QED
  BY <1>1, <1>3, Invariance, PTL DEF Spec, ImplementsAtomicDisk, Atomic!Spec
=============================================================================

--------------------------- MODULE SleeplockProofs ---------------------------
(***************************************************************************)
(* Proofs, for every set of processes, that a sleep lock is a lock and     *)
(* that no wakeup of it is lost.                                           *)
(***************************************************************************)
EXTENDS Sleeplock, TLAPS

\* Which spin lock a process has is a matter of where it is.
SpinLocks ==
    \A p \in Procs :
        /\ lk = p <=> pc[p] \in {"check", "tosleep", "clear", "wake", "done"}
        /\ ptable = p <=> pc[p] = "going"

\* From its look at locked until it is woken, a process that found the sleep lock
\* taken can count on a wakeup: with lk it has locked itself, and once it has
\* given lk up no wakeup can come before it is asleep.
WakeupToCome ==
    \A p \in Procs :
        /\ pc[p] = "tosleep" => locked
        /\ pc[p] \in {"going", "asleep"} => locked \/ \E q \in Procs : pc[q] = "wake"

IInv == TypeOK /\ SpinLocks /\ OneHolder /\ WakeupToCome

\* The invariant holds of a lock that initsleeplock has just set up.
LEMMA InitInv == Init => IInv
BY SleeplockAssumption
DEF Init, IInv, TypeOK, PCs, SpinLocks, OneHolder, Holders, holdingsleep, WakeupToCome

\* No step of acquiresleep, releasesleep, sleep, wakeup or kill breaks it.
LEMMA StepInv == IInv /\ [Next]_vars => IInv'
<1> SUFFICES ASSUME IInv, [Next]_vars
             PROVE  IInv'
  OBVIOUS
<1> USE SleeplockAssumption
    DEF IInv, TypeOK, PCs, SpinLocks, OneHolder, Holders, holdingsleep, WakeupToCome, Go
<1>1. ASSUME NEW p \in Procs, acquiresleep(p)
      PROVE  IInv'
  BY <1>1 DEF acquiresleep
<1>2. ASSUME NEW p \in Procs, releasesleep(p)
      PROVE  IInv'
  BY <1>2 DEF releasesleep
<1>3. ASSUME NEW p \in Procs, Enter(p)
      PROVE  IInv'
  BY <1>3 DEF Enter
<1>4. ASSUME NEW p \in Procs, Take(p)
      PROVE  IInv'
  BY <1>4 DEF Take, Taken, Mark
<1>5. ASSUME NEW p \in Procs, Wait(p)
      PROVE  IInv'
  BY <1>5 DEF Wait, Taken
<1>6. ASSUME NEW p \in Procs, Sleep(p)
      PROVE  IInv'
  BY <1>6 DEF Sleep, SwapLocks
<1>7. ASSUME NEW p \in Procs, Sched(p)
      PROVE  IInv'
  BY <1>7 DEF Sched
<1>8. ASSUME NEW p \in Procs, Resume(p)
      PROVE  IInv'
  BY <1>8 DEF Resume
<1>9. ASSUME NEW p \in Procs, Kill(p)
      PROVE  IInv'
  BY <1>9 DEF Kill
<1>10. ASSUME NEW p \in Procs, Leave(p)
       PROVE  IInv'
  BY <1>10 DEF Leave
<1>11. ASSUME NEW p \in Procs, Clear(p)
       PROVE  IInv'
  BY <1>11, ZenonT(60) DEF Clear
<1>12. ASSUME NEW p \in Procs, Wakeup(p)
       PROVE  IInv'
  BY <1>12 DEF Wakeup, Woken
<1>13. ASSUME NEW p \in Procs, Done(p)
       PROVE  IInv'
  BY <1>13 DEF Done
<1>14. CASE UNCHANGED vars
  BY <1>14 DEF vars
<1> QED
  BY <1>1, <1>2, <1>3, <1>4, <1>5, <1>6, <1>7, <1>8, <1>9, <1>10, <1>11, <1>12,
     <1>13, <1>14
  DEF Next, Kernel

\* The invariant holds whatever the interleaving of acquiresleep, releasesleep,
\* sleep, wakeup and kill.
THEOREM Invariance == Spec => []IInv
BY InitInv, StepInv, PTL DEF Spec

\* At most one process is between acquiresleep and releasesleep, and
\* holdingsleep knows which.
THEOREM OneHolderHolds == Spec => []OneHolder
BY Invariance, PTL DEF IInv

\* sleep takes ptable.lock before it releases lk, so the wakeup of releasesleep
\* never falls between the look at locked and the sleep.
THEOREM SleeperHasWakerHolds == Spec => []SleeperHasWaker
<1>1. IInv => SleeperHasWaker
  BY DEF IInv, WakeupToCome, SleeperHasWaker
<1> QED
  BY <1>1, Invariance, PTL

\* acquiresleep and releasesleep implement the lock of module Mutex.
THEOREM Refinement == Spec => ImplementsMutex
<1>1. Init => Lock!Init
  BY DEF Init, Lock!Init
<1>2. IInv /\ [Next]_vars => [Lock!Next]_(IF locked THEN pid ELSE None)
  <2> SUFFICES ASSUME IInv, [Next]_vars
               PROVE  \/ Lock!Next
                      \/ UNCHANGED (IF locked THEN pid ELSE None)
    OBVIOUS
  <2>1. ASSUME NEW p \in Procs, Take(p)
        PROVE  Lock!Acquire(p)
    BY <2>1 DEF Take, Taken, Mark, Lock!Acquire
  <2>2. ASSUME NEW p \in Procs, Clear(p)
        PROVE  Lock!Release(p)
    BY <2>2 DEF Clear, Go, Lock!Release, IInv, OneHolder, Holders, holdingsleep
  <2>3. CASE UNCHANGED <<locked, pid>>
    BY <2>3
  <2> QED
    BY <2>1, <2>2, <2>3
    DEF Next, Kernel, Lock!Next, vars, acquiresleep, releasesleep, Enter, Wait, Sleep,
        Sched, Resume, Kill, Leave, Wakeup, Done
<1> QED
  BY <1>1, <1>2, Invariance, PTL DEF Spec, ImplementsMutex, Lock!Spec
=============================================================================

----------------------------- MODULE ProcProofs -----------------------------
(***************************************************************************)
(* The inductive invariant of Proc and the theorems that follow from it,   *)
(* for every number of slots, CPUs, tickets and pids.  Each conjunct of    *)
(* the invariant has a lemma, with one step per action that can disturb    *)
(* it.  The last part is about the draw of the scheduler.                  *)
(***************************************************************************)
EXTENDS Proc, FiniteSetTheorems, TLAPS

(***************************************************************************)
(* The inductive invariant: the properties themselves, and what they rest  *)
(* on.                                                                     *)
(***************************************************************************)

\* Where a thread can be, given the state of its process.
PcState ==
    \A p \in Slots :
        /\ pc[p] = "gone" <=> state[p] \in {"UNUSED", "EMBRYO", "ZOMBIE"}
        /\ state[p] = "SLEEPING" => pc[p] \in {"wait", "sleep"}
        /\ pc[p] \in {"fork", "publish"} <=> np[p] # NoSlot

\* init never gets past the check at the top of exit.
InitAlive == pc[INITPROC] # "gone"

\* What fork stores in the slot of the child is still there when it publishes it.
Filled ==
    \A p \in Slots :
        pc[p] = "publish" =>
            /\ parent[np[p]] = p
            /\ tickets[np[p]] >= MINTICKETS
            /\ ticks[np[p]] = 0

\* A process asleep in wait sleeps on itself.
WaitChan ==
    \A p \in Slots : state[p] = "SLEEPING" /\ pc[p] = "wait" => chan[p] = p

\* Pids in use come from the past values of nextpid.
PidsPast == \A p \in Slots : state[p] # "UNUSED" => pid[p] < nextpid

\* A process that never ran leaves forkret before its CPU can switch away.
NeverRan ==
    \A c \in CPUs :
        cpu[c] # NoSlot /\ pc[cpu[c]] = "forkret" =>
            state[cpu[c]] = "RUNNING" /\ lock = c

IInv ==
    /\ TypeOK
    /\ PcState
    /\ InitAlive
    /\ OneCPUEach
    /\ EmbryoOwned
    /\ Filled
    /\ NoOrphans
    /\ WaitChan
    /\ NoMissedExit
    /\ PidsPast
    /\ PidsUnique
    /\ TicketFloor
    /\ NeverRan
    /\ FreshTicks

-----------------------------------------------------------------------------
(***************************************************************************)
(* The three ways a pass of the loop of wait can end, whether it follows   *)
(* the call or a wakeup.                                                   *)
(***************************************************************************)
InWait(c, p, old) ==
    /\ cpu[c] = p /\ p # NoSlot /\ state[p] = "RUNNING"
    /\ \/ lock = NoCPU /\ pc[p] = "user" /\ old = chan
       \/ lock = c /\ pc[p] = "wait" /\ old = [chan EXCEPT ![p] = NoSlot]

WaitReap(c, p, q, old) ==
    /\ InWait(c, p, old)
    /\ Reap(p, q, old)
    /\ UNCHANGED <<nextpid, cpu, np, lottery>>

WaitReturn(c, p, old) ==
    /\ InWait(c, p, old)
    /\ chan' = old
    /\ lock' = NoCPU
    /\ pc' = [pc EXCEPT ![p] = "user"]
    /\ UNCHANGED <<state, killed, cpu, family, lottery>>

WaitSleep(c, p, old) ==
    /\ InWait(c, p, old)
    /\ \A q \in Slots : ~ Found(p, q)
    /\ Kids(p) # {} /\ ~ killed[p]
    /\ SleepOn(c, p, p)
    /\ pc' = [pc EXCEPT ![p] = "wait"]
    /\ UNCHANGED <<killed, cpu, family, lottery>>

\* A pass of wait, first or later, ends in one of these ways.
LEMMA WaitCases ==
  ASSUME NEW c \in CPUs, NEW p \in Slots, Wait(c, p) \/ WaitResume(c, p)
  PROVE  \E old : \/ \E q \in Slots : WaitReap(c, p, q, old)
                  \/ WaitReturn(c, p, old)
                  \/ WaitSleep(c, p, old)
<1>1. PICK old : InWait(c, p, old) /\ WaitPass(c, p, old)
  BY Zenon DEF Wait, WaitResume, InUser, Runs, SwitchedTo, InWait
<1> QED
  BY <1>1, Zenon DEF WaitPass, WaitReap, WaitReturn, WaitSleep, family, lottery

\* What the proofs need to know of the constants: slots and CPUs are told apart
\* from nobody, ticket counts and ticks stay in range.
LEMMA Constants ==
  /\ NoSlot \notin Slots
  /\ INITPROC \in Slots
  /\ NoCPU \notin CPUs
  /\ MINTICKETS \in 0..IntMax
  /\ 0 \in 0..(TicksMod - 1)
  /\ \A n \in Requests : n >= MINTICKETS => n \in 0..IntMax
  /\ \A n \in 0..(TicksMod - 1) : (n + 1) % TicksMod \in 0..(TicksMod - 1)
BY ProcAssumption DEF NoSlot, Slots, INITPROC

-----------------------------------------------------------------------------
(***************************************************************************)
(* One lemma per conjunct of the invariant, with one step per action that can *)
(* disturb it and one for the steps that leave its variables alone.        *)
(***************************************************************************)
\* Every step keeps the types: fork's max of two ticket counts, the counts that
\* sys_settickets lets through and the wrap of p->ticks included.
LEMMA TypeStep ==
  ASSUME TypeOK, [Next]_vars
  PROVE  TypeOK'
<1> USE DEF family, lottery
<1>1. ASSUME NEW c \in CPUs, NEW p \in Slots, Dispatch(c, p)
      PROVE  TypeOK'
  BY <1>1, Zenon DEF TypeOK, States, Dispatch
<1>2. ASSUME NEW c \in CPUs, SchedReturn(c)
      PROVE  TypeOK'
  BY <1>2, Constants, Zenon DEF TypeOK, SchedReturn
<1>3. ASSUME NEW c \in CPUs, NEW p \in Slots, Resume(c, p)
      PROVE  TypeOK'
  BY <1>3, Zenon DEF TypeOK, PCs, Resume
<1>4. ASSUME NEW c \in CPUs, NEW p \in Slots, Yield(c, p)
      PROVE  TypeOK'
  BY <1>4, Zenon DEF TypeOK, States, Yield
<1>5. ASSUME NEW c \in CPUs, NEW p \in Slots, AllocProc(c, p)
      PROVE  TypeOK'
  BY <1>5 DEF TypeOK, States, PCs, AllocProc, PidAfter
<1>6. ASSUME NEW c \in CPUs, NEW p \in Slots, AllocNone(c, p)
      PROVE  TypeOK'
  BY <1>6, Zenon DEF TypeOK, PCs, AllocNone, Failed
<1>7. ASSUME NEW c \in CPUs, NEW p \in Slots, ForkFail(c, p)
      PROVE  TypeOK'
  BY <1>7, Constants, Zenon DEF TypeOK, States, PCs, ForkFail, Runs, Failed
<1>8. ASSUME NEW c \in CPUs, NEW p \in Slots, ForkFill(c, p)
      PROVE  TypeOK'
  <2>1. ChildTickets(p) \in 0..IntMax
    BY Constants, Zenon DEF TypeOK, ChildTickets
  <2> QED
    BY <1>8, <2>1, Constants, Zenon DEF TypeOK, States, PCs, ForkFill, ChildTicks
<1>9. ASSUME NEW c \in CPUs, NEW p \in Slots, ForkPublish(c, p)
      PROVE  TypeOK'
  BY <1>9, Constants, Zenon DEF TypeOK, States, PCs, ForkPublish, Runs
<1>10. ASSUME NEW c \in CPUs, NEW p \in Slots, ExitBegin(c, p)
       PROVE  TypeOK'
  BY <1>10, Constants, Zenon DEF TypeOK, States, PCs, ExitBegin, Runs
<1>11. ASSUME NEW c \in CPUs, NEW p \in Slots, ExitPanic(c, p)
       PROVE  TypeOK'
  BY <1>11, Zenon DEF TypeOK, PCs, ExitPanic
<1>12. ASSUME NEW c \in CPUs, NEW p \in Slots, ExitFinish(c, p)
       PROVE  TypeOK'
  <2>1. Wakeup1(ExitWakes(p)) \in [Slots -> States]
    BY Zenon DEF TypeOK, States, Wakeup1
  <2>2. Reparent(p) \in [Slots -> Slots \cup {NoSlot}]
    BY Constants, Zenon DEF TypeOK, Reparent
  <2> QED
    BY <1>12, <2>1, <2>2, Zenon DEF TypeOK, States, PCs, ExitFinish
<1>13. ASSUME NEW c \in CPUs, NEW p \in Slots, NEW q \in Slots, NEW old,
              WaitReap(c, p, q, old)
       PROVE  TypeOK'
  BY <1>13, Zenon DEF TypeOK, States, PCs, WaitReap, InWait, Reap
<1>14. ASSUME NEW c \in CPUs, NEW p \in Slots, NEW old, WaitReturn(c, p, old)
       PROVE  TypeOK'
  BY <1>14, Zenon DEF TypeOK, PCs, WaitReturn, InWait
<1>15. ASSUME NEW c \in CPUs, NEW p \in Slots, NEW old, WaitSleep(c, p, old)
       PROVE  TypeOK'
  BY <1>15, Zenon DEF TypeOK, States, PCs, WaitSleep, SleepOn
<1>16. ASSUME NEW c \in CPUs, NEW p \in Slots, NEW ch \in Chans, Sleep(c, p, ch)
       PROVE  TypeOK'
  BY <1>16, Zenon DEF TypeOK, States, PCs, Sleep, SleepOn
<1>17. ASSUME NEW c \in CPUs, NEW p \in Slots, SleepResume(c, p)
       PROVE  TypeOK'
  BY <1>17, Zenon DEF TypeOK, PCs, SleepResume
<1>18. ASSUME NEW c \in CPUs, NEW p \in Slots, KernelReturn(c, p)
       PROVE  TypeOK'
  BY <1>18, Zenon DEF TypeOK, PCs, KernelReturn
<1>19. ASSUME NEW ch \in Chans, Wakeup(ch)
       PROVE  TypeOK'
  BY <1>19, Zenon DEF TypeOK, States, Wakeup, Wakeup1
<1>20. ASSUME NEW c \in CPUs, NEW p \in Slots, NEW target \in KillPids,
              Kill(c, p, target)
       PROVE  TypeOK'
  BY <1>20, Zenon DEF TypeOK, States, Kill, KilledState
<1>21. ASSUME NEW c \in CPUs, NEW p \in Slots, NEW n \in Requests,
              SetTickets(c, p, n)
       PROVE  TypeOK'
  BY <1>21, Constants, Zenon DEF TypeOK, SetTickets, Accepted
<1>22. CASE UNCHANGED vars
  BY <1>22, Zenon DEF TypeOK, vars
<1> QED
  BY <1>1, <1>2, <1>3, <1>4, <1>5, <1>6, <1>7, <1>8, <1>9, <1>10, <1>11, <1>12,
     <1>13, <1>14, <1>15, <1>16, <1>17, <1>18, <1>19, <1>20, <1>21, <1>22, WaitCases, Zenon
  DEF Next, Step, Frozen

\* Every step keeps a thread where the state of its process allows it to be.
LEMMA PcStateStep ==
  ASSUME TypeOK, PcState, EmbryoOwned, [Next]_vars
  PROVE  PcState'
<1> USE DEF family, lottery
<1>1. ASSUME NEW c \in CPUs, NEW p \in Slots, Dispatch(c, p)
      PROVE  PcState'
  BY <1>1, Zenon DEF TypeOK, PcState, Dispatch, Wins, Passed, Ready
<1>2. ASSUME NEW c \in CPUs, NEW p \in Slots, Resume(c, p)
      PROVE  PcState'
  BY <1>2, Zenon DEF TypeOK, PcState, Resume
<1>3. ASSUME NEW c \in CPUs, NEW p \in Slots, Yield(c, p)
      PROVE  PcState'
  BY <1>3, Zenon DEF TypeOK, PcState, Yield, Runs
<1>4. ASSUME NEW c \in CPUs, NEW p \in Slots, AllocProc(c, p)
      PROVE  PcState'
  BY <1>4, Constants DEF TypeOK, PcState, AllocProc, InUser, Free
<1>5. ASSUME NEW c \in CPUs, NEW p \in Slots, AllocNone(c, p)
      PROVE  PcState'
  BY <1>5, Zenon DEF TypeOK, PcState, AllocNone, InUser, Failed
<1>6. ASSUME NEW c \in CPUs, NEW p \in Slots, ForkFail(c, p)
      PROVE  PcState'
  BY <1>6 DEF TypeOK, PcState, EmbryoOwned, ForkFail, Failed
<1>7. ASSUME NEW c \in CPUs, NEW p \in Slots, ForkFill(c, p)
      PROVE  PcState'
  BY <1>7, Zenon DEF TypeOK, PcState, ForkFill
<1>8. ASSUME NEW c \in CPUs, NEW p \in Slots, ForkPublish(c, p)
      PROVE  PcState'
  BY <1>8 DEF TypeOK, PcState, EmbryoOwned, ForkPublish
<1>9. ASSUME NEW c \in CPUs, NEW p \in Slots, ExitBegin(c, p)
      PROVE  PcState'
  BY <1>9, Zenon DEF TypeOK, PcState, ExitBegin
<1>10. ASSUME NEW c \in CPUs, NEW p \in Slots, ExitPanic(c, p)
       PROVE  PcState'
  BY <1>10, Zenon DEF TypeOK, PcState, ExitPanic
<1>11. ASSUME NEW c \in CPUs, NEW p \in Slots, ExitFinish(c, p)
       PROVE  PcState'
  BY <1>11, Zenon DEF TypeOK, PcState, ExitFinish, Wakeup1
<1>12. ASSUME NEW c \in CPUs, NEW p \in Slots, NEW q \in Slots, NEW old,
              WaitReap(c, p, q, old)
       PROVE  PcState'
  BY <1>12 DEF TypeOK, PcState, WaitReap, InWait, Reap, Found
<1>13. ASSUME NEW c \in CPUs, NEW p \in Slots, NEW old, WaitReturn(c, p, old)
       PROVE  PcState'
  BY <1>13, Zenon DEF TypeOK, PcState, WaitReturn, InWait
<1>14. ASSUME NEW c \in CPUs, NEW p \in Slots, NEW old, WaitSleep(c, p, old)
       PROVE  PcState'
  BY <1>14, ZenonT(30) DEF TypeOK, PcState, WaitSleep, InWait, SleepOn
<1>15. ASSUME NEW c \in CPUs, NEW p \in Slots, NEW ch \in Chans, Sleep(c, p, ch)
       PROVE  PcState'
  BY <1>15, Zenon DEF TypeOK, PcState, Sleep, SleepOn
<1>16. ASSUME NEW c \in CPUs, NEW p \in Slots, SleepResume(c, p)
       PROVE  PcState'
  BY <1>16, Zenon DEF TypeOK, PcState, SleepResume, SwitchedTo
<1>17. ASSUME NEW c \in CPUs, NEW p \in Slots, KernelReturn(c, p)
       PROVE  PcState'
  BY <1>17, Zenon DEF TypeOK, PcState, KernelReturn
<1>18. ASSUME NEW ch \in Chans, Wakeup(ch)
       PROVE  PcState'
  BY <1>18, Zenon DEF TypeOK, PcState, Wakeup, Wakeup1
<1>19. ASSUME NEW c \in CPUs, NEW p \in Slots, NEW target \in KillPids,
              Kill(c, p, target)
       PROVE  PcState'
  BY <1>19, Zenon DEF TypeOK, PcState, Kill, KilledState
<1>20. CASE UNCHANGED <<state, pc, np>>
  BY <1>20, Zenon DEF PcState
<1>21. ASSUME NEW c \in CPUs, NEW p \in Slots,
              (\E n \in Requests : SetTickets(c, p, n))
       PROVE  UNCHANGED <<state, pc, np>>
  BY <1>21, Zenon DEF SetTickets
<1> QED
  BY <1>1, <1>2, <1>3, <1>4, <1>5, <1>6, <1>7, <1>8, <1>9, <1>10, <1>11, <1>12,
     <1>13, <1>14, <1>15, <1>16, <1>17, <1>18, <1>19, <1>20, <1>21, WaitCases, Zenon
  DEF Next, Step, Frozen, vars, SchedReturn

\* exit of init panics before it can become a ZOMBIE.
LEMMA InitAliveStep ==
  ASSUME TypeOK, InitAlive, [Next]_vars
  PROVE  InitAlive'
<1> USE DEF family, lottery
<1>1. ASSUME NEW c \in CPUs, NEW p \in Slots, Resume(c, p)
      PROVE  InitAlive'
  BY <1>1 DEF TypeOK, InitAlive, Resume
<1>2. ASSUME NEW c \in CPUs, NEW p \in Slots, AllocProc(c, p)
      PROVE  InitAlive'
  BY <1>2 DEF TypeOK, InitAlive, AllocProc
<1>3. ASSUME NEW c \in CPUs, NEW p \in Slots, AllocNone(c, p)
      PROVE  InitAlive'
  BY <1>3 DEF TypeOK, InitAlive, AllocNone, Failed
<1>4. ASSUME NEW c \in CPUs, NEW p \in Slots, ForkFail(c, p)
      PROVE  InitAlive'
  BY <1>4 DEF TypeOK, InitAlive, ForkFail, Failed
<1>5. ASSUME NEW c \in CPUs, NEW p \in Slots, ForkFill(c, p)
      PROVE  InitAlive'
  BY <1>5 DEF TypeOK, InitAlive, ForkFill
<1>6. ASSUME NEW c \in CPUs, NEW p \in Slots, ForkPublish(c, p)
      PROVE  InitAlive'
  BY <1>6, Constants, Zenon DEF TypeOK, InitAlive, ForkPublish
<1>7. ASSUME NEW c \in CPUs, NEW p \in Slots, ExitBegin(c, p)
      PROVE  InitAlive'
  BY <1>7 DEF TypeOK, InitAlive, ExitBegin
<1>8. ASSUME NEW c \in CPUs, NEW p \in Slots, ExitPanic(c, p)
      PROVE  InitAlive'
  BY <1>8, Zenon DEF TypeOK, InitAlive, ExitPanic
<1>9. ASSUME NEW c \in CPUs, NEW p \in Slots, ExitFinish(c, p)
      PROVE  InitAlive'
  BY <1>9 DEF TypeOK, InitAlive, ExitFinish
<1>10. ASSUME NEW c \in CPUs, NEW p \in Slots, NEW q \in Slots, NEW old,
              WaitReap(c, p, q, old)
       PROVE  InitAlive'
  BY <1>10 DEF TypeOK, InitAlive, WaitReap, Reap
<1>11. ASSUME NEW c \in CPUs, NEW p \in Slots, NEW old, WaitReturn(c, p, old)
       PROVE  InitAlive'
  BY <1>11 DEF TypeOK, InitAlive, WaitReturn
<1>12. ASSUME NEW c \in CPUs, NEW p \in Slots, NEW old, WaitSleep(c, p, old)
       PROVE  InitAlive'
  BY <1>12 DEF TypeOK, InitAlive, WaitSleep
<1>13. ASSUME NEW c \in CPUs, NEW p \in Slots, NEW ch \in Chans, Sleep(c, p, ch)
       PROVE  InitAlive'
  BY <1>13 DEF TypeOK, InitAlive, Sleep
<1>14. ASSUME NEW c \in CPUs, NEW p \in Slots, SleepResume(c, p)
       PROVE  InitAlive'
  BY <1>14 DEF TypeOK, InitAlive, SleepResume
<1>15. ASSUME NEW c \in CPUs, NEW p \in Slots, KernelReturn(c, p)
       PROVE  InitAlive'
  BY <1>15 DEF TypeOK, InitAlive, KernelReturn
<1>16. CASE UNCHANGED pc
  BY <1>16, Zenon DEF InitAlive
<1>17. ASSUME NEW c \in CPUs, NEW p \in Slots,
              Dispatch(c, p) \/ Yield(c, p)
                \/ (\E target \in KillPids : Kill(c, p, target))
                \/ (\E n \in Requests : SetTickets(c, p, n))
       PROVE  UNCHANGED pc
  BY <1>17, Zenon DEF Dispatch, Yield, Kill, SetTickets
<1> QED
  BY <1>1, <1>2, <1>3, <1>4, <1>5, <1>6, <1>7, <1>8, <1>9, <1>10, <1>11, <1>12,
     <1>13, <1>14, <1>15, <1>16, <1>17, WaitCases, ZenonT(30)
  DEF Next, Step, Frozen, vars, SchedReturn, Wakeup

\* sched and scheduler hand the CPU and the lock over so that c->proc tells the
\* truth outside a switch.
LEMMA OneCPUStep ==
  ASSUME TypeOK, EmbryoOwned, OneCPUEach, [Next]_vars
  PROVE  OneCPUEach'
<1> USE DEF family, lottery
<1>1. ASSUME NEW c \in CPUs, NEW p \in Slots, Dispatch(c, p)
      PROVE  OneCPUEach'
  BY <1>1, Constants, SMTT(30) DEF TypeOK, OneCPUEach, Dispatch, Wins, Passed, Ready
<1>2. ASSUME NEW c \in CPUs, SchedReturn(c)
      PROVE  OneCPUEach'
  BY <1>2, Zenon DEF TypeOK, OneCPUEach, SchedReturn
<1>3. ASSUME NEW c \in CPUs, NEW p \in Slots, Resume(c, p)
      PROVE  OneCPUEach'
  BY <1>3, Zenon DEF TypeOK, OneCPUEach, Resume, SwitchedTo
<1>4. ASSUME NEW c \in CPUs, NEW p \in Slots, Yield(c, p)
      PROVE  OneCPUEach'
  BY <1>4, Constants, ZenonT(30) DEF TypeOK, OneCPUEach, Live, Yield, Runs
<1>5. ASSUME NEW c \in CPUs, NEW p \in Slots, AllocProc(c, p)
      PROVE  OneCPUEach'
  BY <1>5 DEF TypeOK, OneCPUEach, Live, AllocProc, Free
<1>6. ASSUME NEW c \in CPUs, NEW p \in Slots, ForkFail(c, p)
      PROVE  OneCPUEach'
  BY <1>6 DEF TypeOK, EmbryoOwned, OneCPUEach, Live, ForkFail
<1>7. ASSUME NEW c \in CPUs, NEW p \in Slots, ForkPublish(c, p)
      PROVE  OneCPUEach'
  BY <1>7 DEF TypeOK, EmbryoOwned, OneCPUEach, Live, ForkPublish
<1>8. ASSUME NEW c \in CPUs, NEW p \in Slots, ExitFinish(c, p)
      PROVE  OneCPUEach'
  <2>1. /\ cpu' = cpu /\ cpu[c] = p
        /\ lock = NoCPU /\ lock' = c
    BY <1>8, Zenon DEF ExitFinish, Runs
  <2>2. state[p] = "RUNNING" /\ state'[p] = "ZOMBIE"
    BY <1>8, Zenon DEF ExitFinish, Runs, Wakeup1, TypeOK
  <2>3. \A r \in Slots \ {p} : state[r] = "RUNNING" <=> state'[r] = "RUNNING"
    BY <1>8, Zenon DEF ExitFinish, Wakeup1, TypeOK
  <2> QED
    BY <2>1, <2>2, <2>3, Constants DEF TypeOK, OneCPUEach, Live
<1>9. ASSUME NEW c \in CPUs, NEW p \in Slots, NEW q \in Slots, NEW old,
             WaitReap(c, p, q, old)
      PROVE  OneCPUEach'
  BY <1>9, Constants DEF TypeOK, OneCPUEach, WaitReap, InWait, Reap, Found
<1>10. ASSUME NEW c \in CPUs, NEW p \in Slots, NEW old, WaitReturn(c, p, old)
       PROVE  OneCPUEach'
  BY <1>10, ZenonT(30) DEF TypeOK, OneCPUEach, Live, WaitReturn, InWait
<1>11. ASSUME NEW c \in CPUs, NEW p \in Slots, NEW old, WaitSleep(c, p, old)
       PROVE  OneCPUEach'
  BY <1>11, Constants DEF TypeOK, OneCPUEach, Live, WaitSleep, InWait, SleepOn
<1>12. ASSUME NEW c \in CPUs, NEW p \in Slots, NEW ch \in Chans, Sleep(c, p, ch)
       PROVE  OneCPUEach'
  BY <1>12, Constants, ZenonT(30) DEF TypeOK, OneCPUEach, Live, Sleep, Runs, SleepOn
<1>13. ASSUME NEW c \in CPUs, NEW p \in Slots, SleepResume(c, p)
       PROVE  OneCPUEach'
  BY <1>13, Zenon DEF TypeOK, OneCPUEach, SleepResume, SwitchedTo
<1>14. ASSUME NEW ch \in Chans, Wakeup(ch)
       PROVE  OneCPUEach'
  BY <1>14, ZenonT(30) DEF TypeOK, OneCPUEach, Live, Wakeup, Wakeup1
<1>15. ASSUME NEW c \in CPUs, NEW p \in Slots, NEW target \in KillPids,
              Kill(c, p, target)
       PROVE  OneCPUEach'
  BY <1>15 DEF TypeOK, OneCPUEach, Live, Kill, KilledState
<1>16. CASE UNCHANGED <<cpu, state, lock>>
  BY <1>16, Zenon DEF OneCPUEach, Live
<1>17. ASSUME NEW c \in CPUs, NEW p \in Slots,
              AllocNone(c, p) \/ ForkFill(c, p) \/ ExitBegin(c, p)
                \/ ExitPanic(c, p) \/ KernelReturn(c, p)
                \/ (\E n \in Requests : SetTickets(c, p, n))
       PROVE  UNCHANGED <<cpu, state, lock>>
  BY <1>17, Zenon DEF AllocNone, ForkFill, ExitBegin, ExitPanic, KernelReturn, SetTickets
<1> QED
  BY <1>1, <1>2, <1>3, <1>4, <1>5, <1>6, <1>7, <1>8, <1>9, <1>10, <1>11, <1>12,
     <1>13, <1>14, <1>15, <1>16, <1>17, WaitCases, Zenon
  DEF Next, Step, Frozen, vars

\* allocproc takes a slot that nobody has, and fork gives it up when it publishes
\* it or fails.
LEMMA EmbryoStep ==
  ASSUME TypeOK, PcState, EmbryoOwned, [Next]_vars
  PROVE  EmbryoOwned'
<1> USE DEF family, lottery
<1>1. ASSUME NEW c \in CPUs, NEW p \in Slots, Dispatch(c, p)
      PROVE  EmbryoOwned'
  BY <1>1 DEF TypeOK, EmbryoOwned, Live, Dispatch, Wins, Passed, Ready
<1>2. ASSUME NEW c \in CPUs, NEW p \in Slots, Resume(c, p)
      PROVE  EmbryoOwned'
  BY <1>2 DEF TypeOK, EmbryoOwned, Live, Resume
<1>3. ASSUME NEW c \in CPUs, NEW p \in Slots, Yield(c, p)
      PROVE  EmbryoOwned'
  BY <1>3 DEF TypeOK, EmbryoOwned, Live, Yield, Runs
<1>4. ASSUME NEW c \in CPUs, NEW p \in Slots, AllocProc(c, p)
      PROVE  EmbryoOwned'
  BY <1>4 DEF TypeOK, EmbryoOwned, Live, AllocProc, InUser, Runs, Free
<1>5. ASSUME NEW c \in CPUs, NEW p \in Slots, AllocNone(c, p)
      PROVE  EmbryoOwned'
  BY <1>5 DEF TypeOK, EmbryoOwned, Live, AllocNone, InUser
<1>6. ASSUME NEW c \in CPUs, NEW p \in Slots, ForkFail(c, p)
      PROVE  EmbryoOwned'
  BY <1>6, Constants DEF TypeOK, EmbryoOwned, Live, ForkFail
<1>7. ASSUME NEW c \in CPUs, NEW p \in Slots, ForkFill(c, p)
      PROVE  EmbryoOwned'
  BY <1>7 DEF TypeOK, EmbryoOwned, Live, ForkFill
<1>8. ASSUME NEW c \in CPUs, NEW p \in Slots, ForkPublish(c, p)
      PROVE  EmbryoOwned'
  BY <1>8, Constants DEF TypeOK, EmbryoOwned, Live, ForkPublish
<1>9. ASSUME NEW c \in CPUs, NEW p \in Slots, ExitBegin(c, p)
      PROVE  EmbryoOwned'
  BY <1>9 DEF TypeOK, EmbryoOwned, Live, ExitBegin
<1>10. ASSUME NEW c \in CPUs, NEW p \in Slots, ExitPanic(c, p)
       PROVE  EmbryoOwned'
  BY <1>10 DEF TypeOK, EmbryoOwned, Live, ExitPanic
<1>11. ASSUME NEW c \in CPUs, NEW p \in Slots, ExitFinish(c, p)
       PROVE  EmbryoOwned'
  BY <1>11, Constants, SMTT(30) DEF TypeOK, EmbryoOwned, Live, ExitFinish, Runs, Wakeup1
<1>12. ASSUME NEW c \in CPUs, NEW p \in Slots, NEW q \in Slots, NEW old,
              WaitReap(c, p, q, old)
       PROVE  EmbryoOwned'
  BY <1>12, SMTT(30) DEF TypeOK, PcState, EmbryoOwned, Live, WaitReap, InWait, Reap, Found
<1>13. ASSUME NEW c \in CPUs, NEW p \in Slots, NEW old, WaitReturn(c, p, old)
       PROVE  EmbryoOwned'
  BY <1>13 DEF TypeOK, EmbryoOwned, Live, WaitReturn, InWait
<1>14. ASSUME NEW c \in CPUs, NEW p \in Slots, NEW old, WaitSleep(c, p, old)
       PROVE  EmbryoOwned'
  BY <1>14 DEF TypeOK, EmbryoOwned, Live, WaitSleep, InWait, SleepOn
<1>15. ASSUME NEW c \in CPUs, NEW p \in Slots, NEW ch \in Chans, Sleep(c, p, ch)
       PROVE  EmbryoOwned'
  BY <1>15 DEF TypeOK, EmbryoOwned, Live, Sleep, Runs, SleepOn
<1>16. ASSUME NEW c \in CPUs, NEW p \in Slots, SleepResume(c, p)
       PROVE  EmbryoOwned'
  BY <1>16 DEF TypeOK, EmbryoOwned, Live, SleepResume
<1>17. ASSUME NEW c \in CPUs, NEW p \in Slots, KernelReturn(c, p)
       PROVE  EmbryoOwned'
  BY <1>17 DEF TypeOK, EmbryoOwned, Live, KernelReturn
<1>18. ASSUME NEW ch \in Chans, Wakeup(ch)
       PROVE  EmbryoOwned'
  BY <1>18 DEF TypeOK, EmbryoOwned, Live, Wakeup, Wakeup1
<1>19. ASSUME NEW c \in CPUs, NEW p \in Slots, NEW target \in KillPids,
              Kill(c, p, target)
       PROVE  EmbryoOwned'
  BY <1>19 DEF TypeOK, EmbryoOwned, Live, Kill, KilledState
<1>20. CASE UNCHANGED <<state, np, pc>>
  BY <1>20, Zenon DEF EmbryoOwned, Live
<1>21. ASSUME NEW c \in CPUs, NEW p \in Slots,
              (\E n \in Requests : SetTickets(c, p, n))
       PROVE  UNCHANGED <<state, np, pc>>
  BY <1>21, Zenon DEF SetTickets
<1> QED
  BY <1>1, <1>2, <1>3, <1>4, <1>5, <1>6, <1>7, <1>8, <1>9, <1>10, <1>11, <1>12,
     <1>13, <1>14, <1>15, <1>16, <1>17, <1>18, <1>19, <1>20, <1>21, WaitCases, Zenon
  DEF Next, Step, Frozen, vars, SchedReturn

-----------------------------------------------------------------------------
(***************************************************************************)
(* Parents and children: fork fills in a child, exit passes children on, wait *)
(* misses nothing.                                                         *)
(***************************************************************************)
\* Nobody touches the slot between the unlocked stores of fork and its publication.
LEMMA FilledStep ==
  ASSUME TypeOK, PcState, OneCPUEach, EmbryoOwned, Filled, [Next]_vars
  PROVE  Filled'
<1> USE DEF family, lottery
<1>1. ASSUME NEW c \in CPUs, SchedReturn(c)
      PROVE  Filled'
  BY <1>1 DEF TypeOK, OneCPUEach, EmbryoOwned, Filled, Live, SchedReturn
<1>2. ASSUME NEW c \in CPUs, NEW p \in Slots, Resume(c, p)
      PROVE  Filled'
  BY <1>2, Zenon DEF TypeOK, Filled, Resume
<1>3. ASSUME NEW c \in CPUs, NEW p \in Slots, AllocProc(c, p)
      PROVE  Filled'
  BY <1>3 DEF TypeOK, Filled, AllocProc, InUser
<1>4. ASSUME NEW c \in CPUs, NEW p \in Slots, AllocNone(c, p)
      PROVE  Filled'
  BY <1>4, Zenon DEF TypeOK, Filled, AllocNone, Failed
<1>5. ASSUME NEW c \in CPUs, NEW p \in Slots, ForkFail(c, p)
      PROVE  Filled'
  BY <1>5, Zenon DEF TypeOK, Filled, ForkFail, Failed
<1>6. ASSUME NEW c \in CPUs, NEW p \in Slots, ForkFill(c, p)
      PROVE  Filled'
  BY <1>6, Constants DEF TypeOK, PcState, EmbryoOwned, Filled, ForkFill,
     ChildTickets, ChildTicks
<1>7. ASSUME NEW c \in CPUs, NEW p \in Slots, ForkPublish(c, p)
      PROVE  Filled'
  BY <1>7, Zenon DEF TypeOK, Filled, ForkPublish
<1>8. ASSUME NEW c \in CPUs, NEW p \in Slots, ExitBegin(c, p)
      PROVE  Filled'
  BY <1>8, Zenon DEF TypeOK, Filled, ExitBegin
<1>9. ASSUME NEW c \in CPUs, NEW p \in Slots, ExitPanic(c, p)
      PROVE  Filled'
  BY <1>9, Zenon DEF TypeOK, Filled, ExitPanic
<1>10. ASSUME NEW c \in CPUs, NEW p \in Slots, ExitFinish(c, p)
       PROVE  Filled'
  BY <1>10 DEF TypeOK, PcState, Filled, ExitFinish, Reparent
<1>11. ASSUME NEW c \in CPUs, NEW p \in Slots, NEW q \in Slots, NEW old,
              WaitReap(c, p, q, old)
       PROVE  Filled'
  BY <1>11 DEF TypeOK, Filled, WaitReap, InWait, Reap, Found, Kids
<1>12. ASSUME NEW c \in CPUs, NEW p \in Slots, NEW old, WaitReturn(c, p, old)
       PROVE  Filled'
  BY <1>12, Zenon DEF TypeOK, Filled, WaitReturn
<1>13. ASSUME NEW c \in CPUs, NEW p \in Slots, NEW old, WaitSleep(c, p, old)
       PROVE  Filled'
  BY <1>13, Zenon DEF TypeOK, Filled, WaitSleep
<1>14. ASSUME NEW c \in CPUs, NEW p \in Slots, NEW ch \in Chans, Sleep(c, p, ch)
       PROVE  Filled'
  BY <1>14, Zenon DEF TypeOK, Filled, Sleep
<1>15. ASSUME NEW c \in CPUs, NEW p \in Slots, SleepResume(c, p)
       PROVE  Filled'
  BY <1>15, Zenon DEF TypeOK, Filled, SleepResume
<1>16. ASSUME NEW c \in CPUs, NEW p \in Slots, KernelReturn(c, p)
       PROVE  Filled'
  BY <1>16, Zenon DEF TypeOK, Filled, KernelReturn
<1>17. ASSUME NEW c \in CPUs, NEW p \in Slots, NEW n \in Requests,
              SetTickets(c, p, n)
       PROVE  Filled'
  BY <1>17 DEF TypeOK, Filled, SetTickets, Accepted
<1>18. CASE UNCHANGED <<pc, parent, np, tickets, ticks>>
  BY <1>18, Zenon DEF Filled
<1>19. ASSUME NEW c \in CPUs, NEW p \in Slots,
              Dispatch(c, p) \/ Yield(c, p)
                \/ (\E target \in KillPids : Kill(c, p, target))
       PROVE  UNCHANGED <<pc, parent, np, tickets, ticks>>
  BY <1>19, Zenon DEF Dispatch, Yield, Kill
<1> QED
  BY <1>1, <1>2, <1>3, <1>4, <1>5, <1>6, <1>7, <1>8, <1>9, <1>10, <1>11, <1>12,
     <1>13, <1>14, <1>15, <1>16, <1>17, <1>18, <1>19, WaitCases, Zenon
  DEF Next, Step, Frozen, vars, Wakeup

\* The children of a process that exits go to init, and a parent cannot be freed
\* before it has exited.
LEMMA NoOrphansStep ==
  ASSUME TypeOK, PcState, InitAlive, EmbryoOwned, Filled, NoOrphans, [Next]_vars
  PROVE  NoOrphans'
<1> USE DEF family, lottery
<1>1. ASSUME NEW c \in CPUs, NEW p \in Slots, Dispatch(c, p)
      PROVE  NoOrphans'
  BY <1>1 DEF TypeOK, NoOrphans, Live, Dispatch, Wins, Passed, Ready
<1>2. ASSUME NEW c \in CPUs, NEW p \in Slots, Resume(c, p)
      PROVE  NoOrphans'
  BY <1>2 DEF TypeOK, NoOrphans, Live, Resume
<1>3. ASSUME NEW c \in CPUs, NEW p \in Slots, Yield(c, p)
      PROVE  NoOrphans'
  BY <1>3 DEF TypeOK, NoOrphans, Live, Yield, Runs
<1>4. ASSUME NEW c \in CPUs, NEW p \in Slots, AllocProc(c, p)
      PROVE  NoOrphans'
  BY <1>4 DEF TypeOK, NoOrphans, Live, AllocProc, InUser, Free
<1>5. ASSUME NEW c \in CPUs, NEW p \in Slots, AllocNone(c, p)
      PROVE  NoOrphans'
  BY <1>5, ZenonT(30) DEF TypeOK, NoOrphans, Live, AllocNone, InUser
<1>6. ASSUME NEW c \in CPUs, NEW p \in Slots, ForkFail(c, p)
      PROVE  NoOrphans'
  BY <1>6, Constants DEF TypeOK, EmbryoOwned, NoOrphans, Live, ForkFail
<1>7. ASSUME NEW c \in CPUs, NEW p \in Slots, ForkFill(c, p)
      PROVE  NoOrphans'
  BY <1>7, Constants DEF TypeOK, EmbryoOwned, NoOrphans, Live, ForkFill
<1>8. ASSUME NEW c \in CPUs, NEW p \in Slots, ForkPublish(c, p)
      PROVE  NoOrphans'
  BY <1>8 DEF TypeOK, PcState, InitAlive, EmbryoOwned, Filled, NoOrphans, Live,
     ForkPublish, Runs
<1>9. ASSUME NEW c \in CPUs, NEW p \in Slots, ExitBegin(c, p)
      PROVE  NoOrphans'
  BY <1>9 DEF TypeOK, NoOrphans, Live, ExitBegin
<1>10. ASSUME NEW c \in CPUs, NEW p \in Slots, ExitPanic(c, p)
       PROVE  NoOrphans'
  BY <1>10 DEF TypeOK, NoOrphans, Live, ExitPanic
<1>11. ASSUME NEW c \in CPUs, NEW p \in Slots, ExitFinish(c, p)
       PROVE  NoOrphans'
  <2>1. p # INITPROC /\ state[p] = "RUNNING" /\ pc[p] = "exit"
    BY <1>11, Zenon DEF ExitFinish, Runs
  <2>2. \A r \in Slots \ {p} :
            /\ state[r] \in {"SLEEPING", "RUNNABLE", "RUNNING"}
                 <=> state'[r] \in {"SLEEPING", "RUNNABLE", "RUNNING"}
            /\ Live(r) <=> Live(r)'
    BY <1>11, Zenon DEF TypeOK, ExitFinish, Wakeup1, Live
  <2>3. Live(p) /\ Live(p)'
    BY <1>11, <2>1, Zenon DEF TypeOK, ExitFinish, Wakeup1, Live
  <2>4. state'[INITPROC] \in {"SLEEPING", "RUNNABLE", "RUNNING"}
    BY <2>1, <2>2, Constants, Zenon DEF TypeOK, States, PcState, InitAlive
  <2>5. parent' = Reparent(p)
    BY <1>11, Zenon DEF ExitFinish
  <2>6. ASSUME NEW r \in Slots, Live(r), r # INITPROC
        PROVE  /\ parent'[r] \notin {NoSlot, r}
               /\ state'[parent'[r]] \in {"SLEEPING", "RUNNABLE", "RUNNING"}
    BY <2>2, <2>4, <2>5, <2>6, Constants DEF TypeOK, NoOrphans, Reparent
  <2>7. ASSUME NEW r \in Slots, ~ (Live(r) /\ r # INITPROC)
        PROVE  \/ parent'[r] = NoSlot
               \/ state'[r] = "EMBRYO" /\ np'[parent'[r]] = r /\ pc'[parent'[r]] = "publish"
    BY <1>11, <2>1, <2>3, <2>5, <2>7, Constants, SMTT(30)
    DEF TypeOK, NoOrphans, Reparent, ExitFinish, Wakeup1, Live
  <2> QED
    BY <2>2, <2>3, <2>6, <2>7 DEF NoOrphans
<1>12. ASSUME NEW c \in CPUs, NEW p \in Slots, NEW q \in Slots, NEW old,
              WaitReap(c, p, q, old)
       PROVE  NoOrphans'
  BY <1>12 DEF TypeOK, NoOrphans, Live, WaitReap, InWait, Reap, Found
<1>13. ASSUME NEW c \in CPUs, NEW p \in Slots, NEW old, WaitReturn(c, p, old)
       PROVE  NoOrphans'
  BY <1>13 DEF TypeOK, NoOrphans, Live, WaitReturn, InWait
<1>14. ASSUME NEW c \in CPUs, NEW p \in Slots, NEW old, WaitSleep(c, p, old)
       PROVE  NoOrphans'
  BY <1>14 DEF TypeOK, NoOrphans, Live, WaitSleep, InWait, SleepOn
<1>15. ASSUME NEW c \in CPUs, NEW p \in Slots, NEW ch \in Chans, Sleep(c, p, ch)
       PROVE  NoOrphans'
  BY <1>15 DEF TypeOK, NoOrphans, Live, Sleep, Runs, SleepOn
<1>16. ASSUME NEW c \in CPUs, NEW p \in Slots, SleepResume(c, p)
       PROVE  NoOrphans'
  BY <1>16 DEF TypeOK, NoOrphans, Live, SleepResume
<1>17. ASSUME NEW c \in CPUs, NEW p \in Slots, KernelReturn(c, p)
       PROVE  NoOrphans'
  BY <1>17 DEF TypeOK, NoOrphans, Live, KernelReturn
<1>18. ASSUME NEW ch \in Chans, Wakeup(ch)
       PROVE  NoOrphans'
  BY <1>18 DEF TypeOK, NoOrphans, Live, Wakeup, Wakeup1
<1>19. ASSUME NEW c \in CPUs, NEW p \in Slots, NEW target \in KillPids,
              Kill(c, p, target)
       PROVE  NoOrphans'
  BY <1>19, SMTT(30) DEF TypeOK, NoOrphans, Live, Kill, KilledState
<1>20. CASE UNCHANGED <<state, parent, np, pc>>
  BY <1>20, Zenon DEF NoOrphans, Live
<1>21. ASSUME NEW c \in CPUs, NEW p \in Slots,
              (\E n \in Requests : SetTickets(c, p, n))
       PROVE  UNCHANGED <<state, parent, np, pc>>
  BY <1>21, Zenon DEF SetTickets
<1> QED
  BY <1>1, <1>2, <1>3, <1>4, <1>5, <1>6, <1>7, <1>8, <1>9, <1>10, <1>11, <1>12,
     <1>13, <1>14, <1>15, <1>16, <1>17, <1>18, <1>19, <1>20, <1>21, WaitCases, Zenon
  DEF Next, Step, Frozen, vars, SchedReturn

\* Only sleep sets p->chan, and wait sleeps on the process itself.
LEMMA WaitChanStep ==
  ASSUME TypeOK, PcState, EmbryoOwned, WaitChan, [Next]_vars
  PROVE  WaitChan'
<1> USE DEF family, lottery
<1>1. ASSUME NEW c \in CPUs, NEW p \in Slots, Dispatch(c, p)
      PROVE  WaitChan'
  BY <1>1, Zenon DEF TypeOK, WaitChan, Dispatch
<1>2. ASSUME NEW c \in CPUs, NEW p \in Slots, Resume(c, p)
      PROVE  WaitChan'
  BY <1>2, Zenon DEF TypeOK, WaitChan, Resume
<1>3. ASSUME NEW c \in CPUs, NEW p \in Slots, Yield(c, p)
      PROVE  WaitChan'
  BY <1>3, Zenon DEF TypeOK, WaitChan, Yield
<1>4. ASSUME NEW c \in CPUs, NEW p \in Slots, AllocProc(c, p)
      PROVE  WaitChan'
  BY <1>4, Zenon DEF TypeOK, WaitChan, AllocProc
<1>5. ASSUME NEW c \in CPUs, NEW p \in Slots, AllocNone(c, p)
      PROVE  WaitChan'
  BY <1>5, Zenon DEF TypeOK, WaitChan, AllocNone, Failed
<1>6. ASSUME NEW c \in CPUs, NEW p \in Slots, ForkFail(c, p)
      PROVE  WaitChan'
  BY <1>6, Zenon DEF TypeOK, WaitChan, ForkFail, Failed
<1>7. ASSUME NEW c \in CPUs, NEW p \in Slots, ForkFill(c, p)
      PROVE  WaitChan'
  BY <1>7, Zenon DEF TypeOK, WaitChan, ForkFill
<1>8. ASSUME NEW c \in CPUs, NEW p \in Slots, ForkPublish(c, p)
      PROVE  WaitChan'
  BY <1>8, Zenon DEF TypeOK, WaitChan, ForkPublish
<1>9. ASSUME NEW c \in CPUs, NEW p \in Slots, ExitBegin(c, p)
      PROVE  WaitChan'
  BY <1>9, Zenon DEF TypeOK, WaitChan, ExitBegin
<1>10. ASSUME NEW c \in CPUs, NEW p \in Slots, ExitPanic(c, p)
       PROVE  WaitChan'
  BY <1>10, Zenon DEF TypeOK, WaitChan, ExitPanic
<1>11. ASSUME NEW c \in CPUs, NEW p \in Slots, ExitFinish(c, p)
       PROVE  WaitChan'
  BY <1>11, Zenon DEF TypeOK, WaitChan, ExitFinish, Wakeup1
<1>12. ASSUME NEW c \in CPUs, NEW p \in Slots, NEW q \in Slots, NEW old,
              WaitReap(c, p, q, old)
       PROVE  WaitChan'
  BY <1>12, ZenonT(30) DEF TypeOK, WaitChan, WaitReap, InWait, Reap
<1>13. ASSUME NEW c \in CPUs, NEW p \in Slots, NEW old, WaitReturn(c, p, old)
       PROVE  WaitChan'
  BY <1>13, Zenon DEF TypeOK, WaitChan, WaitReturn, InWait
<1>14. ASSUME NEW c \in CPUs, NEW p \in Slots, NEW old, WaitSleep(c, p, old)
       PROVE  WaitChan'
  BY <1>14, Zenon DEF TypeOK, WaitChan, WaitSleep, SleepOn
<1>15. ASSUME NEW c \in CPUs, NEW p \in Slots, NEW ch \in Chans, Sleep(c, p, ch)
       PROVE  WaitChan'
  BY <1>15, Constants DEF TypeOK, PcState, EmbryoOwned, Live, WaitChan, Sleep, Runs,
     SleepOn
<1>16. ASSUME NEW c \in CPUs, NEW p \in Slots, SleepResume(c, p)
       PROVE  WaitChan'
  BY <1>16, Zenon DEF TypeOK, WaitChan, SleepResume
<1>17. ASSUME NEW c \in CPUs, NEW p \in Slots, KernelReturn(c, p)
       PROVE  WaitChan'
  BY <1>17, Zenon DEF TypeOK, WaitChan, KernelReturn
<1>18. ASSUME NEW ch \in Chans, Wakeup(ch)
       PROVE  WaitChan'
  BY <1>18, Zenon DEF TypeOK, WaitChan, Wakeup, Wakeup1
<1>19. ASSUME NEW c \in CPUs, NEW p \in Slots, NEW target \in KillPids,
              Kill(c, p, target)
       PROVE  WaitChan'
  BY <1>19, Zenon DEF TypeOK, WaitChan, Kill, KilledState
<1>20. CASE UNCHANGED <<state, pc, chan>>
  BY <1>20, Zenon DEF WaitChan
<1>21. ASSUME NEW c \in CPUs, NEW p \in Slots,
              (\E n \in Requests : SetTickets(c, p, n))
       PROVE  UNCHANGED <<state, pc, chan>>
  BY <1>21, Zenon DEF SetTickets
<1> QED
  BY <1>1, <1>2, <1>3, <1>4, <1>5, <1>6, <1>7, <1>8, <1>9, <1>10, <1>11, <1>12,
     <1>13, <1>14, <1>15, <1>16, <1>17, <1>18, <1>19, <1>20, <1>21, WaitCases, Zenon
  DEF Next, Step, Frozen, vars, SchedReturn

\* exit, the passing on of ZOMBIEs to init and kill each wake the sleeper of wait
\* in the step that gives it something to do.
LEMMA NoMissedExitStep ==
  ASSUME TypeOK, PcState, EmbryoOwned, NoOrphans, WaitChan, NoMissedExit,
         [Next]_vars
  PROVE  NoMissedExit'
<1> USE DEF family, lottery
<1>1. ASSUME NEW c \in CPUs, NEW p \in Slots, Dispatch(c, p)
      PROVE  NoMissedExit'
  BY <1>1, Constants, SMTT(90) DEF TypeOK, PcState, EmbryoOwned, NoOrphans, WaitChan,
     NoMissedExit, Live, Kids, Dispatch, Wins, Passed, Ready
<1>2. ASSUME NEW c \in CPUs, NEW p \in Slots, Resume(c, p)
      PROVE  NoMissedExit'
  BY <1>2, Zenon DEF TypeOK, NoMissedExit, Kids, Resume
<1>3. ASSUME NEW c \in CPUs, NEW p \in Slots, Yield(c, p)
      PROVE  NoMissedExit'
  BY <1>3, Zenon DEF TypeOK, NoMissedExit, Kids, Yield
<1>4. ASSUME NEW c \in CPUs, NEW p \in Slots, AllocProc(c, p)
      PROVE  NoMissedExit'
  BY <1>4 DEF TypeOK, NoMissedExit, Kids, AllocProc
<1>5. ASSUME NEW c \in CPUs, NEW p \in Slots, AllocNone(c, p)
      PROVE  NoMissedExit'
  BY <1>5, Zenon DEF TypeOK, NoMissedExit, Kids, AllocNone, Failed
<1>6. ASSUME NEW c \in CPUs, NEW p \in Slots, ForkFail(c, p)
      PROVE  NoMissedExit'
  BY <1>6, Zenon DEF TypeOK, NoMissedExit, Kids, ForkFail, Failed
<1>7. ASSUME NEW c \in CPUs, NEW p \in Slots, ForkFill(c, p)
      PROVE  NoMissedExit'
  BY <1>7, Constants DEF TypeOK, EmbryoOwned, NoOrphans, NoMissedExit, Live, Kids,
     ForkFill
<1>8. ASSUME NEW c \in CPUs, NEW p \in Slots, ForkPublish(c, p)
      PROVE  NoMissedExit'
  BY <1>8, Zenon DEF TypeOK, NoMissedExit, Kids, ForkPublish
<1>9. ASSUME NEW c \in CPUs, NEW p \in Slots, ExitBegin(c, p)
      PROVE  NoMissedExit'
  BY <1>9 DEF TypeOK, NoMissedExit, Kids, ExitBegin
<1>10. ASSUME NEW c \in CPUs, NEW p \in Slots, ExitPanic(c, p)
       PROVE  NoMissedExit'
  BY <1>10, Constants DEF TypeOK, PcState, EmbryoOwned, NoOrphans, WaitChan,
     NoMissedExit, Live, Kids, ExitPanic, Runs
<1>11. ASSUME NEW c \in CPUs, NEW p \in Slots, ExitFinish(c, p)
       PROVE  NoMissedExit'
  <2>1. SUFFICES ASSUME NEW r \in Slots, state'[r] = "SLEEPING", pc'[r] = "wait"
                 PROVE  /\ Kids(r)' # {}
                        /\ \A q \in Kids(r)' : state'[q] # "ZOMBIE"
                        /\ ~ killed'[r]
    BY Zenon DEF NoMissedExit
  <2>2. /\ r # p /\ state[r] = "SLEEPING" /\ pc[r] = "wait"
        /\ r \notin ExitWakes(p)
    BY <1>11, <2>1, Zenon DEF TypeOK, ExitFinish, Wakeup1, WaitChan
  <2>3. parent[p] # r /\ (r = INITPROC => \A q \in Kids(p) : state[q] # "ZOMBIE")
    BY <2>2, Zenon DEF ExitWakes
  <2>4. Kids(r) # {} /\ (\A q \in Kids(r) : state[q] # "ZOMBIE") /\ ~ killed[r]
    BY <2>1, <2>2, Zenon DEF NoMissedExit
  <2>5. parent' = Reparent(p) /\ killed' = killed
    BY <1>11, Zenon DEF ExitFinish
  <2>6. Kids(r) \subseteq Kids(r)'
    BY <2>2, <2>5, Zenon DEF Kids, Reparent
  <2>7. ASSUME NEW q \in Kids(r)' PROVE state'[q] # "ZOMBIE"
    <3>1. q \in Slots /\ (q \in Kids(r) \/ (r = INITPROC /\ q \in Kids(p)))
      BY <2>5, <2>7, Zenon DEF Kids, Reparent
    <3>2. q # p
      <4>1. p # INITPROC /\ Live(p)
        BY <1>11, Zenon DEF ExitFinish, Runs, Live
      <4>2. parent[p] # p
        BY <1>11, <4>1, Zenon DEF NoOrphans, ExitFinish, Runs
      <4> QED
        BY <2>3, <3>1, <4>2, Zenon DEF Kids
    <3>3. state[q] # "ZOMBIE"
      BY <2>3, <2>4, <3>1, Zenon
    <3> QED
      BY <1>11, <3>1, <3>2, <3>3, Zenon DEF TypeOK, ExitFinish, Wakeup1
  <2> QED
    BY <2>4, <2>5, <2>6, <2>7, Zenon
<1>12. ASSUME NEW c \in CPUs, NEW p \in Slots, NEW q \in Slots, NEW old,
              WaitReap(c, p, q, old)
       PROVE  NoMissedExit'
  BY <1>12, Constants, SMTT(30) DEF TypeOK, NoMissedExit, Kids, WaitReap, Reap, Found
<1>13. ASSUME NEW c \in CPUs, NEW p \in Slots, NEW old, WaitReturn(c, p, old)
       PROVE  NoMissedExit'
  BY <1>13, Zenon DEF TypeOK, NoMissedExit, Kids, WaitReturn
<1>14. ASSUME NEW c \in CPUs, NEW p \in Slots, NEW old, WaitSleep(c, p, old)
       PROVE  NoMissedExit'
  BY <1>14, Zenon DEF TypeOK, NoMissedExit, Kids, WaitSleep, Found, SleepOn
<1>15. ASSUME NEW c \in CPUs, NEW p \in Slots, NEW ch \in Chans, Sleep(c, p, ch)
       PROVE  NoMissedExit'
  BY <1>15, Zenon DEF TypeOK, NoMissedExit, Kids, Sleep, SleepOn
<1>16. ASSUME NEW c \in CPUs, NEW p \in Slots, SleepResume(c, p)
       PROVE  NoMissedExit'
  BY <1>16, Zenon DEF TypeOK, NoMissedExit, Kids, SleepResume
<1>17. ASSUME NEW c \in CPUs, NEW p \in Slots, KernelReturn(c, p)
       PROVE  NoMissedExit'
  BY <1>17, Zenon DEF TypeOK, NoMissedExit, Kids, KernelReturn
<1>18. ASSUME NEW ch \in Chans, Wakeup(ch)
       PROVE  NoMissedExit'
  BY <1>18, Zenon DEF TypeOK, NoMissedExit, Kids, Wakeup, Wakeup1
<1>19. ASSUME NEW c \in CPUs, NEW p \in Slots, NEW target \in KillPids,
              Kill(c, p, target)
       PROVE  NoMissedExit'
  BY <1>19 DEF TypeOK, NoMissedExit, Kids, Kill, KilledState
<1>20. CASE UNCHANGED <<state, pc, parent, killed>>
  BY <1>20, Zenon DEF NoMissedExit, Kids
<1>21. ASSUME NEW c \in CPUs, NEW p \in Slots,
              (\E n \in Requests : SetTickets(c, p, n))
       PROVE  UNCHANGED <<state, pc, parent, killed>>
  BY <1>21, ZenonT(30) DEF SetTickets
<1> QED
  BY <1>1, <1>2, <1>3, <1>4, <1>5, <1>6, <1>7, <1>8, <1>9, <1>10, <1>11, <1>12,
     <1>13, <1>14, <1>15, <1>16, <1>17, <1>18, <1>19, <1>20, <1>21, WaitCases, ZenonT(30)
  DEF Next, Step, Frozen, vars, SchedReturn

-----------------------------------------------------------------------------
(***************************************************************************)
(* Pids, tickets and ticks, and the theorems.                              *)
(***************************************************************************)
\* allocproc advances nextpid past every pid it hands out.
LEMMA PidsPastStep ==
  ASSUME TypeOK, EmbryoOwned, PidsPast, [Next]_vars
  PROVE  PidsPast'
<1> USE DEF family, lottery
<1>1. ASSUME NEW c \in CPUs, NEW p \in Slots, Dispatch(c, p)
      PROVE  PidsPast'
  BY <1>1, Zenon DEF TypeOK, PidsPast, Dispatch, Wins, Passed, Ready
<1>2. ASSUME NEW c \in CPUs, NEW p \in Slots, Yield(c, p)
      PROVE  PidsPast'
  BY <1>2, Zenon DEF TypeOK, PidsPast, Yield, Runs
<1>3. ASSUME NEW c \in CPUs, NEW p \in Slots, AllocProc(c, p)
      PROVE  PidsPast'
  BY <1>3 DEF TypeOK, PidsPast, AllocProc, PidAfter
<1>4. ASSUME NEW c \in CPUs, NEW p \in Slots, ForkFail(c, p)
      PROVE  PidsPast'
  BY <1>4, Zenon DEF TypeOK, PidsPast, ForkFail
<1>5. ASSUME NEW c \in CPUs, NEW p \in Slots, ForkPublish(c, p)
      PROVE  PidsPast'
  BY <1>5, Constants DEF TypeOK, EmbryoOwned, PidsPast, ForkPublish
<1>6. ASSUME NEW c \in CPUs, NEW p \in Slots, ExitFinish(c, p)
      PROVE  PidsPast'
  BY <1>6, Zenon DEF TypeOK, PidsPast, ExitFinish, Runs, Wakeup1
<1>7. ASSUME NEW c \in CPUs, NEW p \in Slots, NEW q \in Slots, NEW old,
             WaitReap(c, p, q, old)
      PROVE  PidsPast'
  BY <1>7, Zenon DEF TypeOK, PidsPast, WaitReap, Reap
<1>8. ASSUME NEW c \in CPUs, NEW p \in Slots, NEW old, WaitSleep(c, p, old)
      PROVE  PidsPast'
  BY <1>8, Zenon DEF TypeOK, PidsPast, WaitSleep, InWait, SleepOn
<1>9. ASSUME NEW c \in CPUs, NEW p \in Slots, NEW ch \in Chans, Sleep(c, p, ch)
      PROVE  PidsPast'
  BY <1>9, Zenon DEF TypeOK, PidsPast, Sleep, Runs, SleepOn
<1>10. ASSUME NEW ch \in Chans, Wakeup(ch)
       PROVE  PidsPast'
  BY <1>10, Zenon DEF TypeOK, PidsPast, Wakeup, Wakeup1
<1>11. ASSUME NEW c \in CPUs, NEW p \in Slots, NEW target \in KillPids,
              Kill(c, p, target)
       PROVE  PidsPast'
  BY <1>11, Zenon DEF TypeOK, PidsPast, Kill, KilledState
<1>12. CASE UNCHANGED <<state, pid, nextpid>>
  BY <1>12, Zenon DEF PidsPast
<1>13. ASSUME NEW c \in CPUs, NEW p \in Slots,
              Resume(c, p) \/ AllocNone(c, p) \/ ForkFill(c, p) \/ ExitBegin(c, p)
                \/ ExitPanic(c, p) \/ (\E old : WaitReturn(c, p, old))
                \/ SleepResume(c, p) \/ KernelReturn(c, p)
                \/ (\E n \in Requests : SetTickets(c, p, n))
       PROVE  UNCHANGED <<state, pid, nextpid>>
  BY <1>13, ZenonT(30) DEF Resume, AllocNone, ForkFill, ExitBegin, ExitPanic, WaitReturn,
     SleepResume, KernelReturn, SetTickets
<1>14. ASSUME NEW c \in CPUs, NEW p \in Slots, Step(c, p)
       PROVE  PidsPast'
  <2>1. CASE Wait(c, p) \/ WaitResume(c, p)
    BY <1>7, <1>8, <1>12, <1>13, <2>1, WaitCases, Zenon
  <2> QED
    BY <1>1, <1>2, <1>3, <1>4, <1>5, <1>6, <1>9, <1>11, <1>12, <1>13, <1>14, <2>1, Zenon
    DEF Step
<1> QED
  BY <1>10, <1>12, <1>14, Zenon DEF Next, Frozen, vars, SchedReturn

\* So the next pid is new.
LEMMA PidsUniqueStep ==
  ASSUME TypeOK, EmbryoOwned, PidsPast, PidsUnique, [Next]_vars
  PROVE  PidsUnique'
<1> USE DEF family, lottery
<1>1. ASSUME NEW c \in CPUs, NEW p \in Slots, Dispatch(c, p)
      PROVE  PidsUnique'
  BY <1>1, Zenon DEF TypeOK, PidsUnique, Dispatch, Wins, Passed, Ready
<1>2. ASSUME NEW c \in CPUs, NEW p \in Slots, Yield(c, p)
      PROVE  PidsUnique'
  BY <1>2, Zenon DEF TypeOK, PidsUnique, Yield, Runs
<1>3. ASSUME NEW c \in CPUs, NEW p \in Slots, AllocProc(c, p)
      PROVE  PidsUnique'
  BY <1>3 DEF TypeOK, PidsPast, PidsUnique, AllocProc
<1>4. ASSUME NEW c \in CPUs, NEW p \in Slots, ForkFail(c, p)
      PROVE  PidsUnique'
  BY <1>4, Constants DEF TypeOK, EmbryoOwned, PidsPast, PidsUnique, ForkFail, Runs,
     Failed
<1>5. ASSUME NEW c \in CPUs, NEW p \in Slots, ForkPublish(c, p)
      PROVE  PidsUnique'
  BY <1>5, Constants DEF TypeOK, EmbryoOwned, PidsUnique, ForkPublish
<1>6. ASSUME NEW c \in CPUs, NEW p \in Slots, ExitFinish(c, p)
      PROVE  PidsUnique'
  BY <1>6, Zenon DEF TypeOK, PidsUnique, ExitFinish, Runs, Wakeup1
<1>7. ASSUME NEW c \in CPUs, NEW p \in Slots, NEW q \in Slots, NEW old,
             WaitReap(c, p, q, old)
      PROVE  PidsUnique'
  BY <1>7, Zenon DEF TypeOK, PidsUnique, WaitReap, Reap
<1>8. ASSUME NEW c \in CPUs, NEW p \in Slots, NEW old, WaitSleep(c, p, old)
      PROVE  PidsUnique'
  BY <1>8, ZenonT(30) DEF TypeOK, PidsUnique, WaitSleep, InWait, SleepOn
<1>9. ASSUME NEW c \in CPUs, NEW p \in Slots, NEW ch \in Chans, Sleep(c, p, ch)
      PROVE  PidsUnique'
  BY <1>9, Zenon DEF TypeOK, PidsUnique, Sleep, Runs, SleepOn
<1>10. ASSUME NEW ch \in Chans, Wakeup(ch)
       PROVE  PidsUnique'
  BY <1>10, Zenon DEF TypeOK, PidsUnique, Wakeup, Wakeup1
<1>11. ASSUME NEW c \in CPUs, NEW p \in Slots, NEW target \in KillPids,
              Kill(c, p, target)
       PROVE  PidsUnique'
  BY <1>11 DEF TypeOK, PidsUnique, Kill, KilledState
<1>12. CASE UNCHANGED <<state, pid>>
  BY <1>12, Zenon DEF PidsUnique
<1>13. ASSUME NEW c \in CPUs, NEW p \in Slots,
              Resume(c, p) \/ AllocNone(c, p) \/ ForkFill(c, p) \/ ExitBegin(c, p)
                \/ ExitPanic(c, p) \/ (\E old : WaitReturn(c, p, old))
                \/ SleepResume(c, p) \/ KernelReturn(c, p)
                \/ (\E n \in Requests : SetTickets(c, p, n))
       PROVE  UNCHANGED <<state, pid>>
  BY <1>13, Zenon DEF Resume, AllocNone, ForkFill, ExitBegin, ExitPanic, WaitReturn,
     SleepResume, KernelReturn, SetTickets
<1>14. ASSUME NEW c \in CPUs, NEW p \in Slots, Step(c, p)
       PROVE  PidsUnique'
  <2>1. CASE Wait(c, p) \/ WaitResume(c, p)
    BY <1>7, <1>8, <1>12, <1>13, <2>1, WaitCases, Zenon
  <2> QED
    BY <1>1, <1>2, <1>3, <1>4, <1>5, <1>6, <1>9, <1>11, <1>12, <1>13, <1>14, <2>1, Zenon
    DEF Step
<1> QED
  BY <1>10, <1>12, <1>14, Zenon DEF Next, Frozen, vars, SchedReturn

\* fork and sys_settickets keep the floor of MINTICKETS.
LEMMA TicketFloorStep ==
  ASSUME TypeOK, Filled, TicketFloor, [Next]_vars
  PROVE  TicketFloor'
<1> USE DEF family, lottery
<1>1. ASSUME NEW c \in CPUs, NEW p \in Slots, Dispatch(c, p)
      PROVE  TicketFloor'
  BY <1>1, Zenon DEF TypeOK, Live, TicketFloor, Dispatch, Wins, Passed, Ready
<1>2. ASSUME NEW c \in CPUs, NEW p \in Slots, Yield(c, p)
      PROVE  TicketFloor'
  BY <1>2, Zenon DEF TypeOK, Live, TicketFloor, Yield, Runs
<1>3. ASSUME NEW c \in CPUs, NEW p \in Slots, AllocProc(c, p)
      PROVE  TicketFloor'
  BY <1>3, Zenon DEF TypeOK, Live, TicketFloor, AllocProc
<1>4. ASSUME NEW c \in CPUs, NEW p \in Slots, ForkFail(c, p)
      PROVE  TicketFloor'
  BY <1>4, Zenon DEF TypeOK, Live, TicketFloor, ForkFail
<1>5. ASSUME NEW c \in CPUs, NEW p \in Slots, ForkFill(c, p)
      PROVE  TicketFloor'
  BY <1>5, ProcAssumption DEF TypeOK, Live, TicketFloor, ForkFill, Runs,
     ChildTickets
<1>6. ASSUME NEW c \in CPUs, NEW p \in Slots, ForkPublish(c, p)
      PROVE  TicketFloor'
  BY <1>6, Zenon DEF TypeOK, Filled, Live, TicketFloor, ForkPublish
<1>7. ASSUME NEW c \in CPUs, NEW p \in Slots, ExitFinish(c, p)
      PROVE  TicketFloor'
  BY <1>7, Zenon DEF TypeOK, Live, TicketFloor, ExitFinish, Runs, Wakeup1
<1>8. ASSUME NEW c \in CPUs, NEW p \in Slots, NEW q \in Slots, NEW old,
             WaitReap(c, p, q, old)
      PROVE  TicketFloor'
  BY <1>8, Zenon DEF TypeOK, Live, TicketFloor, WaitReap, Reap
<1>9. ASSUME NEW c \in CPUs, NEW p \in Slots, NEW old, WaitSleep(c, p, old)
      PROVE  TicketFloor'
  BY <1>9, Zenon DEF TypeOK, Live, TicketFloor, WaitSleep, InWait, SleepOn
<1>10. ASSUME NEW c \in CPUs, NEW p \in Slots, NEW ch \in Chans, Sleep(c, p, ch)
       PROVE  TicketFloor'
  BY <1>10, Zenon DEF TypeOK, Live, TicketFloor, Sleep, Runs, SleepOn
<1>11. ASSUME NEW ch \in Chans, Wakeup(ch)
       PROVE  TicketFloor'
  BY <1>11, Zenon DEF TypeOK, Live, TicketFloor, Wakeup, Wakeup1
<1>12. ASSUME NEW c \in CPUs, NEW p \in Slots, NEW target \in KillPids,
              Kill(c, p, target)
       PROVE  TicketFloor'
  BY <1>12, Zenon DEF TypeOK, Live, TicketFloor, Kill, KilledState
<1>13. ASSUME NEW c \in CPUs, NEW p \in Slots, NEW n \in Requests,
              SetTickets(c, p, n)
       PROVE  TicketFloor'
  BY <1>13, Zenon DEF TypeOK, Live, TicketFloor, SetTickets, Accepted
<1>14. CASE UNCHANGED <<state, tickets>>
  BY <1>14, Zenon DEF TicketFloor, Live
<1>15. ASSUME NEW c \in CPUs, NEW p \in Slots,
              Resume(c, p) \/ AllocNone(c, p) \/ ExitBegin(c, p) \/ ExitPanic(c, p)
                \/ (\E old : WaitReturn(c, p, old)) \/ SleepResume(c, p)
                \/ KernelReturn(c, p)
       PROVE  UNCHANGED <<state, tickets>>
  BY <1>15, Zenon DEF Resume, AllocNone, ExitBegin, ExitPanic, WaitReturn, SleepResume,
     KernelReturn
<1> QED
  BY <1>1, <1>2, <1>3, <1>4, <1>5, <1>6, <1>7, <1>8, <1>9, <1>10, <1>11, <1>12,
     <1>13, <1>14, <1>15, WaitCases, ZenonT(60)
  DEF Next, Step, Frozen, vars, SchedReturn

\* A new process first runs forkret, with the lock, on the CPU that picked it.
LEMMA NeverRanStep ==
  ASSUME TypeOK, PcState, EmbryoOwned, OneCPUEach, NeverRan, [Next]_vars
  PROVE  NeverRan'
<1> USE DEF family, lottery
<1>1. ASSUME NEW c \in CPUs, NEW p \in Slots, Dispatch(c, p)
      PROVE  NeverRan'
  BY <1>1, Constants, Zenon DEF TypeOK, NeverRan, Dispatch
<1>2. ASSUME NEW c \in CPUs, SchedReturn(c)
      PROVE  NeverRan'
  BY <1>2, Constants DEF TypeOK, PcState, EmbryoOwned, OneCPUEach, NeverRan, Live,
     SchedReturn
<1>3. ASSUME NEW c \in CPUs, NEW p \in Slots, Resume(c, p)
      PROVE  NeverRan'
  BY <1>3, Zenon DEF TypeOK, NeverRan, Resume, SwitchedTo
<1>4. ASSUME NEW c \in CPUs, NEW p \in Slots, Yield(c, p)
      PROVE  NeverRan'
  BY <1>4, Constants, Zenon DEF TypeOK, NeverRan, Yield
<1>5. ASSUME NEW c \in CPUs, NEW p \in Slots, AllocProc(c, p)
      PROVE  NeverRan'
  BY <1>5, SMTT(30) DEF TypeOK, NeverRan, AllocProc, Free
<1>6. ASSUME NEW c \in CPUs, NEW p \in Slots, AllocNone(c, p)
      PROVE  NeverRan'
  BY <1>6, Constants, SMTT(30) DEF TypeOK, PcState, EmbryoOwned, OneCPUEach, NeverRan, Live,
     AllocNone, InUser, Runs, Failed
<1>7. ASSUME NEW c \in CPUs, NEW p \in Slots, ForkFail(c, p)
      PROVE  NeverRan'
  BY <1>7, Constants DEF TypeOK, PcState, EmbryoOwned, OneCPUEach, NeverRan, Live,
     ForkFail, Runs, Failed
<1>8. ASSUME NEW c \in CPUs, NEW p \in Slots, ForkFill(c, p)
      PROVE  NeverRan'
  BY <1>8, Zenon DEF TypeOK, NeverRan, ForkFill
<1>9. ASSUME NEW c \in CPUs, NEW p \in Slots, ForkPublish(c, p)
      PROVE  NeverRan'
  BY <1>9, SMTT(30) DEF TypeOK, EmbryoOwned, OneCPUEach, NeverRan, Live, ForkPublish
<1>10. ASSUME NEW c \in CPUs, NEW p \in Slots, ExitBegin(c, p)
       PROVE  NeverRan'
  BY <1>10, Zenon DEF TypeOK, NeverRan, ExitBegin
<1>11. ASSUME NEW c \in CPUs, NEW p \in Slots, ExitPanic(c, p)
       PROVE  NeverRan'
  BY <1>11, Zenon DEF TypeOK, NeverRan, ExitPanic
<1>12. ASSUME NEW c \in CPUs, NEW p \in Slots, ExitFinish(c, p)
       PROVE  NeverRan'
  BY <1>12, Constants, Zenon DEF TypeOK, NeverRan, ExitFinish
<1>13. ASSUME NEW c \in CPUs, NEW p \in Slots, NEW q \in Slots, NEW old,
              WaitReap(c, p, q, old)
       PROVE  NeverRan'
  BY <1>13, Zenon DEF TypeOK, NeverRan, WaitReap, InWait, Reap, Found
<1>14. ASSUME NEW c \in CPUs, NEW p \in Slots, NEW old, WaitReturn(c, p, old)
       PROVE  NeverRan'
  BY <1>14, Zenon DEF TypeOK, NeverRan, WaitReturn, InWait
<1>15. ASSUME NEW c \in CPUs, NEW p \in Slots, NEW old, WaitSleep(c, p, old)
       PROVE  NeverRan'
  BY <1>15, Constants, Zenon DEF TypeOK, NeverRan, WaitSleep, InWait
<1>16. ASSUME NEW c \in CPUs, NEW p \in Slots, NEW ch \in Chans, Sleep(c, p, ch)
       PROVE  NeverRan'
  BY <1>16, Constants, Zenon DEF TypeOK, NeverRan, Sleep
<1>17. ASSUME NEW c \in CPUs, NEW p \in Slots, SleepResume(c, p)
       PROVE  NeverRan'
  BY <1>17, Constants DEF TypeOK, PcState, EmbryoOwned, OneCPUEach, NeverRan, Live,
     SleepResume, SwitchedTo
<1>18. ASSUME NEW c \in CPUs, NEW p \in Slots, KernelReturn(c, p)
       PROVE  NeverRan'
  BY <1>18, Zenon DEF TypeOK, NeverRan, KernelReturn
<1>19. ASSUME NEW ch \in Chans, Wakeup(ch)
       PROVE  NeverRan'
  BY <1>19, Constants, Zenon DEF TypeOK, NeverRan, Wakeup
<1>20. ASSUME NEW c \in CPUs, NEW p \in Slots, NEW target \in KillPids,
              Kill(c, p, target)
       PROVE  NeverRan'
  BY <1>20 DEF TypeOK, NeverRan, Kill, KilledState
<1>21. CASE UNCHANGED <<cpu, pc, state, lock>>
  BY <1>21, Zenon DEF NeverRan
<1>22. ASSUME NEW c \in CPUs, NEW p \in Slots,
              (\E n \in Requests : SetTickets(c, p, n))
       PROVE  UNCHANGED <<cpu, pc, state, lock>>
  BY <1>22, Zenon DEF SetTickets
<1> QED
  BY <1>1, <1>2, <1>3, <1>4, <1>5, <1>6, <1>7, <1>8, <1>9, <1>10, <1>11, <1>12,
     <1>13, <1>14, <1>15, <1>16, <1>17, <1>18, <1>19, <1>20, <1>21, <1>22, WaitCases, Zenon
  DEF Next, Step, Frozen, vars

\* scheduler counts a turn only for a process that has left forkret.
LEMMA FreshTicksStep ==
  ASSUME TypeOK, PcState, EmbryoOwned, Filled, OneCPUEach, NeverRan, FreshTicks,
         [Next]_vars
  PROVE  FreshTicks'
<1> USE DEF family, lottery
<1>1. ASSUME NEW c \in CPUs, SchedReturn(c)
      PROVE  FreshTicks'
  BY <1>1, Constants DEF TypeOK, PcState, EmbryoOwned, Filled, OneCPUEach, NeverRan,
     FreshTicks, Live, SchedReturn
<1>2. ASSUME NEW c \in CPUs, NEW p \in Slots, Resume(c, p)
      PROVE  FreshTicks'
  BY <1>2, Zenon DEF TypeOK, FreshTicks, Resume
<1>3. ASSUME NEW c \in CPUs, NEW p \in Slots, AllocProc(c, p)
      PROVE  FreshTicks'
  BY <1>3, Zenon DEF TypeOK, FreshTicks, AllocProc
<1>4. ASSUME NEW c \in CPUs, NEW p \in Slots, AllocNone(c, p)
      PROVE  FreshTicks'
  BY <1>4, Zenon DEF TypeOK, FreshTicks, AllocNone, Failed
<1>5. ASSUME NEW c \in CPUs, NEW p \in Slots, ForkFail(c, p)
      PROVE  FreshTicks'
  BY <1>5, Zenon DEF TypeOK, FreshTicks, ForkFail, Failed
<1>6. ASSUME NEW c \in CPUs, NEW p \in Slots, ForkFill(c, p)
      PROVE  FreshTicks'
  BY <1>6, Zenon DEF TypeOK, FreshTicks, ForkFill, ChildTicks
<1>7. ASSUME NEW c \in CPUs, NEW p \in Slots, ForkPublish(c, p)
      PROVE  FreshTicks'
  BY <1>7, Zenon DEF TypeOK, Filled, FreshTicks, ForkPublish
<1>8. ASSUME NEW c \in CPUs, NEW p \in Slots, ExitBegin(c, p)
      PROVE  FreshTicks'
  BY <1>8, Zenon DEF TypeOK, FreshTicks, ExitBegin
<1>9. ASSUME NEW c \in CPUs, NEW p \in Slots, ExitPanic(c, p)
      PROVE  FreshTicks'
  BY <1>9, Zenon DEF TypeOK, FreshTicks, ExitPanic
<1>10. ASSUME NEW c \in CPUs, NEW p \in Slots, ExitFinish(c, p)
       PROVE  FreshTicks'
  BY <1>10, Zenon DEF TypeOK, FreshTicks, ExitFinish
<1>11. ASSUME NEW c \in CPUs, NEW p \in Slots, NEW q \in Slots, NEW old,
              WaitReap(c, p, q, old)
       PROVE  FreshTicks'
  BY <1>11, Zenon DEF TypeOK, FreshTicks, WaitReap, Reap
<1>12. ASSUME NEW c \in CPUs, NEW p \in Slots, NEW old, WaitReturn(c, p, old)
       PROVE  FreshTicks'
  BY <1>12, Zenon DEF TypeOK, FreshTicks, WaitReturn
<1>13. ASSUME NEW c \in CPUs, NEW p \in Slots, NEW old, WaitSleep(c, p, old)
       PROVE  FreshTicks'
  BY <1>13, Zenon DEF TypeOK, FreshTicks, WaitSleep
<1>14. ASSUME NEW c \in CPUs, NEW p \in Slots, NEW ch \in Chans, Sleep(c, p, ch)
       PROVE  FreshTicks'
  BY <1>14, Zenon DEF TypeOK, FreshTicks, Sleep
<1>15. ASSUME NEW c \in CPUs, NEW p \in Slots, SleepResume(c, p)
       PROVE  FreshTicks'
  BY <1>15, Zenon DEF TypeOK, FreshTicks, SleepResume
<1>16. ASSUME NEW c \in CPUs, NEW p \in Slots, KernelReturn(c, p)
       PROVE  FreshTicks'
  BY <1>16, Zenon DEF TypeOK, FreshTicks, KernelReturn
<1>17. CASE UNCHANGED <<pc, ticks>>
  BY <1>17, Zenon DEF FreshTicks
<1>18. ASSUME NEW c \in CPUs, NEW p \in Slots,
              Dispatch(c, p) \/ Yield(c, p)
                \/ (\E target \in KillPids : Kill(c, p, target))
                \/ (\E n \in Requests : SetTickets(c, p, n))
       PROVE  UNCHANGED <<pc, ticks>>
  BY <1>18, Zenon DEF Dispatch, Yield, Kill, SetTickets
<1> QED
  BY <1>1, <1>2, <1>3, <1>4, <1>5, <1>6, <1>7, <1>8, <1>9, <1>10, <1>11, <1>12,
     <1>13, <1>14, <1>15, <1>16, <1>17, <1>18, WaitCases, ZenonT(30)
  DEF Next, Step, Frozen, vars, Wakeup

-----------------------------------------------------------------------------
\* The table that userinit leaves satisfies the invariant.
LEMMA InitInv == Init => IInv
<1> SUFFICES ASSUME Init
             PROVE  IInv
  OBVIOUS
<1>1. TypeOK
  <2>1. 0 \in 0..IntMax /\ MINTICKETS \in 0..IntMax /\ 0 \in 0..(TicksMod - 1)
    BY ProcAssumption
  <2>2. tickets \in [Slots -> 0..IntMax] /\ ticks \in [Slots -> 0..(TicksMod - 1)]
    BY <2>1, Zenon DEF Init
  <2>3. state \in [Slots -> States] /\ pc \in [Slots -> PCs]
    BY Zenon DEF Init, States, PCs
  <2> QED
    BY <2>2, <2>3, Constants, Zenon DEF Init, TypeOK
<1>2. PcState /\ InitAlive /\ EmbryoOwned /\ Filled
  BY Constants, Zenon DEF Init, PcState, InitAlive, EmbryoOwned, Filled
<1>3. OneCPUEach /\ NeverRan
  BY Constants, Zenon DEF Init, OneCPUEach, NeverRan
<1>4. NoOrphans /\ WaitChan /\ NoMissedExit
  BY Constants, Zenon DEF Init, NoOrphans, WaitChan, NoMissedExit, Live
<1>5. PidsPast /\ PidsUnique /\ FreshTicks
  BY Constants DEF Init, PidsPast, PidsUnique, FreshTicks
<1>6. TicketFloor
  BY Constants DEF Init, TicketFloor, Live
<1> QED
  BY <1>1, <1>2, <1>3, <1>4, <1>5, <1>6, Zenon DEF IInv

\* Every step preserves it.
LEMMA StepInv == IInv /\ [Next]_vars => IInv'
BY TypeStep, PcStateStep, InitAliveStep, OneCPUStep, EmbryoStep, FilledStep,
   NoOrphansStep, WaitChanStep, NoMissedExitStep, PidsPastStep, PidsUniqueStep,
   TicketFloorStep, NeverRanStep, FreshTicksStep, Zenon
DEF IInv

\* The invariant holds in every reachable state of the process table, from the
\* first process on (userinit), whatever the number of slots and CPUs.
THEOREM Invariance == Spec => []IInv
<1>1. Init => IInv
  BY InitInv, Zenon
<1>2. IInv /\ [Next]_vars => IInv'
  BY StepInv, Zenon
<1> QED
  BY <1>1, <1>2, PTL DEF Spec

\* Every field of the process table keeps its type; a slot that fork gives back
\* and a number of tickets that sys_settickets accepts included.
THEOREM TypeCorrect == Spec => []TypeOK
BY Invariance, PTL DEF IInv

\* No process runs on two CPUs, and none is reaped, woken or dispatched while a
\* CPU still has its stack: the lock passes from sched to scheduler and back.
THEOREM OneCPUEachHolds == Spec => []OneCPUEach
BY Invariance, PTL DEF IInv

\* exit, wait and fork leave no process without a parent that can reap it.
THEOREM NoOrphansHolds == Spec => []NoOrphans
BY Invariance, PTL DEF IInv

\* wait never sleeps through the exit of a child, the arrival of an orphaned
\* ZOMBIE (for init) or a kill.
THEOREM NoMissedExitHolds == Spec => []NoMissedExit
BY Invariance, PTL DEF IInv

\* The unlocked stores state = UNUSED of allocproc and fork hit a slot that is
\* theirs, and no EMBRYO slot is lost.
THEOREM EmbryoOwnedHolds == Spec => []EmbryoOwned
BY Invariance, PTL DEF IInv

\* kill finds at most one process with a pid.
THEOREM PidsUniqueHolds == Spec => []PidsUnique
BY Invariance, PTL DEF IInv

\* fork and sys_settickets leave every process at least MINTICKETS tickets.
THEOREM TicketFloorHolds == Spec => []TicketFloor
BY Invariance, PTL DEF IInv

\* A process that never ran has no ticks: fork clears what the last owner of the
\* slot left there, and scheduler counts a turn only when it is over.
THEOREM FreshTicksHolds == Spec => []FreshTicks
BY Invariance, PTL DEF IInv

\* No step but that of wait, in the parent, takes a slot out of ZOMBIE.
THEOREM ReapedByParent == Spec => ZombieReapedByParent
<1> DEFINE Reaped(p) ==
      state[p] = "ZOMBIE" /\ state'[p] # "ZOMBIE" =>
        /\ state'[p] = "UNUSED"
        /\ \E c \in CPUs : cpu[c] = parent[p] /\ pc'[parent[p]] = "user"
<1>1. ASSUME IInv, [Next]_vars, NEW z \in Slots
      PROVE  Reaped(z)
  <2> USE <1>1 DEF IInv, family, lottery
  <2>1. ASSUME NEW c \in CPUs, NEW p \in Slots, Dispatch(c, p) \/ Yield(c, p)
        PROVE  Reaped(z)
    BY <2>1, Zenon DEF Dispatch, Wins, Passed, Ready, Yield, Runs, TypeOK
  <2>2. ASSUME NEW c \in CPUs, NEW p \in Slots, AllocProc(c, p)
         PROVE  Reaped(z)
    BY <2>2, Zenon DEF AllocProc, Free, TypeOK
  <2>3. ASSUME NEW c \in CPUs, NEW p \in Slots, ForkFail(c, p) \/ ForkPublish(c, p)
         PROVE  Reaped(z)
    BY <2>3, Constants, SMTT(90) DEF ForkFail, ForkPublish, TypeOK, PcState, EmbryoOwned
  <2>4. ASSUME NEW c \in CPUs, NEW p \in Slots, ExitFinish(c, p)
        PROVE  Reaped(z)
    BY <2>4, Zenon DEF ExitFinish, Runs, Wakeup1, TypeOK
  <2>5. ASSUME NEW c \in CPUs, NEW p \in Slots, NEW q \in Slots, NEW old,
               WaitReap(c, p, q, old)
        PROVE  Reaped(z)
    BY <2>5, Zenon DEF WaitReap, InWait, Reap, Found, Kids, TypeOK
  <2>6. ASSUME NEW c \in CPUs, NEW p \in Slots, NEW old,
               WaitReturn(c, p, old) \/ WaitSleep(c, p, old)
        PROVE  Reaped(z)
    BY <2>6, Zenon DEF WaitReturn, WaitSleep, InWait, SleepOn, TypeOK
  <2>7. ASSUME NEW c \in CPUs, NEW p \in Slots, NEW ch \in Chans,
               Sleep(c, p, ch)
        PROVE  Reaped(z)
    BY <2>7, Zenon DEF Sleep, Runs, SleepOn, TypeOK
  <2>8. ASSUME NEW ch \in Chans, Wakeup(ch)
        PROVE  Reaped(z)
    BY <2>8, Zenon DEF Wakeup, Wakeup1, TypeOK
  <2>9. ASSUME NEW c \in CPUs, NEW p \in Slots, NEW target \in KillPids,
               Kill(c, p, target)
        PROVE  Reaped(z)
    BY <2>9, Zenon DEF Kill, KilledState, TypeOK
  <2>10. CASE UNCHANGED state
    BY <2>10, Zenon
  <2>11. ASSUME NEW c \in CPUs, NEW p \in Slots, Step(c, p)
        PROVE  Reaped(z)
    BY <2>1, <2>2, <2>3, <2>4, <2>5, <2>6, <2>7, <2>9, <2>10, <2>11, WaitCases, Zenon
    DEF Step, Resume, AllocNone, ForkFill, ExitBegin, ExitPanic, SleepResume,
        KernelReturn, SetTickets
  <2> QED
    BY <2>8, <2>10, <2>11, Zenon DEF Next, Frozen, SchedReturn, vars
<1>2. IInv /\ [Next]_vars => [\A p \in Slots : Reaped(p)]_vars
  BY <1>1, Zenon
<1> QED
  BY <1>2, Invariance, PTL DEF Spec, ZombieReapedByParent

-----------------------------------------------------------------------------
(***************************************************************************)
(* The lottery of the scheduler: as long as the tickets of a full table    *)
(* add up to an int, a process has a share of the draw in proportion to    *)
(* its tickets, and the CPU idles only when nobody is RUNNABLE.            *)
(***************************************************************************)

\* No process asks for more than M tickets, and NPROC times as many are an int.
TicketsFit(M) ==
    /\ M \in Nat /\ MINTICKETS <= M /\ NPROC * M <= IntMax
    /\ \A n \in Requests : n <= M

TicketCeiling(M) == \A p \in Slots : tickets[p] <= M

-----------------------------------------------------------------------------
(***************************************************************************)
(* Partial sums                                                            *)
(***************************************************************************)
\* A set of numbers has a least one.
LEMMA Least ==
  ASSUME NEW T \in SUBSET Nat, T # {}
  PROVE  \E x \in T : \A y \in T : x <= y
<1>1. PICK x \in T : \A y \in T : ~ (<<y, x>> \in OpToRel(<, Nat))
  BY WFMin, NatLessThanWellFounded, Zenon
<1>2. \A y \in T : ~ (y < x)
  BY <1>1, Zenon DEF OpToRel
<1> QED
  BY <1>2

\* f has the partial sums of the first loop of scheduler up to slot n.
Sums(f, n) ==
    f = [p \in 0..n |->
            IF p = 0 THEN 0
            ELSE IF Ready(p) THEN WrapInt(f[p - 1] + tickets[p])
            ELSE f[p - 1]]

LEMMA SumsExist == \A n \in Nat : \E f : Sums(f, n)
<1> DEFINE T == {n \in Nat : ~ \E f : Sums(f, n)}
<1> SUFFICES ASSUME T # {}
             PROVE  FALSE
  BY Zenon
<1>1. PICK n \in T : \A m \in T : n <= m
  BY Least, Zenon
<1>2. n \in Nat /\ ~ \E f : Sums(f, n)
  BY Zenon
<1> HIDE DEF T
<1>3. CASE n = 0
  <2> DEFINE g == [p \in 0..0 |-> 0]
  <2>1. Sums(g, 0)
    BY DEF Sums
  <2> QED
    BY <1>2, <1>3, <2>1, Zenon
<1>4. CASE n # 0
  <2>1. n - 1 \in Nat /\ ~ (n <= n - 1)
    BY <1>2, <1>4
  <2>2. PICK f : Sums(f, n - 1)
    BY <1>1, <2>1, Zenon DEF T
  <2> DEFINE next == IF Ready(n) THEN WrapInt(f[n - 1] + tickets[n]) ELSE f[n - 1]
             g == [p \in 0..n |-> IF p = n THEN next ELSE f[p]]
  <2>3. \A p \in 0..(n - 1) : g[p] = f[p]
    BY <1>2
  <2>4. ASSUME NEW p \in 0..n
        PROVE  g[p] = IF p = 0 THEN 0
                      ELSE IF Ready(p) THEN WrapInt(g[p - 1] + tickets[p])
                      ELSE g[p - 1]
    <3>1. CASE p = n
      <4>1. g[p - 1] = f[n - 1] /\ p # 0
        BY <1>4, <2>1, <2>3, <3>1
      <4>2. g[p] = next
        BY <3>1
      <4> QED
        BY <3>1, <4>1, <4>2, Zenon
    <3>2. CASE p # n
      <4>1. p \in 0..(n - 1) /\ (p # 0 => p - 1 \in 0..(n - 1))
        BY <1>2, <3>2
      <4>2. f[p] = IF p = 0 THEN 0
                   ELSE IF Ready(p) THEN WrapInt(f[p - 1] + tickets[p])
                   ELSE f[p - 1]
        BY <2>2, <4>1, Zenon DEF Sums
      <4> HIDE DEF g
      <4> QED
        BY <2>3, <4>1, <4>2, Zenon
    <3> QED
      BY <3>1, <3>2, Zenon
  <2>5. Sums(g, n)
    <3>1. g = [p \in 0..n |-> g[p]]
      BY Zenon
    <3> HIDE DEF g
    <3> QED
      BY <2>4, <3>1, Zenon DEF Sums
  <2> QED
    BY <1>2, <2>5, Zenon
<1> QED
  BY <1>3, <1>4, Zenon

\* RunningTotal satisfies the equation that defines it.
LEMMA RunningTotalIs == Sums(RunningTotal, NPROC)
BY SumsExist, ProcAssumption, Zenon DEF RunningTotal, Sums

\* An int that is not negative stays what it is.
LEMMA WrapIntSame ==
  ASSUME NEW n \in 0..IntMax
  PROVE  WrapInt(n) = n
BY ProcAssumption DEF WrapInt

\* As long as they fit, the sums do not wrap around.
LEMMA SumsAdd ==
  ASSUME NEW M, TicketsFit(M), TypeOK, TicketCeiling(M)
  PROVE  /\ RunningTotal[0] = 0
         /\ \A p \in 0..NPROC : RunningTotal[p] \in 0..IntMax
         /\ \A p \in Slots :
               RunningTotal[p] = RunningTotal[p - 1] + (IF Ready(p) THEN tickets[p] ELSE 0)
<1> DEFINE Own(p) == IF Ready(p) THEN tickets[p] ELSE 0
<1>1. NPROC \in Nat /\ M \in Nat /\ IntMax \in Nat /\ NPROC * M <= IntMax
  BY ProcAssumption DEF TicketsFit
<1>2. /\ RunningTotal[0] = 0
      /\ \A p \in Slots : RunningTotal[p] = IF Ready(p) THEN WrapInt(RunningTotal[p - 1] + tickets[p])
                                           ELSE RunningTotal[p - 1]
  <2>1. 0 \in 0..NPROC /\ \A p \in Slots : p \in 0..NPROC /\ p # 0
    BY <1>1 DEF Slots
  <2> QED
    BY <2>1, RunningTotalIs, Zenon DEF Sums
<1>3. \A p \in Slots : Own(p) \in 0..M
  BY <1>1 DEF TypeOK, TicketCeiling
<1>4. ASSUME NEW p \in Slots, RunningTotal[p - 1] \in 0..((p - 1) * M)
      PROVE  /\ RunningTotal[p] \in 0..(p * M)
             /\ RunningTotal[p] = RunningTotal[p - 1] + Own(p)
  <2>1. p \in Nat /\ p <= NPROC /\ (p - 1) * M + M = p * M
    BY <1>1 DEF Slots
  <2>2. p * M <= NPROC * M /\ p * M \in Nat /\ (p - 1) * M \in Int
    BY <1>1, <2>1
  <2>3. RunningTotal[p - 1] + Own(p) \in 0..(p * M)
    BY <1>1, <1>3, <1>4, <2>1, <2>2
  <2>4. RunningTotal[p - 1] + Own(p) \in 0..IntMax
    BY <1>1, <2>2, <2>3
  <2>5. WrapInt(RunningTotal[p - 1] + Own(p)) = RunningTotal[p - 1] + Own(p)
    BY <2>4, WrapIntSame, Zenon
  <2>6. RunningTotal[p] = RunningTotal[p - 1] + Own(p)
    <3>1. CASE Ready(p)
      BY <1>2, <2>5, <3>1, Zenon
    <3>2. CASE ~ Ready(p)
      BY <1>2, <1>4, <2>2, <3>2
    <3> QED
      BY <3>1, <3>2, Zenon
  <2> QED
    BY <2>3, <2>6, Zenon
<1>5. \A p \in 0..NPROC : RunningTotal[p] \in 0..(p * M)
  <2> DEFINE T == {p \in 0..NPROC : RunningTotal[p] \notin 0..(p * M)}
  <2> SUFFICES ASSUME T # {}
               PROVE  FALSE
    BY Zenon
  <2>0. T \in SUBSET Nat
    BY <1>1
  <2>1. PICK p \in T : \A q \in T : p <= q
    BY <2>0, Least, Zenon
  <2>2. p \in 0..NPROC /\ RunningTotal[p] \notin 0..(p * M)
    BY Zenon
  <2>3. p # 0
    BY <1>1, <1>2, <2>2
  <2>4. p \in Slots /\ p - 1 \in 0..NPROC /\ ~ (p <= p - 1)
    BY <1>1, <2>2, <2>3 DEF Slots
  <2>5. RunningTotal[p - 1] \in 0..((p - 1) * M)
    BY <2>1, <2>4, Zenon
  <2> QED
    BY <1>4, <2>2, <2>4, <2>5, Zenon
<1>6. \A p \in 0..NPROC : RunningTotal[p] \in 0..IntMax
  <2> SUFFICES ASSUME NEW p \in 0..NPROC
               PROVE  RunningTotal[p] \in 0..IntMax
    BY Zenon
  <2>1. p * M <= NPROC * M /\ p * M \in Nat
    BY <1>1
  <2> QED
    BY <1>1, <1>5, <2>1
<1>7. \A p \in Slots : p - 1 \in 0..NPROC
  BY <1>1 DEF Slots
<1> QED
  BY <1>2, <1>4, <1>5, <1>6, <1>7, Zenon

\* What the rest of the argument uses of RunningTotal.
Adds ==
    /\ RunningTotal[0] = 0
    /\ \A p \in 0..NPROC : RunningTotal[p] \in Nat
    /\ \A p \in Slots :
          RunningTotal[p] = RunningTotal[p - 1] + (IF Ready(p) THEN tickets[p] ELSE 0)

\* The sums do not decrease along the table.
LEMMA SumsGrow ==
  ASSUME TypeOK, Adds
  PROVE  \A p, q \in 0..NPROC : p <= q => RunningTotal[p] <= RunningTotal[q]
<1> SUFFICES ASSUME NEW p \in 0..NPROC
             PROVE  \A q \in 0..NPROC : p <= q => RunningTotal[p] <= RunningTotal[q]
  BY Zenon
<1> DEFINE T == {q \in 0..NPROC : p <= q /\ ~ (RunningTotal[p] <= RunningTotal[q])}
<1> SUFFICES ASSUME T # {}
             PROVE  FALSE
  BY Zenon
<1>0. T \in SUBSET Nat
  BY ProcAssumption
<1>1. PICK q \in T : \A x \in T : q <= x
  BY <1>0, Least, Zenon
<1>2. q \in 0..NPROC /\ p <= q /\ ~ (RunningTotal[p] <= RunningTotal[q])
  BY Zenon
<1>3. RunningTotal[p] \in Nat /\ RunningTotal[q] \in Nat
  BY <1>2, Zenon DEF Adds
<1>4. p # q
  BY <1>2, <1>3
<1>5. q \in Slots /\ q - 1 \in 0..NPROC /\ p <= q - 1 /\ ~ (q <= q - 1)
  BY <1>2, <1>4, ProcAssumption DEF Slots
<1>6. RunningTotal[p] <= RunningTotal[q - 1]
  BY <1>1, <1>5, Zenon
<1>7. RunningTotal[q - 1] \in Nat /\ (IF Ready(q) THEN tickets[q] ELSE 0) \in Nat
  BY <1>5, ProcAssumption DEF Adds, TypeOK
<1>8. RunningTotal[q] = RunningTotal[q - 1] + (IF Ready(q) THEN tickets[q] ELSE 0)
  BY <1>5, Zenon DEF Adds
<1> QED
  BY <1>2, <1>3, <1>6, <1>7, <1>8

\* A sum is that of the last RUNNABLE process so far.
LEMMA LastReady ==
  ASSUME Adds, NEW n \in 0..NPROC, RunningTotal[n] # 0
  PROVE  \E q \in 1..n : Ready(q) /\ RunningTotal[q] = RunningTotal[n]
<1> DEFINE Last(x) == RunningTotal[x] = 0 \/ \E q \in 1..x : Ready(q) /\ RunningTotal[q] = RunningTotal[x]
           T == {x \in 0..NPROC : ~ Last(x)}
<1> SUFFICES ASSUME T # {}
             PROVE  FALSE
  BY Zenon
<1>0. T \in SUBSET Nat
  BY ProcAssumption
<1>1. PICK x \in T : \A y \in T : x <= y
  BY <1>0, Least, Zenon
<1>2. x \in 0..NPROC /\ ~ Last(x)
  BY Zenon
<1>3. x # 0
  BY <1>2, Zenon DEF Adds
<1>4. /\ x \in Slots /\ x - 1 \in 0..NPROC /\ ~ (x <= x - 1) /\ x \in 1..x
      /\ \A q \in 1..(x - 1) : q \in 1..x
  BY <1>2, <1>3, ProcAssumption DEF Slots
<1>5. Last(x - 1)
  BY <1>1, <1>4, Zenon
<1>6. ~ Ready(x)
  BY <1>2, <1>4, Zenon
<1>7. RunningTotal[x] = RunningTotal[x - 1]
  BY <1>4, <1>6, ProcAssumption DEF Adds
<1> QED
  BY <1>2, <1>4, <1>5, <1>7, Zenon

-----------------------------------------------------------------------------
(***************************************************************************)
(* The draw                                                                *)
(***************************************************************************)
\* The second loop stops at the process between whose sums the ticket is.
LEMMA Winners ==
  ASSUME TypeOK, Adds, NEW p \in Slots, NEW t \in Nat
  PROVE  Wins(p, t) <=> Ready(p) /\ RunningTotal[p - 1] <= t /\ t < RunningTotal[p]
<1>1. /\ p \in 0..NPROC /\ p - 1 \in 0..NPROC
      /\ \A q \in 1..(p - 1) : q \in 0..NPROC /\ q <= p - 1
  BY ProcAssumption DEF Slots
<1>2. \A q \in 0..NPROC : RunningTotal[q] \in Nat
  BY Zenon DEF Adds
<1>3. ASSUME Wins(p, t)
      PROVE  RunningTotal[p - 1] <= t
  <2>1. CASE RunningTotal[p - 1] = 0
    BY <2>1
  <2>2. CASE RunningTotal[p - 1] # 0
    <3>1. PICK q \in 1..(p - 1) : Ready(q) /\ RunningTotal[q] = RunningTotal[p - 1]
      BY <1>1, <2>2, LastReady, Zenon
    <3>2. ~ (RunningTotal[q] > t)
      BY <1>3, <3>1, Zenon DEF Wins, Passed
    <3> QED
      BY <1>1, <1>2, <3>1, <3>2
  <2> QED
    BY <2>1, <2>2, Zenon
<1>4. ASSUME RunningTotal[p - 1] <= t, NEW q \in 1..(p - 1)
      PROVE  ~ (RunningTotal[q] > t)
  <2>1. RunningTotal[q] <= RunningTotal[p - 1]
    BY <1>1, SumsGrow, Zenon
  <2> QED
    BY <1>1, <1>2, <1>4, <2>1
<1>5. t < RunningTotal[p] <=> RunningTotal[p] > t
  BY <1>1, <1>2
<1> QED
  BY <1>3, <1>4, <1>5, Zenon DEF Wins, Passed

\* Of the tickets that can be drawn, a process owns as many as it holds.
LEMMA Shares ==
  ASSUME TypeOK, Adds
  PROVE  FairShare
<1> DEFINE Owned(p) == {t \in 0..(total_tickets - 1) : Wins(p, t)}
<1> SUFFICES ASSUME NEW p \in Slots
             PROVE  Cardinality(Owned(p)) = IF state[p] = "RUNNABLE" THEN tickets[p] ELSE 0
  BY Zenon DEF FairShare
<1>1. /\ p \in 0..NPROC /\ p - 1 \in 0..NPROC /\ NPROC \in 0..NPROC /\ p <= NPROC
  BY ProcAssumption DEF Slots
<1>2. RunningTotal[p] \in Nat /\ RunningTotal[p - 1] \in Nat /\ total_tickets \in Nat
  BY <1>1, Zenon DEF Adds, total_tickets
<1>3. \A t \in 0..(total_tickets - 1) : t \in Nat
  BY <1>2
<1>4. CASE Ready(p)
  <2>1. RunningTotal[p] = RunningTotal[p - 1] + tickets[p] /\ tickets[p] \in Nat
    BY <1>4, ProcAssumption DEF Adds, TypeOK
  <2>2. RunningTotal[p] <= total_tickets
    BY <1>1, SumsGrow, Zenon DEF total_tickets
  <2>3. Owned(p) = {t \in 0..(total_tickets - 1) :
                        RunningTotal[p - 1] <= t /\ t < RunningTotal[p]}
    BY <1>3, <1>4, Winners, Zenon
  <2>4. Owned(p) = RunningTotal[p - 1]..(RunningTotal[p] - 1)
    BY <1>2, <2>2, <2>3
  <2>5. Cardinality(RunningTotal[p - 1]..(RunningTotal[p] - 1)) = tickets[p]
    <3> DEFINE a == RunningTotal[p - 1]
               b == RunningTotal[p] - 1
    <3>1. a \in Int /\ b \in Int
      BY <1>2
    <3>2. Cardinality(a..b) = IF a > b THEN 0 ELSE b - a + 1
      BY <3>1, FS_Interval, Zenon
    <3> QED
      BY <1>2, <2>1, <3>2
  <2> QED
    BY <1>4, <2>4, <2>5, Zenon DEF Ready
<1>5. CASE ~ Ready(p)
  <2>1. Owned(p) = {}
    BY <1>3, <1>5, Winners, Zenon
  <2> QED
    BY <1>5, <2>1, FS_EmptySet, Zenon DEF Ready
<1> QED
  BY <1>4, <1>5, Zenon

\* A RUNNABLE process has tickets, so it makes the total positive.
LEMMA Idles ==
  ASSUME TypeOK, Adds, TicketFloor
  PROVE  IdleOnlyWhenNoneReady
<1>1. NPROC \in 0..NPROC /\ total_tickets \in Nat
  BY ProcAssumption DEF Adds, total_tickets
<1>2. ASSUME total_tickets > 0
      PROVE  \E p \in Slots : Ready(p)
  <2>1. RunningTotal[NPROC] # 0
    BY <1>1, <1>2 DEF total_tickets
  <2> QED
    BY <1>1, <2>1, LastReady, Zenon DEF Slots
<1>3. ASSUME NEW p \in Slots, Ready(p)
      PROVE  total_tickets > 0
  <2>1. /\ p \in 0..NPROC /\ p - 1 \in 0..NPROC /\ p <= NPROC
    BY ProcAssumption DEF Slots
  <2>2. tickets[p] \in Nat \ {0}
    BY <1>3, ProcAssumption DEF TypeOK, TicketFloor, Live, Ready
  <2>3. RunningTotal[p - 1] \in Nat /\ RunningTotal[p] = RunningTotal[p - 1] + tickets[p]
    BY <1>3, <2>1, Zenon DEF Adds
  <2>4. RunningTotal[p] <= total_tickets
    BY <1>1, <2>1, SumsGrow, Zenon DEF total_tickets
  <2> QED
    BY <1>1, <2>2, <2>3, <2>4
<1> QED
  BY <1>2, <1>3, Zenon DEF IdleOnlyWhenNoneReady, Ready

-----------------------------------------------------------------------------
(***************************************************************************)
(* The theorems                                                            *)
(***************************************************************************)
\* Only fork and sys_settickets give tickets, and neither more than M.
LEMMA TicketCeilingStep ==
  ASSUME NEW M, TicketsFit(M), TypeOK, TicketCeiling(M), [Next]_vars
  PROVE  TicketCeiling(M)'
<1>1. ASSUME NEW c \in CPUs, NEW p \in Slots, ForkFill(c, p)
      PROVE  TicketCeiling(M)'
  BY <1>1, ProcAssumption DEF TypeOK, TicketCeiling, TicketsFit, ForkFill, ChildTickets
<1>2. ASSUME NEW c \in CPUs, NEW p \in Slots, NEW n \in Requests, SetTickets(c, p, n)
      PROVE  TicketCeiling(M)'
  BY <1>2, Zenon DEF TypeOK, TicketCeiling, TicketsFit, SetTickets
<1>3. CASE UNCHANGED tickets
  BY <1>3, Zenon DEF TicketCeiling
<1>4. ASSUME NEW c \in CPUs, NEW p \in Slots, Step(c, p)
      PROVE  \/ UNCHANGED tickets \/ ForkFill(c, p)
             \/ \E n \in Requests : SetTickets(c, p, n)
  BY <1>4, WaitCases, Zenon
  DEF Step, Dispatch, Resume, Yield, AllocProc, AllocNone, ForkFail, ForkPublish, ExitBegin,
      ExitPanic, ExitFinish, WaitReap, WaitReturn, WaitSleep, Sleep, SleepResume, KernelReturn,
      Kill, lottery
<1>5. CASE \E c \in CPUs : SchedReturn(c)
  BY <1>3, <1>5, Zenon DEF SchedReturn
<1>6. CASE \E ch \in Chans : Wakeup(ch)
  BY <1>3, <1>6, Zenon DEF Wakeup, lottery
<1> QED
  BY <1>1, <1>2, <1>3, <1>4, <1>5, <1>6, Zenon DEF Next, Frozen, vars

\* As long as the sum of the tickets cannot overflow, sums are exact in every state.
LEMMA AddsAlways ==
  ASSUME NEW M, TicketsFit(M)
  PROVE  Spec => [](TypeOK /\ TicketFloor /\ Adds)
<1>1. Init => TicketCeiling(M)
  BY ProcAssumption DEF Init, TicketCeiling, TicketsFit
<1>2. TypeOK /\ TicketCeiling(M) /\ [Next]_vars => TicketCeiling(M)'
  BY TicketCeilingStep, Zenon
<1>3. TypeOK /\ TicketCeiling(M) => Adds
  <2>1. \A n \in 0..IntMax : n \in Nat
    BY ProcAssumption
  <2> QED
    BY <2>1, SumsAdd, Zenon DEF Adds
<1>4. IInv => TypeOK /\ TicketFloor
  BY Zenon DEF IInv
<1> QED
  BY <1>1, <1>2, <1>3, <1>4, Invariance, PTL DEF Spec

\* scheduler draws fairly: each winning ticket that can be drawn selects a process, and a
\* RUNNABLE process has as many of them as p->tickets says.
THEOREM FairShareHolds ==
  ASSUME NEW M, TicketsFit(M)
  PROVE  Spec => []FairShare
<1>1. TypeOK /\ Adds => FairShare
  BY Shares, Zenon
<1> QED
  BY <1>1, AddsAlways, PTL

\* scheduler finds a process whenever there is a RUNNABLE one.
THEOREM IdleOnlyWhenNoneReadyHolds ==
  ASSUME NEW M, TicketsFit(M)
  PROVE  Spec => []IdleOnlyWhenNoneReady
<1>1. TypeOK /\ TicketFloor /\ Adds => IdleOnlyWhenNoneReady
  BY Idles, Zenon
<1> QED
  BY <1>1, AddsAlways, PTL
=============================================================================

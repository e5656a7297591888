------------------------------ MODULE Sleeplock ------------------------------
(***************************************************************************)
(* A sleep lock (sleeplock.c) on top of sleep and wakeup (proc.c), with    *)
(* the two spin locks they use taken and released one at a time: the lk of *)
(* the sleep lock and ptable.lock.                                         *)
(*                                                                         *)
(* A definition named X_Y is X with the fault Y put in; it is used only to *)
(* see that the properties notice.                                         *)
(***************************************************************************)
CONSTANTS
    Procs,
    None        \* nobody, as the holder of a lock

ASSUME SleeplockAssumption == None \notin Procs

VARIABLES
    lk,         \* who has the spin lock of the sleep lock
    ptable,     \* who has ptable.lock
    locked,     \* lk->locked
    pid,        \* lk->pid
    pc

vars == <<lk, ptable, locked, pid, pc>>

(***************************************************************************)
(* out: does not have the sleep lock.  enter: in acquire(&lk->lk).  check: *)
(* at the while, with lk.  tosleep: in sleep, with lk.  going: in sleep,   *)
(* with ptable.lock only.  asleep: SLEEPING.  woken: RUNNABLE, not yet     *)
(* back from sched.  in: has the sleep lock.  leave: in releasesleep.      *)
(* clear: with lk.  wake: with lk, locked reset.  done: after the wakeup.  *)
(***************************************************************************)
PCs == {"out", "enter", "check", "tosleep", "going", "asleep", "woken", "in",
        "leave", "clear", "wake", "done"}

Init ==
    /\ lk = None /\ ptable = None
    /\ locked = FALSE /\ pid = None
    /\ pc = [p \in Procs |-> "out"]

Go(p, from, to) == pc[p] = from /\ pc' = [pc EXCEPT ![p] = to]

-----------------------------------------------------------------------------
acquiresleep(p) == Go(p, "out", "enter") /\ UNCHANGED <<lk, ptable, locked, pid>>

\* acquire(&lk->lk), first in acquiresleep or again at the end of sleep.
Enter(p) ==
    /\ Go(p, "enter", "check")
    /\ lk = None /\ lk' = p
    /\ UNCHANGED <<ptable, locked, pid>>

Taken_Never == FALSE
Taken == locked

Mark(p) == locked' = TRUE /\ pid' = p

Take(p) ==
    /\ ~ Taken
    /\ Go(p, "check", "in")
    /\ Mark(p)
    /\ lk' = None
    /\ UNCHANGED ptable

Wait(p) ==
    /\ Taken
    /\ Go(p, "check", "tosleep")
    /\ UNCHANGED <<lk, ptable, locked, pid>>

SwapLocks_Early(p) == lk' = None /\ UNCHANGED ptable

\* sleep takes ptable.lock before it gives lk up.
SwapLocks(p) == ptable = None /\ ptable' = p /\ lk' = None

Sleep(p) ==
    /\ Go(p, "tosleep", "going")
    /\ SwapLocks(p)
    /\ UNCHANGED <<locked, pid>>

\* SLEEPING, and sched: the scheduler gives ptable.lock up.
Sched(p) ==
    /\ Go(p, "going", "asleep")
    /\ ptable' = None
    /\ UNCHANGED <<lk, locked, pid>>

\* The scheduler comes back to p, which tidies up and goes for lk again.
Resume(p) ==
    /\ Go(p, "woken", "enter")
    /\ ptable = None
    /\ UNCHANGED <<lk, ptable, locked, pid>>

\* kill makes a sleeper runnable.
Kill(p) ==
    /\ Go(p, "asleep", "woken")
    /\ ptable = None
    /\ UNCHANGED <<lk, ptable, locked, pid>>

-----------------------------------------------------------------------------
releasesleep(p) == Go(p, "in", "leave") /\ UNCHANGED <<lk, ptable, locked, pid>>

Leave(p) ==
    /\ Go(p, "leave", "clear")
    /\ lk = None /\ lk' = p
    /\ UNCHANGED <<ptable, locked, pid>>

Clear(p) ==
    /\ Go(p, "clear", "wake")
    /\ locked' = FALSE /\ pid' = None
    /\ UNCHANGED <<lk, ptable>>

Woken_None(q) == pc[q]

\* wakeup1
Woken(q) == IF pc[q] = "asleep" THEN "woken" ELSE pc[q]

\* wakeup takes and gives up ptable.lock.
Wakeup(p) ==
    /\ pc[p] = "wake"
    /\ ptable = None
    /\ pc' = [q \in Procs |-> IF q = p THEN "done" ELSE Woken(q)]
    /\ UNCHANGED <<lk, ptable, locked, pid>>

Done(p) ==
    /\ Go(p, "done", "out")
    /\ lk' = None
    /\ UNCHANGED <<ptable, locked, pid>>

Kernel(p) ==
    \/ Enter(p) \/ Take(p) \/ Wait(p) \/ Sleep(p) \/ Sched(p) \/ Resume(p)
    \/ Leave(p) \/ Clear(p) \/ Wakeup(p) \/ Done(p)

Next == \E p \in Procs : acquiresleep(p) \/ releasesleep(p) \/ Kernel(p) \/ Kill(p)

Spec == Init /\ [][Next]_vars

-----------------------------------------------------------------------------
\* The type of the locks and of the calls in progress.
TypeOK ==
    /\ lk \in Procs \cup {None} /\ ptable \in Procs \cup {None}
    /\ locked \in BOOLEAN
    /\ pid \in Procs \cup {None}
    /\ pc \in [Procs -> PCs]

\* The processes between acquiresleep and the reset in releasesleep.
Holders == {p \in Procs : pc[p] \in {"in", "leave", "clear"}}

\* holdingsleep, as p would find it.
holdingsleep(p) == locked /\ pid = p

\* acquiresleep lets one process in at a time, and holdingsleep is true for that
\* process and for no other: the panics of bwrite, brelse and iunlock tell the
\* truth.
OneHolder ==
    /\ \A p, q \in Holders : p = q
    /\ \A p \in Procs : p \in Holders <=> holdingsleep(p)

\* A process asleep in acquiresleep has somebody to wake it: the holder, or a
\* releasesleep that is past the reset and before the wakeup.
SleeperHasWaker ==
    \A p \in Procs :
        pc[p] = "asleep" => locked \/ \E q \in Procs : pc[q] = "wake"

Lock == INSTANCE Mutex WITH holder <- IF locked THEN pid ELSE None

\* sleeplock.c implements a lock.
ImplementsMutex == Lock!Spec

-----------------------------------------------------------------------------
(***************************************************************************)
(* Fairness: a process in the kernel goes on, and gets a spin lock that is *)
(* free again and again; a holder of the sleep lock releases it.           *)
(***************************************************************************)
Fairness == \A p \in Procs : SF_vars(Kernel(p)) /\ WF_vars(releasesleep(p))

FairSpec == Spec /\ Fairness

\* Whoever sleeps in acquiresleep is woken.
SleeperWoken == \A p \in Procs : pc[p] = "asleep" ~> pc[p] # "asleep"
=============================================================================

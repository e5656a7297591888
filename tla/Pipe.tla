-------------------------------- MODULE Pipe --------------------------------
(***************************************************************************)
(* One pipe (pipe.c), the processes that share its two ends and the        *)
(* closing of the ends (fileclose in file.c).                              *)
(*                                                                         *)
(* A stretch of code under p->lock is one step, except that the check of   *)
(* killed and the sleep that follows it are two: kill takes ptable.lock    *)
(* only, and can come between them.                                        *)
(*                                                                         *)
(* A definition named X_Y is X with the fault Y put in; it is used only to *)
(* see that the properties notice.                                         *)
(***************************************************************************)
EXTENDS Integers, Sequences

CONSTANTS
    Readers,    \* processes with the read end open, once all forks are done
    Writers,    \* processes with the write end open
    Killable,   \* processes that kill may be called for
    NoProc,     \* "nobody", as a holder of p->lock
    Bytes,      \* what can be written
    PIPESIZE,
    UINT,       \* number of values of a uint (2^32)
    MaxCount    \* bound: the most bytes a call asks for

Users == Readers \cup Writers

VARIABLES
    data, nread, nwrite, readopen, writeopen,   \* struct pipe
    freed,      \* the page was given to kfree
    lock,       \* the process that holds p->lock across two steps
    rd, wr,     \* processes that have the read end, the write end open
    pc,         \* where each process is
    left,       \* bytes its call still has to write, or asked to read; else 0
    killed,
    got         \* the bytes that the last piperead returned

vars == <<data, nread, nwrite, readopen, writeopen, freed, lock, rd, wr, pc, left,
          killed, got>>
bytes == <<data, nread, nwrite, got>>
ends == <<readopen, writeopen, freed, rd, wr>>

\* write, read: about to get p->lock.  full, empty: about to sleep, with p->lock.
\* closewrite, closeread: in fileclose, about to call pipeclose.
PCs == {"idle", "write", "full", "wsleep", "read", "empty", "rsleep",
        "closewrite", "closeread"}

Init ==
    /\ data = [i \in 0..(PIPESIZE - 1) |-> CHOOSE b \in Bytes : TRUE]
    /\ nread = 0 /\ nwrite = 0
    /\ readopen = TRUE /\ writeopen = TRUE
    /\ freed = FALSE
    /\ lock = NoProc
    /\ rd = Readers /\ wr = Writers
    /\ pc = [p \in Users |-> "idle"]
    /\ left = [p \in Users |-> 0]
    /\ killed = [p \in Users |-> FALSE]
    /\ got = <<>>

-----------------------------------------------------------------------------
\* wakeup(&p->nread), wakeup(&p->nwrite)
WakeReaders(f) == [p \in Users |-> IF f[p] = "rsleep" THEN "read" ELSE f[p]]
WakeWriters_Lost(f) == f
WakeWriters(f) == [p \in Users |-> IF f[p] = "wsleep" THEN "write" ELSE f[p]]

Smaller(m, n) == IF m < n THEN m ELSE n

\* How far nwrite is ahead of nread, as uints.
Held == (nwrite - nread) % UINT

Room == PIPESIZE - Held

\* n++, k times.
Advance(n, k) == (n + k) % UINT

\* data[nwrite++ % PIPESIZE], for each byte of s.
Fill(s) ==
    [i \in 0..(PIPESIZE - 1) |->
        LET k == (i - nwrite) % PIPESIZE
        IN  IF k < Len(s) THEN s[k + 1] ELSE data[i]]

Pop_Newest(k) == [i \in 1..k |-> data[(nwrite - i) % PIPESIZE]]

\* data[nread++ % PIPESIZE], k times.
Pop(k) == [i \in 1..k |-> data[(nread + i - 1) % PIPESIZE]]

\* A system call of a process that is not killed.
Call(p, place, n) ==
    /\ pc[p] = "idle" /\ ~ killed[p]
    /\ pc' = [pc EXCEPT ![p] = place]
    /\ left' = [left EXCEPT ![p] = n]
    /\ UNCHANGED <<bytes, ends, lock, killed>>

Write(p, n) == p \in wr /\ Call(p, "write", n)
Read(p, n) == p \in rd /\ Call(p, "read", n)

GivesUp_NoClose(p) == killed[p]

\* A writer with bytes left and no room returns -1.
GivesUp(p) == ~ readopen \/ killed[p]

\* pipewrite with p->lock, from the call or a wakeup to the return or the sleep.
pipewrite(p) ==
    LET k == Smaller(left[p], Room) IN
    /\ pc[p] = "write" /\ lock = NoProc
    /\ \E s \in [1..k -> Bytes] : data' = Fill(s)
    /\ nwrite' = Advance(nwrite, k)
    /\ \/ /\ left[p] = k
          /\ pc' = WakeReaders([pc EXCEPT ![p] = "idle"])
          /\ left' = [left EXCEPT ![p] = 0]
          /\ UNCHANGED lock
       \/ /\ left[p] > k /\ GivesUp(p)
          /\ pc' = [pc EXCEPT ![p] = "idle"]
          /\ left' = [left EXCEPT ![p] = 0]
          /\ UNCHANGED lock
       \/ /\ left[p] > k /\ ~ GivesUp(p)
          /\ pc' = WakeReaders([pc EXCEPT ![p] = "full"])
          /\ left' = [left EXCEPT ![p] = @ - k]
          /\ lock' = p
    /\ UNCHANGED <<nread, got, ends, killed>>

\* pipe-empty: nothing to read, and somebody may still write.
Empties == nread = nwrite /\ writeopen

piperead(p) ==
    /\ pc[p] = "read" /\ lock = NoProc
    /\ \/ /\ Empties /\ killed[p]
          /\ pc' = [pc EXCEPT ![p] = "idle"]
          /\ left' = [left EXCEPT ![p] = 0]
          /\ UNCHANGED <<bytes, lock>>
       \/ /\ Empties /\ ~ killed[p]
          /\ pc' = [pc EXCEPT ![p] = "empty"]
          /\ lock' = p
          /\ UNCHANGED <<bytes, left>>
       \/ /\ ~ Empties
          /\ LET k == Smaller(left[p], Held)
             IN  got' = Pop(k) /\ nread' = Advance(nread, k)
          /\ pc' = WakeWriters([pc EXCEPT ![p] = "idle"])
          /\ left' = [left EXCEPT ![p] = 0]
          /\ UNCHANGED <<data, nwrite, lock>>
    /\ UNCHANGED <<ends, killed>>

\* sleep gives p->lock up once it has ptable.lock.
Sleep(p) ==
    /\ pc[p] \in {"full", "empty"}
    /\ pc' = [pc EXCEPT ![p] = IF @ = "full" THEN "wsleep" ELSE "rsleep"]
    /\ lock' = NoProc
    /\ UNCHANGED <<bytes, ends, left, killed>>

-----------------------------------------------------------------------------
\* close, or exit: fileclose of an end, and pipeclose if that was the last one.
CloseWrite(p) ==
    /\ pc[p] = "idle" /\ p \in wr
    /\ wr' = wr \ {p}
    /\ pc' = [pc EXCEPT ![p] = IF wr' = {} THEN "closewrite" ELSE @]
    /\ UNCHANGED <<bytes, readopen, writeopen, freed, lock, rd, left, killed>>

CloseRead(p) ==
    /\ pc[p] = "idle" /\ p \in rd
    /\ rd' = rd \ {p}
    /\ pc' = [pc EXCEPT ![p] = IF rd' = {} THEN "closeread" ELSE @]
    /\ UNCHANGED <<bytes, readopen, writeopen, freed, lock, wr, left, killed>>

Frees(r, w) == ~ r /\ ~ w

pipeclose(p) ==
    /\ lock = NoProc
    /\ \/ /\ pc[p] = "closewrite"
          /\ writeopen' = FALSE
          /\ pc' = WakeReaders([pc EXCEPT ![p] = "idle"])
          /\ UNCHANGED readopen
       \/ /\ pc[p] = "closeread"
          /\ readopen' = FALSE
          /\ pc' = WakeWriters([pc EXCEPT ![p] = "idle"])
          /\ UNCHANGED writeopen
    /\ freed' = Frees(readopen', writeopen')
    /\ UNCHANGED <<bytes, lock, rd, wr, left, killed>>

\* kill, at any moment: it makes a sleeper runnable.
Kill(p) ==
    /\ ~ killed[p]
    /\ killed' = [killed EXCEPT ![p] = TRUE]
    /\ pc' = [pc EXCEPT ![p] = CASE @ = "rsleep" -> "read"
                                 [] @ = "wsleep" -> "write"
                                 [] OTHER -> @]
    /\ UNCHANGED <<bytes, ends, lock, left>>

\* Nobody has the pipe any more.
Closed ==
    /\ rd = {} /\ wr = {}
    /\ \A p \in Users : pc[p] = "idle"
    /\ UNCHANGED vars

Next ==
    \/ \E p \in Users, n \in 0..MaxCount : Write(p, n) \/ Read(p, n)
    \/ \E p \in Users : \/ pipewrite(p) \/ piperead(p) \/ Sleep(p)
                        \/ CloseWrite(p) \/ CloseRead(p) \/ pipeclose(p)
    \/ \E p \in Killable : Kill(p)
    \/ Closed

Spec == Init /\ [][Next]_vars

-----------------------------------------------------------------------------
\* The type of struct pipe and of the calls in progress.
TypeOK ==
    /\ data \in [0..(PIPESIZE - 1) -> Bytes]
    /\ nread \in 0..(UINT - 1) /\ nwrite \in 0..(UINT - 1)
    /\ {readopen, writeopen, freed} \subseteq BOOLEAN
    /\ lock \in Users \cup {NoProc}
    /\ rd \subseteq Readers /\ wr \subseteq Writers
    /\ pc \in [Users -> PCs]
    /\ left \in [Users -> 0..MaxCount]
    /\ killed \in [Users -> BOOLEAN]
    /\ got \in Seq(Bytes)

Queue ==
    INSTANCE ByteQueue WITH
        queue <- [i \in 1..Held |-> data[(nread + i - 1) % PIPESIZE]]

\* pipewrite and piperead implement a bounded queue: no byte is lost, repeated,
\* reordered or made up, also when nread and nwrite wrap around.
ImplementsQueue == Queue!Spec

\* Whoever sleeps has a reason to: a reader in an empty pipe that can still be
\* written, a writer in a full one that can still be read.  So the two ends
\* never wait for each other.  A writer that is killed with the pipe full
\* returns without a wakeup (pipewrite, line 87), hence the exception.
SleepersHaveReason ==
    \A p \in Users :
        /\ pc[p] = "rsleep" =>
            writeopen /\ (nread = nwrite \/ \E w \in Writers : killed[w])
        /\ pc[p] = "wsleep" => readopen /\ Held = PIPESIZE

\* pipeclose frees the page when the last end is closed, not before, and when no
\* call is using it.
FreedWhenClosed ==
    freed <=> rd = {} /\ wr = {} /\ \A p \in Users : pc[p] = "idle"

-----------------------------------------------------------------------------
(***************************************************************************)
(* Fairness: a process in the kernel goes on when p->lock is free.  No     *)
(* program is assumed to make any call.                                    *)
(***************************************************************************)
Fairness ==
    \A p \in Users : WF_vars(pipewrite(p) \/ piperead(p) \/ Sleep(p) \/ pipeclose(p))

FairSpec == Spec /\ Fairness

\* A read ends once every write end is closed, and a write once every read end
\* is: pipeclose wakes the other side, wherever it is between check and sleep.
HangUp ==
    \A p \in Users :
        /\ wr = {} /\ pc[p] \in {"read", "empty", "rsleep"} ~> pc[p] = "idle"
        /\ rd = {} /\ pc[p] \in {"write", "full", "wsleep"} ~> pc[p] = "idle"
=============================================================================

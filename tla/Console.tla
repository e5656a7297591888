------------------------------- MODULE Console -------------------------------
(***************************************************************************)
(* Console input (console.c): the ring of characters between the interrupt *)
(* handler, which edits it, and the processes that read it.                *)
(*                                                                         *)
(* The indices count modulo UINT and address the ring modulo INPUT_BUF.    *)
(* cons.lock is held from one character of consoleread to the next, and    *)
(* given up only in sleep.  The echo, and procdump on ^P, are left out.    *)
(*                                                                         *)
(* A definition named X_Y is X with the fault Y put in; it is used only to *)
(* see that the properties notice.                                         *)
(***************************************************************************)
EXTENDS Integers, Sequences

CONSTANTS
    Procs,      \* processes that read
    None,
    Chars,      \* ordinary characters
    INPUT_BUF,
    UINT,       \* number of values of a uint (2^32)
    MaxCount    \* bound: the most characters a call asks for

VARIABLES
    buf, r, w, e,   \* input
    lock,           \* the process that holds cons.lock
    pc,             \* of each process: idle, read, empty (about to sleep), asleep
    left, target,   \* n and target of its consoleread
    killed,
    taken           \* history: the last character that a process took

vars == <<buf, r, w, e, lock, pc, left, target, killed, taken>>
input == <<buf, r, w, e>>
calls == <<lock, pc, left, target, killed>>

Keys == Chars \cup {"\n", "\r", "^D"}
Slot(i) == i % INPUT_BUF
Plus(i, n) == (i + n) % UINT
Minus(i, n) == (i - n) % UINT

Init ==
    /\ buf = [i \in 0..(INPUT_BUF - 1) |-> "\n"]
    /\ r = 0 /\ w = 0 /\ e = 0
    /\ lock = None
    /\ pc = [p \in Procs |-> "idle"]
    /\ left = [p \in Procs |-> 0] /\ target = left
    /\ killed = [p \in Procs |-> FALSE]
    /\ taken = "none"

-----------------------------------------------------------------------------
(***************************************************************************)
(* consoleintr, one character                                              *)
(***************************************************************************)

\* A line ends with c, which is now at e.
Ends(c) == c \in {"\n", "^D"} \/ Plus(e, 1) = Plus(r, INPUT_BUF)

Woken_NotByEOF(p, c) == c # "^D" /\ Ends(c) /\ pc[p] = "asleep"

\* wakeup(&input.r)
Woken(p, c) == Ends(c) /\ pc[p] = "asleep"

Room(i) == Minus(i, r) < INPUT_BUF

Key(k) ==
    LET c == IF k = "\r" THEN "\n" ELSE k IN
    /\ lock = None /\ Room(e)
    /\ buf' = [buf EXCEPT ![Slot(e)] = c]
    /\ e' = Plus(e, 1)
    /\ w' = IF Ends(c) THEN Plus(e, 1) ELSE w
    /\ pc' = [p \in Procs |-> IF Woken(p, c) THEN "read" ELSE pc[p]]
    /\ UNCHANGED <<r, lock, left, target, killed, taken>>

Editable_Back == e # r
Editable == e # w

Backspace ==
    /\ lock = None /\ Editable
    /\ e' = Minus(e, 1)
    /\ UNCHANGED <<buf, r, w, calls, taken>>

\* Where ^U stops: at w, or after the last newline behind it.
KillTo ==
    LET stops == {n \in 0..Minus(e, w) :
                    \/ n = Minus(e, w)
                    \/ buf[Slot(Minus(e, n + 1))] = "\n"}
    IN  Minus(e, CHOOSE n \in stops : \A m \in stops : n <= m)

KillLine ==
    /\ lock = None /\ e # w
    /\ e' = KillTo
    /\ UNCHANGED <<buf, r, w, calls, taken>>

-----------------------------------------------------------------------------
(***************************************************************************)
(* consoleread                                                             *)
(***************************************************************************)
Read(p, n) ==
    /\ pc[p] = "idle"
    /\ pc' = [pc EXCEPT ![p] = "read"]
    /\ left' = [left EXCEPT ![p] = n] /\ target' = [target EXCEPT ![p] = n]
    /\ UNCHANGED <<input, lock, killed, taken>>

Awake(p) == pc[p] = "read" /\ lock \in {None, p}

Returns(p) ==
    /\ pc' = [pc EXCEPT ![p] = "idle"]
    /\ left' = [left EXCEPT ![p] = 0] /\ target' = [target EXCEPT ![p] = 0]
    /\ lock' = None
    /\ UNCHANGED killed

\* Nothing to read: the process goes to sleep, or returns if it is killed.
NothingToRead(p) ==
    /\ Awake(p) /\ r = w
    /\ \/ killed[p] /\ Returns(p)
       \/ /\ ~ killed[p]
          /\ pc' = [pc EXCEPT ![p] = "empty"]
          /\ lock' = p
          /\ UNCHANGED <<left, target, killed>>
    /\ UNCHANGED <<input, taken>>

\* sleep gives up cons.lock once it has ptable.lock.
Sleep(p) ==
    /\ pc[p] = "empty"
    /\ pc' = [pc EXCEPT ![p] = "asleep"]
    /\ lock' = None
    /\ UNCHANGED <<input, left, target, killed, taken>>

\* ^D stays for the next call unless it is the first character of this one.
PutsBack(p) == left[p] < target[p]

\* One character.
consoleread(p) ==
    LET c == buf[Slot(r)] IN
    /\ Awake(p) /\ r # w
    /\ \/ /\ c = "^D" /\ PutsBack(p)
          /\ Returns(p)
          /\ UNCHANGED <<input, taken>>
       \/ /\ c = "^D" /\ ~ PutsBack(p)
          /\ r' = Plus(r, 1) /\ taken' = c
          /\ Returns(p)
          /\ UNCHANGED <<buf, w, e>>
       \/ /\ c # "^D"
          /\ r' = Plus(r, 1) /\ taken' = c
          /\ IF c = "\n" \/ left[p] = 1
             THEN Returns(p)
             ELSE /\ left' = [left EXCEPT ![p] = @ - 1]
                  /\ lock' = p
                  /\ UNCHANGED <<pc, target, killed>>
          /\ UNCHANGED <<buf, w, e>>

\* kill wakes a process that sleeps; after trap has seen it the process is gone, and a
\* new one may read.
Kill(p) ==
    /\ ~ killed[p] /\ pc[p] # "idle"
    /\ killed' = [killed EXCEPT ![p] = TRUE]
    /\ pc' = [pc EXCEPT ![p] = IF @ = "asleep" THEN "read" ELSE @]
    /\ UNCHANGED <<input, lock, left, target, taken>>

Exit(p) ==
    /\ killed[p] /\ pc[p] = "idle"
    /\ killed' = [killed EXCEPT ![p] = FALSE]
    /\ UNCHANGED <<input, lock, pc, left, target, taken>>

Next ==
    \/ \E k \in Keys : Key(k)
    \/ Backspace \/ KillLine
    \/ \E p \in Procs, n \in 1..MaxCount : Read(p, n)
    \/ \E p \in Procs : NothingToRead(p) \/ Sleep(p) \/ consoleread(p) \/ Kill(p) \/ Exit(p)

Spec == Init /\ [][Next]_vars

-----------------------------------------------------------------------------
(***************************************************************************)
(* Properties                                                              *)
(***************************************************************************)
Between(i, j) == [k \in 1..Minus(j, i) |-> buf[Slot(Plus(i, k - 1))]]

TtyView == INSTANCE Tty WITH Size <- INPUT_BUF, line <- Between(w, e), ready <- Between(r, w)

\* The ring is an editable line and a queue: what is read is what was typed and not
\* erased, in order, once; the counters may wrap around.
ImplementsTty == TtyView!Spec

\* The indices stay in order around the ring.
InOrder == Minus(w, r) <= Minus(e, r) /\ Minus(e, r) <= INPUT_BUF

\* A full ring has something to read: keys are not refused for ever because a line that
\* is too long was never handed to the readers.
FullIsReadable == Minus(e, r) = INPUT_BUF => w = e

\* A process sleeps only when there is nothing to read: no order of keys and reads, of
\* a ^D that is put back or a line that fills the ring, loses the wakeup.
SleeperHasReason == \A p \in Procs : pc[p] = "asleep" => r = w
=============================================================================

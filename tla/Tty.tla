--------------------------------- MODULE Tty ---------------------------------
(***************************************************************************)
(* What the console promises to programs that read it: a line that can be  *)
(* edited until it is ended, and a queue of the characters of ended lines. *)
(***************************************************************************)
EXTENDS Naturals, Sequences

CONSTANTS
    Chars,      \* ordinary characters
    Size        \* room for characters that nobody has read

VARIABLES
    line,       \* the line that is being typed
    ready,      \* characters of lines that are ended
    taken       \* the last character that a reader took

vars == <<line, ready, taken>>

Typed == Chars \cup {"\n", "^D"}

Init == line = <<>> /\ ready = <<>> /\ taken = "none"

\* A character goes into the line.  The line ends with it, or when there is no more room.
Type(c) ==
    /\ Len(ready) + Len(line) < Size
    /\ IF c \in {"\n", "^D"} \/ Len(ready) + Len(line) + 1 = Size
       THEN ready' = ready \o Append(line, c) /\ line' = <<>>
       ELSE line' = Append(line, c) /\ UNCHANGED ready
    /\ UNCHANGED taken

Erase ==
    /\ line # <<>>
    /\ line' = SubSeq(line, 1, Len(line) - 1)
    /\ UNCHANGED <<ready, taken>>

Kill == line' = <<>> /\ UNCHANGED <<ready, taken>>

Take ==
    /\ ready # <<>>
    /\ taken' = Head(ready) /\ ready' = Tail(ready)
    /\ UNCHANGED line

Next ==
    \/ \E c \in Typed : Type(c)
    \/ Erase \/ Kill \/ Take

Spec == Init /\ [][Next]_vars
=============================================================================

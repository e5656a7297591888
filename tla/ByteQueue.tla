----------------------------- MODULE ByteQueue -----------------------------
(***************************************************************************)
(* What a pipe promises: a bounded first-in first-out queue of bytes.      *)
(***************************************************************************)
EXTENDS Naturals, Sequences

CONSTANTS
    Bytes,      \* what can be written
    PIPESIZE    \* room in the queue

VARIABLES
    queue,
    got         \* the bytes that the last read returned

vars == <<queue, got>>

Init == queue = <<>> /\ got = <<>>

Put(s) ==
    /\ Len(queue) + Len(s) <= PIPESIZE
    /\ queue' = queue \o s
    /\ UNCHANGED got

Take(k) ==
    /\ got' = SubSeq(queue, 1, k)
    /\ queue' = SubSeq(queue, k + 1, Len(queue))

Next ==
    \/ \E k \in 1..PIPESIZE : \E s \in [1..k -> Bytes] : Put(s)
    \/ \E k \in 0..Len(queue) : Take(k)

Spec == Init /\ [][Next]_vars
=============================================================================

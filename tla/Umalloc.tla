------------------------------- MODULE Umalloc -------------------------------
(***************************************************************************)
(* malloc and free of user programs (umalloc.c): a circular list of free   *)
(* blocks in the order of their addresses.                                 *)
(*                                                                         *)
(* Addresses and sizes are in units of a Header; a block begins with its   *)
(* header.  base, the static header, has address 0, below the heap.        *)
(*                                                                         *)
(* A definition named X_Y is X with the fault Y put in; it is used only to *)
(* see that the properties notice.                                         *)
(***************************************************************************)
EXTENDS Integers, FiniteSets

CONSTANTS
    MaxBrk,     \* bound: where sbrk fails
    MinCore,    \* what morecore asks for at least (4096)
    MaxUnits    \* bound: the most units that malloc is asked for, the header included

Addrs == 0..(MaxBrk - 1)
Nil == -1

VARIABLES
    size, ptr,  \* the headers; 0 where there is none
    freep,
    brk,        \* the first address above the heap
    used,       \* blocks that malloc returned, with the units that were asked for
    own         \* addresses that the program got from sbrk itself

vars == <<size, ptr, freep, brk, used, own>>

Init ==
    /\ size = [a \in Addrs |-> 0] /\ ptr = [a \in Addrs |-> 0]
    /\ freep = Nil
    /\ brk = 1
    /\ used = {} /\ own = {}

\* The list, as malloc and free change it.
List(s, p, f) == [size |-> s, ptr |-> p, freep |-> f]
Now == IF freep = Nil THEN List([size EXCEPT ![0] = 0], [ptr EXCEPT ![0] = 0], 0)
       ELSE List(size, ptr, freep)

\* What was a header of m is memory like any other.
Gone(m, a) == [m EXCEPT !.size[a] = 0, !.ptr[a] = 0]

Becomes(m) == size' = m.size /\ ptr' = m.ptr /\ freep' = m.freep

-----------------------------------------------------------------------------
\* Where free stops: p and the block behind it are on either side of bp, or p is the last.
Here(m, p, bp) ==
    LET next == m.ptr[p] IN
    \/ bp > p /\ bp < next
    \/ p >= next /\ (bp > p \/ bp < next)

Spot(m, bp) ==
    LET walk[p \in Addrs] == IF Here(m, p, bp) THEN p ELSE walk[m.ptr[p]]
    IN  walk[m.freep]

\* bp reaches up to the block behind p; p reaches up to bp.
JoinsUp(m, p, bp) == bp + m.size[bp] = m.ptr[p]
JoinsDown(m, p, bp) == p + m.size[p] = bp

Freed(m, bp) ==
    LET p == Spot(m, bp)
        next == m.ptr[p]
        up == JoinsUp(m, p, bp)
        m1 == IF up
              THEN [Gone(m, next) EXCEPT !.size[bp] = @ + m.size[next], !.ptr[bp] = m.ptr[next]]
              ELSE [m EXCEPT !.ptr[bp] = next]
        m2 == IF JoinsDown(m, p, bp)
              THEN [Gone(m1, bp) EXCEPT !.size[p] = @ + m1.size[bp], !.ptr[p] = m1.ptr[bp]]
              ELSE [m1 EXCEPT !.ptr[p] = bp]
    IN  [m2 EXCEPT !.freep = p]

free(b) ==
    /\ b \in used
    /\ Becomes(Freed(Now, b.at))
    /\ used' = used \ {b}
    /\ UNCHANGED <<brk, own>>

-----------------------------------------------------------------------------
\* The block before the first one, behind freep, that has n units; or none.
Fit(m, n) ==
    LET walk[prev \in Addrs] ==
            LET p == m.ptr[prev] IN
            IF m.size[p] >= n THEN prev ELSE IF p = m.freep THEN Nil ELSE walk[p]
    IN  walk[m.freep]

\* morecore: a new block at brk is freed.
Core(n) == IF n < MinCore THEN MinCore ELSE n
WithCore(m, n) == Freed([m EXCEPT !.size[brk] = Core(n)], brk)

Remains_Off(m, p, n) == m.size[p] - n + 1
Remains(m, p, n) == m.size[p] - n

\* The block behind prev goes, or its tail.
Taken(m, prev, n) ==
    LET p == m.ptr[prev]
        rest == Remains(m, p, n)
        b == IF m.size[p] = n THEN p ELSE p + rest
        m1 == IF m.size[p] = n THEN [m EXCEPT !.ptr[prev] = m.ptr[p], !.ptr[p] = 0]
              ELSE [m EXCEPT !.size[p] = rest, !.size[b] = n]
    IN  [list |-> [m1 EXCEPT !.freep = prev], at |-> b]

malloc(n) ==
    LET m == Now
        more == Fit(m, n) = Nil
        m1 == IF more THEN WithCore(m, n) ELSE m
        t == Taken(m1, Fit(m1, n), n)
    IN
    /\ more => brk + Core(n) <= MaxBrk
    /\ Becomes(t.list)
    /\ used' = used \cup {[at |-> t.at, units |-> n]}
    /\ brk' = IF more THEN brk + Core(n) ELSE brk
    /\ UNCHANGED own

\* sbrk fails, and malloc returns 0; the list may have been made.
NoCore(n) ==
    /\ Fit(Now, n) = Nil /\ brk + Core(n) > MaxBrk
    /\ Becomes(Now)
    /\ UNCHANGED <<brk, used, own>>

\* The program grows its memory itself.
Sbrk ==
    /\ brk < MaxBrk
    /\ own' = own \cup {brk}
    /\ brk' = brk + 1
    /\ UNCHANGED <<size, ptr, freep, used>>

Next ==
    \/ \E n \in 1..MaxUnits : malloc(n) \/ NoCore(n)
    \/ \E b \in used : free(b)
    \/ Sbrk

Spec == Init /\ [][Next]_vars

-----------------------------------------------------------------------------
(***************************************************************************)
(* Properties                                                              *)
(***************************************************************************)
\* The blocks on the list.
Frees ==
    LET reach[k \in 0..MaxBrk] == IF k = 0 THEN {freep}
                                  ELSE LET r == reach[k - 1] IN r \cup {ptr[a] : a \in r}
    IN  IF freep = Nil THEN {} ELSE reach[MaxBrk]

Units(a, n) == a..(a + n - 1)

\* Every unit of the heap is in exactly one place: in a block that a caller of malloc has,
\* with the size that it asked for, in a block on the list, or with the program.
UnitsOwnedOnce ==
    LET blocks == {Units(b.at, b.units) : b \in used}
                    \cup {Units(a, size[a]) : a \in Frees \ {0}}
                    \cup {{a} : a \in own}
    IN  /\ UNION blocks = 1..(brk - 1)
        /\ \A s, t \in blocks : s = t \/ s \cap t = {}
        /\ Cardinality(blocks) = Cardinality(used) + Cardinality(Frees \ {0}) + Cardinality(own)

\* Every block on the list leads to the next higher one, and only the highest to base: so
\* free finds the place of every block, and malloc has seen all blocks when it is back
\* at freep.
InOrder ==
    freep # Nil => /\ 0 \in Frees
                   /\ \A a \in Frees :
                        LET above == {b \in Frees : b > a}
                        IN  ptr[a] = IF above = {} THEN 0
                                     ELSE CHOOSE b \in above : \A c \in above : b <= c

\* Neighbours are joined: no block on the list ends where the next one begins, except at
\* base, which has no units.
Joined == \A a \in Frees \ {0} : a + size[a] \notin Frees
=============================================================================

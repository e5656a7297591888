------------------------------ MODULE MCBcache ------------------------------
(* Instances of Bcache for TLC. *)
EXTENDS Bcache, TLC

CONSTANTS k1, k2, k3, k4

\* In the larger instance, not what an unused buffer holds.
BootImage == [k \in Blocks |-> 1]

\* k1 is an indirect block: k2 and k3 are taken with it held.  k4 is a block of the log, and
\* k1 the home of what it holds.
InOrder == {<<k4, k1>>, <<k1, k2>>, <<k1, k3>>} \cap (Blocks \X Blocks)

Processes == Permutations(Procs)
=============================================================================

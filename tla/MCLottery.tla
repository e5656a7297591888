------------------------------ MODULE MCLottery ------------------------------
(* Instances of Proc for TLC that are about tickets, and what ps shows of them. *)
EXTENDS Pstat, TLC

\* One number that sys_settickets must refuse, one that it accepts.
AskedTickets == {-1, 3}

Symmetry == Permutations(CPUs)
=============================================================================

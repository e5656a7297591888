-------------------------------- MODULE Pstat --------------------------------
(***************************************************************************)
(* What the process table looks like to a program: getpinfo (fillpstat of  *)
(* proc.c) and ps (ulib.c).  Both only read; fillpstat holds ptable.lock,  *)
(* so that its copy is one state of the table.                             *)
(***************************************************************************)
EXTENDS Proc

\* The letter of a state.  fillpstat stores none for UNUSED, and the byte stays
\* what it was on the stack of ps.
Letter(st) ==
    CASE st = "EMBRYO" -> "E"
      [] st = "RUNNING" -> "R"
      [] st = "RUNNABLE" -> "A"
      [] st = "SLEEPING" -> "S"
      [] st = "ZOMBIE" -> "Z"
      [] st = "UNUSED" -> "?"

fillpstat ==
    [i \in Slots |-> [inuse |-> 1, tickets |-> tickets[i], pid |-> pid[i], ticks |-> ticks[i],
                      state |-> Letter(state[i])]]

\* ps prints the rows before the first one whose pid is 0.  (If there is none it
\* goes on behind the table, with what is there.)
ps == LET rows == fillpstat
          shown == {i \in Slots : \A j \in 1..i : rows[j].pid # 0}
      IN  {rows[i] : i \in shown}

\* A process that calls ps finds itself in the list, with its pid and its tickets,
\* as the programs that test the tickets expect (tickettest.c:7: "parent pid: %d;
\* tickets should be 10", and then ps()).
PsShowsCaller ==
    \A c \in CPUs, p \in Slots :
        InUser(c, p) => \E row \in ps : row.pid = pid[p] /\ row.tickets = tickets[p]
=============================================================================

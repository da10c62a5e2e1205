----------------------------- MODULE MCSchedule -----------------------------
(* Schedule for TLC: process 0 never blocks (TTY), process 1 is woken by an  *)
(* interrupt (HD), process 2 has the lower priority of a user process.       *)
EXTENDS Schedule

MCPriority == [q \in Proc |-> IF q = 2 THEN 1 ELSE 3]
=============================================================================

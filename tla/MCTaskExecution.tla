--------------------------- MODULE MCTaskExecution ---------------------------
(***************************************************************************)
(* One caller waits for the results of one worker or of both; another one  *)
(* competes for the first worker.                                          *)
(***************************************************************************)
EXTENDS TaskExecution

MCTargets == [x1 |-> {{"w1"}, {"w1", "w2"}}, x2 |-> {{"w1"}}]
MCWaits == [x1 |-> {TRUE}, x2 |-> {FALSE}]
=============================================================================

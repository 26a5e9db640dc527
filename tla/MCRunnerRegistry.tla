-------------------------- MODULE MCRunnerRegistry --------------------------
(***************************************************************************)
(* A run here and on a node that comes and goes.                           *)
(***************************************************************************)
EXTENDS RunnerRegistry

Everywhere == [r \in Runs |-> Nodes]
=============================================================================

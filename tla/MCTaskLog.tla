------------------------------ MODULE MCTaskLog ------------------------------
(***************************************************************************)
(* A run on one worker under the eyes of a monitor.                        *)
(***************************************************************************)
EXTENDS TaskLog
=============================================================================

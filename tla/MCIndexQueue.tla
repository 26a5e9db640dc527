---------------------------- MODULE MCIndexQueue ----------------------------
(***************************************************************************)
(* Entries for two storages; more of them than can be told apart by one    *)
(* holder of the lock and one that waits.                                  *)
(***************************************************************************)
EXTENDS IndexQueue
=============================================================================

------------------------------- MODULE Stream -------------------------------
(***************************************************************************)
(* What a reader promises to those who process its records.                *)
(*                                                                         *)
(* It hands them out in chunks, no more at a time than its capacity.  The  *)
(* end is told once: a good end when everything handed out is processed,   *)
(* a bad one at any time.  After the end nothing is handed out.            *)
(***************************************************************************)
EXTENDS Integers, Sequences, SequencesExt

VARIABLES
  capacity,  \* how many chunks may be processed at a time
  given,     \* the records handed out, in order
  busy,      \* the number of chunks in process
  ended      \* "no", "ok" or "error"

vars == <<capacity, given, busy, ended>>

Init == capacity > 0 /\ given = <<>> /\ busy = 0 /\ ended = "no"

\* A chunk is handed out when done others, one at most, have just been processed.
Hand(done) ==
  /\ ended = "no"
  /\ done <= busy /\ busy - done < capacity
  /\ busy' = busy - done + 1
  /\ IsStrictPrefix(given, given')
  /\ UNCHANGED ended

Done == busy > 0 /\ busy' = busy - 1 /\ UNCHANGED <<given, ended>>

Succeed == ended = "no" /\ busy = 0 /\ ended' = "ok" /\ UNCHANGED <<given, busy>>

Fail(done) ==
  /\ ended = "no" /\ done <= busy
  /\ ended' = "error"
  /\ busy' = busy - done
  /\ UNCHANGED given

Next ==
  /\ Done \/ Succeed \/ \E done \in {0, 1} : Hand(done) \/ Fail(done)
  /\ UNCHANGED capacity

Spec == Init /\ [][Next]_vars
=============================================================================

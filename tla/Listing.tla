------------------------------ MODULE Listing ------------------------------
(***************************************************************************)
(* What a list of the jobs of a system promises to those who read it: a    *)
(* job is entered upon a report of it only, only a job that goes on makes  *)
(* reports, and what is listed goes on or news is under way that concerns  *)
(* it.  A job that is over, of which all has been heard, is not listed and *)
(* will not be, unless news of it were mixed up.                           *)
(***************************************************************************)
CONSTANT Jobs

VARIABLES
  going,     \* the jobs that go on, or that have not been heard to have gone
  reported,  \* those with a report of them under way
  moved,     \* those with news under way of a place where they may be, or to be dropped
  mixed,     \* those of which news were taken one before the other was done with
  listed

vars == <<going, reported, moved, mixed, listed>>

Init == going = {} /\ reported = {} /\ moved = {} /\ mixed = {} /\ listed = {}

\* A job begins, goes on or ends, and says so.
Report(j) ==
  /\ going' \in {going \cup {j}, going \ {j}} /\ j \in going \cup going'
  /\ reported' = reported \cup {j}
  /\ UNCHANGED <<moved, listed>>

\* A place comes, without the jobs it had, or goes; or jobs are given up.
Move(some) ==
  /\ moved' = moved \cup some
  /\ going' \subseteq going /\ going \ going' \subseteq some
  /\ UNCHANGED <<reported, listed>>

\* A report is heard: the job is entered, or is to be dropped.
Hear(j) ==
  /\ j \in reported /\ reported' \in {reported, reported \ {j}}
  /\ listed' \in {listed, listed \cup {j}}
  /\ moved' \in {moved, moved \cup {j}}
  /\ UNCHANGED going

\* Jobs are taken off the list.
Drop(some) ==
  /\ some \subseteq moved /\ listed' = listed \ some
  /\ moved' \subseteq moved
  /\ UNCHANGED <<going, reported>>

Change ==
  \/ \E j \in Jobs : Report(j) \/ Hear(j)
  \/ \E some \in SUBSET Jobs : Move(some) \/ Drop(some)

Next ==
  /\ Change
  /\ mixed \subseteq mixed' /\ mixed' \subseteq mixed \cup reported \cup moved
  /\ listed' \subseteq going' \cup reported' \cup moved' \cup mixed'

Spec == Init /\ [][Next]_vars
=============================================================================

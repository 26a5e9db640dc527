------------------------------ MODULE Ledger ------------------------------
(***************************************************************************)
(* What a ledger with an entry per owner promises: an entry is made once   *)
(* and stays, whatever is entered besides is taken out again, and when the *)
(* ledger is closed there is one entry per owner, which says the last that *)
(* there is to say, unless the order of the clerks has been spoilt.        *)
(***************************************************************************)
EXTENDS Integers

CONSTANT Owners

VARIABLES
  entry,       \* per owner the number of its entry, or 0
  spare,       \* the numbers of what has been entered besides
  last,        \* the last number given
  unfinished,  \* owners whose entry does not say the last
  closed, spoilt

book == <<entry, spare, last, unfinished>>
vars == <<book, closed, spoilt>>

Init ==
  /\ entry = [o \in Owners |-> 0] /\ spare = {} /\ last = 0 /\ unfinished = {}
  /\ closed = (Owners = {}) /\ spoilt = FALSE

New == last + 1 .. last'

\* The first that finds the ledger empty makes the entries.
Open ==
  /\ \A o \in Owners : entry[o] = 0
  /\ last' >= last
  /\ entry' \in [Owners -> New] /\ unfinished' = Owners
  /\ UNCHANGED spare

\* Another one that has found it empty, too late.
Repeat ==
  /\ \A o \in Owners : entry[o] # 0
  /\ last' >= last
  /\ \E some \in SUBSET New : spare' = spare \cup some
  /\ UNCHANGED <<entry, unfinished>>

\* All entries are made to say the same.
Write ==
  /\ \A o \in Owners : entry[o] # 0
  /\ unfinished' \in {{}, Owners}
  /\ UNCHANGED <<entry, spare, last>>

Remove(some) ==
  /\ spare' = spare \ some
  /\ UNCHANGED <<entry, last, unfinished>>

\* Nothing is changed in a ledger that is closed.
Change ==
  \/ closed /\ closed' /\ UNCHANGED book
  \/ ~ closed /\ (Open \/ Repeat \/ Write \/ \E some \in SUBSET spare : Remove(some))

Closing ==
  /\ spare = {} /\ \A o \in Owners : entry[o] # 0
  /\ spoilt \/ unfinished = {}

Next == Change /\ (spoilt => spoilt') /\ (closed' => Closing')

Spec == Init /\ [][Next]_vars
=============================================================================

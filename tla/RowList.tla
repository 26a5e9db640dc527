------------------------------ MODULE RowList ------------------------------
(***************************************************************************)
(* What a ViewArray promises to the one who edits it: a list of rows, as   *)
(* long as no move fails.  Positions count from 0.                         *)
(***************************************************************************)
EXTENDS Integers, Sequences, SequencesExt

CONSTANTS
  Row,   \* the rows there may be
  Start  \* the rows at the beginning

VARIABLES
  list,  \* the rows in order
  count, \* how many there are
  whole  \* no move has failed

ListOf(s) == whole = TRUE /\ list' = s /\ count' = Len(s) /\ UNCHANGED whole

Fresh == Row \ ToSet(list)

\* Rows from to from + size - 1 are taken out; what remains is split so that they start,
\* or, when they are moved on, end at position to.
Moved(from, to, size) ==
  LET block == SubSeq(list, from + 1, from + size)
      rest == SubSeq(list, 1, from) \o SubSeq(list, from + size + 1, Len(list))
      before == IF to > from THEN to - size + 1 ELSE to
  IN SubSeq(rest, 1, before) \o block \o SubSeq(rest, before + 1, Len(rest))

ListInit == list = Start /\ count = Len(Start) /\ whole = TRUE

ListInsert == \E i \in 0 .. Len(list), r \in Fresh : ListOf(InsertAt(list, i + 1, r))
ListReplace == \E i \in 1 .. Len(list), r \in Fresh : ListOf([list EXCEPT ![i] = r])
ListSwap ==
  \E i, k \in 1 .. Len(list) : ListOf([list EXCEPT ![i] = list[k], ![k] = list[i]])
ListMove ==
  \E from, to \in 0 .. Len(list) - 1, size \in 1 .. Len(list) :
    /\ from + size <= Len(list)
    /\ to < from \/ to >= from + size
    /\ ListOf(Moved(from, to, size))

\* Rows that are to be put between themselves are lost, and counted on.
ListFail ==
  \E from, to \in 0 .. Len(list) - 1, size \in 1 .. Len(list) :
    /\ from + size <= Len(list) /\ from < to /\ to < from + size
    /\ whole = TRUE /\ whole' = FALSE
    /\ list' = SubSeq(list, 1, from) \o SubSeq(list, from + size + 1, Len(list))
    /\ UNCHANGED count

\* After that nothing is promised.
ListBroken == whole = FALSE /\ whole' = FALSE

ListNext == ListInsert \/ ListReplace \/ ListSwap \/ ListMove \/ ListFail \/ ListBroken

ListSpec == ListInit /\ [][ListNext]_<<list, count, whole>>
=============================================================================

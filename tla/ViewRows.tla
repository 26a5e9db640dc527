------------------------------ MODULE ViewRows ------------------------------
(***************************************************************************)
(* The rows of a ViewArray and the operations that edit them               *)
(* (packages/base-ng/src/lib/datanodes/ViewArray.ts).                      *)
(*                                                                         *)
(* A map leads from positions to nodes, and a node knows its own position; *)
(* the operations change both, node by node.  A node is a number; what it  *)
(* holds and the frame shown are left out (see ViewPages).  Sequential:    *)
(* each operation is one action.                                           *)
(***************************************************************************)
EXTENDS Integers, Sequences, FiniteSetsExt, SequencesExt, Functions

CONSTANTS
  InitLength,  \* rows passed to the constructor
  MaxNodes,    \* bound: nodes made
  Users        \* who edits: [edits, counted], those of "move" and "remove" that are
               \* used, and whether maxRows is set, to the number of rows

ASSUME RowsAssumption ==
  /\ InitLength \in 1 .. 90 /\ MaxNodes \in InitLength .. 99
  /\ Users \subseteq [edits : SUBSET {"move", "remove"}, counted : BOOLEAN]

Unset == -1

VARIABLES
  user,     \* one of Users
  arr,      \* arr: positions to nodes
  idx,      \* per node made, its idx
  loaded,   \* _loaded: [start, end]
  maxRows,  \* maxRows, or Unset
  gone,     \* nodes removed or replaced on purpose
  failed,   \* history: a move has failed
  op        \* the last operation

vars == <<user, arr, idx, loaded, maxRows, gone, failed, op>>

\* push() of the rows passed to the constructor.
Init ==
  /\ arr = [i \in 0 .. InitLength - 1 |-> i + 1]
  /\ idx = [n \in 1 .. InitLength |-> n - 1]
  /\ loaded = [start |-> 0, end |-> InitLength - 1]
  /\ user \in Users
  /\ maxRows = IF user.counted THEN InitLength ELSE Unset
  /\ gone = {} /\ failed = FALSE /\ op = "new"

-----------------------------------------------------------------------------
\* Steps of the operations: on the map, the positions kept by nodes and the
\* positions that have been set.

Now == [arr |-> arr, idx |-> idx, set |-> {}]

Drop(s, i) == [s EXCEPT !.arr = Restrict(@, DOMAIN @ \ {i})]

Put(s, i, n) ==
  [arr |-> [p \in DOMAIN s.arr \cup {i} |-> IF p = i THEN n ELSE s.arr[p]],
   idx |-> [m \in DOMAIN s.idx \cup {n} |-> IF m = n THEN i ELSE s.idx[m]],
   set |-> s.set \cup {i}]

\* set() of a node that has a position: it is removed from there, unless one of the two
\* positions is 0, which is no position for the test of set().
Set(s, i, n) ==
  LET old == s.idx[n] IN
  IF old # 0 /\ i # 0 /\ old # i /\ old \in DOMAIN s.arr THEN Put(Drop(s, old), i, n) ELSE Put(s, i, n)

\* The positions from one to another that have a node, and their nodes.
Occupied(s, from, to) ==
  SelectSeq([k \in 1 .. to - from + 1 |-> from + k - 1], LAMBDA i : i \in DOMAIN s.arr)

Between(s, from, to) ==
  LET places == Occupied(s, from, to) IN [k \in DOMAIN places |-> s.arr[places[k]]]

TakeOut(s, nodes) == FoldLeft(LAMBDA t, n : Drop(t, t.idx[n]), s, nodes)

\* Variant: those first that lie behind.
Behind(s, offset, m, n) == IF offset >= 0 THEN s.idx[m] < s.idx[n] ELSE s.idx[m] > s.idx[n]

Ahead(s, offset, m, n) == IF offset >= 0 THEN s.idx[m] > s.idx[n] ELSE s.idx[m] < s.idx[n]

\* changeIdx(): the nodes between two positions, those first that lie ahead.
ChangeIdx(s, from, to, offset) ==
  FoldLeft(LAMBDA t, n : Set(t, t.idx[n] + offset, n), s,
           SortSeq(Between(s, from, to), LAMBDA m, n : Ahead(s, offset, m, n)))

\* keysAsArray().sort() compares positions as text: 1, 10, 11, 2.
TextRank(i) == IF i < 10 THEN 11 * i ELSE 11 * (i \div 10) + (i % 10) + 1

\* Variant: from the lowest position up.
LowestFirst(places) == SortSeq(places, LAMBDA i, k : TextRank(i) < TextRank(k))

HighestFirst(places) == SortSeq(places, LAMBDA i, k : TextRank(i) > TextRank(k))

OneOn(s, i) == Put(Drop(s, i), i + 1, s.arr[i])

\* idxUpDownCount(): all from a position on are counted up by one.
CountUp(s, from) ==
  LET up(t, i) == IF i \in DOMAIN t.arr THEN OneOn(t, i) ELSE t IN
  FoldLeft(up, s, HighestFirst(Occupied(s, from, Max(DOMAIN s.arr))))

\* calcLoadedIndex() of the positions that have been set.
Cover(places) ==
  loaded' = [start |-> Min(places \cup {loaded.start}), end |-> Max(places \cup {loaded.end})]

Result(s, name) ==
  /\ arr' = s.arr /\ idx' = s.idx /\ op' = name
  /\ UNCHANGED <<user, failed>>

-----------------------------------------------------------------------------
\* The operations

NewNode == Len(idx) + 1

\* append()
AppendRow ==
  LET i == IF maxRows # Unset THEN maxRows ELSE loaded.end + 1 IN
  /\ NewNode <= MaxNodes
  /\ Result(Put(Now, i, NewNode), "append") /\ Cover({i})
  /\ maxRows' = IF maxRows # Unset THEN maxRows + 1 ELSE Unset
  /\ UNCHANGED gone

\* push()
PushRow ==
  /\ NewNode <= MaxNodes
  /\ Result(Put(Now, loaded.end + 1, NewNode), "push") /\ Cover({loaded.end + 1})
  /\ UNCHANGED <<maxRows, gone>>

InsertRow(i) ==
  LET s == IF i \in DOMAIN arr THEN CountUp(Now, i) ELSE Now
      t == Put(s, i, NewNode)
  IN
  /\ NewNode <= MaxNodes
  /\ Result(t, "insert") /\ Cover(t.set)
  /\ UNCHANGED <<maxRows, gone>>

\* insert() with override
ReplaceRow(i) ==
  /\ NewNode <= MaxNodes /\ i \in DOMAIN arr
  /\ Result(Put(Now, i, NewNode), "replace") /\ Cover({i})
  /\ gone' = gone \cup {arr[i]}
  /\ UNCHANGED maxRows

\* Of two rows that are there.
SwapRows(i, k) ==
  /\ i \in DOMAIN arr /\ k \in DOMAIN arr /\ i # k
  /\ Result(Put(Put(TakeOut(Now, <<arr[i], arr[k]>>), i, arr[k]), k, arr[i]), "swap")
  /\ UNCHANGED <<loaded, maxRows, gone>>

\* The block is taken out, what it passes is moved by its size, and it is put in again.
MoveRows(from, to, size) ==
  LET block == Between(Now, from, from + size - 1)
      passed == IF to > from THEN ChangeIdx(TakeOut(Now, block), from + size, to, - size)
                             ELSE ChangeIdx(TakeOut(Now, block), to, from - 1, size)
      by == IF to > from THEN to - from - size + 1 ELSE to - from
      s == FoldLeft(LAMBDA t, n : Put(t, t.idx[n] + by, n), passed, block)
  IN
  /\ "move" \in user.edits /\ from \in DOMAIN arr /\ (to < from \/ to >= from + size)
  /\ Result(s, "move") /\ Cover(s.set)
  /\ UNCHANGED <<maxRows, gone>>

\* The place is inside of the block: changeIdx() throws after the block is taken out.
MoveFails(from, to, size) ==
  /\ "move" \in user.edits /\ from \in DOMAIN arr /\ from < to /\ to < from + size
  /\ arr' = TakeOut(Now, Between(Now, from, from + size - 1)).arr
  /\ failed' = TRUE /\ op' = "fail"
  /\ UNCHANGED <<user, idx, loaded, maxRows, gone>>

\* remove(), and with downCount one row less.
RemoveRow(i, downCount) ==
  /\ "remove" \in user.edits /\ i \in DOMAIN arr
  /\ Result(Drop(Now, idx[arr[i]]), "remove")
  /\ gone' = gone \cup {arr[i]}
  /\ \/ ~ downCount /\ UNCHANGED <<loaded, maxRows>>
     \/ downCount /\ maxRows # Unset /\ maxRows' = maxRows - 1 /\ UNCHANGED loaded
     \/ downCount /\ maxRows = Unset /\ loaded' = [loaded EXCEPT !.end = @ - 1] /\ UNCHANGED maxRows

\* The positions a user can point at.
Places == loaded.start .. loaded.end

\* Bound: what is done after a failed move is left out (see MoveKeepsOne).
Editing == ~ failed

Next ==
  /\ Editing
  /\ \/ AppendRow \/ PushRow
     \/ \E i \in Places : ReplaceRow(i) \/ \E downCount \in BOOLEAN : RemoveRow(i, downCount)
     \/ \E i \in loaded.start .. loaded.end + 1 : InsertRow(i)
     \/ \E i, k \in Places :
          \/ SwapRows(i, k)
          \/ \E size \in 1 .. loaded.end - i + 1 : MoveRows(i, k, size) \/ MoveFails(i, k, size)

Spec == Init /\ [][Next]_vars

-----------------------------------------------------------------------------
\* Correctness

\* max()
MaxCount == IF maxRows # Unset THEN maxRows ELSE loaded.end + 1

\* The rows as a list: those at the positions from 0 on, or what a failed move has left.
Listed ==
  IF failed THEN Between(Now, 0, loaded.end)
  ELSE [k \in 1 .. Cardinality(DOMAIN arr) |-> IF k - 1 \in DOMAIN arr THEN arr[k - 1] ELSE 0]

\* A user who removes nothing and keeps no count has a list of rows.
AsList == "remove" \notin user.edits /\ ~ user.counted
InitRows == [k \in 1 .. InitLength |-> k]

List == INSTANCE RowList WITH
          Row <- 1 .. MaxNodes, Start <- InitRows,
          list <- IF AsList THEN Listed ELSE InitRows,
          count <- IF AsList THEN MaxCount ELSE InitLength,
          whole <- ~ (AsList /\ failed)

\* As long as no row is removed, none counted, and there are no more than ten: whatever
\* is appended, inserted, replaced, swapped and moved, node by node, the array is a list
\* of rows, and max() its length, until a move to a place inside of the block is tried.
\* That loses the rows of the block, no others, and max() still counts them.
ImplementsRowList == List!ListSpec

\* Also with places left empty, editing one row loses no other: what is inserted, replaced,
\* swapped or removed leaves all others somewhere in the array.
OthersStay ==
  [][op' \in {"insert", "replace", "swap", "remove"} => Range(arr) \ gone' \subseteq Range(arr')]_vars

-----------------------------------------------------------------------------
\* What the comments say, and the code does not keep (view_rows_insert.cfg,
\* view_rows_append.cfg, view_rows_move.cfg)

Kept == DOMAIN idx \ gone

\* "Increment all idx from a given idx by a given size" (the comment of idxUpDownCount): an
\* insert moves the rows behind it on, and keeps them.
InsertKeepsRows == op = "insert" => Kept \subseteq Range(arr)

\* "Add data as node to the end of the view array" (the comment of append).
AppendKeepsRows == op = "append" => Kept \subseteq Range(arr)

\* "Move a node from position fromIdx to toIdx and change idx of the nodes between the
\* change" (the comment of move): no node is at two places.
MoveKeepsOne == op = "move" => \A i, k \in DOMAIN arr : arr[i] = arr[k] => i = k
=============================================================================

------------------------ MODULE StorageReadersProofs ------------------------
(***************************************************************************)
(* Readers of storages: whatever their settings, the number of records and *)
(* of lanes, and whatever fails,                                           *)
(*  - success is told only when all that was fetched is processed,         *)
(*  - the reader implements Stream, and                                    *)
(*  - if a page fits the queue, each record is handed on once, in order.   *)
(***************************************************************************)
EXTENDS StorageReaders, FiniteSetTheorems, SequenceTheorems, TLAPS

\* What a lane is at.
Places == {"start", "free", "asking", "fetching", "stored", "waiting", "delayed",
           "working", "dead"}

InFetch == {"fetching", "stored", "waiting"}

\* The lanes that process a chunk, and those that fetch or store what they fetched.
Working(pos) == {l \in Lanes : pos[l] = "working"}
Fetching(pos) == {l \in Lanes : pos[l] \in InFetch}

\* How many records each lane processes, and that n is their sum: there is a running
\* total over the lanes that ends in n.
Load == [l \in Lanes |-> IF at[l] = "working" THEN Len(items[l]) ELSE 0]

LastLane == Cardinality(Lanes)

RunningTotal(s, load) ==
  /\ s[0] = 0
  /\ \A l \in Lanes : s[l] = s[l - 1] + load[l]
  /\ \A i, j \in 0..LastLane : i <= j => s[i] <= s[j]

AddUp(load, n) == \E s \in [0..LastLane -> Nat] : RunningTotal(s, load) /\ s[LastLane] = n

-----------------------------------------------------------------------------
\* The counters are numbers of lanes.
CountersAgree ==
  /\ iterations = Cardinality(Working(at))
  /\ fetching = Cardinality(Fetching(at))

\* What was fetched is queued or handed on, and what was handed on is processed or in a lane.
AllCounted ==
  /\ enqueued = Len(handed) + Len(queue)
  /\ processed <= Len(handed) /\ AddUp(Load, Len(handed) - processed)
  /\ \A l \in Lanes : at[l] = "working" => items[l] # <<>>

\* Before the start nothing runs.
StartsAlone == \A l \in Lanes : at[l] = "start" => \A k \in Lanes \ {l} : at[k] = "free"

\* After the end nothing is fetched, and after a good end nothing is left.
EndKept ==
  /\ outcome # "no" => fetching = 0
  /\ outcome = "ok" => queue = <<>> /\ processed = Len(handed) /\ iterations = 0

QueueTypes ==
  /\ setting \in Settings
  /\ at \in [Lanes -> Places] /\ items \in [Lanes -> Seq(1..Total)]
  /\ queue \in Seq(1..Total) /\ handed \in Seq(1..Total)
  /\ waiting \in BOOLEAN
  /\ {fetching, iterations, retries, enqueued, processed} \subseteq Nat
  /\ outcome \in {"no", "ok", "error"}

QueueInv == QueueTypes /\ CountersAgree /\ AllCounted /\ StartsAlone /\ EndKept

ReaderTypes ==
  /\ chunk \in Seq(1..Total) /\ more \in BOOLEAN
  /\ offset \in Nat /\ size \in Nat
  /\ call \in [Lanes -> Call] /\ count \in {Unknown, Uncounted} \cup Nat

ReaderInv == QueueInv /\ ReaderTypes

-----------------------------------------------------------------------------
\* Numbers and sequences

LEMMA LanesCounted ==
  /\ IsFiniteSet(Lanes) /\ LastLane \in Nat \ {0} /\ Lanes = 1..LastLane
<1>1. IsFiniteSet(Lanes) /\ Lanes = 1..LastLane /\ Lanes # {}
  BY QueueAssumption DEF LastLane
<1>2. LastLane \in Nat
  BY <1>1, FS_CardinalityType DEF LastLane
<1> QED BY <1>1, <1>2

LEMMA MinOfTwo ==
  ASSUME NEW a \in Int, NEW b \in Int
  PROVE  Min({a, b}) = IF a <= b THEN a ELSE b
<1> DEFINE m == IF a <= b THEN a ELSE b
<1>1. m \in {a, b} /\ \A y \in {a, b} : m <= y
  OBVIOUS
<1>2. \A x \in {a, b} : (\A y \in {a, b} : x <= y) => x = m
  OBVIOUS
<1> QED BY <1>1, <1>2 DEF Min

LEMMA MaxOfTwo ==
  ASSUME NEW a \in Int, NEW b \in Int
  PROVE  Max({a, b}) = IF a >= b THEN a ELSE b
<1> DEFINE m == IF a >= b THEN a ELSE b
<1>1. m \in {a, b} /\ \A y \in {a, b} : m >= y
  OBVIOUS
<1>2. \A x \in {a, b} : (\A y \in {a, b} : x >= y) => x = m
  OBVIOUS
<1> QED BY <1>1, <1>2 DEF Max

LEMMA Cut ==
  ASSUME NEW T, NEW q \in Seq(T), NEW n \in 0..Len(q)
  PROVE  /\ SubSeq(q, 1, n) \in Seq(T) /\ SubSeq(q, n + 1, Len(q)) \in Seq(T)
         /\ Len(SubSeq(q, 1, n)) = n /\ Len(SubSeq(q, n + 1, Len(q))) = Len(q) - n
         /\ SubSeq(q, 1, n) \o SubSeq(q, n + 1, Len(q)) = q
<1> DEFINE a == SubSeq(q, 1, n)
           b == SubSeq(q, n + 1, Len(q))
<1>1. Len(q) \in Nat /\ n \in Nat /\ n <= Len(q)
  OBVIOUS
<1>2. a \in Seq(T) /\ Len(a) = n /\ \A i \in 1..n : a[i] = q[i]
  BY <1>1, SubSeqProperties
<1>3. b \in Seq(T) /\ Len(b) = Len(q) - n /\ \A i \in 1..Len(q) - n : b[i] = q[n + i]
  <2>1. CASE n = Len(q)
    BY <1>1, <2>1, SubSeqEmpty
  <2>2. CASE n < Len(q)
    BY <1>1, <2>2, SubSeqProperties
  <2> QED BY <1>1, <2>1, <2>2
<1> HIDE DEF a, b
<1>4. a \o b \in Seq(T) /\ Len(a \o b) = Len(q)
  <2>1. a \o b \in Seq(T) /\ Len(a \o b) = Len(a) + Len(b)
    BY <1>2, <1>3, ConcatProperties
  <2> QED BY <1>1, <1>2, <1>3, <2>1
<1>5. ASSUME NEW i \in 1..Len(q) PROVE (a \o b)[i] = q[i]
  <2>1. CASE i <= n
    BY <1>1, <1>2, <1>3, <2>1
  <2>2. CASE i > n
    <3>1. (a \o b)[i] = b[i - n]
      BY <1>1, <1>2, <1>3, <2>2
    <3>2. i - n \in 1..Len(q) - n /\ n + (i - n) = i
      BY <1>1, <2>2
    <3> QED BY <1>3, <3>1, <3>2
  <2>3. i <= n \/ i > n
    BY <1>1
  <2> QED BY <2>1, <2>2, <2>3
<1>6. a \o b = q
  BY <1>4, <1>5, SeqEqual
<1> QED BY <1>2, <1>3, <1>6 DEF a, b

LEMMA LongerHasPrefix ==
  ASSUME NEW T, NEW s \in Seq(T), NEW t \in Seq(T)
  PROVE  /\ s \o t \in Seq(T) /\ Len(s \o t) = Len(s) + Len(t)
         /\ IsPrefix(s, s \o t) /\ (t # <<>> => IsStrictPrefix(s, s \o t))
<1>1. s \o t \in Seq(T) /\ Len(s \o t) = Len(s) + Len(t) /\ Len(s) \in Nat /\ Len(t) \in Nat
  OBVIOUS
<1>2. /\ SubSeq(s, 1, Len(s)) \in Seq(T) /\ Len(SubSeq(s, 1, Len(s))) = Len(s)
      /\ \A i \in 1..Len(s) : SubSeq(s, 1, Len(s))[i] = s[i]
  BY <1>1, Cut, SubSeqProperties
<1>3. /\ SubSeq(s \o t, 1, Len(s)) \in Seq(T) /\ Len(SubSeq(s \o t, 1, Len(s))) = Len(s)
      /\ \A i \in 1..Len(s) : SubSeq(s \o t, 1, Len(s))[i] = s[i]
  <2>1. Len(s) \in 0..Len(s \o t)
    BY <1>1
  <2>2. SubSeq(s \o t, 1, Len(s)) \in Seq(T) /\ Len(SubSeq(s \o t, 1, Len(s))) = Len(s)
    BY <1>1, <2>1, Cut
  <2>3. \A i \in 1..Len(s) : SubSeq(s \o t, 1, Len(s))[i] = (s \o t)[i]
    BY <1>1, <2>1, SubSeqProperties
  <2>4. \A i \in 1..Len(s) : (s \o t)[i] = s[i]
    BY <1>1
  <2> QED BY <2>2, <2>3, <2>4
<1>4. SubSeq(s, 1, Len(s)) = SubSeq(s \o t, 1, Len(s))
  BY <1>2, <1>3, SeqEqual
<1>5. IsPrefix(s, s \o t)
  BY <1>1, <1>4 DEF IsPrefix
<1>6. t # <<>> => s # s \o t
  <2>1. t # <<>> => Len(t) > 0
    BY <1>1, EmptySeq
  <2> QED BY <1>1, <2>1
<1> QED BY <1>1, <1>5, <1>6 DEF IsStrictPrefix

-----------------------------------------------------------------------------
\* Lanes and their sums

\* What the move of one lane makes of the numbers of lanes.
LEMMA OneLane ==
  ASSUME NEW pos \in [Lanes -> Places], NEW l \in Lanes, NEW new \in [Lanes -> Places],
         \A k \in Lanes \ {l} : new[k] = pos[k]
  PROVE  /\ Cardinality(Working(pos)) \in Nat /\ Cardinality(Fetching(pos)) \in Nat
         /\ Cardinality(Working(new)) = Cardinality(Working(pos))
              - (IF pos[l] = "working" THEN 1 ELSE 0) + (IF new[l] = "working" THEN 1 ELSE 0)
         /\ Cardinality(Fetching(new)) = Cardinality(Fetching(pos))
              - (IF pos[l] \in InFetch THEN 1 ELSE 0) + (IF new[l] \in InFetch THEN 1 ELSE 0)
         /\ pos[l] = "working" => Cardinality(Working(pos)) > 0
         /\ pos[l] \in InFetch => Cardinality(Fetching(pos)) > 0
<1>1. ASSUME NEW A, NEW B, A \subseteq Lanes, B \subseteq Lanes,
             A \ {l} = B \ {l}
      PROVE  /\ Cardinality(A) \in Nat
             /\ Cardinality(B) = Cardinality(A) - (IF l \in A THEN 1 ELSE 0) + (IF l \in B THEN 1 ELSE 0)
             /\ l \in A => Cardinality(A) > 0
  <2>1. IsFiniteSet(A) /\ IsFiniteSet(B)
    BY <1>1, LanesCounted, FS_Subset
  <2>2. Cardinality(A) \in Nat /\ Cardinality(B) \in Nat
    BY <2>1, FS_CardinalityType
  <2>3. /\ Cardinality(A \ {l}) = IF l \in A THEN Cardinality(A) - 1 ELSE Cardinality(A)
        /\ Cardinality(B \ {l}) = IF l \in B THEN Cardinality(B) - 1 ELSE Cardinality(B)
    BY <2>1, FS_RemoveElement
  <2>4. Cardinality(A \ {l}) = Cardinality(B \ {l})
    BY <1>1
  <2>5. l \in A => Cardinality(A) > 0
    BY <2>1, <2>2, FS_EmptySet
  <2> QED BY <2>2, <2>3, <2>4, <2>5
<1>2. /\ Working(pos) \subseteq Lanes /\ Working(new) \subseteq Lanes
      /\ Fetching(pos) \subseteq Lanes /\ Fetching(new) \subseteq Lanes
      /\ Working(pos) \ {l} = Working(new) \ {l} /\ Fetching(pos) \ {l} = Fetching(new) \ {l}
      /\ l \in Working(pos) <=> pos[l] = "working"
      /\ l \in Working(new) <=> new[l] = "working"
      /\ l \in Fetching(pos) <=> pos[l] \in InFetch
      /\ l \in Fetching(new) <=> new[l] \in InFetch
  BY DEF Working, Fetching, InFetch
<1>3. /\ Cardinality(Working(pos)) \in Nat
      /\ Cardinality(Working(new)) = Cardinality(Working(pos))
           - (IF l \in Working(pos) THEN 1 ELSE 0) + (IF l \in Working(new) THEN 1 ELSE 0)
      /\ l \in Working(pos) => Cardinality(Working(pos)) > 0
  BY <1>1, <1>2
<1>4. /\ Cardinality(Fetching(pos)) \in Nat
      /\ Cardinality(Fetching(new)) = Cardinality(Fetching(pos))
           - (IF l \in Fetching(pos) THEN 1 ELSE 0) + (IF l \in Fetching(new) THEN 1 ELSE 0)
      /\ l \in Fetching(pos) => Cardinality(Fetching(pos)) > 0
  BY <1>1, <1>2
<1> QED BY <1>2, <1>3, <1>4

\* The sum changes as the load of one lane does.
LEMMA OneLoad ==
  ASSUME NEW load \in [Lanes -> Nat], NEW n \in Nat, AddUp(load, n),
         NEW l \in Lanes, NEW x \in Nat
  PROVE  /\ load[l] <= n
         /\ AddUp([load EXCEPT ![l] = x], n - load[l] + x)
<1> DEFINE N == LastLane
           new == [load EXCEPT ![l] = x]
<1>1. PICK s \in [0..N -> Nat] : RunningTotal(s, load) /\ s[N] = n
  BY DEF AddUp
<1>2. N \in Nat \ {0} /\ Lanes = 1..N /\ l \in 1..N
  BY LanesCounted
<1>3. /\ s[0] = 0 /\ s[l] = s[l - 1] + load[l]
      /\ \A k \in 1..N : s[k] = s[k - 1] + load[k]
      /\ \A i, j \in 0..N : i <= j => s[i] <= s[j]
  BY <1>1, <1>2 DEF RunningTotal
<1>4. /\ l - 1 \in 0..N /\ l \in 0..N /\ N \in 0..N /\ load[l] \in Nat
      /\ \A i \in 0..N : s[i] \in Nat
  BY <1>1, <1>2
<1>5. \A i \in 0..N : i >= l => s[i] - load[l] \in Nat /\ s[i] - load[l] >= s[l - 1]
  <2> SUFFICES ASSUME NEW i \in 0..N, i >= l
               PROVE  s[i] - load[l] \in Nat /\ s[i] - load[l] >= s[l - 1]
    OBVIOUS
  <2>1. s[l] <= s[i] /\ s[l] = s[l - 1] + load[l]
    BY <1>3, <1>4
  <2>2. s[i] \in Nat /\ s[l - 1] \in Nat /\ load[l] \in Nat
    BY <1>4
  <2> QED
    BY ONLY <2>1, <2>2
<1> DEFINE t == [i \in 0..N |-> IF i < l THEN s[i] ELSE s[i] - load[l] + x]
<1> HIDE DEF N
<1>6. t \in [0..N -> Nat]
  <2>1. ASSUME NEW i \in 0..N PROVE t[i] \in Nat
    <3>1. CASE i < l
      BY <1>4, <3>1
    <3>2. CASE i >= l
      <4>1. s[i] - load[l] \in Nat /\ t[i] = s[i] - load[l] + x
        <5>1. ~ (i < l) /\ i \in 0..N
          BY <1>2, <3>2
        <5> QED BY <1>5, <3>2, <5>1
      <4> HIDE DEF t
      <4> QED BY <4>1
    <3> QED BY <1>2, <3>1, <3>2
  <2> QED BY <2>1
<1>7. t[0] = 0 /\ t[N] = n - load[l] + x
  BY <1>1, <1>2, <1>3, <1>4
<1>8. ASSUME NEW k \in Lanes PROVE t[k] = t[k - 1] + new[k]
  <2>1. k \in 1..N /\ k - 1 \in 0..N /\ k \in 0..N /\ s[k] = s[k - 1] + load[k]
    BY <1>2, <1>3
  <2>2. /\ t[k] = IF k < l THEN s[k] ELSE s[k] - load[l] + x
        /\ t[k - 1] = IF k - 1 < l THEN s[k - 1] ELSE s[k - 1] - load[l] + x
    BY <2>1
  <2>3. CASE k < l
    BY <1>2, <1>4, <2>1, <2>2, <2>3
  <2>4. CASE k = l
    BY <1>2, <1>4, <2>1, <2>2, <2>4
  <2>5. CASE k > l
    <3>1. new[k] = load[k] /\ new[k] \in Nat /\ ~ (k - 1 < l) /\ ~ (k < l)
      BY <1>2, <2>1, <2>5
    <3>2. t[k] = s[k] - load[l] + x /\ t[k - 1] = s[k - 1] - load[l] + x
      BY <2>2, <3>1
    <3>3. s[k] \in Nat /\ s[k - 1] \in Nat
      BY <1>4, <2>1
    <3>4. s[k] = s[k - 1] + load[k] /\ load[l] \in Nat /\ x \in Nat
      BY <1>4, <2>1
    <3> HIDE DEF t, new
    <3> QED BY ONLY <3>1, <3>2, <3>3, <3>4
  <2> QED BY <1>2, <2>1, <2>3, <2>4, <2>5
<1>9. ASSUME NEW i \in 0..N, NEW j \in 0..N, i <= j PROVE t[i] <= t[j]
  <2>1. s[i] <= s[j] /\ (i < l => s[i] <= s[l - 1])
    <3>1. i < l => i <= l - 1
      BY <1>2
    <3> QED BY <1>3, <1>4, <1>9, <3>1
  <2>2. CASE j < l
    BY <1>2, <1>4, <1>9, <2>1, <2>2
  <2>3. CASE i < l /\ j >= l
    <3>1. s[i] \in Nat /\ s[j] \in Nat /\ s[l - 1] \in Nat
      BY <1>4
    <3>2. s[i] <= s[l - 1] /\ s[l - 1] <= s[j] - load[l]
      BY <1>2, <1>4, <1>5, <2>1, <2>3
    <3>3. t[i] = s[i] /\ t[j] = s[j] - load[l] + x
      BY <1>2, <2>3
    <3> HIDE DEF t
    <3> QED BY <1>4, <3>1, <3>2, <3>3
  <2>4. CASE i >= l
    <3>1. s[i] \in Nat /\ s[j] \in Nat
      BY <1>4
    <3>2. t[i] = s[i] - load[l] + x /\ t[j] = s[j] - load[l] + x
      BY <1>2, <1>9, <2>4
    <3> HIDE DEF t
    <3> QED BY <1>4, <2>1, <3>1, <3>2
  <2> QED BY <1>2, <2>2, <2>3, <2>4
<1>10. load[l] <= n
  BY <1>1, <1>2, <1>3, <1>4, <1>5
<1> HIDE DEF t, new
<1>11. RunningTotal(t, new)
  BY <1>7, <1>8, <1>9 DEF RunningTotal, N
<1>12. AddUp(new, n - load[l] + x)
  BY <1>6, <1>7, <1>11 DEF AddUp, N
<1> QED BY <1>10, <1>12 DEF new

LEMMA NoLoad ==
  ASSUME NEW load \in [Lanes -> Nat], AddUp(load, 0)
  PROVE  \A l \in Lanes : load[l] = 0
<1>1. ASSUME NEW l \in Lanes PROVE load[l] = 0
  <2>1. load[l] <= 0
    BY OneLoad
  <2> QED BY <2>1
<1> QED BY <1>1

LEMMA NoLoadAddsUp ==
  ASSUME NEW load, \A l \in Lanes : load[l] = 0
  PROVE  AddUp(load, 0)
<1> DEFINE s == [i \in 0..LastLane |-> 0]
<1>1. LastLane \in Nat /\ Lanes = 1..LastLane
  BY LanesCounted
<1>2. s \in [0..LastLane -> Nat] /\ RunningTotal(s, load) /\ s[LastLane] = 0
  BY <1>1 DEF RunningTotal
<1> QED BY <1>2 DEF AddUp

-----------------------------------------------------------------------------
\* Moves of the lanes

LEMMA SettingTyped ==
  ASSUME QueueTypes
  PROVE  /\ setting.flush \in Nat \ {0} /\ setting.concurrency \in Nat \ {0}
         /\ setting.retries \in Nat \ {0} /\ setting.limit \in Nat \ {0}
         /\ setting.size \in Nat \ {0} /\ setting.max \in Nat
BY QueueAssumption, ReadersAssumption DEF QueueTypes

\* What _data() does: a chunk goes from the queue to the callbacks, or nothing does.
DataGoes(l, x, c, q, pos, busy) ==
  /\ x \in {"free", "working"} /\ c \in Seq(1..Total)
  /\ x = "working" <=> c # <<>>
  /\ queue' \in Seq(1..Total) /\ c \o queue' = q
  /\ at' = [pos EXCEPT ![l] = x] /\ items' = [items EXCEPT ![l] = c]
  /\ handed' = handed \o c
  /\ iterations' = busy + (IF x = "working" THEN 1 ELSE 0)
  /\ x = "working" => busy < setting.concurrency

LEMMA DataDoes ==
  ASSUME QueueTypes, NEW q \in Seq(1..Total), NEW busy \in Nat,
         NEW l \in Lanes, NEW pos, Data(l, q, pos, busy)
  PROVE  \E x, c : DataGoes(l, x, c, q, pos, busy)
<1> DEFINE n == Min({setting.flush, Len(q)})
           start == n > 0 /\ MayTake(busy)
<1>1. setting.flush \in Nat \ {0} /\ Len(q) \in Nat
  BY SettingTyped
<1>2. n = IF setting.flush <= Len(q) THEN setting.flush ELSE Len(q)
  BY <1>1, MinOfTwo
<1>3. n \in 0..Len(q)
  BY <1>1, <1>2
<1> HIDE DEF n
<1>4. CASE start
  <2> DEFINE c == SubSeq(q, 1, n)
  <2>1. /\ c \in Seq(1..Total) /\ Len(c) = n /\ queue' = SubSeq(q, n + 1, Len(q))
        /\ queue' \in Seq(1..Total) /\ c \o queue' = q
        /\ at' = [pos EXCEPT ![l] = "working"] /\ items' = [items EXCEPT ![l] = c]
        /\ handed' = handed \o c /\ iterations' = busy + 1
    BY <1>3, <1>4, Cut DEF Data, n
  <2> HIDE DEF c
  <2>2. c # <<>>
    <3>1. n > 0 /\ Len(c) = n
      BY <1>4, <2>1
    <3> QED BY ONLY <3>1, <1>3
  <2>3. busy < setting.concurrency
    BY <1>4 DEF MayTake
  <2> QED BY <2>1, <2>2, <2>3 DEF DataGoes
<1>5. CASE ~ start
  <2>1. /\ queue' = q /\ at' = [pos EXCEPT ![l] = "free"] /\ items' = [items EXCEPT ![l] = <<>>]
        /\ handed' = handed \o <<>> /\ iterations' = busy
    BY <1>5 DEF Data, n
  <2>2. <<>> \in Seq(1..Total) /\ <<>> \o q = q
    OBVIOUS
  <2>3. iterations' = busy + (IF "free" = "working" THEN 1 ELSE 0)
    BY <2>1
  <2> QED BY <2>1, <2>2, <2>3 DEF DataGoes
<1> QED BY <1>4, <1>5

\* What a lane comes to that is done with what it was at: it is free, asks for more or
\* has a chunk to process.  finish() may be reached.
LaneGoes(l, x, c) ==
  LET done == IF at[l] = "working" THEN 1 ELSE 0
      got == IF at[l] \in InFetch THEN 1 ELSE 0
  IN
  /\ x \in {"free", "asking", "working"} /\ c \in Seq(1..Total)
  /\ x = "working" <=> c # <<>>
  /\ x = "working" => outcome = "no" /\ iterations - done < setting.concurrency
  /\ x = "asking" => outcome = "no" /\ Len(queue) < setting.flush
  /\ queue' \in Seq(1..Total) /\ c \o queue' = queue
  /\ at' = [at EXCEPT ![l] = x] /\ items' = [items EXCEPT ![l] = c]
  /\ handed' = handed \o c
  /\ iterations' = iterations - done + (IF x = "working" THEN 1 ELSE 0)
  /\ fetching' = fetching - got
  /\ processed' = processed + Load[l]
  /\ UNCHANGED <<setting, waiting, enqueued>>
  /\ retries' \in Nat
  /\ \/ outcome' = outcome
     \/ outcome = "no" /\ x = "free" /\ outcome' = "error" /\ fetching' = 0
     \/ /\ outcome = "no" /\ x = "free" /\ outcome' = "ok" /\ fetching' = 0
        /\ at[l] = "asking" /\ queue = <<>> /\ enqueued = processed

LEMMA GoOnDoes ==
  ASSUME QueueTypes, NEW l \in Lanes, NEW left \in Nat, NEW busy \in Nat, NEW open \in Nat,
         busy = iterations - (IF at[l] = "working" THEN 1 ELSE 0),
         open = fetching - (IF at[l] \in InFetch THEN 1 ELSE 0),
         processed' = processed + Load[l],
         GoOn(l, busy, left, open)
  PROVE  \E x, c : LaneGoes(l, x, c)
<1>1. UNCHANGED <<setting, waiting, enqueued>> /\ fetching' = open /\ retries' \in Nat
  BY DEF GoOn
<1>2. <<>> \in Seq(1..Total) /\ <<>> \o queue = queue /\ handed \o <<>> = handed /\ queue \in Seq(1..Total)
  BY DEF QueueTypes
<1>3. CASE outcome # "no" /\ Rest(l, busy) /\ UNCHANGED outcome
  <2>1. LaneGoes(l, "free", <<>>)
    BY <1>1, <1>2, <1>3 DEF LaneGoes, Rest
  <2> QED BY <2>1
<1>4. CASE outcome = "no" /\ left = 0 /\ Finish(l, busy, open, "error")
  <2>1. Rest(l, busy) /\ (UNCHANGED outcome \/ (outcome' = "error" /\ open = 0))
    BY <1>4 DEF Finish, MayFinish
  <2>2. LaneGoes(l, "free", <<>>)
    BY <1>1, <1>2, <1>4, <2>1 DEF LaneGoes, Rest
  <2> QED BY <2>2
<1>5. CASE outcome = "no" /\ left > 0 /\ Len(queue) < setting.flush /\ Ask(l, busy) /\ UNCHANGED outcome
  <2>1. LaneGoes(l, "asking", <<>>)
    BY <1>1, <1>2, <1>5 DEF LaneGoes, Ask
  <2> QED BY <2>1
<1>6. CASE outcome = "no" /\ Data(l, queue, at, busy) /\ UNCHANGED outcome
  <2>1. PICK x, c : DataGoes(l, x, c, queue, at, busy)
    BY <1>2, <1>6, DataDoes
  <2>2. LaneGoes(l, x, c)
    BY <1>1, <1>6, <2>1 DEF LaneGoes, DataGoes
  <2> QED BY <2>2
<1> QED BY <1>3, <1>4, <1>5, <1>6 DEF GoOn

LEMMA LoadTyped ==
  ASSUME QueueTypes
  PROVE  /\ Load \in [Lanes -> Nat]
         /\ \A l \in Lanes : Load[l] = IF at[l] = "working" THEN Len(items[l]) ELSE 0
BY DEF QueueTypes, Load

\* A lane that has finished its work and what it comes to next.
LEMMA LaneGoesKeeps ==
  ASSUME QueueInv, NEW l \in Lanes, at[l] # "free", NEW x, NEW c, LaneGoes(l, x, c)
  PROVE  /\ QueueInv'
         /\ outcome' = "ok" => iterations = iterations'
<1> DEFINE done == IF at[l] = "working" THEN 1 ELSE 0
           got == IF at[l] \in InFetch THEN 1 ELSE 0
           now == IF x = "working" THEN 1 ELSE 0
<1> USE DEF QueueInv
<1>1. /\ at \in [Lanes -> Places] /\ items \in [Lanes -> Seq(1..Total)]
      /\ queue \in Seq(1..Total) /\ handed \in Seq(1..Total) /\ c \in Seq(1..Total)
      /\ queue' \in Seq(1..Total)
      /\ fetching \in Nat /\ iterations \in Nat /\ enqueued \in Nat /\ processed \in Nat
  BY DEF QueueTypes, LaneGoes
<1>2. /\ x \in {"free", "asking", "working"} /\ x \in Places
      /\ at' = [at EXCEPT ![l] = x] /\ items' = [items EXCEPT ![l] = c]
      /\ c \o queue' = queue /\ handed' = handed \o c
      /\ iterations' = iterations - done + now /\ fetching' = fetching - got
      /\ processed' = processed + Load[l] /\ enqueued' = enqueued
      /\ x = "working" <=> c # <<>>
  BY DEF LaneGoes, Places
<1>3. /\ at' \in [Lanes -> Places]
      /\ Cardinality(Working(at')) = iterations - done + now
      /\ Cardinality(Fetching(at')) = fetching - got
      /\ iterations - done \in Nat /\ fetching - got \in Nat
  <2>1. /\ at' \in [Lanes -> Places]
        /\ Cardinality(Working(at')) = Cardinality(Working(at)) - done + now
        /\ Cardinality(Fetching(at')) = Cardinality(Fetching(at)) - got + (IF x \in InFetch THEN 1 ELSE 0)
        /\ at[l] = "working" => Cardinality(Working(at)) > 0
        /\ at[l] \in InFetch => Cardinality(Fetching(at)) > 0
    <3>1. /\ at \in [Lanes -> Places] /\ at' \in [Lanes -> Places] /\ at'[l] = x
          /\ \A k \in Lanes \ {l} : at'[k] = at[k]
      BY <1>1, <1>2
    <3> QED BY <3>1, OneLane
  <2>2. x \notin InFetch
    BY <1>2 DEF InFetch
  <2> QED BY <1>1, <2>1, <2>2 DEF CountersAgree
<1>4. CountersAgree' /\ {fetching', iterations'} \subseteq Nat
  BY <1>2, <1>3 DEF CountersAgree
<1>5. /\ Len(queue) = Len(c) + Len(queue') /\ Len(handed') = Len(handed) + Len(c)
      /\ handed' \in Seq(1..Total) /\ Len(c) \in Nat /\ Len(queue') \in Nat /\ Len(handed) \in Nat
      /\ (c = <<>> => queue' = queue /\ handed' = handed)
  <2>1. Len(c \o queue') = Len(c) + Len(queue')
    BY <1>1, LongerHasPrefix
  <2>2. handed \o c \in Seq(1..Total) /\ Len(handed \o c) = Len(handed) + Len(c)
    BY <1>1, LongerHasPrefix
  <2>3. c = <<>> => c \o queue' = queue' /\ handed \o c = handed
    BY <1>1
  <2> QED BY <1>1, <1>2, <2>1, <2>2, <2>3
<1>6. /\ Load \in [Lanes -> Nat] /\ Load[l] \in Nat /\ Load[l] <= Len(handed) - processed
      /\ Len(handed) - processed \in Nat
      /\ AddUp([Load EXCEPT ![l] = Len(c)], (Len(handed) - processed) - Load[l] + Len(c))
  <2>1. Load \in [Lanes -> Nat] /\ Load[l] \in Nat
    BY LoadTyped
  <2>2. Len(handed) - processed \in Nat /\ AddUp(Load, Len(handed) - processed)
    BY <1>1, <1>5 DEF AllCounted
  <2> QED BY <1>5, <2>1, <2>2, OneLoad
<1>7. Load' = [Load EXCEPT ![l] = Len(c)]
  <2>1. \A k \in Lanes : (IF at'[k] = "working" THEN Len(items'[k]) ELSE 0)
                           = IF k = l THEN Len(c) ELSE Load[k]
    BY <1>1, <1>2 DEF Load
  <2> QED BY <2>1, <1>6 DEF Load
<1>8. (Len(handed) - processed) - Load[l] + Len(c) = Len(handed') - processed'
  <2>1. /\ Len(handed) \in Nat /\ processed \in Nat /\ Load[l] \in Nat /\ Len(c) \in Nat
        /\ Len(handed') = Len(handed) + Len(c) /\ processed' = processed + Load[l]
    BY <1>1, <1>2, <1>5, <1>6
  <2> QED BY <2>1
<1>9. processed' <= Len(handed') /\ processed' \in Nat
  <2>1. /\ Len(handed) \in Nat /\ processed \in Nat /\ Load[l] \in Nat /\ Len(c) \in Nat
        /\ Len(handed') = Len(handed) + Len(c) /\ processed' = processed + Load[l]
        /\ Load[l] <= Len(handed) - processed
    BY <1>1, <1>2, <1>5, <1>6
  <2> QED BY <2>1
<1>10. \A k \in Lanes : at'[k] = "working" => items'[k] # <<>>
  BY <1>1, <1>2 DEF AllCounted
<1>11. AllCounted'
  <2>1. AddUp(Load', Len(handed') - processed')
    BY <1>6, <1>7, <1>8
  <2>2. enqueued' = Len(handed') + Len(queue')
    BY <1>2, <1>5 DEF AllCounted
  <2> QED BY <1>9, <1>10, <2>1, <2>2 DEF AllCounted
<1>12. StartsAlone'
  BY <1>1, <1>2 DEF StartsAlone
<1>13. ASSUME outcome' = "ok"
       PROVE  queue' = <<>> /\ processed' = Len(handed') /\ iterations' = 0 /\ iterations = 0
  <2>1. CASE outcome = "ok"
    <3>1. /\ queue = <<>> /\ processed = Len(handed) /\ iterations = 0 /\ c = <<>>
      BY <1>2, <2>1 DEF EndKept, LaneGoes
    <3>2. at[l] # "working"
      BY <1>3, <3>1
    <3> QED BY <1>1, <1>2, <1>5, <3>1, <3>2, LoadTyped
  <2>2. CASE outcome # "ok"
    <3>1. /\ x = "free" /\ at[l] = "asking" /\ queue = <<>> /\ enqueued = processed
      BY <1>13, <2>2 DEF LaneGoes
    <3>2. c = <<>> /\ queue' = <<>> /\ handed' = handed
      BY <1>2, <1>5, <3>1
    <3>3. processed = Len(handed)
      BY <1>1, <1>5, <3>1 DEF AllCounted
    <3>4. AddUp(Load, 0)
      BY <1>1, <1>5, <3>3 DEF AllCounted
    <3>5. \A k \in Lanes : Load[k] = 0
      BY <1>6, <3>4, NoLoad
    <3>6. \A k \in Lanes : at[k] # "working"
      <4>1. ASSUME NEW k \in Lanes, at[k] = "working" PROVE FALSE
        <5>1. items[k] \in Seq(1..Total) /\ items[k] # <<>> /\ Len(items[k]) = 0
          BY <1>1, <3>5, <4>1, LoadTyped DEF AllCounted
        <5> QED BY <5>1, EmptySeq
      <4> QED BY <4>1
    <3>7. iterations = 0
      <4>1. Working(at) = {}
        BY <3>6 DEF Working
      <4> QED BY <4>1, FS_EmptySet DEF CountersAgree
    <3> QED BY <1>1, <1>2, <3>1, <3>2, <3>3, <3>5, <3>7
  <2> QED BY <2>1, <2>2
<1>14. outcome' # "no" => fetching' = 0
  <2>1. CASE outcome = outcome'
    BY <1>1, <1>2, <1>3, <2>1 DEF EndKept
  <2>2. CASE outcome # outcome'
    BY <2>2 DEF LaneGoes
  <2> QED BY <2>1, <2>2
<1>15. QueueTypes'
  <2>1. setting' = setting /\ waiting' = waiting /\ retries' \in Nat /\ outcome' \in {"no", "ok", "error"}
    BY DEF LaneGoes, QueueTypes
  <2>2. items' \in [Lanes -> Seq(1..Total)]
    BY <1>1, <1>2
  <2> QED BY <1>1, <1>2, <1>3, <1>4, <1>5, <1>9, <2>1, <2>2 DEF QueueTypes
<1> QED BY <1>4, <1>11, <1>12, <1>13, <1>14, <1>15 DEF EndKept

\* The same step as the pipeline sees it.
LEMMA LaneGoesIsStep ==
  ASSUME QueueInv, NEW l \in Lanes, at[l] # "free", NEW x, NEW c, LaneGoes(l, x, c)
  PROVE  S!Next \/ UNCHANGED S!vars
<1> DEFINE done == IF at[l] = "working" THEN 1 ELSE 0
<1>1. /\ iterations \in Nat /\ handed \in Seq(1..Total) /\ c \in Seq(1..Total)
      /\ done \in {0, 1} /\ done <= iterations
  <2>1. at[l] = "working" => Cardinality(Working(at)) > 0
    BY OneLane DEF QueueInv, QueueTypes
  <2> QED BY <2>1 DEF QueueInv, QueueTypes, LaneGoes, CountersAgree
<1>2. setting' = setting /\ handed' = handed \o c /\ x \in {"free", "asking", "working"}
      /\ iterations' = iterations - done + (IF x = "working" THEN 1 ELSE 0)
      /\ (x = "working" <=> c # <<>>)
  BY DEF LaneGoes
<1> HIDE DEF done
<1>3. CASE x = "working"
  <2>1. outcome = "no" /\ outcome' = "no" /\ iterations - done < setting.concurrency
    BY <1>3 DEF LaneGoes, done
  <2>2. S!IsStrictPrefix(handed, handed')
    BY <1>1, <1>2, <1>3, LongerHasPrefix
       DEF IsStrictPrefix, IsPrefix, S!IsStrictPrefix, S!IsPrefix
  <2>3. S!Hand(done)
    <3>1. iterations' = iterations - done + 1 /\ done <= iterations
      BY <1>1, <1>2, <1>3
    <3> QED BY <2>1, <2>2, <3>1 DEF S!Hand
  <2> QED BY <1>1, <1>2, <2>3 DEF S!Next
<1>4. CASE x # "working"
  <2>1. handed' = handed /\ iterations' = iterations - done
    BY <1>1, <1>2, <1>4
  <2>2. CASE outcome' = outcome
    <3>1. CASE done = 1
      <4>1. S!Done
        BY <1>1, <2>1, <2>2, <3>1 DEF S!Done
      <4> QED BY <1>2, <4>1 DEF S!Next
    <3>2. CASE done = 0
      BY <1>1, <1>2, <2>1, <2>2, <3>2 DEF S!vars
    <3> QED BY <1>1, <3>1, <3>2
  <2>3. CASE outcome = "no" /\ outcome' = "error"
    <3>1. S!Fail(done)
      BY <1>1, <2>1, <2>3 DEF S!Fail
    <3> QED BY <1>1, <1>2, <3>1 DEF S!Next
  <2>4. CASE outcome = "no" /\ outcome' = "ok"
    <3>1. QueueInv' /\ iterations = iterations'
      BY <2>4, LaneGoesKeeps
    <3>2. iterations = 0 /\ iterations' = 0
      BY <2>4, <3>1 DEF QueueInv, EndKept
    <3>3. S!Succeed
      BY <2>1, <2>4, <3>2 DEF S!Succeed
    <3> QED BY <1>2, <3>3 DEF S!Next
  <2> QED BY <2>2, <2>3, <2>4 DEF LaneGoes
<1> QED BY <1>3, <1>4

\* A lane that begins or ends to fetch, or dies; nothing is handed on.
LEMMA LaneMoves ==
  ASSUME QueueInv, NEW l \in Lanes, at[l] \in {"asking", "fetching", "waiting"},
         NEW x \in {"fetching", "stored", "delayed", "dead"}, x \in InFetch => outcome = "no",
         at' = [at EXCEPT ![l] = x],
         fetching' = fetching - (IF at[l] \in InFetch THEN 1 ELSE 0) + (IF x \in InFetch THEN 1 ELSE 0),
         NEW data \in Seq(1..Total), queue' = queue \o data, enqueued' = enqueued + Len(data),
         at[l] \in InFetch \/ data = <<>>,
         UNCHANGED <<setting, items, iterations, processed, handed, outcome>>,
         waiting' \in BOOLEAN, retries' \in Nat
  PROVE  QueueInv' /\ UNCHANGED S!vars
<1> USE DEF QueueInv
<1>1. /\ at \in [Lanes -> Places] /\ queue \in Seq(1..Total) /\ handed \in Seq(1..Total)
      /\ fetching \in Nat /\ enqueued \in Nat /\ processed \in Nat
  BY DEF QueueTypes
<1>2. /\ at' \in [Lanes -> Places] /\ at'[l] = x /\ \A k \in Lanes \ {l} : at'[k] = at[k]
      /\ at[l] # "working" /\ x # "working" /\ at[l] # "free" /\ x # "start"
  BY <1>1 DEF Places
<1>3. /\ Cardinality(Working(at)) \in Nat /\ Cardinality(Fetching(at)) \in Nat
      /\ Cardinality(Working(at')) = Cardinality(Working(at))
           - (IF at[l] = "working" THEN 1 ELSE 0) + (IF at'[l] = "working" THEN 1 ELSE 0)
      /\ Cardinality(Fetching(at')) = Cardinality(Fetching(at))
           - (IF at[l] \in InFetch THEN 1 ELSE 0) + (IF at'[l] \in InFetch THEN 1 ELSE 0)
      /\ at[l] \in InFetch => Cardinality(Fetching(at)) > 0
  <2>1. /\ at \in [Lanes -> Places] /\ at' \in [Lanes -> Places]
        /\ \A k \in Lanes \ {l} : at'[k] = at[k]
    BY <1>1, <1>2
  <2> QED BY ONLY <2>1, OneLane, l \in Lanes
<1>4. CountersAgree' /\ fetching' \in Nat
  BY <1>2, <1>3 DEF CountersAgree
<1>5. Load' = Load
  BY <1>1, <1>2 DEF Load
<1>6. queue' \in Seq(1..Total) /\ Len(queue') = Len(queue) + Len(data)
  BY <1>1, LongerHasPrefix
<1>7. enqueued' = Len(handed') + Len(queue') /\ enqueued' \in Nat
  <2>1. Len(handed) \in Nat /\ Len(queue) \in Nat /\ Len(data) \in Nat
    BY <1>1
  <2> QED BY <1>1, <1>6, <2>1 DEF AllCounted
<1>8. \A k \in Lanes : at'[k] = "working" => items'[k] # <<>>
  BY <1>2 DEF AllCounted
<1>9. AllCounted'
  BY <1>5, <1>7, <1>8 DEF AllCounted
<1>10. StartsAlone'
  BY <1>1, <1>2 DEF StartsAlone
<1>11. EndKept'
  <2>1. CASE outcome = "no"
    BY <2>1 DEF EndKept
  <2>2. CASE outcome # "no"
    <3>1. fetching = 0 /\ at[l] \notin InFetch /\ x \notin InFetch
      BY <1>3, <2>2 DEF EndKept, CountersAgree
    <3>2. data = <<>> /\ queue' = queue /\ fetching' = 0
      BY <1>1, <3>1
    <3> QED BY <3>2 DEF EndKept
  <2> QED BY <2>1, <2>2
<1>12. QueueTypes'
  BY <1>2, <1>4, <1>6, <1>7 DEF QueueTypes
<1> QED BY <1>4, <1>9, <1>10, <1>11, <1>12 DEF S!vars

\* waitFor: a lane that has fetched waits, and another begins with a chunk.
LEMMA WaitGoes ==
  ASSUME QueueInv, NEW l \in Lanes, at[l] \in InFetch, NEW k \in Lanes, at[k] = "free",
         NEW data \in Seq(1..Total), enqueued' = enqueued + Len(data),
         NEW x, NEW c, DataGoes(k, x, c, queue \o data, [at EXCEPT ![l] = "waiting"], iterations),
         UNCHANGED <<setting, fetching, retries, processed, outcome>>, waiting' \in BOOLEAN
  PROVE  QueueInv' /\ (S!Next \/ UNCHANGED S!vars)
<1> DEFINE mid == [at EXCEPT ![l] = "waiting"]
           now == IF x = "working" THEN 1 ELSE 0
<1> USE DEF QueueInv
<1>1. /\ at \in [Lanes -> Places] /\ items \in [Lanes -> Seq(1..Total)]
      /\ queue \in Seq(1..Total) /\ handed \in Seq(1..Total) /\ c \in Seq(1..Total)
      /\ queue' \in Seq(1..Total)
      /\ fetching \in Nat /\ iterations \in Nat /\ enqueued \in Nat /\ processed \in Nat
  BY DEF QueueTypes, DataGoes
<1>2. /\ x \in {"free", "working"} /\ x \in Places /\ "waiting" \in Places /\ "waiting" \in InFetch
      /\ at' = [mid EXCEPT ![k] = x] /\ items' = [items EXCEPT ![k] = c]
      /\ c \o queue' = queue \o data /\ handed' = handed \o c
      /\ iterations' = iterations + now
      /\ (x = "working" <=> c # <<>>) /\ (x = "working" => iterations < setting.concurrency)
  BY DEF DataGoes, Places, InFetch
<1>3. /\ mid \in [Lanes -> Places] /\ mid[l] = "waiting" /\ mid[k] = "free" /\ k # l
      /\ \A m \in Lanes \ {l} : mid[m] = at[m]
      /\ at[l] # "working" /\ "free" \notin InFetch
  BY <1>1, <1>2 DEF InFetch
<1>4. /\ at' \in [Lanes -> Places] /\ at'[k] = x /\ x \notin InFetch
      /\ \A m \in Lanes \ {k} : at'[m] = mid[m]
  BY <1>2, <1>3 DEF InFetch
<1>5. /\ Cardinality(Working(at)) \in Nat /\ Cardinality(Fetching(at)) \in Nat
      /\ Cardinality(Working(mid)) = Cardinality(Working(at))
           - (IF at[l] = "working" THEN 1 ELSE 0) + (IF mid[l] = "working" THEN 1 ELSE 0)
      /\ Cardinality(Fetching(mid)) = Cardinality(Fetching(at))
           - (IF at[l] \in InFetch THEN 1 ELSE 0) + (IF mid[l] \in InFetch THEN 1 ELSE 0)
      /\ at[l] \in InFetch => Cardinality(Fetching(at)) > 0
  <2> HIDE DEF mid
  <2> QED BY <1>1, <1>3, OneLane
<1>6. /\ Cardinality(Working(at')) = Cardinality(Working(mid))
           - (IF mid[k] = "working" THEN 1 ELSE 0) + (IF at'[k] = "working" THEN 1 ELSE 0)
      /\ Cardinality(Fetching(at')) = Cardinality(Fetching(mid))
           - (IF mid[k] \in InFetch THEN 1 ELSE 0) + (IF at'[k] \in InFetch THEN 1 ELSE 0)
  <2> HIDE DEF mid
  <2> QED BY <1>3, <1>4, OneLane
<1>7. CountersAgree' /\ fetching > 0 /\ iterations' \in Nat
  <2> HIDE DEF mid
  <2>1. iterations = Cardinality(Working(at)) /\ fetching = Cardinality(Fetching(at))
    BY DEF CountersAgree
  <2>2. Cardinality(Working(mid)) = iterations /\ Cardinality(Fetching(mid)) = fetching
    BY <1>1, <1>2, <1>3, <1>5, <2>1
  <2>3. Cardinality(Working(at')) = iterations + now /\ now \in Nat
    BY <1>1, <1>3, <1>4, <1>6, <2>2
  <2>4. Cardinality(Fetching(at')) = fetching
    BY <1>1, <1>3, <1>4, <1>6, <2>2
  <2>5. fetching' = fetching /\ iterations' = iterations + now
    BY <1>2
  <2>6. fetching > 0
    BY <1>5, <2>1
  <2>7. iterations' \in Nat
    BY <1>1, <2>3, <2>5
  <2> QED BY <2>3, <2>4, <2>5, <2>6, <2>7 DEF CountersAgree
<1>8. outcome = "no" /\ outcome' = "no"
  BY <1>7 DEF EndKept
<1>9. /\ Len(queue) + Len(data) = Len(c) + Len(queue') /\ Len(handed') = Len(handed) + Len(c)
      /\ handed' \in Seq(1..Total)
      /\ Len(c) \in Nat /\ Len(queue) \in Nat /\ Len(queue') \in Nat /\ Len(handed) \in Nat
      /\ Len(data) \in Nat
  <2>1. Len(c \o queue') = Len(c) + Len(queue')
    BY <1>1, LongerHasPrefix
  <2>2. handed \o c \in Seq(1..Total) /\ Len(handed \o c) = Len(handed) + Len(c)
    BY <1>1, LongerHasPrefix
  <2>3. Len(queue \o data) = Len(queue) + Len(data)
    BY <1>1, LongerHasPrefix
  <2> QED BY <1>1, <1>2, <2>1, <2>2, <2>3
<1>10. /\ Load \in [Lanes -> Nat] /\ Load[k] = 0
       /\ Len(handed) - processed \in Nat
       /\ AddUp([Load EXCEPT ![k] = Len(c)], (Len(handed) - processed) - Load[k] + Len(c))
  <2>1. Load \in [Lanes -> Nat] /\ Load[k] = 0
    BY LoadTyped
  <2>2. Len(handed) - processed \in Nat /\ AddUp(Load, Len(handed) - processed)
    BY <1>1, <1>9 DEF AllCounted
  <2> QED BY <1>9, <2>1, <2>2, OneLoad
<1>11. Load' = [Load EXCEPT ![k] = Len(c)]
  <2>1. \A m \in Lanes : (IF at'[m] = "working" THEN Len(items'[m]) ELSE 0)
                           = IF m = k THEN Len(c) ELSE Load[m]
    BY <1>1, <1>2, <1>3, <1>4 DEF Load
  <2> QED BY <2>1, <1>10 DEF Load
<1>12. (Len(handed) - processed) - Load[k] + Len(c) = Len(handed') - processed'
       /\ processed' <= Len(handed')
  <2>1. /\ Len(handed) \in Nat /\ processed \in Nat /\ Len(c) \in Nat /\ processed' = processed
        /\ Load[k] = 0 /\ Len(handed') = Len(handed) + Len(c) /\ processed <= Len(handed)
    BY <1>1, <1>9, <1>10 DEF AllCounted
  <2> QED BY <2>1
<1>13. \A m \in Lanes : at'[m] = "working" => items'[m] # <<>>
  BY <1>1, <1>2, <1>3, <1>4 DEF AllCounted
<1>14. AllCounted'
  <2>1. AddUp(Load', Len(handed') - processed')
    BY <1>10, <1>11, <1>12
  <2>2. enqueued' = Len(handed') + Len(queue')
    <3>1. enqueued = Len(handed) + Len(queue)
      BY DEF AllCounted
    <3> QED BY <1>9, <3>1
  <2> QED BY <1>12, <1>13, <2>1, <2>2 DEF AllCounted
<1>15. StartsAlone'
  BY <1>1, <1>2, <1>3, <1>4 DEF StartsAlone, InFetch
<1>16. QueueTypes'
  <2>1. items' \in [Lanes -> Seq(1..Total)]
    BY <1>1, <1>2
  <2>2. enqueued' \in Nat /\ iterations' \in Nat
    BY <1>1, <1>7, <1>9
  <2> QED BY <1>1, <1>4, <1>9, <2>1, <2>2 DEF QueueTypes
<1>17. S!Next \/ UNCHANGED S!vars
  <2>1. CASE x = "working"
    <3>1. S!IsStrictPrefix(handed, handed')
      BY <1>1, <1>2, <2>1, LongerHasPrefix
         DEF IsStrictPrefix, IsPrefix, S!IsStrictPrefix, S!IsPrefix
    <3>2. S!Hand(0)
      BY <1>1, <1>2, <1>8, <2>1, <3>1 DEF S!Hand
    <3> QED BY <3>2 DEF S!Next
  <2>2. CASE x # "working"
    <3>1. handed' = handed /\ iterations' = iterations
      BY <1>1, <1>2, <2>2
    <3> QED BY <3>1 DEF S!vars
  <2> QED BY <2>1, <2>2
<1> QED BY <1>7, <1>8, <1>14, <1>15, <1>16, <1>17 DEF EndKept

-----------------------------------------------------------------------------
\* The steps of the queue

\* A step of Stream, or nothing that the pipeline sees.
Seen == S!Next \/ UNCHANGED S!vars

LEMMA LaneGoesDoes ==
  ASSUME QueueInv, NEW l \in Lanes, at[l] # "free", \E x, c : LaneGoes(l, x, c)
  PROVE  QueueInv' /\ Seen
<1>1. PICK x, c : LaneGoes(l, x, c)
  OBVIOUS
<1> QED BY <1>1, LaneGoesKeeps, LaneGoesIsStep DEF Seen

LEMMA RunGoes ==
  ASSUME QueueInv, NEW l \in Lanes, Run(l)
  PROVE  at[l] \notin {"free", "asking"} /\ \E x, c : LaneGoes(l, x, c)
<1>1. at[l] = "start" /\ GoOn(l, 0, retries, fetching) /\ processed' = processed
  BY DEF Run
<1>2. Load[l] = 0 /\ processed \in Nat /\ iterations \in Nat /\ fetching \in Nat /\ retries \in Nat
  BY <1>1, LoadTyped DEF QueueInv, QueueTypes
<1>3. iterations = 0
  <2>1. Working(at) = {}
    BY <1>1 DEF QueueInv, StartsAlone, Working
  <2> QED BY <2>1, FS_EmptySet DEF QueueInv, CountersAgree
<1>4. at[l] \notin InFetch /\ at[l] # "working" /\ at[l] # "free"
  BY <1>1 DEF InFetch
<1>5. \E x, c : LaneGoes(l, x, c)
  BY <1>1, <1>2, <1>3, <1>4, GoOnDoes DEF QueueInv
<1> QED BY <1>1, <1>4, <1>5

LEMMA StoredGoes ==
  ASSUME QueueInv, NEW l \in Lanes, Stored(l)
  PROVE  at[l] \notin {"free", "asking"} /\ \E x, c : LaneGoes(l, x, c)
<1>1. at[l] = "stored" /\ GoOn(l, iterations, FullRetries, fetching - 1) /\ processed' = processed
  BY DEF Stored
<1>2. Load[l] = 0 /\ processed \in Nat /\ iterations \in Nat /\ fetching \in Nat
      /\ at \in [Lanes -> Places]
  BY <1>1, LoadTyped DEF QueueInv, QueueTypes
<1>3. at[l] \in InFetch /\ at[l] # "working" /\ at[l] # "free"
  BY <1>1 DEF InFetch
<1>4. fetching > 0
  BY <1>2, <1>3, OneLane DEF QueueInv, CountersAgree
<1>5. FullRetries \in Nat
  BY QueueAssumption
<1>6. \E x, c : LaneGoes(l, x, c)
  BY <1>1, <1>2, <1>3, <1>4, <1>5, GoOnDoes DEF QueueInv
<1> QED BY <1>1, <1>3, <1>6

LEMMA RetryGoes ==
  ASSUME QueueInv, NEW l \in Lanes, Retry(l)
  PROVE  at[l] \notin {"free", "asking"} /\ \E x, c : LaneGoes(l, x, c)
<1>1. at[l] = "delayed" /\ GoOn(l, iterations, retries, fetching) /\ processed' = processed
  BY DEF Retry
<1>2. Load[l] = 0 /\ processed \in Nat /\ iterations \in Nat /\ fetching \in Nat /\ retries \in Nat
  BY <1>1, LoadTyped DEF QueueInv, QueueTypes
<1>3. at[l] \notin InFetch /\ at[l] # "working" /\ at[l] # "free"
  BY <1>1 DEF InFetch
<1>4. \E x, c : LaneGoes(l, x, c)
  BY <1>1, <1>2, <1>3, GoOnDoes DEF QueueInv
<1> QED BY <1>1, <1>3, <1>4

LEMMA WorkedGoes ==
  ASSUME QueueInv, NEW l \in Lanes, Worked(l)
  PROVE  at[l] \notin {"free", "asking"} /\ \E x, c : LaneGoes(l, x, c)
<1>1. at[l] = "working" /\ GoOn(l, iterations - 1, retries, fetching)
      /\ processed' = processed + Len(items[l])
  BY DEF Worked
<1>2. Load[l] = Len(items[l]) /\ processed \in Nat /\ iterations \in Nat /\ fetching \in Nat
      /\ retries \in Nat /\ at \in [Lanes -> Places]
  BY <1>1, LoadTyped DEF QueueInv, QueueTypes
<1>3. at[l] \notin InFetch /\ at[l] # "free"
  BY <1>1 DEF InFetch
<1>4. iterations > 0
  BY <1>1, <1>2, OneLane DEF QueueInv, CountersAgree
<1>5. \E x, c : LaneGoes(l, x, c)
  BY <1>1, <1>2, <1>3, <1>4, GoOnDoes DEF QueueInv
<1> QED BY <1>1, <1>3, <1>5

LEMMA AnswerNoGoes ==
  ASSUME QueueInv, NEW l \in Lanes, NEW yes, ~yes, Answer(l, yes)
  PROVE  \E x, c : x # "asking" /\ LaneGoes(l, x, c)
<1>1. /\ at[l] = "asking" /\ outcome = "no"
      /\ UNCHANGED <<setting, waiting, retries, enqueued, processed>>
  BY DEF Answer
<1>2. /\ Load[l] = 0 /\ processed \in Nat /\ iterations \in Nat /\ fetching \in Nat /\ retries \in Nat
      /\ queue \in Seq(1..Total) /\ handed \in Seq(1..Total)
  BY <1>1, LoadTyped DEF QueueInv, QueueTypes
<1>3. at[l] \notin InFetch /\ at[l] # "working"
  BY <1>1 DEF InFetch
<1>4. <<>> \in Seq(1..Total) /\ <<>> \o queue = queue /\ handed \o <<>> = handed
  BY <1>2
<1>5. CASE queue # <<>> /\ Data(l, queue, at, iterations) /\ UNCHANGED <<fetching, outcome>>
  <2>1. PICK x, c : DataGoes(l, x, c, queue, at, iterations)
    BY <1>2, <1>5, DataDoes DEF QueueInv
  <2>2. x # "asking" /\ LaneGoes(l, x, c)
    BY <1>1, <1>2, <1>3, <1>5, <2>1 DEF LaneGoes, DataGoes
  <2> QED BY <2>2
<1>6. CASE /\ queue = <<>> /\ enqueued = processed
           /\ Finish(l, iterations, fetching, "ok") /\ UNCHANGED fetching
  <2>1. Rest(l, iterations) /\ (UNCHANGED outcome \/ (outcome' = "ok" /\ fetching = 0))
    BY <1>6 DEF Finish, MayFinish
  <2>2. LaneGoes(l, "free", <<>>)
    BY <1>1, <1>2, <1>3, <1>4, <1>6, <2>1 DEF LaneGoes, Rest
  <2> QED BY <2>2
<1>7. CASE /\ queue = <<>> /\ enqueued # processed /\ Rest(l, iterations)
           /\ UNCHANGED <<fetching, outcome>>
  <2>1. LaneGoes(l, "free", <<>>)
    BY <1>1, <1>2, <1>3, <1>4, <1>7 DEF LaneGoes, Rest
  <2> QED BY <2>1
<1> QED BY <1>5, <1>6, <1>7 DEF Answer

LEMMA AnswerYesDoes ==
  ASSUME QueueInv, NEW l \in Lanes, NEW yes, yes, Answer(l, yes)
  PROVE  QueueInv' /\ Seen
<1> DEFINE none == <<>>
<1>1. /\ at[l] = "asking" /\ outcome = "no"
      /\ fetching' = fetching + 1 /\ at' = [at EXCEPT ![l] = "fetching"]
      /\ UNCHANGED <<setting, waiting, retries, enqueued, processed>>
      /\ UNCHANGED <<items, queue, iterations, outcome, handed>>
  BY DEF Answer
<1>2. /\ fetching \in Nat /\ retries \in Nat /\ enqueued \in Nat /\ waiting \in BOOLEAN
      /\ queue \in Seq(1..Total)
  BY DEF QueueInv, QueueTypes
<1>3. at[l] \notin InFetch /\ "fetching" \in InFetch
  BY <1>1 DEF InFetch
<1>4. /\ none \in Seq(1..Total) /\ queue' = queue \o none /\ enqueued' = enqueued + Len(none)
      /\ none = <<>>
  BY <1>1, <1>2
<1>5. fetching' = fetching - (IF at[l] \in InFetch THEN 1 ELSE 0)
                   + (IF "fetching" \in InFetch THEN 1 ELSE 0)
  BY <1>1, <1>2, <1>3
<1> HIDE DEF none
<1>6. QueueInv' /\ UNCHANGED S!vars
  BY <1>1, <1>2, <1>3, <1>4, <1>5, LaneMoves
<1> QED BY <1>6 DEF Seen

LEMMA AnswerDoes ==
  ASSUME QueueInv, NEW l \in Lanes, NEW yes, Answer(l, yes)
  PROVE  QueueInv' /\ Seen
<1>1. at[l] # "free"
  BY DEF Answer
<1> QED BY <1>1, AnswerYesDoes, AnswerNoGoes, LaneGoesDoes

LEMMA AnswerLateDoes ==
  ASSUME QueueInv, NEW l \in Lanes, AnswerLate(l)
  PROVE  QueueInv' /\ Seen
<1>1. /\ at[l] = "asking" /\ Rest(l, iterations)
      /\ UNCHANGED <<setting, waiting, fetching, retries, enqueued, processed, outcome>>
  BY DEF AnswerLate
<1>2. /\ Load[l] = 0 /\ processed \in Nat /\ iterations \in Nat /\ fetching \in Nat /\ retries \in Nat
      /\ queue \in Seq(1..Total) /\ handed \in Seq(1..Total)
  BY <1>1, LoadTyped DEF QueueInv, QueueTypes
<1>3. at[l] \notin InFetch /\ at[l] # "working" /\ at[l] # "free"
  BY <1>1 DEF InFetch
<1>4. <<>> \in Seq(1..Total) /\ <<>> \o queue = queue /\ handed \o <<>> = handed
  BY <1>2
<1>5. LaneGoes(l, "free", <<>>)
  BY <1>1, <1>2, <1>3, <1>4 DEF LaneGoes, Rest
<1> QED BY <1>3, <1>5, LaneGoesDoes

LEMMA AnswerFailsDoes ==
  ASSUME QueueInv, NEW l \in Lanes, AnswerFails(l)
  PROVE  QueueInv' /\ Seen
<1> DEFINE none == <<>>
<1>1. /\ at[l] = "asking" /\ at' = [at EXCEPT ![l] = "dead"]
      /\ UNCHANGED <<setting, items, queue, waiting, fetching, iterations, retries, enqueued,
                     processed, outcome, handed>>
  BY DEF AnswerFails
<1>2. /\ fetching \in Nat /\ retries \in Nat /\ enqueued \in Nat /\ waiting \in BOOLEAN
      /\ queue \in Seq(1..Total)
  BY DEF QueueInv, QueueTypes
<1>3. at[l] \notin InFetch /\ "dead" \notin InFetch
  BY <1>1 DEF InFetch
<1>4. /\ none \in Seq(1..Total) /\ queue' = queue \o none /\ enqueued' = enqueued + Len(none)
      /\ none = <<>>
  BY <1>1, <1>2
<1>5. fetching' = fetching - (IF at[l] \in InFetch THEN 1 ELSE 0)
                   + (IF "dead" \in InFetch THEN 1 ELSE 0)
  BY <1>1, <1>2, <1>3
<1> HIDE DEF none
<1>6. QueueInv' /\ UNCHANGED S!vars
  BY <1>1, <1>2, <1>3, <1>4, <1>5, LaneMoves
<1> QED BY <1>6 DEF Seen

LEMMA FetchFailsDoes ==
  ASSUME QueueInv, NEW l \in Lanes, FetchFails(l)
  PROVE  QueueInv' /\ Seen
<1> DEFINE none == <<>>
<1>1. /\ at[l] = "fetching" /\ at' = [at EXCEPT ![l] = "delayed"] /\ fetching' = fetching - 1
      /\ retries' = IF retries = 0 THEN 0 ELSE retries - 1
      /\ UNCHANGED <<setting, items, queue, waiting, iterations, enqueued, processed, outcome, handed>>
  BY DEF FetchFails
<1>2. /\ fetching \in Nat /\ retries \in Nat /\ enqueued \in Nat /\ waiting \in BOOLEAN
      /\ queue \in Seq(1..Total) /\ retries' \in Nat
  BY <1>1 DEF QueueInv, QueueTypes
<1>3. at[l] \in InFetch /\ "delayed" \notin InFetch
  BY <1>1 DEF InFetch
<1>4. /\ none \in Seq(1..Total) /\ queue' = queue \o none /\ enqueued' = enqueued + Len(none)
      /\ none = <<>>
  BY <1>1, <1>2
<1>5. fetching' = fetching - (IF at[l] \in InFetch THEN 1 ELSE 0)
                   + (IF "delayed" \in InFetch THEN 1 ELSE 0)
  BY <1>1, <1>2, <1>3
<1> HIDE DEF none
<1>6. QueueInv' /\ UNCHANGED S!vars
  BY <1>1, <1>2, <1>3, <1>4, <1>5, LaneMoves
<1> QED BY <1>6 DEF Seen

\* A lane that brings data, or nothing when it has waited, and stores it.
LEMMA StoreDoes ==
  ASSUME QueueInv, NEW l \in Lanes, at[l] \in {"fetching", "waiting"},
         NEW data \in Seq(1..Total), enqueued' = enqueued + Len(data),
         queue' = queue \o data, at' = [at EXCEPT ![l] = "stored"],
         UNCHANGED <<items, iterations, handed>>, waiting' \in BOOLEAN,
         UNCHANGED <<setting, fetching, retries, processed, outcome>>
  PROVE  QueueInv' /\ Seen
<1>1. fetching \in Nat /\ retries \in Nat /\ at \in [Lanes -> Places]
  BY DEF QueueInv, QueueTypes
<1>2. at[l] \in InFetch /\ "stored" \in InFetch
  BY DEF InFetch
<1>3. fetching > 0
  BY <1>1, <1>2, OneLane DEF QueueInv, CountersAgree
<1>4. outcome = "no"
  BY <1>1, <1>3 DEF QueueInv, EndKept
<1>5. fetching' = fetching - (IF at[l] \in InFetch THEN 1 ELSE 0)
                   + (IF "stored" \in InFetch THEN 1 ELSE 0)
  BY <1>1, <1>2
<1>6. QueueInv' /\ UNCHANGED S!vars
  BY <1>1, <1>2, <1>4, <1>5, LaneMoves
<1> QED BY <1>6 DEF Seen

LEMMA WaitForDoes ==
  ASSUME QueueInv, NEW l \in Lanes, at[l] \in {"fetching", "waiting"},
         NEW data \in Seq(1..Total), enqueued' = enqueued + Len(data),
         WaitFor(l, queue \o data),
         UNCHANGED <<setting, fetching, retries, processed, outcome>>
  PROVE  QueueInv' /\ Seen
<1>1. waiting' \in BOOLEAN
  BY DEF WaitFor
<1>2. CASE Len(queue \o data) <= setting.limit
  <2>1. /\ queue' = queue \o data /\ at' = [at EXCEPT ![l] = "stored"]
        /\ UNCHANGED <<items, iterations, handed>>
    <3>1. Len(queue \o data) \in Nat /\ setting.limit \in Nat
      BY SettingTyped DEF QueueInv, QueueTypes
    <3> QED BY <1>2, <3>1 DEF WaitFor
  <2> QED BY <1>1, <2>1, StoreDoes
<1>3. CASE ~ Len(queue \o data) <= setting.limit
  <2> DEFINE k == CHOOSE m \in FreeLanes : TRUE
  <2>1. FreeLanes # {} /\ Data(k, queue \o data, [at EXCEPT ![l] = "waiting"], iterations)
    BY <1>3 DEF WaitFor
  <2>2. k \in FreeLanes
    BY <2>1
  <2> HIDE DEF k
  <2>3. k \in Lanes /\ at[k] = "free" /\ at[l] \in InFetch
    BY <2>2 DEF FreeLanes, InFetch
  <2>4. queue \o data \in Seq(1..Total) /\ iterations \in Nat
    BY DEF QueueInv, QueueTypes
  <2>5. PICK x, c : DataGoes(k, x, c, queue \o data, [at EXCEPT ![l] = "waiting"], iterations)
    BY <2>1, <2>3, <2>4, DataDoes DEF QueueInv
  <2> QED BY <1>1, <2>3, <2>5, WaitGoes DEF Seen
<1> QED BY <1>2, <1>3

LEMMA EnqueueDoes ==
  ASSUME QueueInv, NEW l \in Lanes, NEW data \in Seq(1..Total), Enqueue(l, data)
  PROVE  QueueInv' /\ Seen
<1>1. /\ at[l] \in {"fetching", "waiting"} /\ enqueued' = enqueued + Len(data)
      /\ UNCHANGED <<setting, fetching, retries, processed, outcome>>
  BY DEF Enqueue
<1>2. CASE WaitFor(l, queue \o data)
  BY <1>1, <1>2, WaitForDoes
<1>3. CASE /\ queue' = queue \o data /\ at' = [at EXCEPT ![l] = "stored"]
           /\ UNCHANGED <<items, waiting, iterations, handed>>
  <2>1. waiting' \in BOOLEAN
    BY <1>3 DEF QueueInv, QueueTypes
  <2> QED BY <1>1, <1>3, <2>1, StoreDoes
<1> QED BY <1>2, <1>3 DEF Enqueue

LEMMA WaitDoes ==
  ASSUME QueueInv, NEW l \in Lanes, Wait(l)
  PROVE  QueueInv' /\ Seen
<1> DEFINE none == <<>>
<1>1. /\ at[l] \in {"fetching", "waiting"} /\ WaitFor(l, queue)
      /\ UNCHANGED <<setting, fetching, retries, enqueued, processed, outcome>>
  BY DEF Wait
<1>2. none \in Seq(1..Total) /\ queue \o none = queue /\ enqueued + Len(none) = enqueued
  BY DEF QueueInv, QueueTypes
<1> HIDE DEF none
<1> QED BY <1>1, <1>2, WaitForDoes

LEMMA StaysDoes ==
  ASSUME QueueInv, UNCHANGED queueVars
  PROVE  QueueInv' /\ Seen
<1>1. Load' = Load
  BY DEF queueVars, Load
<1>2. Working(at') = Working(at) /\ Fetching(at') = Fetching(at)
  BY DEF queueVars
<1> QED BY <1>1, <1>2
        DEF queueVars, QueueInv, QueueTypes, CountersAgree, AllCounted, StartsAlone, EndKept, Seen, S!vars

-----------------------------------------------------------------------------
\* The reader

LEMMA PageTyped ==
  ASSUME NEW from \in Nat, NEW n \in Nat
  PROVE  /\ Page(from, n) \in Seq(1..Total)
         /\ Len(Page(from, n)) = IF from + n <= Total THEN n
                                 ELSE IF from <= Total THEN Total - from ELSE 0
         /\ \A k \in 1..Len(Page(from, n)) : Page(from, n)[k] = from + k
<1> DEFINE len == Max({0, Min({n, Total - from})})
<1>1. Total \in Nat
  BY ReadersAssumption
<1>2. Min({n, Total - from}) = IF n <= Total - from THEN n ELSE Total - from
  BY <1>1, MinOfTwo
<1>3. len = IF 0 >= Min({n, Total - from}) THEN 0 ELSE Min({n, Total - from})
  BY <1>1, <1>2, MaxOfTwo
<1>4. /\ len \in Nat
      /\ len = IF from + n <= Total THEN n ELSE IF from <= Total THEN Total - from ELSE 0
  BY <1>1, <1>2, <1>3
<1>5. \A k \in 1..len : from + k \in 1..Total
  <2>1. len > 0 => from + len <= Total
    BY <1>1, <1>4
  <2> HIDE DEF len
  <2> QED BY <1>1, <1>4, <2>1
<1>6. Page(from, n) = [k \in 1..len |-> from + k]
  BY DEF Page
<1> HIDE DEF len
<1>7. Page(from, n) \in Seq(1..Total) /\ Len(Page(from, n)) = len
  <2>1. Page(from, n) \in [1..len -> 1..Total]
    BY <1>5, <1>6
  <2>2. Page(from, n) \in Seq(1..Total)
    <3>1. len \in Nat
      BY <1>4
    <3>2. \A m \in Nat : [1..m -> 1..Total] \subseteq Seq(1..Total)
      BY SeqDef, Zenon
    <3> QED BY <2>1, <3>1, <3>2
  <2>3. DOMAIN Page(from, n) = 1..len
    BY <1>6
  <2> QED BY <1>4, <2>2, <2>3, LenProperties
<1> QED BY <1>4, <1>6, <1>7

LEMMA LimitTyped ==
  ASSUME QueueTypes, size \in Nat
  PROVE  Limit \in Nat /\ Limit <= setting.size
<1>1. setting.size \in Nat /\ setting.max \in Nat
  BY SettingTyped
<1>2. Limit = IF size < setting.max /\ size + setting.size > setting.max
              THEN setting.max - size ELSE setting.size
  BY DEF Limit
<1> QED BY <1>1, <1>2

LEMMA CallSet ==
  ASSUME NEW l \in Lanes, NEW next \in Call, call \in [Lanes -> Call], Calling(l, next)
  PROVE  call' \in [Lanes -> Call]
BY DEF Calling

LEMMA CallsTyped ==
  /\ NoCall \in Call /\ Counting \in Call /\ Querying \in Call
  /\ \A n \in Nat : Conditions(n) \in Call /\ Reading(n) \in Call
  /\ \A yes \in BOOLEAN : Answered(yes) \in Call
  /\ \A data \in Seq(1..Total) : Result(data) \in Call
  /\ offset \in Nat => \A n \in Nat : Finding(n) \in Call
BY DEF Call, NoCall, Counting, Querying, Conditions, Reading, Answered, Result, Finding

LEMMA CallFields ==
  ASSUME NEW c \in Call
  PROVE  /\ c.at = "conditions" => c.limit \in Nat
         /\ c.at = "finding" => c.limit \in Nat /\ c.offset \in Nat
         /\ c.at = "answered" => c.yes \in BOOLEAN
         /\ c.at = "page" => c.offset \in Nat
         /\ c.at = "result" => c.data \in Seq(1..Total)
BY DEF Call

LEMMA DecideTyped ==
  ASSUME QueueInv, ReaderTypes, NEW l \in Lanes, NEW n, Decide(l, n)
  PROVE  /\ more' \in BOOLEAN /\ call' \in [Lanes -> Call]
         /\ UNCHANGED <<offset, size, chunk>>
<1>1. more' = (more /\ (n > Uncounted => offset * setting.size < n))
      /\ Calling(l, Answered(more')) /\ UNCHANGED <<offset, size, chunk>>
  BY DEF Decide
<1>2. more' \in BOOLEAN
  BY <1>1 DEF ReaderTypes
<1>3. Answered(more') \in Call
  BY <1>2, CallsTyped
<1> QED BY <1>1, <1>2, <1>3, CallSet DEF ReaderTypes

LEMMA HasNextTyped ==
  ASSUME QueueInv, ReaderTypes, NEW l \in Lanes, HasNext(l)
  PROVE  ReaderTypes'
<1>1. CASE Calling(l, Counting) /\ UNCHANGED <<count, offset, size, more, chunk>>
  BY <1>1, CallsTyped, CallSet DEF ReaderTypes
<1>2. CASE Decide(l, count) /\ UNCHANGED count
  BY <1>2, DecideTyped DEF ReaderTypes
<1>3. CASE /\ count' = IF setting.max > 0 /\ count > setting.max THEN setting.max ELSE count
           /\ Calling(l, Conditions(Limit)) /\ UNCHANGED <<offset, size, more, chunk>>
  <2>1. Limit \in Nat /\ setting.max \in Nat
    BY LimitTyped, SettingTyped DEF QueueInv, ReaderTypes
  <2>2. count' \in {Unknown, Uncounted} \cup Nat
    BY <1>3, <2>1 DEF ReaderTypes
  <2>3. call' \in [Lanes -> Call]
    BY <1>3, <2>1, CallsTyped, CallSet DEF ReaderTypes
  <2> QED BY <1>3, <2>2, <2>3 DEF ReaderTypes
<1> QED BY <1>1, <1>2, <1>3 DEF HasNext

LEMMA ReaderInit ==
  ASSUME Init
  PROVE  ReaderInv /\ S!Init
<1>1. QueueInit
  BY DEF Init
<1>2. \A l \in Lanes : at[l] = "start" \/ at[l] = "free"
  BY <1>1 DEF QueueInit
<1>3. iterations = 0 /\ fetching = 0 /\ CountersAgree
  <2>1. Working(at) = {} /\ Fetching(at) = {}
    BY <1>2 DEF Working, Fetching, InFetch
  <2> QED BY <1>1, <2>1, FS_EmptySet DEF QueueInit, CountersAgree
<1>4. setting \in Settings /\ setting.retries \in Nat /\ setting.concurrency > 0
  BY <1>1, QueueAssumption DEF QueueInit
<1>5. QueueTypes
  <2>1. at \in [Lanes -> Places] /\ items \in [Lanes -> Seq(1..Total)]
    BY <1>1 DEF QueueInit, Places
  <2>2. queue = <<>> /\ handed = <<>> /\ waiting = FALSE /\ retries = setting.retries
        /\ enqueued = 0 /\ processed = 0 /\ outcome = "no"
    BY <1>1 DEF QueueInit
  <2>3. <<>> \in Seq(1..Total)
    OBVIOUS
  <2>4. {fetching, iterations, retries, enqueued, processed} \subseteq Nat
    BY <1>3, <1>4, <2>2
  <2> QED BY <1>4, <2>1, <2>2, <2>3, <2>4 DEF QueueTypes
<1>6. AllCounted
  <2>1. \A l \in Lanes : Load[l] = 0
    BY <1>2 DEF Load
  <2>2. AddUp(Load, 0)
    BY <2>1, NoLoadAddsUp
  <2>3. Len(handed) = 0 /\ Len(queue) = 0 /\ enqueued = 0 /\ processed = 0
    BY <1>1 DEF QueueInit
  <2>4. enqueued = Len(handed) + Len(queue) /\ processed <= Len(handed) /\ Len(handed) - processed = 0
    BY <2>3
  <2>5. \A l \in Lanes : at[l] = "working" => items[l] # <<>>
    BY <1>2
  <2> QED BY <2>2, <2>4, <2>5 DEF AllCounted
<1>7. StartsAlone
  BY <1>1 DEF QueueInit, StartsAlone
<1>8. EndKept
  BY <1>1 DEF QueueInit, EndKept
<1>9. ReaderTypes
  <2>1. /\ call = [l \in Lanes |-> NoCall] /\ count = Unknown /\ offset = 0 /\ size = 0
        /\ more = TRUE /\ chunk = <<>>
    BY DEF Init
  <2> QED BY <2>1, CallsTyped DEF ReaderTypes
<1>10. S!Init
  BY <1>1, <1>3, <1>4 DEF S!Init, QueueInit
<1> QED BY <1>3, <1>5, <1>6, <1>7, <1>8, <1>9, <1>10 DEF ReaderInv, QueueInv

\* Each step of a lane is one of the queue, or of the reader alone.
LEMMA LaneDoes ==
  ASSUME ReaderInv, NEW l \in Lanes, Lane(l)
  PROVE  ReaderInv' /\ Seen
<1> USE DEF ReaderInv
<1>1. /\ call \in [Lanes -> Call] /\ offset \in Nat /\ size \in Nat /\ more \in BOOLEAN
      /\ chunk \in Seq(1..Total) /\ count \in {Unknown, Uncounted} \cup Nat
  BY DEF ReaderTypes
<1>2. setting.size \in Nat \ {0} /\ Total \in Nat
  BY SettingTyped, ReadersAssumption DEF QueueInv
<1>3. CASE Counted(l)
  <2>1. UNCHANGED queueVars /\ Decide(l, count') /\ count' \in {Total, Uncounted}
    BY <1>3 DEF Counted
  <2>2. QueueInv' /\ Seen
    BY <2>1, StaysDoes
  <2>3. ReaderTypes'
    BY <1>1, <1>2, <2>1, DecideTyped DEF ReaderTypes
  <2> QED BY <2>2, <2>3
<1>4. CASE Find(l)
  <2> DEFINE next == IF more' THEN Finding(call[l].limit) ELSE Answered(FALSE)
  <2>1. /\ call[l].at = "conditions" /\ more' = (count = Unknown \/ size < count)
        /\ Calling(l, next)
        /\ UNCHANGED <<queueVars, count, offset, size, chunk>>
    BY <1>4 DEF Find
  <2>2. next \in Call
    BY <1>1, <2>1, CallFields, CallsTyped
  <2>3. more' \in BOOLEAN
    BY <2>1
  <2> HIDE DEF next
  <2>4. ReaderTypes'
    BY <1>1, <2>1, <2>2, <2>3, CallSet DEF ReaderTypes
  <2>5. QueueInv' /\ Seen
    BY <2>1, StaysDoes
  <2> QED BY <2>4, <2>5
<1>5. CASE Found(l)
  <2> DEFINE page == Page(call[l].offset, call[l].limit)
  <2>1. /\ call[l].at = "finding" /\ chunk' = page /\ size' = size + Len(page)
        /\ offset' = call[l].offset + setting.size /\ count' = Total
        /\ Calling(l, Answered(more)) /\ UNCHANGED <<queueVars, more>>
    BY <1>5 DEF Found
  <2>2. call[l].offset \in Nat /\ page \in Seq(1..Total)
    BY <1>1, <2>1, CallFields, PageTyped
  <2> HIDE DEF page
  <2>3. Answered(more) \in Call
    BY <1>1, CallsTyped
  <2>4. size' \in Nat /\ offset' \in Nat
    BY <1>1, <1>2, <2>1, <2>2
  <2>5. ReaderTypes'
    BY <1>1, <1>2, <2>1, <2>2, <2>3, <2>4, CallSet DEF ReaderTypes
  <2>6. QueueInv' /\ Seen
    BY <2>1, StaysDoes
  <2> QED BY <2>5, <2>6
<1>6. ASSUME Calling(l, NoCall), UNCHANGED <<count, offset, size, more, chunk>>
      PROVE  ReaderTypes'
  BY <1>1, <1>6, CallsTyped, CallSet DEF ReaderTypes
<1>7. CASE FindFails(l)
  BY <1>6, <1>7, AnswerFailsDoes DEF FindFails
<1>8. CASE Query(l)
  <2>1. /\ Calling(l, Reading(offset * setting.size))
        /\ UNCHANGED <<queueVars, count, offset, size, more, chunk>>
    BY <1>8 DEF Query
  <2>2. offset * setting.size \in Nat
    BY <1>1, <1>2
  <2>3. ReaderTypes'
    BY <1>1, <2>1, <2>2, CallsTyped, CallSet DEF ReaderTypes
  <2>4. QueueInv' /\ Seen
    BY <2>1, StaysDoes
  <2> QED BY <2>3, <2>4
<1>9. CASE Read(l)
  <2> DEFINE page == Page(call[l].offset, setting.size)
  <2>1. /\ call[l].at = "page" /\ more' = (more /\ page # <<>>) /\ Calling(l, Result(page))
        /\ offset' = offset + 1 /\ UNCHANGED <<queueVars, count, size, chunk>>
    BY <1>9 DEF Read
  <2>2. page \in Seq(1..Total)
    BY <1>1, <1>2, <2>1, CallFields, PageTyped
  <2> HIDE DEF page
  <2>3. more' \in BOOLEAN /\ offset' \in Nat
    BY <1>1, <2>1
  <2>4. Result(page) \in Call
    BY <2>2, CallsTyped
  <2>5. ReaderTypes'
    BY <1>1, <2>1, <2>3, <2>4, CallSet DEF ReaderTypes
  <2>6. QueueInv' /\ Seen
    BY <2>1, StaysDoes
  <2> QED BY <2>5, <2>6
<1>10. CASE ReadFails(l)
  BY <1>6, <1>10, FetchFailsDoes DEF ReadFails
<1>11. CASE Deliver(l)
  <2>1. call[l].data \in Seq(1..Total) /\ Enqueue(l, call[l].data)
    BY <1>1, <1>11, CallFields DEF Deliver
  <2>2. QueueInv' /\ Seen
    BY <2>1, EnqueueDoes
  <2> QED BY <1>6, <1>11, <2>2 DEF Deliver
<1>12. CASE Hear(l)
  <2> DEFINE next == IF at'[l] # "fetching" THEN NoCall
                     ELSE IF setting.kind = "query" THEN Querying ELSE Result(chunk)
  <2>1. /\ Answer(l, call[l].yes) \/ AnswerLate(l)
        /\ Calling(l, next) /\ UNCHANGED <<count, offset, size, more, chunk>>
    BY <1>12 DEF Hear
  <2>2. next \in Call
    BY <1>1, CallsTyped
  <2> HIDE DEF next
  <2>3. ReaderTypes'
    BY <1>1, <2>1, <2>2, CallSet DEF ReaderTypes
  <2>4. QueueInv' /\ Seen
    BY <2>1, AnswerDoes, AnswerLateDoes
  <2> QED BY <2>3, <2>4
<1>13. CASE Proceed(l)
  <2>1. QueueInv' /\ Seen
    BY <1>13, RunGoes, StoredGoes, RetryGoes, WorkedGoes, LaneGoesDoes DEF Proceed
  <2>2. ReaderTypes'
    <3>1. HasNext(l) \/ UNCHANGED readerVars
      BY <1>13 DEF Proceed
    <3>2. CASE HasNext(l)
      BY <3>2, HasNextTyped
    <3>3. CASE UNCHANGED readerVars
      BY <3>3 DEF readerVars, ReaderTypes
    <3> QED BY <3>1, <3>2, <3>3
  <2> QED BY <2>1, <2>2
<1>14. CASE Poll(l)
  <2>1. Wait(l) /\ UNCHANGED readerVars
    BY <1>14 DEF Poll
  <2> QED BY <2>1, WaitDoes DEF readerVars, ReaderTypes
<1> QED BY <1>3, <1>4, <1>5, <1>7, <1>8, <1>9, <1>10, <1>11, <1>12, <1>13, <1>14 DEF Lane

LEMMA ReaderStep ==
  ASSUME ReaderInv, [Next]_vars
  PROVE  ReaderInv' /\ Seen
<1>1. CASE Next
  BY <1>1, LaneDoes DEF Next
<1>2. CASE UNCHANGED vars
  <2>1. UNCHANGED queueVars /\ UNCHANGED readerVars
    BY <1>2 DEF vars
  <2> QED BY <2>1, StaysDoes DEF readerVars, ReaderTypes, ReaderInv
<1> QED BY <1>1, <1>2

\* The counters of the queue are right in every reachable state, and its variables typed.
THEOREM ReaderInvariant == Spec => []ReaderInv
<1>1. Init => ReaderInv
  BY ReaderInit
<1>2. ReaderInv /\ [Next]_vars => ReaderInv'
  BY ReaderStep
<1> QED BY <1>1, <1>2, PTL DEF Spec

THEOREM Types == Spec => []TypeInvariant
<1>1. ReaderInv => TypeInvariant
  BY DEF ReaderInv, QueueInv, QueueTypes, ReaderTypes, TypeInvariant, Places
<1> QED BY <1>1, ReaderInvariant, PTL

\* Success is told only when everything that was fetched is processed (_finish, next).
THEOREM Finished == Spec => []FinishedIsDone
<1>1. ReaderInv => FinishedIsDone
  <2> SUFFICES ASSUME ReaderInv, outcome = "ok"
               PROVE  /\ queue = <<>> /\ processed = Len(handed)
                      /\ \A l \in Lanes : at[l] \notin {"working", "fetching", "stored", "waiting"}
    BY DEF FinishedIsDone
  <2>1. /\ queue = <<>> /\ processed = Len(handed) /\ iterations = 0 /\ fetching = 0
        /\ CountersAgree /\ at \in [Lanes -> Places]
    BY DEF ReaderInv, QueueInv, EndKept, QueueTypes
  <2>2. ASSUME NEW l \in Lanes PROVE at[l] \notin {"working", "fetching", "stored", "waiting"}
    <3>1. at[l] # "working" /\ at[l] \notin InFetch
      BY <2>1, OneLane DEF CountersAgree
    <3> QED BY <3>1 DEF InFetch
  <2> QED BY <2>1, <2>2
<1> QED BY <1>1, ReaderInvariant, PTL

\* To its pipeline the reader is a Stream: no more chunks in process than concurrency
\* says, success only when none is, and nothing handed on after the end.
THEOREM Implementation == Spec => ImplementsStream
<1>1. Init => S!Init
  BY ReaderInit
<1>2. ReaderInv /\ [Next]_vars => [S!Next]_S!vars
  BY ReaderStep DEF Seen
<1> QED BY <1>1, <1>2, ReaderInvariant, PTL DEF Spec, ImplementsStream, S!Spec

-----------------------------------------------------------------------------
\* One lane

\* As long as a page fits the queue only the lane 1 runs, and it asks and fetches while
\* the queue is short.
AskingCalls == {"counting", "conditions", "finding", "answered"}
FetchingCalls == {"query", "page", "result"}

Alone ==
  /\ \A l \in Lanes \ {1} : at[l] = "free" /\ call[l] = NoCall
  /\ ~waiting /\ at[1] # "waiting"
  /\ call[1].at \in AskingCalls <=> at[1] = "asking"
  /\ call[1].at \in FetchingCalls <=> at[1] = "fetching"
  /\ at[1] \in {"asking", "fetching"} => Len(queue) < setting.flush
  /\ outcome # "no" => at[1] = "free"

\* How far the reader has come: Page cuts it at Total.
Taken == IF setting.kind = "query" THEN offset * setting.size ELSE size

\* The records that it has taken and the queue does not have yet.
Pending ==
  IF call[1].at = "result" THEN call[1].data
  ELSE IF setting.kind = "controller" /\ call[1].at = "answered" /\ call[1].yes THEN chunk
  ELSE <<>>

\* All that it has taken, in order.
TakenInOrder ==
  /\ (handed \o queue) \o Pending = Page(0, Taken)
  /\ Len(Pending) <= setting.size

\* A query reader says that there are no more records when it has taken all.
QueryReaderInv ==
  /\ call[1].at \notin {"conditions", "finding"}
  /\ count \in {Unknown, Uncounted, Total}
  /\ ~more => offset * setting.size >= Total
  /\ call[1].at = "answered" /\ ~call[1].yes => offset * setting.size >= Total
  /\ call[1].at = "page" => call[1].offset = offset * setting.size

\* What a controller reader has to take, and that it has.
Goal == IF setting.max > 0 /\ setting.max < Total THEN setting.max ELSE Total

\* A controller reader goes on where it was and stops at its goal.
ControllerReaderInv ==
  /\ call[1].at \notin {"counting", "query", "page"}
  /\ count \in {Unknown, Total, Goal}
  /\ count = Unknown => offset = 0 /\ size = 0
  /\ size <= Goal /\ (offset = size \/ size = Goal)
  /\ call[1].at = "answered" /\ ~call[1].yes => size = Goal
  /\ call[1].at \in {"conditions", "finding"} => call[1].limit = Limit /\ count \in {Unknown, Goal}
  /\ call[1].at = "finding" =>
        more /\ call[1].offset = offset /\ offset = size /\ (count = Unknown \/ size < Goal)

DeliveryInv ==
  Serial => /\ Alone /\ TakenInOrder
            /\ setting.kind = "query" => QueryReaderInv
            /\ setting.kind = "controller" => ControllerReaderInv
            /\ outcome = "ok" => handed = Wanted

-----------------------------------------------------------------------------
\* Pages follow one another

LEMMA FirstPage ==
  ASSUME NEW n \in Nat
  PROVE  /\ Page(0, n) \in Seq(1..Total)
         /\ Len(Page(0, n)) = IF n <= Total THEN n ELSE Total
         /\ \A k \in 1..Len(Page(0, n)) : Page(0, n)[k] = k
<1>1. Total \in Nat /\ 0 \in Nat /\ 0 + n = n /\ 0 <= Total /\ Total - 0 = Total
  BY ReadersAssumption
<1>2. /\ Page(0, n) \in Seq(1..Total)
      /\ Len(Page(0, n)) = IF 0 + n <= Total THEN n ELSE IF 0 <= Total THEN Total - 0 ELSE 0
      /\ \A k \in 1..Len(Page(0, n)) : Page(0, n)[k] = 0 + k
  BY <1>1, PageTyped
<1>3. \A k \in 1..Len(Page(0, n)) : 0 + k = k
  BY <1>2
<1>4. Len(Page(0, n)) = IF n <= Total THEN n ELSE Total
  BY <1>1, <1>2
<1> QED BY <1>2, <1>3, <1>4

LEMMA PagesJoin ==
  ASSUME NEW n \in Nat, NEW m \in Nat
  PROVE  Page(0, n) \o Page(n, m) = Page(0, n + m)
<1> DEFINE a == Page(0, n)
           b == Page(n, m)
           c == Page(0, n + m)
<1>1. Total \in Nat
  BY ReadersAssumption
<1>2. /\ a \in Seq(1..Total) /\ Len(a) = (IF n <= Total THEN n ELSE Total)
      /\ \A k \in 1..Len(a) : a[k] = k
  BY FirstPage
<1>3. /\ b \in Seq(1..Total)
      /\ Len(b) = (IF n + m <= Total THEN m ELSE IF n <= Total THEN Total - n ELSE 0)
      /\ \A k \in 1..Len(b) : b[k] = n + k
  BY PageTyped
<1>4. /\ c \in Seq(1..Total) /\ Len(c) = (IF n + m <= Total THEN n + m ELSE Total)
      /\ \A k \in 1..Len(c) : c[k] = k
  <2>1. n + m \in Nat
    OBVIOUS
  <2> QED BY <2>1, FirstPage
<1> HIDE DEF a, b, c
<1>5. a \o b \in Seq(1..Total) /\ Len(a \o b) = Len(a) + Len(b)
      /\ \A k \in 1..Len(a) + Len(b) : (a \o b)[k] = IF k <= Len(a) THEN a[k] ELSE b[k - Len(a)]
  BY <1>2, <1>3, ConcatProperties
<1>6. Len(a) + Len(b) = Len(c) /\ Len(a) \in Nat /\ Len(b) \in Nat
  BY <1>1, <1>2, <1>3, <1>4
<1>7. ASSUME NEW k \in 1..Len(c) PROVE (a \o b)[k] = c[k]
  <2>1. CASE k <= Len(a)
    <3>1. k \in 1..Len(a) /\ k \in 1..Len(a) + Len(b)
      BY <1>6, <2>1
    <3> QED BY <1>2, <1>4, <1>5, <2>1, <3>1
  <2>2. CASE k > Len(a)
    <3>1. k - Len(a) \in 1..Len(b)
      BY <1>6, <2>2
    <3>2. n = Len(a)
      BY <1>1, <1>2, <1>3, <1>6, <3>1
    <3> QED BY <1>3, <1>4, <1>5, <1>6, <2>2, <3>1, <3>2
  <2> QED BY <1>6, <2>1, <2>2
<1>8. a \o b = c
  BY <1>4, <1>5, <1>6, <1>7, SeqEqual
<1> QED BY <1>8 DEF a, b, c

LEMMA PageEnds ==
  ASSUME NEW n \in Nat, NEW m \in Nat, n >= Total, m >= Total
  PROVE  Page(0, n) = Page(0, m)
<1>1. Total \in Nat
  BY ReadersAssumption
<1>2. Len(Page(0, n)) = Total /\ Len(Page(0, m)) = Total
  BY <1>1, FirstPage
<1>3. \A k \in 1..Total : Page(0, n)[k] = k /\ Page(0, m)[k] = k
  BY <1>2, FirstPage
<1>4. Page(0, n) \in Seq(1..Total) /\ Page(0, m) \in Seq(1..Total)
  BY FirstPage
<1> QED BY <1>2, <1>3, <1>4, SeqEqual

\* Wanted and what the reader has taken when it has all.
LEMMA WantedIs ==
  ASSUME QueueTypes
  PROVE  /\ Goal \in Nat /\ Goal <= Total
         /\ setting.kind = "query" => Wanted = Page(0, Total)
         /\ setting.kind = "controller" => Wanted = Page(0, Goal)
<1>1. Total \in Nat /\ setting.max \in Nat
  BY SettingTyped, ReadersAssumption
<1>2. Goal \in Nat /\ Goal <= Total
  BY <1>1 DEF Goal
<1>3. setting.kind = "query" => Wanted = Page(0, Total)
  BY DEF Wanted
<1>4. ASSUME setting.kind = "controller" PROVE Wanted = Page(0, Goal)
  <2>1. CASE setting.max > 0 /\ setting.max < Total
    BY <1>4, <2>1 DEF Wanted, Goal
  <2>2. CASE setting.max > 0 /\ ~ setting.max < Total
    <3>1. setting.max >= Total /\ Total >= Total
      BY <1>1, <2>2
    <3>2. Wanted = Page(0, setting.max) /\ Goal = Total
      BY <1>4, <2>2 DEF Wanted, Goal
    <3> QED BY <1>1, <3>1, <3>2, PageEnds
  <2>3. CASE ~ setting.max > 0
    BY <1>4, <2>3 DEF Wanted, Goal
  <2> QED BY <2>1, <2>2, <2>3
<1> QED BY <1>2, <1>3, <1>4

LEMMA KindTyped ==
  ASSUME QueueTypes
  PROVE  setting.kind \in {"query", "controller"}
BY ReadersAssumption DEF QueueTypes

LEMMA TakenTyped ==
  ASSUME ReaderInv
  PROVE  Taken \in Nat
<1>1. setting.size \in Nat /\ offset \in Nat /\ size \in Nat
  BY SettingTyped DEF ReaderInv, QueueInv, ReaderTypes
<1> QED BY <1>1 DEF Taken

LEMMA PendingTyped ==
  ASSUME ReaderInv
  PROVE  Pending \in Seq(1..Total)
<1>1. call[1] \in Call /\ chunk \in Seq(1..Total)
  BY LanesCounted DEF ReaderInv, ReaderTypes
<1>2. call[1].at = "result" => call[1].data \in Seq(1..Total)
  BY <1>1, CallFields
<1>3. <<>> \in Seq(1..Total)
  OBVIOUS
<1> QED BY <1>1, <1>2, <1>3 DEF Pending

\* What is handed on and queued is a beginning of what is wanted.
LEMMA InOrder ==
  ASSUME ReaderInv, DeliveryInv
  PROVE  DeliveredOnce
<1> SUFFICES ASSUME Serial
             PROVE  IsPrefix(handed \o queue, Wanted) /\ (outcome = "ok" => handed = Wanted)
  BY DEF DeliveredOnce
<1>1. /\ TakenInOrder
      /\ setting.kind = "controller" => ControllerReaderInv
      /\ outcome = "ok" => handed = Wanted
  BY DEF DeliveryInv
<1>2. /\ handed \in Seq(1..Total) /\ queue \in Seq(1..Total) /\ QueueTypes
      /\ Taken \in Nat /\ Pending \in Seq(1..Total) /\ Total \in Nat
  BY TakenTyped, PendingTyped, ReadersAssumption DEF ReaderInv, QueueInv, QueueTypes
<1>3. handed \o queue \in Seq(1..Total)
  BY <1>2, LongerHasPrefix
<1>4. ASSUME NEW n \in Nat, Wanted = Page(0, n), Taken <= n \/ n = Total
      PROVE  \E rest \in Seq(1..Total) : Wanted = Page(0, Taken) \o rest
  <2>1. CASE Taken <= n
    <3>1. n - Taken \in Nat /\ Taken + (n - Taken) = n
      BY <1>2, <1>4, <2>1
    <3>2. Page(0, Taken) \o Page(Taken, n - Taken) = Page(0, n) /\ Page(Taken, n - Taken) \in Seq(1..Total)
      BY <1>2, <3>1, PagesJoin, PageTyped
    <3> QED BY <1>4, <3>2
  <2>2. CASE ~ Taken <= n
    <3>1. n >= Total /\ Taken >= Total
      BY <1>2, <1>4, <2>2
    <3>2. Page(0, n) = Page(0, Taken)
      BY <1>2, <1>4, <3>1, PageEnds
    <3>3. Page(0, Taken) \o <<>> = Page(0, Taken) /\ <<>> \in Seq(1..Total)
      BY <1>2, PageTyped
    <3> QED BY <1>4, <3>2, <3>3
  <2> QED BY <2>1, <2>2
<1>5. \E rest \in Seq(1..Total) : Wanted = Page(0, Taken) \o rest
  <2>1. CASE setting.kind = "query"
    BY <1>2, <1>4, <2>1, WantedIs
  <2>2. CASE setting.kind = "controller"
    <3>1. Taken = size
      BY <2>2 DEF Taken
    <3>2. size <= Goal
      BY <1>1, <2>2 DEF ControllerReaderInv
    <3>3. Goal \in Nat /\ Wanted = Page(0, Goal)
      BY <1>2, <2>2, WantedIs
    <3> QED BY <1>2, <1>4, <3>1, <3>2, <3>3
  <2> QED BY <1>2, <2>1, <2>2, KindTyped
<1>6. PICK rest \in Seq(1..Total) : Wanted = Page(0, Taken) \o rest
  BY <1>5
<1>7. Wanted = (handed \o queue) \o (Pending \o rest)
  <2> DEFINE got == handed \o queue
  <2>1. got \in Seq(1..Total) /\ Pending \in Seq(1..Total) /\ rest \in Seq(1..Total)
    BY <1>2, <1>3
  <2>2. got \o Pending = Page(0, Taken)
    BY <1>1 DEF TakenInOrder
  <2> HIDE DEF got
  <2>3. (got \o Pending) \o rest = got \o (Pending \o rest)
    BY <2>1, ConcatAssociative
  <2>4. Wanted = got \o (Pending \o rest)
    BY <1>6, <2>2, <2>3
  <2> QED BY <2>4 DEF got
<1>8. Pending \o rest \in Seq(1..Total)
  BY <1>2, LongerHasPrefix
<1> QED BY <1>1, <1>3, <1>7, <1>8, LongerHasPrefix

-----------------------------------------------------------------------------
\* The one lane goes on

LEMMA AloneMoves ==
  ASSUME ReaderInv, Alone, NEW x, NEW next, Calling(1, next), at' = [at EXCEPT ![1] = x],
         ~waiting', x # "waiting",
         next.at \in AskingCalls <=> x = "asking",
         next.at \in FetchingCalls <=> x = "fetching",
         x \in {"asking", "fetching"} => Len(queue') < setting'.flush,
         outcome' # "no" => x = "free"
  PROVE  Alone' /\ call'[1] = next
<1>1. 1 \in Lanes /\ call \in [Lanes -> Call] /\ at \in [Lanes -> Places]
  BY LanesCounted DEF ReaderInv, QueueInv, QueueTypes, ReaderTypes
<1>2. /\ call'[1] = next /\ \A l \in Lanes \ {1} : call'[l] = call[l]
      /\ at'[1] = x /\ \A l \in Lanes \ {1} : at'[l] = at[l]
  BY <1>1 DEF Calling
<1> QED BY <1>2 DEF Alone

\* The call goes on and the queue stays.
LEMMA AloneStays ==
  ASSUME ReaderInv, Alone, UNCHANGED queueVars, NEW next, Calling(1, next),
         next.at \in AskingCalls <=> call[1].at \in AskingCalls,
         next.at \in FetchingCalls <=> call[1].at \in FetchingCalls
  PROVE  Alone' /\ call'[1] = next
<1>1. 1 \in Lanes /\ at \in [Lanes -> Places]
  BY LanesCounted DEF ReaderInv, QueueInv, QueueTypes
<1>2. at' = [at EXCEPT ![1] = at[1]]
  BY <1>1 DEF queueVars
<1>3. /\ ~waiting' /\ at[1] # "waiting"
      /\ next.at \in AskingCalls <=> at[1] = "asking"
      /\ next.at \in FetchingCalls <=> at[1] = "fetching"
      /\ at[1] \in {"asking", "fetching"} => Len(queue') < setting'.flush
      /\ outcome' # "no" => at[1] = "free"
  BY DEF Alone, queueVars
<1> QED BY <1>2, <1>3, AloneMoves

LEMMA OrderKept ==
  ASSUME TakenInOrder, handed' \o queue' = handed \o queue, Pending' = Pending,
         Page(0, Taken') = Page(0, Taken), setting' = setting
  PROVE  TakenInOrder'
BY DEF TakenInOrder, Page

\* Nothing comes after what is taken when it is all.
LEMMA AllTaken ==
  ASSUME ReaderInv, handed = Page(0, Taken),
         setting.kind = "query" => Taken >= Total, setting.kind = "controller" => Taken = Goal
  PROVE  handed = Wanted
<1>1. Taken \in Nat /\ Total \in Nat /\ Total >= Total
  BY TakenTyped, ReadersAssumption
<1>2. CASE setting.kind = "query"
  <2>1. Wanted = Page(0, Total)
    BY <1>2, WantedIs DEF ReaderInv, QueueInv
  <2> QED BY <1>1, <1>2, <2>1, PageEnds
<1>3. CASE setting.kind = "controller"
  BY <1>3, WantedIs DEF ReaderInv, QueueInv
<1> QED BY <1>2, <1>3, KindTyped DEF ReaderInv, QueueInv

LEMMA CountedDelivers ==
  ASSUME ReaderInv, DeliveryInv, Serial, Counted(1)
  PROVE  DeliveryInv'
<1>1. /\ call[1].at = "counting" /\ count' \in {Total, Uncounted} /\ UNCHANGED queueVars
      /\ more' = (more /\ (count' > Uncounted => offset * setting.size < count'))
      /\ Calling(1, Answered(more')) /\ UNCHANGED <<offset, size, chunk>>
  BY DEF Counted, Decide
<1>2. /\ Alone /\ TakenInOrder /\ QueryReaderInv /\ setting.kind = "query"
      /\ outcome = "ok" => handed = Wanted
  BY <1>1, KindTyped DEF DeliveryInv, ControllerReaderInv, ReaderInv, QueueInv
<1>3. /\ setting' = setting /\ handed' = handed /\ queue' = queue /\ outcome' = outcome
  BY <1>1 DEF queueVars
<1>4. Alone' /\ call'[1] = Answered(more')
  BY <1>1, <1>2, AloneStays DEF Answered, AskingCalls, FetchingCalls
<1>5. TakenInOrder'
  <2>1. Pending = <<>> /\ Pending' = <<>>
    BY <1>1, <1>2, <1>3, <1>4 DEF Pending, Answered
  <2>2. Taken' = Taken
    BY <1>1, <1>3 DEF Taken
  <2> QED BY <1>2, <1>3, <2>1, <2>2, OrderKept
<1>6. QueryReaderInv'
  <2> DEFINE taken == offset * setting.size
  <2>1. setting.size \in Nat /\ offset \in Nat /\ Total \in Nat /\ taken \in Nat
    BY SettingTyped, ReadersAssumption DEF ReaderInv, QueueInv, ReaderTypes
  <2> HIDE DEF taken
  <2>2. ~more' => taken >= Total
    <3>1. more' = (more /\ (count' > Uncounted => taken < count')) /\ (~more => taken >= Total)
      BY <1>1, <1>2 DEF QueryReaderInv, taken
    <3>2. ASSUME ~more' PROVE ~more \/ (count' > Uncounted /\ ~ taken < count')
      BY <3>1, <3>2
    <3>3. count' > Uncounted /\ ~ taken < count' => taken >= Total
      BY <1>1, <2>1 DEF Uncounted
    <3> QED BY <3>1, <3>2, <3>3
  <2>3. call'[1].at = "answered" /\ call'[1].yes = more'
    BY <1>4 DEF Answered
  <2> QED BY <1>1, <1>3, <2>2, <2>3 DEF QueryReaderInv, taken
<1>7. outcome' = "ok" => handed' = Wanted'
  BY <1>2, <1>3 DEF Wanted, Page
<1> QED BY <1>2, <1>3, <1>4, <1>5, <1>6, <1>7 DEF DeliveryInv

LEMMA FindDelivers ==
  ASSUME ReaderInv, DeliveryInv, Serial, Find(1)
  PROVE  DeliveryInv'
<1> DEFINE next == IF more' THEN Finding(call[1].limit) ELSE Answered(FALSE)
<1>1. /\ call[1].at = "conditions" /\ more' = (count = Unknown \/ size < count)
      /\ Calling(1, next) /\ UNCHANGED queueVars
      /\ UNCHANGED <<count, offset, size, chunk>>
  BY DEF Find
<1>2. /\ Alone /\ TakenInOrder /\ ControllerReaderInv /\ setting.kind = "controller"
      /\ outcome = "ok" => handed = Wanted
  BY <1>1, KindTyped DEF DeliveryInv, QueryReaderInv, ReaderInv, QueueInv
<1>3. /\ setting' = setting /\ handed' = handed /\ queue' = queue /\ outcome' = outcome
  BY <1>1 DEF queueVars
<1>4. next.at = IF more' THEN "finding" ELSE "answered"
  BY DEF Finding, Answered
<1>5. Alone' /\ call'[1] = next
  <2> HIDE DEF next
  <2> QED BY <1>1, <1>2, <1>4, AloneStays DEF AskingCalls, FetchingCalls
<1>6. TakenInOrder'
  <2>1. Pending = <<>> /\ Pending' = <<>>
    BY <1>1, <1>2, <1>3, <1>5 DEF Pending, Finding, Answered
  <2>2. Taken' = Taken
    BY <1>1, <1>3 DEF Taken
  <2> QED BY <1>2, <1>3, <2>1, <2>2, OrderKept
<1>7. ControllerReaderInv'
  <2>1. size \in Nat /\ Goal \in Nat /\ Goal' = Goal /\ Limit' = Limit
    BY <1>1, <1>3, WantedIs DEF ReaderInv, QueueInv, ReaderTypes, Goal, Limit
  <2>2. /\ count \in {Unknown, Goal} /\ call[1].limit = Limit /\ size <= Goal
        /\ offset = size \/ size = Goal
        /\ count = Unknown => offset = 0 /\ size = 0
        /\ count \in {Unknown, Total, Goal}
    BY <1>1, <1>2 DEF ControllerReaderInv
  <2>3. CASE more'
    <3>1. call'[1].at = "finding" /\ call'[1].limit = Limit /\ call'[1].offset = offset
      BY <1>5, <2>2, <2>3 DEF Finding
    <3>2. count = Unknown \/ size < Goal
      BY <1>1, <2>2, <2>3
    <3>3. offset = size
      BY <2>1, <2>2, <3>2
    <3> QED BY <1>1, <2>1, <2>2, <2>3, <3>1, <3>2, <3>3 DEF ControllerReaderInv
  <2>4. CASE ~more'
    <3>1. call'[1].at = "answered"
      BY <1>5, <2>4 DEF Answered
    <3>2. count # Unknown /\ ~ size < count
      BY <1>1, <2>4
    <3>3. size = Goal
      BY <2>1, <2>2, <3>2
    <3> QED BY <1>1, <2>1, <2>2, <3>1, <3>3 DEF ControllerReaderInv
  <2> QED BY <2>3, <2>4
<1>8. outcome' = "ok" => handed' = Wanted'
  BY <1>2, <1>3 DEF Wanted, Page
<1> QED BY <1>2, <1>3, <1>5, <1>6, <1>7, <1>8 DEF DeliveryInv

LEMMA FoundDelivers ==
  ASSUME ReaderInv, DeliveryInv, Serial, Found(1)
  PROVE  DeliveryInv'
<1> DEFINE page == Page(call[1].offset, call[1].limit)
<1>1. /\ call[1].at = "finding" /\ chunk' = page /\ size' = size + Len(page)
      /\ offset' = call[1].offset + setting.size /\ count' = Total
      /\ Calling(1, Answered(more)) /\ UNCHANGED queueVars /\ more' = more
  BY DEF Found
<1>2. /\ Alone /\ TakenInOrder /\ ControllerReaderInv /\ setting.kind = "controller"
      /\ outcome = "ok" => handed = Wanted
  BY <1>1, KindTyped DEF DeliveryInv, QueryReaderInv, ReaderInv, QueueInv
<1>3. /\ setting' = setting /\ handed' = handed /\ queue' = queue /\ outcome' = outcome
  BY <1>1 DEF queueVars
<1>4. /\ more /\ call[1].offset = size /\ offset = size /\ call[1].limit = Limit
      /\ count = Unknown => size = 0
      /\ count = Unknown \/ size < Goal
      /\ size <= Goal
  BY <1>1, <1>2 DEF ControllerReaderInv
<1>5. /\ size \in Nat /\ Limit \in Nat /\ Limit <= setting.size /\ setting.size \in Nat
      /\ setting.max \in Nat /\ Total \in Nat /\ Goal \in Nat /\ Goal <= Total
      /\ handed \in Seq(1..Total) /\ queue \in Seq(1..Total)
  BY LimitTyped, SettingTyped, WantedIs, ReadersAssumption
     DEF ReaderInv, QueueInv, QueueTypes, ReaderTypes
<1>6. /\ page \in Seq(1..Total)
      /\ Len(page) = IF size + Limit <= Total THEN Limit ELSE IF size <= Total THEN Total - size ELSE 0
  <2>1. page = Page(size, Limit)
    BY <1>4
  <2> HIDE DEF page
  <2> QED BY <1>5, <2>1, PageTyped
<1>7. Page(0, size) \o page = Page(0, size + Limit)
  BY <1>4, <1>5, PagesJoin
<1> HIDE DEF page
<1>8. /\ Len(page) \in Nat /\ Len(page) <= setting.size /\ Len(page) <= Limit
      /\ size + Len(page) = size + Limit \/ size + Len(page) = Total
  <2>1. size <= Total
    BY <1>4, <1>5
  <2> QED BY <1>5, <1>6, <2>1
<1>9. Alone' /\ call'[1] = Answered(more)
  BY <1>1, <1>2, AloneStays DEF Answered, AskingCalls, FetchingCalls
<1>10. TakenInOrder'
  <2>1. Pending = <<>> /\ Pending' = page
    BY <1>1, <1>2, <1>3, <1>4, <1>9 DEF Pending, Answered
  <2>2. Taken = size /\ Taken' = size'
    BY <1>2, <1>3 DEF Taken
  <2>3. Page(0, size') = Page(0, size + Limit)
    <3>1. CASE size' = size + Limit
      BY <3>1
    <3>2. CASE size' = Total
      <4>1. size + Limit >= Total /\ size + Limit \in Nat /\ Total >= Total
        BY <1>1, <1>5, <1>8, <3>2
      <4> QED BY <1>5, <3>2, <4>1, PageEnds
    <3> QED BY <1>1, <1>8, <3>1, <3>2
  <2>4. handed \o queue \in Seq(1..Total)
    BY <1>5, LongerHasPrefix
  <2>5. handed \o queue = Page(0, size)
    BY <1>2, <2>1, <2>2, <2>4 DEF TakenInOrder
  <2>6. (handed' \o queue') \o Pending' = Page(0, Taken')
    BY <1>3, <1>7, <2>1, <2>2, <2>3, <2>5
  <2>7. Len(Pending') <= setting'.size
    BY <1>3, <1>8, <2>1
  <2> QED BY <2>6, <2>7 DEF TakenInOrder, Page
<1>11. ControllerReaderInv'
  <2>1. Goal' = Goal
    BY <1>3 DEF Goal
  <2>2. call'[1].at = "answered" /\ call'[1].yes
    BY <1>4, <1>9 DEF Answered
  <2>3. size' <= Goal /\ (offset' = size' \/ size' = Goal)
    <3>1. CASE setting.max > 0 /\ setting.max < Total
      <4>1. Goal = setting.max /\ size < setting.max
        BY <1>4, <1>5, <3>1 DEF Goal
      <4>2. Limit = IF size + setting.size > setting.max THEN setting.max - size ELSE setting.size
        BY <4>1 DEF Limit
      <4>3. CASE size + setting.size > setting.max
        BY <1>1, <1>4, <1>5, <1>6, <3>1, <4>1, <4>2, <4>3
      <4>4. CASE ~ size + setting.size > setting.max
        BY <1>1, <1>4, <1>5, <1>6, <3>1, <4>1, <4>2, <4>4
      <4> QED BY <4>3, <4>4
    <3>2. CASE ~ (setting.max > 0 /\ setting.max < Total)
      <4>1. Goal = Total
        BY <3>2 DEF Goal
      <4>2. Limit = setting.size \/ (size + Limit = setting.max /\ setting.max >= Total)
        <5>1. Limit = IF size < setting.max /\ size + setting.size > setting.max
                      THEN setting.max - size ELSE setting.size
          BY DEF Limit
        <5>2. size < setting.max => setting.max >= Total
          BY <1>5, <3>2
        <5> QED BY <1>5, <5>1, <5>2
      <4> QED BY <1>1, <1>4, <1>5, <1>6, <4>1, <4>2
    <3> QED BY <3>1, <3>2
  <2>4. Total # Unknown
    BY <1>5 DEF Unknown
  <2> QED BY <1>1, <2>1, <2>2, <2>3, <2>4 DEF ControllerReaderInv
<1>12. outcome' = "ok" => handed' = Wanted'
  BY <1>2, <1>3 DEF Wanted, Page
<1> QED BY <1>2, <1>3, <1>9, <1>10, <1>11, <1>12 DEF DeliveryInv

\* The lane is over for good, or waits to ask again.
LEMMA FailureDelivers ==
  ASSUME ReaderInv, DeliveryInv, Serial, NEW x \in {"dead", "delayed"},
         Pending = <<>>, outcome = "no", at' = [at EXCEPT ![1] = x], Calling(1, NoCall),
         UNCHANGED <<setting, queue, waiting, outcome, handed>>,
         UNCHANGED <<count, offset, size, more, chunk>>
  PROVE  DeliveryInv'
<1>1. /\ Alone /\ TakenInOrder
      /\ setting.kind = "query" => QueryReaderInv
      /\ setting.kind = "controller" => ControllerReaderInv
  BY DEF DeliveryInv
<1>2. Alone' /\ call'[1] = NoCall
  <2>1. /\ NoCall.at \notin AskingCalls /\ NoCall.at \notin FetchingCalls
        /\ x \notin {"asking", "fetching", "waiting"} /\ outcome' = "no" /\ ~waiting'
    BY <1>1 DEF NoCall, AskingCalls, FetchingCalls, Alone
  <2> QED BY <1>1, <2>1, AloneMoves
<1>3. call'[1].at = "none"
  BY <1>2 DEF NoCall
<1>4. TakenInOrder'
  <2>1. Pending' = <<>>
    BY <1>3 DEF Pending
  <2>2. Taken' = Taken
    BY DEF Taken
  <2> QED BY <1>1, <2>1, <2>2, OrderKept
<1>5. setting.kind = "query" => QueryReaderInv'
  BY <1>1, <1>3 DEF QueryReaderInv
<1>6. setting.kind = "controller" => ControllerReaderInv'
  <2>1. Goal' = Goal
    BY DEF Goal
  <2> QED BY <1>1, <1>3, <2>1 DEF ControllerReaderInv
<1> QED BY <1>2, <1>4, <1>5, <1>6 DEF DeliveryInv

LEMMA FindFailsDelivers ==
  ASSUME ReaderInv, DeliveryInv, Serial, FindFails(1)
  PROVE  DeliveryInv'
<1>1. /\ call[1].at = "finding" /\ Calling(1, NoCall) /\ at' = [at EXCEPT ![1] = "dead"]
      /\ at[1] = "asking"
      /\ UNCHANGED <<setting, queue, waiting, outcome, handed>>
      /\ UNCHANGED <<count, offset, size, more, chunk>>
  BY DEF FindFails, AnswerFails
<1>2. Pending = <<>> /\ outcome = "no"
  BY <1>1 DEF Pending, DeliveryInv, Alone
<1> QED BY <1>1, <1>2, FailureDelivers

LEMMA ReadFailsDelivers ==
  ASSUME ReaderInv, DeliveryInv, Serial, ReadFails(1)
  PROVE  DeliveryInv'
<1>1. /\ call[1].at = "page" /\ Calling(1, NoCall) /\ at' = [at EXCEPT ![1] = "delayed"]
      /\ at[1] = "fetching"
      /\ UNCHANGED <<setting, queue, waiting, outcome, handed>>
      /\ UNCHANGED <<count, offset, size, more, chunk>>
  BY DEF ReadFails, FetchFails
<1>2. Pending = <<>> /\ outcome = "no"
  BY <1>1 DEF Pending, DeliveryInv, Alone
<1> QED BY <1>1, <1>2, FailureDelivers

LEMMA QueryDelivers ==
  ASSUME ReaderInv, DeliveryInv, Serial, Query(1)
  PROVE  DeliveryInv'
<1>1. /\ call[1].at = "query" /\ Calling(1, Reading(offset * setting.size))
      /\ UNCHANGED queueVars /\ UNCHANGED <<count, offset, size, more, chunk>>
  BY DEF Query
<1>2. /\ Alone /\ TakenInOrder /\ QueryReaderInv /\ setting.kind = "query"
      /\ outcome = "ok" => handed = Wanted
  BY <1>1, KindTyped DEF DeliveryInv, ControllerReaderInv, ReaderInv, QueueInv
<1>3. /\ setting' = setting /\ handed' = handed /\ queue' = queue /\ outcome' = outcome
  BY <1>1 DEF queueVars
<1>4. Alone' /\ call'[1] = Reading(offset * setting.size)
  BY <1>1, <1>2, AloneStays DEF Reading, AskingCalls, FetchingCalls
<1>5. call'[1].at = "page" /\ call'[1].offset = offset * setting.size
  BY <1>4 DEF Reading
<1>6. TakenInOrder'
  <2>1. Pending = <<>> /\ Pending' = <<>>
    BY <1>1, <1>5 DEF Pending
  <2>2. Taken' = Taken
    BY <1>1, <1>3 DEF Taken
  <2> QED BY <1>2, <1>3, <2>1, <2>2, OrderKept
<1>7. QueryReaderInv'
  BY <1>1, <1>2, <1>3, <1>5 DEF QueryReaderInv
<1>8. outcome' = "ok" => handed' = Wanted'
  BY <1>2, <1>3 DEF Wanted, Page
<1> QED BY <1>2, <1>3, <1>4, <1>6, <1>7, <1>8 DEF DeliveryInv

LEMMA ReadDelivers ==
  ASSUME ReaderInv, DeliveryInv, Serial, Read(1)
  PROVE  DeliveryInv'
<1> DEFINE page == Page(call[1].offset, setting.size)
           taken == offset * setting.size
<1>1. /\ call[1].at = "page" /\ more' = (more /\ page # <<>>) /\ Calling(1, Result(page))
      /\ offset' = offset + 1 /\ UNCHANGED queueVars /\ UNCHANGED <<count, size, chunk>>
  BY DEF Read
<1>2. /\ Alone /\ TakenInOrder /\ QueryReaderInv /\ setting.kind = "query"
      /\ outcome = "ok" => handed = Wanted
  BY <1>1, KindTyped DEF DeliveryInv, ControllerReaderInv, ReaderInv, QueueInv
<1>3. /\ setting' = setting /\ handed' = handed /\ queue' = queue /\ outcome' = outcome
  BY <1>1 DEF queueVars
<1>4. /\ offset \in Nat /\ setting.size \in Nat \ {0} /\ Total \in Nat /\ taken \in Nat
      /\ handed \in Seq(1..Total) /\ queue \in Seq(1..Total)
      /\ offset' * setting'.size = taken + setting.size
  <2>1. offset \in Nat /\ setting.size \in Nat \ {0} /\ Total \in Nat
    BY SettingTyped, ReadersAssumption DEF ReaderInv, QueueInv, ReaderTypes
  <2>2. taken \in Nat /\ (offset + 1) * setting.size = taken + setting.size
    BY <2>1
  <2> QED BY <1>1, <1>3, <2>1, <2>2 DEF ReaderInv, QueueInv, QueueTypes
<1>5. page = Page(taken, setting.size)
  BY <1>1, <1>2 DEF QueryReaderInv
<1> HIDE DEF page, taken
<1>6. /\ page \in Seq(1..Total)
      /\ Len(page) = IF taken + setting.size <= Total THEN setting.size
                     ELSE IF taken <= Total THEN Total - taken ELSE 0
      /\ Page(0, taken) \o page = Page(0, taken + setting.size)
  BY <1>4, <1>5, PageTyped, PagesJoin
<1>7. Alone' /\ call'[1] = Result(page)
  BY <1>1, <1>2, AloneStays DEF Result, AskingCalls, FetchingCalls
<1>8. call'[1].at = "result" /\ call'[1].data = page
  BY <1>7 DEF Result
<1>9. TakenInOrder'
  <2>1. Pending = <<>> /\ Pending' = page
    BY <1>1, <1>8 DEF Pending
  <2>2. Taken = taken /\ Taken' = taken + setting.size
    BY <1>2, <1>3, <1>4 DEF Taken, taken
  <2>3. handed \o queue \in Seq(1..Total)
    BY <1>4, LongerHasPrefix
  <2>4. handed \o queue = Page(0, taken)
    BY <1>2, <2>1, <2>2, <2>3 DEF TakenInOrder
  <2>5. (handed' \o queue') \o Pending' = Page(0, Taken')
    BY <1>3, <1>6, <2>1, <2>2, <2>4
  <2>6. Len(Pending') <= setting'.size
    BY <1>3, <1>4, <1>6, <2>1
  <2> QED BY <2>5, <2>6 DEF TakenInOrder, Page
<1>10. QueryReaderInv'
  <2>1. ~more' => taken + setting.size >= Total
    <3>1. CASE ~more
      <4>1. taken >= Total
        BY <1>2, <3>1 DEF QueryReaderInv, taken
      <4> QED BY <1>4, <4>1
    <3>2. CASE page = <<>>
      <4>1. Len(page) = 0
        BY <3>2
      <4>2. taken \in Nat /\ setting.size \in Nat \ {0} /\ Total \in Nat
        BY <1>4
      <4>3. 0 = IF taken + setting.size <= Total THEN setting.size
                ELSE IF taken <= Total THEN Total - taken ELSE 0
        BY <1>6, <4>1
      <4> QED BY <4>2, <4>3
    <3> QED BY <1>1, <3>1, <3>2
  <2> QED BY <1>1, <1>2, <1>4, <1>8, <2>1 DEF QueryReaderInv
<1>11. outcome' = "ok" => handed' = Wanted'
  BY <1>2, <1>3 DEF Wanted, Page
<1> QED BY <1>2, <1>3, <1>7, <1>9, <1>10, <1>11 DEF DeliveryInv

LEMMA DeliverDelivers ==
  ASSUME ReaderInv, DeliveryInv, Serial, Deliver(1)
  PROVE  DeliveryInv'
<1> DEFINE data == call[1].data
<1>1. /\ call[1].at = "result" /\ at[1] = "fetching" /\ Calling(1, NoCall)
      /\ Enqueue(1, data) /\ UNCHANGED <<setting, outcome>>
      /\ UNCHANGED <<count, offset, size, more, chunk>>
  BY DEF Deliver, Enqueue
<1>2. /\ Alone /\ TakenInOrder
      /\ setting.kind = "query" => QueryReaderInv
      /\ setting.kind = "controller" => ControllerReaderInv
      /\ outcome = "no" /\ ~waiting /\ Len(queue) < setting.flush
  BY <1>1 DEF DeliveryInv, Alone
<1>3. Pending = data /\ Len(data) <= setting.size
  BY <1>1, <1>2 DEF Pending, TakenInOrder
<1>4. data \in Seq(1..Total)
  BY <1>3, PendingTyped
<1> HIDE DEF data
<1>5. /\ handed \in Seq(1..Total) /\ queue \in Seq(1..Total)
      /\ setting.flush \in Nat /\ setting.limit \in Nat /\ setting.size \in Nat
  BY SettingTyped DEF ReaderInv, QueueInv, QueueTypes
<1>6. Len(queue \o data) <= setting.limit /\ Len(queue \o data) \in Nat
  <2>1. Len(queue \o data) = Len(queue) + Len(data) /\ Len(queue) \in Nat /\ Len(data) \in Nat
    BY <1>4, <1>5, LongerHasPrefix
  <2>2. setting.size + setting.flush - 1 <= setting.limit
    BY DEF Serial
  <2> QED BY <1>2, <1>3, <1>5, <2>1, <2>2
<1>7. /\ queue' = queue \o data /\ at' = [at EXCEPT ![1] = "stored"] /\ handed' = handed
      /\ waiting' = FALSE
  <2>1. WaitFor(1, queue \o data)
    BY <1>1, <1>2 DEF Enqueue
  <2> QED BY <1>5, <1>6, <2>1 DEF WaitFor
<1>8. Alone' /\ call'[1] = NoCall
  BY <1>1, <1>2, <1>7, AloneMoves DEF NoCall, AskingCalls, FetchingCalls
<1>9. call'[1].at = "none"
  BY <1>8 DEF NoCall
<1>10. TakenInOrder'
  <2>1. Pending' = <<>>
    BY <1>9 DEF Pending
  <2>2. Taken' = Taken
    BY <1>1 DEF Taken
  <2>3. handed \o (queue \o data) = (handed \o queue) \o data
    <3>1. handed \in Seq(1..Total) /\ queue \in Seq(1..Total) /\ data \in Seq(1..Total)
      BY <1>4, <1>5
    <3>2. (handed \o queue) \o data = handed \o (queue \o data)
      BY <3>1, ConcatAssociative
    <3> QED BY <3>2
  <2>4. (handed \o queue) \o data = Page(0, Taken)
    BY <1>2, <1>3 DEF TakenInOrder
  <2>5. queue \o data \in Seq(1..Total) /\ handed \o (queue \o data) \in Seq(1..Total)
    BY <1>4, <1>5, LongerHasPrefix
  <2>6. (handed' \o queue') \o Pending' = Page(0, Taken')
    BY <1>7, <2>1, <2>2, <2>3, <2>4, <2>5
  <2>7. Len(Pending') <= setting'.size
    BY <1>1, <1>5, <2>1
  <2> QED BY <2>6, <2>7 DEF TakenInOrder, Page
<1>11. setting.kind = "query" => QueryReaderInv'
  BY <1>1, <1>2, <1>9 DEF QueryReaderInv
<1>12. setting.kind = "controller" => ControllerReaderInv'
  <2>1. Goal' = Goal
    BY <1>1 DEF Goal
  <2> QED BY <1>1, <1>2, <1>9, <2>1 DEF ControllerReaderInv
<1> QED BY <1>1, <1>2, <1>8, <1>10, <1>11, <1>12 DEF DeliveryInv

\* The queue goes on: a chunk may be handed on, or the end told.
LEMMA GoesAlone ==
  ASSUME ReaderInv, DeliveryInv, Serial, at[1] # "free", NEW x, NEW c, LaneGoes(1, x, c),
         NEW next, Calling(1, next), next.at \notin FetchingCalls,
         next.at \in AskingCalls <=> x = "asking"
  PROVE  /\ Alone' /\ call'[1] = next
         /\ handed' \o queue' = handed \o queue /\ setting' = setting
         /\ outcome' = "ok" => at[1] = "asking" /\ queue = <<>> /\ handed' = handed
<1>1. Alone /\ outcome = "no" /\ ~waiting
  BY DEF DeliveryInv, Alone
<1>2. /\ x \in {"free", "asking", "working"} /\ c \in Seq(1..Total)
      /\ (x = "working" <=> c # <<>>)
      /\ queue' \in Seq(1..Total) /\ c \o queue' = queue /\ handed' = handed \o c
      /\ at' = [at EXCEPT ![1] = x] /\ setting' = setting /\ waiting' = waiting
      /\ (x = "asking" => Len(queue) < setting.flush)
  BY DEF LaneGoes
<1>3. handed \in Seq(1..Total) /\ queue \in Seq(1..Total)
  BY DEF ReaderInv, QueueInv, QueueTypes
<1>4. /\ outcome' # "no" => x = "free"
      /\ outcome' = "ok" => at[1] = "asking" /\ queue = <<>> /\ x = "free"
  BY <1>1 DEF LaneGoes
<1>5. c = <<>> => queue' = queue /\ handed' = handed
  <2>1. c = <<>> => c \o queue' = queue' /\ handed \o c = handed
    BY <1>2, <1>3
  <2> QED BY <1>2, <2>1
<1>6. handed' \o queue' = handed \o queue
  <2>1. handed \in Seq(1..Total) /\ c \in Seq(1..Total) /\ queue' \in Seq(1..Total)
    BY <1>2, <1>3
  <2>2. (handed \o c) \o queue' = handed \o (c \o queue')
    BY <2>1, ConcatAssociative
  <2> QED BY <1>2, <2>2
<1>7. x = "asking" => Len(queue') < setting'.flush
  BY <1>2, <1>5
<1>8. Alone' /\ call'[1] = next
  BY <1>1, <1>2, <1>4, <1>7, AloneMoves
<1> QED BY <1>2, <1>4, <1>5, <1>6, <1>8

LEMMA HearDelivers ==
  ASSUME ReaderInv, DeliveryInv, Serial, Hear(1)
  PROVE  DeliveryInv'
<1> DEFINE next == IF at'[1] # "fetching" THEN NoCall
                   ELSE IF setting.kind = "query" THEN Querying ELSE Result(chunk)
           yes == call[1].yes
<1>1. /\ call[1].at = "answered" /\ (Answer(1, yes) \/ AnswerLate(1))
      /\ Calling(1, next) /\ UNCHANGED <<count, offset, size, more, chunk>>
  BY DEF Hear
<1>2. /\ Alone /\ TakenInOrder /\ at[1] = "asking" /\ outcome = "no" /\ Answer(1, yes)
      /\ setting.kind = "query" => QueryReaderInv
      /\ setting.kind = "controller" => ControllerReaderInv
  BY <1>1 DEF DeliveryInv, Alone, AskingCalls, AnswerLate
<1>3. yes \in BOOLEAN /\ 1 \in Lanes /\ at \in [Lanes -> Places] /\ setting.kind \in {"query", "controller"}
  BY <1>1, LanesCounted, CallFields, KindTyped DEF ReaderInv, QueueInv, QueueTypes, ReaderTypes
<1> HIDE DEF yes, next
<1>4. CASE yes
  <2>1. /\ at' = [at EXCEPT ![1] = "fetching"]
        /\ UNCHANGED <<setting, queue, outcome, handed, waiting>>
    BY <1>2, <1>4 DEF Answer
  <2>2. next = IF setting.kind = "query" THEN Querying ELSE Result(chunk)
    BY <1>3, <2>1 DEF next
  <2>3. next.at \in FetchingCalls /\ next.at \notin AskingCalls
    BY <2>2 DEF Querying, Result, FetchingCalls, AskingCalls
  <2>4. ~waiting' /\ outcome' = "no" /\ Len(queue') < setting'.flush
    BY <1>2, <2>1 DEF Alone
  <2>5. Alone' /\ call'[1] = next
    BY <1>1, <1>2, <2>1, <2>3, <2>4, AloneMoves
  <2>6. TakenInOrder'
    <3>1. CASE setting.kind = "query"
      <4>1. call'[1].at = "query"
        BY <2>2, <2>5, <3>1 DEF Querying
      <4>2. Pending = <<>> /\ Pending' = <<>>
        BY <1>1, <3>1, <4>1, <2>1 DEF Pending
      <4>3. Taken' = Taken
        BY <1>1, <2>1 DEF Taken
      <4> QED BY <1>2, <2>1, <4>2, <4>3, OrderKept
    <3>2. CASE setting.kind = "controller"
      <4>1. call'[1].at = "result" /\ call'[1].data = chunk
        BY <2>2, <2>5, <3>2 DEF Result
      <4>2. Pending = chunk /\ Pending' = chunk
        BY <1>1, <1>4, <3>2, <4>1, <2>1 DEF Pending, yes
      <4>3. Taken' = Taken
        BY <1>1, <2>1 DEF Taken
      <4> QED BY <1>2, <2>1, <4>2, <4>3, OrderKept
    <3> QED BY <1>3, <3>1, <3>2
  <2>7. setting.kind = "query" => QueryReaderInv'
    <3>1. setting.kind = "query" => call'[1].at = "query"
      BY <2>2, <2>5 DEF Querying
    <3> QED BY <1>1, <1>2, <2>1, <3>1 DEF QueryReaderInv
  <2>8. setting.kind = "controller" => ControllerReaderInv'
    <3>1. setting.kind = "controller" => call'[1].at = "result"
      BY <2>2, <2>5 DEF Result
    <3>2. Goal' = Goal
      BY <2>1 DEF Goal
    <3> QED BY <1>1, <1>2, <2>1, <3>1, <3>2 DEF ControllerReaderInv
  <2> QED BY <1>2, <2>1, <2>5, <2>6, <2>7, <2>8 DEF DeliveryInv
<1>5. CASE ~yes
  <2>1. PICK x, c : x # "asking" /\ LaneGoes(1, x, c)
    BY <1>2, <1>3, <1>5, AnswerNoGoes DEF ReaderInv
  <2>2. at'[1] = x /\ x \in {"free", "working"}
    BY <1>3, <2>1 DEF LaneGoes
  <2>3. next = NoCall
    BY <2>2 DEF next
  <2>4. next.at = "none" /\ next.at \notin FetchingCalls /\ next.at \notin AskingCalls
    BY <2>3 DEF NoCall, FetchingCalls, AskingCalls
  <2>5. /\ Alone' /\ call'[1] = next
        /\ handed' \o queue' = handed \o queue /\ setting' = setting
        /\ outcome' = "ok" => queue = <<>> /\ handed' = handed
    BY <1>1, <1>2, <2>1, <2>4, GoesAlone
  <2>6. Pending = <<>> /\ Pending' = <<>> /\ Taken' = Taken
    BY <1>1, <1>5, <2>4, <2>5 DEF Pending, Taken, yes
  <2>7. TakenInOrder'
    BY <1>2, <2>5, <2>6, OrderKept
  <2>8. setting.kind = "query" => QueryReaderInv'
    BY <1>1, <1>2, <2>4, <2>5 DEF QueryReaderInv
  <2>9. setting.kind = "controller" => ControllerReaderInv'
    <3>1. Goal' = Goal
      BY <2>5 DEF Goal
    <3> QED BY <1>1, <1>2, <2>4, <2>5, <3>1 DEF ControllerReaderInv
  <2>10. ASSUME outcome' = "ok" PROVE handed' = Wanted'
    <3>1. queue = <<>> /\ handed' = handed /\ handed \in Seq(1..Total)
      BY <2>5, <2>10 DEF ReaderInv, QueueInv, QueueTypes
    <3>2. (handed \o <<>>) \o <<>> = handed
      BY <3>1
    <3>3. handed = Page(0, Taken)
      BY <1>2, <2>6, <3>1, <3>2 DEF TakenInOrder
    <3>4. setting.kind = "query" => Taken >= Total
      BY <1>1, <1>2, <1>5 DEF Taken, QueryReaderInv, yes
    <3>5. setting.kind = "controller" => Taken = Goal
      BY <1>1, <1>2, <1>5 DEF Taken, ControllerReaderInv, yes
    <3>6. handed = Wanted
      BY <3>3, <3>4, <3>5, AllTaken
    <3> QED BY <2>5, <3>1, <3>6 DEF Wanted, Page
  <2> QED BY <2>5, <2>7, <2>8, <2>9, <2>10 DEF DeliveryInv
<1> QED BY <1>3, <1>4, <1>5

LEMMA ProceedDelivers ==
  ASSUME ReaderInv, DeliveryInv, Serial, Proceed(1)
  PROVE  DeliveryInv'
<1>1. /\ Run(1) \/ Stored(1) \/ Retry(1) \/ Worked(1)
      /\ IF at'[1] = "asking" THEN HasNext(1) ELSE UNCHANGED readerVars
  BY DEF Proceed
<1>2. 1 \in Lanes /\ at \in [Lanes -> Places] /\ call \in [Lanes -> Call]
      /\ setting.kind \in {"query", "controller"}
  BY LanesCounted, KindTyped DEF ReaderInv, QueueInv, QueueTypes, ReaderTypes
<1>3. at[1] \notin {"free", "asking"} /\ \E x, c : LaneGoes(1, x, c)
  BY <1>1, <1>2, RunGoes, StoredGoes, RetryGoes, WorkedGoes DEF ReaderInv
<1>4. PICK x, c : LaneGoes(1, x, c)
  BY <1>3
<1>5. at'[1] = x /\ x \in {"free", "asking", "working"} /\ setting' = setting
  BY <1>2, <1>4 DEF LaneGoes
<1>6. /\ Alone /\ TakenInOrder
      /\ setting.kind = "query" => QueryReaderInv
      /\ setting.kind = "controller" => ControllerReaderInv
  BY DEF DeliveryInv
<1>7. at[1] # "fetching" /\ call[1].at \notin AskingCalls /\ call[1].at \notin FetchingCalls
  <2>1. at[1] \in {"start", "stored", "delayed", "working"}
    BY <1>1 DEF Run, Stored, Retry, Worked
  <2> QED BY <1>6, <2>1 DEF Alone
<1>8. Pending = <<>>
  BY <1>7 DEF Pending, FetchingCalls, AskingCalls
\* What is left to see of each call.
<1>9. ASSUME NEW next, Calling(1, next), next.at \notin FetchingCalls,
             next.at \in AskingCalls <=> x = "asking",
             UNCHANGED <<offset, size, chunk>>,
             setting.kind = "controller" => next.at \notin {"answered"},
             setting.kind = "query" => (next.at = call'[1].at => QueryReaderInv'),
             setting.kind = "controller" => (call'[1] = next => ControllerReaderInv')
      PROVE  DeliveryInv'
  <2>1. /\ Alone' /\ call'[1] = next
        /\ handed' \o queue' = handed \o queue
        /\ outcome' # "ok"
    BY <1>3, <1>4, <1>9, GoesAlone
  <2>2. Pending' = <<>>
    BY <1>2, <1>5, <1>9, <2>1 DEF Pending, FetchingCalls
  <2>3. Taken' = Taken
    BY <1>5, <1>9 DEF Taken
  <2>4. TakenInOrder'
    BY <1>5, <1>6, <1>8, <2>1, <2>2, <2>3, OrderKept
  <2> QED BY <1>5, <1>9, <2>1, <2>4 DEF DeliveryInv
<1>10. CASE x # "asking"
  <2>1. UNCHANGED <<call, count, offset, size, more, chunk>>
    BY <1>1, <1>5, <1>10 DEF readerVars
  <2>2. Calling(1, call[1])
    BY <1>2, <2>1 DEF Calling
  <2>3. setting.kind = "query" => QueryReaderInv'
    BY <1>5, <1>6, <2>1 DEF QueryReaderInv
  <2>4. setting.kind = "controller" => ControllerReaderInv'
    <3>1. Goal' = Goal /\ Limit' = Limit
      BY <1>5, <2>1 DEF Goal, Limit
    <3> QED BY <1>6, <2>1, <3>1 DEF ControllerReaderInv
  <2>5. call[1].at \notin {"answered"}
    BY <1>7 DEF AskingCalls
  <2> QED BY <1>7, <1>9, <1>10, <2>1, <2>2, <2>3, <2>4, <2>5
<1>11. CASE x = "asking"
  <2>1. HasNext(1)
    BY <1>1, <1>5, <1>11
  <2>2. CASE /\ setting.kind = "query" /\ Calling(1, Counting)
             /\ UNCHANGED <<count, offset, size, more, chunk>>
    <3>1. call'[1] = Counting
      BY <1>2, <2>2 DEF Calling
    <3>2. QueryReaderInv'
      BY <1>5, <1>6, <2>2, <3>1 DEF QueryReaderInv, Counting
    <3>3. Counting.at \notin FetchingCalls /\ Counting.at \in AskingCalls
      BY DEF Counting, FetchingCalls, AskingCalls
    <3> QED BY <1>9, <1>11, <2>2, <3>2, <3>3
  <2>3. CASE setting.kind = "query" /\ count # Unknown /\ Decide(1, count) /\ UNCHANGED count
    <3> DEFINE taken == offset * setting.size
    <3>1. /\ more' = (more /\ (count > Uncounted => taken < count))
          /\ Calling(1, Answered(more')) /\ UNCHANGED <<offset, size, chunk, count>>
      BY <2>3 DEF Decide
    <3>2. call'[1] = Answered(more')
      BY <1>2, <3>1 DEF Calling
    <3>3. count \in {Uncounted, Total} /\ (~more => taken >= Total)
      BY <1>6, <2>3 DEF QueryReaderInv
    <3>4. taken \in Nat /\ Total \in Nat
      BY SettingTyped, ReadersAssumption DEF ReaderInv, QueueInv, ReaderTypes
    <3> HIDE DEF taken
    <3>5. ~more' => taken >= Total
      <4>1. ASSUME ~more' PROVE ~more \/ (count > Uncounted /\ ~ taken < count)
        BY <3>1, <4>1
      <4>2. count > Uncounted /\ ~ taken < count => taken >= Total
        BY <3>3, <3>4 DEF Uncounted
      <4> QED BY <3>3, <4>1, <4>2
    <3>6. call'[1].at = "answered" /\ call'[1].yes = more'
      BY <3>2 DEF Answered
    <3>7. QueryReaderInv'
      BY <1>5, <3>1, <3>3, <3>5, <3>6 DEF QueryReaderInv, taken
    <3>8. Answered(more').at \notin FetchingCalls /\ Answered(more').at \in AskingCalls
      BY DEF Answered, FetchingCalls, AskingCalls
    <3> QED BY <1>9, <1>11, <2>3, <3>1, <3>7, <3>8
  <2>4. CASE /\ setting.kind = "controller"
             /\ count' = IF setting.max > 0 /\ count > setting.max THEN setting.max ELSE count
             /\ Calling(1, Conditions(Limit)) /\ UNCHANGED <<offset, size, more, chunk>>
    <3>1. call'[1] = Conditions(Limit)
      BY <1>2, <2>4 DEF Calling
    <3>2. call'[1].at = "conditions" /\ call'[1].limit = Limit
      BY <3>1 DEF Conditions
    <3>3. /\ count \in {Unknown, Total, Goal}
          /\ count = Unknown => offset = 0 /\ size = 0
          /\ size <= Goal /\ (offset = size \/ size = Goal)
      BY <1>6, <2>4 DEF ControllerReaderInv
    <3>4. Goal' = Goal /\ Limit' = Limit
      BY <1>5, <2>4 DEF Goal, Limit
    <3>5. count' \in {Unknown, Goal} /\ (count' = Unknown => count = Unknown)
      <4>1. setting.max \in Nat /\ Total \in Nat /\ Goal \in Nat
        BY SettingTyped, ReadersAssumption, WantedIs DEF ReaderInv, QueueInv
      <4>2. Goal = IF setting.max > 0 /\ setting.max < Total THEN setting.max ELSE Total
        BY DEF Goal
      <4> QED BY <2>4, <3>3, <4>1, <4>2 DEF Unknown
    <3>6. ControllerReaderInv'
      BY <2>4, <3>2, <3>3, <3>4, <3>5 DEF ControllerReaderInv
    <3>7. Conditions(Limit).at = "conditions"
      BY DEF Conditions
    <3> QED BY <1>9, <1>11, <2>4, <3>6, <3>7 DEF FetchingCalls, AskingCalls
  <2> QED BY <2>1, <2>2, <2>3, <2>4 DEF HasNext
<1> QED BY <1>10, <1>11

LEMMA DeliveryInit ==
  ASSUME Init
  PROVE  DeliveryInv
<1>1. ReaderInv /\ QueueInit
  BY ReaderInit DEF Init
<1>2. /\ call = [l \in Lanes |-> NoCall] /\ count = Unknown /\ offset = 0 /\ size = 0
      /\ more = TRUE /\ chunk = <<>>
      /\ queue = <<>> /\ handed = <<>> /\ outcome = "no" /\ waiting = FALSE
      /\ at = [l \in Lanes |-> IF l = 1 THEN "start" ELSE "free"]
  BY DEF Init, QueueInit
<1>3. 1 \in Lanes /\ call[1].at = "none" /\ at[1] = "start"
  BY <1>2, LanesCounted DEF NoCall
<1>4. Alone
  BY <1>2, <1>3 DEF Alone, AskingCalls, FetchingCalls
<1>5. setting.size \in Nat /\ Total \in Nat /\ Goal \in Nat
  BY <1>1, SettingTyped, ReadersAssumption, WantedIs DEF ReaderInv, QueueInv
<1>6. TakenInOrder
  <2>1. Taken = 0
    BY <1>2, <1>5 DEF Taken
  <2>2. Page(0, 0) \in Seq(1..Total) /\ Len(Page(0, 0)) = 0
    BY <1>5, FirstPage
  <2>3. Page(0, 0) = <<>>
    BY <2>2, EmptySeq
  <2>4. Pending = <<>>
    BY <1>3 DEF Pending
  <2>5. (<<>> \o <<>>) \o <<>> = <<>> /\ Len(<<>>) = 0
    OBVIOUS
  <2> QED BY <1>2, <1>5, <2>1, <2>3, <2>4, <2>5 DEF TakenInOrder
<1>7. QueryReaderInv
  BY <1>2, <1>3 DEF QueryReaderInv
<1>8. ControllerReaderInv
  BY <1>2, <1>3, <1>5 DEF ControllerReaderInv
<1> QED BY <1>2, <1>4, <1>6, <1>7, <1>8 DEF DeliveryInv

\* No other lane has anything to do.
LEMMA OnlyOne ==
  ASSUME ReaderInv, DeliveryInv, Serial, NEW l \in Lanes, Lane(l)
  PROVE  l = 1 /\ ~ Poll(1)
<1>1. Alone
  BY DEF DeliveryInv
<1>2. ASSUME l # 1 PROVE FALSE
  <2>1. at[l] = "free" /\ call[l].at = "none"
    BY <1>1, <1>2 DEF Alone, NoCall
  <2> QED BY <2>1 DEF Lane, Counted, Find, Found, FindFails, Query, Read, ReadFails, Deliver, Hear,
                      Proceed, Poll, Run, Stored, Retry, Worked, Wait
<1>3. ~ Poll(1)
  BY <1>1 DEF Alone, Poll, Wait
<1> QED BY <1>2, <1>3

LEMMA DeliveryStep ==
  ASSUME ReaderInv, DeliveryInv, [Next]_vars
  PROVE  DeliveryInv'
<1>1. setting' = setting
  BY DEF Next, Lane, vars, queueVars, Counted, Find, Found, FindFails, AnswerFails, Query, Read,
         ReadFails, FetchFails, Deliver, Enqueue, Hear, Answer, AnswerLate, Proceed, Run, Stored,
         Retry, Worked, GoOn, Poll, Wait
<1> SUFFICES ASSUME Serial PROVE DeliveryInv'
  BY <1>1 DEF DeliveryInv, Serial
<1>2. CASE Next
  <2>1. PICK l \in Lanes : Lane(l)
    BY <1>2 DEF Next
  <2>2. Lane(1) /\ ~ Poll(1)
    BY <2>1, OnlyOne
  <2> QED BY <2>2, CountedDelivers, FindDelivers, FoundDelivers, FindFailsDelivers, QueryDelivers,
             ReadDelivers, ReadFailsDelivers, DeliverDelivers, HearDelivers, ProceedDelivers DEF Lane
<1>3. CASE UNCHANGED vars
  <2>1. /\ setting' = setting /\ at' = at /\ queue' = queue /\ waiting' = waiting
        /\ outcome' = outcome /\ handed' = handed
        /\ call' = call /\ count' = count /\ offset' = offset /\ size' = size
        /\ more' = more /\ chunk' = chunk
    BY <1>3 DEF vars, queueVars, readerVars
  <2>2. Alone' <=> Alone
    BY <2>1 DEF Alone
  <2>3. /\ Goal' = Goal /\ Limit' = Limit /\ Taken' = Taken /\ Pending' = Pending
        /\ Wanted' = Wanted
    BY <2>1 DEF Goal, Limit, Taken, Pending, Wanted, Page
  <2>4. QueryReaderInv' <=> QueryReaderInv
    BY <2>1 DEF QueryReaderInv
  <2>5. ControllerReaderInv' <=> ControllerReaderInv
    BY <2>1, <2>3 DEF ControllerReaderInv
  <2>6. TakenInOrder => TakenInOrder'
    BY <2>1, <2>3, OrderKept
  <2> QED BY <2>1, <2>2, <2>3, <2>4, <2>5, <2>6 DEF DeliveryInv
<1> QED BY <1>2, <1>3

\* As long as a page fits the queue, each record up to maxLimit is handed on once and in
\* order, whatever fails, and none is missing at a good end (find, doFetch, _data).
THEOREM Delivery == Spec => []DeliveredOnce
<1>1. Init => DeliveryInv
  BY DeliveryInit
<1>2. ReaderInv /\ DeliveryInv /\ [Next]_vars => DeliveryInv'
  BY DeliveryStep
<1>3. ReaderInv /\ DeliveryInv => DeliveredOnce
  BY InOrder
<1> QED BY <1>1, <1>2, <1>3, ReaderInvariant, PTL DEF Spec
=============================================================================

---------------------------- MODULE GetDiffProofs ----------------------------
(***************************************************************************)
(* What get_diff answers to a request for a later version, proved from the *)
(* invariant of StateMapProofs for every history a map can have.           *)
(***************************************************************************)
EXTENDS StateMapProofs

-----------------------------------------------------------------------------
(* Merging a stretch of a history.                                         *)

\* The stretch as a sequence of its own.
LEMMA Stretch ==
    ASSUME NEW s \in Seq(Diffs), NEW a \in 1..Len(s), NEW b \in a..Len(s)
    PROVE  LET t == SubSeq(s, a, b)
           IN  /\ t \in Seq(Diffs)
               /\ Len(t) = b - a + 1
               /\ \A i \in 1..Len(t) : t[i] = s[a + i - 1]
               /\ \A i \in a..b : i - a + 1 \in 1..Len(t) /\ t[i - a + 1] = s[i]
<1> DEFINE t == SubSeq(s, a, b)
<1>1. \A i \in a..b : s[i] \in Diffs
    OBVIOUS
<1>2. /\ t \in Seq(Diffs)
      /\ Len(t) = IF a <= b THEN b - a + 1 ELSE 0
      /\ \A i \in 1..(b - a + 1) : t[i] = s[a + i - 1]
    BY <1>1, SubSeqProperties
<1> HIDE DEF t
<1>3. \A i \in a..b : i - a + 1 \in 1..(b - a + 1) /\ a + (i - a + 1) - 1 = i
    OBVIOUS
<1>4. \A i \in a..b : t[i - a + 1] = s[i]
  <2> SUFFICES ASSUME NEW i \in a..b PROVE t[i - a + 1] = s[i]
      OBVIOUS
  <2>1. i - a + 1 \in 1..(b - a + 1) /\ a + (i - a + 1) - 1 = i
      BY <1>3
  <2>2. t[i - a + 1] = s[a + (i - a + 1) - 1]
      BY <1>2, <2>1
  <2> QED BY <2>1, <2>2
<1> QED BY <1>2, <1>3, <1>4 DEF t

\* The merged value of a key is that of its last writer in the stretch.
LEMMA MergedValue ==
    ASSUME NEW s \in Seq(Diffs), NEW a \in 1..Len(s), NEW b \in a..Len(s),
           NEW k \in Keys
    PROVE  LET v == LastWritten(SubSeq(s, a, b), k)
           IN  \/ /\ \A i \in a..b : s[i].changes[k] = Absent
                  /\ v = Absent
               \/ \E l \in a..b :
                      /\ s[l].changes[k] # Absent
                      /\ \A j \in (l + 1)..b : s[j].changes[k] = Absent
                      /\ v = s[l].changes[k]
<1> DEFINE t == SubSeq(s, a, b)
<1>1. /\ t \in Seq(Diffs)
      /\ Len(t) = b - a + 1
      /\ \A i \in 1..Len(t) : t[i] = s[a + i - 1]
      /\ \A i \in a..b : i - a + 1 \in 1..Len(t) /\ t[i - a + 1] = s[i]
    BY Stretch
<1> HIDE DEF t
<1>2. CASE \A i \in a..b : s[i].changes[k] = Absent
  <2>1. \A i \in 1..Len(t) : a + i - 1 \in a..b
    BY <1>1
  <2>2. ASSUME NEW i \in 1..Len(t)
        PROVE  t[i].changes[k] = Absent
    <3>1. t[i] = s[a + i - 1] /\ a + i - 1 \in a..b
      BY <1>1, <2>1
    <3> QED BY <1>2, <3>1
  <2>3. LastWritten(t, k) = Absent
    BY <1>1, <2>2, NoWriterNoEntry
  <2> QED BY <1>2, <2>3 DEF t
<1>3. ASSUME NEW i \in a..b, s[i].changes[k] # Absent
      PROVE  \E l \in a..b :
                 /\ s[l].changes[k] # Absent
                 /\ \A j \in (l + 1)..b : s[j].changes[k] = Absent
                 /\ LastWritten(t, k) = s[l].changes[k]
  <2>1. i - a + 1 \in 1..Len(t) /\ t[i - a + 1].changes[k] # Absent
    BY <1>1, <1>3
  <2>2. PICK p \in (i - a + 1)..Len(t) :
             /\ t[p].changes[k] # Absent
             /\ \A j \in (p + 1)..Len(t) : t[j].changes[k] = Absent
    BY <1>1, <2>1, SomeWriterIsLast
  <2> DEFINE l == a + p - 1
  <2>3. p \in 1..Len(t) /\ l \in a..b
    BY <1>1, <2>1, <2>2
  <2>4. LastWritten(t, k) = t[p].changes[k]
    BY <1>1, <2>2, <2>3, LastWriterDecides
  <2>5. t[p] = s[l]
    BY <1>1, <2>3
  <2>6. ASSUME NEW j \in (l + 1)..b
        PROVE  s[j].changes[k] = Absent
    <3>a. a \in Int /\ b \in Int /\ p \in 1..Len(t) /\ Len(t) = b - a + 1
      BY <1>1, <2>3
    <3>b. j \in Int /\ j >= a + p /\ j <= b
      BY <3>a
    <3>1. j \in a..b /\ j - a + 1 \in (p + 1)..Len(t)
      BY <3>a, <3>b
    <3>2. t[j - a + 1].changes[k] = Absent
      BY <2>2, <3>1
    <3>3. t[j - a + 1] = s[j]
      BY <1>1, <3>1
    <3> QED BY <3>2, <3>3
  <2> HIDE DEF l
  <2> QED BY <2>2, <2>3, <2>4, <2>5, <2>6
<1> QED BY <1>2, <1>3 DEF t

\* The merged diff is a diff and spans the stretch, if none of the stretch leads
\* further than its last.
LEMMA MergedIds ==
    ASSUME NEW s \in Seq(Diffs), NEW a \in 1..Len(s), NEW b \in a..Len(s),
           \A i \in a..b : s[i].upto <= s[b].upto
    PROVE  /\ Merge(SubSeq(s, a, b)) \in Diffs
           /\ Merge(SubSeq(s, a, b)).upto = s[b].upto
           /\ Merge(SubSeq(s, a, b)).from <= s[a].from
<1> DEFINE t == SubSeq(s, a, b)
<1>1. /\ t \in Seq(Diffs)
      /\ Len(t) = b - a + 1
      /\ \A i \in 1..Len(t) : t[i] = s[a + i - 1]
      /\ \A i \in a..b : i - a + 1 \in 1..Len(t) /\ t[i - a + 1] = s[i]
    BY Stretch
<1> HIDE DEF t
<1>2. a \in a..b /\ b \in a..b
    OBVIOUS
<1>3. ASSUME NEW i \in 1..Len(t)
      PROVE  t[i].upto <= t[b - a + 1].upto
  <2>1. a + i - 1 \in a..b
    BY <1>1
  <2> QED BY <1>1, <1>2, <2>1
<1>4. b - a + 1 \in 1..Len(t) /\ t[b - a + 1] = s[b]
    BY <1>1, <1>2
<1>5. a - a + 1 \in 1..Len(t) /\ t[a - a + 1] = s[a]
    BY <1>1, <1>2
<1>6. /\ Merge(t).upto = t[b - a + 1].upto
      /\ Merge(t).from \in Nat
      /\ \A j \in 1..Len(t) : Merge(t).from <= t[j].from
    BY <1>1, <1>3, <1>4, MergeIds
<1>7. Merge(t) \in Diffs
  <2>1. \A k \in Keys : LastWritten(t, k) \in ValuesOrAbsent
    BY <1>1, LastWrittenType
  <2>2. s[b].upto \in Nat
    <3>1. s[b] \in Diffs
      OBVIOUS
    <3> QED BY <3>1 DEF Diffs
  <2> DEFINE c == [k \in Keys |-> LastWritten(t, k)]
  <2>3. c \in Contents
    BY <2>1 DEF Contents
  <2> DEFINE f == Merge(t).from
             u == Merge(t).upto
  <2>4. Merge(t) = [changes |-> c, isFull |-> FALSE, from |-> f, upto |-> u]
    BY DEF Merge, NewDiff
  <2>5. f \in Nat /\ u \in Nat
    BY <1>4, <1>6, <2>2
  <2> HIDE DEF c, f, u
  <2> QED BY <2>3, <2>4, <2>5 DEF Diffs
<1> QED BY <1>4, <1>5, <1>6, <1>7 DEF t

-----------------------------------------------------------------------------
(* Finding the two ends of the range.                                      *)

\* The ids in the history of a frozen map.
LEMMA Ids ==
    ASSUME HistoryInv, IsFrozen(map)
    PROVE  /\ map.diffs \in Seq(Diffs)
           /\ Len(map.diffs) = map.updateId + 1
           /\ map.updateId \in Nat /\ frozenAt \in 0..map.updateId
           /\ \A i \in 1..(map.updateId + 1) :
                  /\ map.diffs[i].from \in Nat /\ map.diffs[i].upto \in Nat
                  /\ i <= frozenAt => map.diffs[i].from = i - 1 /\ map.diffs[i].upto = i
                  /\ i = frozenAt + 1 => map.diffs[i].from = 0 /\ map.diffs[i].upto = frozenAt
                  /\ i > frozenAt + 1 => map.diffs[i].from = i - 2 /\ map.diffs[i].upto = i - 1
<1>1. /\ map.diffs \in Seq(Diffs) /\ map.updateId \in Nat /\ frozenAt \in Nat
      /\ frozenAt <= map.updateId
      /\ Len(map.diffs) = map.updateId + 1
    BY HistoryTypes DEF HistoryInv, Current, Layout
<1>2. /\ \A i \in 1..frozenAt : map.diffs[i].from = i - 1 /\ map.diffs[i].upto = i
      /\ map.diffs[frozenAt + 1] = FullDiff(hist[frozenAt], frozenAt)
      /\ \A i \in (frozenAt + 2)..(map.updateId + 1) :
             map.diffs[i].from = i - 2 /\ map.diffs[i].upto = i - 1
    BY DEF HistoryInv, Layout, Early, Base, Later
<1>3. map.diffs[frozenAt + 1].from = 0 /\ map.diffs[frozenAt + 1].upto = frozenAt
    BY <1>2 DEF FullDiff, NewDiff
<1>4. ASSUME NEW i \in 1..(map.updateId + 1)
      PROVE  /\ i <= frozenAt => i \in 1..frozenAt
             /\ i > frozenAt + 1 => i \in (frozenAt + 2)..(map.updateId + 1)
    BY <1>1
<1>5. ASSUME NEW i \in 1..(map.updateId + 1)
      PROVE  map.diffs[i].from \in Nat /\ map.diffs[i].upto \in Nat
  <2>1. map.diffs[i] \in Diffs
    BY <1>1
  <2> QED BY <2>1 DEF Diffs
<1>6. ASSUME NEW i \in 1..(map.updateId + 1)
      PROVE  /\ map.diffs[i].from \in Nat /\ map.diffs[i].upto \in Nat
             /\ i <= frozenAt => map.diffs[i].from = i - 1 /\ map.diffs[i].upto = i
             /\ i = frozenAt + 1 => map.diffs[i].from = 0 /\ map.diffs[i].upto = frozenAt
             /\ i > frozenAt + 1 => map.diffs[i].from = i - 2 /\ map.diffs[i].upto = i - 1
  <2>1. i <= frozenAt => map.diffs[i].from = i - 1 /\ map.diffs[i].upto = i
    BY <1>2, <1>4
  <2>2. i > frozenAt + 1 => map.diffs[i].from = i - 2 /\ map.diffs[i].upto = i - 1
    BY <1>2, <1>4
  <2> QED BY <1>3, <1>5, <2>1, <2>2
<1>7. frozenAt \in 0..map.updateId
    BY <1>1
<1> QED BY <1>1, <1>6, <1>7

\* A reader ahead of the map is not in its history.
LEMMA AheadIsUnknown ==
    ASSUME HistoryInv, IsFrozen(map), NEW from \in Nat, from > map.updateId
    PROVE  StartUnknown(map.diffs, from)
<1> DEFINE N == map.updateId
<1>1. N + 1 \in 1..(N + 1) /\ N \in Nat /\ frozenAt \in 0..N /\ Len(map.diffs) = N + 1
    BY Ids
<1>2. map.diffs[N + 1].from < from
  <2>1. CASE N = frozenAt
    <3>1. map.diffs[N + 1].from = 0
      BY <1>1, <2>1, Ids
    <3> QED BY <1>1, <3>1
  <2>2. CASE N # frozenAt
    <3>1. map.diffs[N + 1].from = N - 1
      <4>1. N + 1 > frozenAt + 1 /\ (N + 1) - 2 = N - 1
        BY <1>1, <2>2
      <4> QED BY <1>1, <4>1, Ids
    <3> QED BY <1>1, <3>1
  <2> QED BY <2>1, <2>2
<1> QED BY <1>1, <1>2 DEF StartUnknown

\* Where a known start is found: at the step that starts there or, if the
\* reader has the contents of before all of the history, at its beginning.
LEMMA StartFound ==
    ASSUME HistoryInv, IsFrozen(map), NEW from \in Versions,
           ~StartUnknown(map.diffs, from)
    PROVE  LET a == FirstDiff(map.diffs, from)
           IN  /\ map.diffs[a].from = from
               /\ \/ /\ from < frozenAt \/ from = 0
                     /\ a = from + 1
                  \/ /\ from \in frozenAt..(map.updateId - 1)
                     /\ a = from + 2
<1> DEFINE N == map.updateId
           B == NotBelow(map.diffs, from)
<1>1. /\ N \in Nat /\ frozenAt \in 0..N /\ from \in 0..N
      /\ Len(map.diffs) = N + 1 /\ DOMAIN map.diffs = 1..(N + 1)
    BY Ids DEF Versions
<1>2. ~(map.diffs[N + 1].from < from)
    BY <1>1 DEF StartUnknown
<1>3. B \in SUBSET Int
    BY <1>1 DEF NotBelow
<1>4. ASSUME NEW x \in 1..(N + 1), map.diffs[x].from = from,
             \A i \in 1..(x - 1) : map.diffs[i].from < from
      PROVE  FirstDiff(map.diffs, from) = x
  <2>1. x \in B
    BY <1>1, <1>4 DEF NotBelow
  <2>2. ASSUME NEW y \in B
        PROVE  x <= y
    <3>1. y \in 1..(N + 1) /\ map.diffs[y].from >= from
      BY <1>1 DEF NotBelow
    <3>2. map.diffs[y].from \in Nat
      BY <1>1, <3>1, Ids
    <3>3. y \notin 1..(x - 1)
      BY <1>1, <1>4, <3>1, <3>2
    <3> QED BY <1>1, <3>1, <3>3
  <2>3. Min(B) = x
    <3> HIDE DEF B
    <3> QED BY <1>3, <2>1, <2>2, MinIs
  <2> QED BY <2>1, <2>3 DEF FirstDiff
<1>5. CASE from < frozenAt \/ from = 0
  <2>1. from + 1 \in 1..(N + 1) /\ from + 1 <= frozenAt + 1
    BY <1>1, <1>5
  <2>2. map.diffs[from + 1].from = from
    <3>1. CASE from < frozenAt
      <4>1. from + 1 <= frozenAt /\ (from + 1) - 1 = from
        BY <1>1, <3>1
      <4> QED BY <2>1, <4>1, Ids
    <3>2. CASE frozenAt = 0 /\ from = 0
      BY <1>1, <2>1, <3>2, Ids
    <3> QED BY <1>1, <1>5, <3>1, <3>2
  <2>3. ASSUME NEW i \in 1..((from + 1) - 1)
        PROVE  map.diffs[i].from < from
    <3>1. i \in 1..(N + 1) /\ i <= frozenAt /\ i - 1 < from
      BY <1>1, <1>5
    <3> QED BY <3>1, Ids
  <2>4. FirstDiff(map.diffs, from) = from + 1
    BY <1>4, <2>1, <2>2, <2>3
  <2> QED BY <1>5, <2>2, <2>4
<1>6. CASE from >= frozenAt /\ from # 0
  <2>1. from < N
    <3>1. CASE N = frozenAt
      <4>1. map.diffs[N + 1].from = 0
        BY <1>1, <3>1, Ids
      <4> QED BY <1>1, <1>2, <1>6, <4>1
    <3>2. CASE N # frozenAt
      <4>1. N + 1 > frozenAt + 1 /\ (N + 1) - 2 = N - 1 /\ N + 1 \in 1..(N + 1)
        BY <1>1, <3>2
      <4>2. map.diffs[N + 1].from = N - 1
        BY <4>1, Ids
      <4> QED BY <1>1, <1>2, <4>2
    <3> QED BY <3>1, <3>2
  <2>2. /\ from + 2 \in 1..(N + 1) /\ from + 2 > frozenAt + 1
        /\ (from + 2) - 2 = from
    BY <1>1, <1>6, <2>1
  <2>3. map.diffs[from + 2].from = from
    BY <2>2, Ids
  <2>4. ASSUME NEW i \in 1..((from + 2) - 1)
        PROVE  map.diffs[i].from < from
    <3>1. i \in 1..(N + 1) /\ i <= from + 1 /\ from > 0
      BY <1>1, <1>6, <2>1
    <3>2. CASE i <= frozenAt
      BY <1>1, <1>6, <3>1, <3>2, Ids
    <3>3. CASE i = frozenAt + 1
      BY <1>1, <3>1, <3>3, Ids
    <3>4. CASE i > frozenAt + 1
      BY <1>1, <3>1, <3>4, Ids
    <3> QED BY <1>1, <3>2, <3>3, <3>4
  <2>5. FirstDiff(map.diffs, from) = from + 2
    BY <1>4, <2>2, <2>3, <2>4
  <2>6. from \in frozenAt..(N - 1)
    BY <1>1, <1>6, <2>1
  <2> QED BY <2>3, <2>5, <2>6
<1> QED BY <1>1, <1>5, <1>6

\* Where the target is found: at the diff that ends there, or at the newest.
LEMMA TargetFound ==
    ASSUME HistoryInv, IsFrozen(map), NEW upto \in Nat, upto > 0
    PROVE  LET b == LastDiff(map.diffs, upto)
               e == Least(upto, map.updateId)
           IN  /\ ~TargetUnknown(map.diffs, upto)
               /\ b = IF upto >= frozenAt THEN e + 1 ELSE upto
               /\ b \in 1..Len(map.diffs)
               /\ map.diffs[b].upto = e
               /\ \A i \in 1..b : map.diffs[i].upto <= e
<1> DEFINE N == map.updateId
           A == NotAbove(map.diffs, upto)
           e == Least(upto, N)
           x == IF upto >= frozenAt THEN e + 1 ELSE upto
<1>1. /\ N \in Nat /\ frozenAt \in 0..N
      /\ Len(map.diffs) = N + 1 /\ DOMAIN map.diffs = 1..(N + 1)
    BY Ids
<1>2. /\ e \in Nat /\ e <= upto /\ e <= N /\ (e = upto \/ e = N)
      /\ x \in 1..(N + 1) /\ x = IF upto >= frozenAt THEN e + 1 ELSE upto
      /\ upto < frozenAt => e = upto
      /\ upto >= frozenAt => e >= frozenAt
    BY <1>1 DEF Least
<1> HIDE DEF e, x
<1>3. map.diffs[x].upto = e
  <2>1. CASE upto < frozenAt
    BY <1>1, <1>2, <2>1, Ids
  <2>2. CASE upto >= frozenAt /\ e = frozenAt
    BY <1>1, <1>2, <2>2, Ids
  <2>3. CASE upto >= frozenAt /\ e > frozenAt
    <3>1. x > frozenAt + 1 /\ x - 1 = e
      BY <1>1, <1>2, <2>3
    <3> QED BY <1>2, <3>1, Ids
  <2> QED BY <1>1, <1>2, <2>1, <2>2, <2>3
<1>4. ASSUME NEW i \in 1..x
      PROVE  map.diffs[i].upto <= e
  <2>1. i \in 1..(N + 1)
    BY <1>1, <1>2
  <2>2. CASE i <= frozenAt
    BY <1>1, <1>2, <2>1, <2>2, Ids
  <2>3. CASE i = frozenAt + 1
    BY <1>1, <1>2, <2>1, <2>3, Ids
  <2>4. CASE i > frozenAt + 1
    <3>1. map.diffs[i].upto = i - 1
      BY <2>1, <2>4, Ids
    <3>2. x = e + 1
      BY <1>1, <1>2, <2>4
    <3> QED BY <1>2, <3>1, <3>2
  <2> QED BY <1>1, <2>1, <2>2, <2>3, <2>4
<1>5. ASSUME NEW i \in 1..(N + 1), i > x
      PROVE  map.diffs[i].upto > upto
  <2>1. CASE i <= frozenAt
    BY <1>1, <1>2, <1>5, <2>1, Ids
  <2>2. CASE i = frozenAt + 1
    BY <1>1, <1>2, <1>5, <2>2, Ids
  <2>3. CASE i > frozenAt + 1
    BY <1>1, <1>2, <1>5, <2>3, Ids
  <2> QED BY <1>1, <2>1, <2>2, <2>3
<1>6. A \in SUBSET Int /\ x \in A
    BY <1>1, <1>2, <1>3 DEF NotAbove
<1>7. ASSUME NEW y \in A
      PROVE  y <= x
  <2>1. y \in 1..(N + 1) /\ map.diffs[y].upto <= upto
    BY <1>1 DEF NotAbove
  <2>2. map.diffs[y].upto \in Nat
    BY <1>1, <2>1, Ids
  <2>3. ~(y > x)
    BY <1>5, <2>1, <2>2
  <2> QED BY <1>2, <2>1, <2>3
<1>8. Max(A) = x
  <2> HIDE DEF A
  <2> QED BY <1>6, <1>7, MaxIs
<1>9. LastDiff(map.diffs, upto) = x
    BY <1>8 DEF LastDiff
<1>10. 1 \in 1..x
    BY <1>1, <1>2
<1>11. map.diffs[1].upto <= e
    BY <1>4, <1>10
<1>12. map.diffs[1].upto \in Nat
  <2>1. 1 \in 1..(N + 1)
    BY <1>1
  <2> QED BY <1>1, <2>1, Ids
<1>13. ~TargetUnknown(map.diffs, upto)
    BY <1>2, <1>6, <1>11, <1>12 DEF TargetUnknown
<1> QED BY <1>1, <1>2, <1>3, <1>4, <1>9, <1>13 DEF e

-----------------------------------------------------------------------------
(* The answers of get_diff.                                                *)

\* The two ways a forward request is answered.
LEMMA ForwardAnswer ==
    ASSUME HistoryInv, IsFrozen(map), NEW from \in Versions, NEW upto \in Nat, upto > from
    PROVE  LET a == FirstDiff(map.diffs, from)
               b == LastDiff(map.diffs, upto)
               e == Least(upto, map.updateId)
           IN  \/ GetDiff(map, from, upto) = FullDiff(map.data, map.updateId)
               \/ /\ GetDiff(map, from, upto) = Merge(SubSeq(map.diffs, a, b))
                  /\ a \in 1..Len(map.diffs) /\ b \in a..Len(map.diffs)
                  /\ map.diffs[a].from = from
                  /\ \/ (from < frozenAt \/ from = 0) /\ a = from + 1
                     \/ from \in frozenAt..(map.updateId - 1) /\ a = from + 2
                  /\ b = IF upto >= frozenAt THEN e + 1 ELSE upto
                  /\ map.diffs[b].upto = e
                  /\ \A i \in a..b : map.diffs[i].upto <= e
<1> DEFINE N == map.updateId
           e == Least(upto, N)
           a == FirstDiff(map.diffs, from)
           b == LastDiff(map.diffs, upto)
<1>1. /\ N \in Nat /\ frozenAt \in 0..N /\ from \in 0..N
      /\ Len(map.diffs) = N + 1
      /\ upto \in Nat /\ upto > from /\ upto > 0
    BY Ids DEF Versions
<1>2. /\ ~TargetUnknown(map.diffs, upto)
      /\ b = IF upto >= frozenAt THEN e + 1 ELSE upto
      /\ b \in 1..(N + 1)
      /\ map.diffs[b].upto = e
      /\ \A i \in 1..b : map.diffs[i].upto <= e
    BY <1>1, TargetFound
<1>3. CASE StartUnknown(map.diffs, from)
    BY <1>3 DEF GetDiff
<1>4. CASE ~StartUnknown(map.diffs, from)
  <2>1. /\ map.diffs[a].from = from
        /\ \/ (from < frozenAt \/ from = 0) /\ a = from + 1
           \/ from \in frozenAt..(N - 1) /\ a = from + 2
    BY <1>4, StartFound
  <2>2. GetDiff(map, from, upto) = Merge(SubSeq(map.diffs, a, b))
    BY <1>2, <1>4 DEF GetDiff
  <2>3. e = IF upto < N THEN upto ELSE N
    BY DEF Least
  <2> HIDE DEF a, b, e
  <2>4. a \in 1..(N + 1) /\ b \in a..(N + 1)
    <3> HIDE DEF N
    <3>1. e \in Nat /\ a \in Nat /\ b \in 1..(N + 1)
      BY <1>1, <1>2, <2>1, <2>3
    <3>2. a <= b
      BY <1>1, <1>2, <2>1, <2>3, <3>1
    <3>3. a >= 1
      BY <1>1, <2>1
    <3> QED BY <1>1, <3>1, <3>2, <3>3
  <2>5. \A i \in a..b : i \in 1..b
    BY <2>4
  <2> QED BY <1>1, <1>2, <2>1, <2>2, <2>4, <2>5 DEF a, b, e
<1> QED BY <1>3, <1>4

\* A forward request finds the two ends of its range in order.
LEMMA NoForwardPanic == HistoryInv => ForwardDiffNeverPanics
<1> SUFFICES ASSUME HistoryInv, IsFrozen(map),
                    NEW from \in 0..(map.updateId + 2), NEW upto \in Ahead(from)
             PROVE  ~GetDiffPanics(map, from, upto)
    BY DEF ForwardDiffNeverPanics
<1> DEFINE N == map.updateId
           e == Least(upto, N)
           a == FirstDiff(map.diffs, from)
           b == LastDiff(map.diffs, upto)
<1>1. /\ N \in Nat /\ frozenAt \in 0..N /\ from \in Nat
      /\ Len(map.diffs) = N + 1
      /\ upto \in Nat /\ upto > from /\ upto > 0
    BY Ids DEF Ahead, Lead
<1>2. map.diffs # << >>
    BY <1>1
<1>3. CASE StartUnknown(map.diffs, from)
    BY <1>2, <1>3 DEF GetDiffPanics
<1>4. CASE ~StartUnknown(map.diffs, from)
  <2>1. from \in Versions
    BY <1>1, <1>4, AheadIsUnknown DEF Versions
  <2>2. \/ (from < frozenAt \/ from = 0) /\ a = from + 1
        \/ from \in frozenAt..(N - 1) /\ a = from + 2
    BY <1>4, <2>1, StartFound
  <2>3. b = IF upto >= frozenAt THEN e + 1 ELSE upto
    BY <1>1, TargetFound
  <2>4. e = IF upto < N THEN upto ELSE N
    BY DEF Least
  <2>5. ~(a > b + 1)
    <3> HIDE DEF a, b, e, N
    <3>1. e \in Int /\ b \in Int /\ a \in Int
      BY <1>1, <2>2, <2>3, <2>4
    <3>2. b >= from + 1
      BY <1>1, <2>1, <2>3, <2>4, <3>1 DEF Versions, N
    <3>3. CASE a = from + 1
      BY <1>1, <3>1, <3>2, <3>3
    <3>4. CASE from \in frozenAt..(N - 1) /\ a = from + 2
      <4>1. upto >= frozenAt
        BY <1>1, <3>4
      <4>2. b = e + 1 /\ e >= from + 1
        BY <1>1, <2>3, <2>4, <3>4, <4>1
      <4> QED BY <1>1, <3>1, <3>4, <4>2
    <3> QED BY <2>2, <3>3, <3>4
  <2> QED BY <1>2, <2>5 DEF GetDiffPanics
<1> QED BY <1>3, <1>4

\* A start the history lacks is answered with the whole map, whatever the target.
LEMMA UnknownGetsAll ==
    ASSUME HistoryInv, IsFrozen(map), NEW from \in Nat, from > map.updateId,
           NEW upto \in Nat
    PROVE  GetsAll(from, upto)
<1>1. StartUnknown(map.diffs, from)
    BY AheadIsUnknown
<1>2. map.diffs # << >>
    BY Ids
<1> QED BY <1>1, <1>2 DEF GetsAll, GetDiff, GetDiffPanics

\* What FullDiff and Merge put into the fields the reader looks at.
LEMMA AnswerReaches ==
    ASSUME HistoryInv, IsFrozen(map), NEW from \in Versions, NEW upto \in Nat, upto > from
    PROVE  LET diff == GetDiff(map, from, upto)
           IN  /\ diff \in Diffs
               /\ diff.from <= from
               /\ diff.upto \in Least(upto, map.updateId)..map.updateId
<1> DEFINE N == map.updateId
           e == Least(upto, N)
           a == FirstDiff(map.diffs, from)
           b == LastDiff(map.diffs, upto)
           diff == GetDiff(map, from, upto)
<1>1. /\ N \in Nat /\ from \in 0..N /\ map.diffs \in Seq(Diffs)
      /\ upto \in Nat /\ e \in 0..N /\ map.data \in Contents
    BY Ids, HistoryTypes DEF Versions, Least, HistoryInv
<1>2. CASE diff = FullDiff(map.data, N)
  <2>1. diff \in Diffs
    BY <1>1, <1>2, FullDiffType
  <2> QED BY <1>1, <1>2, <2>1 DEF FullDiff, NewDiff
<1>3. ASSUME diff = Merge(SubSeq(map.diffs, a, b)),
             a \in 1..Len(map.diffs), b \in a..Len(map.diffs),
             map.diffs[a].from = from, map.diffs[b].upto = e,
             \A i \in a..b : map.diffs[i].upto <= e
      PROVE  diff \in Diffs /\ diff.from <= from /\ diff.upto \in e..N
  <2> HIDE DEF a, b, e, diff
  <2>1. diff \in Diffs /\ diff.upto = e /\ diff.from <= from
    BY <1>1, <1>3, MergedIds
  <2> QED BY <1>1, <2>1
<1> QED BY <1>2, <1>3, ForwardAnswer

LEMMA ReachesEnd == HistoryInv => ForwardDiffReaches
<1> SUFFICES ASSUME HistoryInv, IsFrozen(map),
                    NEW from \in Versions, NEW upto \in Ahead(from)
             PROVE  LET diff == GetDiff(map, from, upto)
                    IN  /\ diff.from <= from
                        /\ diff.upto \in Least(upto, map.updateId)..map.updateId
    BY DEF ForwardDiffReaches
<1>1. upto \in Nat /\ upto > from
    BY Ids DEF Versions, Ahead, Lead
<1> QED BY <1>1, AnswerReaches

\* Whatever id a forward request starts from, a known one or not, it is answered
\* with a diff that starts no later.
LEMMA AnswerStarts ==
    ASSUME HistoryInv, IsFrozen(map), NEW from \in Nat, NEW upto \in Nat, upto > from
    PROVE  LET diff == GetDiff(map, from, upto)
           IN  diff \in Diffs /\ diff.from <= from
<1>1. map.updateId \in Nat /\ map.data \in Contents
    BY HistoryTypes DEF HistoryInv
<1>2. CASE from <= map.updateId
    BY <1>1, <1>2, AnswerReaches DEF Versions
<1>3. CASE from > map.updateId
  <2>1. GetDiff(map, from, upto) = FullDiff(map.data, map.updateId)
    BY <1>3, AheadIsUnknown DEF GetDiff
  <2> QED BY <1>1, <2>1, FullDiffType DEF FullDiff, NewDiff
<1> QED BY <1>1, <1>2, <1>3

\* A full diff overrides whatever the reader has.
LEMMA FullDiffExact ==
    ASSUME HistoryInv, NEW from \in Versions
    PROVE  Overlay(hist[from], map.data) = hist[map.updateId]
<1>1. /\ map.data \in Contents /\ hist[from] \in Contents
      /\ hist[map.updateId] = map.data
    BY HistoryTypes DEF HistoryInv, Current
<1>2. KeysOf(hist[from]) \subseteq KeysOf(map.data)
    BY DEF HistoryInv, KeysKnown
<1> QED BY <1>1, <1>2 DEF Overlay, KeysOf, Contents

\* The contents of a merged diff, one key at a time.
LEMMA MergedExact ==
    ASSUME HistoryInv, IsFrozen(map), NEW from \in Versions,
           NEW e \in frozenAt..map.updateId,
           NEW a \in 1..(e + 1),
           \/ (from < frozenAt \/ from = 0) /\ a = from + 1
           \/ from \in frozenAt..e /\ a = from + 2,
           NEW k \in Keys
    PROVE  LET v == LastWritten(SubSeq(map.diffs, a, e + 1), k)
           IN  (IF v = Absent THEN hist[from][k] ELSE v) = hist[e][k]
<1> DEFINE N == map.updateId
           s == map.diffs
           v == LastWritten(SubSeq(s, a, e + 1), k)
<1>1. /\ N \in Nat /\ frozenAt \in 0..N /\ from \in 0..N
      /\ s \in Seq(Diffs) /\ Len(s) = N + 1
      /\ e \in 0..N /\ e \in frozenAt..N
      /\ a \in 1..Len(s) /\ e + 1 \in a..Len(s)
    BY Ids DEF Versions
<1>2. \/ /\ \A i \in a..(e + 1) : s[i].changes[k] = Absent
         /\ v = Absent
      \/ \E l \in a..(e + 1) :
             /\ s[l].changes[k] # Absent
             /\ \A j \in (l + 1)..(e + 1) : s[j].changes[k] = Absent
             /\ v = s[l].changes[k]
  <2> HIDE DEF s
  <2>1. e + 1 \in a..Len(s) /\ a \in 1..Len(s) /\ s \in Seq(Diffs)
    BY <1>1
  <2> DEFINE c == e + 1
  <2>2. c \in a..Len(s)
    BY <2>1
  <2> HIDE DEF c
  <2>3. LET w == LastWritten(SubSeq(s, a, c), k)
        IN  \/ /\ \A i \in a..c : s[i].changes[k] = Absent
               /\ w = Absent
            \/ \E l \in a..c :
                   /\ s[l].changes[k] # Absent
                   /\ \A j \in (l + 1)..c : s[j].changes[k] = Absent
                   /\ w = s[l].changes[k]
    BY <2>1, <2>2, MergedValue, SMTT(30)
  <2> QED BY <2>3 DEF c
<1>3. /\ \A i \in Base..(e + 1) :
             /\ Writes(i, k)
             /\ \A l \in (i + 1)..(e + 1) : ~Writes(l, k)
             => hist[e][k] = s[i].changes[k]
      /\ \A m \in frozenAt..e :
             (\A i \in (m + 2)..(e + 1) : ~Writes(i, k)) => hist[e][k] = hist[m][k]
    BY <1>1 DEF HistoryInv, LastWriteWins
<1>4. /\ \A i \in 1..(N + 1) : KeysOf(s[i].changes) \subseteq KeysOf(map.data)
      /\ \A n \in 0..N : KeysOf(hist[n]) \subseteq KeysOf(map.data)
      /\ KeysOf(hist[frozenAt]) = KeysOf(map.data)
    BY <1>1 DEF HistoryInv, KeysKnown, Versions
<1>5. s[Base].changes = hist[frozenAt]
    BY DEF HistoryInv, Layout, FullDiff, NewDiff
\* If the full diff of the freeze does not write the key, the map lacks it.
<1>6. ASSUME s[Base].changes[k] = Absent
      PROVE  k \notin KeysOf(map.data)
    BY <1>4, <1>5, <1>6 DEF KeysOf
<1> HIDE DEF s, v
<1>7. ASSUME NEW l \in a..(e + 1), s[l].changes[k] # Absent,
             \A j \in (l + 1)..(e + 1) : s[j].changes[k] = Absent,
             v = s[l].changes[k]
      PROVE  v = hist[e][k]
  <2>1. l >= Base
    <3>1. CASE l < Base
      <4>1. Base \in (l + 1)..(e + 1)
        BY <1>1, <3>1 DEF Base
      <4>2. k \notin KeysOf(map.data)
        BY <1>6, <1>7, <4>1
      <4>3. l \in 1..(N + 1)
        BY <1>1
      <4>4. k \notin KeysOf(s[l].changes)
        BY <1>4, <4>2, <4>3
      <4> QED BY <1>7, <4>4 DEF KeysOf
    <3> QED BY <1>1, <3>1 DEF Base
  <2>2. l \in Base..(e + 1)
    BY <1>1, <2>1 DEF Base
  <2> QED BY <1>3, <1>7, <2>2 DEF Writes, s
<1>8. ASSUME \A i \in a..(e + 1) : s[i].changes[k] = Absent
      PROVE  hist[from][k] = hist[e][k]
  <2>1. CASE (from < frozenAt \/ from = 0) /\ a = from + 1
    <3>1. Base \in a..(e + 1)
      BY <1>1, <2>1 DEF Base
    <3>2. k \notin KeysOf(map.data)
      BY <1>6, <1>8, <3>1
    <3>3. k \notin KeysOf(hist[from]) /\ k \notin KeysOf(hist[e])
      BY <1>1, <1>4, <3>2
    <3> QED BY <3>3 DEF KeysOf
  <2>2. CASE from \in frozenAt..e /\ a = from + 2
    <3>1. \A i \in (from + 2)..(e + 1) : ~Writes(i, k)
      BY <1>8, <2>2 DEF Writes, s
    <3> QED BY <1>3, <2>2, <3>1
  <2> QED BY <2>1, <2>2
<1>9. ASSUME NEW l \in a..(e + 1), s[l].changes[k] # Absent, v = s[l].changes[k]
      PROVE  v # Absent
    BY <1>9
<1>10. (IF v = Absent THEN hist[from][k] ELSE v) = hist[e][k]
  <2>1. CASE /\ \A i \in a..(e + 1) : s[i].changes[k] = Absent
             /\ v = Absent
    BY <1>8, <2>1
  <2>2. ASSUME NEW l \in a..(e + 1),
               s[l].changes[k] # Absent,
               \A j \in (l + 1)..(e + 1) : s[j].changes[k] = Absent,
               v = s[l].changes[k]
        PROVE  (IF v = Absent THEN hist[from][k] ELSE v) = hist[e][k]
    BY <1>7, <2>2
  <2> QED BY <1>2, <2>1, <2>2
<1> QED BY <1>10 DEF v, s

\* The answer, full or merged, takes the reader to a version of the history.
LEMMA AnswerExact ==
    ASSUME HistoryInv, IsFrozen(map), NEW from \in Versions,
           NEW upto \in Nat, upto > from, upto >= frozenAt
    PROVE  LET diff == GetDiff(map, from, upto)
           IN  Overlay(hist[from], diff.changes) = hist[diff.upto]
<1> DEFINE N == map.updateId
           e == Least(upto, N)
           a == FirstDiff(map.diffs, from)
           b == LastDiff(map.diffs, upto)
           diff == GetDiff(map, from, upto)
<1>1. /\ N \in Nat /\ from \in 0..N /\ frozenAt \in 0..N /\ map.diffs \in Seq(Diffs)
      /\ upto \in Nat /\ upto > from /\ e \in frozenAt..N
      /\ Len(map.diffs) = N + 1 /\ (e = upto \/ e = N)
    BY Ids DEF Versions, Least
<1>2. CASE diff = FullDiff(map.data, N)
  <2>1. diff.changes = map.data /\ diff.upto = N
    BY <1>2 DEF FullDiff, NewDiff
  <2> QED BY <2>1, FullDiffExact
<1>3. ASSUME diff = Merge(SubSeq(map.diffs, a, b)),
             a \in 1..Len(map.diffs), b \in a..Len(map.diffs),
             \/ (from < frozenAt \/ from = 0) /\ a = from + 1
             \/ from \in frozenAt..(N - 1) /\ a = from + 2,
             b = e + 1, map.diffs[b].upto = e,
             \A i \in a..b : map.diffs[i].upto <= e
      PROVE  Overlay(hist[from], diff.changes) = hist[diff.upto]
  <2> HIDE DEF a, b, e, diff
  <2>1. diff.upto = e
    BY <1>1, <1>3, MergedIds
  <2>2. diff.changes = [k \in Keys |-> LastWritten(SubSeq(map.diffs, a, b), k)]
    BY <1>3 DEF Merge, NewDiff
  <2>3. a \in 1..(e + 1) /\ (from \in frozenAt..(N - 1) => from \in frozenAt..e)
    BY <1>1, <1>3
  <2>4. ASSUME NEW k \in Keys
        PROVE  Overlay(hist[from], diff.changes)[k] = hist[e][k]
    <3> DEFINE v == LastWritten(SubSeq(map.diffs, a, e + 1), k)
    <3>1. (IF v = Absent THEN hist[from][k] ELSE v) = hist[e][k]
      BY <1>1, <1>3, <2>3, MergedExact
    <3>2. diff.changes[k] = v
      BY <1>3, <2>2
    <3> QED BY <3>1, <3>2 DEF Overlay
  <2>5. hist[e] \in Contents
    BY <1>1, HistoryTypes DEF HistoryInv, Versions
  <2> QED BY <2>1, <2>4, <2>5 DEF Overlay, Contents
<1> QED BY <1>2, <1>3, ForwardAnswer

LEMMA ForwardExact == HistoryInv => ForwardDiffExact
<1> SUFFICES ASSUME HistoryInv, IsFrozen(map),
                    NEW from \in Versions, NEW upto \in Ahead(from),
                    upto >= frozenAt
             PROVE  LET diff == GetDiff(map, from, upto)
                    IN  Overlay(hist[from], diff.changes) = hist[diff.upto]
    BY DEF ForwardDiffExact
<1>1. upto \in Nat /\ upto > from
    BY Ids DEF Versions, Ahead, Lead
<1> QED BY <1>1, AnswerExact

-----------------------------------------------------------------------------
(* The theorems.                                                           *)

\* Whatever version a reader of a frozen map has and whatever later one it
\* asks for, the diff takes it exactly to the version the diff names.
THEOREM DiffsAreExact == HSpec => []ForwardDiffExact
BY Invariance, ForwardExact, PTL

\* It starts no later than the reader and leads at least as far as asked.
THEOREM DiffsReach == HSpec => []ForwardDiffReaches
BY Invariance, ReachesEnd, PTL

\* A reader of a lost incarnation, ahead of the map by any number of ids, gets
\* everything, and get_diff does not panic on it, whatever target it names.
THEOREM StrangersGetAll ==
    HSpec => [](/\ UnknownVersionGetsAll
                /\ IsFrozen(map) =>
                       \A from \in Nat, upto \in Nat :
                           from > map.updateId => GetsAll(from, upto))
<1>1. HistoryInv => (IsFrozen(map) =>
                        \A from \in Nat, upto \in Nat :
                            from > map.updateId => GetsAll(from, upto))
    BY UnknownGetsAll
<1>2. HistoryInv => UnknownVersionGetsAll
  <2> SUFFICES ASSUME HistoryInv, IsFrozen(map),
                      NEW from \in (map.updateId + 1)..(map.updateId + Lead),
                      NEW upto \in 0..(map.updateId + Lead + 1)
               PROVE  GetsAll(from, upto)
    BY DEF UnknownVersionGetsAll
  <2>1. from \in Nat /\ from > map.updateId /\ upto \in Nat
    BY Ids DEF Lead
  <2> QED BY <2>1, UnknownGetsAll
<1> QED BY <1>1, <1>2, Invariance, PTL

\* No forward request to a frozen map panics under the locks of the server.
THEOREM NoPanic == HSpec => []ForwardDiffNeverPanics
BY Invariance, NoForwardPanic, PTL
=============================================================================

--------------------------- MODULE StateMapProofs ---------------------------
(***************************************************************************)
(* Proofs about StateMap and StateMapHistory, for every set of keys and    *)
(* values and every bound.                                                 *)
(***************************************************************************)
EXTENDS StateMapHistory, DiffProofs, SequenceTheorems

-----------------------------------------------------------------------------
(* The inductive invariant behind the promises of get_diff.  The history   *)
(* of a map consists of three stretches: the diffs of writes made before   *)
(* the freeze (the i-th leads from id i-1 to i), the full diff freeze adds *)
(* (from 0 to the id at the freeze), and the diffs of later writes (the    *)
(* i-th leads from id i-2 to i-1).                                         *)
Early == 1..frozenAt
Base  == frozenAt + 1
Later == (frozenAt + 2)..(map.updateId + 1)

Current ==
    /\ hist[map.updateId] = map.data
    /\ frozenAt <= map.updateId
    /\ ~IsFrozen(map) => frozenAt = map.updateId

Layout ==
    /\ Len(map.diffs) = IF IsFrozen(map) THEN map.updateId + 1 ELSE map.updateId
    /\ \A i \in Early : map.diffs[i].from = i - 1 /\ map.diffs[i].upto = i
    /\ IsFrozen(map) =>
           /\ map.diffs[Base] = FullDiff(hist[frozenAt], frozenAt)
           /\ \A i \in Later : map.diffs[i].from = i - 2 /\ map.diffs[i].upto = i - 1

\* Only push adds keys, and nothing removes one.
KeysKnown ==
    /\ \A i \in 1..Len(map.diffs) :
           KeysOf(map.diffs[i].changes) \subseteq KeysOf(map.data)
    /\ \A n \in Versions : KeysOf(hist[n]) \subseteq KeysOf(map.data)
    /\ IsFrozen(map) => /\ KeysOf(hist[frozenAt]) = KeysOf(map.data)
                        /\ map.hash.data = hist[frozenAt]

Writes(i, k) == map.diffs[i].changes[k] # Absent

\* From the freeze on, a version has for a key what the last diff wrote, and
\* without a write it has what an earlier version had.
LastWriteWins ==
    IsFrozen(map) =>
        \A n \in frozenAt..map.updateId : \A k \in Keys :
            /\ \A i \in Base..(n + 1) :
                   /\ Writes(i, k)
                   /\ \A l \in (i + 1)..(n + 1) : ~Writes(l, k)
                   => hist[n][k] = map.diffs[i].changes[k]
            /\ \A m \in frozenAt..n :
                   (\A i \in (m + 2)..(n + 1) : ~Writes(i, k))
                   => hist[n][k] = hist[m][k]

HistoryInv ==
    /\ HistoryTypeOK
    /\ AssertionsHold
    /\ Current
    /\ Layout
    /\ KeysKnown
    /\ LastWriteWins

-----------------------------------------------------------------------------
(* Types.                                                                  *)

LEMMA PushedType ==
    ASSUME NEW m \in StateMaps, NEW k \in Keys, NEW v \in Vals
    PROVE  Pushed(m, k, v) \in StateMaps
<1>1. [m.data EXCEPT ![k] = v] \in Contents
    BY DEF StateMaps, Contents, ValuesOrAbsent
<1>2. [m.order EXCEPT ![k] = @ + 1] \in [Keys -> Nat]
    BY DEF StateMaps
<1>3. Pushed(m, k, v) = [m EXCEPT !.data  = [m.data EXCEPT ![k] = v],
                                  !.order = [m.order EXCEPT ![k] = @ + 1]]
    BY DEF Pushed, StateMaps
<1> QED BY <1>1, <1>2, <1>3 DEF StateMaps

LEMMA FullDiffType ==
    ASSUME NEW c \in Contents, NEW n \in Nat
    PROVE  FullDiff(c, n) \in Diffs
BY DEF FullDiff, NewDiff, Diffs

LEMMA FrozenType ==
    ASSUME NEW m \in StateMaps
    PROVE  Frozen(m) \in StateMaps
<1> DEFINE full == FullDiff(m.data, m.updateId)
<1>1. full \in Diffs
    BY FullDiffType DEF StateMaps
<1>2. m.diffs \in Seq(Diffs)
    BY DEF StateMaps
<1>3. CalculateHash(m.order, m.data) \in Hashes
    BY DEF StateMaps, CalculateHash, Hashes
<1> HIDE DEF full
<1>4. Append(m.diffs, full) \in Seq(Diffs)
    BY <1>1, <1>2, AppendProperties
<1> QED BY <1>3, <1>4 DEF Frozen, StateMaps, full

LEMMA CommittedType ==
    ASSUME NEW m \in StateMaps, NEW c \in Contents
    PROVE  Committed(m, c) \in StateMaps
<1> DEFINE step == NewDiff(c, FALSE, m.updateId, m.updateId + 1)
           data == Overlay(m.data, c)
           all  == Append(m.diffs, step)
<1>1. m.updateId + 1 \in Nat
    BY DEF StateMaps
<1>2. step \in Diffs
    BY <1>1 DEF NewDiff, Diffs, StateMaps
<1>3. m.diffs \in Seq(Diffs)
    BY DEF StateMaps
<1>4. data \in Contents
    BY OverlayType DEF StateMaps
<1>5. all \in Seq(Diffs)
  <2> HIDE DEF step
  <2> QED BY <1>2, <1>3, AppendProperties
<1>6. Committed(m, c) = [m EXCEPT !.data     = data,
                                  !.updateId = m.updateId + 1,
                                  !.diffs    = all]
    BY DEF Committed
<1> HIDE DEF data, all
<1> QED BY <1>1, <1>4, <1>5, <1>6 DEF StateMaps

\* Every step of a StateMap keeps its fields in their types.
LEMMA TypeStep ==
    ASSUME TypeOK, [Next]_vars
    PROVE  TypeOK'
<1> USE DEF TypeOK
<1>1. ASSUME NEW k \in Keys, NEW v \in Vals, Push(k, v)
      PROVE  TypeOK'
    BY <1>1, PushedType DEF Push
<1>2. ASSUME NEW k \in Keys, NEW v \in Vals, Set(k, v)
      PROVE  TypeOK'
    BY <1>2, CommittedType, OnlyType DEF Set, WithKeySet
<1>3. ASSUME NEW k \in Keys, NEW v \in Vals, ModifierSet(k, v)
      PROVE  TypeOK'
    BY <1>3 DEF ModifierSet, NotBorrowed, Contents, ValuesOrAbsent
<1>4. ASSUME NEW b \in BOOLEAN, SetMaster(b)
      PROVE  TypeOK'
    BY <1>4 DEF SetMaster, StateMaps
<1>5. CASE Freeze
    BY <1>5, FrozenType DEF Freeze
<1>6. CASE BeginModification
    BY <1>6, NothingType DEF BeginModification
<1>7. CASE Commit
    BY <1>7, CommittedType DEF Commit, NotBorrowed
<1>8. CASE DropModifier
    BY <1>8 DEF DropModifier
<1>9. CASE UNCHANGED vars
    BY <1>9 DEF vars
<1> QED BY <1>1, <1>2, <1>3, <1>4, <1>5, <1>6, <1>7, <1>8, <1>9 DEF Next

\* In every state of every StateMap the fields have their types.
THEOREM TypeCorrect == Spec => []TypeOK
<1>1. Init => TypeOK
  <2>1. NewMap \in StateMaps
    BY NothingType DEF NewMap, StateMaps
  <2> QED BY <2>1 DEF Init, TypeOK
<1>2. TypeOK /\ [Next]_vars => TypeOK'
    BY TypeStep
<1> QED BY <1>1, <1>2, PTL DEF Spec

-----------------------------------------------------------------------------
(* The history.                                                            *)

\* The sequences a commit or a freeze appends to keep their old elements.
LEMMA Appended ==
    ASSUME NEW s \in Seq(Diffs), NEW d \in Diffs
    PROVE  /\ Len(Append(s, d)) = Len(s) + 1
           /\ \A i \in 1..Len(s) : Append(s, d)[i] = s[i]
           /\ Append(s, d)[Len(s) + 1] = d
BY AppendProperties

\* What Committed does to the fields of a map.
LEMMA CommittedFields ==
    ASSUME NEW m \in StateMaps, NEW c \in Contents
    PROVE  LET n == Committed(m, c)
               l == Len(m.diffs)
           IN  /\ n.data = Overlay(m.data, c)
               /\ n.order = m.order
               /\ n.updateId = m.updateId + 1
               /\ n.hash = m.hash
               /\ Len(n.diffs) = l + 1
               /\ \A i \in 1..l : n.diffs[i] = m.diffs[i]
               /\ n.diffs[l + 1].changes = c
               /\ n.diffs[l + 1].from = m.updateId
               /\ n.diffs[l + 1].upto = m.updateId + 1
<1> DEFINE step == NewDiff(c, FALSE, m.updateId, m.updateId + 1)
           n    == Committed(m, c)
           l    == Len(m.diffs)
<1>1. /\ n.data = Overlay(m.data, c)
      /\ n.order = m.order
      /\ n.updateId = m.updateId + 1
      /\ n.hash = m.hash
      /\ n.diffs = Append(m.diffs, step)
    BY DEF Committed, StateMaps
<1>2. step \in Diffs
    BY DEF NewDiff, Diffs, StateMaps
<1>3. step.changes = c /\ step.from = m.updateId /\ step.upto = m.updateId + 1
    BY DEF NewDiff
<1>4. m.diffs \in Seq(Diffs)
    BY DEF StateMaps
<1>5. /\ Len(Append(m.diffs, step)) = l + 1
      /\ \A i \in 1..l : Append(m.diffs, step)[i] = m.diffs[i]
      /\ Append(m.diffs, step)[l + 1] = step
  <2> HIDE DEF step
  <2> QED BY <1>2, <1>4, Appended
<1> HIDE DEF n, step
<1> QED BY <1>1, <1>3, <1>5 DEF n

\* A map whose contents, id, hash and history stay as they are keeps what
\* the invariant says of them.
LEMMA SameMap ==
    ASSUME Current, Layout, KeysKnown, LastWriteWins,
           map'.data = map.data, map'.updateId = map.updateId,
           map'.hash = map.hash, map'.diffs = map.diffs,
           hist' = hist, frozenAt' = frozenAt
    PROVE  Current' /\ Layout' /\ KeysKnown' /\ LastWriteWins'
<1>1. Current'
    BY DEF Current, IsFrozen
<1>2. Layout'
    BY DEF Layout, IsFrozen, Early, Base, Later
<1>3. KeysKnown'
    BY DEF KeysKnown, IsFrozen, Versions
<1>4. LastWriteWins'
    BY DEF LastWriteWins, IsFrozen, Base, Writes
<1> QED BY <1>1, <1>2, <1>3, <1>4

\* Recording a state in which neither contents nor id changed.
LEMMA SameHist ==
    ASSUME HistoryTypeOK, Current, Record,
           map'.data = map.data, map'.updateId = map.updateId
    PROVE  hist' = hist /\ frozenAt' = frozenAt
<1>1. map.updateId \in Nat
    BY DEF HistoryTypeOK, TypeOK, StateMaps
<1>2. hist' = hist
    BY <1>1 DEF HistoryTypeOK, Current, Record
<1>3. frozenAt' = frozenAt
    BY DEF Current, Record
<1> QED BY <1>2, <1>3

\* Types that the steps below need of the state before.
LEMMA HistoryTypes ==
    ASSUME HistoryTypeOK
    PROVE  /\ map \in StateMaps
           /\ map.updateId \in Nat /\ map.data \in Contents
           /\ map.diffs \in Seq(Diffs) /\ Len(map.diffs) \in Nat
           /\ frozenAt \in Nat
           /\ \A n \in Versions : hist[n] \in Contents
           /\ \A i \in 1..Len(map.diffs) : map.diffs[i] \in Diffs
BY DEF HistoryTypeOK, TypeOK, StateMaps, Versions

\* Recording a commit: the new version is added to the history.
LEMMA CommitRecorded ==
    ASSUME HistoryTypeOK, Current, Record, NEW c \in Contents,
           map' = Committed(map, c)
    PROVE  /\ map'.updateId = map.updateId + 1
           /\ map'.data = Overlay(map.data, c)
           /\ IsFrozen(map)' = IsFrozen(map)
           /\ hist' \in [0..map'.updateId -> Contents]
           /\ hist'[map'.updateId] = map'.data
           /\ \A n \in Versions : hist'[n] = hist[n]
           /\ frozenAt' = IF IsFrozen(map) THEN frozenAt ELSE map'.updateId
<1>1. map \in StateMaps /\ map.updateId \in Nat
    BY HistoryTypes
<1>2. /\ map'.data = Overlay(map.data, c)
      /\ map'.updateId = map.updateId + 1
      /\ map'.hash = map.hash
    BY <1>1, CommittedFields
<1>3. map'.data \in Contents
    BY <1>2, OverlayType, HistoryTypes
<1>4. \A n \in Versions : hist[n] \in Contents
    BY HistoryTypes
<1>5. hist' = [n \in 0..map'.updateId |->
                  IF n = map'.updateId THEN map'.data ELSE hist[n]]
    BY DEF Record
<1>6. \A n \in Versions : n \in 0..map'.updateId /\ n # map'.updateId
    BY <1>1, <1>2 DEF Versions
<1>7. \A n \in 0..map'.updateId : n = map'.updateId \/ n \in Versions
    BY <1>1, <1>2 DEF Versions
<1>8. hist' \in [0..map'.updateId -> Contents]
    BY <1>3, <1>4, <1>5, <1>7
<1>9. \A n \in Versions : hist'[n] = hist[n]
    BY <1>5, <1>6
<1>10. hist'[map'.updateId] = map'.data
    BY <1>1, <1>2, <1>5
<1>11. frozenAt' = IF IsFrozen(map) THEN frozenAt ELSE map'.updateId
    BY DEF Record
<1> QED BY <1>2, <1>8, <1>9, <1>10, <1>11 DEF IsFrozen

\* The diffs after a commit.
LEMMA CommitAppends ==
    ASSUME HistoryTypeOK, Layout, NEW c \in Contents, map' = Committed(map, c)
    PROVE  LET l == Len(map.diffs)
           IN  /\ Len(map'.diffs) = l + 1
               /\ \A i \in 1..l : map'.diffs[i] = map.diffs[i]
               /\ map'.diffs[l + 1].changes = c
               /\ map'.diffs[l + 1].from = map.updateId
               /\ map'.diffs[l + 1].upto = map.updateId + 1
               /\ l = IF IsFrozen(map) THEN map.updateId + 1 ELSE map.updateId
<1>1. map \in StateMaps
    BY HistoryTypes
<1> QED BY <1>1, CommittedFields DEF Layout

LEMMA CommitLayout ==
    ASSUME HistoryTypeOK, Current, Layout, Record, NEW c \in Contents,
           map' = Committed(map, c)
    PROVE  Current' /\ Layout'
<1> DEFINE N == map.updateId
           L == Len(map.diffs)
<1>1. /\ N \in Nat /\ frozenAt \in Nat /\ L \in Nat
      /\ frozenAt <= N
      /\ ~IsFrozen(map) => frozenAt = N
    BY HistoryTypes DEF Current
<1>2. /\ map'.updateId = N + 1
      /\ IsFrozen(map)' = IsFrozen(map)
      /\ hist'[N + 1] = map'.data
      /\ \A n \in 0..N : hist'[n] = hist[n]
      /\ frozenAt' = IF IsFrozen(map) THEN frozenAt ELSE N + 1
    BY CommitRecorded DEF Versions
<1>3. /\ Len(map'.diffs) = L + 1
      /\ \A i \in 1..L : map'.diffs[i] = map.diffs[i]
      /\ map'.diffs[L + 1].from = N
      /\ map'.diffs[L + 1].upto = N + 1
      /\ L = IF IsFrozen(map) THEN N + 1 ELSE N
    BY CommitAppends
<1>4. Current'
    BY <1>1, <1>2 DEF Current
<1>5. ASSUME NEW i \in 1..frozenAt'
      PROVE  map'.diffs[i].from = i - 1 /\ map'.diffs[i].upto = i
  <2>1. CASE i \in 1..frozenAt
    <3>1. i \in 1..L
      BY <1>1, <1>3, <2>1
    <3> QED BY <1>3, <2>1, <3>1 DEF Layout, Early
  <2>2. CASE i \notin 1..frozenAt
    <3>1. ~IsFrozen(map) /\ i = N + 1 /\ L = N
      BY <1>1, <1>2, <1>3, <1>5, <2>2
    <3> QED BY <1>1, <1>3, <3>1
  <2> QED BY <2>1, <2>2
<1>6. ASSUME IsFrozen(map)
      PROVE  /\ map'.diffs[frozenAt' + 1] = FullDiff(hist'[frozenAt'], frozenAt')
             /\ \A i \in (frozenAt' + 2)..(map'.updateId + 1) :
                    map'.diffs[i].from = i - 2 /\ map'.diffs[i].upto = i - 1
  <2>1. frozenAt' = frozenAt /\ L = N + 1
    BY <1>2, <1>3, <1>6
  <2>2. map'.diffs[frozenAt + 1] = FullDiff(hist'[frozenAt], frozenAt)
    <3>1. frozenAt + 1 \in 1..L /\ frozenAt \in 0..N
      BY <1>1, <2>1
    <3>2. map.diffs[frozenAt + 1] = FullDiff(hist[frozenAt], frozenAt)
      BY <1>6 DEF Layout, Base
    <3>3. hist'[frozenAt] = hist[frozenAt] /\ map'.diffs[frozenAt + 1] = map.diffs[frozenAt + 1]
      BY <1>2, <1>3, <3>1
    <3> QED BY <3>2, <3>3
  <2>3. ASSUME NEW i \in (frozenAt + 2)..(N + 2)
        PROVE  map'.diffs[i].from = i - 2 /\ map'.diffs[i].upto = i - 1
    <3>1. CASE i = N + 2
      <4>1. i = L + 1 /\ i - 2 = N /\ i - 1 = N + 1
        BY <1>1, <2>1, <3>1
      <4> QED BY <1>3, <4>1
    <3>2. CASE i # N + 2
      <4>1. i \in (frozenAt + 2)..(N + 1) /\ i \in 1..L
        BY <1>1, <2>1, <3>2
      <4>2. map.diffs[i].from = i - 2 /\ map.diffs[i].upto = i - 1
        BY <1>6, <4>1 DEF Layout, Later
      <4> QED BY <1>3, <4>1, <4>2
    <3> QED BY <3>1, <3>2
  <2>4. map'.updateId + 1 = N + 2
    BY <1>1, <1>2
  <2> QED BY <2>1, <2>2, <2>3, <2>4
<1>7. Len(map'.diffs) = IF IsFrozen(map)' THEN map'.updateId + 1 ELSE map'.updateId
    BY <1>1, <1>2, <1>3
<1>8. Layout'
    BY <1>2, <1>5, <1>6, <1>7 DEF Layout, Early, Base, Later
<1> QED BY <1>4, <1>8

LEMMA CommitKnown ==
    ASSUME HistoryTypeOK, Current, Layout, KeysKnown, Record, NEW c \in Contents,
           KeysOf(c) \subseteq KeysOf(map.data), map' = Committed(map, c)
    PROVE  KeysOf(map'.data) = KeysOf(map.data) /\ KeysKnown'
<1> DEFINE N == map.updateId
           L == Len(map.diffs)
           K == KeysOf(map.data)
<1>1. /\ N \in Nat /\ L \in Nat /\ map.data \in Contents
      /\ frozenAt <= N /\ frozenAt \in Nat
    BY HistoryTypes DEF Current
<1>2. /\ map'.updateId = N + 1
      /\ map'.data = Overlay(map.data, c)
      /\ IsFrozen(map)' = IsFrozen(map)
      /\ hist'[N + 1] = map'.data
      /\ \A n \in 0..N : hist'[n] = hist[n]
      /\ frozenAt' = IF IsFrozen(map) THEN frozenAt ELSE N + 1
    BY CommitRecorded DEF Versions
<1>3. KeysOf(map'.data) = K
    BY <1>1, <1>2, OverlayKeys
<1>4. ASSUME NEW i \in 1..Len(map'.diffs)
      PROVE  KeysOf(map'.diffs[i].changes) \subseteq K
  <2>1. /\ Len(map'.diffs) = L + 1
        /\ \A j \in 1..L : map'.diffs[j] = map.diffs[j]
        /\ map'.diffs[L + 1].changes = c
    BY CommitAppends
  <2>2. CASE i = L + 1
    BY <2>1, <2>2
  <2>3. CASE i # L + 1
    <3>1. i \in 1..L
      BY <1>1, <2>1, <2>3
    <3>2. KeysOf(map.diffs[i].changes) \subseteq K
      BY <3>1 DEF KeysKnown
    <3>3. map'.diffs[i] = map.diffs[i]
      BY <2>1, <3>1
    <3> QED BY <3>2, <3>3
  <2> QED BY <2>2, <2>3
<1>5. ASSUME NEW n \in 0..(N + 1)
      PROVE  KeysOf(hist'[n]) \subseteq K
  <2>1. CASE n = N + 1
    BY <1>2, <1>3, <2>1
  <2>2. CASE n # N + 1
    <3>1. n \in 0..N
      BY <1>1, <2>2
    <3> QED BY <1>2, <3>1 DEF KeysKnown, Versions
  <2> QED BY <2>1, <2>2
<1>6. ASSUME IsFrozen(map)
      PROVE  KeysOf(hist'[frozenAt']) = K /\ map'.hash.data = hist'[frozenAt']
  <2>1. frozenAt' = frozenAt /\ frozenAt \in 0..N
    BY <1>1, <1>2, <1>6
  <2>2. map'.hash = map.hash
    BY HistoryTypes, CommittedFields
  <2> QED BY <1>2, <1>6, <2>1, <2>2 DEF KeysKnown
<1>7. KeysKnown'
    BY <1>2, <1>3, <1>4, <1>5, <1>6 DEF KeysKnown, Versions
<1> QED BY <1>3, <1>7

LEMMA CommitWins ==
    ASSUME HistoryTypeOK, Current, Layout, LastWriteWins, Record,
           NEW c \in Contents, map' = Committed(map, c)
    PROVE  LastWriteWins'
<1> SUFFICES ASSUME IsFrozen(map)',
                    NEW n \in frozenAt'..map'.updateId, NEW k \in Keys
             PROVE  /\ \A i \in Base'..(n + 1) :
                           /\ Writes(i, k)'
                           /\ \A l \in (i + 1)..(n + 1) : ~Writes(l, k)'
                           => hist'[n][k] = map'.diffs[i].changes[k]
                    /\ \A m \in frozenAt'..n :
                           (\A i \in (m + 2)..(n + 1) : ~Writes(i, k)')
                           => hist'[n][k] = hist'[m][k]
    BY DEF LastWriteWins
<1> DEFINE N == map.updateId
           L == Len(map.diffs)
<1>1. /\ N \in Nat /\ L \in Nat /\ map.data \in Contents
      /\ frozenAt <= N /\ frozenAt \in Nat /\ hist[N] = map.data
    BY HistoryTypes DEF Current
<1>2. /\ map'.updateId = N + 1
      /\ map'.data = Overlay(map.data, c)
      /\ IsFrozen(map)
      /\ hist'[N + 1] = map'.data
      /\ \A j \in 0..N : hist'[j] = hist[j]
      /\ frozenAt' = frozenAt
    BY CommitRecorded DEF Versions
<1>3. /\ L = N + 1
      /\ Len(map'.diffs) = N + 2
      /\ \A i \in 1..(N + 1) : map'.diffs[i] = map.diffs[i]
      /\ map'.diffs[N + 2].changes = c
  <2>1. /\ L = N + 1
        /\ Len(map'.diffs) = L + 1
        /\ \A i \in 1..L : map'.diffs[i] = map.diffs[i]
        /\ map'.diffs[L + 1].changes = c
    BY <1>2, CommitAppends
  <2>2. L + 1 = N + 2
    BY <1>1, <2>1
  <2> QED BY <2>1, <2>2
<1>4. /\ \A i \in 1..(N + 1) : Writes(i, k)' <=> Writes(i, k)
      /\ \A i \in {N + 2} : Writes(i, k)' <=> c[k] # Absent
    BY <1>3 DEF Writes
<1>5. hist'[N + 1][k] = IF c[k] = Absent THEN hist[N][k] ELSE c[k]
    BY <1>1, <1>2 DEF Overlay
<1>6. Base' = frozenAt + 1 /\ n \in frozenAt..(N + 1)
    BY <1>2 DEF Base
<1>7. \A j \in frozenAt..N :
          /\ \A i \in (frozenAt + 1)..(j + 1) :
                 /\ Writes(i, k)
                 /\ \A l \in (i + 1)..(j + 1) : ~Writes(l, k)
                 => hist[j][k] = map.diffs[i].changes[k]
          /\ \A m \in frozenAt..j :
                 (\A i \in (m + 2)..(j + 1) : ~Writes(i, k)) => hist[j][k] = hist[m][k]
    BY <1>2 DEF LastWriteWins, Base
<1> HIDE DEF N, L
<1>8. ASSUME NEW i \in (frozenAt + 1)..(n + 1), Writes(i, k)',
             \A l \in (i + 1)..(n + 1) : ~Writes(l, k)'
      PROVE  hist'[n][k] = map'.diffs[i].changes[k]
  <2>1. CASE n \in frozenAt..N
    <3>1. /\ i \in 1..(N + 1) /\ n \in 0..N
          /\ \A l \in (i + 1)..(n + 1) : l \in 1..(N + 1)
      BY <1>1, <2>1
    <3>2. Writes(i, k) /\ \A l \in (i + 1)..(n + 1) : ~Writes(l, k)
      BY <1>4, <1>8, <3>1
    <3>3. hist[n][k] = map.diffs[i].changes[k]
      BY <1>7, <2>1, <3>2
    <3> QED BY <1>2, <1>3, <3>1, <3>3
  <2>2. CASE n = N + 1 /\ i = N + 2
    <3>1. c[k] # Absent
      <4>1. i \in {N + 2}
        BY <2>2
      <4> QED BY <1>4, <1>8, <4>1
    <3> QED BY <1>3, <1>5, <2>2, <3>1
  <2>3. CASE n = N + 1 /\ i # N + 2
    <3>1. /\ i \in (frozenAt + 1)..(N + 1) /\ i \in 1..(N + 1)
          /\ N + 2 \in (i + 1)..(n + 1) /\ N \in frozenAt..N
          /\ \A l \in (i + 1)..(N + 1) : l \in 1..(N + 1) /\ l \in (i + 1)..(n + 1)
      BY <1>1, <2>3
    <3>2. c[k] = Absent
      <4>1. \A l \in {N + 2} : ~Writes(l, k)'
        BY <1>8, <3>1
      <4> QED BY <1>4, <4>1
    <3>3. Writes(i, k) /\ \A l \in (i + 1)..(N + 1) : ~Writes(l, k)
      BY <1>4, <1>8, <3>1
    <3>4. hist[N][k] = map.diffs[i].changes[k]
      BY <1>7, <3>1, <3>3
    <3> QED BY <1>3, <1>5, <2>3, <3>1, <3>2, <3>4
  <2> QED BY <1>1, <1>6, <2>1, <2>2, <2>3
<1>9. ASSUME NEW m \in frozenAt..n, \A i \in (m + 2)..(n + 1) : ~Writes(i, k)'
      PROVE  hist'[n][k] = hist'[m][k]
  <2>1. CASE n \in frozenAt..N
    <3>1. /\ n \in 0..N /\ m \in 0..N
          /\ \A l \in (m + 2)..(n + 1) : l \in 1..(N + 1)
      BY <1>1, <2>1
    <3>2. \A l \in (m + 2)..(n + 1) : ~Writes(l, k)
      BY <1>4, <1>9, <3>1
    <3>3. hist[n][k] = hist[m][k]
      BY <1>7, <2>1, <3>2
    <3> QED BY <1>2, <3>1, <3>3
  <2>2. CASE m = n
    BY <2>2
  <2>3. CASE n = N + 1 /\ m # n
    <3>1. /\ m \in frozenAt..N /\ m \in 0..N
          /\ N + 2 \in (m + 2)..(n + 1) /\ N \in frozenAt..N
          /\ \A l \in (m + 2)..(N + 1) : l \in 1..(N + 1) /\ l \in (m + 2)..(n + 1)
      BY <1>1, <2>3
    <3>2. c[k] = Absent
      <4>1. \A l \in {N + 2} : ~Writes(l, k)'
        BY <1>9, <3>1
      <4> QED BY <1>4, <4>1
    <3>3. \A l \in (m + 2)..(N + 1) : ~Writes(l, k)
      BY <1>4, <1>9, <3>1
    <3>4. hist[N][k] = hist[m][k]
      BY <1>7, <3>1, <3>3
    <3> QED BY <1>2, <1>5, <2>3, <3>1, <3>2, <3>4
  <2> QED BY <1>1, <1>6, <2>1, <2>2, <2>3
<1> QED BY <1>2, <1>6, <1>8, <1>9

-----------------------------------------------------------------------------
(* The other steps.                                                        *)

\* Freeze gives the history its base: the full diff of the initial state.
LEMMA FreezeStep ==
    ASSUME HistoryTypeOK, AssertionsHold, Current, Layout, KeysKnown,
           Record, Freeze
    PROVE  AssertionsHold' /\ Current' /\ Layout' /\ KeysKnown' /\ LastWriteWins'
<1> DEFINE N    == map.updateId
           full == FullDiff(map.data, N)
<1>1. /\ map \in StateMaps
      /\ N \in Nat /\ frozenAt \in Nat /\ map.data \in Contents
      /\ map.diffs \in Seq(Diffs)
    BY HistoryTypes
<1>2. ~IsFrozen(map) /\ frozenAt = N /\ hist[N] = map.data /\ Len(map.diffs) = N
    BY DEF Freeze, Current, Layout
<1>3. /\ map'.data = map.data /\ map'.updateId = N /\ map'.order = map.order
      /\ map'.hash = CalculateHash(map.order, map.data)
      /\ map'.diffs = Append(map.diffs, full)
      /\ modifier' = modifier
    BY <1>1 DEF Freeze, Frozen, StateMaps
<1>4. hist' = hist /\ frozenAt' = frozenAt
    BY <1>3, SameHist
<1>5. map'.hash # NoHash /\ map'.hash.data = map.data
  <2>1. CalculateHash(map.order, map.data) \in Hashes
    BY <1>1 DEF StateMaps, CalculateHash, Hashes
  <2> QED BY <1>3, <2>1, NoHashIsNoHash DEF CalculateHash
<1>6. /\ Len(map'.diffs) = N + 1
      /\ \A i \in 1..N : map'.diffs[i] = map.diffs[i]
      /\ map'.diffs[N + 1] = full
  <2>1. full \in Diffs
    BY <1>1, FullDiffType
  <2> HIDE DEF full
  <2> QED BY <1>1, <1>2, <1>3, <2>1, Appended
<1>7. full.changes = map.data
    BY DEF FullDiff, NewDiff
<1>8. IsFrozen(map)'
    BY <1>5 DEF IsFrozen
<1> HIDE DEF full
<1>9. AssertionsHold'
    BY <1>3 DEF AssertionsHold, ContainsKey
<1>10. Current'
    BY <1>1, <1>2, <1>3, <1>4 DEF Current
<1>11. Layout'
  <2>1. \A i \in 1..N : map'.diffs[i].from = i - 1 /\ map'.diffs[i].upto = i
    BY <1>2, <1>6 DEF Layout, Early
  <2>2. map'.diffs[N + 1] = FullDiff(hist'[N], N)
    BY <1>2, <1>4, <1>6 DEF full
  <2>3. (N + 2)..(N + 1) = {}
    BY <1>1
  <2> QED BY <1>2, <1>3, <1>4, <1>6, <1>8, <2>1, <2>2, <2>3
          DEF Layout, Early, Base, Later
<1>12. KeysKnown'
  <2>1. ASSUME NEW i \in 1..(N + 1)
        PROVE  KeysOf(map'.diffs[i].changes) \subseteq KeysOf(map.data)
    <3>1. CASE i = N + 1
      BY <1>6, <1>7, <3>1
    <3>2. CASE i # N + 1
      <4>1. i \in 1..N
        BY <1>1, <3>2
      <4> QED BY <1>2, <1>6, <4>1 DEF KeysKnown
    <3> QED BY <3>1, <3>2
  <2>2. \A n \in 0..N : KeysOf(hist[n]) \subseteq KeysOf(map.data)
    BY DEF KeysKnown, Versions
  <2> QED BY <1>2, <1>3, <1>4, <1>5, <1>6, <2>1, <2>2 DEF KeysKnown, Versions
<1>13. LastWriteWins'
  <2>1. frozenAt'..map'.updateId = {N}
    BY <1>1, <1>2, <1>3, <1>4
  <2>2. (N + 1)..(N + 1) = {N + 1}
    BY <1>1
  <2>3. hist'[N] = map'.diffs[N + 1].changes
    BY <1>2, <1>4, <1>6, <1>7
  <2>4. frozenAt' = N /\ N..N = {N}
    BY <1>1, <1>2, <1>4
  <2> QED BY <2>1, <2>2, <2>3, <2>4 DEF LastWriteWins, Base
<1> QED BY <1>9, <1>10, <1>11, <1>12, <1>13

\* Push changes the contents of the map without giving them a new id.
LEMMA PushStep ==
    ASSUME HistoryTypeOK, AssertionsHold, Current, Layout, KeysKnown,
           Record, NEW k \in Keys, NEW v \in Vals, Push(k, v)
    PROVE  AssertionsHold' /\ Current' /\ Layout' /\ KeysKnown' /\ LastWriteWins'
<1> DEFINE N == map.updateId
<1>1. /\ map \in StateMaps
      /\ N \in Nat /\ frozenAt \in Nat /\ map.data \in Contents
      /\ map.order \in [Keys -> Nat]
    BY HistoryTypes DEF StateMaps
<1>2. ~IsFrozen(map) /\ frozenAt = N /\ Len(map.diffs) = N
    BY DEF Push, Current, Layout
<1>3. /\ map'.data = [map.data EXCEPT ![k] = v]
      /\ map'.order = [map.order EXCEPT ![k] = @ + 1]
      /\ map'.updateId = N /\ map'.hash = map.hash /\ map'.diffs = map.diffs
      /\ modifier' = modifier /\ modifier = NoModifier
    BY <1>1 DEF Push, Pushed, StateMaps, NotBorrowed
<1>4. /\ hist' = [n \in 0..N |-> IF n = N THEN map'.data ELSE hist[n]]
      /\ frozenAt' = N
    BY <1>2, <1>3 DEF Record
<1>5. ~IsFrozen(map)'
    BY <1>2, <1>3 DEF IsFrozen
<1>6. AssertionsHold'
  <2>1. ASSUME NEW key \in Keys
        PROVE  map'.order[key] > 0 <=> map'.data[key] # Absent
    BY <1>1, <1>3, AbsentIsNoValue DEF AssertionsHold, ContainsKey, Contents
  <2> QED BY <1>3, <2>1 DEF AssertionsHold, ContainsKey
<1>7. Current'
    BY <1>1, <1>3, <1>4 DEF Current
<1>8. Layout'
    BY <1>2, <1>3, <1>4, <1>5 DEF Layout, Early
<1>9. KeysKnown'
  <2>1. KeysOf(map.data) \subseteq KeysOf(map'.data)
    BY <1>1, <1>3, AbsentIsNoValue DEF KeysOf, Contents
  <2>2. ASSUME NEW n \in 0..N
        PROVE  KeysOf(hist'[n]) \subseteq KeysOf(map'.data)
    <3>1. CASE n = N
      BY <1>4, <3>1
    <3>2. CASE n # N
      <4>1. hist'[n] = hist[n]
        BY <1>4, <3>2
      <4> QED BY <2>1, <4>1 DEF KeysKnown, Versions
    <3> QED BY <3>1, <3>2
  <2>3. \A i \in 1..Len(map'.diffs) :
            KeysOf(map'.diffs[i].changes) \subseteq KeysOf(map'.data)
    BY <1>3, <2>1 DEF KeysKnown
  <2> QED BY <1>3, <1>5, <2>2, <2>3 DEF KeysKnown, Versions
<1>10. LastWriteWins'
    BY <1>5 DEF LastWriteWins
<1> QED BY <1>6, <1>7, <1>8, <1>9, <1>10

\* A commit of changes to known keys.
LEMMA CommitStep ==
    ASSUME HistoryInv, Record, NEW c \in Contents,
           KeysOf(c) \subseteq KeysOf(map.data), map' = Committed(map, c),
           modifier' = NoModifier
    PROVE  AssertionsHold' /\ Current' /\ Layout' /\ KeysKnown' /\ LastWriteWins'
<1> USE DEF HistoryInv
<1>1. Current' /\ Layout'
    BY CommitLayout
<1>2. KeysOf(map'.data) = KeysOf(map.data) /\ KeysKnown'
    BY CommitKnown
<1>3. LastWriteWins'
    BY CommitWins
<1>4. map'.order = map.order
    BY HistoryTypes, CommittedFields
<1>5. \A k \in Keys : ContainsKey(map, k)' <=> ContainsKey(map, k)
    BY <1>2 DEF KeysOf, ContainsKey
<1>6. AssertionsHold'
    BY <1>4, <1>5 DEF AssertionsHold
<1> QED BY <1>1, <1>2, <1>3, <1>6

\* A step that changes neither contents nor id nor hash nor history.
LEMMA QuietStep ==
    ASSUME HistoryInv, Record,
           map'.data = map.data, map'.updateId = map.updateId,
           map'.hash = map.hash, map'.diffs = map.diffs,
           map'.order = map.order,
           modifier' # NoModifier => KeysOf(modifier') \subseteq KeysOf(map.data)
    PROVE  AssertionsHold' /\ Current' /\ Layout' /\ KeysKnown' /\ LastWriteWins'
<1> USE DEF HistoryInv
<1>1. hist' = hist /\ frozenAt' = frozenAt
    BY SameHist
<1>2. AssertionsHold'
    BY DEF AssertionsHold, ContainsKey
<1> QED BY <1>1, <1>2, SameMap

\* The recorded history stays a history.
LEMMA HistoryTypeStep ==
    ASSUME HistoryTypeOK, Next, Record
    PROVE  HistoryTypeOK'
<1>1. TypeOK'
    BY TypeStep DEF HistoryTypeOK
<1>2. map'.updateId \in Nat /\ map'.data \in Contents
    BY <1>1 DEF TypeOK, StateMaps
<1>3. map'.updateId = map.updateId \/ map'.updateId = map.updateId + 1
  <2>1. map \in StateMaps
    BY HistoryTypes
  <2>2. \A c \in Contents : Committed(map, c).updateId = map.updateId + 1
    BY <2>1, CommittedFields
  <2>3. Frozen(map).updateId = map.updateId
    BY <2>1 DEF Frozen, StateMaps
  <2>4. \A k \in Keys, v \in Vals : Pushed(map, k, v).updateId = map.updateId
    BY <2>1 DEF Pushed, StateMaps
  <2>5. \A b \in BOOLEAN : [map EXCEPT !.isMaster = b].updateId = map.updateId
    BY <2>1 DEF StateMaps
  <2>6. modifier # NoModifier => modifier \in Contents
    BY DEF HistoryTypeOK, TypeOK
  <2>7. \A k \in Keys, v \in Vals : Only(k, v) \in Contents
    BY OnlyType
  <2> QED BY <2>2, <2>3, <2>4, <2>5, <2>6, <2>7
          DEF Next, Push, Set, ModifierSet, SetMaster, Freeze, BeginModification,
              Commit, DropModifier, NotBorrowed, WithKeySet
<1>4. \A n \in 0..map'.updateId : n = map'.updateId \/ n \in Versions
    BY <1>2, <1>3, HistoryTypes DEF Versions
<1>5. hist' \in [0..map'.updateId -> Contents]
    BY <1>2, <1>4, HistoryTypes DEF Record
<1>6. frozenAt' \in Nat
    BY <1>2, HistoryTypes DEF Record
<1> QED BY <1>1, <1>5, <1>6 DEF HistoryTypeOK

LEMMA HistoryStep ==
    ASSUME HistoryInv, [HNext]_hvars
    PROVE  HistoryInv'
<1>1. CASE UNCHANGED hvars
  <2>1. map' = map /\ modifier' = modifier /\ hist' = hist /\ frozenAt' = frozenAt
    BY <1>1 DEF hvars
  <2>2. HistoryTypeOK' /\ AssertionsHold'
    BY <2>1 DEF HistoryInv, HistoryTypeOK, TypeOK, AssertionsHold, ContainsKey
  <2> QED BY <2>1, <2>2, SameMap DEF HistoryInv
<1>2. CASE HNext
  <2> DEFINE Rest == AssertionsHold /\ Current /\ Layout /\ KeysKnown /\ LastWriteWins
  <2>1. Record /\ Next
    BY <1>2 DEF HNext
  <2>2. HistoryTypeOK'
    BY <2>1, HistoryTypeStep DEF HistoryInv
  <2>3. /\ map \in StateMaps
        /\ map.data \in Contents
        /\ modifier \in Contents \cup {NoModifier}
    BY HistoryTypes DEF HistoryInv, HistoryTypeOK, TypeOK
  <2>4. modifier # NoModifier => KeysOf(modifier) \subseteq KeysOf(map.data)
    BY DEF HistoryInv, AssertionsHold
  <2>5. ASSUME NEW k \in Keys, NEW v \in Vals, Push(k, v)
        PROVE  Rest'
    BY <2>1, <2>5, PushStep DEF HistoryInv
  <2>6. ASSUME NEW k \in Keys, NEW v \in Vals, Set(k, v)
        PROVE  Rest'
    <3>1. /\ map' = Committed(map, Only(k, v)) /\ modifier' = NoModifier
          /\ map.data[k] # Absent
      BY <2>6 DEF Set, WithKeySet, NotBorrowed, ContainsKey
    <3>2. KeysOf(Only(k, v)) \subseteq KeysOf(map.data)
      BY <3>1 DEF Only, Nothing, KeysOf
    <3> QED BY <2>1, <3>1, <3>2, OnlyType, CommitStep
  <2>7. ASSUME NEW k \in Keys, NEW v \in Vals, ModifierSet(k, v)
        PROVE  Rest'
    <3>1. /\ map' = map /\ modifier' = [modifier EXCEPT ![k] = v]
          /\ modifier # NoModifier /\ map.data[k] # Absent
      BY <2>7 DEF ModifierSet, NotBorrowed, ContainsKey
    <3>2. KeysOf(modifier') \subseteq KeysOf(map.data)
      BY <2>3, <2>4, <3>1 DEF KeysOf, Contents
    <3> QED BY <2>1, <3>1, <3>2, QuietStep
  <2>8. ASSUME NEW b \in BOOLEAN, SetMaster(b)
        PROVE  Rest'
    <3>1. /\ map'.data = map.data /\ map'.updateId = map.updateId
          /\ map'.hash = map.hash /\ map'.diffs = map.diffs
          /\ map'.order = map.order /\ modifier' = modifier
      BY <2>3, <2>8 DEF SetMaster, StateMaps
    <3> QED BY <2>1, <2>4, <3>1, QuietStep
  <2>9. ASSUME Freeze PROVE Rest'
    BY <2>1, <2>9, FreezeStep DEF HistoryInv
  <2>10. ASSUME BeginModification PROVE Rest'
    <3>1. map' = map /\ modifier' = Nothing
      BY <2>10 DEF BeginModification
    <3>2. KeysOf(modifier') \subseteq KeysOf(map.data)
      BY <3>1 DEF KeysOf, Nothing
    <3> QED BY <2>1, <3>1, <3>2, QuietStep
  <2>11. ASSUME Commit PROVE Rest'
    <3>1. /\ map' = Committed(map, modifier) /\ modifier' = NoModifier
          /\ modifier # NoModifier
      BY <2>11 DEF Commit, NotBorrowed
    <3> QED BY <2>1, <2>3, <2>4, <3>1, CommitStep
  <2>12. ASSUME DropModifier PROVE Rest'
    <3>1. map' = map /\ modifier' = NoModifier
      BY <2>12 DEF DropModifier
    <3> QED BY <2>1, <3>1, QuietStep
  <2>13. Rest'
    <3> HIDE DEF Rest
    <3> QED BY <2>1, <2>5, <2>6, <2>7, <2>8, <2>9, <2>10, <2>11, <2>12 DEF Next
  <2> QED BY <2>2, <2>13 DEF HistoryInv
<1> QED BY <1>1, <1>2

LEMMA HistoryInit == HInit => HistoryInv
<1> SUFFICES ASSUME HInit PROVE HistoryInv
    OBVIOUS
<1>1. /\ map = NewMap /\ modifier = NoModifier
      /\ hist = [n \in {0} |-> Nothing] /\ frozenAt = 0
    BY DEF HInit, Init
<1>2. /\ NewMap \in StateMaps /\ NewMap.data = Nothing /\ NewMap.updateId = 0
      /\ NewMap.hash = NoHash /\ NewMap.diffs = << >>
      /\ NewMap.order = [k \in Keys |-> 0]
    BY NothingType DEF NewMap, StateMaps
<1>3. Len(<< >>) = 0 /\ 0..0 = {0} /\ ~IsFrozen(map)
    BY <1>1, <1>2 DEF IsFrozen
<1>4. HistoryTypeOK
    BY <1>1, <1>2, <1>3, NothingType DEF HistoryTypeOK, TypeOK
<1>5. AssertionsHold
    BY <1>1, <1>2 DEF AssertionsHold, ContainsKey, Nothing
<1>6. Current
    BY <1>1, <1>2, <1>3 DEF Current
<1>7. Layout
    BY <1>1, <1>2, <1>3 DEF Layout, Early
<1>8. KeysKnown
    BY <1>1, <1>2, <1>3 DEF KeysKnown, Versions
<1>9. LastWriteWins
    BY <1>3 DEF LastWriteWins
<1> QED BY <1>4, <1>5, <1>6, <1>7, <1>8, <1>9 DEF HistoryInv

-----------------------------------------------------------------------------
(* The theorems.                                                           *)

\* The inductive invariant holds in every state of every life of a map.
THEOREM Invariance == HSpec => []HistoryInv
<1>1. HistoryInv /\ [HNext]_hvars => HistoryInv'
    BY HistoryStep
<1> QED BY <1>1, HistoryInit, PTL DEF HSpec

\* The map, the pending batch and the recorded versions keep their types.
THEOREM HistoryTypeCorrect == HSpec => []HistoryTypeOK
<1>1. HistoryInv => HistoryTypeOK
    BY DEF HistoryInv
<1> QED BY <1>1, Invariance, PTL

\* No assert! or expect of calculate_hash, set and commit fires.
THEOREM AssertionsNeverFail == HSpec => []AssertionsHold
<1>1. HistoryInv => AssertionsHold
    BY DEF HistoryInv
<1> QED BY <1>1, Invariance, PTL

\* The hash of a frozen map is that of a version its history still knows.
THEOREM HashNames == HSpec => []HashNamesBase
<1>1. HistoryInv => HashNamesBase
    BY HistoryTypes DEF HistoryInv, Current, KeysKnown, HashNamesBase, Versions
<1> QED BY <1>1, Invariance, PTL

\* No step changes a version a frozen map has given an id.
THEOREM VersionsStay == HSpec => VersionsImmutable
<1> DEFINE Kept == IsFrozen(map) => /\ map'.updateId >= map.updateId
                                    /\ \A n \in Versions : hist'[n] = hist[n]
<1>1. ASSUME HistoryInv, HNext
      PROVE  Kept
  <2>1. /\ HistoryTypeOK /\ Current /\ Record /\ Next
        /\ map \in StateMaps /\ map.updateId \in Nat
    BY <1>1, HistoryTypes DEF HistoryInv, HNext
  <2>2. ASSUME map'.data = map.data, map'.updateId = map.updateId
        PROVE  Kept
    BY <2>1, <2>2, SameHist
  <2>3. ASSUME NEW c \in Contents, map' = Committed(map, c)
        PROVE  Kept
    <3>1. map'.updateId = map.updateId + 1 /\ \A n \in Versions : hist'[n] = hist[n]
      BY <2>1, <2>3, CommitRecorded
    <3>2. map'.updateId >= map.updateId
      BY <2>1, <3>1
    <3> QED BY <3>1, <3>2
  <2>4. ASSUME NEW k \in Keys, NEW v \in Vals, Set(k, v)
        PROVE  Kept
    BY <2>3, <2>4, OnlyType DEF Set, WithKeySet
  <2>5. ASSUME NEW b \in BOOLEAN, SetMaster(b)
        PROVE  Kept
    BY <2>5 DEF SetMaster
  <2>6. CASE Commit
    <3>1. modifier \in Contents /\ map' = Committed(map, modifier)
      BY <2>1, <2>6 DEF Commit, NotBorrowed, HistoryTypeOK, TypeOK
    <3> QED BY <2>3, <3>1
  <2>7. ASSUME NEW k \in Keys, NEW v \in Vals, Push(k, v)
        PROVE  Kept
    BY <2>7 DEF Push
  <2>8. ASSUME NEW k \in Keys, NEW v \in Vals, ModifierSet(k, v)
        PROVE  Kept
    BY <2>2, <2>8 DEF ModifierSet
  <2>9. CASE Freeze
    BY <2>9 DEF Freeze
  <2>10. CASE BeginModification \/ DropModifier
    BY <2>2, <2>10 DEF BeginModification, DropModifier
  <2> HIDE DEF Kept
  <2> QED BY <2>1, <2>4, <2>5, <2>6, <2>7, <2>8, <2>9, <2>10 DEF Next
<1>2. ASSUME HistoryInv, UNCHANGED hvars
      PROVE  Kept
    BY <1>2, HistoryTypes DEF hvars, HistoryInv
<1>3. HistoryInv /\ [HNext]_hvars => [Kept]_hvars
    BY <1>1, <1>2
<1> QED BY <1>3, Invariance, PTL DEF HSpec, VersionsImmutable
=============================================================================

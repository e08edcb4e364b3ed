----------------------------- MODULE DiffProofs -----------------------------
(***************************************************************************)
(* Lemmas about the operators of module Diff: what overlaying and merging  *)
(* diffs returns, stated without Min and Max.                              *)
(***************************************************************************)
EXTENDS Diff, WellFoundedInduction, TLAPS

-----------------------------------------------------------------------------
(* Minimum and maximum of sets of numbers.                                 *)

\* Max(S) is the element of S that is above all others.
LEMMA MaxIs ==
    ASSUME NEW S \in SUBSET Int, NEW x \in S, \A y \in S : y <= x
    PROVE  Max(S) = x
<1>1. \A z \in S : (\A y \in S : z >= y) => z = x
    OBVIOUS
<1>2. \A y \in S : x >= y
    OBVIOUS
<1>3. Max(S) \in S /\ \A y \in S : Max(S) >= y
    BY <1>2, Zenon DEF Max
<1> QED BY <1>1, <1>3

\* Min(S) is the element of S that is below all others.
LEMMA MinIs ==
    ASSUME NEW S \in SUBSET Int, NEW x \in S, \A y \in S : x <= y
    PROVE  Min(S) = x
<1>1. \A z \in S : (\A y \in S : z <= y) => z = x
    OBVIOUS
<1>2. Min(S) \in S /\ \A y \in S : Min(S) <= y
    BY Zenon DEF Min
<1> QED BY <1>1, <1>2

\* A non-empty set of natural numbers has a minimum.
LEMMA MinOfNats ==
    ASSUME NEW S \in SUBSET Nat, S # {}
    PROVE  Min(S) \in S /\ \A y \in S : Min(S) <= y
<1>1. PICK x \in S : \A y \in S : ~(<<y, x>> \in OpToRel(<, Nat))
    BY NatLessThanWellFounded, WFMin
<1>2. ASSUME NEW y \in S
      PROVE  x <= y
  <2>1. CASE y < x
    <3>1. <<y, x>> \in OpToRel(<, Nat)
        BY <2>1 DEF OpToRel
    <3> QED BY <1>1, <3>1
  <2> QED BY <2>1
<1> QED BY <1>2, MinIs

\* A non-empty bounded set of natural numbers has a maximum.
LEMMA MaxOfBounded ==
    ASSUME NEW b \in Nat, NEW S \in SUBSET (0..b), S # {}
    PROVE  /\ Max(S) \in S
           /\ \A y \in S : y <= Max(S)
<1> DEFINE T == {b - y : y \in S}
<1>0. PICK z \in S : TRUE
    OBVIOUS
<1>1. T \subseteq Nat /\ T # {}
  <2>1. \A y \in S : b - y \in Nat
    OBVIOUS
  <2>2. b - z \in T
    OBVIOUS
  <2> QED BY <2>1, <2>2
<1>2. Min(T) \in T /\ \A y \in T : Min(T) <= y
  <2> HIDE DEF T
  <2> QED BY <1>1, MinOfNats
<1>3. PICK x \in S : Min(T) = b - x
    BY <1>2
<1>4. ASSUME NEW y \in S
      PROVE  y <= x
  <2>1. b - y \in T
    OBVIOUS
  <2>2. b - x <= b - y
    BY <1>2, <1>3, <2>1
  <2>3. b \in Int /\ x \in Int /\ y \in Int
    OBVIOUS
  <2> QED BY <2>2, <2>3
<1> QED BY <1>3, <1>4, MaxIs

-----------------------------------------------------------------------------
(* Contents and diffs.                                                     *)

LEMMA NothingType == Nothing \in Contents
BY DEF Nothing, Contents, ValuesOrAbsent

LEMMA OnlyType ==
    ASSUME NEW k \in Keys, NEW v \in Vals
    PROVE  Only(k, v) \in Contents
BY NothingType DEF Only, Contents, ValuesOrAbsent

LEMMA OverlayType ==
    ASSUME NEW c \in Contents, NEW d \in Contents
    PROVE  Overlay(c, d) \in Contents
BY DEF Overlay, Contents

\* Inserting changes that write only known keys keeps the set of keys.
LEMMA OverlayKeys ==
    ASSUME NEW c \in Contents, NEW d \in Contents,
           KeysOf(d) \subseteq KeysOf(c)
    PROVE  KeysOf(Overlay(c, d)) = KeysOf(c)
BY DEF Overlay, KeysOf, Contents

\* The last diff of a sequence that writes a key decides the merged value.
LEMMA LastWriterDecides ==
    ASSUME NEW s \in Seq(Diffs), NEW k \in Keys,
           NEW i \in 1..Len(s), s[i].changes[k] # Absent,
           \A j \in (i + 1)..Len(s) : s[j].changes[k] = Absent
    PROVE  LastWritten(s, k) = s[i].changes[k]
<1>1. i \in Writers(s, k) /\ Writers(s, k) \in SUBSET Int
    BY DEF Writers
<1>2. \A j \in Writers(s, k) : j <= i
    BY DEF Writers
<1>3. Max(Writers(s, k)) = i
    BY <1>1, <1>2, MaxIs
<1> QED BY <1>1, <1>3 DEF LastWritten

\* A key no diff writes is absent from the merged diff.
LEMMA NoWriterNoEntry ==
    ASSUME NEW s \in Seq(Diffs), NEW k \in Keys,
           \A i \in 1..Len(s) : s[i].changes[k] = Absent
    PROVE  LastWritten(s, k) = Absent
BY DEF LastWritten, Writers

\* Among the diffs that write a key, one is last.
LEMMA SomeWriterIsLast ==
    ASSUME NEW s \in Seq(Diffs), NEW k \in Keys,
           NEW i \in 1..Len(s), s[i].changes[k] # Absent
    PROVE  \E l \in i..Len(s) :
               /\ s[l].changes[k] # Absent
               /\ \A j \in (l + 1)..Len(s) : s[j].changes[k] = Absent
<1> DEFINE W == Writers(s, k)
<1>1. /\ Len(s) \in Nat
      /\ W \in SUBSET (0..Len(s))
      /\ W # {}
      /\ i \in W
    BY DEF Writers
<1>2. Max(W) \in W /\ \A j \in W : j <= Max(W)
  <2> HIDE DEF W
  <2> QED BY <1>1, MaxOfBounded
<1>3. ASSUME NEW j \in (Max(W) + 1)..Len(s)
      PROVE  s[j].changes[k] = Absent
  <2>1. Max(W) \in 1..Len(s)
    BY <1>2 DEF Writers
  <2>2. j \in 1..Len(s) /\ ~(j <= Max(W))
    BY <2>1
  <2>3. j \notin W
    BY <1>2, <2>2
  <2> QED BY <2>2, <2>3 DEF Writers
<1>4. Max(W) \in i..Len(s) /\ s[Max(W)].changes[k] # Absent
    BY <1>1, <1>2 DEF Writers
<1> QED BY <1>3, <1>4

\* A merged value is that of one of the diffs, so merging yields a diff's
\* payload.
LEMMA LastWrittenType ==
    ASSUME NEW s \in Seq(Diffs), NEW k \in Keys
    PROVE  LastWritten(s, k) \in ValuesOrAbsent
<1>1. CASE \A i \in 1..Len(s) : s[i].changes[k] = Absent
    BY <1>1, NoWriterNoEntry DEF ValuesOrAbsent
<1>2. ASSUME NEW i \in 1..Len(s), s[i].changes[k] # Absent
      PROVE  LastWritten(s, k) \in ValuesOrAbsent
  <2>1. PICK l \in i..Len(s) :
               /\ s[l].changes[k] # Absent
               /\ \A j \in (l + 1)..Len(s) : s[j].changes[k] = Absent
    BY <1>2, SomeWriterIsLast
  <2>2. LastWritten(s, k) = s[l].changes[k] /\ s[l] \in Diffs
    BY <2>1, LastWriterDecides
  <2> QED BY <2>2 DEF Diffs, Contents
<1> QED BY <1>1, <1>2

\* merge starts at or below the from id of each of its diffs and ends at the
\* largest upto id.
LEMMA MergeIds ==
    ASSUME NEW s \in Seq(Diffs),
           NEW i \in 1..Len(s),
           \A j \in 1..Len(s) : s[j].upto <= s[i].upto
    PROVE  /\ Merge(s).upto = s[i].upto
           /\ Merge(s).from \in Nat
           /\ \A j \in 1..Len(s) : Merge(s).from <= s[j].from
<1> DEFINE F == {MaxU64} \cup {s[j].from : j \in DOMAIN s}
           U == {0} \cup {s[j].upto : j \in DOMAIN s}
<1>0. ASSUME NEW j \in 1..Len(s)
      PROVE  s[j].from \in Nat /\ s[j].upto \in Nat
  <2>1. s[j] \in Diffs
    OBVIOUS
  <2> QED BY <2>1 DEF Diffs
<1>1. F \in SUBSET Nat /\ MaxU64 \in F
    BY <1>0, MaxU64IsNat
<1>2. Min(F) \in F /\ \A y \in F : Min(F) <= y
  <2> HIDE DEF F
  <2> QED BY <1>1, MinOfNats
<1>3. U \in SUBSET Int /\ s[i].upto \in U /\ \A y \in U : y <= s[i].upto
    BY <1>0
<1>4. Max(U) = s[i].upto
  <2> HIDE DEF U
  <2> QED BY <1>3, MaxIs
<1>5. Merge(s).upto = Max(U) /\ Merge(s).from = Min(F)
    BY DEF Merge, NewDiff
<1>6. Merge(s).from \in Nat
    BY <1>1, <1>2, <1>5
<1>7. \A j \in 1..Len(s) : s[j].from \in F
    OBVIOUS
<1> QED BY <1>2, <1>4, <1>5, <1>6, <1>7
=============================================================================

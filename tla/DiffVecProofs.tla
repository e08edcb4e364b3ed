--------------------------- MODULE DiffVecProofs ----------------------------
(***************************************************************************)
(* Proofs about DiffVec: inserting the entries of Vecs, and compress, for  *)
(* every history of a frozen map with finitely many keys.                  *)
(***************************************************************************)
EXTENDS DiffVec, GetDiffProofs, FiniteSetTheorems

-----------------------------------------------------------------------------
(* Inserting entries.                                                      *)

Pairs == Keys \X Vals

\* Counting down from a number that lacks a property ends at 0.
LEMMA CountUp ==
    ASSUME NEW L \in Nat, NEW G \in SUBSET (0..L), 0 \in G,
           \A n \in 1..L : n - 1 \in G => n \in G
    PROVE  G = 0..L
<1> DEFINE B == (0..L) \ G
<1>1. SUFFICES ASSUME B # {} PROVE FALSE
    OBVIOUS
<1>2. B \in SUBSET Nat
    OBVIOUS
<1>3. Min(B) \in B /\ \A y \in B : Min(B) <= y
  <2> HIDE DEF B
  <2> QED BY <1>1, <1>2, MinOfNats
<1>4. PICK n \in B : \A y \in B : n <= y
    BY <1>3
<1>5. n \in 1..L /\ n - 1 \in 0..L /\ ~(n <= n - 1)
    BY <1>4
<1>6. n - 1 \notin B
    BY <1>4, <1>5
<1> QED BY <1>4, <1>5, <1>6

\* The position of the last of the first n entries that has a key, or 0.
LastAt(pairs, k, n) ==
    LET P == {j \in 1..n : pairs[j][1] = k}
    IN  IF P = {} THEN 0 ELSE Max(P)

LEMMA LastAtIs ==
    ASSUME NEW pairs \in Seq(Pairs), NEW k, NEW n \in 0..Len(pairs)
    PROVE  LET l == LastAt(pairs, k, n)
           IN  /\ l \in 0..n
               /\ l > 0 => pairs[l][1] = k
               /\ \A j \in 1..n : pairs[j][1] = k => j <= l
<1> DEFINE P == {j \in 1..n : pairs[j][1] = k}
<1>1. n \in Nat /\ P \in SUBSET (0..n)
    OBVIOUS
<1>2. CASE P = {}
    BY <1>2 DEF LastAt
<1>3. CASE P # {}
  <2>1. Max(P) \in P /\ \A j \in P : j <= Max(P)
    <3> HIDE DEF P
    <3> QED BY <1>1, <1>3, MaxOfBounded
  <2>2. LastAt(pairs, k, n) = Max(P)
    BY <1>3 DEF LastAt
  <2> QED BY <2>1, <2>2
<1> QED BY <1>2, <1>3

\* What the contents are after the first n entries.
AfterFirst(contents, pairs, n) ==
    [k \in Keys |-> IF LastAt(pairs, k, n) = 0
                    THEN contents[k] ELSE pairs[LastAt(pairs, k, n)][2]]

LEMMA AfterNext ==
    ASSUME NEW c \in Contents, NEW pairs \in Seq(Pairs)
    PROVE  /\ AfterFirst(c, pairs, 0) = c
           /\ \A n \in 1..Len(pairs) :
                  AfterFirst(c, pairs, n) = Insert(AfterFirst(c, pairs, n - 1), pairs[n])
<1>0. Len(pairs) \in Nat
    OBVIOUS
<1>1. \A k \in Keys : LastAt(pairs, k, 0) = 0
    BY DEF LastAt
<1>2. AfterFirst(c, pairs, 0) = c
    BY <1>1 DEF AfterFirst, Contents
<1>3. ASSUME NEW n \in 1..Len(pairs)
      PROVE  AfterFirst(c, pairs, n) = Insert(AfterFirst(c, pairs, n - 1), pairs[n])
  <2>0. n - 1 \in 0..Len(pairs) /\ n \in 0..Len(pairs) /\ pairs[n] \in Pairs
    OBVIOUS
  <2>1. ASSUME NEW k \in Keys, pairs[n][1] = k
        PROVE  LastAt(pairs, k, n) = n
    BY <2>0, <2>1, LastAtIs
  <2>2. ASSUME NEW k \in Keys, pairs[n][1] # k
        PROVE  LastAt(pairs, k, n) = LastAt(pairs, k, n - 1)
    <3> DEFINE l == LastAt(pairs, k, n)
               m == LastAt(pairs, k, n - 1)
    <3>1. /\ l \in 0..n
          /\ l > 0 => pairs[l][1] = k
          /\ \A j \in 1..n : pairs[j][1] = k => j <= l
      BY <2>0, LastAtIs
    <3>2. /\ m \in 0..(n - 1)
          /\ m > 0 => pairs[m][1] = k
          /\ \A j \in 1..(n - 1) : pairs[j][1] = k => j <= m
      BY <2>0, LastAtIs
    <3>3. l # n
      BY <2>2, <3>1
    <3> HIDE DEF l, m
    <3>4. l <= m
      BY <3>1, <3>2, <3>3
    <3>5. m <= l
      BY <3>1, <3>2
    <3> QED BY <3>1, <3>2, <3>4, <3>5 DEF l, m
  <2>3. \A k \in Keys : AfterFirst(c, pairs, n)[k]
            = IF pairs[n][1] = k THEN pairs[n][2] ELSE AfterFirst(c, pairs, n - 1)[k]
    <3>1. ASSUME NEW k \in Keys
          PROVE  AfterFirst(c, pairs, n)[k]
            = IF pairs[n][1] = k THEN pairs[n][2] ELSE AfterFirst(c, pairs, n - 1)[k]
      <4>1. CASE pairs[n][1] = k
        BY <2>1, <4>1 DEF AfterFirst
      <4>2. CASE pairs[n][1] # k
        BY <2>2, <4>2 DEF AfterFirst
      <4> QED BY <4>1, <4>2
    <3> QED BY <3>1
  <2>4. /\ AfterFirst(c, pairs, n) = [k \in Keys |-> AfterFirst(c, pairs, n)[k]]
        /\ DOMAIN AfterFirst(c, pairs, n - 1) = Keys
    BY DEF AfterFirst
  <2> QED BY <2>0, <2>3, <2>4 DEF Insert, Pairs
<1> QED BY <1>2, <1>3

\* Inserting all entries leaves every key with the value of its last entry.
LEMMA InsertAllIs ==
    ASSUME NEW c \in Contents, NEW pairs \in Seq(Pairs)
    PROVE  InsertAll(c, pairs) = AfterFirst(c, pairs, Len(pairs))
<1> DEFINE L == Len(pairs)
           f == [n \in 0..L |-> AfterFirst(c, pairs, n)]
           step(g) == [n \in 0..L |-> IF n = 0 THEN c ELSE Insert(g[n - 1], pairs[n])]
           g == CHOOSE h : h = step(h)
<1>1. InsertAll(c, pairs) = g[L] /\ L \in Nat
    BY DEF InsertAll
<1>2. f = step(f)
    BY AfterNext
<1>3. g = step(g)
    BY <1>2
<1>4. /\ f[0] = c
      /\ \A n \in 1..L : f[n] = Insert(f[n - 1], pairs[n])
    BY <1>1, AfterNext
<1>5. /\ g[0] = c
      /\ \A n \in 1..L : g[n] = Insert(g[n - 1], pairs[n])
  <2> HIDE DEF g
  <2> QED BY <1>1, <1>3
<1> DEFINE G == {n \in 0..L : g[n] = f[n]}
<1> HIDE DEF f, g
<1>6. G = 0..L
  <2>1. 0 \in G /\ \A n \in 1..L : n - 1 \in G => n \in G
    BY <1>1, <1>4, <1>5
  <2> HIDE DEF G
  <2>2. G \in SUBSET (0..L)
    BY DEF G
  <2> QED BY <1>1, <2>1, <2>2, CountUp
<1>7. g[L] = f[L]
    BY <1>1, <1>6
<1> QED BY <1>1, <1>7 DEF f

LEMMA InsertAllType ==
    ASSUME NEW c \in Contents, NEW pairs \in Seq(Pairs)
    PROVE  InsertAll(c, pairs) \in Contents
<1>1. ASSUME NEW k \in Keys, LastAt(pairs, k, Len(pairs)) # 0
      PROVE  pairs[LastAt(pairs, k, Len(pairs))][2] \in Vals
  <2>1. LastAt(pairs, k, Len(pairs)) \in 1..Len(pairs)
    BY <1>1, LastAtIs
  <2> QED BY <2>1 DEF Pairs
<1> QED BY <1>1, InsertAllIs DEF AfterFirst, Contents, ValuesOrAbsent

-----------------------------------------------------------------------------
(* A Vec that holds the entries of a HashMap.                              *)

\* In some order, each at least once.
Lists(vec, contents) ==
    /\ vec \in Seq(Pairs)
    /\ \A j \in 1..Len(vec) : vec[j] \in Entries(contents)
    /\ \A k \in KeysOf(contents) : \E j \in 1..Len(vec) : vec[j] = <<k, contents[k]>>

\* To insert these entries after others is to overlay the HashMap.
LEMMA InsertListed ==
    ASSUME NEW c \in Contents, NEW m \in Contents,
           NEW pairs \in Seq(Pairs), NEW vec, Lists(vec, m)
    PROVE  InsertAll(c, pairs \o vec) = Overlay(InsertAll(c, pairs), m)
<1> DEFINE all == pairs \o vec
           L == Len(pairs)
           M == Len(vec)
           old == InsertAll(c, pairs)
           new == InsertAll(c, all)
<1>1. /\ vec \in Seq(Pairs) /\ all \in Seq(Pairs)
      /\ L \in Nat /\ M \in Nat /\ Len(all) = L + M
      /\ \A j \in 1..L : all[j] = pairs[j]
      /\ \A j \in 1..M : all[L + j] = vec[j]
    BY DEF Lists
<1>2. old \in Contents /\ new \in Contents
    BY <1>1, InsertAllType
<1>3. ASSUME NEW k \in Keys
      PROVE  new[k] = IF m[k] = Absent THEN old[k] ELSE m[k]
  <2> DEFINE l == LastAt(all, k, L + M)
             o == LastAt(pairs, k, L)
  <2> HIDE DEF all
  <2>0. Len(all) \in 0..Len(all) /\ Len(all) = L + M
    BY <1>1
  <2>1. /\ l \in 0..(L + M)
        /\ l > 0 => all[l][1] = k
        /\ \A j \in 1..(L + M) : all[j][1] = k => j <= l
    BY <1>1, <2>0, LastAtIs
  <2>2. /\ o \in 0..L
        /\ o > 0 => pairs[o][1] = k
        /\ \A j \in 1..L : pairs[j][1] = k => j <= o
    BY <1>1, LastAtIs
  <2>3. /\ new[k] = IF l = 0 THEN c[k] ELSE all[l][2]
        /\ old[k] = IF o = 0 THEN c[k] ELSE pairs[o][2]
    <3>1. new = AfterFirst(c, all, L + M) /\ old = AfterFirst(c, pairs, L)
      BY <1>1, <2>0, InsertAllIs
    <3> HIDE DEF all, L, M, old, new
    <3> QED BY <3>1 DEF AfterFirst
  <2> HIDE DEF l, o, L, M, old, new
  <2>4. ASSUME NEW j \in 1..M, vec[j][1] = k
        PROVE  m[k] # Absent /\ vec[j][2] = m[k]
    BY <2>4 DEF Lists, Entries, KeysOf, M
  <2>5. CASE m[k] = Absent
    <3>1. \A j \in 1..M : all[L + j][1] # k
      BY <1>1, <2>4, <2>5
    <3>2. l \in 0..L
      <4>1. SUFFICES ASSUME l > L PROVE FALSE
        BY <1>1, <2>1
      <4>2. l - L \in 1..M /\ l = L + (l - L)
        BY <1>1, <2>1, <4>1
      <4>3. all[l][1] # k
        BY <3>1, <4>2
      <4> QED BY <1>1, <2>1, <4>1, <4>3
    <3>3. l <= o
      BY <1>1, <2>1, <2>2, <3>2
    <3>4. o <= l
      BY <1>1, <2>1, <2>2
    <3>5. l = o
      BY <2>1, <2>2, <3>3, <3>4
    <3> QED BY <1>1, <2>2, <2>3, <2>5, <3>5
  <2>6. CASE m[k] # Absent
    <3>1. PICK j \in 1..M : vec[j] = <<k, m[k]>>
      BY <2>6 DEF Lists, KeysOf, M
    <3>2. all[L + j][1] = k /\ L + j \in 1..(L + M)
      BY <1>1, <3>1
    <3>3. L + j <= l
      BY <2>1, <3>2
    <3>4. l - L \in 1..M /\ l = L + (l - L) /\ l > 0
      BY <1>1, <2>1, <3>3
    <3>5. vec[l - L][1] = k /\ all[l] = vec[l - L]
      BY <1>1, <2>1, <3>4
    <3> QED BY <2>3, <2>4, <2>6, <3>4, <3>5
  <2> QED BY <2>5, <2>6
<1>4. new = [k \in Keys |-> new[k]]
    BY <1>2 DEF Contents
<1> HIDE DEF new, old
<1>5. new = Overlay(old, m)
    BY <1>3, <1>4 DEF Overlay
<1> QED BY <1>5 DEF new, old

\* An enumeration of a finite set has all its elements.
LEMMA SeqsOfSet ==
    ASSUME NEW S, IsFiniteSet(S), NEW q \in SetToSeqs(S)
    PROVE  /\ q \in Seq(S)
           /\ Len(q) = Cardinality(S)
           /\ \A x \in S : \E j \in 1..Len(q) : q[j] = x
<1> DEFINE n == Cardinality(S)
<1>1. n \in Nat
    BY FS_CardinalityType
<1>2. /\ q \in [1..n -> S]
      /\ \A i, j \in 1..n : i # j => q[i] # q[j]
    BY DEF SetToSeqs
<1>3. q \in Seq(S) /\ Len(q) = n
    BY <1>1, <1>2
<1>4. q \in Injection(1..n, S)
    BY <1>2 DEF Injection, IsInjective
<1>5. IsFiniteSet(1..n) /\ Cardinality(1..n) = n
    BY <1>1, FS_Interval
<1>6. q \in Surjection(1..n, S)
    BY <1>4, <1>5, FS_Injection
<1> QED BY <1>2, <1>3, <1>6 DEF Surjection

\* A Vec without repeated keys is an enumeration of the entries.
LEMMA EnumerationLists ==
    ASSUME IsFiniteSet(Keys), NEW m \in Contents, NEW q \in SetToSeqs(Entries(m))
    PROVE  /\ Lists(q, m)
           /\ Len(q) = Cardinality(KeysOf(m))
<1> DEFINE e == [k \in KeysOf(m) |-> <<k, m[k]>>]
<1>1. IsFiniteSet(KeysOf(m))
    BY FS_Subset DEF KeysOf
<1>2. e \in Bijection(KeysOf(m), Entries(m))
    BY DEF Bijection, Injection, Surjection, IsInjective, Entries
<1>3. ExistsBijection(KeysOf(m), Entries(m))
    BY <1>2 DEF ExistsBijection
<1>4. /\ IsFiniteSet(Entries(m))
      /\ Cardinality(Entries(m)) = Cardinality(KeysOf(m))
    BY <1>1, <1>3, FS_Bijection
<1>5. /\ q \in Seq(Entries(m))
      /\ Len(q) = Cardinality(KeysOf(m))
      /\ \A x \in Entries(m) : \E j \in 1..Len(q) : q[j] = x
    BY <1>4, SeqsOfSet
<1>6. Entries(m) \subseteq Pairs
    BY DEF Entries, KeysOf, Contents, ValuesOrAbsent, Pairs
<1>7. \A k \in KeysOf(m) : <<k, m[k]>> \in Entries(m)
    BY DEF Entries
<1>8. \A j \in 1..Len(q) : q[j] \in Entries(m) /\ q[j] \in Pairs
    BY <1>5, <1>6
<1>9. q \in Seq(Pairs)
    BY <1>5, <1>8
<1> QED BY <1>5, <1>7, <1>8, <1>9 DEF Lists

LEMMA PairsOfLists ==
    ASSUME IsFiniteSet(Keys), NEW diff \in Diffs, NEW order \in Orders
    PROVE  Lists(PairsOf(diff, order), diff.changes)
<1> DEFINE keys == order[KeysOf(diff.changes)]
           vec  == PairsOf(diff, order)
<1>1. KeysOf(diff.changes) \in SUBSET Keys /\ IsFiniteSet(KeysOf(diff.changes))
    BY FS_Subset DEF KeysOf
<1>2. keys \in SetToSeqs(KeysOf(diff.changes))
    BY <1>1 DEF Orders
<1>3. /\ keys \in Seq(KeysOf(diff.changes))
      /\ \A x \in KeysOf(diff.changes) : \E j \in 1..Len(keys) : keys[j] = x
    BY <1>1, <1>2, SeqsOfSet
<1>4. vec = [j \in 1..Len(keys) |-> <<keys[j], diff.changes[keys[j]]>>] /\ Len(keys) \in Nat
    BY <1>3 DEF PairsOf
<1> HIDE DEF keys, vec
<1>5. diff.changes \in Contents
    BY DEF Diffs
<1>6. ASSUME NEW j \in 1..Len(keys)
      PROVE  vec[j] \in Entries(diff.changes) /\ vec[j] \in Pairs
  <2>1. keys[j] \in KeysOf(diff.changes)
    BY <1>3
  <2> QED BY <1>4, <1>5, <2>1 DEF Entries, Pairs, KeysOf, Contents, ValuesOrAbsent
<1>7. vec \in Seq(Pairs) /\ Len(vec) = Len(keys)
    BY <1>4, <1>6
<1>8. \A k \in KeysOf(diff.changes) : \E j \in 1..Len(vec) : vec[j] = <<k, diff.changes[k]>>
    BY <1>3, <1>4, <1>7
<1> QED BY <1>6, <1>7, <1>8 DEF Lists, vec

LEMMA InsertNone ==
    ASSUME NEW c \in Contents
    PROVE  << >> \in Seq(Pairs) /\ InsertAll(c, << >>) = c
<1>1. << >> \in Seq(Pairs) /\ Len(<< >>) = 0
    OBVIOUS
<1> QED BY <1>1, InsertAllIs, AfterNext

\* compress keeps, for each key, the last of its entries.
LEMMA CompressedEffect ==
    ASSUME IsFiniteSet(Keys), NEW c \in Contents, NEW pairs \in Seq(Pairs),
           NEW m \in Contents, InsertAll(Nothing, pairs) = Overlay(Nothing, m),
           NEW short \in Compress(pairs)
    PROVE  /\ Len(short) = Cardinality(KeysOf(m))
           /\ InsertAll(c, short) = Overlay(c, m)
<1>1. Overlay(Nothing, m) = m
    BY DEF Overlay, Nothing, Contents
<1>2. short \in SetToSeqs(Entries(m))
    BY <1>1 DEF Compress
<1>3. Lists(short, m) /\ Len(short) = Cardinality(KeysOf(m))
    BY <1>2, EnumerationLists
<1>4. short = << >> \o short
    BY <1>3 DEF Lists
<1> DEFINE none == << >>
<1>5. none \in Seq(Pairs) /\ InsertAll(c, none) = c
    BY InsertNone
<1>6. short = none \o short
    BY <1>4
<1> HIDE DEF none
<1>7. InsertAll(c, none \o short) = Overlay(InsertAll(c, none), m)
    BY <1>3, <1>5, InsertListed
<1> QED BY <1>3, <1>5, <1>6, <1>7

-----------------------------------------------------------------------------
(* Diffs that are fetched one by one.                                      *)

\* After the first n of some diffs a key has the value of the last that writes
\* it.
LastDecides(diffs, n, old, new) ==
    \A k \in Keys :
        /\ (\A i \in 1..n : diffs[i].changes[k] = Absent) => new[k] = old[k]
        /\ \A i \in 1..n :
               /\ diffs[i].changes[k] # Absent
               /\ \A j \in (i + 1)..n : diffs[j].changes[k] = Absent
               => new[k] = diffs[i].changes[k]

LEMMA LastDecidesNext ==
    ASSUME NEW diffs, NEW n \in Nat \ {0}, NEW old, NEW new,
           LastDecides(diffs, n - 1, old, new)
    PROVE  LastDecides(diffs, n, old, Overlay(new, diffs[n].changes))
<1> SUFFICES ASSUME NEW k \in Keys
             PROVE  LET x == Overlay(new, diffs[n].changes)[k]
                    IN  /\ (\A i \in 1..n : diffs[i].changes[k] = Absent) => x = old[k]
                        /\ \A i \in 1..n :
                               /\ diffs[i].changes[k] # Absent
                               /\ \A j \in (i + 1)..n : diffs[j].changes[k] = Absent
                               => x = diffs[i].changes[k]
    BY DEF LastDecides
<1> DEFINE x == Overlay(new, diffs[n].changes)[k]
<1>1. x = IF diffs[n].changes[k] = Absent THEN new[k] ELSE diffs[n].changes[k]
    BY DEF Overlay
<1> HIDE DEF x
<1>2. n \in 1..n /\ \A i \in 1..n : i = n \/ i \in 1..(n - 1)
    OBVIOUS
<1>3. CASE diffs[n].changes[k] = Absent
  <2>1. x = new[k]
    BY <1>1, <1>3
  <2>2. (\A i \in 1..n : diffs[i].changes[k] = Absent) => x = old[k]
    BY <2>1 DEF LastDecides
  <2>3. ASSUME NEW i \in 1..n, diffs[i].changes[k] # Absent,
               \A j \in (i + 1)..n : diffs[j].changes[k] = Absent
        PROVE  x = diffs[i].changes[k]
    <3>1. i \in 1..(n - 1) /\ \A j \in (i + 1)..(n - 1) : diffs[j].changes[k] = Absent
      BY <1>2, <1>3, <2>3
    <3> QED BY <2>1, <2>3, <3>1 DEF LastDecides
  <2> QED BY <2>2, <2>3 DEF x
<1>4. CASE diffs[n].changes[k] # Absent
  <2>1. x = diffs[n].changes[k]
    BY <1>1, <1>4
  <2>2. ASSUME NEW i \in 1..n,
               \A j \in (i + 1)..n : diffs[j].changes[k] = Absent
        PROVE  i = n
    BY <1>4, <2>2
  <2> QED BY <1>2, <1>4, <2>1, <2>2 DEF x
<1> QED BY <1>3, <1>4

\* What merge keeps of the diffs.
LEMMA MergeDecides ==
    ASSUME NEW diffs \in Seq(Diffs), NEW c \in Contents, NEW new \in Contents,
           LastDecides(diffs, Len(diffs), c, new)
    PROVE  new = Overlay(c, Merge(diffs).changes)
<1> DEFINE m == Merge(diffs).changes
<1>1. m = [k \in Keys |-> LastWritten(diffs, k)]
    BY DEF Merge, NewDiff
<1> HIDE DEF m
<1>2. ASSUME NEW k \in Keys
      PROVE  new[k] = Overlay(c, m)[k]
  <2>1. CASE \A i \in 1..Len(diffs) : diffs[i].changes[k] = Absent
    <3>1. m[k] = Absent
      BY <1>1, <2>1, NoWriterNoEntry
    <3> QED BY <2>1, <3>1 DEF LastDecides, Overlay
  <2>2. ASSUME NEW i \in 1..Len(diffs), diffs[i].changes[k] # Absent
        PROVE  new[k] = Overlay(c, m)[k]
    <3>1. PICK l \in i..Len(diffs) :
               /\ diffs[l].changes[k] # Absent
               /\ \A j \in (l + 1)..Len(diffs) : diffs[j].changes[k] = Absent
      BY <2>2, SomeWriterIsLast
    <3>2. l \in 1..Len(diffs)
      OBVIOUS
    <3>3. m[k] = diffs[l].changes[k]
      BY <1>1, <3>1, <3>2, LastWriterDecides
    <3>4. new[k] = diffs[l].changes[k]
      BY <3>1, <3>2 DEF LastDecides
    <3> QED BY <3>1, <3>3, <3>4 DEF Overlay
  <2> QED BY <2>1, <2>2
<1> QED BY <1>2 DEF Overlay, Contents, m

\* The chain, one diff after the other.
LEMMA ChainedSteps ==
    ASSUME NEW diffs \in Seq(Diffs), NEW order
    PROVE  \E g : /\ Chained(diffs, order) = g[Len(diffs)]
                  /\ g[0] = << >>
                  /\ \A n \in 1..Len(diffs) :
                         g[n] = g[n - 1] \o PairsOf(diffs[n], order)
<1> DEFINE L == Len(diffs)
           step(h, n) == [i \in 0..n |-> IF i = 0 THEN << >>
                                         ELSE h[i - 1] \o PairsOf(diffs[i], order)]
           g == CHOOSE h : h = step(h, L)
           Made(n) == \E h : h = step(h, n)
           G == {n \in 0..L : Made(n)}
<1>1. Chained(diffs, order) = g[L] /\ L \in Nat
    BY DEF Chained
<1>2. 0 \in G
  <2> DEFINE h == [i \in 0..0 |-> << >>]
  <2>1. h = step(h, 0)
    OBVIOUS
  <2> HIDE DEF h
  <2>2. Made(0)
    BY <2>1
  <2> HIDE DEF Made
  <2> QED BY <1>1, <2>2
<1>3. ASSUME NEW n \in 1..L, n - 1 \in G
      PROVE  n \in G
  <2>1. PICK h : h = step(h, n - 1)
    BY <1>3
  <2> DEFINE more == [i \in 0..n |-> IF i = n THEN h[n - 1] \o PairsOf(diffs[n], order)
                                     ELSE h[i]]
  <2>2. \A i \in 0..(n - 1) : more[i] = h[i]
    OBVIOUS
  <2>3. ASSUME NEW i \in 0..n
        PROVE  more[i] = IF i = 0 THEN << >> ELSE more[i - 1] \o PairsOf(diffs[i], order)
    <3>1. CASE i = n
      <4>1. n - 1 \in 0..(n - 1) /\ n # 0
        OBVIOUS
      <4> QED BY <2>2, <3>1, <4>1
    <3>2. CASE i # n
      <4>1. i \in 0..(n - 1) /\ (i # 0 => i - 1 \in 0..(n - 1))
        BY <3>2
      <4>2. h[i] = IF i = 0 THEN << >> ELSE h[i - 1] \o PairsOf(diffs[i], order)
        BY <2>1, <4>1
      <4> HIDE DEF more
      <4> QED BY <2>2, <4>1, <4>2
    <3> QED BY <3>1, <3>2
  <2>4. more = step(more, n)
    BY <2>3
  <2> HIDE DEF more
  <2>5. Made(n)
    BY <2>4
  <2> HIDE DEF Made
  <2> QED BY <2>5
<1>4. L \in G
  <2> HIDE DEF Made
  <2>1. G \in SUBSET (0..L)
    OBVIOUS
  <2> HIDE DEF G
  <2> QED BY <1>1, <1>2, <1>3, <2>1, CountUp
<1>5. g = step(g, L)
    BY <1>4
<1> HIDE DEF g
<1>6. /\ g[0] = << >>
      /\ \A n \in 1..L : g[n] = g[n - 1] \o PairsOf(diffs[n], order)
    BY <1>1, <1>5
<1> QED BY <1>1, <1>6

\* To insert the chain is to overlay what merge makes of the diffs.
LEMMA ChainedEffect ==
    ASSUME IsFiniteSet(Keys), NEW diffs \in Seq(Diffs), NEW order \in Orders,
           NEW c \in Contents
    PROVE  /\ Chained(diffs, order) \in Seq(Pairs)
           /\ InsertAll(c, Chained(diffs, order)) = Overlay(c, Merge(diffs).changes)
<1> DEFINE L == Len(diffs)
<1>1. PICK g : /\ Chained(diffs, order) = g[L]
               /\ g[0] = << >>
               /\ \A n \in 1..L : g[n] = g[n - 1] \o PairsOf(diffs[n], order)
    BY ChainedSteps
<1> DEFINE Good(n) == /\ g[n] \in Seq(Pairs)
                      /\ LastDecides(diffs, n, c, InsertAll(c, g[n]))
           G == {n \in 0..L : Good(n)}
<1>2. L \in Nat
    OBVIOUS
<1>3. Good(0)
  <2>1. g[0] \in Seq(Pairs) /\ InsertAll(c, g[0]) = c
    BY <1>1, InsertNone
  <2>2. LastDecides(diffs, 0, c, c)
    BY DEF LastDecides
  <2> QED BY <2>1, <2>2
<1>4. ASSUME NEW n \in 1..L, Good(n - 1)
      PROVE  Good(n)
  <2> DEFINE vec == PairsOf(diffs[n], order)
             m   == diffs[n].changes
             old == g[n - 1]
  <2>1. diffs[n] \in Diffs
    OBVIOUS
  <2>2. g[n] = old \o vec
    BY <1>1
  <2>3. Lists(vec, m) /\ vec \in Seq(Pairs) /\ m \in Contents
    BY <2>1, PairsOfLists DEF Lists, Diffs
  <2>4. old \in Seq(Pairs) /\ LastDecides(diffs, n - 1, c, InsertAll(c, old))
    BY <1>4
  <2> HIDE DEF vec, old
  <2>5. g[n] \in Seq(Pairs)
    BY <2>2, <2>3, <2>4
  <2>6. InsertAll(c, g[n]) = Overlay(InsertAll(c, old), m)
    BY <2>2, <2>3, <2>4, InsertListed
  <2>7. LastDecides(diffs, n, c, Overlay(InsertAll(c, old), m))
    BY <2>4, LastDecidesNext
  <2> QED BY <2>5, <2>6, <2>7
<1>5. G = 0..L
  <2>1. 0 \in G /\ \A n \in 1..L : n - 1 \in G => n \in G
    <3> HIDE DEF Good
    <3> QED BY <1>2, <1>3, <1>4
  <2>2. G \in SUBSET (0..L)
    OBVIOUS
  <2> HIDE DEF G
  <2> QED BY <1>2, <2>1, <2>2, CountUp
<1>6. Good(L)
    BY <1>2, <1>5
<1>7. InsertAll(c, g[L]) \in Contents
    BY <1>6, InsertAllType
<1> QED BY <1>1, <1>6, <1>7, MergeDecides

-----------------------------------------------------------------------------
(* The theorem.                                                            *)

\* Whatever diffs of the history of a map are chained in one Vec, in whatever
\* order a HashMap yields the entries of each, the chain has the effect of their
\* merge on every version, and so has what compress makes of the chain, which
\* has every key once.
THEOREM CompressIsLossless ==
    ASSUME IsFiniteSet(Keys)
    PROVE  HSpec => []CompressKeepsEffect
<1>1. HistoryInv => CompressKeepsEffect
  <2> SUFFICES ASSUME HistoryInv,
                      NEW i \in DOMAIN map.diffs, NEW order \in Orders
               PROVE  LET stretch == SubSeq(map.diffs, i, Len(map.diffs))
                          pairs   == Chained(stretch, order)
                          merged  == Merge(stretch).changes
                          SameEffect(vec) ==
                              \A n \in Versions :
                                  InsertAll(hist[n], vec) = Overlay(hist[n], merged)
                      IN  /\ SameEffect(pairs)
                          /\ \A short \in Compress(pairs) :
                                 /\ Len(short) = Cardinality(KeysOf(merged))
                                 /\ SameEffect(short)
    BY DEF CompressKeepsEffect
  <2> DEFINE stretch == SubSeq(map.diffs, i, Len(map.diffs))
             pairs   == Chained(stretch, order)
             merged  == Merge(stretch).changes
  <2>1. /\ map.diffs \in Seq(Diffs)
        /\ \A n \in Versions : hist[n] \in Contents
    BY DEF HistoryInv, HistoryTypeOK, TypeOK, StateMaps, Versions
  <2>2. /\ i \in 1..Len(map.diffs)
        /\ Len(map.diffs) \in i..Len(map.diffs)
    BY <2>1
  <2>3. stretch \in Seq(Diffs)
    BY <2>1, <2>2, Stretch
  <2> HIDE DEF stretch
  <2>4. merged \in Contents
    BY <2>3, LastWrittenType DEF Merge, NewDiff, Contents
  <2>5. \A c \in Contents :
            pairs \in Seq(Pairs) /\ InsertAll(c, pairs) = Overlay(c, merged)
    BY <2>3, ChainedEffect
  <2>6. Nothing \in Contents
    BY NothingType
  <2> HIDE DEF pairs, merged
  <2>7. \A c \in Contents, short \in Compress(pairs) :
            /\ Len(short) = Cardinality(KeysOf(merged))
            /\ InsertAll(c, short) = Overlay(c, merged)
    BY <2>4, <2>5, <2>6, CompressedEffect
  <2> QED BY <2>1, <2>5, <2>6, <2>7 DEF stretch, pairs, merged
<1> QED BY <1>1, Invariance, PTL
=============================================================================

------------------------------ MODULE DiffVec --------------------------------
(***************************************************************************)
(* Diffs as the Vec<(K, T)> they are in src/diff.rs, in which a key may    *)
(* occur more than once, and Diff::compress.  The partial maps of module   *)
(* Diff abstract from the order of the entries and from repeated keys; the *)
(* property below says that nothing is lost by that, over the histories of *)
(* StateMapHistory.                                                        *)
(***************************************************************************)
EXTENDS StateMapHistory, SequencesExt

Insert(contents, pair) == [contents EXCEPT ![pair[1]] = pair[2]]

\* HashMap::insert of one pair after the other: how set_update_id applies a
\* diff and how merge and compress collect one.
InsertAll(contents, pairs) ==
    LET after[n \in 0..Len(pairs)] ==
            IF n = 0 THEN contents ELSE Insert(after[n - 1], pairs[n])
    IN  after[Len(pairs)]

Entries(contents) == {<<k, contents[k]>> : k \in KeysOf(contents)}

\* Mutant: the entries are collected from the end.
CompressBackwards(pairs) == SetToSeqs(Entries(InsertAll(Nothing, Reverse(pairs))))

\* A HashMap yields its entries in any order: the set of the results.
Compress(pairs) == SetToSeqs(Entries(InsertAll(Nothing, pairs)))

\* The order in which a HashMap yields its entries depends on its keys, in a
\* way nobody knows.
Orders == {o \in [SUBSET Keys -> SetToAllKPermutations(Keys)] :
               \A K \in SUBSET Keys : o[K] \in SetToSeqs(K)}

\* The entries of a diff, in which the library repeats no key.
PairsOf(diff, order) ==
    LET keys == order[KeysOf(diff.changes)]
    IN  [j \in DOMAIN keys |-> <<keys[j], diff.changes[keys[j]]>>]

\* What a reader was sent that fetched the diffs one by one.
Chained(diffs, order) ==
    LET after[n \in 0..Len(diffs)] ==
            IF n = 0 THEN << >> ELSE after[n - 1] \o PairsOf(diffs[n], order)
    IN  after[Len(diffs)]

(* An application that chains the diffs of a history in one Vec, repeated  *)
(* keys and all, may compress it: the result has each key once, and to     *)
(* insert its entries, in any order, into the contents of any version has  *)
(* the effect of inserting all entries of the chain in their order, which  *)
(* is that of the merge.                                                   *)
CompressKeepsEffect ==
    NotBorrowed /\ IsFrozen(map) =>
        \A i \in DOMAIN map.diffs, order \in Orders :
            LET stretch == SubSeq(map.diffs, i, Len(map.diffs))
                pairs   == Chained(stretch, order)
                merged  == Merge(stretch).changes
                SameEffect(vec) ==
                    \A n \in Versions :
                        InsertAll(hist[n], vec) = Overlay(hist[n], merged)
            IN  /\ SameEffect(pairs)
                /\ \A short \in Compress(pairs) :
                       Len(short) = Cardinality(KeysOf(merged)) /\ SameEffect(short)
=============================================================================

-------------------------------- MODULE Diff --------------------------------
(***************************************************************************)
(* Diffs between versions of a StateMap (src/diff.rs), as pure operators.  *)
(*                                                                         *)
(* The Rust type carries a Vec<(K, T)>.  Every diff the library builds has *)
(* each key at most once (a single pair, or what a HashMap yields, in an   *)
(* unspecified order), so its payload is modelled as a partial map: a      *)
(* function on Keys that is Absent where the diff has no entry.  The same  *)
(* representation serves for the contents of a StateMap (its HashMap).     *)
(***************************************************************************)
EXTENDS Sequences, FiniteSetsExt

CONSTANTS
    Keys,      \* the keys of type K that may occur
    Vals,      \* the values of type T
    Absent,    \* "no entry for this key"
    MaxU64     \* u64::MAX, the neutral element of the minimum in Diff::merge

ASSUME AbsentIsNoValue == Absent \notin Vals
ASSUME MaxU64IsNat     == MaxU64 \in Nat

ValuesOrAbsent == Vals \cup {Absent}
Contents       == [Keys -> ValuesOrAbsent]
Nothing        == [k \in Keys |-> Absent]
Only(key, val) == [Nothing EXCEPT ![key] = val]
KeysOf(c)      == {k \in Keys : c[k] # Absent}

\* HashMap::insert of every pair of "changes" into "contents".
Overlay(contents, changes) ==
    [k \in Keys |-> IF changes[k] = Absent THEN contents[k] ELSE changes[k]]

-----------------------------------------------------------------------------
Diffs == [changes : Contents, isFull : BOOLEAN, from : Nat, upto : Nat]

NewDiff(changes, isFull, from, upto) ==
    [changes |-> changes, isFull |-> isFull, from |-> from, upto |-> upto]

EmptyDiff == NewDiff(Nothing, FALSE, 0, 0)

IsEmptyDiff(diff) == KeysOf(diff.changes) = {}

\* Mutant: a full diff leads to the initial update id.
FullDiffToStart(data, updateId) == NewDiff(data, TRUE, 0, 0)

FullDiff(data, updateId) == NewDiff(data, TRUE, 0, updateId)

-----------------------------------------------------------------------------
(* Diff::merge inserts the entries of the diffs one after the other into   *)
(* one HashMap, so the last diff of the sequence that writes a key decides.*)
Writers(diffs, key) == {i \in DOMAIN diffs : diffs[i].changes[key] # Absent}

\* Mutant: the first diff of the sequence decides.
FirstWritten(diffs, key) ==
    IF Writers(diffs, key) = {}
    THEN Absent
    ELSE diffs[Min(Writers(diffs, key))].changes[key]

LastWritten(diffs, key) ==
    IF Writers(diffs, key) = {}
    THEN Absent
    ELSE diffs[Max(Writers(diffs, key))].changes[key]

\* Mutant: the accumulators of the two ids are swapped.
MergeSwapped(diffs) ==
    NewDiff([k \in Keys |-> LastWritten(diffs, k)],
            FALSE,
            Max({0} \cup {diffs[i].upto : i \in DOMAIN diffs}),
            Min({MaxU64} \cup {diffs[i].from : i \in DOMAIN diffs}))

Merge(diffs) ==
    NewDiff([k \in Keys |-> LastWritten(diffs, k)],
            FALSE,
            Min({MaxU64} \cup {diffs[i].from : i \in DOMAIN diffs}),
            Max({0} \cup {diffs[i].upto : i \in DOMAIN diffs}))
=============================================================================

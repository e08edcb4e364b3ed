-------------------------- MODULE StateMapHistory ---------------------------
(***************************************************************************)
(* StateMap with a history variable, and what its diffs owe to a reader.   *)
(*                                                                         *)
(* A reader that holds the contents the map had at update id "from" asks   *)
(* get_diff(from, upto) and applies the answer.  hist[n] is the contents   *)
(* the map had when it last was at update id n; the module only adds it    *)
(* (and frozenAt) to the steps of StateMap and never constrains them.      *)
(***************************************************************************)
EXTENDS StateMap

VARIABLES
    hist,        \* [0..map.updateId -> Contents]
    frozenAt     \* the update id of the map when it was frozen

hvars == <<map, modifier, hist, frozenAt>>

HistoryTypeOK ==
    /\ TypeOK
    /\ hist \in [0..map.updateId -> Contents]
    /\ frozenAt \in Nat

HInit ==
    /\ Init
    /\ hist = [n \in {0} |-> Nothing]
    /\ frozenAt = 0

Record ==
    /\ hist' = [n \in 0..map'.updateId |->
                    IF n = map'.updateId THEN map'.data ELSE hist[n]]
    /\ frozenAt' = IF IsFrozen(map) THEN frozenAt ELSE map'.updateId

HNext == Next /\ Record

HSpec == HInit /\ [][HNext]_hvars

-----------------------------------------------------------------------------
Lead        == 3    \* bound: how far past the map ids are asked for
Versions    == 0..map.updateId
\* Targets a reader asks for: every id after its own, known to the map or not.
Ahead(from) == (from + 1)..(map.updateId + Lead)

Least(m, n) == IF m < n THEN m ELSE n

(* The main promise of get_diff: whatever version a reader of a frozen map *)
(* holds and whatever later version (from the freeze on) it asks for, the  *)
(* diff takes its contents exactly to those of the version the diff names. *)
ForwardDiffExact ==
    IsFrozen(map) =>
        \A from \in Versions : \A upto \in Ahead(from) :
            upto >= frozenAt =>
                LET diff == GetDiff(map, from, upto)
                IN  Overlay(hist[from], diff.changes) = hist[diff.upto]

(* The diff of get_diff starts no later than the reader's version, which   *)
(* set_update_id insists on, and brings it at least to the version asked   *)
(* for or, if the map is not that far, to the latest (a full diff always   *)
(* does): a reader neither skips a change nor stays behind nor falls back. *)
ForwardDiffReaches ==
    IsFrozen(map) =>
        \A from \in Versions : \A upto \in Ahead(from) :
            LET diff == GetDiff(map, from, upto)
            IN  /\ diff.from <= from
                /\ diff.upto \in Least(upto, map.updateId)..map.updateId

GetsAll(from, upto) ==
    /\ ~GetDiffPanics(map, from, upto)
    /\ GetDiff(map, from, upto) = FullDiff(map.data, map.updateId)

(* A reader that is ahead of the map, by however much (it followed another *)
(* incarnation of the same initial state), gets all of the map, whatever   *)
(* id it asks for: before the map's, at it or after it, before its own or  *)
(* after it.                                                               *)
UnknownVersionGetsAll ==
    IsFrozen(map) =>
        \A from \in (map.updateId + 1)..(map.updateId + Lead) :
            \A upto \in 0..(map.updateId + Lead + 1) : GetsAll(from, upto)

(* No forward request makes get_diff panic on a frozen map; the server     *)
(* runs it with two mutexes held, and a panic would poison both.           *)
ForwardDiffNeverPanics ==
    IsFrozen(map) =>
        \A from \in 0..(map.updateId + 2) : \A upto \in Ahead(from) :
            ~GetDiffPanics(map, from, upto)

(* None of the assert! and expect of statemap.rs outside get_diff can      *)
(* fire: calculate_hash finds a value for every pushed key, set and commit *)
(* never add a key.                                                        *)
AssertionsHold ==
    /\ \A k \in Keys : map.order[k] > 0 <=> ContainsKey(map, k)
    /\ modifier # NoModifier => KeysOf(modifier) \subseteq KeysOf(map.data)

(* The hash names the base of the history: it stays the digest of the      *)
(* contents at the freeze however often freeze is called and whatever is   *)
(* written later, and that version is one the history still knows.         *)
HashNamesBase ==
    IsFrozen(map) => /\ frozenAt \in Versions
                     /\ map.hash.data = hist[frozenAt]

(* Once frozen, a version never changes: every change of the contents gets *)
(* an update id of its own, a batch exactly one, and no id is used twice.  *)
VersionsImmutable ==
    [][IsFrozen(map) => /\ map'.updateId >= map.updateId
                        /\ \A n \in Versions : hist'[n] = hist[n]]_hvars

-----------------------------------------------------------------------------
(* What comments and docs of the source say and the code does not do.      *)

(* statemap.rs:393: get_diff will "return an empty Diff for requests       *)
(* wanting to update backwards".                                           *)
BackwardsDiffIsEmpty ==
    IsFrozen(map) =>
        \A from \in Versions : \A upto \in 0..(from - 1) :
            /\ ~GetDiffPanics(map, from, upto)
            /\ IsEmptyDiff(GetDiff(map, from, upto))

(* statemap.rs:216: freeze computes "a SHA-256 digest of the Initial State *)
(* which is guarenteed to be consistent across servers"; so the server,    *)
(* which rebuilds the map from the same pairs, finds the same digest.      *)
HashConsistentAcrossServers ==
    IsFrozen(map) => Hosted(map.hash.data).hash = map.hash
=============================================================================

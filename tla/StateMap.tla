------------------------------ MODULE StateMap ------------------------------
(***************************************************************************)
(* The life of one StateMap whose remote is a DummyRemote: built by push,  *)
(* frozen, then changed by set and by StateMapModifier batches if it is a  *)
(* master map.  This is how the server keeps the maps it hosts, and how an *)
(* application of its own transport would keep one.                        *)
(*                                                                         *)
(* The methods take &mut self, so the caller has the map to itself during  *)
(* a call, and for as long as a StateMapModifier lives.  A call that       *)
(* returns an error changes nothing and is a stuttering step; so is        *)
(* set_update_id, which with a DummyRemote never gets past EmptyDiff.      *)
(***************************************************************************)
EXTENDS StateMapMethods

CONSTANTS
    NoModifier,    \* no StateMapModifier is alive
    MaxPushes,     \* bound: push calls for one key
    MaxUpdates     \* bound: update ids the map may reach

ASSUME NoModifierIsNoBatch == NoModifier \notin Contents
ASSUME BoundsAreNat        == MaxPushes \in Nat /\ MaxUpdates \in Nat

VARIABLES
    map,         \* the StateMap
    modifier     \* the pending batch of a StateMapModifier, or NoModifier

vars == <<map, modifier>>

TypeOK ==
    /\ map \in StateMaps
    /\ modifier \in Contents \cup {NoModifier}

Init ==
    /\ map = NewMap
    /\ modifier = NoModifier

-----------------------------------------------------------------------------
NotBorrowed == modifier = NoModifier

Push(key, val) ==
    /\ NotBorrowed
    /\ ~IsFrozen(map)
    /\ map.order[key] < MaxPushes
    /\ map' = Pushed(map, key, val)
    /\ UNCHANGED modifier

SetMaster(isMaster) ==
    /\ NotBorrowed
    /\ ~IsFrozen(map)
    /\ map' = [map EXCEPT !.isMaster = isMaster]
    /\ UNCHANGED modifier

\* Mutant: freeze does not look whether the map is frozen.
FreezeAgain ==
    /\ NotBorrowed
    /\ Len(map.diffs) < MaxUpdates + 2
    /\ map' = Frozen(map)
    /\ UNCHANGED modifier

\* A second call finds the hash and does nothing.
Freeze ==
    /\ NotBorrowed
    /\ ~IsFrozen(map)
    /\ map' = Frozen(map)
    /\ UNCHANGED modifier

Set(key, val) ==
    /\ NotBorrowed
    /\ ContainsKey(map, key)
    /\ MayWrite(map)
    /\ map.updateId < MaxUpdates
    /\ map' = WithKeySet(map, key, val)
    /\ UNCHANGED modifier

BeginModification ==
    /\ NotBorrowed
    /\ MayWrite(map)
    /\ map.updateId < MaxUpdates
    /\ modifier' = Nothing
    /\ UNCHANGED map

\* Mutant: the batch takes keys the map does not have.
ModifierSetAny(key, val) ==
    /\ ~NotBorrowed
    /\ modifier' = [modifier EXCEPT ![key] = val]
    /\ UNCHANGED map

\* Mutant: the batch writes through to the map.
ModifierSetEager(key, val) ==
    /\ ~NotBorrowed
    /\ ContainsKey(map, key)
    /\ modifier' = [modifier EXCEPT ![key] = val]
    /\ map' = [map EXCEPT !.data[key] = val]

ModifierSet(key, val) ==
    /\ ~NotBorrowed
    /\ ContainsKey(map, key)
    /\ modifier' = [modifier EXCEPT ![key] = val]
    /\ UNCHANGED map

Commit ==
    /\ ~NotBorrowed
    /\ map' = Committed(map, modifier)
    /\ modifier' = NoModifier

\* The modifier goes out of scope without commit, e.g. when a set fails.
DropModifier ==
    /\ ~NotBorrowed
    /\ modifier' = NoModifier
    /\ UNCHANGED map

Next ==
    \/ \E k \in Keys, v \in Vals : Push(k, v) \/ Set(k, v) \/ ModifierSet(k, v)
    \/ \E b \in BOOLEAN : SetMaster(b)
    \/ Freeze
    \/ BeginModification
    \/ Commit
    \/ DropModifier

Spec == Init /\ [][Next]_vars
=============================================================================

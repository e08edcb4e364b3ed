-------------------------- MODULE StateMapMethods ---------------------------
(***************************************************************************)
(* The StateMap struct (src/statemap.rs) as a record, and what each of its *)
(* methods makes of it when it succeeds.  The modules that own maps (one   *)
(* map in StateMap, a master and its slaves in Replication) put the        *)
(* conditions and early returns of the methods in the guards of actions.   *)
(***************************************************************************)
EXTENDS Diff

CONSTANT NoHash    \* the field hash is None: the map is not frozen

(* calculate_hash feeds SHA-256 with the (key, value) pairs in ascending   *)
(* key order, each with its length, once for every occurrence of the key   *)
(* in "order".  What it depends on is how often each key was pushed and    *)
(* the contents; the digest is modelled as that pair, i.e. as injective.   *)
Hashes == [order : [Keys -> Nat], data : Contents]

ASSUME NoHashIsNoHash == NoHash \notin Hashes

CalculateHash(order, data) == [order |-> order, data |-> data]

StateMaps == [ data     : Contents,
               order    : [Keys -> Nat],    \* Vec<K>, kept as a bag: only
                                            \* the sorting hash reads it
               updateId : Nat,
               hash     : Hashes \cup {NoHash},
               isMaster : BOOLEAN,
               diffs    : Seq(Diffs) ]

NewMap == [ data     |-> Nothing,
            order    |-> [k \in Keys |-> 0],
            updateId |-> 0,
            hash     |-> NoHash,
            isMaster |-> FALSE,
            diffs    |-> << >> ]

IsFrozen(map)         == map.hash # NoHash
ContainsKey(map, key) == map.data[key] # Absent
MayWrite(map)         == ~IsFrozen(map) \/ map.isMaster

Pushed(map, key, val) ==
    [map EXCEPT !.data[key] = val, !.order[key] = @ + 1]

\* freeze, up to the call of Remote::init, which only reads the map.
Frozen(map) ==
    [map EXCEPT !.hash  = CalculateHash(map.order, map.data),
                !.diffs = Append(@, FullDiff(map.data, map.updateId))]

\* The map the server makes of the key-value pairs of an Init request: one
\* push per entry of the received HashMap, set_master(true), freeze.
Hosted(data) ==
    Frozen([NewMap EXCEPT !.data     = data,
                          !.order    = [k \in Keys |->
                                            IF data[k] = Absent THEN 0 ELSE 1],
                          !.isMaster = TRUE])

\* Mutant: the diff is made before update_id is incremented.
CommittedLate(map, changes) ==
    [map EXCEPT !.data     = Overlay(@, changes),
                !.updateId = @ + 1,
                !.diffs    = Append(@, NewDiff(changes, FALSE,
                                               map.updateId - 1,
                                               map.updateId))]

\* StateMapModifier::commit.
Committed(map, changes) ==
    [map EXCEPT !.data     = Overlay(@, changes),
                !.updateId = @ + 1,
                !.diffs    = Append(@, NewDiff(changes, FALSE,
                                               map.updateId,
                                               map.updateId + 1))]

\* StateMap::set has the effect of a batch of one write.
WithKeySet(map, key, val) == Committed(map, Only(key, val))

\* The end of set_update_id.  The applied diff is not added to "diffs".
Updated(map, diff) ==
    [map EXCEPT !.updateId = diff.upto,
                !.data     = Overlay(@, diff.changes)]

-----------------------------------------------------------------------------
(* get_diff.  Its first loop stops at the first diff whose from id is not  *)
(* below the requested one, its second at the last diff whose upto id is   *)
(* not above the requested one.                                            *)
NotBelow(diffs, from) == {i \in DOMAIN diffs : diffs[i].from >= from}
\* Mutant: the diff that ends at the requested id is left out.
NotReaching(diffs, upto) == {i \in DOMAIN diffs : diffs[i].upto < upto}
NotAbove(diffs, upto) == {i \in DOMAIN diffs : diffs[i].upto <= upto}

FirstDiff(diffs, from) ==
    IF NotBelow(diffs, from) = {} THEN 1 ELSE Min(NotBelow(diffs, from))
\* Mutant: the second loop is not reversed.
LastDiffForwards(diffs, upto) == Min(NotAbove(diffs, upto))
LastDiff(diffs, upto) == Max(NotAbove(diffs, upto))

\* Mutant: the comparison with the last diff is missing.
StartForgotten(diffs, from) ==
    /\ NotBelow(diffs, from) # {}
    /\ diffs[FirstDiff(diffs, from)].from > from

\* The history has no diff that starts at "from".
StartUnknown(diffs, from) ==
    \/ /\ NotBelow(diffs, from) # {}
       /\ diffs[FirstDiff(diffs, from)].from > from
    \/ diffs[Len(diffs)].from < from

\* The target lies before everything the history has.
TargetUnknown(diffs, upto) ==
    \/ NotAbove(diffs, upto) = {}
    \/ /\ diffs[LastDiff(diffs, upto)].upto = upto
       /\ diffs[1].upto > upto

\* Mutant: a request from the latest id, or from above it, gets nothing.
GetDiffStrict(map, from, upto) ==
    IF map.diffs[Len(map.diffs)].from < from THEN EmptyDiff
    ELSE IF StartUnknown(map.diffs, from) THEN FullDiff(map.data, map.updateId)
    ELSE IF TargetUnknown(map.diffs, upto) THEN EmptyDiff
    ELSE Merge(SubSeq(map.diffs, FirstDiff(map.diffs, from),
                                 LastDiff(map.diffs, upto)))

GetDiff(map, from, upto) ==
    IF StartUnknown(map.diffs, from) THEN FullDiff(map.data, map.updateId)
    ELSE IF TargetUnknown(map.diffs, upto) THEN EmptyDiff
    ELSE Merge(SubSeq(map.diffs, FirstDiff(map.diffs, from),
                                 LastDiff(map.diffs, upto)))

\* get_diff panics: back().expect on no diffs at all, or VecDeque::range
\* called with a start more than one past its inclusive end.
GetDiffPanics(map, from, upto) ==
    \/ map.diffs = << >>
    \/ /\ ~StartUnknown(map.diffs, from)
       /\ ~TargetUnknown(map.diffs, upto)
       /\ FirstDiff(map.diffs, from) > LastDiff(map.diffs, upto) + 1
=============================================================================

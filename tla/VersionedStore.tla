--------------------------- MODULE VersionedStore ---------------------------
(***************************************************************************)
(* What the master-slave model of syncstate promises, without diffs, ids   *)
(* on the wire or messages: a store whose contents go through numbered     *)
(* versions, and replicas that each hold one of the versions, whole and    *)
(* unmixed, and only ever move on to a later one.                          *)
(***************************************************************************)
EXTENDS Integers

CONSTANTS
    Replicas,
    States       \* what the contents of the store can be

VARIABLES
    versions,    \* version number -> contents, from 0 to the latest
    at,          \* replica -> number of the version it holds
    copy         \* replica -> the contents it shows

storeVars == <<versions, at, copy>>

Latest == CHOOSE n \in DOMAIN versions : n + 1 \notin DOMAIN versions

StoreInit ==
    /\ \E initial \in States : /\ versions = [n \in {0} |-> initial]
                               /\ copy = [r \in Replicas |-> initial]
    /\ at = [r \in Replicas |-> 0]

Write(contents) ==
    /\ versions' = [n \in DOMAIN versions \cup {Latest + 1} |->
                        IF n \in DOMAIN versions THEN versions[n] ELSE contents]
    /\ UNCHANGED <<at, copy>>

MoveOn(r, n) ==
    /\ at[r] <= n
    /\ at' = [at EXCEPT ![r] = n]
    /\ copy' = [copy EXCEPT ![r] = versions[n]]
    /\ UNCHANGED versions

StoreNext ==
    \/ \E contents \in States : Write(contents)
    \/ \E r \in Replicas, n \in DOMAIN versions : MoveOn(r, n)

StoreSpec == StoreInit /\ [][StoreNext]_storeVars
=============================================================================

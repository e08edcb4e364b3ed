----------------------------- MODULE Replication -----------------------------
(***************************************************************************)
(* One initial state, the master map a TcpStateServer hosts for it, and    *)
(* the slave maps of clients that follow the master with set_update_id.    *)
(*                                                                         *)
(* set_update_id is not atomic: it sends its own update id and the target  *)
(* to the server, the server answers from whatever its map is by then, and *)
(* the answer is applied later or lost with the connection.  The slave is  *)
(* borrowed mutably for the length of the call, so only the server moves   *)
(* on in between.  The server keeps maps in memory only: a restart loses   *)
(* the map, and it is hosted anew, at its initial state, when some client  *)
(* freezes a map with that state.                                          *)
(*                                                                         *)
(* Every key a map can ever have was pushed before the freeze, so Keys is  *)
(* the set of those keys and no contents of a map lack one.                *)
(***************************************************************************)
EXTENDS StateMapMethods

CONSTANTS
    Slaves,          \* the clients
    Initial,         \* the contents all of them freeze
    Manners,         \* how applications poll, see TargetsOf
    Targets,         \* bound: the ids that are asked for
    Batches,         \* what the hooks write: the changes of set or of a batch
    NotHosted,       \* the server has no map for the hash
    NoCall,          \* no call of set_update_id is under way
    MaxUpdates,      \* bound: update ids of the master
    MaxRestarts,     \* bound: restarts of the server
    MaxEarlySets     \* bound: calls of set on a slave before it is frozen

ASSUME InitialIsWhole  == Initial \in [Keys -> Vals]
ASSUME MannersAreKnown == Manners \subseteq {"any", "next"}
ASSUME TargetsAreIds   == Targets \subseteq Nat
ASSUME BatchesChange   == Batches \subseteq Contents
ASSUME NotHostedNoMap  == NotHosted \notin StateMaps
ASSUME MaxUpdatesIsNat == MaxUpdates \in Nat
ASSUME OtherBoundsNat  == MaxRestarts \in Nat /\ MaxEarlySets \in Nat

Requests == [from : Nat, upto : Nat]
Replies  == [reply : Diffs]

ASSUME NoCallIsNoMessage == NoCall \notin Requests \cup Replies

VARIABLES
    master,      \* the hosted StateMap, or NotHosted
    slave,       \* the part of each client's StateMap that changes
    frozen,      \* the clients whose map is frozen
    manner,      \* how each client polls; never changes
    call,        \* the GetDiff request under way, its answer, or NoCall
    restarts,    \* restarts of the server so far
    hist         \* history variable: the contents at each update id of the
                 \* master since it was hosted

vars == <<master, slave, frozen, manner, call, restarts, hist>>

SlaveMaps == [data : Contents, updateId : Nat]

ReplicationTypeOK ==
    /\ master \in StateMaps \cup {NotHosted}
    /\ slave \in [Slaves -> SlaveMaps]
    /\ frozen \subseteq Slaves
    /\ manner \in [Slaves -> Manners]
    /\ call \in [Slaves -> Requests \cup Replies \cup {NoCall}]
    /\ restarts \in 0..MaxRestarts
    /\ master # NotHosted => hist \in [0..master.updateId -> Contents]

Init ==
    /\ master = NotHosted
    /\ slave = [s \in Slaves |-> [data |-> Initial, updateId |-> 0]]
    /\ frozen = {}
    /\ manner \in [Slaves -> Manners]
    /\ call = [s \in Slaves |-> NoCall]
    /\ restarts = 0
    /\ hist = [n \in {0} |-> Initial]

-----------------------------------------------------------------------------
IsHosted     == master # NotHosted
Asking(s)    == call[s] \in Requests
Answered(s)  == call[s] \in Replies

\* Before the freeze a client may set keys as well as push them; what counts
\* as initial is the contents at the freeze, but the id has moved.
EarlySet(s) ==
    /\ s \notin frozen
    /\ slave[s].updateId < MaxEarlySets
    /\ slave' = [slave EXCEPT ![s].updateId = @ + 1]
    /\ UNCHANGED <<master, frozen, manner, call, restarts, hist>>

\* The map is frozen, and remains so, whether or not Remote::init succeeds.
Freeze(s) ==
    /\ s \notin frozen
    /\ frozen' = frozen \cup {s}
    /\ UNCHANGED <<master, slave, manner, call, restarts, hist>>

\* The server accepts the Init request of a client, one of Slaves or another.
Host ==
    /\ ~IsHosted
    /\ master' = Hosted(Initial)
    /\ hist' = [n \in {0} |-> Initial]
    /\ UNCHANGED <<slave, frozen, manner, call, restarts>>

\* A hook calls set, or commits a batch.
Write(changes) ==
    /\ IsHosted
    /\ master.updateId < MaxUpdates
    /\ master' = Committed(master, changes)
    /\ hist' = [n \in 0..master'.updateId |->
                    IF n = master'.updateId THEN master'.data ELSE hist[n]]
    /\ UNCHANGED <<slave, frozen, manner, call, restarts>>

\* Connections break with the server; an answer may already have left.
RestartServer ==
    /\ IsHosted
    /\ restarts < MaxRestarts
    /\ master' = NotHosted
    /\ call' = [s \in Slaves |-> IF Asking(s) THEN NoCall ELSE call[s]]
    /\ restarts' = restarts + 1
    /\ UNCHANGED <<slave, frozen, manner, hist>>

-----------------------------------------------------------------------------
\* An application asks for whatever id it likes, as the example of lib.rs
\* does, or for one id after the other.
TargetsOf(s) ==
    IF manner[s] = "next" THEN {slave[s].updateId + 1} ELSE Targets

Poll(s, upto) ==
    /\ s \in frozen
    /\ upto \in TargetsOf(s)
    /\ call[s] = NoCall
    /\ upto > slave[s].updateId
    /\ call' = [call EXCEPT ![s] = [from |-> slave[s].updateId, upto |-> upto]]
    /\ UNCHANGED <<master, slave, frozen, manner, restarts, hist>>

Answer(s) ==
    /\ Asking(s)
    /\ IsHosted
    /\ call' = [call EXCEPT ![s] =
                    [reply |-> GetDiff(master, call[s].from, call[s].upto)]]
    /\ UNCHANGED <<master, slave, frozen, manner, restarts, hist>>

\* HashNotFound from the server, or the connection breaks.
FetchFails(s) ==
    /\ call[s] # NoCall
    /\ call' = [call EXCEPT ![s] = NoCall]
    /\ UNCHANGED <<master, slave, frozen, manner, restarts, hist>>

Applicable(s, diff) == ~IsEmptyDiff(diff) /\ diff.from <= slave[s].updateId

Apply(s) ==
    /\ Answered(s)
    /\ Applicable(s, call[s].reply)
    /\ slave' = [slave EXCEPT ![s] = Updated(@, call[s].reply)]
    /\ call' = [call EXCEPT ![s] = NoCall]
    /\ UNCHANGED <<master, frozen, manner, restarts, hist>>

\* EmptyDiff, or a diff that starts after the slave's own id.
Reject(s) ==
    /\ Answered(s)
    /\ ~Applicable(s, call[s].reply)
    /\ call' = [call EXCEPT ![s] = NoCall]
    /\ UNCHANGED <<master, slave, frozen, manner, restarts, hist>>

Next ==
    \/ \E s \in Slaves :
           \/ EarlySet(s) \/ Freeze(s)
           \/ \E upto \in TargetsOf(s) : Poll(s, upto)
           \/ Answer(s) \/ FetchFails(s) \/ Apply(s) \/ Reject(s)
    \/ Host
    \/ \E changes \in Batches : Write(changes)
    \/ RestartServer

Spec == Init /\ [][Next]_vars

(* The application polls again and again, as the library is "based on the  *)
(* idea of polling" (lib.rs), and neither the network nor the scheduler    *)
(* makes every exchange fail.  Nobody is obliged to write, host or freeze. *)
Fairness ==
    \A s \in Slaves :
        /\ WF_vars(\E upto \in TargetsOf(s) : Poll(s, upto))
        /\ SF_vars(Answer(s))
        /\ SF_vars(Apply(s) \/ Reject(s))

FairSpec == Spec /\ Fairness

-----------------------------------------------------------------------------
(* What a slave shows is the contents the master had at the slave's own    *)
(* update id: never a mix of versions, never a version under another's id. *)
SlaveHoldsVersion ==
    IsHosted => \A s \in frozen :
        /\ slave[s].updateId <= master.updateId
        /\ slave[s].data = hist[slave[s].updateId]

\* What a slave keeps for its own get_diff: the history of the freeze.
RelayMap(s) ==
    [Hosted(Initial) EXCEPT !.data     = slave[s].data,
                            !.updateId = slave[s].updateId,
                            !.isMaster = FALSE]

(* A client can be a proxy (lib.rs:51) that answers others with get_diff   *)
(* on its slave map, though set_update_id never records what it applied.   *)
(* Such an answer, to a reader at any version of the master, starts no     *)
(* later than there and still leads to a whole version: to that of the     *)
(* proxy, except that a reader at the initial version is kept there.       *)
RelayAnswersAreVersions ==
    IsHosted =>
        \A s \in frozen, n \in DOMAIN hist : \A upto \in Targets :
            upto > n =>
                LET diff == GetDiff(RelayMap(s), n, upto)
                IN  /\ diff.from <= n
                    /\ diff.upto = IF n = 0 THEN 0 ELSE slave[s].updateId
                    /\ Overlay(hist[n], diff.changes) = hist[diff.upto]

(* The whole protocol, messages and diffs included, shows its users the    *)
(* abstract store: replicas only move on, and only to whole versions.      *)
Store == INSTANCE VersionedStore
         WITH Replicas <- Slaves,
              States   <- Contents,
              versions <- hist,
              at       <- [s \in Slaves |-> slave[s].updateId],
              copy     <- [s \in Slaves |-> slave[s].data]

ImplementsStore == Store!StoreSpec

(* An answer that has been under way for however long, over restarts of    *)
(* the server too, still fits the slave: it starts no later than the id    *)
(* the slave is at, so the "not consistent" error of set_update_id never   *)
(* happens and no change is skipped.                                       *)
AnswerFits ==
    \A s \in Slaves : Answered(s) => call[s].reply.from <= slave[s].updateId

\* Every batch that a request of the slave can get it was empty, and
\* set_update_id therefore refuses to leave its version.
BehindEmptyBatches(s) ==
    /\ slave[s].updateId \in 1..(master.updateId - 1)
    /\ \A i \in DOMAIN master.diffs :
           /\ master.diffs[i].upto > slave[s].updateId
           /\ manner[s] = "next" => master.diffs[i].from = slave[s].updateId
           => IsEmptyDiff(master.diffs[i])

CaughtUp ==
    IsHosted => \A s \in frozen : \/ slave[s].data = master.data
                                 \/ BehindEmptyBatches(s)

(* If the server keeps hosting the map and writes cease, every polling     *)
(* slave ends up with the master's contents, even one that followed an     *)
(* earlier incarnation of the map, or sets of its own, to a higher id.     *)
(* The exception is a slave that waits behind empty batches: behind all    *)
(* that are left or, if it asks for one id after the other, behind one.    *)
Convergence == <>[]IsHosted => <>[]CaughtUp

-----------------------------------------------------------------------------
(* What comments and docs of the source say and the code does not do.      *)

(* statemap.rs:232: set_update_id "does not allow the state to move        *)
(* backwards".                                                             *)
NeverBackwards ==
    [][\A s \in frozen : slave'[s].updateId >= slave[s].updateId]_vars
=============================================================================

------------------------------ MODULE TcpServer ------------------------------
(***************************************************************************)
(* How a map comes to be hosted: TcpStateServer (src/tcp/server.rs) and    *)
(* TcpStateRemote::init (src/tcp/remote.rs), which freeze calls.           *)
(*                                                                         *)
(* A client asks for the update id of its hash and, if the server does not *)
(* know it, sends the map in an Init request.  The server runs every       *)
(* request in a thread of its own and keeps its state behind one mutex;    *)
(* a request handled within one critical section is one step, an Init      *)
(* request is several, for the mutex is released while the map is rebuilt  *)
(* and while the init hooks run.  A thread outlives the connection it      *)
(* serves.  A map is known here by its hash only.                          *)
(***************************************************************************)
EXTENDS Integers, FiniteSets

CONSTANTS
    Clients,       \* clients that freeze a map
    Threads,       \* bound: server threads with an Init request
    Maps,          \* the initial states, named by their hashes
    Unrepeatable,  \* maps for which the server finds another hash: a key was
                   \* pushed twice
    Undecodable,   \* maps of other key and value types than the server's
    Failing,       \* maps for which an init hook may return an error
    Panicking,     \* maps for which an init hook may panic
    NoMap,
    NoThread,
    NumHooks,      \* the init hooks of the server
    Faults         \* what can go wrong besides broken connections

ASSUME KindsOfMaps     == Unrepeatable \cup Undecodable \cup Failing \cup Panicking
                              \subseteq Maps
ASSUME NoMapIsNoMap    == NoMap \notin Maps
ASSUME NoThreadIsNone  == NoThread \notin Threads
ASSUME NumHooksIsNat   == NumHooks \in Nat
ASSUME FaultsAreKnown  ==
    Faults \subseteq {"badRequest", "restart", "refreeze", "password"}

VARIABLES
    statemaps,     \* the hashes of the hosted maps
    processed,     \* processed_hashes
    poisoned,      \* a thread panicked while it held the server mutex
    pc,            \* what each thread is at
    job,           \* the hash of the Init request it handles
    hooksRun,      \* init hooks it has run with success
    state,         \* what each client is at
    wants,         \* the hash of its map
    conn,          \* the thread that is to answer its Init request
    inserts        \* history variable: how often each hash was inserted
                   \* into statemaps since the server started

serverVars == <<statemaps, processed, poisoned, inserts>>
threadVars == <<pc, job, hooksRun>>
clientVars == <<state, wants, conn>>
vars == <<serverVars, threadVars, clientVars>>

TcpServerTypeOK ==
    /\ statemaps \subseteq Maps
    /\ processed \subseteq Maps
    /\ poisoned \in BOOLEAN
    /\ pc \in [Threads -> {"idle", "check", "build", "hooks"}]
    /\ job \in [Threads -> Maps \cup {NoMap}]
    /\ hooksRun \in [Threads -> 0..NumHooks]
    /\ state \in [Clients -> {"building", "asking", "waiting", "ok", "failed"}]
    /\ wants \in [Clients -> Maps \cup {NoMap}]
    /\ conn \in [Clients -> Threads \cup {NoThread}]
    /\ inserts \in [Maps -> Nat]

Init ==
    /\ statemaps = {} /\ processed = {} /\ poisoned = FALSE
    /\ pc = [t \in Threads |-> "idle"]
    /\ job = [t \in Threads |-> NoMap]
    /\ hooksRun = [t \in Threads |-> 0]
    /\ state = [c \in Clients |-> "building"]
    /\ wants = [c \in Clients |-> NoMap]
    /\ conn = [c \in Clients |-> NoThread]
    /\ inserts = [m \in Maps |-> 0]

-----------------------------------------------------------------------------
(* The client.                                                             *)

\* freeze, on a map not frozen before: the first one or, after an error, a
\* newly built one.  Remote::init sends GetUpdateId.
Freeze(c, m) ==
    /\ state[c] \in {"building", "failed"}
    /\ state' = [state EXCEPT ![c] = "asking"]
    /\ wants' = [wants EXCEPT ![c] = m]
    /\ UNCHANGED <<conn, serverVars, threadVars>>

\* freeze once more on the map whose freeze failed: it is frozen, so Ok.
FreezeAgain(c) ==
    /\ "refreeze" \in Faults
    /\ state[c] = "failed"
    /\ state' = [state EXCEPT ![c] = "ok"]
    /\ UNCHANGED <<wants, conn, serverVars, threadVars>>

Becomes(c, s) ==
    /\ state' = [state EXCEPT ![c] = s]
    /\ conn' = [conn EXCEPT ![c] = NoThread]
    /\ UNCHANGED <<wants, serverVars, threadVars>>

\* The server knows the hash.
AnsweredUpdateId(c) ==
    /\ state[c] = "asking"
    /\ ~poisoned
    /\ wants[c] \in statemaps
    /\ Becomes(c, "ok")

\* The server takes the client's password for wrong and looks no further;
\* init takes every answer but HashNotFound for "known".
AnsweredIncorrectPassword(c) ==
    /\ "password" \in Faults
    /\ state[c] = "asking"
    /\ ~poisoned
    /\ Becomes(c, "ok")

\* Mutant: every answer to GetUpdateId is taken for "known".
AnsweredAnything(c, t) ==
    /\ state[c] = "asking"
    /\ ~poisoned
    /\ pc[t] = "idle"
    /\ Becomes(c, "ok")

\* HashNotFound: the client connects again and sends Init.
AnsweredNotFound(c, t) ==
    /\ state[c] = "asking"
    /\ ~poisoned
    /\ wants[c] \notin statemaps
    /\ pc[t] = "idle"
    /\ state' = [state EXCEPT ![c] = "waiting"]
    /\ conn' = [conn EXCEPT ![c] = t]
    /\ pc' = [pc EXCEPT ![t] = "check"]
    /\ job' = [job EXCEPT ![t] = wants[c]]
    /\ UNCHANGED <<wants, hooksRun, serverVars>>

\* The connection breaks, or the server closes it because of the poison.
Disconnect(c) ==
    /\ state[c] \in {"asking", "waiting"}
    /\ Becomes(c, "failed")

-----------------------------------------------------------------------------
(* The Init request in its thread.                                         *)

\* The thread ends, and its client, if still there, gets the outcome.
Ends(t, outcome) ==
    /\ pc' = [pc EXCEPT ![t] = "idle"]
    /\ job' = [job EXCEPT ![t] = NoMap]
    /\ hooksRun' = [hooksRun EXCEPT ![t] = 0]
    /\ state' = [c \in Clients |-> IF conn[c] = t THEN outcome ELSE state[c]]
    /\ conn' = [c \in Clients |-> IF conn[c] = t THEN NoThread ELSE conn[c]]
    /\ UNCHANGED wants

\* processed_hashes.remove, skipped if the mutex is poisoned.
Release(t) ==
    /\ processed' = IF poisoned THEN processed ELSE processed \ {job[t]}
    /\ UNCHANGED <<statemaps, poisoned, inserts>>

\* InitSuccess: hosted, or another thread has the hash in hand.
CheckKnown(t) ==
    /\ pc[t] = "check"
    /\ ~poisoned
    /\ job[t] \in statemaps \cup processed
    /\ Ends(t, "ok")
    /\ UNCHANGED serverVars

\* Mutant: processed_hashes is not looked at.
CheckUnhosted(t) ==
    /\ pc[t] = "check"
    /\ ~poisoned
    /\ job[t] \notin statemaps
    /\ processed' = processed \cup {job[t]}
    /\ pc' = [pc EXCEPT ![t] = "build"]
    /\ UNCHANGED <<statemaps, poisoned, inserts, job, hooksRun, clientVars>>

CheckNew(t) ==
    /\ pc[t] = "check"
    /\ ~poisoned
    /\ job[t] \notin statemaps \cup processed
    /\ processed' = processed \cup {job[t]}
    /\ pc' = [pc EXCEPT ![t] = "build"]
    /\ UNCHANGED <<statemaps, poisoned, inserts, job, hooksRun, clientVars>>

\* server.lock() fails.
CheckPoisoned(t) ==
    /\ pc[t] = "check"
    /\ poisoned
    /\ Ends(t, "failed")
    /\ UNCHANGED serverVars

Build(t) ==
    /\ pc[t] = "build"
    /\ job[t] \notin Undecodable \cup Unrepeatable
    /\ pc' = [pc EXCEPT ![t] = "hooks"]
    /\ UNCHANGED <<serverVars, job, hooksRun, clientVars>>

\* Mutant: the error leaves the hash behind.
DecodeFailsAtOnce(t) ==
    /\ pc[t] = "build"
    /\ job[t] \in Undecodable
    /\ Ends(t, "failed")
    /\ UNCHANGED serverVars

DecodeFails(t) ==
    /\ pc[t] = "build"
    /\ job[t] \in Undecodable
    /\ Release(t)
    /\ Ends(t, "failed")

\* The hash stays in processed_hashes.
HashMismatch(t) ==
    /\ pc[t] = "build"
    /\ job[t] \in Unrepeatable \ Undecodable
    /\ Ends(t, "failed")
    /\ UNCHANGED serverVars

\* Mutant: one hook too many.
HookSucceedsPastEnd(t) ==
    /\ pc[t] = "hooks"
    /\ hooksRun[t] <= NumHooks
    /\ hooksRun' = [hooksRun EXCEPT ![t] = @ + 1]
    /\ UNCHANGED <<serverVars, pc, job, clientVars>>

HookSucceeds(t) ==
    /\ pc[t] = "hooks"
    /\ hooksRun[t] < NumHooks
    /\ hooksRun' = [hooksRun EXCEPT ![t] = @ + 1]
    /\ UNCHANGED <<serverVars, pc, job, clientVars>>

\* Mutant: the early return leaves the hash behind.
HookFailsAtOnce(t) ==
    /\ pc[t] = "hooks"
    /\ job[t] \in Failing
    /\ hooksRun[t] < NumHooks
    /\ Ends(t, "failed")
    /\ UNCHANGED serverVars

\* InitFailure.
HookFails(t) ==
    /\ pc[t] = "hooks"
    /\ job[t] \in Failing
    /\ hooksRun[t] < NumHooks
    /\ Release(t)
    /\ Ends(t, "failed")

\* The thread unwinds without the mutex; the connection closes.
HookPanics(t) ==
    /\ pc[t] = "hooks"
    /\ job[t] \in Panicking
    /\ hooksRun[t] < NumHooks
    /\ Ends(t, "failed")
    /\ UNCHANGED serverVars

\* Mutant: the map is released but not inserted.
InsertNothing(t) ==
    /\ pc[t] = "hooks"
    /\ hooksRun[t] = NumHooks
    /\ ~poisoned
    /\ Release(t)
    /\ Ends(t, "ok")

Insert(t) ==
    /\ pc[t] = "hooks"
    /\ hooksRun[t] = NumHooks
    /\ ~poisoned
    /\ statemaps' = statemaps \cup {job[t]}
    /\ processed' = processed \ {job[t]}
    /\ inserts' = [inserts EXCEPT ![job[t]] = @ + 1]
    /\ Ends(t, "ok")
    /\ UNCHANGED poisoned

InsertPoisoned(t) ==
    /\ pc[t] = "hooks"
    /\ hooksRun[t] = NumHooks
    /\ poisoned
    /\ Ends(t, "failed")
    /\ UNCHANGED serverVars

-----------------------------------------------------------------------------
(* The rest of the server.                                                 *)

\* A GetDiff request on a hosted map panics (a target far enough below the
\* start) while the thread holds the mutex.
BadRequest ==
    /\ "badRequest" \in Faults
    /\ statemaps # {}
    /\ poisoned' = TRUE
    /\ UNCHANGED <<statemaps, processed, inserts, threadVars, clientVars>>

\* The process ends and another one is started: nothing is persistent.
Restart ==
    /\ "restart" \in Faults
    /\ statemaps' = {} /\ processed' = {} /\ poisoned' = FALSE
    /\ inserts' = [m \in Maps |-> 0]
    /\ pc' = [t \in Threads |-> "idle"]
    /\ job' = [t \in Threads |-> NoMap]
    /\ hooksRun' = [t \in Threads |-> 0]
    /\ state' = [c \in Clients |->
                    IF state[c] \in {"asking", "waiting"} THEN "failed" ELSE state[c]]
    /\ conn' = [c \in Clients |-> NoThread]
    /\ UNCHANGED wants

ThreadStep(t) ==
    \/ CheckKnown(t) \/ CheckNew(t) \/ CheckPoisoned(t)
    \/ Build(t) \/ DecodeFails(t) \/ HashMismatch(t)
    \/ HookSucceeds(t) \/ HookFails(t) \/ HookPanics(t)
    \/ Insert(t) \/ InsertPoisoned(t)

ClientStep(c) ==
    \/ \E m \in Maps : Freeze(c, m)
    \/ FreezeAgain(c)
    \/ AnsweredUpdateId(c)
    \/ AnsweredIncorrectPassword(c)
    \/ \E t \in Threads : AnsweredNotFound(c, t)
    \/ Disconnect(c)

Next ==
    \/ \E c \in Clients : ClientStep(c)
    \/ \E t \in Threads : ThreadStep(t)
    \/ BadRequest
    \/ Restart

Spec == Init /\ [][Next]_vars

(* A thread that can run does run, and init hooks return.  Clients owe     *)
(* nothing.                                                                *)
FairSpec == Spec /\ \A t \in Threads : WF_vars(ThreadStep(t))

-----------------------------------------------------------------------------
Initialising(t) == pc[t] \in {"build", "hooks"}

\* The hashes that must be in hand when they are in processed_hashes.
InHand(hashes) ==
    \A m \in processed \cap hashes : \E t \in Threads : Initialising(t) /\ job[t] = m

\* A thread that initialises a map has claimed its hash, and has it alone.
Claimed ==
    \A t \in Threads : Initialising(t) =>
        /\ job[t] \in processed \ statemaps
        /\ \A u \in Threads : Initialising(u) /\ job[u] = job[t] => u = t

(* server.rs:104: the set processed_hashes names the hashes "in between    *)
(* init phase".  While the server mutex is sound, each hash in it is in    *)
(* the hands of a thread, and a thread works on a hash that is in the set  *)
(* and not hosted yet, alone.                                              *)
ProcessedOnlyInInit == ~poisoned => InHand(Maps) /\ Claimed

(* The part of it that the code keeps: a hash that no thread has in hand   *)
(* is one that the server did not find again, or whose init hook panicked. *)
(* Errors of the decoder and of hooks, broken connections, restarts and    *)
(* requests for other maps leave nothing behind.                           *)
OthersReleased ==
    ~poisoned => InHand(Maps \ (Unrepeatable \cup Panicking)) /\ Claimed

(* A hosted map is never replaced by a second one made from the same       *)
(* initial state, whose hooks would run again and which would forget every *)
(* change made so far.                                                     *)
HostedOnce == \A m \in Maps : inserts[m] <= 1

(* remote.rs:22: init "ensures that the Remote holds or hosts an instance  *)
(* of the StateMap": when freeze returned Ok, the map is hosted, or at     *)
(* least a thread is about to host it.                                     *)
OkMeansInHand ==
    \A c \in Clients : state[c] = "ok" =>
        \/ wants[c] \in statemaps
        \/ \E t \in Threads : Initialising(t) /\ job[t] = wants[c]

\* Maps whose initialisation does not fail.
Reliable == Maps \ (Unrepeatable \cup Undecodable \cup Failing \cup Panicking)

(* The part of it that the code keeps, as long as the server runs and the  *)
(* password is right.                                                      *)
ReliableInHand ==
    \A c \in Clients : state[c] = "ok" /\ wants[c] \in Reliable =>
        \/ wants[c] \in statemaps
        \/ \E t \in Threads : Initialising(t) /\ job[t] = wants[c]

(* A client that was told Ok while another one's request was still being   *)
(* processed need only wait: the map does get hosted.                      *)
OkMeansHostedSoon ==
    \A c \in Clients : \A m \in Reliable :
        (state[c] = "ok" /\ wants[c] = m) ~> m \in statemaps

(* An Init request never keeps its hash for ever: one way or the other the *)
(* next request for it gets a chance, as long as the mutex is sound.       *)
HashReleased ==
    \A m \in Maps \ (Unrepeatable \cup Panicking) :
        m \in processed ~> (m \notin processed \/ poisoned)
=============================================================================

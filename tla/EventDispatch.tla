---------------------------- MODULE EventDispatch ----------------------------
(***************************************************************************)
(* The running TcpStateServer (src/tcp/server.rs): connections in threads  *)
(* of their own, events in further threads that run the hooks, one mutex   *)
(* for the server and one for every hosted map.                            *)
(*                                                                         *)
(* A caller stands for one call that an application makes, and makes again *)
(* when it failed: send_event, or fetch_updates for a map of its own that  *)
(* is still at update id 0.  A reader asks for a target it knows, or first *)
(* for the newest id (GetUpdateId) and then, in a request of its own, for  *)
(* the diff up to that.  A request that reads a map waits for the mutex of *)
(* the map while it holds that of the server; a hook holds the mutex of    *)
(* the map only.  What happens under a mutex without a break, and waits    *)
(* for no other, is one step.  How maps come to be hosted is the subject   *)
(* of TcpServer, get_diff that of StateMap.                                *)
(*                                                                         *)
(* A map is the log of the updates its hooks made: the i-th of them made   *)
(* update id i.  A hook locks the map once, as hooks.rs recommends, reads  *)
(* it and makes NumSets writes that depend on what it has read: each by    *)
(* StateMap::set, which is an update of its own, or all of them through a  *)
(* StateMapModifier, whose commit is one update.                           *)
(***************************************************************************)
EXTENDS Integers, Sequences, FiniteSets

CONSTANTS
    Callers,
    Conns,       \* bound: threads that serve a connection
    Workers,     \* bound: threads that process an event
    Maps,
    NumHooks,    \* the hooks of the server
    NumSets,     \* what each hook writes
    Scenarios,   \* bound: what the callers may ask for
    Faults,      \* what else can go wrong
    Nobody,      \* no caller, no thread
    NotShown,    \* a caller that was not answered with contents
    Newest       \* the target of a reader that has yet to ask for the id

Threads == Conns \cup Workers
Hooks   == 1..NumHooks

(* upto: the target of a reader.  batch: the hooks use a StateMapModifier  *)
(* for this event.  fails, panics: the hooks that may do so on it.         *)
(* Stranger: the password is wrong.  Garbled: an event of another type     *)
(* than the server's.  Backward: a target below the start, on which        *)
(* get_diff may panic.  tries is a bound: how many requests the caller     *)
(* makes in one life of the server.                                        *)
Calls == [ kind   : {"event", "read"},
           map    : Maps,
           upto   : Nat \cup {Newest},
           batch  : BOOLEAN,
           fails  : SUBSET Hooks,
           panics : SUBSET Hooks,
           flaw   : {"none", "stranger", "garbled", "backward"},
           tries  : Nat ]

ASSUME NobodyIsNobody  == Nobody \notin Callers \cup Threads
ASSUME ThreadsDiffer   == Conns \cap Workers = {}
ASSUME CountsAreNat    == NumHooks \in Nat /\ NumSets \in Nat \ {0}
ASSUME NewestIsNoId    == Newest \notin Nat
ASSUME ScenariosAsk    == Scenarios \subseteq [Callers -> Calls]
ASSUME KnownFaults     == Faults \subseteq {"cutRequest", "restart"}

Writes  == [by : Callers, hook : Hooks, set : 1..NumSets]
\* The first to the last of the writes of a hook.
Updates == [by : Callers, hook : Hooks, first : 1..NumSets, last : 1..NumSets]

ASSUME NotShownIsNothing == NotShown \notin Seq(Updates)

VARIABLES
    asks,        \* what each caller asks for; never changes
    hosted,      \* the hosted maps
    server,      \* the thread that holds the server mutex
    poisoned,    \* the server mutex is poisoned
    lock,        \* the thread that holds the mutex of a map
    broken,      \* the maps whose mutex is poisoned
    value,       \* the updates of the maps; there are as many as the id says
    state,       \* what each caller is at
    conn,        \* the thread it is connected to
    upto,        \* the target it asks for
    shown,       \* the contents its map has after the answer
    pc,          \* what each connection thread is at
    serves,      \* the caller it was started for
    run,         \* the caller whose event a worker processes
    at,          \* what the worker is at
    hook,        \* the hook it runs or is about to run
    sets,        \* the writes this hook has made to the map
    mods,        \* the writes in its StateMapModifier
    local,       \* the contents this hook knows of
    sends, taken,\* history variables: tries of each caller, and how many of
                 \* them were answered EventInProcess, in this life
    stale        \* history variable: readers that know an id of a former life

serverVars == <<hosted, server, poisoned>>
mapVars    == <<lock, broken, value>>
callerVars == <<state, conn, upto, shown, sends, stale>>
connVars   == <<pc, serves>>
workerVars == <<run, at, hook, sets, mods, local>>
vars == <<asks, serverVars, mapVars, callerVars, connVars, workerVars, taken>>

EventTypeOK ==
    /\ asks \in Scenarios
    /\ hosted \subseteq Maps
    /\ server \in Conns \cup {Nobody}
    /\ poisoned \in BOOLEAN
    /\ lock \in [Maps -> Workers \cup {Nobody}]
    /\ broken \subseteq Maps
    /\ value \in [Maps -> Seq(Updates)]
    /\ state \in [Callers -> {"idle", "connected", "sent", "cut", "ok", "failed"}]
    /\ conn \in [Callers -> Conns \cup {Nobody}]
    /\ upto \in [Callers -> Nat \cup {Newest}]
    /\ shown \in [Callers -> Seq(Updates) \cup {NotShown}]
    /\ stale \subseteq Callers
    /\ pc \in [Conns -> {"idle", "start", "read", "check", "getmap"}]
    /\ serves \in [Conns -> Callers \cup {Nobody}]
    /\ run \in [Workers -> Callers \cup {Nobody}]
    /\ at \in [Workers -> {"idle", "next", "holds"}]
    /\ hook \in [Workers -> 1..(NumHooks + 1)]
    /\ sets \in [Workers -> 0..NumSets]
    /\ mods \in [Workers -> 0..NumSets]
    /\ local \in [Workers -> Seq(Updates)]
    /\ sends \in [Callers -> Nat]
    /\ taken \in [Callers -> Nat]

EmptyLogs == [m \in Maps |-> << >>]
NoSends   == [c \in Callers |-> 0]

AskedMaps == {asks[c].map : c \in Callers}

Init ==
    /\ asks \in Scenarios
    /\ hosted = AskedMaps /\ server = Nobody /\ poisoned = FALSE
    /\ lock = [m \in Maps |-> Nobody] /\ broken = {} /\ value = EmptyLogs
    /\ state = [c \in Callers |-> "idle"]
    /\ conn = [c \in Callers |-> Nobody]
    /\ upto = [c \in Callers |-> asks[c].upto] /\ stale = {}
    /\ shown = [c \in Callers |-> NotShown]
    /\ pc = [t \in Conns |-> "idle"] /\ serves = [t \in Conns |-> Nobody]
    /\ at = [w \in Workers |-> "idle"] /\ run = [w \in Workers |-> Nobody]
    /\ hook = [w \in Workers |-> 1] /\ sets = [w \in Workers |-> 0]
    /\ mods = [w \in Workers |-> 0] /\ local = [w \in Workers |-> << >>]
    /\ sends = NoSends /\ taken = NoSends

-----------------------------------------------------------------------------
(* The caller: TcpStateRemote::send_request.                               *)

\* The application has a request to make: the first one, one that failed, or
\* the one for the diff after the one for the newest id.  set_update_id does
\* not ask for an id that its map is at.
Calling(c) ==
    /\ \/ state[c] \in {"idle", "failed"}
       \/ state[c] = "ok" /\ asks[c].upto = Newest /\ shown[c] = NotShown
    /\ asks[c].kind = "read" => upto[c] # 0

\* TcpStream::connect; the accept loop starts a thread for the connection.
Connect(c, t) ==
    /\ Calling(c)
    /\ sends[c] < asks[c].tries
    /\ pc[t] = "idle"
    /\ state' = [state EXCEPT ![c] = "connected"]
    /\ conn' = [conn EXCEPT ![c] = t]
    /\ sends' = [sends EXCEPT ![c] = @ + 1]
    /\ pc' = [pc EXCEPT ![t] = "start"]
    /\ serves' = [serves EXCEPT ![t] = c]
    /\ UNCHANGED <<asks, upto, shown, stale, serverVars, mapVars, workerVars, taken>>

\* The first write completes the handshake, for which the thread must be
\* reading.  The request arrives whole.
Request(c) ==
    /\ state[c] = "connected"
    /\ pc[conn[c]] = "read"
    /\ state' = [state EXCEPT ![c] = "sent"]
    /\ pc' = [pc EXCEPT ![conn[c]] = "check"]
    /\ UNCHANGED <<asks, conn, upto, shown, sends, stale, serves, serverVars, mapVars,
                   workerVars, taken>>

\* write takes less than the request, for rustls buffers a bounded amount, and
\* says so, unheard: the caller waits for the answer, the thread for the rest.
RequestCut(c) ==
    /\ "cutRequest" \in Faults
    /\ state[c] = "connected"
    /\ pc[conn[c]] = "read"
    /\ state' = [state EXCEPT ![c] = "cut"]
    /\ UNCHANGED <<asks, conn, upto, shown, sends, stale, connVars, serverVars, mapVars,
                   workerVars, taken>>

\* The caller ends or the connection breaks, at any point, or the answer is
\* cut short: the stream is closed by the thread, which ends all the same.
HangUp(c) ==
    /\ state[c] \in {"connected", "sent", "cut"}
    /\ state' = [state EXCEPT ![c] = "failed"]
    /\ conn' = [conn EXCEPT ![c] = Nobody]
    /\ UNCHANGED <<asks, upto, shown, sends, stale, connVars, serverVars, mapVars,
                   workerVars, taken>>

-----------------------------------------------------------------------------
(* The thread of a connection: handle_stream and process_request.          *)
Asked(t)     == asks[serves[t]]
Connected(t) == \E c \in Callers : conn[c] = t

\* The thread ends; its caller, if still there, gets the outcome.
Closes(t, outcome, contents) ==
    /\ pc' = [pc EXCEPT ![t] = "idle"]
    /\ serves' = [serves EXCEPT ![t] = Nobody]
    /\ state' = [c \in Callers |-> IF conn[c] = t THEN outcome ELSE state[c]]
    /\ shown' = [c \in Callers |-> IF conn[c] = t THEN contents ELSE shown[c]]
    /\ conn' = [c \in Callers |-> IF conn[c] = t THEN Nobody ELSE conn[c]]
    /\ UNCHANGED <<asks, sends, stale>>

Ends(t, outcome, contents) == Closes(t, outcome, contents) /\ UNCHANGED upto

\* The TLS configuration and the password are copied under the mutex.
Start(t) ==
    /\ pc[t] = "start"
    /\ server = Nobody
    /\ IF poisoned
       THEN Ends(t, "failed", NotShown)
       ELSE /\ pc' = [pc EXCEPT ![t] = "read"]
            /\ UNCHANGED <<asks, serves, callerVars>>
    /\ UNCHANGED <<serverVars, mapVars, workerVars, taken>>

\* read_exact has no timeout; it fails when the other side is gone.
ReadFails(t) ==
    /\ pc[t] = "read"
    /\ ~Connected(t)
    /\ Ends(t, "failed", NotShown)
    /\ UNCHANGED <<serverVars, mapVars, workerVars, taken>>

\* IncorrectPassword; the server mutex is not asked for.
Refuse(t) ==
    /\ pc[t] = "check"
    /\ Asked(t).flaw = "stranger"
    /\ Ends(t, "failed", NotShown)
    /\ UNCHANGED <<serverVars, mapVars, workerVars, taken>>

\* The thread may enter process_request.
Admitted(t) ==
    /\ pc[t] = "check"
    /\ Asked(t).flaw # "stranger"
    /\ server = Nobody

\* Event::deserialize returns an error.
Garbled(t) == Asked(t).kind = "event" /\ Asked(t).flaw = "garbled"

\* The mutex is poisoned, the map is not hosted, or the event cannot be
\* deserialised.
Fruitless(t) ==
    /\ Admitted(t)
    /\ \/ poisoned
       \/ Asked(t).map \notin hosted
       \/ Garbled(t)
    /\ Ends(t, "failed", NotShown)
    /\ UNCHANGED <<serverVars, mapVars, workerVars, taken>>

Served(t, kind) ==
    /\ Admitted(t)
    /\ ~poisoned
    /\ Asked(t).map \in hosted
    /\ Asked(t).kind = kind

\* EventInProcess: the hooks run in a thread of their own.
TakeEvent(t, w) ==
    /\ Served(t, "event")
    /\ ~Garbled(t)
    /\ at[w] = "idle"
    /\ run' = [run EXCEPT ![w] = serves[t]]
    /\ at' = [at EXCEPT ![w] = "next"]
    /\ taken' = [taken EXCEPT ![serves[t]] = @ + 1]
    /\ Ends(t, "ok", NotShown)
    /\ UNCHANGED <<hook, sets, mods, local, serverVars, mapVars>>

\* GetDiff, GetUpdateId: the server mutex is kept for what follows.
LockServer(t) ==
    /\ Served(t, "read")
    /\ server' = t
    /\ pc' = [pc EXCEPT ![t] = "getmap"]
    /\ UNCHANGED <<asks, hosted, poisoned, serves, callerVars, mapVars, workerVars, taken>>

AsksId(t) == upto[serves[t]] = Newest

\* The map is locked, by nobody else, and sound.
LocksMap(t) ==
    /\ pc[t] = "getmap"
    /\ lock[Asked(t).map] = Nobody
    /\ Asked(t).map \notin broken

\* The answer has the newest id, which becomes the target of the reader.
LearnsId(t) ==
    LET newest == Len(value[Asked(t).map])
    IN  /\ upto' = [c \in Callers |-> IF conn[c] = t THEN newest ELSE upto[c]]
        /\ Closes(t, "ok", NotShown)

\* Mutant: the mutex of the map is not waited for.
ReadIdAtOnce(t) ==
    /\ pc[t] = "getmap"
    /\ Asked(t).map \notin broken
    /\ AsksId(t)
    /\ server' = Nobody
    /\ LearnsId(t)
    /\ UNCHANGED <<hosted, poisoned, mapVars, workerVars, taken>>

\* GetUpdateId.
ReadId(t) ==
    /\ LocksMap(t)
    /\ AsksId(t)
    /\ server' = Nobody
    /\ LearnsId(t)
    /\ UNCHANGED <<hosted, poisoned, mapVars, workerVars, taken>>

\* The contents of a map at update id "to", or at its newest one.
UpTo(log, to) == SubSeq(log, 1, IF to < Len(log) THEN to ELSE Len(log))

\* GetDiff: get_diff leads to the target, or as far as the map is.
ReadMap(t) ==
    /\ LocksMap(t)
    /\ ~AsksId(t)
    /\ Asked(t).flaw # "backward"
    /\ server' = Nobody
    /\ Ends(t, "ok", UpTo(value[Asked(t).map], upto[serves[t]]))
    /\ UNCHANGED <<hosted, poisoned, mapVars, workerVars, taken>>

\* get_diff has some answer, which set_update_id would not have asked for.
ReadBackwards(t) ==
    /\ LocksMap(t)
    /\ ~AsksId(t)
    /\ Asked(t).flaw = "backward"
    /\ server' = Nobody
    /\ Ends(t, "ok", NotShown)
    /\ UNCHANGED <<hosted, poisoned, mapVars, workerVars, taken>>

\* The error ends the thread, and the server mutex stays sound.
ReadBroken(t) ==
    /\ pc[t] = "getmap"
    /\ lock[Asked(t).map] = Nobody
    /\ Asked(t).map \in broken
    /\ server' = Nobody
    /\ Ends(t, "failed", NotShown)
    /\ UNCHANGED <<hosted, poisoned, mapVars, workerVars, taken>>

\* get_diff panics while the thread holds both mutexes.
ReadPanics(t) ==
    /\ LocksMap(t)
    /\ ~AsksId(t)
    /\ Asked(t).flaw = "backward"
    /\ server' = Nobody
    /\ poisoned' = TRUE
    /\ broken' = broken \cup {Asked(t).map}
    /\ Ends(t, "failed", NotShown)
    /\ UNCHANGED <<hosted, lock, value, workerVars, taken>>

-----------------------------------------------------------------------------
(* The thread of an event: for x in hooks_arc.iter().                      *)
Event(w)    == asks[run[w]]
EventMap(w) == Event(w).map

\* The hook has returned, with Ok or with an error, which is only logged.
NextHook(w) ==
    /\ at' = [at EXCEPT ![w] = "next"]
    /\ hook' = [hook EXCEPT ![w] = @ + 1]
    /\ sets' = [sets EXCEPT ![w] = 0]
    /\ mods' = [mods EXCEPT ![w] = 0]
    /\ local' = [local EXCEPT ![w] = << >>]
    /\ UNCHANGED run

WorkerEnds(w) ==
    /\ run' = [run EXCEPT ![w] = Nobody]
    /\ at' = [at EXCEPT ![w] = "idle"]
    /\ hook' = [hook EXCEPT ![w] = 1]
    /\ sets' = [sets EXCEPT ![w] = 0]
    /\ mods' = [mods EXCEPT ![w] = 0]
    /\ local' = [local EXCEPT ![w] = << >>]

Unlock(w) == lock' = [lock EXCEPT ![EventMap(w)] = Nobody]

\* Mutant: a hook too many.
HookLocksPastEnd(w) ==
    LET m == EventMap(w)
    IN  /\ at[w] = "next"
        /\ lock[m] = Nobody
        /\ m \notin broken
        /\ lock' = [lock EXCEPT ![m] = w]
        /\ at' = [at EXCEPT ![w] = "holds"]
        /\ local' = [local EXCEPT ![w] = value[m]]
        /\ UNCHANGED <<asks, broken, value, run, hook, sets, mods, serverVars, callerVars,
                       connVars, taken>>

\* Mutant: the hook reads the map before its turn with the mutex has come.
HookLocksEarly(w) ==
    LET m == EventMap(w)
    IN  /\ at[w] = "next"
        /\ hook[w] <= NumHooks
        /\ m \notin broken
        /\ lock' = [lock EXCEPT ![m] = w]
        /\ at' = [at EXCEPT ![w] = "holds"]
        /\ local' = [local EXCEPT ![w] = value[m]]
        /\ UNCHANGED <<asks, broken, value, run, hook, sets, mods, serverVars, callerVars,
                       connVars, taken>>

HookLocks(w) ==
    LET m == EventMap(w)
    IN  /\ at[w] = "next"
        /\ hook[w] <= NumHooks
        /\ lock[m] = Nobody
        /\ m \notin broken
        /\ lock' = [lock EXCEPT ![m] = w]
        /\ at' = [at EXCEPT ![w] = "holds"]
        /\ local' = [local EXCEPT ![w] = value[m]]
        /\ UNCHANGED <<asks, broken, value, run, hook, sets, mods, serverVars, callerVars,
                       connVars, taken>>

\* The hook passes the poison on as its error.
HookFindsBroken(w) ==
    /\ at[w] = "next"
    /\ hook[w] <= NumHooks
    /\ lock[EventMap(w)] = Nobody
    /\ EventMap(w) \in broken
    /\ NextHook(w)
    /\ UNCHANGED <<asks, mapVars, serverVars, callerVars, connVars, taken>>

\* The hook adds its writes up to "last" to the map, under one update id.
Updated(w, last) ==
    LET update == [by |-> run[w], hook |-> hook[w], first |-> sets[w] + 1, last |-> last]
    IN  /\ local' = [local EXCEPT ![w] = Append(@, update)]
        /\ value' = [value EXCEPT ![EventMap(w)] = local'[w]]
        /\ sets' = [sets EXCEPT ![w] = last]
        /\ UNCHANGED <<asks, lock, broken, run, at, hook, mods, serverVars, callerVars,
                       connVars, taken>>

\* StateMap::set, on a master.
HookWrites(w) ==
    /\ at[w] = "holds"
    /\ ~Event(w).batch
    /\ sets[w] < NumSets
    /\ Updated(w, sets[w] + 1)

\* StateMapModifier::set: the map does not change.
HookSets(w) ==
    /\ at[w] = "holds"
    /\ Event(w).batch
    /\ mods[w] < NumSets
    /\ mods' = [mods EXCEPT ![w] = @ + 1]
    /\ UNCHANGED <<asks, mapVars, run, at, hook, sets, local, serverVars, callerVars,
                   connVars, taken>>

\* Mutant: a batch is recorded one write at a time.
HookCommitsSingly(w) ==
    /\ at[w] = "holds"
    /\ Event(w).batch
    /\ mods[w] = NumSets
    /\ sets[w] < NumSets
    /\ Updated(w, sets[w] + 1)

\* StateMapModifier::commit.
HookCommits(w) ==
    /\ at[w] = "holds"
    /\ Event(w).batch
    /\ mods[w] = NumSets
    /\ sets[w] = 0
    /\ Updated(w, NumSets)

HookReturns(w) ==
    /\ at[w] = "holds"
    /\ sets[w] = NumSets
    /\ Unlock(w)
    /\ NextHook(w)
    /\ UNCHANGED <<asks, broken, value, serverVars, callerVars, connVars, taken>>

\* Mutant: an error of a hook ends the thread.
HookFailsForAll(w) ==
    /\ at[w] = "holds"
    /\ hook[w] \in Event(w).fails
    /\ Unlock(w)
    /\ WorkerEnds(w)
    /\ UNCHANGED <<asks, broken, value, serverVars, callerVars, connVars, taken>>

\* Writes made before the error remain; a modifier is dropped with its writes.
HookFails(w) ==
    /\ at[w] = "holds"
    /\ hook[w] \in Event(w).fails
    /\ Unlock(w)
    /\ NextHook(w)
    /\ UNCHANGED <<asks, broken, value, serverVars, callerVars, connVars, taken>>

\* Mutant: the mutex is not released by a thread that unwinds.
HookPanicsHolding(w) ==
    /\ at[w] = "holds"
    /\ hook[w] \in Event(w).panics
    /\ WorkerEnds(w)
    /\ UNCHANGED <<asks, lock, broken, value, serverVars, callerVars, connVars, taken>>

\* The thread unwinds: the mutex is released poisoned, and the hooks after
\* this one do not run.
HookPanics(w) ==
    /\ at[w] = "holds"
    /\ hook[w] \in Event(w).panics
    /\ Unlock(w)
    /\ broken' = broken \cup {EventMap(w)}
    /\ WorkerEnds(w)
    /\ UNCHANGED <<asks, value, serverVars, callerVars, connVars, taken>>

\* Before it asks for the mutex, or after it has released it: the mutex stays
\* sound, but the hooks after this one do not run either.
HookPanicsUnlocked(w) ==
    /\ \/ at[w] = "next" /\ UNCHANGED lock
       \/ at[w] = "holds" /\ sets[w] = NumSets /\ Unlock(w)
    /\ hook[w] \in Event(w).panics
    /\ WorkerEnds(w)
    /\ UNCHANGED <<asks, broken, value, serverVars, callerVars, connVars, taken>>

AllHooksRun(w) ==
    /\ at[w] = "next"
    /\ hook[w] = NumHooks + 1
    /\ WorkerEnds(w)
    /\ UNCHANGED <<asks, mapVars, serverVars, callerVars, connVars, taken>>

-----------------------------------------------------------------------------
(* The process.                                                            *)

\* An Init request of some client is accepted (see TcpServer).
Host(m) ==
    /\ m \in AskedMaps \ hosted
    /\ server = Nobody
    /\ ~poisoned
    /\ hosted' = hosted \cup {m}
    /\ UNCHANGED <<asks, server, poisoned, mapVars, callerVars, connVars, workerVars, taken>>

\* Nothing is persistent: hosted maps, and the events under way, are lost.
\* The callers of before are succeeded by others that ask for the same, but a
\* reader may have learnt the id it asks for before.
Restart ==
    /\ "restart" \in Faults
    /\ hosted' = {} /\ server' = Nobody /\ poisoned' = FALSE
    /\ lock' = [m \in Maps |-> Nobody] /\ broken' = {} /\ value' = EmptyLogs
    /\ state' = [c \in Callers |-> "idle"]
    /\ conn' = [c \in Callers |-> Nobody]
    /\ shown' = [c \in Callers |-> NotShown]
    /\ pc' = [t \in Conns |-> "idle"] /\ serves' = [t \in Conns |-> Nobody]
    /\ at' = [w \in Workers |-> "idle"] /\ run' = [w \in Workers |-> Nobody]
    /\ hook' = [w \in Workers |-> 1] /\ sets' = [w \in Workers |-> 0]
    /\ mods' = [w \in Workers |-> 0] /\ local' = [w \in Workers |-> << >>]
    /\ sends' = NoSends /\ taken' = NoSends
    /\ stale' = stale \cup {c \in Callers : upto[c] # asks[c].upto}
    /\ UNCHANGED <<asks, upto>>

ConnStep(t) ==
    \/ Start(t) \/ ReadFails(t) \/ Refuse(t) \/ Fruitless(t)
    \/ \E w \in Workers : TakeEvent(t, w)
    \/ LockServer(t) \/ ReadId(t) \/ ReadMap(t) \/ ReadBackwards(t)
    \/ ReadBroken(t) \/ ReadPanics(t)

WorkerStep(w) ==
    \/ HookLocks(w) \/ HookFindsBroken(w)
    \/ HookWrites(w) \/ HookSets(w) \/ HookCommits(w) \/ HookReturns(w)
    \/ HookFails(w) \/ HookPanics(w) \/ HookPanicsUnlocked(w) \/ AllHooksRun(w)

CallerStep(c) ==
    \/ \E t \in Conns : Connect(c, t)
    \/ Request(c) \/ RequestCut(c) \/ HangUp(c)

Next ==
    \/ \E c \in Callers : CallerStep(c)
    \/ \E t \in Conns : ConnStep(t)
    \/ \E w \in Workers : WorkerStep(w)
    \/ \E m \in Maps : Host(m)
    \/ Restart

Spec == Init /\ [][Next]_vars

(* Threads that can run do run, and hooks return.  Callers owe nothing:    *)
(* one that is connected may be silent for ever.                           *)
FairSpec ==
    /\ Spec
    /\ \A t \in Conns : WF_vars(ConnStep(t))
    /\ \A w \in Workers : WF_vars(WorkerStep(w))

-----------------------------------------------------------------------------
Log == INSTANCE EventLog WITH Senders <- Callers, Logs <- Maps,
                              sent <- sends, log <- value

(* The mutexes make of all hooks of all events one sequence of writes per  *)
(* map, in which nothing that a hook wrote is lost, and no event is        *)
(* processed more often than its caller sent it, however often connections *)
(* break and callers try again.                                            *)
ImplementsLog == Log!LogSpec

\* The second update goes on where the first one stopped.
Continues(u, v) == v.by = u.by /\ v.hook = u.hook /\ v.first = u.last + 1

\* The hook that made the i-th update is in the log with all of its writes.
WholeAt(log, i) ==
    /\ log[i].first = 1 \/ (i > 1 /\ Continues(log[i - 1], log[i]))
    /\ log[i].last = NumSets \/ (i < Len(log) /\ Continues(log[i], log[i + 1]))

\* No hook stops after some of its writes to the map: errors undo nothing.
NoneStopsShort(m) ==
    \A c \in Callers : asks[c].map = m /\ ~asks[c].batch => asks[c].fails = {}

(* statemap.rs:328: a batch "also ensures atomic diffs".  A reader is      *)
(* shown all that a hook wrote in a batch or nothing of it, whatever id it *)
(* asks for and whatever goes wrong in the hook.  Of a hook that makes its *)
(* writes one by one, a reader that asked for the newest id before it      *)
(* asked for the diff is shown all or nothing too, although hooks have     *)
(* gone on in between; not if another target cuts through the hook, if an  *)
(* error did, or if the id is one of before a restart.                     *)
ShownWhole ==
    \A r \in Callers : shown[r] # NotShown =>
        \A i \in DOMAIN shown[r] :
            \/ asks[shown[r][i].by].batch
            \/ asks[r].upto = Newest /\ r \notin stale /\ NoneStopsShort(asks[r].map)
            => WholeAt(shown[r], i)

(* Every request that arrived whole is answered, or its connection closed, *)
(* whatever hooks, silent callers and poisoned mutexes there are: nobody   *)
(* holds the server mutex for ever.                                        *)
RequestsEnd == \A c \in Callers : state[c] = "sent" ~> state[c] # "sent"

Sound(m) ==
    \A c \in Callers : asks[c].map = m =>
        asks[c].panics = {} /\ asks[c].flaw # "backward"

Done(c) ==
    \A h \in Hooks \ asks[c].fails, n \in 1..NumSets :
        \E i \in DOMAIN value[asks[c].map] :
            Log!Makes(value[asks[c].map][i], [by |-> c, hook |-> h, set |-> n])

(* server.rs:169: "after which all the Hooks are run".  When a caller was  *)
(* told that its event is in process, every hook that does not fail does   *)
(* its work, also after hooks that failed and while other maps are         *)
(* poisoned, unless the server is restarted first.                         *)
OkEventRuns ==
    \A c \in Callers :
        (asks[c].kind = "event" /\ Sound(asks[c].map) /\ state[c] = "ok")
            ~> (Done(c) \/ asks[c].map \notin hosted)

(* server.rs:204: "We send and recieve data in a length-prefixed manner",  *)
(* and server.rs:178: the server "writes back the response".               *)
CallsEnd ==
    \A c \in Callers : state[c] \in {"sent", "cut"} ~> state[c] \notin {"sent", "cut"}
=============================================================================

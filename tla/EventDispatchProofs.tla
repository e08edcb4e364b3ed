------------------------ MODULE EventDispatchProofs -------------------------
(***************************************************************************)
(* Proofs about EventDispatch, for any callers, connections, workers,      *)
(* maps, hooks, scenarios and faults.                                      *)
(***************************************************************************)
EXTENDS EventDispatch, FiniteSetTheorems, TLAPS

-----------------------------------------------------------------------------
(* The invariants.                                                         *)

\* A connection thread that is not idle serves a caller, and a caller waits
\* for the thread that serves it.
ConnsInv ==
    /\ \A t \in Conns : pc[t] # "idle" => serves[t] \in Callers
    /\ \A c \in Callers : conn[c] # Nobody =>
           serves[conn[c]] = c /\ pc[conn[c]] # "idle"

\* A worker has an event until it is idle, only runs hooks there are, and
\* begins each with nothing written.
WorkersInv ==
    \A w \in Workers :
        /\ at[w] = "idle" => run[w] = Nobody
        /\ at[w] # "idle" => run[w] \in Callers
        /\ at[w] = "holds" => hook[w] \in Hooks
        /\ at[w] # "holds" => sets[w] = 0

\* A hook that holds the mutex of its map holds it alone, so that what it read
\* and wrote is what the map contains.
HoldsInv ==
    \A w \in Workers : at[w] = "holds" =>
        /\ lock[EventMap(w)] = w
        /\ local[w] = value[EventMap(w)]

DispatchInv == EventTypeOK /\ ConnsInv /\ WorkersInv /\ HoldsInv

\* The hook of the i-th update was done with it, or goes on in the next one.
Goes(log, i) == log[i].last = NumSets \/ Continues(log[i], log[i + 1])

\* A log in which no hook lacks what comes before a write of it.
Begun(log) ==
    \A i \in 1..Len(log) :
        log[i].first = 1 \/ (i > 1 /\ Continues(log[i - 1], log[i]))

\* One in which the hooks of a batching event made one update each.
Batched(log) ==
    \A i \in 1..Len(log) :
        asks[log[i].by].batch => log[i].first = 1 /\ log[i].last = NumSets

\* One in which all hooks but that of the last update went on to their end.
Opened(log) == \A i \in 1..(Len(log) - 1) : Goes(log, i)

\* One whose first n updates are those of hooks that went on to their end.
Ended(log, n) ==
    /\ n <= Len(log)
    /\ \A i \in 1..(n - 1) : Goes(log, i)
    /\ n > 0 => log[n].last = NumSets

LogsBegun == \A m \in Maps : Begun(value[m]) /\ Batched(value[m])

\* The last update of a map is that of the hook which holds it, as far as the
\* hook has got, and nothing else is unfinished.
HeldOpened(w) ==
    LET log == value[EventMap(w)]
    IN  /\ sets[w] > 0 =>
               /\ Len(log) > 0
               /\ log[Len(log)].by = run[w] /\ log[Len(log)].hook = hook[w]
               /\ log[Len(log)].last = sets[w]
        /\ Event(w).batch => sets[w] \in {0, NumSets}
        /\ NoneStopsShort(EventMap(w)) =>
               Opened(log) /\ (sets[w] = 0 => Ended(log, Len(log)))

HeldMapsOpened == \A w \in Workers : at[w] = "holds" => HeldOpened(w)

\* A map whose mutex is free and sound has no unfinished hook.
FreeMapsEnded ==
    \A m \in Maps :
        NoneStopsShort(m) /\ m \notin broken /\ lock[m] = Nobody =>
            Ended(value[m], Len(value[m]))

MapsInv == LogsBegun /\ HeldMapsOpened /\ FreeMapsEnded

Learns(r) == asks[r].upto = Newest /\ r \notin stale /\ NoneStopsShort(asks[r].map)

\* An id that was learnt while the mutex was free is one between hooks.
LearntEnded ==
    \A r \in Callers :
        Learns(r) /\ upto[r] # Newest => Ended(value[asks[r].map], upto[r])

ReadWhole ==
    \A r \in Callers : shown[r] # NotShown =>
        /\ Begun(shown[r]) /\ Batched(shown[r])
        /\ Learns(r) => Ended(shown[r], Len(shown[r]))

WholeInv == MapsInv /\ LearntEnded /\ ReadWhole

\* The connection threads that may yet take the event of a caller, and the
\* workers that may yet make a write.
Serving(c) == {t \in Conns : serves[t] = c}

Pending(x) ==
    {w \in Workers : /\ run[w] = x.by
                     /\ \/ hook[w] < x.hook
                        \/ hook[w] = x.hook /\ sets[w] < x.set}

\* Every event that was or may be taken was sent.
SentInv ==
    \A c \in Callers :
        /\ IsFiniteSet(Serving(c))
        /\ taken[c] + Cardinality(Serving(c)) <= sends[c]

\* Every write that was or may be made is one of an event that was taken.
MadeInv ==
    \A x \in Writes :
        /\ IsFiniteSet(Pending(x))
        /\ Log!Times(x, value[asks[x.by].map]) + Cardinality(Pending(x)) <= taken[x.by]

CountsInv == SentInv /\ MadeInv

-----------------------------------------------------------------------------
(* Connections.                                                            *)

Outcomes == {"ok", "failed"}
Answers  == Seq(Updates) \cup {NotShown}

ConnTypes ==
    /\ asks \in Scenarios
    /\ state \in [Callers -> {"idle", "connected", "sent", "cut", "ok", "failed"}]
    /\ conn \in [Callers -> Conns \cup {Nobody}]
    /\ upto \in [Callers -> Nat \cup {Newest}]
    /\ shown \in [Callers -> Answers]
    /\ stale \subseteq Callers
    /\ sends \in [Callers -> Nat]
    /\ pc \in [Conns -> {"idle", "start", "read", "check", "getmap"}]
    /\ serves \in [Conns -> Callers \cup {Nobody}]

LEMMA ClosesKeeps ==
    ASSUME ConnTypes, ConnsInv, NEW t \in Conns, NEW outcome \in Outcomes,
           NEW contents \in Answers, Closes(t, outcome, contents),
           upto' \in [Callers -> Nat \cup {Newest}]
    PROVE  ConnTypes' /\ ConnsInv'
<1>1. ConnTypes'
    BY DEF ConnTypes, Closes, Outcomes
<1>2. ASSUME NEW u \in Conns, pc'[u] # "idle"
      PROVE  serves'[u] \in Callers
    BY <1>2 DEF ConnTypes, ConnsInv, Closes
<1>3. ASSUME NEW c \in Callers, conn'[c] # Nobody
      PROVE  serves'[conn'[c]] = c /\ pc'[conn'[c]] # "idle"
  <2>1. conn'[c] = conn[c] /\ conn[c] \in Conns /\ conn[c] # t
    BY <1>3 DEF ConnTypes, Closes
  <2> QED BY <1>3, <2>1 DEF ConnTypes, ConnsInv, Closes
<1> QED BY <1>1, <1>2, <1>3 DEF ConnsInv

LEMMA CallerKeeps ==
    ASSUME ConnTypes, ConnsInv, NEW c \in Callers, CallerStep(c)
    PROVE  ConnTypes' /\ ConnsInv'
<1>1. ASSUME NEW t \in Conns, Connect(c, t)
      PROVE  ConnTypes' /\ ConnsInv'
  <2>1. ConnTypes'
    BY <1>1 DEF Connect, ConnTypes
  <2>2. ASSUME NEW u \in Conns, pc'[u] # "idle"
        PROVE  serves'[u] \in Callers
    BY <1>1, <2>2 DEF Connect, ConnTypes, ConnsInv
  <2>3. ASSUME NEW d \in Callers, conn'[d] # Nobody
        PROVE  serves'[conn'[d]] = d /\ pc'[conn'[d]] # "idle"
    <3>1. CASE d = c
      BY <1>1, <3>1 DEF Connect, ConnTypes
    <3>2. CASE d # c
      <4>1. conn'[d] = conn[d] /\ conn[d] \in Conns
        BY <1>1, <2>3, <3>2 DEF Connect, ConnTypes
      <4>2. conn[d] # t
        BY <1>1, <2>3, <4>1 DEF Connect, ConnsInv
      <4> QED BY <1>1, <2>3, <4>1, <4>2 DEF Connect, ConnTypes, ConnsInv
    <3> QED BY <3>1, <3>2
  <2> QED BY <2>1, <2>2, <2>3 DEF ConnsInv
<1>2. CASE Request(c)
  <2>1. ConnTypes'
    BY <1>2 DEF Request, ConnTypes
  <2>2. \A t \in Conns : pc'[t] # "idle" <=> pc[t] # "idle"
    BY <1>2 DEF Request, ConnTypes
  <2>3. \A d \in Callers : conn[d] # Nobody => conn[d] \in Conns
    BY DEF ConnTypes
  <2> QED BY <1>2, <2>1, <2>2, <2>3 DEF Request, ConnsInv
<1>3. CASE RequestCut(c)
    BY <1>3 DEF RequestCut, ConnTypes, ConnsInv, connVars
<1>4. CASE HangUp(c)
    BY <1>4 DEF HangUp, ConnTypes, ConnsInv, connVars
<1> QED BY <1>1, <1>2, <1>3, <1>4 DEF CallerStep

LEMMA UpToIs ==
    ASSUME NEW log \in Seq(Updates), NEW n \in Nat
    PROVE  LET k == IF n < Len(log) THEN n ELSE Len(log)
           IN  /\ k \in 0..Len(log)
               /\ UpTo(log, n) \in Seq(Updates)
               /\ Len(UpTo(log, n)) = k
               /\ \A i \in 1..k : UpTo(log, n)[i] = log[i]
BY DEF UpTo

\* What a thread does for its connection.
LEMMA ConnKeeps ==
    ASSUME ConnTypes, ConnsInv, value \in [Maps -> Seq(Updates)],
           NEW t \in Conns, ConnStep(t)
    PROVE  ConnTypes' /\ ConnsInv'
<1>1. ASSUME NEW outcome \in Outcomes, NEW contents \in Answers,
             Ends(t, outcome, contents)
      PROVE  ConnTypes' /\ ConnsInv'
    BY <1>1, ClosesKeeps DEF Ends, ConnTypes
<1>2. "ok" \in Outcomes /\ "failed" \in Outcomes /\ NotShown \in Answers
    BY DEF Outcomes, Answers
<1>3. ASSUME NEW p \in {"start", "read", "check", "getmap"}, pc[t] # "idle",
             pc' = [pc EXCEPT ![t] = p], UNCHANGED <<asks, serves, callerVars>>
      PROVE  ConnTypes' /\ ConnsInv'
  <2>1. ConnTypes'
    BY <1>3 DEF ConnTypes, callerVars
  <2>2. \A u \in Conns : pc'[u] # "idle" <=> pc[u] # "idle"
    BY <1>3 DEF ConnTypes
  <2>3. \A d \in Callers : conn[d] # Nobody => conn[d] \in Conns
    BY DEF ConnTypes
  <2> QED BY <1>3, <2>1, <2>2, <2>3 DEF ConnsInv, callerVars
<1>4. CASE Start(t)
    BY <1>1, <1>2, <1>3, <1>4 DEF Start
<1>5. CASE \/ ReadFails(t) \/ Refuse(t) \/ Fruitless(t)
           \/ ReadBackwards(t) \/ ReadBroken(t) \/ ReadPanics(t)
    BY <1>1, <1>2, <1>5
       DEF ReadFails, Refuse, Fruitless, ReadBackwards, ReadBroken, ReadPanics
<1>6. ASSUME NEW w \in Workers, TakeEvent(t, w)
      PROVE  ConnTypes' /\ ConnsInv'
    BY <1>1, <1>2, <1>6 DEF TakeEvent
<1>7. CASE LockServer(t)
    BY <1>3, <1>7 DEF LockServer, Served, Admitted
<1>a. ASSUME pc[t] = "getmap"
      PROVE  serves[t] \in Callers /\ value[Asked(t).map] \in Seq(Updates)
  <2>1. serves[t] \in Callers
    BY <1>a DEF ConnsInv
  <2>2. Asked(t).map \in Maps
    BY <2>1, ScenariosAsk DEF Asked, ConnTypes, Calls
  <2> QED BY <2>1, <2>2
<1>8. CASE ReadMap(t)
  <2>1. /\ pc[t] = "getmap" /\ upto[serves[t]] # Newest
        /\ Ends(t, "ok", UpTo(value[Asked(t).map], upto[serves[t]]))
    BY <1>8 DEF ReadMap, LocksMap, AsksId
  <2>2. upto[serves[t]] \in Nat /\ value[Asked(t).map] \in Seq(Updates)
    BY <1>a, <2>1 DEF ConnTypes
  <2>3. UpTo(value[Asked(t).map], upto[serves[t]]) \in Answers
    BY <2>2, UpToIs DEF Answers
  <2> QED BY <1>1, <1>2, <2>1, <2>3
<1>9. CASE ReadId(t)
  <2>1. pc[t] = "getmap" /\ LearnsId(t)
    BY <1>9 DEF ReadId, LocksMap
  <2>2. Len(value[Asked(t).map]) \in Nat
    BY <1>a, <2>1
  <2>3. upto' \in [Callers -> Nat \cup {Newest}]
    BY <2>1, <2>2 DEF LearnsId, ConnTypes
  <2> QED BY <1>2, <2>1, <2>3, ClosesKeeps DEF LearnsId
<1> QED BY <1>4, <1>5, <1>6, <1>7, <1>8, <1>9 DEF ConnStep

-----------------------------------------------------------------------------
(* Events.                                                                 *)

ServerTypes ==
    /\ hosted \subseteq Maps
    /\ server \in Conns \cup {Nobody}
    /\ poisoned \in BOOLEAN

MapTypes ==
    /\ lock \in [Maps -> Workers \cup {Nobody}]
    /\ broken \subseteq Maps
    /\ value \in [Maps -> Seq(Updates)]

WorkerTypes ==
    /\ run \in [Workers -> Callers \cup {Nobody}]
    /\ at \in [Workers -> {"idle", "next", "holds"}]
    /\ hook \in [Workers -> 1..(NumHooks + 1)]
    /\ sets \in [Workers -> 0..NumSets]
    /\ mods \in [Workers -> 0..NumSets]
    /\ local \in [Workers -> Seq(Updates)]

LEMMA TypesSplit ==
    EventTypeOK <=> /\ ConnTypes /\ ServerTypes /\ MapTypes /\ WorkerTypes
                    /\ taken \in [Callers -> Nat]
BY DEF EventTypeOK, ConnTypes, Answers, ServerTypes, MapTypes, WorkerTypes

LEMMA EventMapType ==
    ASSUME asks \in Scenarios, WorkersInv, NEW w \in Workers, at[w] # "idle"
    PROVE  EventMap(w) \in Maps /\ run[w] \in Callers
BY ScenariosAsk DEF WorkersInv, EventMap, Event, Calls

LEMMA NobodyHolds == Nobody \notin Callers /\ Nobody \notin Workers
BY NobodyIsNobody DEF Threads

\* Workers other than w, when w takes or has the mutex of its map.
LEMMA OthersHold ==
    ASSUME HoldsInv, MapTypes, asks' = asks, NEW w \in Workers, NEW m \in Maps,
           lock[m] \in {w, Nobody},
           \A n \in Maps \ {m} : lock'[n] = lock[n] /\ value'[n] = value[n],
           NEW u \in Workers, u # w, EventMap(u) \in Maps, at[u] = "holds",
           at'[u] = at[u], run'[u] = run[u], local'[u] = local[u]
    PROVE  /\ lock'[EventMap(u)'] = u
           /\ local'[u] = value'[EventMap(u)']
           /\ EventMap(u)' = EventMap(u) /\ EventMap(u) # m
<1>1. EventMap(u)' = EventMap(u)
    BY DEF EventMap, Event
<1>2. EventMap(u) # m
    BY NobodyHolds DEF HoldsInv
<1> QED BY <1>1, <1>2 DEF HoldsInv

\* Where a step of a worker leaves the others.
OnlyWorker(w) ==
    \A u \in Workers \ {w} :
        /\ run'[u] = run[u] /\ at'[u] = at[u] /\ hook'[u] = hook[u]
        /\ sets'[u] = sets[u] /\ mods'[u] = mods[u] /\ local'[u] = local[u]

LEMMA NextHookKeeps ==
    ASSUME WorkerTypes, NEW w \in Workers, hook[w] \in Hooks, NextHook(w)
    PROVE  /\ WorkerTypes' /\ OnlyWorker(w)
           /\ at'[w] = "next" /\ run' = run
           /\ hook'[w] = hook[w] + 1 /\ sets'[w] = 0
<1>1. hook[w] + 1 \in 1..(NumHooks + 1) /\ 0 \in 0..NumSets /\ << >> \in Seq(Updates)
    BY CountsAreNat DEF Hooks
<1> QED BY <1>1 DEF WorkerTypes, NextHook, OnlyWorker

LEMMA WorkerEndsKeeps ==
    ASSUME WorkerTypes, NEW w \in Workers, WorkerEnds(w)
    PROVE  /\ WorkerTypes' /\ OnlyWorker(w)
           /\ at'[w] = "idle" /\ run'[w] = Nobody /\ sets'[w] = 0
<1>1. 1 \in 1..(NumHooks + 1) /\ 0 \in 0..NumSets /\ << >> \in Seq(Updates)
    BY CountsAreNat
<1> QED BY <1>1 DEF WorkerTypes, WorkerEnds, OnlyWorker

\* The invariant of the workers, if it is kept for the one that takes a step.
LEMMA WorkerKept ==
    ASSUME asks \in Scenarios, MapTypes, WorkersInv, HoldsInv, asks' = asks,
           NEW w \in Workers, NEW m \in Maps, OnlyWorker(w),
           lock[m] \in {w, Nobody},
           \A n \in Maps \ {m} : lock'[n] = lock[n] /\ value'[n] = value[n],
           at'[w] = "idle" => run'[w] = Nobody,
           at'[w] # "idle" => run'[w] \in Callers,
           at'[w] # "holds" => sets'[w] = 0,
           at'[w] = "holds" => /\ hook'[w] \in Hooks
                               /\ EventMap(w)' = m
                               /\ lock'[m] = w /\ local'[w] = value'[m]
    PROVE  WorkersInv' /\ HoldsInv'
<1>1. WorkersInv'
    BY DEF WorkersInv, OnlyWorker
<1>2. ASSUME NEW u \in Workers, at'[u] = "holds"
      PROVE  lock'[EventMap(u)'] = u /\ local'[u] = value'[EventMap(u)']
  <2>1. CASE u = w
    BY <1>2, <2>1
  <2>2. CASE u # w
    BY <1>2, <2>2, EventMapType, OthersHold DEF OnlyWorker
  <2> QED BY <2>1, <2>2
<1> QED BY <1>1, <1>2 DEF HoldsInv

\* A write of its own or a commit: an update of the map.
LEMMA WritesUpdate ==
    ASSUME WorkerTypes, NEW w \in Workers, HookWrites(w) \/ HookCommits(w)
    PROVE  \E last \in 1..NumSets :
               /\ at[w] = "holds" /\ sets[w] < last
               /\ Event(w).batch => sets[w] = 0 /\ last = NumSets
               /\ Updated(w, last)
<1>1. sets[w] \in 0..NumSets /\ NumSets \in 1..NumSets
    BY CountsAreNat DEF WorkerTypes
<1>2. CASE HookWrites(w)
  <2>1. sets[w] + 1 \in 1..NumSets /\ sets[w] < sets[w] + 1
    BY <1>1, <1>2, CountsAreNat DEF HookWrites
  <2> QED BY <1>2, <2>1 DEF HookWrites
<1>3. CASE HookCommits(w)
    BY <1>1, <1>3, CountsAreNat DEF HookCommits
<1> QED BY <1>2, <1>3

\* What an update of w changes.
LEMMA UpdateIs ==
    ASSUME MapTypes, WorkerTypes, WorkersInv, HoldsInv, NEW w \in Workers,
           NEW m \in Maps, m = EventMap(w), run[w] \in Callers,
           NEW last \in 1..NumSets, at[w] = "holds", sets[w] < last, Updated(w, last)
    PROVE  \E u \in Updates :
               /\ u.by = run[w] /\ u.hook = hook[w]
               /\ u.first = sets[w] + 1 /\ u.last = last
               /\ local' = [local EXCEPT ![w] = Append(local[w], u)]
               /\ value' = [value EXCEPT ![m] = Append(value[m], u)]
               /\ local[w] = value[m]
<1> DEFINE u == [by |-> run[w], hook |-> hook[w], first |-> sets[w] + 1, last |-> last]
<1>1. hook[w] \in Hooks /\ sets[w] + 1 \in 1..NumSets
    BY CountsAreNat DEF WorkersInv, WorkerTypes
<1>2. u \in Updates
    BY <1>1 DEF Updates
<1>3. u.by = run[w] /\ u.hook = hook[w] /\ u.first = sets[w] + 1 /\ u.last = last
    OBVIOUS
<1>4. /\ local' = [local EXCEPT ![w] = Append(local[w], u)]
      /\ value' = [value EXCEPT ![m] = local'[w]]
    BY DEF Updated
<1> HIDE DEF u
<1>5. local'[w] = Append(local[w], u) /\ local[w] = value[m]
    BY <1>4 DEF WorkerTypes, HoldsInv
<1> QED BY <1>2, <1>3, <1>4, <1>5

\* A worker keeps all invariants but those about what is written.
LEMMA WorkerKeeps ==
    ASSUME asks \in Scenarios, MapTypes, WorkerTypes, WorkersInv, HoldsInv,
           NEW w \in Workers, WorkerStep(w)
    PROVE  MapTypes' /\ WorkerTypes' /\ WorkersInv' /\ HoldsInv'
<1> DEFINE m == EventMap(w)
<1>0. /\ asks' = asks /\ at[w] # "idle" /\ run[w] \in Callers /\ m \in Maps
      /\ at[w] = "holds" => hook[w] \in Hooks /\ lock[m] = w
  <2>1. asks' = asks /\ at[w] # "idle"
    BY DEF WorkerStep, HookLocks, HookFindsBroken, HookWrites, HookSets, HookCommits,
           Updated, HookReturns, HookFails, HookPanics, HookPanicsUnlocked, AllHooksRun
  <2>2. at[w] = "holds" => hook[w] \in Hooks /\ lock[m] = w
    BY DEF WorkersInv, HoldsInv
  <2> QED BY <2>1, <2>2, EventMapType
<1>1. CASE HookLocks(w)
  <2>1. /\ lock[m] = Nobody /\ lock' = [lock EXCEPT ![m] = w]
        /\ at' = [at EXCEPT ![w] = "holds"]
        /\ local' = [local EXCEPT ![w] = value[m]]
        /\ hook[w] <= NumHooks
        /\ UNCHANGED <<asks, broken, value, run, hook, sets, mods>>
    BY <1>1 DEF HookLocks
  <2>2. hook[w] \in Hooks
    BY <2>1, CountsAreNat DEF WorkerTypes, Hooks
  <2>3. MapTypes' /\ WorkerTypes' /\ OnlyWorker(w)
    BY <1>0, <2>1 DEF MapTypes, WorkerTypes, OnlyWorker
  <2>4. EventMap(w)' = m
    BY <2>1 DEF EventMap, Event
  <2>5. /\ at'[w] = "holds" /\ run'[w] = run[w] /\ hook'[w] = hook[w]
        /\ lock'[m] = w /\ local'[w] = value'[m]
        /\ \A n \in Maps \ {m} : lock'[n] = lock[n] /\ value'[n] = value[n]
    BY <1>0, <2>1 DEF MapTypes, WorkerTypes
  <2> HIDE DEF m
  <2>6. WorkersInv' /\ HoldsInv'
    BY <1>0, <2>1, <2>2, <2>3, <2>4, <2>5, WorkerKept
  <2> QED BY <2>3, <2>6
<1>2. CASE HookWrites(w) \/ HookCommits(w)
  <2> PICK last \in 1..NumSets :
          at[w] = "holds" /\ sets[w] < last /\ Updated(w, last)
    BY <1>2, WritesUpdate
  <2> PICK u \in Updates : /\ local' = [local EXCEPT ![w] = Append(local[w], u)]
                           /\ value' = [value EXCEPT ![m] = Append(value[m], u)]
                           /\ local[w] = value[m]
    BY <1>0, UpdateIs
  <2>1. /\ sets' = [sets EXCEPT ![w] = last]
        /\ UNCHANGED <<asks, lock, broken, run, at, hook, mods>>
    BY DEF Updated
  <2>4. Append(local[w], u) \in Seq(Updates)
    BY DEF WorkerTypes
  <2>5. MapTypes' /\ WorkerTypes' /\ OnlyWorker(w)
    BY <1>0, <2>1, <2>4, CountsAreNat DEF MapTypes, WorkerTypes, OnlyWorker
  <2>6. EventMap(w)' = m
    BY <2>1 DEF EventMap, Event
  <2>7. /\ at'[w] = "holds" /\ run'[w] = run[w] /\ hook'[w] = hook[w]
        /\ lock[m] = w /\ lock'[m] = w /\ local'[w] = value'[m]
        /\ \A n \in Maps \ {m} : lock'[n] = lock[n] /\ value'[n] = value[n]
    BY <1>0, <2>1 DEF MapTypes, WorkerTypes
  <2> HIDE DEF m
  <2>8. WorkersInv' /\ HoldsInv'
    BY <1>0, <2>1, <2>5, <2>6, <2>7, WorkerKept
  <2> QED BY <2>5, <2>8
<1>a. CASE HookSets(w)
  <2>1. /\ at[w] = "holds" /\ mods[w] < NumSets
        /\ mods' = [mods EXCEPT ![w] = mods[w] + 1]
        /\ UNCHANGED <<asks, lock, broken, value, run, at, hook, sets, local>>
    BY <1>a DEF HookSets, mapVars
  <2>2. MapTypes' /\ WorkerTypes' /\ OnlyWorker(w)
    BY <2>1, CountsAreNat DEF MapTypes, WorkerTypes, OnlyWorker
  <2>3. EventMap(w)' = m /\ lock[m] = w /\ local[w] = value[m]
    BY <2>1 DEF EventMap, Event, HoldsInv
  <2> HIDE DEF m
  <2>4. WorkersInv' /\ HoldsInv'
    BY <1>0, <2>1, <2>2, <2>3, WorkerKept
  <2> QED BY <2>2, <2>4
<1>3. CASE HookReturns(w) \/ HookFails(w)
  <2>1. /\ at[w] = "holds" /\ NextHook(w) /\ Unlock(w) /\ UNCHANGED <<broken, value>>
    BY <1>3 DEF HookReturns, HookFails
  <2>2. /\ WorkerTypes' /\ OnlyWorker(w)
        /\ at'[w] = "next" /\ run' = run /\ sets'[w] = 0
    BY <1>0, <2>1, NextHookKeeps
  <2>3. /\ MapTypes'
        /\ \A n \in Maps \ {m} : lock'[n] = lock[n] /\ value'[n] = value[n]
    BY <1>0, <2>1 DEF MapTypes, Unlock
  <2> HIDE DEF m
  <2>4. WorkersInv' /\ HoldsInv'
    BY <1>0, <2>1, <2>2, <2>3, WorkerKept
  <2> QED BY <2>2, <2>3, <2>4
<1>4. CASE HookFindsBroken(w)
  <2>1. /\ hook[w] <= NumHooks /\ lock[m] = Nobody /\ NextHook(w)
        /\ UNCHANGED <<lock, broken, value>>
    BY <1>4 DEF HookFindsBroken, mapVars
  <2>2. hook[w] \in Hooks
    BY <2>1, CountsAreNat DEF WorkerTypes, Hooks
  <2>3. /\ WorkerTypes' /\ OnlyWorker(w)
        /\ at'[w] = "next" /\ run' = run /\ sets'[w] = 0
    BY <2>1, <2>2, NextHookKeeps
  <2>4. MapTypes'
    BY <2>1 DEF MapTypes
  <2> HIDE DEF m
  <2>5. WorkersInv' /\ HoldsInv'
    BY <1>0, <2>1, <2>3, WorkerKept
  <2> QED BY <2>3, <2>4, <2>5
<1>5. CASE HookPanics(w) \/ HookPanicsUnlocked(w) \/ AllHooksRun(w)
  <2>1. /\ WorkerTypes' /\ OnlyWorker(w)
        /\ at'[w] = "idle" /\ run'[w] = Nobody /\ sets'[w] = 0
    BY <1>5, WorkerEndsKeeps DEF HookPanics, HookPanicsUnlocked, AllHooksRun
  <2>2. CASE at[w] = "holds" /\ Unlock(w) /\ value' = value /\ broken' \subseteq Maps
    <3>1. MapTypes' /\ lock[m] = w
      BY <1>0, <2>2 DEF MapTypes, Unlock
    <3>2. \A n \in Maps \ {m} : lock'[n] = lock[n] /\ value'[n] = value[n]
      BY <2>2 DEF MapTypes, Unlock
    <3> HIDE DEF m
    <3>3. WorkersInv' /\ HoldsInv'
      BY <1>0, <2>1, <3>1, <3>2, WorkerKept
    <3> QED BY <2>1, <3>1, <3>3
  <2>3. CASE UNCHANGED mapVars
    <3>1. MapTypes' /\ lock' = lock /\ value' = value
      BY <2>3 DEF MapTypes, mapVars
    <3>2. WorkersInv'
      BY <2>1 DEF WorkersInv, OnlyWorker
    <3>3. ASSUME NEW u \in Workers, at'[u] = "holds"
          PROVE  lock'[EventMap(u)'] = u /\ local'[u] = value'[EventMap(u)']
      <4>1. /\ u # w /\ at[u] = "holds" /\ local'[u] = local[u]
            /\ EventMap(u)' = EventMap(u)
        BY <1>0, <2>1, <3>3 DEF OnlyWorker, EventMap, Event
      <4> QED BY <3>1, <4>1 DEF HoldsInv
    <3> QED BY <2>1, <3>1, <3>2, <3>3 DEF HoldsInv
  <2> QED BY <1>0, <1>5, <2>2, <2>3
          DEF HookPanics, HookPanicsUnlocked, AllHooksRun, MapTypes, mapVars
<1> QED BY <1>1, <1>2, <1>a, <1>3, <1>4, <1>5 DEF WorkerStep

-----------------------------------------------------------------------------
(* The steps together.                                                     *)

\* A step that leaves the workers and what the mutexes guard alone.
LEMMA WorkersAlone ==
    ASSUME MapTypes, WorkerTypes, WorkersInv, HoldsInv,
           UNCHANGED <<asks, lock, value, workerVars>>, broken' \subseteq Maps
    PROVE  MapTypes' /\ WorkerTypes' /\ WorkersInv' /\ HoldsInv'
<1>1. MapTypes' /\ WorkerTypes' /\ WorkersInv'
    BY DEF MapTypes, WorkerTypes, WorkersInv, workerVars
<1>2. ASSUME NEW w \in Workers
      PROVE  EventMap(w)' = EventMap(w)
    BY DEF EventMap, Event, workerVars
<1> QED BY <1>1, <1>2 DEF HoldsInv, workerVars

LEMMA DispatchInit == Init => DispatchInv
<1> SUFFICES ASSUME Init PROVE DispatchInv
    OBVIOUS
<1>1. ConnTypes
    BY ScenariosAsk DEF Init, ConnTypes, Answers, NoSends, Calls
<1>2. AskedMaps \subseteq Maps
    BY ScenariosAsk DEF Init, AskedMaps, Calls
<1>3. ServerTypes
    BY <1>2 DEF Init, ServerTypes
<1>4. MapTypes /\ taken \in [Callers -> Nat]
    BY DEF Init, MapTypes, EmptyLogs, NoSends
<1>5. WorkerTypes
    BY CountsAreNat DEF Init, WorkerTypes
<1>6. ConnsInv /\ WorkersInv /\ HoldsInv
    BY DEF Init, ConnsInv, WorkersInv, HoldsInv
<1> QED BY <1>1, <1>3, <1>4, <1>5, <1>6, TypesSplit DEF DispatchInv

\* What a restart leaves is what the server starts with.
LEMMA RestartKeeps ==
    ASSUME DispatchInv, Restart
    PROVE  DispatchInv'
<1>1. ConnTypes'
    BY TypesSplit DEF DispatchInv, Restart, ConnTypes, Answers, NoSends
<1>2. ServerTypes'
    BY DEF Restart, ServerTypes
<1>3. MapTypes' /\ taken' \in [Callers -> Nat]
    BY DEF Restart, MapTypes, EmptyLogs, NoSends
<1>4. WorkerTypes'
    BY CountsAreNat DEF Restart, WorkerTypes
<1>5. ConnsInv' /\ WorkersInv' /\ HoldsInv'
    BY DEF Restart, ConnsInv, WorkersInv, HoldsInv
<1>6. EventTypeOK'
    BY <1>1, <1>2, <1>3, <1>4, TypesSplit
       DEF EventTypeOK, ConnTypes, Answers, ServerTypes, MapTypes, WorkerTypes
<1> QED BY <1>5, <1>6 DEF DispatchInv

LEMMA DispatchStep ==
    ASSUME DispatchInv, [Next]_vars
    PROVE  DispatchInv'
<1>0. /\ ConnTypes /\ ServerTypes /\ MapTypes /\ WorkerTypes
      /\ taken \in [Callers -> Nat] /\ asks \in Scenarios
      /\ ConnsInv /\ WorkersInv /\ HoldsInv
    BY TypesSplit DEF DispatchInv, ConnTypes
<1>1. ASSUME ConnTypes', ServerTypes', MapTypes', WorkerTypes',
             taken' \in [Callers -> Nat], ConnsInv', WorkersInv', HoldsInv'
      PROVE  DispatchInv'
    BY <1>1 DEF DispatchInv, EventTypeOK, ConnTypes, Answers, ServerTypes, MapTypes,
                WorkerTypes
<1>2. ASSUME NEW c \in Callers, CallerStep(c)
      PROVE  DispatchInv'
  <2>1. UNCHANGED <<asks, serverVars, mapVars, workerVars, taken>>
    BY <1>2 DEF CallerStep, Connect, Request, RequestCut, HangUp
  <2>2. ConnTypes' /\ ConnsInv'
    BY <1>0, <1>2, CallerKeeps
  <2>3. MapTypes' /\ WorkerTypes' /\ WorkersInv' /\ HoldsInv'
    BY <1>0, <2>1, WorkersAlone DEF mapVars, MapTypes
  <2> QED BY <1>0, <1>1, <2>1, <2>2, <2>3 DEF ServerTypes, serverVars
<1>3. ASSUME NEW t \in Conns, ConnStep(t)
      PROVE  DispatchInv'
  <2>1. ConnTypes' /\ ConnsInv'
    BY <1>0, <1>3, ConnKeeps DEF MapTypes
  <2>2. asks' = asks /\ pc[t] # "idle" /\ Asked(t).map \in Maps
    <3>1. asks' = asks /\ pc[t] # "idle"
      BY <1>3 DEF ConnStep, Start, Ends, ReadFails, Refuse, Fruitless, TakeEvent,
                  LockServer, ReadId, LearnsId, ReadMap, ReadBackwards, ReadBroken,
                  ReadPanics, LocksMap, Served, Admitted, Closes
    <3> QED BY <1>0, <3>1, ScenariosAsk DEF ConnsInv, Asked, Calls
  <2>3. ServerTypes'
    BY <1>0, <1>3, <2>2
       DEF ConnStep, Start, ReadFails, Refuse, Fruitless, TakeEvent, LockServer, ReadId,
           ReadMap, ReadBackwards, ReadBroken, ReadPanics, serverVars, ServerTypes
  <2>4. CASE UNCHANGED <<lock, value, workerVars, taken>>
    <3>1. broken' \subseteq Maps
      BY <1>0, <1>3, <2>2
         DEF ConnStep, Start, ReadFails, Refuse, Fruitless, TakeEvent, LockServer,
             ReadId, ReadMap, ReadBackwards, ReadBroken, ReadPanics, mapVars, MapTypes
    <3> QED BY <1>0, <1>1, <2>1, <2>2, <2>3, <2>4, <3>1, WorkersAlone
  <2>5. ASSUME NEW w \in Workers, TakeEvent(t, w)
        PROVE  DispatchInv'
    <3>1. /\ at[w] = "idle" /\ serves[t] \in Callers
          /\ run' = [run EXCEPT ![w] = serves[t]]
          /\ at' = [at EXCEPT ![w] = "next"]
          /\ taken' = [taken EXCEPT ![serves[t]] = @ + 1]
          /\ UNCHANGED <<hook, sets, mods, local, lock, broken, value>>
      BY <1>0, <2>2, <2>5 DEF TakeEvent, mapVars, ConnsInv
    <3>2. MapTypes' /\ WorkerTypes' /\ WorkersInv' /\ taken' \in [Callers -> Nat]
      BY <1>0, <3>1 DEF MapTypes, WorkerTypes, WorkersInv
    <3>3. ASSUME NEW u \in Workers, at'[u] = "holds"
          PROVE  lock'[EventMap(u)'] = u /\ local'[u] = value'[EventMap(u)']
      <4>1. at[u] = "holds" /\ EventMap(u)' = EventMap(u)
        BY <1>0, <2>2, <3>1, <3>3 DEF WorkerTypes, EventMap, Event
      <4> QED BY <1>0, <3>1, <4>1 DEF HoldsInv
    <3> QED BY <1>1, <2>1, <2>3, <3>2, <3>3 DEF HoldsInv
  <2> QED BY <1>3, <2>4, <2>5
          DEF ConnStep, Start, ReadFails, Refuse, Fruitless, LockServer, ReadId, ReadMap,
              ReadBackwards, ReadBroken, ReadPanics, mapVars
<1>4. ASSUME NEW w \in Workers, WorkerStep(w)
      PROVE  DispatchInv'
  <2>1. UNCHANGED <<asks, serverVars, callerVars, connVars, taken>>
    BY <1>4 DEF WorkerStep, HookLocks, HookFindsBroken, HookWrites, HookSets, HookCommits,
                Updated, HookReturns, HookFails, HookPanics, HookPanicsUnlocked, AllHooksRun
  <2>2. ConnTypes' /\ ConnsInv' /\ ServerTypes'
    BY <1>0, <2>1 DEF ConnTypes, ConnsInv, ServerTypes, serverVars, callerVars, connVars
  <2> QED BY <1>0, <1>1, <1>4, <2>1, <2>2, WorkerKeeps
<1>5. ASSUME NEW m \in Maps, Host(m)
      PROVE  DispatchInv'
  <2>1. /\ hosted' = hosted \cup {m}
        /\ UNCHANGED <<asks, server, poisoned, mapVars, callerVars, connVars, workerVars,
                       taken>>
    BY <1>5 DEF Host
  <2>2. ConnTypes' /\ ConnsInv' /\ ServerTypes'
    BY <1>0, <2>1 DEF ConnTypes, ConnsInv, ServerTypes, callerVars, connVars
  <2>3. MapTypes' /\ WorkerTypes' /\ WorkersInv' /\ HoldsInv'
    BY <1>0, <2>1, WorkersAlone DEF mapVars, MapTypes
  <2> QED BY <1>0, <1>1, <2>1, <2>2, <2>3
<1>6. CASE UNCHANGED vars
  <2>1. UNCHANGED <<asks, serverVars, mapVars, callerVars, connVars, workerVars, taken>>
    BY <1>6 DEF vars
  <2>2. ConnTypes' /\ ConnsInv' /\ ServerTypes'
    BY <1>0, <2>1 DEF ConnTypes, ConnsInv, ServerTypes, serverVars, callerVars, connVars
  <2>3. MapTypes' /\ WorkerTypes' /\ WorkersInv' /\ HoldsInv'
    BY <1>0, <2>1, WorkersAlone DEF mapVars, MapTypes
  <2> QED BY <1>0, <1>1, <2>1, <2>2, <2>3
<1> QED BY <1>2, <1>3, <1>4, <1>5, <1>6, RestartKeeps DEF Next

-----------------------------------------------------------------------------
(* Whole logs.                                                             *)

LEMMA AppendIs ==
    ASSUME NEW log \in Seq(Updates), NEW u \in Updates
    PROVE  /\ Append(log, u) \in Seq(Updates)
           /\ Len(log) \in Nat /\ Len(Append(log, u)) = Len(log) + 1
           /\ Append(log, u)[Len(log) + 1] = u
           /\ \A i \in 1..Len(log) : Append(log, u)[i] = log[i] /\ log[i] \in Updates
OBVIOUS

\* An id at which all hooks had ended remains one.
LEMMA EndedMore ==
    ASSUME NEW log \in Seq(Updates), NEW u \in Updates, NEW n \in Nat, Ended(log, n)
    PROVE  Ended(Append(log, u), n)
<1> DEFINE more == Append(log, u)
<1>1. /\ Len(log) \in Nat /\ Len(more) = Len(log) + 1
      /\ \A i \in 1..Len(log) : more[i] = log[i]
    BY AppendIs
<1> HIDE DEF more
<1>2. n \in 0..Len(log) /\ n <= Len(more)
    BY <1>1 DEF Ended
<1>3. ASSUME NEW i \in 1..(n - 1)
      PROVE  Goes(more, i)
  <2>1. i \in 1..Len(log) /\ i + 1 \in 1..Len(log)
    BY <1>2
  <2> QED BY <1>1, <2>1 DEF Ended, Goes
<1>4. n > 0 => more[n].last = NumSets
    BY <1>1, <1>2 DEF Ended
<1>5. Ended(more, n)
    BY <1>2, <1>3, <1>4 DEF Ended
<1> QED BY <1>5 DEF more

LEMMA OpenedMore ==
    ASSUME NEW log \in Seq(Updates), NEW u \in Updates, Opened(log),
           Len(log) > 0 => \/ log[Len(log)].last = NumSets
                           \/ Continues(log[Len(log)], u)
    PROVE  Opened(Append(log, u))
<1> DEFINE more == Append(log, u)
<1>1. /\ Len(log) \in Nat /\ Len(more) = Len(log) + 1
      /\ more[Len(log) + 1] = u
      /\ \A i \in 1..Len(log) : more[i] = log[i]
    BY AppendIs
<1> HIDE DEF more
<1>2. ASSUME NEW i \in 1..(Len(more) - 1)
      PROVE  Goes(more, i)
  <2>1. CASE i = Len(log)
    BY <1>1, <1>2, <2>1 DEF Goes
  <2>2. CASE i # Len(log)
    <3>1. i \in 1..(Len(log) - 1) /\ i \in 1..Len(log) /\ i + 1 \in 1..Len(log)
      BY <1>1, <1>2, <2>2
    <3> QED BY <1>1, <3>1 DEF Opened, Goes
  <2> QED BY <2>1, <2>2
<1>3. Opened(more)
    BY <1>2 DEF Opened
<1> QED BY <1>3 DEF more

LEMMA BegunMore ==
    ASSUME NEW log \in Seq(Updates), NEW u \in Updates, Begun(log),
           u.first = 1 \/ (Len(log) > 0 /\ Continues(log[Len(log)], u))
    PROVE  Begun(Append(log, u))
<1> DEFINE more == Append(log, u)
<1>1. /\ Len(log) \in Nat /\ Len(more) = Len(log) + 1
      /\ more[Len(log) + 1] = u
      /\ \A i \in 1..Len(log) : more[i] = log[i]
    BY AppendIs
<1> HIDE DEF more
<1>2. ASSUME NEW i \in 1..Len(more)
      PROVE  more[i].first = 1 \/ (i > 1 /\ Continues(more[i - 1], more[i]))
  <2>1. CASE i = Len(log) + 1
    BY <1>1, <2>1
  <2>2. CASE i # Len(log) + 1
    <3>1. i \in 1..Len(log) /\ (i > 1 => i - 1 \in 1..Len(log))
      BY <1>1, <1>2, <2>2
    <3> QED BY <1>1, <3>1 DEF Begun
  <2> QED BY <2>1, <2>2
<1>3. Begun(more)
    BY <1>2 DEF Begun
<1> QED BY <1>3 DEF more

LEMMA BatchedMore ==
    ASSUME NEW log \in Seq(Updates), NEW u \in Updates, Batched(log),
           asks[u.by].batch => u.first = 1 /\ u.last = NumSets
    PROVE  Batched(Append(log, u))
<1> DEFINE more == Append(log, u)
<1>1. /\ Len(log) \in Nat /\ Len(more) = Len(log) + 1
      /\ more[Len(log) + 1] = u
      /\ \A i \in 1..Len(log) : more[i] = log[i]
    BY AppendIs
<1> HIDE DEF more
<1>2. ASSUME NEW i \in 1..Len(more), asks[more[i].by].batch
      PROVE  more[i].first = 1 /\ more[i].last = NumSets
  <2>1. CASE i = Len(log) + 1
    BY <1>1, <1>2, <2>1
  <2>2. CASE i # Len(log) + 1
    <3>1. i \in 1..Len(log)
      BY <1>1, <1>2, <2>2
    <3> QED BY <1>1, <1>2, <3>1 DEF Batched
  <2> QED BY <2>1, <2>2
<1>3. Batched(more)
    BY <1>2 DEF Batched
<1> QED BY <1>3 DEF more

LEMMA EndedIs ==
    ASSUME NEW log \in Seq(Updates)
    PROVE  Ended(log, Len(log)) <=>
               Opened(log) /\ (Len(log) > 0 => log[Len(log)].last = NumSets)
BY DEF Ended, Opened

\* What a reader gets of a log.
LEMMA PrefixWhole ==
    ASSUME NEW log \in Seq(Updates), NEW n \in Nat
    PROVE  /\ Begun(log) => Begun(UpTo(log, n))
           /\ Batched(log) => Batched(UpTo(log, n))
           /\ Ended(log, n) => Ended(UpTo(log, n), Len(UpTo(log, n)))
<1> DEFINE part == UpTo(log, n)
<1> PICK k \in 0..Len(log) :
        /\ k = IF n < Len(log) THEN n ELSE Len(log)
        /\ Len(part) = k
        /\ \A i \in 1..k : part[i] = log[i]
    BY UpToIs
<1>0. Len(log) \in Nat
    OBVIOUS
<1> HIDE DEF part
<1>1. ASSUME Begun(log), NEW i \in 1..k
      PROVE  part[i].first = 1 \/ (i > 1 /\ Continues(part[i - 1], part[i]))
  <2>1. i \in 1..Len(log) /\ (i > 1 => i - 1 \in 1..k)
    BY <1>0
  <2> QED BY <1>1, <2>1 DEF Begun
<1>2. ASSUME Batched(log), NEW i \in 1..k, asks[part[i].by].batch
      PROVE  part[i].first = 1 /\ part[i].last = NumSets
  <2>1. i \in 1..Len(log)
    BY <1>0
  <2> QED BY <1>2, <2>1 DEF Batched
<1>3. ASSUME Ended(log, n)
      PROVE  /\ \A i \in 1..(k - 1) : Goes(part, i)
             /\ k > 0 => part[k].last = NumSets
  <2>1. n = k
    BY <1>0, <1>3 DEF Ended
  <2>2. ASSUME NEW i \in 1..(k - 1)
        PROVE  Goes(part, i)
    <3>1. i \in 1..k /\ i + 1 \in 1..k
      BY <1>0
    <3> QED BY <1>3, <2>1, <3>1 DEF Ended, Goes
  <2> QED BY <1>3, <2>1, <2>2 DEF Ended
<1>4. Begun(log) => Begun(part)
    BY <1>1 DEF Begun
<1>5. Batched(log) => Batched(part)
    BY <1>2 DEF Batched
<1>6. Ended(log, n) => Ended(part, Len(part))
    BY <1>3 DEF Ended
<1> QED BY <1>4, <1>5, <1>6 DEF part

\* Steps that leave the maps alone, and the hooks which hold them.
LEMMA MapsAlone ==
    ASSUME MapsInv, UNCHANGED <<asks, lock, value>>, broken \subseteq broken',
           \A u \in Workers : at'[u] = "holds" =>
               /\ at[u] = "holds" /\ run'[u] = run[u]
               /\ hook'[u] = hook[u] /\ sets'[u] = sets[u]
    PROVE  MapsInv'
<1>1. \A m : NoneStopsShort(m)' <=> NoneStopsShort(m)
    BY DEF NoneStopsShort
<1>2. LogsBegun'
    BY DEF MapsInv, LogsBegun, Begun, Batched, Continues
<1>3. FreeMapsEnded'
    BY <1>1 DEF MapsInv, FreeMapsEnded, Ended, Goes, Continues
<1>4. ASSUME NEW u \in Workers, at'[u] = "holds"
      PROVE  HeldOpened(u)'
  <2>1. /\ HeldOpened(u) /\ EventMap(u)' = EventMap(u) /\ Event(u)' = Event(u)
        /\ run'[u] = run[u] /\ hook'[u] = hook[u] /\ sets'[u] = sets[u]
    BY <1>4 DEF MapsInv, HeldMapsOpened, EventMap, Event
  <2>2. NoneStopsShort(EventMap(u))' <=> NoneStopsShort(EventMap(u))
    BY <2>1 DEF NoneStopsShort
  <2>3. value'[EventMap(u)'] = value[EventMap(u)]
    BY <2>1
  <2> QED BY <2>1, <2>2, <2>3 DEF HeldOpened, Opened, Ended, Goes, Continues
<1> QED BY <1>2, <1>3, <1>4 DEF MapsInv, HeldMapsOpened

\* A step of a worker, if it keeps the map that it is about.
LEMMA OtherMapsAlone ==
    ASSUME DispatchInv, MapsInv, asks' = asks,
           NEW w \in Workers, NEW m \in Maps, OnlyWorker(w),
           lock[m] \in {w, Nobody}, broken \subseteq broken',
           \A n \in Maps \ {m} : lock'[n] = lock[n] /\ value'[n] = value[n],
           Begun(value'[m]), Batched(value'[m]),
           NoneStopsShort(m) /\ m \notin broken' /\ lock'[m] = Nobody =>
               Ended(value'[m], Len(value'[m])),
           at'[w] = "holds" => HeldOpened(w)'
    PROVE  MapsInv'
<1>0. MapTypes /\ WorkersInv /\ HoldsInv /\ asks \in Scenarios
    BY TypesSplit DEF DispatchInv, EventTypeOK
<1>1. \A n : NoneStopsShort(n)' <=> NoneStopsShort(n)
    BY DEF NoneStopsShort
<1>2. ASSUME NEW n \in Maps
      PROVE  Begun(value'[n]) /\ Batched(value'[n])
    BY DEF MapsInv, LogsBegun
<1>3. LogsBegun'
    BY <1>2 DEF LogsBegun, Begun, Batched, Continues
<1>4. ASSUME NEW n \in Maps, NoneStopsShort(n), n \notin broken', lock'[n] = Nobody
      PROVE  Ended(value'[n], Len(value'[n]))
    BY <1>4 DEF MapsInv, FreeMapsEnded
<1>5. FreeMapsEnded'
    BY <1>1, <1>4 DEF FreeMapsEnded, Ended, Goes, Continues
<1>6. ASSUME NEW u \in Workers, u # w, at'[u] = "holds"
      PROVE  HeldOpened(u)'
  <2>1. /\ run'[u] = run[u] /\ at'[u] = at[u] /\ hook'[u] = hook[u]
        /\ sets'[u] = sets[u] /\ local'[u] = local[u]
    BY <1>6 DEF OnlyWorker
  <2>2. EventMap(u) \in Maps
    BY <1>0, <1>6, <2>1, EventMapType
  <2>3. EventMap(u)' = EventMap(u) /\ EventMap(u) # m
    BY <1>0, <1>6, <2>1, <2>2, OthersHold
  <2>4. value'[EventMap(u)'] = value[EventMap(u)] /\ Event(u)' = Event(u)
    BY <2>1, <2>2, <2>3 DEF Event
  <2>5. HeldOpened(u)
    BY <1>6, <2>1 DEF MapsInv, HeldMapsOpened
  <2>6. NoneStopsShort(EventMap(u))' <=> NoneStopsShort(EventMap(u))
    BY <2>3 DEF NoneStopsShort
  <2> QED BY <2>1, <2>4, <2>5, <2>6 DEF HeldOpened, Opened, Ended, Goes, Continues
<1>7. HeldMapsOpened'
    BY <1>6 DEF HeldMapsOpened
<1> QED BY <1>3, <1>5, <1>7 DEF MapsInv

LEMMA WorkerKeepsMaps ==
    ASSUME DispatchInv, MapsInv, NEW w \in Workers, WorkerStep(w)
    PROVE  MapsInv'
<1>0. /\ MapTypes /\ WorkerTypes /\ WorkersInv /\ HoldsInv /\ asks \in Scenarios
    BY TypesSplit DEF DispatchInv, EventTypeOK
<1>a. asks' = asks /\ at[w] # "idle" /\ broken \subseteq broken'
    BY DEF WorkerStep, HookLocks, HookFindsBroken, HookWrites, HookSets, HookCommits,
           Updated, HookReturns, HookFails, HookPanics, HookPanicsUnlocked, AllHooksRun,
           mapVars
<1> PICK m \in Maps : m = EventMap(w)
    BY <1>0, <1>a, EventMapType
<1>1. /\ run[w] \in Callers /\ value[m] \in Seq(Updates) /\ Begun(value[m])
      /\ Batched(value[m]) /\ m = asks[run[w]].map
      /\ at[w] = "holds" => lock[m] = w /\ HeldOpened(w)
    BY <1>0, <1>a, EventMapType
       DEF HoldsInv, MapTypes, MapsInv, LogsBegun, HeldMapsOpened, EventMap, Event
<1>2. CASE HookLocks(w)
  <2>1. /\ lock[m] = Nobody /\ m \notin broken /\ at[w] = "next"
        /\ lock' = [lock EXCEPT ![m] = w]
        /\ UNCHANGED <<value, run, hook, sets, mods>>
        /\ \A u \in Workers \ {w} : at'[u] = at[u] /\ local'[u] = local[u]
    BY <1>0, <1>2 DEF HookLocks, WorkerTypes
  <2>2. /\ sets'[w] = 0 /\ EventMap(w)' = m /\ lock'[m] = w
    BY <1>0, <1>a, <2>1 DEF WorkersInv, EventMap, Event, MapTypes
  <2>3. NoneStopsShort(m) => Opened(value[m]) /\ Ended(value[m], Len(value[m]))
    BY <1>1, <2>1, EndedIs DEF MapsInv, FreeMapsEnded
  <2>4. NoneStopsShort(m)' <=> NoneStopsShort(m)
    BY <1>a DEF NoneStopsShort
  <2>5. HeldOpened(w)'
    BY <2>1, <2>2, <2>3, <2>4 DEF HeldOpened, Opened, Ended, Goes, Continues
  <2>6. \A n \in Maps \ {m} : lock'[n] = lock[n] /\ value'[n] = value[n]
    BY <1>0, <2>1 DEF MapTypes
  <2>7. OnlyWorker(w) /\ lock'[m] # Nobody
    BY <2>1, <2>2, NobodyHolds DEF OnlyWorker
  <2> QED BY <1>a, <1>1, <2>1, <2>5, <2>6, <2>7, OtherMapsAlone
<1>3. CASE HookWrites(w) \/ HookCommits(w)
  <2> PICK last \in 1..NumSets :
          /\ at[w] = "holds" /\ sets[w] < last
          /\ Event(w).batch => sets[w] = 0 /\ last = NumSets
          /\ Updated(w, last)
    BY <1>0, <1>3, WritesUpdate
  <2> PICK u \in Updates : /\ u.by = run[w] /\ u.hook = hook[w]
                           /\ u.first = sets[w] + 1 /\ u.last = last
                           /\ local' = [local EXCEPT ![w] = Append(local[w], u)]
                           /\ value' = [value EXCEPT ![m] = Append(value[m], u)]
                           /\ local[w] = value[m]
    BY <1>0, <1>1, UpdateIs
  <2> DEFINE log  == value[m]
             more == Append(log, u)
  <2>1. /\ sets' = [sets EXCEPT ![w] = last]
        /\ UNCHANGED <<lock, broken, run, at, hook, mods>>
    BY DEF Updated
  <2>2. sets[w] \in Nat /\ last \in Nat /\ last > 0 /\ sets'[w] = last
    BY <1>0, <2>1, CountsAreNat DEF WorkerTypes
  <2>3. /\ sets[w] > 0 => /\ Len(log) > 0 /\ Continues(log[Len(log)], u)
        /\ NoneStopsShort(m) =>
               Opened(log) /\ (sets[w] = 0 /\ Len(log) > 0 => log[Len(log)].last = NumSets)
    BY <1>1, EndedIs DEF HeldOpened, Continues
  <2>4. /\ more \in Seq(Updates) /\ Len(more) > 0 /\ more[Len(more)] = u
    BY <1>1, AppendIs
  <2>5. Begun(more)
    BY <1>1, <2>2, <2>3, BegunMore
  <2>6. Batched(more)
    BY <1>1, <2>2, BatchedMore DEF Event
  <2>7. NoneStopsShort(m) => Opened(more)
    BY <1>1, <2>2, <2>3, OpenedMore
  <2>8. value'[m] = more /\ \A n \in Maps \ {m} : lock'[n] = lock[n] /\ value'[n] = value[n]
    BY <1>0, <2>1 DEF MapTypes
  <2> HIDE DEF log, more
  <2>9. HeldOpened(w)'
    <3>1. EventMap(w)' = m /\ Event(w)' = Event(w) /\ run'[w] = run[w] /\ hook'[w] = hook[w]
      BY <1>a, <2>1 DEF EventMap, Event
    <3>2. NoneStopsShort(m)' <=> NoneStopsShort(m)
      BY <1>a DEF NoneStopsShort
    <3> DEFINE now == value'[EventMap(w)']
    <3>3. /\ sets'[w] > 0 /\ Len(now) > 0
          /\ now[Len(now)].by = run'[w] /\ now[Len(now)].hook = hook'[w]
          /\ now[Len(now)].last = sets'[w]
          /\ Event(w)'.batch => sets'[w] \in {0, NumSets}
      BY <2>2, <2>4, <2>8, <3>1
    <3>4. NoneStopsShort(EventMap(w))' => Opened(now)
      BY <2>7, <2>8, <3>1, <3>2 DEF NoneStopsShort
    <3>5. ~(sets'[w] = 0)
      BY <2>2
    <3> QED BY <3>3, <3>4, <3>5 DEF HeldOpened, Opened, Goes, Continues
  <2>10. OnlyWorker(w) /\ lock'[m] # Nobody
    BY <1>0, <1>1, <2>1, NobodyHolds DEF OnlyWorker, WorkerTypes
  <2> QED BY <1>a, <1>1, <2>5, <2>6, <2>8, <2>9, <2>10, OtherMapsAlone
<1>4. CASE \/ HookReturns(w) \/ HookFails(w) \/ HookPanics(w)
           \/ HookPanicsUnlocked(w) /\ at[w] # "next"
  <2>1. /\ at[w] = "holds" /\ Unlock(w) /\ value' = value
        /\ NextHook(w) \/ WorkerEnds(w)
    BY <1>4 DEF HookReturns, HookFails, HookPanics, HookPanicsUnlocked
  <2>2. OnlyWorker(w) /\ at'[w] # "holds"
    BY <1>0, <2>1, NextHookKeeps, WorkerEndsKeeps DEF WorkersInv
  <2>3. \A n \in Maps \ {m} : lock'[n] = lock[n] /\ value'[n] = value[n]
    BY <1>0, <1>1, <2>1 DEF MapTypes, Unlock
  <2>4. ASSUME NoneStopsShort(m), m \notin broken'
        PROVE  Ended(value'[m], Len(value'[m]))
    <3>1. sets[w] \in {0, NumSets}
      <4>1. HookFails(w) => Event(w).batch
        BY <1>1, <2>4 DEF HookFails, NoneStopsShort, Event
      <4> QED BY <1>1, <1>4, <2>1, <2>4, <4>1
              DEF HookReturns, HookPanics, HookPanicsUnlocked, HeldOpened
    <3>2. sets[w] = NumSets => sets[w] > 0
      BY CountsAreNat
    <3> QED BY <1>1, <2>1, <2>4, <3>1, <3>2, EndedIs DEF HeldOpened
  <2> QED BY <1>a, <1>1, <2>1, <2>2, <2>3, <2>4, OtherMapsAlone
<1>5. CASE \/ HookSets(w) \/ HookFindsBroken(w) \/ AllHooksRun(w)
           \/ HookPanicsUnlocked(w) /\ at[w] = "next"
  <2>1. UNCHANGED <<lock, value>>
    BY <1>5 DEF HookSets, HookFindsBroken, AllHooksRun, HookPanicsUnlocked, mapVars
  <2>2. \A u \in Workers : at'[u] = "holds" =>
            /\ at[u] = "holds" /\ run'[u] = run[u]
            /\ hook'[u] = hook[u] /\ sets'[u] = sets[u]
    BY <1>0, <1>5 DEF HookSets, HookFindsBroken, AllHooksRun, HookPanicsUnlocked, NextHook,
                      WorkerEnds, WorkerTypes
  <2> QED BY <1>a, <2>1, <2>2, MapsAlone
<1> QED BY <1>2, <1>3, <1>4, <1>5 DEF WorkerStep, HookPanicsUnlocked

LEMMA MapsStep ==
    ASSUME DispatchInv, MapsInv, [Next]_vars
    PROVE  MapsInv'
<1>1. ASSUME UNCHANGED <<asks, lock, value, workerVars>>, broken \subseteq broken'
      PROVE  MapsInv'
    BY <1>1, MapsAlone DEF workerVars
<1>2. ASSUME NEW t \in Conns, NEW w \in Workers, TakeEvent(t, w)
      PROVE  MapsInv'
  <2>1. /\ at[w] = "idle" /\ UNCHANGED <<asks, lock, broken, value, hook, sets>>
        /\ \A u \in Workers \ {w} : run'[u] = run[u]
        /\ \A u \in Workers : at'[u] = "holds" => at[u] = "holds" /\ u # w
    BY <1>2, TypesSplit DEF TakeEvent, Ends, Closes, mapVars, DispatchInv, WorkerTypes
  <2> QED BY <2>1, MapsAlone
<1>3. ASSUME NEW t \in Conns, ConnStep(t)
      PROVE  MapsInv'
    BY <1>1, <1>2, <1>3
       DEF ConnStep, Start, ReadFails, Refuse, Fruitless, LockServer, ReadId, LearnsId,
           ReadMap, ReadBackwards, ReadBroken, ReadPanics, Ends, Closes, mapVars
<1>4. ASSUME Restart
      PROVE  MapsInv'
    BY <1>4 DEF Restart, MapsInv, LogsBegun, HeldMapsOpened, FreeMapsEnded, Begun, Batched,
                Ended, EmptyLogs
<1>5. ASSUME NEW c \in Callers, CallerStep(c)
      PROVE  MapsInv'
    BY <1>1, <1>5 DEF CallerStep, Connect, Request, RequestCut, HangUp, mapVars
<1>6. ASSUME NEW m \in Maps, Host(m)
      PROVE  MapsInv'
    BY <1>1, <1>6 DEF Host, mapVars
<1>7. ASSUME UNCHANGED vars
      PROVE  MapsInv'
    BY <1>1, <1>7 DEF vars, mapVars
<1> QED BY <1>3, <1>4, <1>5, <1>6, <1>7, WorkerKeepsMaps DEF Next

\* What any step does to the maps and the readers.
LEMMA AsksStay == [Next]_vars => asks' = asks
BY DEF Next, CallerStep, Connect, Request, RequestCut, HangUp, ConnStep, Start, ReadFails,
       Refuse, Fruitless, TakeEvent, LockServer, ReadId, LearnsId, ReadMap, ReadBackwards,
       ReadBroken, ReadPanics, Ends, Closes, WorkerStep, HookLocks, HookFindsBroken,
       HookWrites, HookSets, HookCommits, Updated, HookReturns, HookFails, HookPanics,
       HookPanicsUnlocked, AllHooksRun, Host, Restart, vars

LEMMA ReadersMap ==
    ASSUME DispatchInv, NEW t \in Conns, pc[t] # "idle"
    PROVE  /\ serves[t] \in Callers /\ Asked(t).map \in Maps
           /\ \A r \in Callers : conn[r] = t => r = serves[t]
<1>1. serves[t] \in Callers /\ t # Nobody
    BY NobodyIsNobody DEF DispatchInv, ConnsInv, Threads
<1>2. Asked(t).map \in Maps
    BY <1>1, ScenariosAsk DEF DispatchInv, EventTypeOK, Asked, Calls
<1> QED BY <1>1, <1>2 DEF DispatchInv, ConnsInv

\* An id that was learnt remains one between hooks: maps only grow, until they
\* are lost with the server, when it becomes stale.
LEMMA LearntStep ==
    ASSUME DispatchInv, MapsInv, LearntEnded, [Next]_vars
    PROVE  LearntEnded'
<1>0. asks' = asks /\ asks \in Scenarios /\ MapTypes /\ ConnTypes
    BY AsksStay, TypesSplit DEF DispatchInv, EventTypeOK
<1>1. \A r \in Callers : asks[r].map \in Maps
    BY <1>0, ScenariosAsk DEF Calls
<1>2. ASSUME \A r \in Callers : Learns(r)' /\ upto'[r] # Newest =>
                 Ended(value'[asks[r].map], upto'[r])
      PROVE  LearntEnded'
    BY <1>0, <1>2 DEF LearntEnded, Learns, NoneStopsShort, Ended, Goes, Continues
<1>3. ASSUME NEW r \in Callers, r \in stale => r \in stale', Learns(r)'
      PROVE  Learns(r)
    BY <1>0, <1>3 DEF Learns, NoneStopsShort
<1>4. ASSUME UNCHANGED <<upto, stale>>,
             \A m \in Maps : \/ value'[m] = value[m]
                             \/ \E u \in Updates : value'[m] = Append(value[m], u)
      PROVE  LearntEnded'
  <2>1. ASSUME NEW r \in Callers, Learns(r)', upto'[r] # Newest
        PROVE  Ended(value'[asks[r].map], upto'[r])
    <3> PICK m \in Maps : m = asks[r].map
      BY <1>1
    <3>1. /\ upto[r] \in Nat /\ upto'[r] = upto[r] /\ value[m] \in Seq(Updates)
          /\ Ended(value[m], upto[r])
      BY <1>0, <1>3, <1>4, <2>1 DEF LearntEnded, ConnTypes, MapTypes
    <3>2. CASE value'[m] = value[m]
      BY <3>1, <3>2
    <3>3. ASSUME NEW u \in Updates, value'[m] = Append(value[m], u)
          PROVE  Ended(value'[m], upto'[r])
      BY <3>1, <3>3, EndedMore
    <3> QED BY <1>4, <3>2, <3>3
  <2> QED BY <1>2, <2>1
<1>5. ASSUME NEW t \in Conns, ReadId(t)
      PROVE  LearntEnded'
  <2>1. /\ pc[t] = "getmap" /\ lock[Asked(t).map] = Nobody /\ Asked(t).map \notin broken
        /\ UNCHANGED <<value, stale>>
        /\ \A r \in Callers : upto'[r] = IF conn[r] = t THEN Len(value[Asked(t).map])
                                                        ELSE upto[r]
    BY <1>5 DEF ReadId, LocksMap, LearnsId, Closes, mapVars
  <2>2. ASSUME NEW r \in Callers, Learns(r)', upto'[r] # Newest
        PROVE  Ended(value'[asks[r].map], upto'[r])
    <3>1. Learns(r)
      BY <1>3, <2>1, <2>2
    <3>2. CASE conn[r] = t
      <4>1. asks[r].map = Asked(t).map /\ Asked(t).map \in Maps
        BY <2>1, <3>2, ReadersMap DEF Asked
      <4> QED BY <2>1, <3>1, <3>2, <4>1 DEF MapsInv, FreeMapsEnded, Learns
    <3>3. CASE conn[r] # t
      BY <2>1, <2>2, <3>1, <3>3 DEF LearntEnded
    <3> QED BY <3>2, <3>3
  <2> QED BY <1>2, <2>2
<1>6. ASSUME NEW t \in Conns, ConnStep(t)
      PROVE  LearntEnded'
    BY <1>4, <1>5, <1>6
       DEF ConnStep, Start, ReadFails, Refuse, Fruitless, TakeEvent, LockServer, ReadMap,
           ReadBackwards, ReadBroken, ReadPanics, Ends, Closes, mapVars, callerVars
<1>7. ASSUME NEW w \in Workers, WorkerStep(w)
      PROVE  LearntEnded'
  <2>1. UNCHANGED <<upto, stale>>
    BY <1>7 DEF WorkerStep, HookLocks, HookFindsBroken, HookWrites, HookSets, HookCommits,
                Updated, HookReturns, HookFails, HookPanics, HookPanicsUnlocked,
                AllHooksRun, callerVars
  <2>2. CASE HookWrites(w) \/ HookCommits(w)
    <3>0. WorkerTypes /\ WorkersInv /\ HoldsInv
      BY TypesSplit DEF DispatchInv
    <3> PICK last \in 1..NumSets : at[w] = "holds" /\ sets[w] < last /\ Updated(w, last)
      BY <2>2, <3>0, WritesUpdate
    <3> PICK m \in Maps : m = EventMap(w) /\ run[w] \in Callers
      BY <1>0, <3>0, EventMapType
    <3> PICK u \in Updates : value' = [value EXCEPT ![m] = Append(value[m], u)]
      BY <1>0, <3>0, UpdateIs
    <3> QED BY <1>0, <1>4, <2>1 DEF MapTypes
  <2>3. CASE value' = value
    BY <1>4, <2>1, <2>3
  <2> QED BY <1>7, <2>2, <2>3
          DEF WorkerStep, HookLocks, HookFindsBroken, HookSets, HookReturns, HookFails,
              HookPanics, HookPanicsUnlocked, AllHooksRun, mapVars
<1>8. CASE Restart
  <2>1. ASSUME NEW r \in Callers, Learns(r)', upto'[r] # Newest
        PROVE  FALSE
    BY <1>0, <1>8, <2>1 DEF Restart, Learns
  <2> QED BY <1>2, <2>1
<1> QED BY <1>4, <1>6, <1>7, <1>8
        DEF Next, CallerStep, Connect, Request, RequestCut, HangUp, Host, mapVars,
            callerVars, vars

\* What the callers were shown.
LEMMA ReadStep ==
    ASSUME DispatchInv, MapsInv, LearntEnded, ReadWhole, [Next]_vars
    PROVE  ReadWhole'
<1>0. asks' = asks /\ ConnTypes /\ MapTypes /\ stale \subseteq stale'
  <2>1. stale \subseteq stale'
    BY DEF Next, CallerStep, Connect, Request, RequestCut, HangUp, ConnStep, Start,
           ReadFails, Refuse, Fruitless, TakeEvent, LockServer, ReadId, LearnsId, ReadMap,
           ReadBackwards, ReadBroken, ReadPanics, Ends, Closes, WorkerStep, HookLocks,
           HookFindsBroken, HookWrites, HookSets, HookCommits, Updated, HookReturns,
           HookFails, HookPanics, HookPanicsUnlocked, AllHooksRun, Host, Restart, vars,
           callerVars
  <2> QED BY <2>1, AsksStay, TypesSplit DEF DispatchInv
<1>1. \A r \in Callers : Learns(r)' => Learns(r)
    BY <1>0 DEF Learns, NoneStopsShort
<1>2. ASSUME \A r \in Callers :
                 \/ shown'[r] = shown[r]
                 \/ shown'[r] = NotShown
                 \/ /\ Begun(shown'[r]) /\ Batched(shown'[r])
                    /\ Learns(r) => Ended(shown'[r], Len(shown'[r]))
      PROVE  ReadWhole'
  <2>1. ASSUME NEW r \in Callers, shown'[r] # NotShown
        PROVE  /\ Begun(shown'[r]) /\ Batched(shown'[r])
               /\ Learns(r)' => Ended(shown'[r], Len(shown'[r]))
    BY <1>1, <1>2, <2>1 DEF ReadWhole
  <2> QED BY <1>0, <2>1 DEF ReadWhole, Begun, Batched, Ended, Goes, Continues
<1>3. CASE shown' = shown
    BY <1>2, <1>3
<1>4. ASSUME NEW t \in Conns, NEW outcome \in Outcomes, Closes(t, outcome, NotShown)
      PROVE  ReadWhole'
    BY <1>2, <1>4 DEF Closes
<1>5. ASSUME NEW t \in Conns, ReadMap(t)
      PROVE  ReadWhole'
  <2>1. /\ pc[t] = "getmap" /\ upto[serves[t]] # Newest
        /\ Ends(t, "ok", UpTo(value[Asked(t).map], upto[serves[t]]))
    BY <1>5 DEF ReadMap, LocksMap, AsksId
  <2> PICK q \in Callers : q = serves[t]
    BY <2>1, ReadersMap
  <2> PICK m \in Maps : m = Asked(t).map /\ m = asks[q].map
    BY <2>1, ReadersMap DEF Asked
  <2>2. upto[q] \in Nat /\ value[m] \in Seq(Updates) /\ Begun(value[m]) /\ Batched(value[m])
    BY <1>0, <2>1 DEF ConnTypes, MapTypes, MapsInv, LogsBegun
  <2>3. Learns(q) => Ended(value[m], upto[q])
    BY <2>1 DEF LearntEnded
  <2> DEFINE part == UpTo(value[m], upto[q])
  <2>4. Begun(part) /\ Batched(part) /\ (Learns(q) => Ended(part, Len(part)))
    BY <2>2, <2>3, PrefixWhole
  <2>5. \A r \in Callers : shown'[r] = IF conn[r] = t THEN part ELSE shown[r]
    BY <2>1 DEF Ends, Closes
  <2> HIDE DEF part
  <2>6. \A r \in Callers : conn[r] = t => r = q
    BY <2>1, ReadersMap
  <2> QED BY <1>2, <2>4, <2>5, <2>6
<1>6. ASSUME NEW t \in Conns, ConnStep(t)
      PROVE  ReadWhole'
  <2>1. "ok" \in Outcomes /\ "failed" \in Outcomes
    BY DEF Outcomes
  <2> QED BY <1>3, <1>4, <1>5, <1>6, <2>1
          DEF ConnStep, Start, ReadFails, Refuse, Fruitless, TakeEvent, LockServer, ReadId,
              LearnsId, ReadBackwards, ReadBroken, ReadPanics, Ends, callerVars
<1>7. CASE Restart
    BY <1>2, <1>7 DEF Restart
<1> QED BY <1>3, <1>6, <1>7
        DEF Next, CallerStep, Connect, Request, RequestCut, HangUp, WorkerStep, HookLocks,
            HookFindsBroken, HookWrites, HookSets, HookCommits, Updated, HookReturns,
            HookFails, HookPanics, HookPanicsUnlocked, AllHooksRun, Host, callerVars, vars

LEMMA WholeInit == Init => WholeInv
<1> SUFFICES ASSUME Init PROVE WholeInv
    OBVIOUS
<1>1. MapsInv
    BY DEF Init, MapsInv, LogsBegun, HeldMapsOpened, FreeMapsEnded, Begun, Batched, Ended,
           EmptyLogs
<1>2. LearntEnded /\ ReadWhole
    BY DEF Init, LearntEnded, Learns, ReadWhole
<1> QED BY <1>1, <1>2 DEF WholeInv

LEMMA WholeStep ==
    ASSUME DispatchInv, WholeInv, [Next]_vars
    PROVE  WholeInv'
BY MapsStep, LearntStep, ReadStep DEF WholeInv

-----------------------------------------------------------------------------
(* Counting.                                                               *)

LEMMA CardFewer ==
    ASSUME NEW S, NEW T, IsFiniteSet(T), S \subseteq T
    PROVE  /\ IsFiniteSet(S)
           /\ Cardinality(S) \in Nat /\ Cardinality(T) \in Nat
           /\ Cardinality(S) <= Cardinality(T)
BY FS_Subset, FS_CardinalityType

LEMMA CardOneMore ==
    ASSUME NEW S, NEW T, NEW x, IsFiniteSet(T), S \subseteq T \cup {x}
    PROVE  /\ IsFiniteSet(S)
           /\ Cardinality(S) \in Nat /\ Cardinality(T) \in Nat
           /\ Cardinality(S) <= Cardinality(T) + 1
<1>1. /\ IsFiniteSet(T \cup {x})
      /\ Cardinality(T \cup {x}) = IF x \in T THEN Cardinality(T) ELSE Cardinality(T) + 1
    BY FS_AddElement
<1>2. Cardinality(T) \in Nat
    BY FS_CardinalityType
<1>3. /\ IsFiniteSet(S) /\ Cardinality(S) \in Nat
      /\ Cardinality(S) <= Cardinality(T \cup {x})
    BY <1>1, CardFewer
<1> QED BY <1>1, <1>2, <1>3

LEMMA CardOneLess ==
    ASSUME NEW S, NEW T, NEW x \in T, IsFiniteSet(T), S \subseteq T \ {x}
    PROVE  /\ IsFiniteSet(S)
           /\ Cardinality(S) \in Nat /\ Cardinality(T) \in Nat
           /\ Cardinality(S) + 1 <= Cardinality(T)
<1>1. IsFiniteSet(T \ {x}) /\ Cardinality(T \ {x}) = Cardinality(T) - 1
    BY FS_RemoveElement
<1>2. /\ IsFiniteSet(S) /\ Cardinality(S) \in Nat
      /\ Cardinality(S) <= Cardinality(T \ {x})
    BY <1>1, CardFewer
<1> QED BY <1>1, <1>2, FS_CardinalityType

\* The instance of EventLog counts as this module does.
LEMMA SameCardinality == \A S : Log!Cardinality(S) = Cardinality(S)
BY DEF Log!Cardinality, Cardinality

\* How often a write occurs in a log, and in the log an update is added to.
LEMMA TimesType ==
    ASSUME NEW log \in Seq(Updates), NEW x
    PROVE  Log!Times(x, log) \in Nat
<1>1. DOMAIN log = 1..Len(log) /\ Len(log) \in Nat
    OBVIOUS
<1>2. IsFiniteSet(1..Len(log))
    BY <1>1, FS_Interval
<1>3. {i \in DOMAIN log : Log!Makes(log[i], x)} \subseteq 1..Len(log)
    BY <1>1
<1> QED BY <1>2, <1>3, CardFewer, SameCardinality DEF Log!Times

LEMMA TimesEmpty == \A x : Log!Times(x, << >>) = 0
<1>1. \A x : {i \in DOMAIN << >> : Log!Makes(<< >>[i], x)} = {}
    OBVIOUS
<1> QED BY <1>1, FS_EmptySet, SameCardinality DEF Log!Times

LEMMA TimesAppend ==
    ASSUME NEW log \in Seq(Updates), NEW x \in Writes, NEW u \in Updates
    PROVE  /\ Log!Times(x, Append(log, u)) <= Log!Times(x, log) + 1
           /\ ~Log!Makes(u, x) => Log!Times(x, Append(log, u)) = Log!Times(x, log)
<1> DEFINE more == Append(log, u)
           S == {i \in DOMAIN log : Log!Makes(log[i], x)}
           T == {i \in DOMAIN more : Log!Makes(more[i], x)}
<1>1. /\ DOMAIN log = 1..Len(log) /\ Len(log) \in Nat
      /\ DOMAIN more = 1..(Len(log) + 1)
      /\ more[Len(log) + 1] = u
      /\ \A i \in 1..Len(log) : more[i] = log[i]
    OBVIOUS
<1>2. IsFiniteSet(S)
  <2>1. IsFiniteSet(1..Len(log)) /\ S \subseteq 1..Len(log)
    BY <1>1, FS_Interval
  <2> QED BY <2>1, CardFewer
<1>3. T \subseteq S \cup {Len(log) + 1} /\ (~Log!Makes(u, x) => T = S)
  <2> HIDE DEF more
  <2>1. \A i \in 1..Len(log) : i \in T <=> i \in S
    BY <1>1
  <2>2. ~Log!Makes(u, x) => Len(log) + 1 \notin T
    BY <1>1
  <2>3. T \subseteq 1..(Len(log) + 1) /\ S \subseteq 1..Len(log)
    BY <1>1
  <2>4. \A i \in 1..(Len(log) + 1) : i \in 1..Len(log) \/ i = Len(log) + 1
    BY <1>1
  <2> HIDE DEF S, T
  <2> QED BY <2>1, <2>2, <2>3, <2>4
<1>4. Cardinality(T) <= Cardinality(S) + 1
    BY <1>2, <1>3, CardOneMore
<1> QED BY <1>3, <1>4, SameCardinality DEF Log!Times

LEMMA Balance ==
    ASSUME NEW a \in Nat, NEW b \in Nat, NEW c \in Nat, NEW d \in Nat, NEW e \in Nat,
           a <= b + 1, c + 1 <= d, b + d <= e
    PROVE  a + c <= e
OBVIOUS

\* Only callers send, only TakeEvent takes; other steps leave at most fewer
\* threads to take an event.
LEMMA SentStep ==
    ASSUME DispatchInv, SentInv, [Next]_vars
    PROVE  SentInv'
<1>0. /\ taken \in [Callers -> Nat] /\ sends \in [Callers -> Nat]
      /\ serves \in [Conns -> Callers \cup {Nobody}]
      /\ ConnsInv
    BY DEF DispatchInv, EventTypeOK
<1>1. ASSUME UNCHANGED <<taken, sends>>,
             \A c \in Callers : Serving(c)' \subseteq Serving(c)
      PROVE  SentInv'
  <2>1. ASSUME NEW c \in Callers
        PROVE  IsFiniteSet(Serving(c)') /\ taken'[c] + Cardinality(Serving(c)') <= sends'[c]
    <3>1. IsFiniteSet(Serving(c)) /\ taken[c] + Cardinality(Serving(c)) <= sends[c]
      BY DEF SentInv
    <3>2. /\ IsFiniteSet(Serving(c)')
          /\ Cardinality(Serving(c)') \in Nat /\ Cardinality(Serving(c)) \in Nat
          /\ Cardinality(Serving(c)') <= Cardinality(Serving(c))
      BY <1>1, <3>1, CardFewer
    <3> QED BY <1>0, <1>1, <3>1, <3>2
  <2> QED BY <2>1 DEF SentInv
<1>2. ASSUME NEW d \in Callers, NEW t \in Conns, Connect(d, t)
      PROVE  SentInv'
  <2>1. /\ serves' = [serves EXCEPT ![t] = d] /\ taken' = taken
        /\ sends' = [sends EXCEPT ![d] = @ + 1]
    BY <1>2 DEF Connect
  <2>2. ASSUME NEW c \in Callers
        PROVE  IsFiniteSet(Serving(c)') /\ taken'[c] + Cardinality(Serving(c)') <= sends'[c]
    <3>1. IsFiniteSet(Serving(c)) /\ taken[c] + Cardinality(Serving(c)) <= sends[c]
      BY DEF SentInv
    <3>2. CASE c = d
      <4>1. Serving(c)' \subseteq Serving(c) \cup {t}
        BY <1>0, <2>1 DEF Serving
      <4>2. /\ IsFiniteSet(Serving(c)')
            /\ Cardinality(Serving(c)') \in Nat /\ Cardinality(Serving(c)) \in Nat
            /\ Cardinality(Serving(c)') <= Cardinality(Serving(c)) + 1
        BY <3>1, <4>1, CardOneMore
      <4> QED BY <1>0, <2>1, <3>1, <3>2, <4>2
    <3>3. CASE c # d
      <4>1. Serving(c)' \subseteq Serving(c)
        BY <1>0, <2>1, <3>3 DEF Serving
      <4>2. /\ IsFiniteSet(Serving(c)')
            /\ Cardinality(Serving(c)') \in Nat /\ Cardinality(Serving(c)) \in Nat
            /\ Cardinality(Serving(c)') <= Cardinality(Serving(c))
        BY <3>1, <4>1, CardFewer
      <4> QED BY <1>0, <2>1, <3>1, <3>3, <4>2
    <3> QED BY <3>2, <3>3
  <2> QED BY <2>2 DEF SentInv
<1>3. ASSUME NEW t \in Conns, NEW w \in Workers, TakeEvent(t, w)
      PROVE  SentInv'
  <2>1. /\ pc[t] = "check" /\ serves' = [serves EXCEPT ![t] = Nobody] /\ sends' = sends
        /\ taken' = [taken EXCEPT ![serves[t]] = @ + 1]
    BY <1>3 DEF TakeEvent, Served, Admitted, Ends, Closes
  <2>2. serves[t] \in Callers
    BY <1>0, <2>1 DEF ConnsInv
  <2>3. ASSUME NEW c \in Callers
        PROVE  IsFiniteSet(Serving(c)') /\ taken'[c] + Cardinality(Serving(c)') <= sends'[c]
    <3>1. IsFiniteSet(Serving(c)) /\ taken[c] + Cardinality(Serving(c)) <= sends[c]
      BY DEF SentInv
    <3>2. CASE c = serves[t]
      <4>1. t \in Serving(c) /\ Serving(c)' \subseteq Serving(c) \ {t}
        BY <1>0, <2>1, <3>2, NobodyHolds DEF Serving
      <4>2. /\ IsFiniteSet(Serving(c)')
            /\ Cardinality(Serving(c)') \in Nat /\ Cardinality(Serving(c)) \in Nat
            /\ Cardinality(Serving(c)') + 1 <= Cardinality(Serving(c))
        BY <3>1, <4>1, CardOneLess
      <4> QED BY <1>0, <2>1, <3>1, <3>2, <4>2
    <3>3. CASE c # serves[t]
      <4>1. Serving(c)' \subseteq Serving(c)
        BY <1>0, <2>1, NobodyHolds DEF Serving
      <4>2. /\ IsFiniteSet(Serving(c)')
            /\ Cardinality(Serving(c)') \in Nat /\ Cardinality(Serving(c)) \in Nat
            /\ Cardinality(Serving(c)') <= Cardinality(Serving(c))
        BY <3>1, <4>1, CardFewer
      <4> QED BY <1>0, <2>1, <2>2, <3>1, <3>3, <4>2
    <3> QED BY <3>2, <3>3
  <2> QED BY <2>3 DEF SentInv
<1>4. ASSUME NEW t \in Conns, ConnStep(t)
      PROVE  SentInv'
  <2>1. UNCHANGED <<taken, sends>> \/ \E w \in Workers : TakeEvent(t, w)
    BY <1>4 DEF ConnStep, Start, ReadFails, Refuse, Fruitless, LockServer, ReadId,
                LearnsId, ReadMap, ReadBackwards, ReadBroken, ReadPanics, Ends, Closes,
                callerVars
  <2>2. serves' = serves \/ serves' = [serves EXCEPT ![t] = Nobody]
    BY <1>4 DEF ConnStep, Start, ReadFails, Refuse, Fruitless, TakeEvent, LockServer,
                ReadId, LearnsId, ReadMap, ReadBackwards, ReadBroken, ReadPanics, Ends,
                Closes
  <2>3. \A c \in Callers : Serving(c)' \subseteq Serving(c)
    BY <1>0, <2>2, NobodyHolds DEF Serving
  <2> QED BY <1>1, <1>3, <2>1, <2>3
<1>5. CASE Restart
  <2>1. ASSUME NEW c \in Callers
        PROVE  IsFiniteSet(Serving(c)') /\ taken'[c] + Cardinality(Serving(c)') <= sends'[c]
    <3>1. Serving(c)' = {} /\ taken'[c] = 0 /\ sends'[c] = 0
      BY <1>5, NobodyHolds DEF Restart, Serving, NoSends
    <3> QED BY <3>1, FS_EmptySet
  <2> QED BY <2>1 DEF SentInv
<1>6. ASSUME UNCHANGED <<taken, sends, serves>>
      PROVE  SentInv'
    BY <1>1, <1>6 DEF Serving
<1>7. ASSUME NEW c \in Callers, CallerStep(c)
      PROVE  SentInv'
    BY <1>2, <1>6, <1>7 DEF CallerStep, Request, RequestCut, HangUp, connVars
<1> QED BY <1>4, <1>5, <1>6, <1>7
        DEF Next, WorkerStep, HookLocks, HookFindsBroken, HookWrites, HookSets, HookCommits,
            Updated, HookReturns, HookFails, HookPanics, HookPanicsUnlocked, AllHooksRun,
            Host, callerVars, connVars, vars

\* Only TakeEvent gives a worker something to write, once for every write, and
\* an update takes the writes that it makes away from this.
LEMMA MadeStep ==
    ASSUME DispatchInv, MadeInv, [Next]_vars
    PROVE  MadeInv'
<1>0. /\ MapTypes /\ WorkerTypes /\ taken \in [Callers -> Nat] /\ asks \in Scenarios
      /\ ConnsInv /\ WorkersInv /\ HoldsInv
    BY TypesSplit DEF DispatchInv, EventTypeOK
<1> DEFINE Count(x) == Log!Times(x, value[asks[x.by].map])
<1>1. ASSUME NEW x \in Writes
      PROVE  /\ x.by \in Callers /\ x.hook \in Nat /\ x.set \in Nat /\ x.set > 0
             /\ asks[x.by].map \in Maps /\ value[asks[x.by].map] \in Seq(Updates)
             /\ Count(x) \in Nat /\ taken[x.by] \in Nat
             /\ IsFiniteSet(Pending(x))
             /\ Count(x) + Cardinality(Pending(x)) <= taken[x.by]
  <2>1. x.by \in Callers /\ x.hook \in Nat /\ x.set \in Nat /\ x.set > 0
    BY CountsAreNat DEF Writes, Hooks
  <2>2. asks[x.by].map \in Maps
    BY <1>0, <2>1, ScenariosAsk DEF Calls
  <2>3. value[asks[x.by].map] \in Seq(Updates)
    BY <1>0, <2>2 DEF MapTypes
  <2> QED BY <1>0, <2>1, <2>2, <2>3, TimesType DEF MadeInv
<1>2. ASSUME UNCHANGED <<asks, value, taken>>,
             \A x \in Writes : Pending(x)' \subseteq Pending(x)
      PROVE  MadeInv'
  <2>1. ASSUME NEW x \in Writes
        PROVE  /\ IsFiniteSet(Pending(x)')
               /\ Log!Times(x, value'[asks'[x.by].map]) + Cardinality(Pending(x)')
                      <= taken'[x.by]
    <3>1. /\ IsFiniteSet(Pending(x)')
          /\ Cardinality(Pending(x)') \in Nat /\ Cardinality(Pending(x)) \in Nat
          /\ Cardinality(Pending(x)') <= Cardinality(Pending(x))
      BY <1>1, <1>2, CardFewer
    <3>2. Log!Times(x, value'[asks'[x.by].map]) = Count(x)
      BY <1>2
    <3> HIDE DEF Count
    <3> QED BY <1>1, <1>2, <3>1, <3>2
  <2> QED BY <2>1 DEF MadeInv
<1>3. ASSUME NEW t \in Conns, NEW w \in Workers, TakeEvent(t, w)
      PROVE  MadeInv'
  <2>1. /\ pc[t] = "check" /\ UNCHANGED <<asks, value, hook, sets>>
        /\ run' = [run EXCEPT ![w] = serves[t]]
        /\ taken' = [taken EXCEPT ![serves[t]] = @ + 1]
    BY <1>3 DEF TakeEvent, Served, Admitted, Ends, Closes, mapVars
  <2>2. serves[t] \in Callers
    BY <1>0, <2>1 DEF ConnsInv
  <2>3. ASSUME NEW x \in Writes
        PROVE  /\ IsFiniteSet(Pending(x)')
               /\ Log!Times(x, value'[asks'[x.by].map]) + Cardinality(Pending(x)')
                      <= taken'[x.by]
    <3>1. Log!Times(x, value'[asks'[x.by].map]) = Count(x)
      BY <2>1
    <3> HIDE DEF Count
    <3>2. CASE x.by = serves[t]
      <4>1. Pending(x)' \subseteq Pending(x) \cup {w}
        BY <1>0, <2>1 DEF Pending, WorkerTypes
      <4>2. /\ IsFiniteSet(Pending(x)')
            /\ Cardinality(Pending(x)') \in Nat /\ Cardinality(Pending(x)) \in Nat
            /\ Cardinality(Pending(x)') <= Cardinality(Pending(x)) + 1
        BY <1>1, <4>1, CardOneMore
      <4> QED BY <1>0, <1>1, <2>1, <3>1, <3>2, <4>2
    <3>3. CASE x.by # serves[t]
      <4>1. Pending(x)' \subseteq Pending(x)
        BY <1>0, <2>1, <3>3 DEF Pending, WorkerTypes
      <4>2. /\ IsFiniteSet(Pending(x)')
            /\ Cardinality(Pending(x)') \in Nat /\ Cardinality(Pending(x)) \in Nat
            /\ Cardinality(Pending(x)') <= Cardinality(Pending(x))
        BY <1>1, <4>1, CardFewer
      <4> QED BY <1>0, <1>1, <2>1, <2>2, <3>1, <3>3, <4>2
    <3> QED BY <3>2, <3>3
  <2> QED BY <2>3 DEF MadeInv
<1>4. ASSUME NEW w \in Workers, HookWrites(w) \/ HookCommits(w)
      PROVE  MadeInv'
  <2> PICK last \in 1..NumSets : at[w] = "holds" /\ sets[w] < last /\ Updated(w, last)
    BY <1>0, <1>4, WritesUpdate
  <2> PICK m \in Maps : m = EventMap(w) /\ run[w] \in Callers /\ m = asks[run[w]].map
    BY <1>0, EventMapType DEF EventMap, Event
  <2> PICK u \in Updates : /\ u.by = run[w] /\ u.hook = hook[w]
                           /\ u.first = sets[w] + 1 /\ u.last = last
                           /\ local' = [local EXCEPT ![w] = Append(local[w], u)]
                           /\ value' = [value EXCEPT ![m] = Append(value[m], u)]
                           /\ local[w] = value[m]
    BY <1>0, UpdateIs
  <2>1. /\ sets' = [sets EXCEPT ![w] = last]
        /\ UNCHANGED <<asks, run, hook, taken>>
    BY DEF Updated
  <2>2. sets[w] \in Nat /\ last \in Nat /\ last > 0 /\ hook[w] \in Hooks
    BY <1>0, CountsAreNat DEF WorkerTypes, WorkersInv
  <2>3. /\ value'[m] = Append(value[m], u) /\ value[m] \in Seq(Updates)
        /\ \A n \in Maps \ {m} : value'[n] = value[n]
    BY <1>0 DEF MapTypes
  <2>4. \A v \in Workers : sets'[v] = IF v = w THEN last ELSE sets[v]
    BY <1>0, <2>1 DEF WorkerTypes
  <2>5. ASSUME NEW x \in Writes
        PROVE  /\ IsFiniteSet(Pending(x)')
               /\ Log!Times(x, value'[asks'[x.by].map]) + Cardinality(Pending(x)')
                      <= taken'[x.by]
    <3>1. Pending(x)' \subseteq Pending(x)
      <4>1. ASSUME NEW v \in Pending(x)'
            PROVE  v \in Pending(x)
        <5>1. /\ v \in Workers /\ run[v] = x.by
              /\ \/ hook[v] < x.hook
                 \/ hook[v] = x.hook /\ sets'[v] < x.set
          BY <2>1, <4>1 DEF Pending
        <5>2. sets'[v] < x.set => sets[v] < x.set
          BY <1>1, <2>2, <2>4, <5>1
        <5> QED BY <5>1, <5>2 DEF Pending
      <4> QED BY <4>1
    <3>2. CASE Log!Makes(u, x)
      <4>1. x.by = run[w] /\ x.hook = hook[w] /\ sets[w] < x.set /\ x.set <= last
        BY <1>1, <2>2, <3>2 DEF Log!Makes
      <4>2. w \in Pending(x)
        BY <4>1 DEF Pending
      <4>3. w \notin Pending(x)'
        <5>1. hook'[w] = x.hook /\ sets'[w] = last
          BY <2>1, <2>4, <4>1
        <5>2. ~(hook'[w] < x.hook) /\ ~(sets'[w] < x.set)
          BY <1>1, <2>2, <4>1, <5>1
        <5> QED BY <5>2 DEF Pending
      <4>4. /\ IsFiniteSet(Pending(x)')
            /\ Cardinality(Pending(x)') \in Nat /\ Cardinality(Pending(x)) \in Nat
            /\ Cardinality(Pending(x)') + 1 <= Cardinality(Pending(x))
        <5>1. Pending(x)' \subseteq Pending(x) \ {w}
          BY <3>1, <4>3
        <5> QED BY <1>1, <4>2, <5>1, CardOneLess
      <4>5. asks[x.by].map = m /\ Append(value[m], u) \in Seq(Updates)
        BY <2>3, <4>1
      <4>6. /\ Log!Times(x, value'[m]) \in Nat
            /\ Log!Times(x, value'[m]) <= Log!Times(x, value[m]) + 1
        BY <2>3, <4>5, TimesAppend, TimesType
      <4>7. /\ Log!Times(x, value[m]) \in Nat /\ taken[x.by] \in Nat
            /\ Log!Times(x, value[m]) + Cardinality(Pending(x)) <= taken[x.by]
        BY <1>1, <4>5
      <4>8. Log!Times(x, value'[m]) + Cardinality(Pending(x)') <= taken[x.by]
        BY <4>4, <4>6, <4>7, Balance
      <4>9. asks'[x.by].map = m /\ taken'[x.by] = taken[x.by]
        BY <2>1, <4>5
      <4> QED BY <4>4, <4>8, <4>9
    <3>3. CASE ~Log!Makes(u, x)
      <4>1. /\ IsFiniteSet(Pending(x)')
            /\ Cardinality(Pending(x)') \in Nat /\ Cardinality(Pending(x)) \in Nat
            /\ Cardinality(Pending(x)') <= Cardinality(Pending(x))
        BY <1>1, <3>1, CardFewer
      <4>2. Log!Times(x, value'[asks[x.by].map]) = Count(x)
        <5>1. CASE asks[x.by].map = m
          <6>1. Log!Times(x, Append(value[m], u)) = Log!Times(x, value[m])
            BY <2>3, <3>3, TimesAppend
          <6> QED BY <2>3, <5>1, <6>1
        <5>2. CASE asks[x.by].map # m
          BY <1>1, <2>3, <5>2
        <5> QED BY <5>1, <5>2
      <4> HIDE DEF Count
      <4> QED BY <1>1, <2>1, <4>1, <4>2
    <3> QED BY <3>2, <3>3
  <2> QED BY <2>5 DEF MadeInv
<1>5. ASSUME NEW w \in Workers, UNCHANGED <<asks, value, taken>>,
             (hook[w] \in Hooks /\ NextHook(w)) \/ WorkerEnds(w)
      PROVE  MadeInv'
  <2>1. CASE hook[w] \in Hooks /\ NextHook(w)
    <3>1. OnlyWorker(w) /\ run' = run /\ hook'[w] = hook[w] + 1 /\ sets'[w] = 0
      BY <1>0, <2>1, NextHookKeeps
    <3>2. hook[w] \in Nat
      BY <2>1 DEF Hooks
    <3>3. ASSUME NEW x \in Writes, NEW u \in Pending(x)'
          PROVE  u \in Pending(x)
      <4>1. /\ u \in Workers /\ run[u] = x.by
            /\ \/ hook'[u] < x.hook
               \/ hook'[u] = x.hook /\ sets'[u] < x.set
        BY <3>1, <3>3 DEF Pending
      <4>2. CASE u = w
        <5>1. hook[u] < x.hook
          BY <1>1, <3>1, <3>2, <4>1, <4>2
        <5> QED BY <4>1, <5>1 DEF Pending
      <4>3. CASE u # w
        BY <3>1, <4>1, <4>3 DEF Pending, OnlyWorker
      <4> QED BY <4>2, <4>3
    <3> QED BY <1>2, <1>5, <3>3
  <2>2. CASE WorkerEnds(w)
    <3>1. OnlyWorker(w) /\ run'[w] = Nobody
      BY <1>0, <2>2, WorkerEndsKeeps
    <3>2. \A x \in Writes : Pending(x)' \subseteq Pending(x)
      BY <1>1, <3>1, NobodyHolds DEF Pending, OnlyWorker
    <3> QED BY <1>2, <1>5, <3>2
  <2> QED BY <1>5, <2>1, <2>2
<1>6. ASSUME UNCHANGED <<asks, value, taken, run, hook, sets>>
      PROVE  MadeInv'
    BY <1>2, <1>6 DEF Pending
<1>7. ASSUME NEW w \in Workers, WorkerStep(w)
      PROVE  MadeInv'
  <2>1. CASE HookLocks(w) \/ HookSets(w)
    BY <1>6, <2>1 DEF HookLocks, HookSets, mapVars
  <2>2. CASE HookFindsBroken(w)
    <3>1. hook[w] \in Hooks /\ NextHook(w) /\ UNCHANGED <<asks, value, taken>>
      BY <1>0, <2>2, CountsAreNat DEF HookFindsBroken, WorkerTypes, Hooks, mapVars
    <3> QED BY <1>5, <3>1
  <2>3. CASE HookReturns(w) \/ HookFails(w)
    <3>1. hook[w] \in Hooks /\ NextHook(w) /\ UNCHANGED <<asks, value, taken>>
      BY <1>0, <2>3 DEF HookReturns, HookFails, WorkersInv
    <3> QED BY <1>5, <3>1
  <2>4. CASE HookPanics(w) \/ HookPanicsUnlocked(w) \/ AllHooksRun(w)
    BY <1>5, <2>4 DEF HookPanics, HookPanicsUnlocked, AllHooksRun, mapVars
  <2> QED BY <1>4, <1>7, <2>1, <2>2, <2>3, <2>4 DEF WorkerStep
<1>8. ASSUME NEW t \in Conns, ConnStep(t)
      PROVE  MadeInv'
    BY <1>3, <1>6, <1>8
       DEF ConnStep, Start, ReadFails, Refuse, Fruitless, LockServer, ReadId, LearnsId,
           ReadMap, ReadBackwards, ReadBroken, ReadPanics, Ends, Closes, mapVars, workerVars
<1>9. ASSUME Restart
      PROVE  MadeInv'
  <2>1. ASSUME NEW x \in Writes
        PROVE  /\ IsFiniteSet(Pending(x)')
               /\ Log!Times(x, value'[asks'[x.by].map]) + Cardinality(Pending(x)')
                      <= taken'[x.by]
    <3>1. Pending(x)' = {}
      BY <1>1, <1>9, NobodyHolds DEF Restart, Pending
    <3>2. value'[asks'[x.by].map] = << >> /\ taken'[x.by] = 0
      BY <1>1, <1>9 DEF Restart, EmptyLogs, NoSends
    <3> QED BY <3>1, <3>2, FS_EmptySet, TimesEmpty
  <2> QED BY <2>1 DEF MadeInv
<1>10. ASSUME UNCHANGED vars
       PROVE  MadeInv'
    BY <1>6, <1>10 DEF vars, mapVars, workerVars
<1> QED BY <1>6, <1>7, <1>8, <1>9, <1>10
        DEF Next, CallerStep, Connect, Request, RequestCut, HangUp, Host, mapVars, workerVars

LEMMA CountsInit == Init => CountsInv
<1> SUFFICES ASSUME Init PROVE CountsInv
    OBVIOUS
<1>1. ASSUME NEW c \in Callers
      PROVE  IsFiniteSet(Serving(c)) /\ taken[c] + Cardinality(Serving(c)) <= sends[c]
  <2>1. Serving(c) = {} /\ taken[c] = 0 /\ sends[c] = 0
    BY NobodyHolds DEF Init, Serving, NoSends
  <2> QED BY <2>1, FS_EmptySet
<1>2. ASSUME NEW x \in Writes
      PROVE  /\ IsFiniteSet(Pending(x))
             /\ Log!Times(x, value[asks[x.by].map]) + Cardinality(Pending(x)) <= taken[x.by]
  <2>1. x.by \in Callers /\ asks[x.by].map \in Maps
    BY ScenariosAsk DEF Init, Writes, Calls
  <2>2. Pending(x) = {}
    BY <2>1, NobodyHolds DEF Init, Pending
  <2>3. value[asks[x.by].map] = << >> /\ taken[x.by] = 0
    BY <2>1 DEF Init, EmptyLogs, NoSends
  <2> QED BY <2>2, <2>3, FS_EmptySet, TimesEmpty
<1> QED BY <1>1, <1>2 DEF CountsInv, SentInv, MadeInv

-----------------------------------------------------------------------------
(* The abstract log.                                                       *)

LEMMA LogInitially == Init => Log!LogInit
BY DEF Init, Log!LogInit, NoSends, EmptyLogs

\* Connecting sends the event, TakeEvent takes it, HookWrites and HookCommits add
\* an update, a restart loses everything, and nothing else shows.
LEMMA LogStep ==
    ASSUME DispatchInv, CountsInv, [Next]_vars
    PROVE  [Log!LogNext]_(Log!logVars)
<1>0. /\ MapTypes /\ WorkerTypes /\ taken \in [Callers -> Nat] /\ asks \in Scenarios
      /\ sends \in [Callers -> Nat] /\ serves \in [Conns -> Callers \cup {Nobody}]
      /\ ConnsInv /\ WorkersInv /\ HoldsInv
    BY TypesSplit DEF DispatchInv, EventTypeOK
<1>1. ASSUME UNCHANGED <<sends, taken, value>>
      PROVE  UNCHANGED Log!logVars
    BY <1>1 DEF Log!logVars
<1>2. ASSUME NEW c \in Callers, CallerStep(c)
      PROVE  [Log!LogNext]_(Log!logVars)
  <2>1. ASSUME NEW t \in Conns, Connect(c, t)
        PROVE  Log!LogNext
    <3>1. Log!Send(c)
      BY <2>1 DEF Connect, Log!Send, mapVars
    <3> QED BY <3>1 DEF Log!LogNext
  <2> QED BY <1>1, <1>2, <2>1 DEF CallerStep, Request, RequestCut, HangUp, mapVars
<1>3. ASSUME NEW t \in Conns, NEW w \in Workers, TakeEvent(t, w)
      PROVE  Log!LogNext
  <2>1. /\ pc[t] = "check" /\ UNCHANGED <<value, sends>>
        /\ taken' = [taken EXCEPT ![serves[t]] = @ + 1]
    BY <1>3 DEF TakeEvent, Served, Admitted, Ends, Closes, mapVars
  <2> PICK c \in Callers : c = serves[t]
    BY <1>0, <2>1 DEF ConnsInv
  <2>2. taken[c] < sends[c]
    <3>1. IsFiniteSet(Serving(c)) /\ taken[c] + Cardinality(Serving(c)) <= sends[c]
      BY DEF CountsInv, SentInv
    <3>2. t \in Serving(c)
      BY DEF Serving
    <3>3. Cardinality(Serving(c)) \in Nat /\ Cardinality({}) + 1 <= Cardinality(Serving(c))
      BY <3>1, <3>2, CardOneLess
    <3> QED BY <1>0, <3>1, <3>3, FS_EmptySet
  <2>3. Log!Take(c)
    BY <2>1, <2>2 DEF Log!Take
  <2> QED BY <2>3 DEF Log!LogNext
<1>4. ASSUME NEW w \in Workers, HookWrites(w) \/ HookCommits(w)
      PROVE  Log!LogNext
  <2> PICK last \in 1..NumSets : at[w] = "holds" /\ sets[w] < last /\ Updated(w, last)
    BY <1>0, <1>4, WritesUpdate
  <2> PICK m \in Maps : m = EventMap(w) /\ run[w] \in Callers /\ m = asks[run[w]].map
    BY <1>0, EventMapType DEF EventMap, Event
  <2> PICK u \in Updates : /\ u.by = run[w] /\ u.hook = hook[w]
                           /\ u.first = sets[w] + 1 /\ u.last = last
                           /\ local' = [local EXCEPT ![w] = Append(local[w], u)]
                           /\ value' = [value EXCEPT ![m] = Append(value[m], u)]
                           /\ local[w] = value[m]
    BY <1>0, UpdateIs
  <2>1. UNCHANGED <<sends, taken>> /\ value' = [value EXCEPT ![m] = Append(@, u)]
    BY DEF Updated, callerVars
  <2>2. /\ sets[w] \in Nat /\ last \in 1..NumSets /\ NumSets \in Nat
        /\ hook[w] \in Hooks
    BY <1>0, CountsAreNat DEF WorkerTypes, WorkersInv
  <2>3. ASSUME NEW n \in u.first..u.last
        PROVE  Log!Times([by |-> u.by, hook |-> u.hook, set |-> n], value[m]) < taken[u.by]
    <3>1. n \in 1..NumSets /\ sets[w] < n
      BY <2>2
    <3>2. [by |-> u.by, hook |-> u.hook, set |-> n] \in Writes
      BY <2>2, <3>1 DEF Writes
    <3> PICK x \in Writes : x = [by |-> u.by, hook |-> u.hook, set |-> n]
      BY <3>2
    <3>3. x.by = run[w] /\ x.hook = hook[w] /\ x.set = n
      OBVIOUS
    <3>4. /\ IsFiniteSet(Pending(x))
          /\ Log!Times(x, value[m]) + Cardinality(Pending(x)) <= taken[x.by]
      BY <3>3 DEF CountsInv, MadeInv
    <3>5. w \in Pending(x)
      BY <3>1, <3>3 DEF Pending
    <3>6. Cardinality(Pending(x)) \in Nat /\ Cardinality({}) + 1 <= Cardinality(Pending(x))
      <4>1. IsFiniteSet(Pending(x)) /\ {} \subseteq Pending(x) \ {w}
        BY <3>4
      <4> QED BY <3>5, <4>1, CardOneLess
    <3>7. Log!Times(x, value[m]) \in Nat /\ taken[x.by] \in Nat
      BY <1>0, <3>3, TimesType DEF MapTypes
    <3>8. Log!Times(x, value[m]) < taken[x.by]
      BY <3>4, <3>6, <3>7, FS_EmptySet
    <3> QED BY <3>3, <3>8
  <2>4. Log!Add(m, u)
    BY <2>1, <2>3 DEF Log!Add
  <2> QED BY <2>4 DEF Log!LogNext
<1>5. ASSUME Restart
      PROVE  Log!LogNext
  <2>1. Log!Lose
    BY <1>5 DEF Restart, Log!Lose, NoSends, EmptyLogs
  <2> QED BY <2>1 DEF Log!LogNext
<1>6. ASSUME NEW t \in Conns, ConnStep(t)
      PROVE  [Log!LogNext]_(Log!logVars)
    BY <1>1, <1>3, <1>6
       DEF ConnStep, Start, ReadFails, Refuse, Fruitless, LockServer, ReadId, LearnsId,
           ReadMap, ReadBackwards, ReadBroken, ReadPanics, Ends, Closes, mapVars, callerVars
<1>7. ASSUME NEW w \in Workers, WorkerStep(w)
      PROVE  [Log!LogNext]_(Log!logVars)
    BY <1>1, <1>4, <1>7
       DEF WorkerStep, HookLocks, HookFindsBroken, HookSets, HookReturns, HookFails,
           HookPanics, HookPanicsUnlocked, AllHooksRun, mapVars, callerVars
<1> QED BY <1>1, <1>2, <1>5, <1>6, <1>7 DEF Next, Host, mapVars, callerVars, vars

-----------------------------------------------------------------------------
(* The theorems.                                                           *)

\* The inductive invariant of the server holds of every run, whatever fails: in
\* particular, hooks on one map exclude one another.
THEOREM DispatchInvariance == Spec => []DispatchInv
<1>1. DispatchInv /\ [Next]_vars => DispatchInv'
    BY DispatchStep
<1> QED BY <1>1, DispatchInit, PTL DEF Spec

\* The server, its threads and the callers keep their types: in particular no
\* worker runs a hook there is not, and no map holds anything but updates of
\* hooks.
THEOREM EventTypeCorrect == Spec => []EventTypeOK
<1>1. DispatchInv => EventTypeOK
    BY DEF DispatchInv
<1> QED BY <1>1, DispatchInvariance, PTL

\* A reader is shown either all that a hook wrote in a batch or nothing of it,
\* whatever id it asks for, and with however many hooks at work and errors,
\* panics and restarts at any time; and all or nothing of what a hook wrote one
\* by one, if it asked for the newest id before it asked for the diff, on a map
\* where no such hook fails.
THEOREM ReadersSeeWhole == Spec => []ShownWhole
<1>1. DispatchInv /\ WholeInv /\ [Next]_vars => WholeInv'
    BY WholeStep
<1>2. DispatchInv /\ WholeInv => ShownWhole
  <2> SUFFICES ASSUME DispatchInv, WholeInv, NEW r \in Callers, shown[r] # NotShown,
                      NEW i \in DOMAIN shown[r],
                      asks[shown[r][i].by].batch \/ Learns(r)
               PROVE  WholeAt(shown[r], i)
    BY DEF ShownWhole, Learns
  <2>1. shown[r] \in Seq(Updates)
    BY DEF DispatchInv, EventTypeOK
  <2>2. /\ i \in 1..Len(shown[r]) /\ Len(shown[r]) \in Nat
        /\ Begun(shown[r]) /\ Batched(shown[r])
        /\ Learns(r) => Ended(shown[r], Len(shown[r]))
    BY <2>1 DEF WholeInv, ReadWhole
  <2>3. CASE asks[shown[r][i].by].batch
    BY <2>2, <2>3 DEF Batched, WholeAt
  <2>4. CASE Learns(r)
    <3>1. i = Len(shown[r]) \/ i \in 1..(Len(shown[r]) - 1)
      BY <2>2
    <3> QED BY <2>2, <2>4, <3>1 DEF Begun, Ended, Goes, WholeAt
  <2> QED BY <2>3, <2>4
<1> QED BY <1>1, <1>2, WholeInit, DispatchInvariance, PTL DEF Spec

\* Connections, threads, mutexes, panics and restarts together show no more
\* than a log per map: nothing written is lost, and no event is processed more
\* often than it was sent.
THEOREM LogImplemented == Spec => ImplementsLog
<1>1. DispatchInv /\ CountsInv /\ [Next]_vars => CountsInv'
    BY SentStep, MadeStep DEF CountsInv
<1>2. DispatchInv /\ CountsInv /\ [Next]_vars => [Log!LogNext]_(Log!logVars)
    BY LogStep
<1> QED BY <1>1, <1>2, CountsInit, LogInitially, DispatchInvariance, PTL
        DEF Spec, ImplementsLog, Log!LogSpec
=============================================================================

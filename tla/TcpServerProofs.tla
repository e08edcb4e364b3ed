--------------------------- MODULE TcpServerProofs ---------------------------
(***************************************************************************)
(* Proofs about TcpServer, for every number of clients, threads, maps and  *)
(* init hooks.                                                             *)
(***************************************************************************)
EXTENDS TcpServer, TLAPS

-----------------------------------------------------------------------------
(* The inductive invariant.  A thread between CheckNew and its end has its *)
(* hash in processed_hashes, where it keeps every other thread out, and    *)
(* the hash is not hosted; that is why Insert finds it new.                *)
JobsKnown ==
    /\ \A t \in Threads : pc[t] # "idle" => job[t] \in Maps
    /\ \A c \in Clients : state[c] = "asking" => wants[c] \in Maps

Counted == \A m \in Maps : inserts[m] = IF m \in statemaps THEN 1 ELSE 0

ServerInv == TcpServerTypeOK /\ JobsKnown /\ Claimed /\ Counted

\* With it, the other hashes in processed_hashes are all in hand.
Leaky == Unrepeatable \cup Panicking

OthersInHand == ~poisoned => InHand(Maps \ Leaky)

-----------------------------------------------------------------------------
(* Types.                                                                  *)

LEMMA EndsType ==
    ASSUME TcpServerTypeOK, JobsKnown,
           NEW t \in Threads, NEW outcome \in {"ok", "failed"}, Ends(t, outcome)
    PROVE  /\ pc' \in [Threads -> {"idle", "check", "build", "hooks"}]
           /\ job' \in [Threads -> Maps \cup {NoMap}]
           /\ hooksRun' \in [Threads -> 0..NumHooks]
           /\ state' \in [Clients -> {"building", "asking", "waiting", "ok", "failed"}]
           /\ wants' \in [Clients -> Maps \cup {NoMap}]
           /\ conn' \in [Clients -> Threads \cup {NoThread}]
           /\ JobsKnown'
<1>1. 0 \in 0..NumHooks
    BY NumHooksIsNat
<1>2. pc' \in [Threads -> {"idle", "check", "build", "hooks"}]
    BY DEF TcpServerTypeOK, Ends
<1>3. job' \in [Threads -> Maps \cup {NoMap}]
    BY DEF TcpServerTypeOK, Ends
<1>4. hooksRun' \in [Threads -> 0..NumHooks]
    BY <1>1 DEF TcpServerTypeOK, Ends
<1>5. state' \in [Clients -> {"building", "asking", "waiting", "ok", "failed"}]
    BY DEF TcpServerTypeOK, Ends
<1>6. conn' \in [Clients -> Threads \cup {NoThread}]
    BY DEF TcpServerTypeOK, Ends
<1>7. wants' \in [Clients -> Maps \cup {NoMap}]
    BY DEF TcpServerTypeOK, Ends
<1>8. ASSUME NEW u \in Threads, pc'[u] # "idle"
      PROVE  job'[u] \in Maps
    BY <1>8 DEF TcpServerTypeOK, JobsKnown, Ends
<1>9. ASSUME NEW c \in Clients, state'[c] = "asking"
      PROVE  wants'[c] \in Maps
    BY <1>9 DEF TcpServerTypeOK, JobsKnown, Ends
<1> QED BY <1>2, <1>3, <1>4, <1>5, <1>6, <1>7, <1>8, <1>9 DEF JobsKnown

LEMMA ThreadType ==
    ASSUME TcpServerTypeOK, JobsKnown, NEW t \in Threads, ThreadStep(t)
    PROVE  TcpServerTypeOK' /\ JobsKnown'
<1>1. ASSUME NEW outcome \in {"ok", "failed"}, Ends(t, outcome),
             \/ UNCHANGED serverVars
             \/ Release(t)
      PROVE  TcpServerTypeOK' /\ JobsKnown'
  <2>1. /\ statemaps' \subseteq Maps /\ processed' \subseteq Maps
        /\ poisoned' \in BOOLEAN /\ inserts' \in [Maps -> Nat]
    BY <1>1 DEF TcpServerTypeOK, serverVars, Release
  <2> QED BY <1>1, <2>1, EndsType DEF TcpServerTypeOK
<1>2. CASE CheckKnown(t)
    BY <1>1, <1>2 DEF CheckKnown
<1>3. CASE CheckNew(t)
    BY <1>3 DEF TcpServerTypeOK, JobsKnown, CheckNew, clientVars
<1>4. CASE CheckPoisoned(t)
    BY <1>1, <1>4 DEF CheckPoisoned
<1>5. CASE Build(t)
    BY <1>5 DEF TcpServerTypeOK, JobsKnown, Build, serverVars, clientVars
<1>6. CASE DecodeFails(t)
    BY <1>1, <1>6 DEF DecodeFails
<1>7. CASE HashMismatch(t)
    BY <1>1, <1>7 DEF HashMismatch
<1>8. CASE HookSucceeds(t)
  <2>1. hooksRun[t] + 1 \in 0..NumHooks
    BY <1>8, NumHooksIsNat DEF TcpServerTypeOK, HookSucceeds
  <2> QED BY <1>8, <2>1 DEF TcpServerTypeOK, JobsKnown, HookSucceeds, serverVars, clientVars
<1>9. CASE HookFails(t)
    BY <1>1, <1>9 DEF HookFails
<1>10. CASE HookPanics(t)
    BY <1>1, <1>10 DEF HookPanics
<1>11. CASE Insert(t)
  <2>1. Ends(t, "ok") /\ job[t] \in Maps
    BY <1>11 DEF Insert, JobsKnown
  <2>2. /\ statemaps' \subseteq Maps /\ processed' \subseteq Maps
        /\ poisoned' \in BOOLEAN
    BY <1>11, <2>1 DEF Insert, TcpServerTypeOK
  <2>3. inserts' \in [Maps -> Nat]
    BY <1>11, <2>1 DEF Insert, TcpServerTypeOK
  <2> QED BY <2>1, <2>2, <2>3, EndsType DEF TcpServerTypeOK
<1>12. CASE InsertPoisoned(t)
    BY <1>1, <1>12 DEF InsertPoisoned
<1> QED BY <1>2, <1>3, <1>4, <1>5, <1>6, <1>7, <1>8, <1>9, <1>10, <1>11, <1>12
        DEF ThreadStep

LEMMA ClientType ==
    ASSUME TcpServerTypeOK, JobsKnown, NEW c \in Clients, ClientStep(c)
    PROVE  TcpServerTypeOK' /\ JobsKnown'
<1> USE DEF serverVars, threadVars
<1>1. ASSUME NEW m \in Maps, Freeze(c, m)
      PROVE  TcpServerTypeOK' /\ JobsKnown'
    BY <1>1 DEF Freeze, TcpServerTypeOK, JobsKnown
<1>2. CASE FreezeAgain(c)
    BY <1>2 DEF FreezeAgain, TcpServerTypeOK, JobsKnown
<1>3. CASE AnsweredUpdateId(c)
    BY <1>3 DEF AnsweredUpdateId, Becomes, TcpServerTypeOK, JobsKnown
<1>4. CASE AnsweredIncorrectPassword(c)
    BY <1>4 DEF AnsweredIncorrectPassword, Becomes, TcpServerTypeOK, JobsKnown
<1>5. ASSUME NEW t \in Threads, AnsweredNotFound(c, t)
      PROVE  TcpServerTypeOK' /\ JobsKnown'
  <2>1. wants[c] \in Maps
    BY <1>5 DEF AnsweredNotFound, JobsKnown
  <2> QED BY <1>5, <2>1 DEF AnsweredNotFound, TcpServerTypeOK, JobsKnown
<1>6. CASE Disconnect(c)
    BY <1>6 DEF Disconnect, Becomes, TcpServerTypeOK, JobsKnown
<1> QED BY <1>1, <1>2, <1>3, <1>4, <1>5, <1>6 DEF ClientStep

LEMMA TypeStep ==
    ASSUME TcpServerTypeOK, JobsKnown, [Next]_vars
    PROVE  TcpServerTypeOK' /\ JobsKnown'
<1>1. CASE BadRequest
    BY <1>1 DEF BadRequest, TcpServerTypeOK, JobsKnown, threadVars, clientVars
<1>2. CASE Restart
  <2>1. 0 \in 0..NumHooks
    BY NumHooksIsNat
  <2>2. state' \in [Clients -> {"building", "asking", "waiting", "ok", "failed"}]
    BY <1>2 DEF Restart, TcpServerTypeOK
  <2>3. /\ pc' \in [Threads -> {"idle", "check", "build", "hooks"}]
        /\ job' \in [Threads -> Maps \cup {NoMap}]
        /\ hooksRun' \in [Threads -> 0..NumHooks]
        /\ conn' \in [Clients -> Threads \cup {NoThread}]
        /\ inserts' \in [Maps -> Nat]
    BY <1>2, <2>1 DEF Restart
  <2>4. /\ statemaps' \subseteq Maps /\ processed' \subseteq Maps
        /\ poisoned' \in BOOLEAN /\ wants' \in [Clients -> Maps \cup {NoMap}]
    BY <1>2 DEF Restart, TcpServerTypeOK
  <2>5. JobsKnown'
    BY <1>2 DEF Restart, TcpServerTypeOK, JobsKnown
  <2> QED BY <2>2, <2>3, <2>4, <2>5 DEF TcpServerTypeOK
<1>3. CASE UNCHANGED vars
    BY <1>3 DEF vars, serverVars, threadVars, clientVars, TcpServerTypeOK, JobsKnown
<1> QED BY <1>1, <1>2, <1>3, ThreadType, ClientType DEF Next

-----------------------------------------------------------------------------
(* Initialising alone.                                                     *)

\* What a step may do to the threads, as far as Claimed is concerned: some of
\* them stop initialising, and the hash that leaves processed_hashes or
\* becomes hosted is that of a thread that stops.
LEMMA FewerClaimed ==
    ASSUME Claimed,
           \A u \in Threads : Initialising(u)' => Initialising(u) /\ job'[u] = job[u],
           \A u \in Threads : Initialising(u)' => job[u] \in processed' \ statemaps'
    PROVE  Claimed'
BY DEF Claimed

LEMMA EndsClaimed ==
    ASSUME TcpServerTypeOK, Claimed, NEW t \in Threads,
           NEW outcome \in {"ok", "failed"}, Ends(t, outcome),
           \/ UNCHANGED <<statemaps, processed>>
           \/ /\ Initialising(t)
              /\ processed \ {job[t]} \subseteq processed'
              /\ statemaps' \subseteq statemaps \cup {job[t]}
    PROVE  Claimed'
<1>1. ASSUME NEW u \in Threads, Initialising(u)'
      PROVE  Initialising(u) /\ job'[u] = job[u] /\ u # t
    BY <1>1 DEF Ends, Initialising, TcpServerTypeOK
<1>2. ASSUME NEW u \in Threads, Initialising(u)'
      PROVE  job[u] \in processed' \ statemaps'
  <2>1. Initialising(u) /\ u # t
    BY <1>1, <1>2
  <2>2. job[u] \in processed \ statemaps /\ (Initialising(t) => job[u] # job[t])
    BY <2>1 DEF Claimed
  <2> QED BY <2>2
<1> QED BY <1>1, <1>2, FewerClaimed

LEMMA ClaimedStep ==
    ASSUME TcpServerTypeOK, Claimed, [Next]_vars
    PROVE  Claimed'
<1>1. ASSUME UNCHANGED <<statemaps, processed>>,
             \A u \in Threads : Initialising(u)' => Initialising(u) /\ job'[u] = job[u]
      PROVE  Claimed'
    BY <1>1, FewerClaimed DEF Claimed
<1>2. ASSUME NEW t \in Threads, ThreadStep(t)
      PROVE  Claimed'
  <2>1. CASE CheckKnown(t)
      BY <2>1, EndsClaimed DEF CheckKnown, serverVars
  <2>2. CASE CheckNew(t)
    <3>1. ~Initialising(t) /\ job[t] \notin processed \cup statemaps
        BY <2>2 DEF CheckNew, Initialising
    <3>2. /\ job' = job /\ statemaps' = statemaps /\ processed' = processed \cup {job[t]}
          /\ \A u \in Threads : Initialising(u)' => Initialising(u) \/ u = t
        BY <2>2 DEF CheckNew, Initialising, TcpServerTypeOK
    <3>3. \A u \in Threads : Initialising(u) => job[u] # job[t]
        BY <3>1 DEF Claimed
    <3> QED BY <3>1, <3>2, <3>3 DEF Claimed
  <2>3. CASE CheckPoisoned(t)
      BY <2>3, EndsClaimed DEF CheckPoisoned, serverVars
  <2>4. CASE Build(t)
      BY <1>1, <2>4 DEF Build, Initialising, serverVars, TcpServerTypeOK
  <2>5. CASE DecodeFails(t)
      BY <2>5, EndsClaimed DEF DecodeFails, Release, Initialising
  <2>6. CASE HashMismatch(t)
      BY <2>6, EndsClaimed DEF HashMismatch, serverVars
  <2>7. CASE HookSucceeds(t)
      BY <1>1, <2>7 DEF HookSucceeds, Initialising, serverVars
  <2>8. CASE HookFails(t)
      BY <2>8, EndsClaimed DEF HookFails, Release, Initialising
  <2>9. CASE HookPanics(t)
      BY <2>9, EndsClaimed DEF HookPanics, serverVars
  <2>10. CASE Insert(t)
      BY <2>10, EndsClaimed DEF Insert, Initialising
  <2>11. CASE InsertPoisoned(t)
      BY <2>11, EndsClaimed DEF InsertPoisoned, serverVars
  <2> QED BY <1>2, <2>1, <2>2, <2>3, <2>4, <2>5, <2>6, <2>7, <2>8, <2>9, <2>10, <2>11
          DEF ThreadStep
<1>3. ASSUME NEW c \in Clients, ClientStep(c)
      PROVE  Claimed'
  <2>1. UNCHANGED serverVars
      BY <1>3 DEF ClientStep, Freeze, FreezeAgain, AnsweredUpdateId, AnsweredNotFound,
              AnsweredIncorrectPassword,
                  Disconnect, Becomes
  <2>2. ASSUME NEW u \in Threads, Initialising(u)'
        PROVE  Initialising(u) /\ job'[u] = job[u]
    <3>1. CASE UNCHANGED threadVars
        BY <2>2, <3>1 DEF threadVars, Initialising
    <3>2. ASSUME NEW t \in Threads, AnsweredNotFound(c, t)
          PROVE  Initialising(u) /\ job'[u] = job[u]
        BY <2>2, <3>2 DEF AnsweredNotFound, Initialising, TcpServerTypeOK
    <3> QED BY <1>3, <3>1, <3>2 DEF ClientStep, Freeze, FreezeAgain, AnsweredUpdateId,
          AnsweredIncorrectPassword,
                                    Disconnect, Becomes
  <2> QED BY <1>1, <2>1, <2>2 DEF serverVars
<1>4. CASE BadRequest
    BY <1>1, <1>4 DEF BadRequest, threadVars, Initialising
<1>5. CASE Restart
    BY <1>5 DEF Restart, Initialising, Claimed
<1>6. CASE UNCHANGED vars
    BY <1>1, <1>6 DEF vars, serverVars, threadVars, Initialising
<1> QED BY <1>2, <1>3, <1>4, <1>5, <1>6 DEF Next

-----------------------------------------------------------------------------
(* Counting the inserts.                                                   *)

\* Only Insert and Restart change what is hosted.
LEMMA HostedChange ==
    ASSUME [Next]_vars
    PROVE  \/ UNCHANGED <<statemaps, inserts>>
           \/ Restart
           \/ \E t \in Threads : Insert(t)
<1>1. ASSUME NEW t \in Threads, ThreadStep(t)
      PROVE  UNCHANGED <<statemaps, inserts>> \/ Insert(t)
    BY <1>1 DEF ThreadStep, CheckKnown, CheckNew, CheckPoisoned, Build, DecodeFails,
                HashMismatch, HookSucceeds, HookFails, HookPanics, InsertPoisoned,
                Release, serverVars
<1>2. ASSUME NEW c \in Clients, ClientStep(c)
      PROVE  UNCHANGED <<statemaps, inserts>>
    BY <1>2 DEF ClientStep, Freeze, FreezeAgain, AnsweredUpdateId, AnsweredNotFound,
              AnsweredIncorrectPassword,
                Disconnect, Becomes, serverVars
<1> QED BY <1>1, <1>2 DEF Next, BadRequest, vars, serverVars

LEMMA CountedStep ==
    ASSUME ServerInv, [Next]_vars
    PROVE  Counted'
<1> USE DEF ServerInv
<1>1. CASE UNCHANGED <<statemaps, inserts>>
    BY <1>1 DEF Counted
<1>2. CASE Restart
    BY <1>2 DEF Restart, Counted
<1>3. ASSUME NEW t \in Threads, Insert(t)
      PROVE  Counted'
  <2>1. job[t] \in Maps /\ job[t] \notin statemaps
    BY <1>3 DEF Insert, Initialising, Claimed, JobsKnown
  <2>2. inserts[job[t]] = 0
    BY <2>1 DEF Counted
  <2>3. /\ inserts' = [inserts EXCEPT ![job[t]] = inserts[job[t]] + 1]
        /\ statemaps' = statemaps \cup {job[t]}
    BY <1>3 DEF Insert
  <2> QED BY <2>1, <2>2, <2>3 DEF Counted, TcpServerTypeOK
<1> QED BY <1>1, <1>2, <1>3, HostedChange

LEMMA InvInit == Init => ServerInv
<1> SUFFICES ASSUME Init PROVE ServerInv
    OBVIOUS
<1>1. 0 \in 0..NumHooks
    BY NumHooksIsNat
<1>2. TcpServerTypeOK
    BY <1>1 DEF Init, TcpServerTypeOK
<1>3. JobsKnown /\ Claimed /\ Counted
    BY DEF Init, JobsKnown, Claimed, Counted, Initialising
<1> QED BY <1>2, <1>3 DEF ServerInv

LEMMA InvStep == ServerInv /\ [Next]_vars => ServerInv'
BY TypeStep, ClaimedStep, CountedStep DEF ServerInv

(* The inductive invariant of hosting: a thread that initialises a map has *)
(* its hash to itself until it inserts it, whatever fails.                 *)
THEOREM Invariance == Spec => []ServerInv
BY InvInit, InvStep, PTL DEF Spec

(* The fields of the server, its threads and the clients keep their types, *)
(* whatever faults occur.                                                  *)
THEOREM TypeCorrect == Spec => []TcpServerTypeOK
<1>1. ServerInv => TcpServerTypeOK
    BY DEF ServerInv
<1> QED BY Invariance, <1>1, PTL

(* However many clients send the same map at the same time, and whatever   *)
(* fails on the way, process_request inserts it at most once.              *)
THEOREM HostsOnce == Spec => []HostedOnce
<1>1. ServerInv => HostedOnce
    BY DEF ServerInv, Counted, HostedOnce
<1> QED BY Invariance, <1>1, PTL

-----------------------------------------------------------------------------
(* processed_hashes without leaks.                                         *)

LEMMA OthersInHandStep ==
    ASSUME ServerInv, OthersInHand, [Next]_vars
    PROVE  OthersInHand'
<1> USE DEF ServerInv
<1>1. ASSUME UNCHANGED <<processed, poisoned>>,
             \A u \in Threads : Initialising(u) => Initialising(u)' /\ job'[u] = job[u]
      PROVE  OthersInHand'
    BY <1>1 DEF OthersInHand, InHand, Leaky
<1>2. ASSUME NEW t \in Threads, NEW outcome \in {"ok", "failed"}, Ends(t, outcome),
             \/ UNCHANGED serverVars /\ (~Initialising(t) \/ poisoned \/ job[t] \in Leaky)
             \/ Release(t)
             \/ processed' = processed \ {job[t]} /\ UNCHANGED poisoned
      PROVE  OthersInHand'
  <2>1. \A u \in Threads \ {t} :
            Initialising(u) => Initialising(u)' /\ job'[u] = job[u]
    BY <1>2 DEF Ends, Initialising, TcpServerTypeOK
  <2>2. CASE UNCHANGED serverVars
    BY <1>2, <2>1, <2>2 DEF OthersInHand, InHand, Leaky, serverVars, Release
  <2>3. CASE processed' = processed \ {job[t]} /\ UNCHANGED poisoned
    BY <2>1, <2>3 DEF OthersInHand, InHand, Leaky
  <2>4. CASE poisoned /\ UNCHANGED poisoned
    BY <2>4 DEF OthersInHand, InHand, Leaky
  <2> QED BY <1>2, <2>2, <2>3, <2>4 DEF Release
<1>3. ASSUME NEW t \in Threads, ThreadStep(t)
      PROVE  OthersInHand'
  <2>1. CASE CheckKnown(t)
    BY <1>2, <2>1 DEF CheckKnown, Initialising
  <2>2. CASE CheckNew(t)
    <3>1. /\ job' = job /\ processed' = processed \cup {job[t]} /\ UNCHANGED poisoned
          /\ \A u \in Threads : Initialising(u) => Initialising(u)'
          /\ Initialising(t)'
      BY <2>2 DEF CheckNew, Initialising, TcpServerTypeOK
    <3> QED BY <3>1 DEF OthersInHand, InHand, Leaky
  <2>3. CASE CheckPoisoned(t)
    BY <1>2, <2>3 DEF CheckPoisoned
  <2>4. CASE Build(t)
    BY <1>1, <2>4 DEF Build, Initialising, serverVars, TcpServerTypeOK
  <2>5. CASE DecodeFails(t)
    BY <1>2, <2>5 DEF DecodeFails
  <2>6. CASE HookSucceeds(t)
    BY <1>1, <2>6 DEF HookSucceeds, Initialising, serverVars
  <2>7. CASE HookFails(t)
    BY <1>2, <2>7 DEF HookFails
  <2>8. CASE Insert(t)
    BY <1>2, <2>8 DEF Insert
  <2>9. CASE InsertPoisoned(t)
    BY <1>2, <2>9 DEF InsertPoisoned
  <2>10. CASE HashMismatch(t)
    BY <1>2, <2>10 DEF HashMismatch, Leaky
  <2>11. CASE HookPanics(t)
    BY <1>2, <2>11 DEF HookPanics, Leaky
  <2> QED BY <1>3, <2>1, <2>2, <2>3, <2>4, <2>5, <2>6, <2>7, <2>8, <2>9, <2>10, <2>11
          DEF ThreadStep
<1>4. ASSUME NEW c \in Clients, ClientStep(c)
      PROVE  OthersInHand'
  <2>1. UNCHANGED serverVars
      BY <1>4 DEF ClientStep, Freeze, FreezeAgain, AnsweredUpdateId, AnsweredNotFound,
              AnsweredIncorrectPassword,
                  Disconnect, Becomes
  <2>2. ASSUME NEW u \in Threads, Initialising(u)
        PROVE  Initialising(u)' /\ job'[u] = job[u]
    <3>1. CASE UNCHANGED threadVars
        BY <2>2, <3>1 DEF threadVars, Initialising
    <3>2. ASSUME NEW t \in Threads, AnsweredNotFound(c, t)
          PROVE  Initialising(u)' /\ job'[u] = job[u]
        BY <2>2, <3>2 DEF AnsweredNotFound, Initialising, TcpServerTypeOK
    <3> QED BY <1>4, <3>1, <3>2 DEF ClientStep, Freeze, FreezeAgain, AnsweredUpdateId,
          AnsweredIncorrectPassword,
                                    Disconnect, Becomes
  <2> QED BY <1>1, <2>1, <2>2 DEF serverVars
<1>5. CASE BadRequest
    BY <1>5 DEF BadRequest, OthersInHand, InHand, Leaky
<1>6. CASE Restart
    BY <1>6 DEF Restart, OthersInHand, InHand, Leaky
<1>7. CASE UNCHANGED vars
    BY <1>1, <1>7 DEF vars, serverVars, threadVars, Initialising
<1> QED BY <1>3, <1>4, <1>5, <1>6, <1>7 DEF Next

(* Unless the server finds another hash than the client did or an init     *)
(* hook panics, a hash that process_request puts into processed_hashes is  *)
(* removed when its thread ends: errors of the decoder and of hooks,       *)
(* broken connections, restarts and even a poisoned mutex leave no hash    *)
(* behind that a sound mutex would show.                                   *)
THEOREM ProcessedReleased == Spec => []OthersReleased
<1>1. Init => OthersInHand
    BY DEF Init, OthersInHand, InHand
<1>2. ServerInv /\ OthersInHand /\ [Next]_vars => OthersInHand'
    BY OthersInHandStep
<1>3. ServerInv /\ OthersInHand => OthersReleased
    BY DEF ServerInv, OthersInHand, Leaky, OthersReleased
<1>4. Spec => []ServerInv
    BY Invariance
<1> QED BY <1>1, <1>2, <1>3, <1>4, PTL DEF Spec

-----------------------------------------------------------------------------
(* What Ok promises, without faults.  A client waits for a thread that has *)
(* its hash in hand, so that the thread's outcome is that of the hash.     *)
Sound == ~poisoned

AnsweredByOwn ==
    \A c \in Clients : conn[c] # NoThread =>
        /\ state[c] = "waiting"
        /\ pc[conn[c]] # "idle"
        /\ job[conn[c]] = wants[c]

OkInv ==
    /\ ServerInv
    /\ OthersInHand
    /\ Sound
    /\ AnsweredByOwn
    /\ ReliableInHand

\* The map is hosted, or a thread is about to host it.
Promised(m) ==
    \/ m \in statemaps
    \/ \E t \in Threads : Initialising(t) /\ job[t] = m

LEMMA AnsweredByOwnStep ==
    ASSUME Faults = {}, OkInv, [Next]_vars
    PROVE  Sound' /\ AnsweredByOwn'
<1> USE DEF OkInv, ServerInv, Sound
<1>1. ASSUME Sound', UNCHANGED <<job, clientVars>>,
             \A t \in Threads : pc[t] # "idle" => pc'[t] # "idle"
      PROVE  Sound' /\ AnsweredByOwn'
    BY <1>1 DEF AnsweredByOwn, clientVars, TcpServerTypeOK
<1>2. ASSUME NEW t \in Threads, NEW outcome \in {"ok", "failed"}, Ends(t, outcome), Sound'
      PROVE  Sound' /\ AnsweredByOwn'
  <2>1. ASSUME NEW c \in Clients, conn'[c] # NoThread
        PROVE  /\ state'[c] = "waiting"
               /\ pc'[conn'[c]] # "idle"
               /\ job'[conn'[c]] = wants'[c]
    <3>1. conn[c] # t /\ conn'[c] = conn[c] /\ state'[c] = state[c] /\ wants' = wants
      BY <1>2, <2>1 DEF Ends
    <3>2. conn[c] \in Threads
      BY <2>1, <3>1 DEF TcpServerTypeOK
    <3>3. pc'[conn[c]] = pc[conn[c]] /\ job'[conn[c]] = job[conn[c]]
      BY <1>2, <3>1, <3>2 DEF Ends, TcpServerTypeOK
    <3> QED BY <2>1, <3>1, <3>3 DEF AnsweredByOwn
  <2> QED BY <1>2, <2>1 DEF AnsweredByOwn
<1>3. ASSUME NEW t \in Threads, ThreadStep(t)
      PROVE  Sound' /\ AnsweredByOwn'
  <2>1. Sound'
    BY <1>3 DEF ThreadStep, CheckKnown, CheckNew, CheckPoisoned, Build, DecodeFails,
                HashMismatch, HookSucceeds, HookFails, HookPanics, Insert,
                InsertPoisoned, Release, serverVars
  <2>2. CASE CheckNew(t) \/ Build(t) \/ HookSucceeds(t)
    BY <1>1, <2>1, <2>2 DEF CheckNew, Build, HookSucceeds, TcpServerTypeOK, clientVars
  <2>3. CASE \E outcome \in {"ok", "failed"} : Ends(t, outcome)
    BY <1>2, <2>1, <2>3
  <2> QED BY <1>3, <2>2, <2>3
          DEF ThreadStep, CheckKnown, CheckPoisoned, DecodeFails, HashMismatch,
              HookFails, HookPanics, Insert, InsertPoisoned
<1>4. ASSUME NEW c \in Clients, ClientStep(c)
      PROVE  Sound' /\ AnsweredByOwn'
  <2>1. ASSUME NEW s, Becomes(c, s)
        PROVE  Sound' /\ AnsweredByOwn'
    BY <2>1 DEF Becomes, AnsweredByOwn, TcpServerTypeOK, serverVars, threadVars
  <2>2. CASE \E m \in Maps : Freeze(c, m)
    BY <2>2 DEF Freeze, AnsweredByOwn, TcpServerTypeOK, serverVars, threadVars
  <2>3. ASSUME NEW t \in Threads, AnsweredNotFound(c, t)
        PROVE  Sound' /\ AnsweredByOwn'
    <3>1. /\ pc[t] = "idle" /\ pc' = [pc EXCEPT ![t] = "check"]
          /\ job' = [job EXCEPT ![t] = wants[c]]
          /\ state' = [state EXCEPT ![c] = "waiting"]
          /\ conn' = [conn EXCEPT ![c] = t]
          /\ wants' = wants /\ poisoned' = poisoned
      BY <2>3 DEF AnsweredNotFound, serverVars
    <3>2. ASSUME NEW d \in Clients, conn'[d] # NoThread
          PROVE  /\ state'[d] = "waiting"
                 /\ pc'[conn'[d]] # "idle"
                 /\ job'[conn'[d]] = wants'[d]
      <4>1. CASE d = c
        BY <3>1, <4>1 DEF TcpServerTypeOK
      <4>2. CASE d # c
        <5>1. conn'[d] = conn[d] /\ conn[d] \in Threads /\ state'[d] = state[d]
          BY <3>1, <3>2, <4>2 DEF TcpServerTypeOK
        <5>2. conn[d] # t
          BY <3>1, <3>2, <5>1 DEF AnsweredByOwn
        <5> QED BY <3>1, <3>2, <5>1, <5>2 DEF AnsweredByOwn, TcpServerTypeOK
      <4> QED BY <4>1, <4>2
    <3> QED BY <3>1, <3>2 DEF AnsweredByOwn
  <2> QED BY <1>4, <2>1, <2>2, <2>3
          DEF ClientStep, FreezeAgain, AnsweredUpdateId, AnsweredIncorrectPassword,
              Disconnect
<1>5. CASE UNCHANGED vars
    BY <1>5 DEF vars, serverVars, threadVars, clientVars, AnsweredByOwn
<1> QED BY <1>3, <1>4, <1>5 DEF Next, BadRequest, Restart

\* A map is no longer promised only when its initialisation fails.
LEMMA PromisesKept ==
    ASSUME Faults = {}, OkInv, [Next]_vars, NEW m \in Reliable, Promised(m)
    PROVE  Promised(m)'
<1> USE DEF OkInv, ServerInv, Sound
<1>1. CASE /\ statemaps \subseteq statemaps'
           /\ \A u \in Threads : Initialising(u) => Initialising(u)' /\ job'[u] = job[u]
    BY <1>1 DEF Promised
<1>2. ASSUME NEW t \in Threads, ThreadStep(t)
      PROVE  Promised(m)'
  <2>1. statemaps \subseteq statemaps'
    BY <1>2 DEF ThreadStep, CheckKnown, CheckNew, CheckPoisoned, Build, DecodeFails,
                HashMismatch, HookSucceeds, HookFails, HookPanics, Insert,
                InsertPoisoned, Release, serverVars
  <2>2. CASE CheckNew(t) \/ Build(t) \/ HookSucceeds(t)
    <3>1. \A u \in Threads : Initialising(u) => Initialising(u)' /\ job'[u] = job[u]
      BY <2>2 DEF CheckNew, Build, HookSucceeds, Initialising, TcpServerTypeOK
    <3> QED BY <1>1, <2>1, <3>1
  <2>3. ASSUME NEW outcome \in {"ok", "failed"}, Ends(t, outcome),
               Initialising(t) => job[t] # m
        PROVE  Promised(m)'
    <3>1. \A u \in Threads \ {t} :
              Initialising(u) => Initialising(u)' /\ job'[u] = job[u]
      BY <2>3 DEF Ends, Initialising, TcpServerTypeOK
    <3> QED BY <2>1, <2>3, <3>1 DEF Promised
  <2>4. CASE Insert(t)
    <3>1. job[t] = m => m \in statemaps'
      BY <2>4 DEF Insert
    <3> QED BY <2>3, <2>4, <3>1 DEF Insert, Promised
  <2>5. CASE CheckKnown(t) \/ CheckPoisoned(t)
    BY <2>3, <2>5 DEF CheckKnown, CheckPoisoned, Initialising
  <2>6. CASE DecodeFails(t) \/ HashMismatch(t) \/ HookFails(t) \/ HookPanics(t)
    BY <2>3, <2>6 DEF DecodeFails, HashMismatch, HookFails, HookPanics, Reliable
  <2> QED BY <1>2, <2>2, <2>4, <2>5, <2>6 DEF ThreadStep, InsertPoisoned
<1>3. ASSUME NEW c \in Clients, ClientStep(c)
      PROVE  Promised(m)'
  <2>1. UNCHANGED serverVars
    BY <1>3 DEF ClientStep, Freeze, FreezeAgain, AnsweredUpdateId, AnsweredNotFound,
                AnsweredIncorrectPassword, Disconnect, Becomes
  <2>2. ASSUME NEW u \in Threads, Initialising(u)
        PROVE  Initialising(u)' /\ job'[u] = job[u]
    <3>1. CASE UNCHANGED threadVars
      BY <2>2, <3>1 DEF threadVars, Initialising
    <3>2. ASSUME NEW t \in Threads, AnsweredNotFound(c, t)
          PROVE  Initialising(u)' /\ job'[u] = job[u]
      BY <2>2, <3>2 DEF AnsweredNotFound, Initialising, TcpServerTypeOK
    <3> QED BY <1>3, <3>1, <3>2
            DEF ClientStep, Freeze, FreezeAgain, AnsweredUpdateId,
                AnsweredIncorrectPassword, Disconnect, Becomes
  <2> QED BY <1>1, <2>1, <2>2 DEF serverVars
<1>4. CASE UNCHANGED vars
    BY <1>1, <1>4 DEF vars, serverVars, threadVars, Initialising
<1> QED BY <1>2, <1>3, <1>4 DEF Next, BadRequest, Restart

\* A client is told Ok by a server that hosts its map, by the thread that
\* inserted it, or by one that found another thread at work on it.
LEMMA OkIsPromised ==
    ASSUME Faults = {}, OkInv, [Next]_vars,
           NEW c \in Clients, state'[c] = "ok", state[c] # "ok",
           wants'[c] \in Reliable
    PROVE  Promised(wants[c]) \/ wants[c] \in statemaps'
<1> USE DEF OkInv, ServerInv, Sound
<1>1. ASSUME NEW t \in Threads, ThreadStep(t)
      PROVE  Promised(wants[c]) \/ wants[c] \in statemaps'
  <2>1. CASE clientVars' = clientVars
    BY <2>1 DEF clientVars
  <2>2. CASE Ends(t, "failed")
    BY <2>2 DEF Ends
  <2>3. ASSUME Ends(t, "ok")
        PROVE  wants[c] = job[t] /\ job[t] \in Reliable
    <3>1. conn[c] = t /\ conn[c] # NoThread /\ wants' = wants
      BY <2>3, NoThreadIsNone DEF Ends
    <3> QED BY <3>1 DEF AnsweredByOwn
  <2>4. CASE CheckKnown(t)
    <3>1. wants[c] = job[t] /\ job[t] \in Reliable
      BY <2>3, <2>4 DEF CheckKnown
    <3>2. CASE job[t] \in statemaps
      BY <3>1, <3>2 DEF Promised
    <3>3. CASE job[t] \in processed
      BY <3>1, <3>3 DEF OthersInHand, InHand, Leaky, Reliable, Promised
    <3> QED BY <2>4, <3>2, <3>3 DEF CheckKnown
  <2>5. CASE Insert(t)
    BY <2>3, <2>5 DEF Insert
  <2> QED BY <1>1, <2>1, <2>2, <2>4, <2>5
          DEF ThreadStep, CheckNew, CheckPoisoned, Build, DecodeFails, HashMismatch,
              HookSucceeds, HookFails, HookPanics, InsertPoisoned, clientVars
<1>2. ASSUME NEW d \in Clients, ClientStep(d)
      PROVE  Promised(wants[c])
  <2>1. AnsweredUpdateId(d) /\ d = c
    BY <1>2 DEF ClientStep, Freeze, FreezeAgain, AnsweredUpdateId, AnsweredNotFound,
                AnsweredIncorrectPassword, Disconnect, Becomes, TcpServerTypeOK
  <2> QED BY <2>1 DEF AnsweredUpdateId, Promised
<1>3. CASE UNCHANGED vars
    BY <1>3 DEF vars, clientVars
<1> QED BY <1>1, <1>2, <1>3 DEF Next, BadRequest, Restart

LEMMA OkStep ==
    ASSUME Faults = {}, OkInv, [Next]_vars
    PROVE  OkInv'
<1>1. ServerInv' /\ OthersInHand' /\ Sound' /\ AnsweredByOwn'
    BY InvStep, OthersInHandStep, AnsweredByOwnStep DEF OkInv
<1>2. ASSUME NEW c \in Clients, state'[c] = "ok", wants'[c] \in Reliable
      PROVE  Promised(wants[c])'
  <2>1. wants'[c] = wants[c]
    <3>1. ASSUME NEW m \in Maps, NEW d \in Clients, Freeze(d, m)
          PROVE  wants'[c] = wants[c]
      BY <1>2, <3>1 DEF Freeze, OkInv, ServerInv, TcpServerTypeOK
    <3> QED BY <3>1
            DEF Next, vars, clientVars, BadRequest, Restart, ClientStep, FreezeAgain,
                AnsweredUpdateId, AnsweredIncorrectPassword, AnsweredNotFound,
                Disconnect, Becomes, ThreadStep, CheckKnown, CheckNew, CheckPoisoned,
                Build, DecodeFails, HashMismatch, HookSucceeds, HookFails, HookPanics,
                Insert, InsertPoisoned, Ends
  <2>2. CASE state[c] = "ok"
    <3>1. Promised(wants[c])
      BY <1>2, <2>1, <2>2 DEF OkInv, ReliableInHand, Promised
    <3>2. Promised(wants'[c])
      BY <2>1, <3>1
    <3> QED BY <1>2, <2>1, <3>1, PromisesKept DEF Promised
  <2>3. CASE state[c] # "ok"
    BY <1>2, <2>1, <2>3, OkIsPromised, PromisesKept DEF Promised
  <2> QED BY <2>2, <2>3
<1>3. ReliableInHand'
    BY <1>2 DEF ReliableInHand, Promised, Reliable
<1> QED BY <1>1, <1>3 DEF OkInv

(* As long as the server runs unpoisoned and passwords are right, freeze   *)
(* returns Ok only for a map that is hosted or that a thread is about to   *)
(* host, provided that its initialisation does not fail.                   *)
THEOREM OkIsKept ==
    ASSUME Faults = {}
    PROVE  Spec => []ReliableInHand
<1>1. Init => OkInv
    BY InvInit DEF Init, OkInv, OthersInHand, InHand, Sound, AnsweredByOwn,
                   ReliableInHand
<1>2. OkInv /\ [Next]_vars => OkInv'
    BY OkStep
<1>3. OkInv => ReliableInHand
    BY DEF OkInv
<1> QED BY <1>1, <1>2, <1>3, PTL DEF Spec
=============================================================================

------------------------- MODULE ReplicationProofs --------------------------
(***************************************************************************)
(* Proofs about Replication, for any clients, contents, targets, batches   *)
(* and bounds.  The hosted map is a frozen StateMap whose history begins   *)
(* at its freeze, so what GetDiffProofs shows of get_diff is used for it.  *)
(***************************************************************************)
EXTENDS Replication, DiffProofs, SequenceTheorems

\* No batch is this set: a batch c = NoBatch would be in it iff it is not.
NoBatch == {c \in Contents : c \notin c}

\* The master as the map of StateMapHistory: hosting it freezes it at id 0,
\* and no StateMapModifier outlives the step of a hook.
H == INSTANCE GetDiffProofs
     WITH map        <- master,
          frozenAt   <- 0,
          modifier   <- NoBatch,
          NoModifier <- NoBatch,
          MaxPushes  <- 1

-----------------------------------------------------------------------------
(* The invariants.                                                         *)

\* The hosted map is a frozen one with its history, in which no version lacks
\* a key.
MasterInv ==
    IsHosted => /\ H!HistoryInv
                /\ IsFrozen(master)
                /\ hist[0] = Initial
                /\ \A n \in 0..master.updateId : KeysOf(hist[n]) = Keys

\* Only frozen slaves poll, and a request states the id the slave is still at.
RequestsInv ==
    \A s \in Slaves :
        /\ call[s] # NoCall => s \in frozen
        /\ Asking(s) => /\ call[s].from = slave[s].updateId
                        /\ call[s].upto > call[s].from

ProtocolInv ==
    /\ ReplicationTypeOK
    /\ MasterInv
    /\ RequestsInv
    /\ AnswerFits

\* Without restarts and early sets: a map not yet hosted has its initial
\* version only, a slave is at a version, and an answer leads it to a later one.
VersionsInv ==
    /\ ~IsHosted => /\ hist = [n \in {0} |-> Initial]
                    /\ \A s \in Slaves : ~Answered(s)
    /\ hist[0] = Initial
    /\ \A s \in Slaves :
           /\ slave[s].updateId \in DOMAIN hist
           /\ slave[s].data = hist[slave[s].updateId]
           /\ Answered(s) =>
                  /\ call[s].reply.upto \in slave[s].updateId..master.updateId
                  /\ Overlay(slave[s].data, call[s].reply.changes)
                         = hist[call[s].reply.upto]

-----------------------------------------------------------------------------
(* The operators of the instance.                                          *)

\* What GetDiffProofs assumes of its constants holds of those it is given.
LEMMA HostedAssumptions ==
    /\ Absent \notin Vals
    /\ MaxU64 \in Nat
    /\ NoHash \notin H!Hashes
    /\ NoBatch \notin H!Contents
    /\ 1 \in Nat /\ MaxUpdates \in Nat
<1>1. NoBatch \notin Contents
    BY DEF NoBatch
<1>2. H!Contents = Contents
    BY DEF H!Contents, Contents, H!ValuesOrAbsent, ValuesOrAbsent
<1>3. H!Hashes = Hashes
    BY <1>2 DEF H!Hashes, Hashes
<1> QED BY <1>1, <1>2, <1>3, AbsentIsNoValue, MaxU64IsNat, NoHashIsNoHash,
           MaxUpdatesIsNat

\* The instance defines the operators of StateMapMethods anew, as they are.
LEMMA SameTypes ==
    /\ H!Contents = Contents
    /\ H!Diffs = Diffs
    /\ H!Hashes = Hashes
    /\ H!StateMaps = StateMaps
<1>1. H!Contents = Contents
    BY DEF H!Contents, Contents, H!ValuesOrAbsent, ValuesOrAbsent
<1>2. H!Diffs = Diffs
    BY <1>1 DEF H!Diffs, Diffs
<1>3. H!Hashes = Hashes
    BY <1>1 DEF H!Hashes, Hashes
<1> QED BY <1>1, <1>2, <1>3 DEF H!StateMaps, StateMaps

LEMMA SameMethods ==
    ASSUME NEW m, NEW c, NEW d, NEW n
    PROVE  /\ H!KeysOf(c) = KeysOf(c)
           /\ H!Overlay(c, d) = Overlay(c, d)
           /\ H!FullDiff(c, n) = FullDiff(c, n)
           /\ H!IsFrozen(m) <=> IsFrozen(m)
           /\ H!Committed(m, c) = Committed(m, c)
<1>1. /\ H!KeysOf(c) = KeysOf(c)
      /\ H!IsFrozen(m) <=> IsFrozen(m)
    BY DEF H!KeysOf, KeysOf, H!IsFrozen, IsFrozen
<1>2. \A x, y : H!Overlay(x, y) = Overlay(x, y)
    BY DEF H!Overlay, Overlay
<1>3. \A x, f, a, b : H!NewDiff(x, f, a, b) = NewDiff(x, f, a, b)
    BY DEF H!NewDiff, NewDiff
<1>4. H!FullDiff(c, n) = FullDiff(c, n)
    BY <1>3 DEF H!FullDiff, FullDiff
<1>5. H!Committed(m, c) = Committed(m, c)
    BY <1>2, <1>3 DEF H!Committed, Committed
<1> QED BY <1>1, <1>2, <1>4, <1>5

LEMMA SameGetDiff ==
    ASSUME NEW m, NEW from, NEW upto
    PROVE  H!GetDiff(m, from, upto) = GetDiff(m, from, upto)
BY DEF H!GetDiff, GetDiff, H!StartUnknown, StartUnknown,
       H!TargetUnknown, TargetUnknown, H!FirstDiff, FirstDiff,
       H!LastDiff, LastDiff, H!NotBelow, NotBelow, H!NotAbove, NotAbove,
       H!Merge, Merge, H!LastWritten, LastWritten, H!Writers, Writers,
       H!FullDiff, FullDiff, H!EmptyDiff, EmptyDiff, H!Nothing, Nothing,
       H!NewDiff, NewDiff, H!Max, Max, H!Min, Min

\* A message is a request or an answer, and NoCall is neither.
LEMMA MessagesDiffer ==
    /\ Requests \cap Replies = {}
    /\ NoCall \notin Requests /\ NoCall \notin Replies
<1>1. ASSUME NEW x \in Requests PROVE DOMAIN x = {"from", "upto"}
    BY DEF Requests
<1>2. ASSUME NEW x \in Replies PROVE DOMAIN x = {"reply"}
    BY DEF Replies
<1>3. {"from", "upto"} # {"reply"}
    OBVIOUS
<1> QED BY <1>1, <1>2, <1>3, NoCallIsNoMessage

-----------------------------------------------------------------------------
(* The master.                                                             *)

\* All keys were pushed before the freeze.
LEMMA InitialType ==
    /\ Initial \in Contents
    /\ KeysOf(Initial) = Keys
BY InitialIsWhole, AbsentIsNoValue DEF Contents, ValuesOrAbsent, KeysOf

\* What the server makes of an Init request.
LEMMA HostedFields ==
    LET m == Hosted(Initial)
    IN  /\ m \in StateMaps
        /\ m.data = Initial
        /\ m.updateId = 0
        /\ m.order = [k \in Keys |-> IF Initial[k] = Absent THEN 0 ELSE 1]
        /\ m.hash = CalculateHash(m.order, Initial)
        /\ m.hash # NoHash
        /\ m.diffs = <<FullDiff(Initial, 0)>>
<1> DEFINE o == [k \in Keys |-> IF Initial[k] = Absent THEN 0 ELSE 1]
           n == [NewMap EXCEPT !.data = Initial, !.order = o, !.isMaster = TRUE]
           d == FullDiff(Initial, 0)
<1>1. NewMap \in StateMaps /\ NewMap.updateId = 0 /\ NewMap.diffs = << >>
  <2>1. Nothing \in Contents
    BY DEF Nothing, Contents, ValuesOrAbsent
  <2> QED BY <2>1 DEF NewMap, StateMaps
<1>2. o \in [Keys -> Nat]
    OBVIOUS
<1> HIDE DEF o
<1>3. /\ n \in StateMaps
      /\ n.data = Initial /\ n.order = o /\ n.updateId = 0 /\ n.diffs = << >>
    BY <1>1, <1>2, InitialType DEF StateMaps
<1>4. Hosted(Initial) = Frozen(n)
    BY DEF Hosted, o
<1> HIDE DEF n, d
<1>5. Frozen(n).hash = CalculateHash(o, Initial)
    BY <1>3 DEF Frozen, StateMaps
<1>6. /\ Frozen(n).data = Initial /\ Frozen(n).order = o /\ Frozen(n).updateId = 0
      /\ Frozen(n).diffs = Append(<< >>, d)
    BY <1>3 DEF Frozen, StateMaps, d
<1>7. CalculateHash(o, Initial) \in Hashes
    BY <1>2, InitialType DEF CalculateHash, Hashes
<1>8. d \in Diffs
    BY InitialType DEF FullDiff, NewDiff, Diffs, d
<1>9. Append(<< >>, d) = <<d>> /\ <<d>> \in Seq(Diffs)
    BY <1>8
<1>10. Frozen(n) \in StateMaps
    BY <1>3, <1>6, <1>7, <1>9 DEF Frozen, StateMaps
<1> QED BY <1>4, <1>5, <1>6, <1>7, <1>9, <1>10, NoHashIsNoHash DEF o, d

\* Hosting the map begins its history.
LEMMA HostStep ==
    ASSUME Host
    PROVE  MasterInv' /\ master' \in StateMaps
<1> DEFINE m == master'
<1>1. /\ m = Hosted(Initial) /\ m.data = Initial /\ m.updateId = 0
      /\ m \in StateMaps
      /\ m.order = [k \in Keys |-> IF Initial[k] = Absent THEN 0 ELSE 1]
      /\ m.hash = CalculateHash(m.order, Initial) /\ m.hash # NoHash
      /\ m.diffs = <<FullDiff(Initial, 0)>>
      /\ hist' = [n \in {0} |-> Initial]
    BY HostedFields DEF Host
<1>2. 0..0 = {0} /\ hist'[0] = Initial
    BY <1>1
<1>3. H!IsFrozen(master)'
    BY <1>1, SameMethods DEF IsFrozen, H!IsFrozen
<1> HIDE DEF m
<1>4. H!HistoryTypeOK'
    BY <1>1, <1>2, InitialType, SameTypes
       DEF H!HistoryTypeOK, H!TypeOK, m
<1>5. H!AssertionsHold'
  <2>1. \A k \in Keys : m.order[k] > 0 <=> m.data[k] # Absent
    BY <1>1
  <2> QED BY <2>1 DEF H!AssertionsHold, H!ContainsKey, m
<1>6. H!Current'
    BY <1>1, <1>2, <1>3 DEF H!Current, m
<1>7. H!Layout'
  <2>1. Len(m.diffs) = 1 /\ m.diffs[1] = FullDiff(Initial, 0)
    BY <1>1
  <2>2. 1..0 = {} /\ 0 + 1 = 1 /\ (0 + 2)..(0 + 1) = {}
    OBVIOUS
  <2>3. H!FullDiff(Initial, 0) = FullDiff(Initial, 0)
    BY SameMethods
  <2> QED BY <1>1, <1>2, <1>3, <2>1, <2>2, <2>3
          DEF H!Layout, H!Early, H!Base, H!Later, m
<1>8. H!KeysKnown'
  <2>1. \A i \in 1..Len(m.diffs) : m.diffs[i].changes = Initial
    BY <1>1 DEF FullDiff, NewDiff
  <2>2. m.hash.data = Initial
    BY <1>1 DEF CalculateHash
  <2> QED BY <1>1, <1>2, <2>1, <2>2 DEF H!KeysKnown, H!Versions, H!KeysOf, m
<1>9. H!LastWriteWins'
  <2>1. m.diffs[1].changes = Initial
    BY <1>1 DEF FullDiff, NewDiff
  <2>2. 1..1 = {1}
    OBVIOUS
  <2> QED BY <1>1, <1>2, <2>1, <2>2 DEF H!LastWriteWins, H!Base, H!Writes, m
<1>10. \A n \in 0..m.updateId : KeysOf(hist'[n]) = Keys
    BY <1>1, <1>2, InitialType
<1> QED BY <1>1, <1>2, <1>3, <1>4, <1>5, <1>6, <1>7, <1>8, <1>9, <1>10, SameMethods
        DEF MasterInv, H!HistoryInv, m

\* A write is a commit of the map's history.
LEMMA WriteStep ==
    ASSUME ReplicationTypeOK, MasterInv, NEW c \in Batches, Write(c)
    PROVE  /\ MasterInv' /\ IsHosted'
           /\ master' \in StateMaps
           /\ master'.updateId = master.updateId + 1
           /\ hist' \in [0..master'.updateId -> Contents]
           /\ \A n \in DOMAIN hist : hist'[n] = hist[n]
<1>1. /\ IsHosted /\ H!HistoryInv /\ IsFrozen(master) /\ hist[0] = Initial
      /\ master' = Committed(master, c)
      /\ c \in Contents
    BY BatchesChange DEF Write, MasterInv
<1>2. H!IsFrozen(master) /\ H!Committed(master, c) = Committed(master, c)
    BY <1>1, SameMethods
<1>3. H!HistoryTypeOK /\ H!Current /\ H!KeysKnown
    BY <1>1 DEF H!HistoryInv
<1>4. H!Record
    BY <1>2 DEF Write, H!Record
<1>5. c \in H!Contents /\ master' = H!Committed(master, c)
    BY <1>1, <1>2, SameTypes
<1>6. /\ master'.updateId = master.updateId + 1
      /\ H!IsFrozen(master)'
      /\ hist' \in [0..master'.updateId -> Contents]
      /\ \A n \in H!Versions : hist'[n] = hist[n]
    BY <1>2, <1>3, <1>4, <1>5, H!CommitRecorded, HostedAssumptions, SameTypes
<1>7. H!KeysOf(master.data) = Keys
  <2>1. H!KeysOf(master.data) = H!KeysOf(hist[0])
    BY <1>2, <1>3 DEF H!KeysKnown
  <2> QED BY <1>1, <2>1, InitialType, SameMethods
<1>8. H!KeysOf(c) \subseteq H!KeysOf(master.data)
    BY <1>7 DEF H!KeysOf
<1>9. /\ H!AssertionsHold' /\ H!Current' /\ H!Layout'
      /\ H!KeysKnown' /\ H!LastWriteWins'
    BY <1>1, <1>4, <1>5, <1>8, H!CommitStep, HostedAssumptions
<1>10. master \in StateMaps /\ master.updateId \in Nat /\ hist \in [0..master.updateId -> Contents]
    BY <1>1 DEF ReplicationTypeOK, IsHosted, StateMaps
<1>11. master' \in StateMaps
    BY <1>5, <1>10, H!CommittedType, HostedAssumptions, SameTypes
<1>12. IsHosted' /\ IsFrozen(master)'
    BY <1>6, <1>11, NotHostedNoMap, SameMethods DEF IsHosted
<1>13. H!HistoryTypeOK'
    BY <1>6, <1>11, SameTypes DEF H!HistoryTypeOK, H!TypeOK
<1>14. hist'[0] = Initial
    BY <1>1, <1>6, <1>10 DEF H!Versions
<1>15. ASSUME NEW n \in 0..master'.updateId
       PROVE  KeysOf(hist'[n]) = Keys
  <2>1. CASE n = master'.updateId
    <3>1. hist'[n] = Overlay(master.data, c) /\ master.data \in Contents
      BY <1>1, <1>10, <2>1 DEF Write, Committed, StateMaps
    <3>2. KeysOf(master.data) = Keys /\ KeysOf(c) \subseteq Keys
      BY <1>7, SameMethods DEF KeysOf
    <3> QED BY <1>1, <3>1, <3>2, OverlayKeys
  <2>2. CASE n # master'.updateId
    <3>1. n \in 0..master.updateId
      BY <1>6, <1>10, <2>2
    <3> QED BY <1>1, <1>6, <3>1 DEF MasterInv, H!Versions
  <2> QED BY <2>1, <2>2
<1> QED BY <1>6, <1>9, <1>10, <1>11, <1>12, <1>13, <1>14, <1>15
        DEF MasterInv, H!HistoryInv, H!Versions

-----------------------------------------------------------------------------
(* What the server answers.                                                *)

\* Whatever the slave asks for, the answer starts no later than it is.
LEMMA AnswerStartsInTime ==
    ASSUME MasterInv, IsHosted, NEW from \in Nat, NEW upto \in Nat, upto > from
    PROVE  LET diff == GetDiff(master, from, upto)
           IN  diff \in Diffs /\ diff.from <= from
<1>1. H!HistoryInv /\ H!IsFrozen(master)
    BY SameMethods DEF MasterInv
<1> QED BY <1>1, H!AnswerStarts, HostedAssumptions, SameGetDiff, SameTypes

\* And if the slave is at a version of the master, it leads it to a later one.
LEMMA AnswerLeadsOn ==
    ASSUME ReplicationTypeOK, MasterInv, IsHosted,
           NEW from \in 0..master.updateId, NEW upto \in Nat, upto > from
    PROVE  LET diff == GetDiff(master, from, upto)
           IN  /\ diff.upto \in from..master.updateId
               /\ Overlay(hist[from], diff.changes) = hist[diff.upto]
<1>1. H!HistoryInv /\ H!IsFrozen(master)
    BY SameMethods DEF MasterInv
<1>2. master.updateId \in Nat
    BY DEF ReplicationTypeOK, IsHosted, StateMaps
<1>3. from \in H!Versions /\ from \in Nat /\ upto >= 0
    BY <1>2 DEF H!Versions
<1> DEFINE diff == H!GetDiff(master, from, upto)
<1>4. diff = GetDiff(master, from, upto)
    BY SameGetDiff
<1>5. diff.upto \in H!Least(upto, master.updateId)..master.updateId
    BY <1>1, <1>3, H!AnswerReaches, HostedAssumptions
<1>6. H!Overlay(hist[from], diff.changes) = hist[diff.upto]
    BY <1>1, <1>3, H!AnswerExact, HostedAssumptions
<1>7. H!Overlay(hist[from], diff.changes) = Overlay(hist[from], diff.changes)
    BY SameMethods
<1> HIDE DEF diff
<1>8. diff.upto \in from..master.updateId
    BY <1>2, <1>3, <1>5 DEF H!Least
<1> QED BY <1>4, <1>6, <1>7, <1>8

\* The end of set_update_id.
LEMMA UpdatedType ==
    ASSUME NEW m \in SlaveMaps, NEW diff \in Diffs
    PROVE  /\ Updated(m, diff) \in SlaveMaps
           /\ Updated(m, diff).updateId = diff.upto
           /\ Updated(m, diff).data = Overlay(m.data, diff.changes)
<1>1. m.data \in Contents /\ diff.changes \in Contents /\ diff.upto \in Nat
    BY DEF SlaveMaps, Diffs
<1>2. Overlay(m.data, diff.changes) \in Contents
    BY <1>1, OverlayType
<1> QED BY <1>1, <1>2 DEF Updated, SlaveMaps

-----------------------------------------------------------------------------
(* The steps, for any number of restarts and early sets.                   *)

\* A step that leaves the master and its history alone.
LEMMA SameMaster ==
    ASSUME MasterInv, master' = master, hist' = hist
    PROVE  MasterInv'
<1>1. CASE ~IsHosted
    BY <1>1 DEF MasterInv, IsHosted
<1>2. CASE IsHosted
  <2>1. /\ H!HistoryInv /\ IsFrozen(master) /\ hist[0] = Initial
        /\ \A n \in 0..master.updateId : KeysOf(hist[n]) = Keys
    BY <1>2 DEF MasterInv
  <2>2. H!HistoryTypeOK' /\ H!AssertionsHold'
    BY <2>1 DEF H!HistoryInv, H!HistoryTypeOK, H!TypeOK, H!AssertionsHold, H!ContainsKey
  <2>3. H!Current' /\ H!Layout' /\ H!KeysKnown' /\ H!LastWriteWins'
    BY <2>1, H!SameMap, HostedAssumptions DEF H!HistoryInv
  <2> QED BY <2>1, <2>2, <2>3 DEF MasterInv, IsFrozen, H!HistoryInv
<1> QED BY <1>1, <1>2

\* A call comes to its end; only its slave may have changed.
LEMMA CallEnds ==
    ASSUME ProtocolInv, NEW s \in Slaves,
           call' = [call EXCEPT ![s] = NoCall],
           slave' \in [Slaves -> SlaveMaps],
           \A r \in Slaves : r # s => slave'[r] = slave[r],
           UNCHANGED <<master, frozen, manner, restarts, hist>>
    PROVE  ProtocolInv'
<1> USE DEF ProtocolInv
<1>1. /\ call'[s] = NoCall
      /\ \A r \in Slaves : r # s => call'[r] = call[r]
    BY DEF ReplicationTypeOK
<1>2. ReplicationTypeOK'
    BY DEF ReplicationTypeOK
<1>3. MasterInv'
    BY SameMaster
<1>4. RequestsInv' /\ AnswerFits'
    BY <1>1, MessagesDiffer DEF RequestsInv, AnswerFits, Asking, Answered
<1> QED BY <1>2, <1>3, <1>4

LEMMA ProtocolInit == Init => ProtocolInv
<1> SUFFICES ASSUME Init PROVE ProtocolInv
    OBVIOUS
<1>1. /\ master = NotHosted /\ restarts = 0
      /\ \A s \in Slaves : call[s] = NoCall
    BY DEF Init
<1>2. ReplicationTypeOK
    BY <1>1, InitialType, OtherBoundsNat DEF Init, ReplicationTypeOK, SlaveMaps
<1> QED BY <1>1, <1>2, MessagesDiffer
        DEF ProtocolInv, MasterInv, IsHosted, RequestsInv, AnswerFits, Asking, Answered

LEMMA ProtocolStep ==
    ASSUME ProtocolInv, [Next]_vars
    PROVE  ProtocolInv'
<1> USE DEF ProtocolInv
<1>1. ASSUME NEW s \in Slaves, EarlySet(s)
      PROVE  ProtocolInv'
  <2>1. /\ s \notin frozen /\ call[s] = NoCall
        /\ slave' = [slave EXCEPT ![s].updateId = @ + 1]
        /\ slave \in [Slaves -> SlaveMaps]
        /\ UNCHANGED <<master, frozen, manner, call, restarts, hist>>
    BY <1>1 DEF EarlySet, RequestsInv, ReplicationTypeOK
  <2>2. slave' \in [Slaves -> SlaveMaps]
    BY <2>1 DEF SlaveMaps
  <2>3. \A r \in Slaves : r # s => slave'[r] = slave[r]
    BY <2>1
  <2>4. ReplicationTypeOK'
    BY <2>1, <2>2 DEF ReplicationTypeOK
  <2>5. MasterInv'
    BY <2>1, SameMaster
  <2>6. RequestsInv' /\ AnswerFits'
    BY <2>1, <2>3, MessagesDiffer DEF RequestsInv, AnswerFits, Asking, Answered
  <2> QED BY <2>4, <2>5, <2>6
<1>2. ASSUME NEW s \in Slaves, Freeze(s)
      PROVE  ProtocolInv'
  <2>1. /\ frozen' = frozen \cup {s}
        /\ UNCHANGED <<master, slave, manner, call, restarts, hist>>
    BY <1>2 DEF Freeze
  <2>2. MasterInv'
    BY <2>1, SameMaster
  <2> QED BY <2>1, <2>2
          DEF ReplicationTypeOK, RequestsInv, AnswerFits, Asking, Answered
<1>3. ASSUME NEW s \in Slaves, NEW upto \in TargetsOf(s), Poll(s, upto)
      PROVE  ProtocolInv'
  <2> DEFINE request == [from |-> slave[s].updateId, upto |-> upto]
  <2>1. /\ s \in frozen /\ upto > slave[s].updateId
        /\ call' = [call EXCEPT ![s] = request]
        /\ slave[s].updateId \in Nat /\ s \in DOMAIN call
        /\ UNCHANGED <<master, slave, frozen, manner, restarts, hist>>
    BY <1>3 DEF Poll, ReplicationTypeOK, SlaveMaps
  <2>2. upto \in Nat
    BY <2>1, TargetsAreIds DEF TargetsOf
  <2>3. request \in Requests
    BY <2>1, <2>2 DEF Requests
  <2>4. request.from = slave[s].updateId /\ request.upto = upto
    OBVIOUS
  <2> HIDE DEF request
  <2>5. ReplicationTypeOK'
    BY <2>1, <2>3 DEF ReplicationTypeOK
  <2>6. /\ call'[s] = request
        /\ \A r \in Slaves : r # s => call'[r] = call[r]
    BY <2>1
  <2>7. MasterInv'
    BY <2>1, SameMaster
  <2>8. RequestsInv'
    BY <2>1, <2>4, <2>6 DEF RequestsInv, Asking
  <2>9. AnswerFits'
    BY <2>1, <2>3, <2>6, MessagesDiffer DEF AnswerFits, Answered
  <2> QED BY <2>5, <2>7, <2>8, <2>9
<1>4. ASSUME NEW s \in Slaves, Answer(s)
      PROVE  ProtocolInv'
  <2> DEFINE diff == GetDiff(master, call[s].from, call[s].upto)
             reply == [reply |-> diff]
  <2>1. /\ Asking(s) /\ IsHosted
        /\ call' = [call EXCEPT ![s] = reply] /\ s \in DOMAIN call
        /\ UNCHANGED <<master, slave, frozen, manner, restarts, hist>>
    BY <1>4 DEF Answer, ReplicationTypeOK
  <2>2. /\ call[s].from = slave[s].updateId /\ call[s].upto > call[s].from
        /\ call[s].from \in Nat /\ call[s].upto \in Nat /\ s \in frozen
    BY <2>1, MessagesDiffer DEF RequestsInv, Asking, Requests
  <2>3. diff \in Diffs /\ diff.from <= call[s].from
    BY <2>1, <2>2, AnswerStartsInTime
  <2> HIDE DEF diff
  <2>4. reply \in Replies /\ reply.reply = diff
    BY <2>3 DEF Replies
  <2> HIDE DEF reply
  <2>5. ReplicationTypeOK'
    BY <2>1, <2>4 DEF ReplicationTypeOK
  <2>6. /\ call'[s] = reply
        /\ \A r \in Slaves : r # s => call'[r] = call[r]
    BY <2>1
  <2>7. MasterInv'
    BY <2>1, SameMaster
  <2>8. RequestsInv'
    BY <2>1, <2>2, <2>4, <2>6, MessagesDiffer DEF RequestsInv, Asking
  <2>9. AnswerFits'
    BY <2>1, <2>2, <2>3, <2>4, <2>6 DEF AnswerFits, Answered
  <2> QED BY <2>5, <2>7, <2>8, <2>9
<1>5. ASSUME NEW s \in Slaves, FetchFails(s) \/ Reject(s)
      PROVE  ProtocolInv'
  <2>1. /\ call' = [call EXCEPT ![s] = NoCall]
        /\ UNCHANGED <<master, slave, frozen, manner, restarts, hist>>
    BY <1>5 DEF FetchFails, Reject
  <2>2. slave' \in [Slaves -> SlaveMaps] /\ \A r \in Slaves : slave'[r] = slave[r]
    BY <2>1 DEF ReplicationTypeOK
  <2> QED BY <2>1, <2>2, CallEnds
<1>6. ASSUME NEW s \in Slaves, Apply(s)
      PROVE  ProtocolInv'
  <2>1. /\ Answered(s)
        /\ slave' = [slave EXCEPT ![s] = Updated(@, call[s].reply)]
        /\ call' = [call EXCEPT ![s] = NoCall]
        /\ UNCHANGED <<master, frozen, manner, restarts, hist>>
    BY <1>6 DEF Apply
  <2>2. call[s].reply \in Diffs
    BY <2>1 DEF Answered, Replies
  <2>3. slave \in [Slaves -> SlaveMaps]
    BY DEF ReplicationTypeOK
  <2>4. Updated(slave[s], call[s].reply) \in SlaveMaps
    BY <2>2, <2>3, UpdatedType
  <2>5. /\ slave' \in [Slaves -> SlaveMaps]
        /\ \A r \in Slaves : r # s => slave'[r] = slave[r]
    BY <2>1, <2>3, <2>4
  <2> QED BY <2>1, <2>5, CallEnds
<1>7. CASE Host
  <2>1. /\ MasterInv' /\ master' \in StateMaps
        /\ master'.updateId = 0 /\ hist' = [n \in {0} |-> Initial]
        /\ UNCHANGED <<slave, frozen, manner, call, restarts>>
    BY <1>7, HostStep, HostedFields DEF Host
  <2>2. ReplicationTypeOK'
    BY <2>1, InitialType DEF ReplicationTypeOK
  <2> QED BY <2>1, <2>2 DEF RequestsInv, AnswerFits, Asking, Answered
<1>8. ASSUME NEW c \in Batches, Write(c)
      PROVE  ProtocolInv'
  <2>1. /\ MasterInv' /\ master' \in StateMaps
        /\ hist' \in [0..master'.updateId -> Contents]
    BY <1>8, WriteStep
  <2>2. UNCHANGED <<slave, frozen, manner, call, restarts>>
    BY <1>8 DEF Write
  <2> QED BY <2>1, <2>2
          DEF ReplicationTypeOK, RequestsInv, AnswerFits, Asking, Answered
<1>9. CASE RestartServer
  <2>1. /\ master' = NotHosted /\ restarts' = restarts + 1
        /\ restarts < MaxRestarts
        /\ \A s \in Slaves : call'[s] = IF Asking(s) THEN NoCall ELSE call[s]
        /\ call' \in [Slaves -> Requests \cup Replies \cup {NoCall}]
        /\ UNCHANGED <<slave, frozen, manner, hist>>
    BY <1>9 DEF RestartServer, ReplicationTypeOK
  <2>2. ReplicationTypeOK'
    BY <2>1, OtherBoundsNat DEF ReplicationTypeOK
  <2>3. MasterInv'
    BY <2>1 DEF MasterInv, IsHosted
  <2>4. RequestsInv' /\ AnswerFits'
    BY <2>1, MessagesDiffer DEF RequestsInv, AnswerFits, Asking, Answered
  <2> QED BY <2>2, <2>3, <2>4
<1>10. CASE UNCHANGED vars
  <2>1. MasterInv'
    BY <1>10, SameMaster DEF vars
  <2> QED BY <1>10, <2>1
          DEF vars, ReplicationTypeOK, RequestsInv, AnswerFits, Asking, Answered
<1> QED BY <1>1, <1>2, <1>3, <1>4, <1>5, <1>6, <1>7, <1>8, <1>9, <1>10 DEF Next

-----------------------------------------------------------------------------
(* The steps before the first restart, of slaves that push only.           *)

\* The versions of a hosted map, and of one not yet hosted.
LEMMA VersionNumbers ==
    ASSUME ProtocolInv, VersionsInv
    PROVE  /\ IsHosted => /\ master.updateId \in Nat
                          /\ DOMAIN hist = 0..master.updateId
           /\ ~IsHosted => DOMAIN hist = {0}
           /\ \A n \in DOMAIN hist : n \in Nat /\ hist[n] \in Contents
<1>1. CASE IsHosted
  <2>1. master.updateId \in Nat /\ hist \in [0..master.updateId -> Contents]
    BY <1>1 DEF ProtocolInv, ReplicationTypeOK, IsHosted, StateMaps
  <2> QED BY <1>1, <2>1
<1>2. CASE ~IsHosted
    BY <1>2, InitialType DEF VersionsInv
<1> QED BY <1>1, <1>2

LEMMA VersionsInit == Init => VersionsInv
<1> SUFFICES ASSUME Init PROVE VersionsInv
    OBVIOUS
<1>1. /\ master = NotHosted /\ hist = [n \in {0} |-> Initial]
      /\ \A s \in Slaves : /\ call[s] = NoCall
                            /\ slave[s].data = Initial /\ slave[s].updateId = 0
    BY DEF Init
<1> QED BY <1>1, MessagesDiffer DEF VersionsInv, IsHosted, Answered

\* A call comes to its end; its slave is where it was or at a later version.
LEMMA CallEndsAtVersion ==
    ASSUME ProtocolInv, VersionsInv, NEW s \in Slaves,
           call' = [call EXCEPT ![s] = NoCall],
           slave'[s].updateId \in DOMAIN hist,
           slave'[s].data = hist[slave'[s].updateId],
           \A r \in Slaves : r # s => slave'[r] = slave[r],
           master' = master, hist' = hist
    PROVE  VersionsInv'
<1>1. /\ call'[s] = NoCall
      /\ \A r \in Slaves : r # s => call'[r] = call[r]
    BY DEF ProtocolInv, ReplicationTypeOK
<1>2. \A r \in Slaves : Answered(r)' => r # s /\ Answered(r)
    BY <1>1, MessagesDiffer DEF Answered
<1> QED BY <1>1, <1>2 DEF VersionsInv, IsHosted

LEMMA VersionsStep ==
    ASSUME MaxEarlySets = 0, ProtocolInv, VersionsInv, [Next]_vars
    PROVE  restarts' = 0 => VersionsInv'
<1>0. \A s \in Slaves : slave[s].updateId \in Nat /\ s \in DOMAIN call
    BY DEF ProtocolInv, ReplicationTypeOK, SlaveMaps
<1>1. ASSUME NEW s \in Slaves, EarlySet(s)
      PROVE  FALSE
    BY <1>0, <1>1 DEF EarlySet
<1>2. ASSUME NEW s \in Slaves, Freeze(s)
      PROVE  VersionsInv'
    BY <1>2 DEF Freeze, VersionsInv, IsHosted, Answered
<1>3. ASSUME NEW s \in Slaves, NEW upto \in TargetsOf(s), Poll(s, upto)
      PROVE  VersionsInv'
  <2> DEFINE request == [from |-> slave[s].updateId, upto |-> upto]
  <2>1. /\ call'[s] = request
        /\ \A r \in Slaves : r # s => call'[r] = call[r]
        /\ UNCHANGED <<master, slave, hist>>
    BY <1>0, <1>3 DEF Poll
  <2>2. upto \in Nat
    BY <1>0, TargetsAreIds DEF TargetsOf
  <2>3. request \in Requests
    BY <1>0, <2>2 DEF Requests
  <2> HIDE DEF request
  <2> QED BY <2>1, <2>3, MessagesDiffer DEF VersionsInv, IsHosted, Answered
<1>4. ASSUME NEW s \in Slaves, Answer(s)
      PROVE  VersionsInv'
  <2> DEFINE from == slave[s].updateId
             diff == GetDiff(master, from, call[s].upto)
             reply == [reply |-> diff]
  <2>1. call[s] \in Requests /\ call[s].from = from /\ call[s].upto > from
    BY <1>4 DEF Answer, Asking, ProtocolInv, RequestsInv
  <2>2. /\ IsHosted /\ call[s].upto \in Nat
        /\ call'[s] = reply
        /\ \A r \in Slaves : r # s => call'[r] = call[r]
        /\ UNCHANGED <<master, slave, hist>>
    BY <1>0, <1>4, <2>1 DEF Answer, Requests
  <2>3. from \in 0..master.updateId /\ slave[s].data = hist[from]
    BY <2>2, VersionNumbers DEF VersionsInv
  <2>4. /\ diff.upto \in from..master.updateId
        /\ Overlay(hist[from], diff.changes) = hist[diff.upto]
    BY <2>1, <2>2, <2>3, AnswerLeadsOn DEF ProtocolInv
  <2> HIDE DEF diff
  <2>5. reply.reply = diff
    OBVIOUS
  <2> HIDE DEF reply
  <2> QED BY <2>2, <2>3, <2>4, <2>5 DEF VersionsInv, IsHosted, Answered
<1>5. ASSUME NEW s \in Slaves, FetchFails(s) \/ Reject(s)
      PROVE  VersionsInv'
  <2>1. /\ call' = [call EXCEPT ![s] = NoCall]
        /\ UNCHANGED <<master, slave, hist>>
    BY <1>5 DEF FetchFails, Reject
  <2> QED BY <2>1, CallEndsAtVersion DEF VersionsInv
<1>6. ASSUME NEW s \in Slaves, Apply(s)
      PROVE  VersionsInv'
  <2>1. /\ Answered(s)
        /\ slave' = [slave EXCEPT ![s] = Updated(@, call[s].reply)]
        /\ call' = [call EXCEPT ![s] = NoCall]
        /\ UNCHANGED <<master, hist>>
    BY <1>6 DEF Apply
  <2>2. call[s].reply \in Diffs /\ slave \in [Slaves -> SlaveMaps]
    BY <2>1 DEF Answered, Replies, ProtocolInv, ReplicationTypeOK
  <2>3. /\ slave'[s].updateId = call[s].reply.upto
        /\ slave'[s].data = Overlay(slave[s].data, call[s].reply.changes)
        /\ \A r \in Slaves : r # s => slave'[r] = slave[r]
    BY <2>1, <2>2, UpdatedType
  <2>4. call[s].reply.upto \in DOMAIN hist
    BY <1>0, <2>1, VersionNumbers DEF VersionsInv
  <2>5. slave'[s].data = hist[call[s].reply.upto]
    BY <2>1, <2>3 DEF VersionsInv
  <2> QED BY <2>1, <2>3, <2>4, <2>5, CallEndsAtVersion
<1>7. CASE Host
  <2>1. /\ hist' = hist /\ UNCHANGED <<slave, call>>
        /\ \A s \in Slaves : ~Answered(s)
        /\ master' # NotHosted
    BY <1>7, HostedFields, NotHostedNoMap DEF Host, VersionsInv
  <2> QED BY <2>1 DEF VersionsInv, IsHosted, Answered
<1>8. ASSUME NEW c \in Batches, Write(c)
      PROVE  VersionsInv'
  <2>1. /\ IsHosted /\ IsHosted'
        /\ master'.updateId = master.updateId + 1
        /\ hist' \in [0..master'.updateId -> Contents]
        /\ \A n \in DOMAIN hist : hist'[n] = hist[n]
    BY <1>8, WriteStep DEF ProtocolInv, Write
  <2>2. UNCHANGED <<slave, call>>
    BY <1>8 DEF Write
  <2>3. /\ master.updateId \in Nat
        /\ DOMAIN hist = 0..master.updateId
        /\ DOMAIN hist' = 0..(master.updateId + 1)
    BY <2>1, VersionNumbers
  <2>4. ASSUME NEW s \in Slaves
        PROVE  /\ slave[s].updateId \in DOMAIN hist'
               /\ slave[s].data = hist'[slave[s].updateId]
               /\ Answered(s) =>
                      /\ call[s].reply.upto \in slave[s].updateId..master'.updateId
                      /\ Overlay(slave[s].data, call[s].reply.changes)
                             = hist'[call[s].reply.upto]
    <3>1. slave[s].updateId \in 0..master.updateId
      BY <2>3 DEF VersionsInv
    <3>2. Answered(s) => call[s].reply.upto \in slave[s].updateId..master.updateId
      BY DEF VersionsInv
    <3>3. Answered(s) => call[s].reply.upto \in 0..master.updateId
      BY <2>3, <3>1, <3>2
    <3> QED BY <2>1, <2>3, <3>1, <3>2, <3>3 DEF VersionsInv
  <2>5. hist'[0] = Initial
    BY <2>1, <2>3 DEF VersionsInv
  <2> QED BY <2>1, <2>2, <2>4, <2>5 DEF VersionsInv, Answered
<1>9. CASE RestartServer
  <2>1. restarts \in Nat /\ restarts' = restarts + 1
    BY <1>9, OtherBoundsNat DEF RestartServer, ProtocolInv, ReplicationTypeOK
  <2> QED BY <2>1
<1>10. CASE UNCHANGED vars
    BY <1>10 DEF vars, VersionsInv, IsHosted, Answered
<1> QED BY <1>1, <1>2, <1>3, <1>4, <1>5, <1>6, <1>7, <1>8, <1>9, <1>10 DEF Next

\* A restart is counted for good.
LEMMA RestartsCount ==
    ASSUME ProtocolInv, [Next]_vars, restarts' = 0
    PROVE  restarts = 0
<1>1. restarts \in Nat
    BY OtherBoundsNat DEF ProtocolInv, ReplicationTypeOK
<1>2. restarts' = restarts \/ restarts' = restarts + 1
    BY DEF Next, vars, EarlySet, Freeze, Poll, Answer, FetchFails, Apply, Reject,
           Host, Write, RestartServer
<1> QED BY <1>1, <1>2

-----------------------------------------------------------------------------
(* What the slaves show.                                                   *)

LEMMA SlavesAtVersions ==
    ASSUME ProtocolInv, VersionsInv
    PROVE  SlaveHoldsVersion
BY VersionNumbers DEF SlaveHoldsVersion, VersionsInv, ProtocolInv, ReplicationTypeOK

\* The history of a relay is the full diff of the freeze, whatever it applied.
LEMMA RelayFields ==
    ASSUME NEW s \in Slaves
    PROVE  /\ RelayMap(s).data = slave[s].data
           /\ RelayMap(s).updateId = slave[s].updateId
           /\ RelayMap(s).diffs = <<FullDiff(Initial, 0)>>
BY HostedFields DEF RelayMap, StateMaps

\* A history of one diff.
LEMMA OneDiff ==
    ASSUME NEW d \in Diffs
    PROVE  /\ <<d>> \in Seq(Diffs)
           /\ Len(<<d>>) = 1
           /\ DOMAIN <<d>> = {1}
           /\ <<d>>[1] = d
           /\ SubSeq(<<d>>, 1, 1) = <<d>>
<1>1. /\ <<d>> \in Seq(Diffs) /\ Len(<<d>>) = 1 /\ <<d>>[1] = d
      /\ 1..1 = {1}
    OBVIOUS
<1>2. DOMAIN <<d>> = {1}
    BY <1>1
<1>3. SubSeq(<<d>>, 1, 1) = <<d>>
    BY <1>1, SubSeqFull
<1> QED BY <1>1, <1>2, <1>3

\* Merging that history yields the initial contents, of version 0.
LEMMA MergedFreeze ==
    LET diff == Merge(<<FullDiff(Initial, 0)>>)
    IN  /\ diff.changes = Initial
        /\ diff.upto = 0
        /\ diff.from <= 0
<1> DEFINE d == FullDiff(Initial, 0)
           t == <<d>>
<1>1. d \in Diffs /\ d.changes = Initial /\ d.from = 0 /\ d.upto = 0
    BY InitialType DEF FullDiff, NewDiff, Diffs
<1> HIDE DEF d
<1>2. t \in Seq(Diffs) /\ Len(t) = 1 /\ t[1] = d /\ 1..1 = {1} /\ 2..1 = {}
    BY <1>1
<1> HIDE DEF t
<1>3. /\ Merge(t).upto = t[1].upto
      /\ Merge(t).from <= t[1].from
  <2>1. 1 \in 1..Len(t) /\ \A j \in 1..Len(t) : t[j].upto <= t[1].upto
    BY <1>1, <1>2
  <2> QED BY <1>2, <2>1, MergeIds
<1>4. ASSUME NEW k \in Keys
      PROVE  LastWritten(t, k) = Initial[k]
  <2>1. Initial[k] # Absent
    BY InitialType DEF KeysOf
  <2>2. 1 \in 1..Len(t) /\ t[1].changes[k] # Absent /\ (1 + 1)..Len(t) = {}
    BY <1>1, <1>2, <2>1
  <2> QED BY <1>1, <1>2, <2>2, LastWriterDecides
<1>5. Merge(t).changes = Initial
  <2>1. Merge(t).changes = [k \in Keys |-> LastWritten(t, k)]
    BY DEF Merge, NewDiff
  <2> QED BY <1>4, <2>1, InitialType DEF Contents
<1> QED BY <1>1, <1>2, <1>3, <1>5 DEF t, d

\* What a relay answers: a reader at version 0 is kept there, and every other
\* one gets all of the relay's map.
LEMMA RelayAnswer ==
    ASSUME NEW s \in Slaves, NEW n \in Nat, NEW upto \in Nat, upto > n
    PROVE  GetDiff(RelayMap(s), n, upto)
               = IF n = 0 THEN Merge(<<FullDiff(Initial, 0)>>)
                 ELSE FullDiff(slave[s].data, slave[s].updateId)
<1> DEFINE d == FullDiff(Initial, 0)
           t == <<d>>
<1>1. /\ RelayMap(s).data = slave[s].data
      /\ RelayMap(s).updateId = slave[s].updateId
      /\ RelayMap(s).diffs = t
    BY RelayFields
<1>2. d \in Diffs /\ d.from = 0 /\ d.upto = 0
    BY InitialType DEF FullDiff, NewDiff, Diffs
<1> HIDE DEF d
<1>3. /\ t \in Seq(Diffs) /\ Len(t) = 1 /\ DOMAIN t = {1} /\ t[1] = d
      /\ SubSeq(t, 1, 1) = t
    BY <1>2, OneDiff
<1> HIDE DEF t
<1>4. CASE n = 0
  <2>1. NotBelow(t, n) = {1} /\ NotAbove(t, upto) = {1}
    BY <1>2, <1>3, <1>4 DEF NotBelow, NotAbove
  <2>2. Min({1}) = 1 /\ Max({1}) = 1
    BY MinIs, MaxIs
  <2>3. FirstDiff(t, n) = 1 /\ LastDiff(t, upto) = 1
    BY <2>1, <2>2 DEF FirstDiff, LastDiff
  <2>4. ~StartUnknown(t, n) /\ ~TargetUnknown(t, upto)
    BY <1>2, <1>3, <1>4, <2>1, <2>3 DEF StartUnknown, TargetUnknown
  <2> QED BY <1>1, <1>3, <1>4, <2>3, <2>4 DEF GetDiff, t, d
<1>5. CASE n > 0
  <2>1. StartUnknown(t, n)
    BY <1>2, <1>3, <1>5 DEF StartUnknown
  <2> QED BY <1>1, <1>5, <2>1 DEF GetDiff
<1> QED BY <1>4, <1>5

LEMMA RelaysGiveVersions ==
    ASSUME ProtocolInv, VersionsInv
    PROVE  RelayAnswersAreVersions
<1> SUFFICES ASSUME IsHosted, NEW s \in frozen, NEW n \in DOMAIN hist,
                    NEW upto \in Targets, upto > n
             PROVE  LET diff == GetDiff(RelayMap(s), n, upto)
                    IN  /\ diff.from <= n
                        /\ diff.upto = IF n = 0 THEN 0 ELSE slave[s].updateId
                        /\ Overlay(hist[n], diff.changes) = hist[diff.upto]
    BY DEF RelayAnswersAreVersions
<1> DEFINE diff == GetDiff(RelayMap(s), n, upto)
           id   == slave[s].updateId
<1>1. /\ s \in Slaves /\ n \in Nat /\ upto \in Nat
      /\ hist[n] \in Contents /\ hist[0] = Initial
    BY VersionNumbers, TargetsAreIds
       DEF ProtocolInv, VersionsInv, ReplicationTypeOK
<1>2. diff = IF n = 0 THEN Merge(<<FullDiff(Initial, 0)>>)
             ELSE FullDiff(slave[s].data, id)
    BY <1>1, RelayAnswer
<1> SUFFICES /\ diff.from <= n
             /\ diff.upto = IF n = 0 THEN 0 ELSE id
             /\ Overlay(hist[n], diff.changes) = hist[diff.upto]
    OBVIOUS
<1> HIDE DEF diff
<1>3. CASE n = 0
  <2>1. diff.changes = Initial /\ diff.upto = 0 /\ diff.from <= 0
    BY <1>2, <1>3, MergedFreeze
  <2>2. Overlay(Initial, Initial) = Initial
    BY InitialType DEF Overlay, Contents
  <2> QED BY <1>1, <1>3, <2>1, <2>2
<1>4. CASE n # 0
  <2>1. diff.changes = slave[s].data /\ diff.upto = id /\ diff.from = 0
    BY <1>2, <1>4 DEF FullDiff, NewDiff
  <2>2. /\ id \in 0..master.updateId /\ slave[s].data = hist[id]
        /\ hist[id] \in Contents
    BY <1>1, VersionNumbers DEF VersionsInv
  <2>3. KeysOf(hist[id]) = Keys
    BY <2>2 DEF ProtocolInv, MasterInv
  <2>4. Overlay(hist[n], hist[id]) = hist[id]
    BY <2>2, <2>3 DEF Overlay, KeysOf, Contents
  <2> QED BY <1>1, <1>4, <2>1, <2>2, <2>4
<1> QED BY <1>3, <1>4

-----------------------------------------------------------------------------
(* The abstract store.                                                     *)

LEMMA StoreInitially == Init => Store!StoreInit
BY InitialType DEF Init, Store!StoreInit

\* A write adds a version, an applied answer moves a slave on, and nothing else
\* shows.
LEMMA StoreStep ==
    ASSUME MaxRestarts = 0, MaxEarlySets = 0,
           ProtocolInv, VersionsInv, [Next]_vars
    PROVE  [Store!StoreNext]_(Store!storeVars)
<1>0. \A s \in Slaves : slave[s].updateId \in Nat
    BY DEF ProtocolInv, ReplicationTypeOK, SlaveMaps
<1>1. ASSUME hist' = hist, slave' = slave
      PROVE  UNCHANGED Store!storeVars
    BY <1>1 DEF Store!storeVars
<1>2. ASSUME NEW s \in Slaves, EarlySet(s)
      PROVE  FALSE
    BY <1>0, <1>2 DEF EarlySet
<1>3. ASSUME NEW s \in Slaves,
             \/ Freeze(s) \/ Answer(s) \/ FetchFails(s) \/ Reject(s)
             \/ \E upto \in TargetsOf(s) : Poll(s, upto)
      PROVE  UNCHANGED Store!storeVars
    BY <1>1, <1>3 DEF Freeze, Answer, FetchFails, Reject, Poll
<1>4. ASSUME NEW s \in Slaves, Apply(s)
      PROVE  Store!StoreNext
  <2>1. /\ Answered(s) /\ hist' = hist
        /\ slave' = [slave EXCEPT ![s] = Updated(@, call[s].reply)]
    BY <1>4 DEF Apply
  <2>2. call[s].reply \in Diffs /\ slave \in [Slaves -> SlaveMaps]
    BY <2>1 DEF Answered, Replies, ProtocolInv, ReplicationTypeOK
  <2>3. /\ call[s].reply.upto \in DOMAIN hist
        /\ slave[s].updateId <= call[s].reply.upto
    BY <1>0, <2>1, VersionNumbers DEF VersionsInv
  <2> PICK n \in DOMAIN hist : n = call[s].reply.upto
    BY <2>3
  <2>4. /\ slave'[s].updateId = n
        /\ slave'[s].data = Overlay(slave[s].data, call[s].reply.changes)
        /\ \A r \in Slaves : r # s => slave'[r] = slave[r]
    BY <2>1, <2>2, UpdatedType
  <2>5. slave'[s].data = hist[n]
    BY <2>1, <2>4 DEF VersionsInv
  <2>6. /\ [r \in Slaves |-> slave'[r].updateId]
               = [[r \in Slaves |-> slave[r].updateId] EXCEPT ![s] = n]
        /\ [r \in Slaves |-> slave'[r].data]
               = [[r \in Slaves |-> slave[r].data] EXCEPT ![s] = hist[n]]
    BY <2>4, <2>5
  <2>7. Store!MoveOn(s, n)
    BY <2>1, <2>3, <2>6 DEF Store!MoveOn
  <2> QED BY <2>7 DEF Store!StoreNext
<1>5. CASE Host
    BY <1>1, <1>5 DEF Host, VersionsInv
<1>6. ASSUME NEW c \in Batches, Write(c)
      PROVE  Store!StoreNext
  <2> DEFINE N == master.updateId
  <2>1. /\ IsHosted /\ UNCHANGED slave
        /\ master'.updateId = N + 1
        /\ hist' \in [0..(N + 1) -> Contents]
        /\ \A n \in DOMAIN hist : hist'[n] = hist[n]
    BY <1>6, WriteStep DEF ProtocolInv, Write
  <2>2. N \in Nat /\ DOMAIN hist = 0..N
    BY <2>1, VersionNumbers
  <2> HIDE DEF N
  <2>3. Store!Latest = N
    <3>1. N \in DOMAIN hist /\ N + 1 \notin DOMAIN hist
      BY <2>2
    <3>2. \A n \in DOMAIN hist : n + 1 \notin DOMAIN hist => n = N
      BY <2>2
    <3> QED BY <3>1, <3>2 DEF Store!Latest
  <2>4. /\ DOMAIN hist \cup {N + 1} = 0..(N + 1)
        /\ hist'[N + 1] \in Contents
    BY <2>1, <2>2
  <2>5. Store!Write(hist'[N + 1])
    BY <2>1, <2>2, <2>3, <2>4 DEF Store!Write
  <2> QED BY <2>4, <2>5 DEF Store!StoreNext
<1>7. CASE RestartServer
  <2>1. restarts \in Nat /\ restarts <= 0
    BY DEF ProtocolInv, ReplicationTypeOK
  <2> QED BY <1>7, <2>1 DEF RestartServer
<1>8. CASE UNCHANGED vars
    BY <1>1, <1>8 DEF vars
<1> QED BY <1>2, <1>3, <1>4, <1>5, <1>6, <1>7, <1>8 DEF Next

-----------------------------------------------------------------------------
(* The theorems.                                                           *)

\* The inductive invariant holds of every run, restarts and early sets or not.
THEOREM ProtocolInvariance == Spec => []ProtocolInv
<1>1. ProtocolInv /\ [Next]_vars => ProtocolInv'
    BY ProtocolStep
<1> QED BY <1>1, ProtocolInit, PTL DEF Spec

\* The master, the slaves and what is under way between them keep their types.
THEOREM ReplicationTypeCorrect == Spec => []ReplicationTypeOK
<1>1. ProtocolInv => ReplicationTypeOK
    BY DEF ProtocolInv
<1> QED BY <1>1, ProtocolInvariance, PTL

\* No answer, however late and of whichever incarnation of the map, starts after
\* the id of the slave it is for.
THEOREM AnswersFit == Spec => []AnswerFits
<1>1. ProtocolInv => AnswerFits
    BY DEF ProtocolInv
<1> QED BY <1>1, ProtocolInvariance, PTL

\* Until the server is first restarted, slaves that were never set hold versions.
THEOREM VersionsInvariance ==
    ASSUME MaxEarlySets = 0
    PROVE  Spec => [](restarts = 0 => VersionsInv)
<1>1. Init => (restarts = 0 => VersionsInv)
    BY VersionsInit
<1>2. ProtocolInv /\ (restarts = 0 => VersionsInv) /\ [Next]_vars
      => (restarts = 0 => VersionsInv)'
    BY VersionsStep, RestartsCount
<1> QED BY <1>1, <1>2, ProtocolInvariance, PTL DEF Spec

\* Until then, what a frozen slave shows is the contents the master had at the
\* id of the slave.
THEOREM SlavesHoldVersions ==
    ASSUME MaxEarlySets = 0
    PROVE  Spec => [](restarts = 0 => SlaveHoldsVersion)
<1>1. ProtocolInv /\ (restarts = 0 => VersionsInv) => (restarts = 0 => SlaveHoldsVersion)
    BY SlavesAtVersions
<1> QED BY <1>1, ProtocolInvariance, VersionsInvariance, PTL

\* Until then, what a slave answers as a relay leads its reader to such contents.
THEOREM RelaysHoldVersions ==
    ASSUME MaxEarlySets = 0
    PROVE  Spec => [](restarts = 0 => RelayAnswersAreVersions)
<1>1. ProtocolInv /\ (restarts = 0 => VersionsInv)
      => (restarts = 0 => RelayAnswersAreVersions)
    BY RelaysGiveVersions
<1> QED BY <1>1, ProtocolInvariance, VersionsInvariance, PTL

\* The protocol, without restarts, implements the versioned store.
THEOREM StoreImplemented ==
    ASSUME MaxRestarts = 0, MaxEarlySets = 0
    PROVE  Spec => ImplementsStore
<1>1. ProtocolInv => restarts = 0
    BY DEF ProtocolInv, ReplicationTypeOK
<1>2. ProtocolInv /\ VersionsInv /\ [Next]_vars => [Store!StoreNext]_(Store!storeVars)
    BY StoreStep
<1> QED BY <1>1, <1>2, StoreInitially, ProtocolInvariance, VersionsInvariance, PTL
        DEF Spec, ImplementsStore, Store!StoreSpec
=============================================================================

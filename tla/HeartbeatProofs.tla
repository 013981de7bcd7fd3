--------------------------- MODULE HeartbeatProofs ---------------------------
(***************************************************************************)
(* Proofs about the heartbeat: what becomes of a rollback record, for any  *)
(* number of senders, rollbacks and faults.                                *)
(***************************************************************************)
EXTENDS Heartbeat, TLAPS

-----------------------------------------------------------------------------
(* The strengthening of NewestKept.                                        *)

\* The file only ever holds the last rollback.
RecordIsNewest == record \in {NoRecord, rollbacks}

\* The file is not deleted before its rollback is safe elsewhere.
SafeToDelete ==
  core = "delete" /\ ~crossed => stored = record \/ received[record] > 0

\* What is in local_config while a report is in flight is that report.
OnlyTheReported ==
  \A p \in Reporting : crossed \/ stored \in {NoRecord, sender[p].report}

\* Only what has been reported is going to be cleared.
DeliveredFirst ==
  /\ \A p \in Reporting : sender[p].at # "post" => received[sender[p].report] > 0
  /\ \A p \in Sender : sender[p].at = "clear" => p \in Reporting

KInv ==
  /\ TypeOK
  /\ RecordIsNewest
  /\ SafeToDelete
  /\ OnlyTheReported
  /\ DeliveredFirst
  /\ NewestKept

-----------------------------------------------------------------------------
(* The strengthening of ReportsExplained: what is still to be reported     *)
(* counts like a report.                                                   *)

\* Rollback r is in the file, and not in local_config on its account.
InFile(r) == record = r /\ core # "delete"

\* Sender p is reporting rollback r, and no other sender was when it began.
Alone(p, r) == sender[p].at = "post" /\ sender[p].report = r /\ ~sender[p].shared

\* Sender p has the report of rollback r in its hands: nobody else's cause.
Holds(p, r) ==
  /\ sender[p].report = r
  /\ sender[p].at = "post" => ~sender[p].shared

Sending(r) == \E p \in Sender : Alone(p, r)
InConfig(r) == stored = r /\ \A p \in Sender : ~Holds(p, r)

Bit(b) == IF b THEN 1 ELSE 0
Accounted(r) ==
  received[r] + Bit(InFile(r)) + Bit(InConfig(r)) + Bit(Sending(r)) <= 1 + faults + overlaps

\* Only one report at a time is begun while there is no other.
OneAlone ==
  \A p, q \in Reporting : ~sender[p].shared /\ ~sender[q].shared => p = q

\* A rollback that has not happened has not been reported.
NoneEarly == \A r \in Rollback : r > rollbacks => received[r] = 0

RInv ==
  /\ TypeOK
  /\ OneAlone
  /\ NoneEarly
  /\ \A r \in Rollback : Accounted(r)

-----------------------------------------------------------------------------
(* Type correctness.                                                       *)

SenderState ==
  [at : {"idle", "post", "persist", "clear"}, report : 0..rollbacks,
   licence : 0..licence, shared : BOOLEAN]

\* What a sender may become, fields and the core's own condition.
Fits(p, state) == state \in SenderState' /\ (p = "core" => state = Idle \/ core' = "up")

\* Every sender but p is where it was.
LEMMA SenderStep ==
  ASSUME TypeOK, NEW p \in Sender, NEW state, SenderTo(p, state)
  PROVE  \A q \in Sender : sender'[q] = IF q = p THEN state ELSE sender[q]
  BY DEF SenderTo, TypeOK

\* A step of one sender keeps the types of them all.
LEMMA SenderType ==
  ASSUME TypeOK, NEW p \in Sender, NEW state, SenderTo(p, state), Fits(p, state),
         rollbacks' = rollbacks, licence' = licence,
         core' = core \/ p = "core"
  PROVE  /\ sender' \in [Sender -> SenderState']
         /\ sender'["core"] # Idle => core' = "up"
  <1>1. SenderState' = SenderState
    BY DEF SenderState
  <1>2. sender \in [Sender -> SenderState]
    BY DEF TypeOK, SenderState
  <1>3. sender' \in [Sender -> SenderState']
    BY <1>1, <1>2 DEF SenderTo, Fits
  <1>4. sender'["core"] # Idle => core' = "up"
    BY SenderStep, SenderAssumption DEF Fits, TypeOK
  <1> QED
    BY <1>3, <1>4

\* The fields of a sender.
LEMMA SenderFields ==
  ASSUME TypeOK, NEW p \in Sender
  PROVE  /\ sender[p] \in SenderState
         /\ sender[p].at \in {"idle", "post", "persist", "clear"}
         /\ sender[p].report \in 0..rollbacks
         /\ sender[p].licence \in 0..licence
         /\ sender[p].shared \in BOOLEAN
  BY DEF TypeOK, SenderState

LEMMA TypeInit == Init => TypeOK
  <1> SUFFICES ASSUME Init PROVE TypeOK
    OBVIOUS
  <1>1. /\ rollbacks \in Record /\ licence \in Licence /\ faults \in 0..MaxFaults
        /\ record \in 0..rollbacks /\ stored \in 0..rollbacks /\ cache \in 0..licence
    BY LimitAssumption DEF Init, NoRecord, Record, Licence
  <1>2. received \in [Rollback -> Nat]
    BY DEF Init
  <1>3. /\ sender \in [Sender -> SenderState]
        /\ sender["core"] = Idle
    BY SenderAssumption DEF Init, Idle, SenderState, NoRecord
  <1> QED
    BY <1>1, <1>2, <1>3 DEF Init, TypeOK, SenderState

\* The steps that leave the senders alone: the launcher's and the core's start.
LEMMA StartType ==
  ASSUME TypeOK, RollBack \/ Start \/ TakeOverFails
  PROVE  TypeOK'
  <1>1. CASE RollBack
    <2>1. rollbacks' \in Record /\ rollbacks' = rollbacks + 1 /\ rollbacks \in Nat
      BY <1>1, LimitAssumption DEF RollBack, TypeOK, Record, Rollback, NoRecord
    <2>2. sender' \in [Sender -> SenderState']
      BY <1>1, <2>1 DEF RollBack, TypeOK, SenderState, cloud, history
    <2> QED
      BY <1>1, <2>1, <2>2 DEF RollBack, TypeOK, SenderState, cloud, history, Record, Rollback, NoRecord
  <1>2. CASE StartCore
    BY <1>2 DEF StartCore, TypeOK, local, cloud, history
  <1>3. CASE ReadRecord
    BY <1>3 DEF ReadRecord, TypeOK, local, cloud, history
  <1>4. CASE StoreRecord
    BY <1>4 DEF StoreRecord, TypeOK, cloud
  <1>5. CASE DeleteRecord
    BY <1>5 DEF DeleteRecord, TypeOK, cloud, history, NoRecord, Record, Rollback
  <1>6. CASE TakeOverFails
    BY <1>6, LimitAssumption DEF TakeOverFails, TypeOK, MayFault, local, cloud, history
  <1> QED
    BY <1>1, <1>2, <1>3, <1>4, <1>5, <1>6 DEF Start

LEMMA IdleType == ASSUME TypeOK PROVE Idle \in SenderState
  BY DEF Idle, SenderState, NoRecord, TypeOK, Record, Rollback, Licence

\* What the control plane counts.
LEMMA ReceiveType ==
  ASSUME TypeOK, NEW p \in Sender, Receive(sender[p])
  PROVE  received' \in [Rollback -> Nat] /\ overlaps' \in Nat
  BY SenderFields, LimitAssumption DEF Receive, TypeOK, Rollback, Record, NoRecord

\* What Receive does: counts the report that arrived, and nothing else.
LEMMA Received ==
  ASSUME TypeOK, NEW p \in Sender, Receive(sender[p])
  PROVE  /\ \A r \in Rollback : received'[r] = received[r] + Bit(r = sender[p].report)
         /\ overlaps' = overlaps + Bit(sender[p].shared)
  BY SenderFields DEF Receive, TypeOK, Rollback, NoRecord, Bit

\* What has been counted stays counted.
LEMMA CountsUp ==
  ASSUME TypeOK, NEW p \in Sender, Receive(sender[p])
  PROVE  /\ \A r \in Rollback : received'[r] >= received[r]
         /\ sender[p].report # NoRecord => received'[sender[p].report] > 0
  <1>1. /\ received \in [Rollback -> Nat] /\ received' \in [Rollback -> Nat]
        /\ rollbacks \in 0..MaxRollbacks /\ sender[p].report \in 0..rollbacks
    BY SenderFields, ReceiveType, LimitAssumption DEF TypeOK, Record, Rollback, NoRecord
  <1>2. sender[p].report # NoRecord => sender[p].report \in Rollback
    BY <1>1, LimitAssumption DEF Rollback, NoRecord
  <1> QED
    BY <1>1, <1>2, Received DEF Bit

LEMMA StopType == ASSUME TypeOK, StopCore PROVE TypeOK'
  <1>1. SenderTo("core", Idle) /\ core' = "down" /\ faults' \in 0..MaxFaults
    BY LimitAssumption DEF StopCore, MayFault, TypeOK
  <1>2. UNCHANGED <<rollbacks, record, stored, cache, licence, active, received, crossed, overlaps>>
    BY DEF StopCore, local, cloud, history
  <1>3. Fits("core", Idle) /\ SenderState' = SenderState
    BY <1>2, IdleType DEF Fits, SenderState
  <1>4. sender' \in [Sender -> SenderState'] /\ (sender'["core"] # Idle => core' = "up")
    BY <1>1, <1>2, <1>3, SenderType, SenderAssumption
  <1> QED
    BY <1>1, <1>2, <1>4 DEF TypeOK, SenderState

\* The steps of a heartbeat.
LEMMA SendType ==
  ASSUME TypeOK, NEW p \in Sender,
         BuildPayload(p) \/ SendOnce(p) \/ PostFails(p) \/ StorageFails(p)
           \/ CloseTool(p)
  PROVE  TypeOK'
  <1>1. /\ UNCHANGED <<rollbacks, record, core, licence, active, crossed>>
        /\ SenderState' = SenderState
    BY DEF BuildPayload, SendOnce, PostHeartbeat, PersistLicence, ClearReported, PostFails,
           StorageFails, CloseTool, local, cloud, history, SenderState
  <1>2. Idle \in SenderState
    BY IdleType
  <1>3. sender[p] # Idle => (p = "core" => core = "up")
    BY DEF TypeOK
  <1> DEFINE fits(state) == state \in SenderState /\ (p = "core" => state = Idle \/ core = "up")
  <1>4. SUFFICES /\ \E state : fits(state) /\ SenderTo(p, state)
                 /\ stored' \in 0..rollbacks /\ cache' \in 0..licence
                 /\ received' \in [Rollback -> Nat] /\ overlaps' \in Nat
                 /\ faults' \in 0..MaxFaults
    <2>1. PICK state : fits(state) /\ SenderTo(p, state)
      BY <1>4
    <2>2. sender' \in [Sender -> SenderState'] /\ (sender'["core"] # Idle => core' = "up")
      BY <1>1, <2>1, SenderType DEF Fits
    <2> QED
      BY <1>1, <1>4, <2>2 DEF TypeOK, SenderState
  <1>5. /\ stored \in 0..rollbacks /\ NoRecord \in 0..rollbacks /\ cache \in 0..licence
        /\ received \in [Rollback -> Nat] /\ overlaps \in Nat /\ faults \in 0..MaxFaults
        /\ licence \in 0..licence
    BY LimitAssumption DEF TypeOK, NoRecord, Record, Rollback, Licence
  <1>6. ASSUME NEW kind, MayFault(kind) PROVE faults' \in 0..MaxFaults
    BY <1>5, <1>6, LimitAssumption DEF MayFault
  <1>7. CASE BuildPayload(p)
    <2>1. fits([Idle EXCEPT !.at = "post", !.report = stored,
                            !.shared = stored # NoRecord /\ Reporting # {}])
      BY <1>2, <1>5, <1>7 DEF BuildPayload, SenderState, Idle
    <2> QED
      BY <1>5, <1>7, <2>1 DEF BuildPayload, local, cloud, history
  <1>8. CASE PostHeartbeat(p)
    <2>1. fits([sender[p] EXCEPT !.at = "persist", !.licence = licence]) /\ fits(Idle)
      BY <1>2, <1>3, <1>5, <1>8, SenderFields DEF PostHeartbeat, SenderState, Idle
    <2>2. stored' = stored /\ cache' = cache /\ faults' = faults
      BY <1>8 DEF PostHeartbeat, local
    <2>3. received' \in [Rollback -> Nat] /\ overlaps' \in Nat
      BY <1>5, <1>8, ReceiveType DEF PostHeartbeat
    <2>4. \E state : fits(state) /\ SenderTo(p, state)
      BY <1>8, <2>1 DEF PostHeartbeat
    <2> QED
      BY <1>5, <2>2, <2>3, <2>4
  <1>9. CASE PostFails(p)
    <2>1. received' \in [Rollback -> Nat] /\ overlaps' \in Nat
      BY <1>5, <1>9, ReceiveType DEF PostFails
    <2>2. fits(Idle) /\ SenderTo(p, Idle) /\ stored' = stored /\ cache' = cache
      BY <1>2, <1>9 DEF PostFails, local
    <2>3. faults' \in 0..MaxFaults
      BY <1>6, <1>9 DEF PostFails
    <2> QED
      BY <1>5, <2>1, <2>2, <2>3
  <1>10. ASSUME AfterPersist(p), sender[p] # Idle
         PROVE  \E state : fits(state) /\ SenderTo(p, state)
    <2>1. fits([sender[p] EXCEPT !.at = "clear"])
      BY <1>3, <1>10, SenderFields DEF SenderState
    <2> QED
      BY <1>2, <1>10, <2>1 DEF AfterPersist
  <1>11. CASE PersistLicence(p)
    BY <1>5, <1>10, <1>11, SenderFields
    DEF PersistLicence, Idle, history, cloud
  <1>12. CASE ClearReported(p)
    BY <1>2, <1>5, <1>12 DEF ClearReported, cloud, history
  <1>13. CASE StorageFails(p)
    BY <1>2, <1>5, <1>6, <1>10, <1>13 DEF StorageFails, local, cloud, history, Idle
  <1>14. CASE CloseTool(p)
    BY <1>2, <1>5, <1>6, <1>14 DEF CloseTool, local, cloud, history
  <1> QED
    BY <1>7, <1>8, <1>9, <1>11, <1>12, <1>13, <1>14 DEF SendOnce

LEMMA LicenceType == ASSUME TypeOK, ChangeLicence PROVE TypeOK'
  <1>1. /\ UNCHANGED <<rollbacks, record, stored, cache, core, sender, received, faults,
                       crossed, overlaps>>
        /\ licence' = licence + 1 /\ licence' \in Licence /\ active' \in BOOLEAN
    BY LimitAssumption DEF ChangeLicence, TypeOK, Licence, local, history
  <1>2. licence \in Nat /\ 0..licence \subseteq 0..licence'
    BY <1>1 DEF TypeOK, Licence
  <1>3. sender' \in [Sender -> SenderState']
    BY <1>1, <1>2 DEF TypeOK, SenderState
  <1> QED
    BY <1>1, <1>2, <1>3 DEF TypeOK, SenderState, Rollback

LEMMA TypeStep == ASSUME TypeOK, [Next]_vars PROVE TypeOK'
  <1>1. CASE UNCHANGED vars
    BY <1>1 DEF vars, local, cloud, history, TypeOK
  <1>2. CASE Next
    BY <1>2, StartType, StopType, SendType, LicenceType DEF Next
  <1> QED
    BY <1>1, <1>2

\* Type correctness of the heartbeat, the core's start and the control plane.
THEOREM TypeCorrect == Spec => []TypeOK
  <1>1. Init => TypeOK
    BY TypeInit
  <1>2. TypeOK /\ [Next]_vars => TypeOK'
    BY TypeStep
  <1> QED
    BY <1>1, <1>2, PTL DEF Spec

-----------------------------------------------------------------------------
(* The last rollback is kept.                                              *)

KParts == RecordIsNewest /\ SafeToDelete /\ OnlyTheReported /\ DeliveredFirst /\ NewestKept

LEMMA KInit == Init => KInv
  <1> SUFFICES ASSUME Init PROVE KInv
    OBVIOUS
  <1>1. Reporting = {}
    BY DEF Init, Reporting, Idle
  <1> QED
    BY <1>1, TypeInit DEF Init, Idle, KInv, RecordIsNewest, SafeToDelete, OnlyTheReported,
                          DeliveredFirst, NewestKept

\* The launcher and the start of the core.
LEMMA KStart ==
  ASSUME KInv, TypeOK', RollBack \/ Start \/ TakeOverFails
  PROVE  KParts'
  <1>1. Reporting' = Reporting /\ UNCHANGED <<sender, received>>
    BY DEF RollBack, Start, StartCore, ReadRecord, StoreRecord, DeleteRecord, TakeOverFails,
           Reporting, local, cloud, history
  <1>2. DeliveredFirst'
    BY <1>1 DEF KInv, DeliveredFirst
  <1>3. OnlyTheReported'
    <2>1. CASE StoreRecord
      BY <1>1, <2>1 DEF StoreRecord, OnlyTheReported
    <2>2. CASE ~StoreRecord
      <3>1. stored' = stored /\ crossed' = crossed
        BY <2>2 DEF RollBack, Start, StartCore, ReadRecord, DeleteRecord, TakeOverFails,
                    local, history
      <3> QED
        BY <1>1, <3>1 DEF KInv, OnlyTheReported
    <2> QED
      BY <2>1, <2>2
  <1>4. RecordIsNewest' /\ SafeToDelete' /\ NewestKept'
    <2>1. CASE RollBack
      BY <2>1 DEF RollBack, RecordIsNewest, SafeToDelete, NewestKept, Kept
    <2>2. CASE StartCore
      BY <1>1, <2>2 DEF KInv, StartCore, RecordIsNewest, SafeToDelete, NewestKept, Kept, local, history
    <2>3. CASE ReadRecord
      BY <1>1, <2>3 DEF KInv, ReadRecord, RecordIsNewest, SafeToDelete, NewestKept, Kept, local, history
    <2>4. CASE StoreRecord
      BY <1>1, <2>4 DEF KInv, TypeOK, StoreRecord, RecordIsNewest, SafeToDelete, NewestKept, Kept
    <2>5. CASE DeleteRecord
      BY <1>1, <2>5 DEF KInv, TypeOK, DeleteRecord, RecordIsNewest, SafeToDelete, NewestKept, Kept,
                        history
    <2>6. CASE TakeOverFails
      BY <1>1, <2>6 DEF KInv, TakeOverFails, RecordIsNewest, SafeToDelete, NewestKept, Kept, local,
                        history
    <2> QED
      BY <2>1, <2>2, <2>3, <2>4, <2>5, <2>6 DEF Start
  <1> QED
    BY <1>2, <1>3, <1>4 DEF KParts

\* A sender's step that leaves the record and local_config alone, and takes
\* nothing back the control plane has counted.
LEMMA KSend ==
  ASSUME KInv, NEW p \in Sender, NEW state, SenderTo(p, state),
         UNCHANGED <<rollbacks, record, stored, crossed>>,
         core' = core \/ core' = "down",
         \A r \in Rollback : received'[r] >= received[r],
         received' \in [Rollback -> Nat],
         state.report \in {NoRecord, sender[p].report, stored},
         state.report # NoRecord /\ state.at # "post" => received'[state.report] > 0,
         state.at = "clear" => state.report # NoRecord
  PROVE  KParts'
  <1>1. \A q \in Sender : sender'[q] = IF q = p THEN state ELSE sender[q]
    BY SenderStep DEF KInv
  <1>2. Reporting' \subseteq Reporting \cup {p}
    BY <1>1 DEF Reporting
  <1>3. \A r \in Rollback : received[r] > 0 => received'[r] > 0
    BY DEF KInv, TypeOK
  <1>4. /\ \A q \in Sender : sender[q].report # NoRecord => sender[q].report \in Rollback
        /\ record # NoRecord => record \in Rollback
        /\ rollbacks > 0 => rollbacks \in Rollback
    <2>1. rollbacks \in 0..MaxRollbacks /\ record \in 0..rollbacks
      BY LimitAssumption DEF KInv, TypeOK, Record, Rollback, NoRecord
    <2>2. \A q \in Sender : sender[q].report \in 0..rollbacks
      BY SenderFields DEF KInv
    <2> QED
      BY <2>1, <2>2, LimitAssumption DEF Rollback, NoRecord
  <1>5. DeliveredFirst'
    <2>1. ASSUME NEW q \in Reporting', sender'[q].at # "post"
          PROVE  received'[sender'[q].report] > 0
      <3>1. CASE q = p
        BY <1>1, <2>1, <3>1 DEF Reporting
      <3>2. CASE q # p
        <4>1. sender'[q] = sender[q] /\ q \in Reporting /\ sender[q].report \in Rollback
          BY <1>1, <1>2, <1>4, <2>1, <3>2 DEF Reporting
        <4>2. received[sender[q].report] > 0
          BY <2>1, <4>1 DEF KInv, DeliveredFirst
        <4> QED
          BY <1>3, <4>1, <4>2
      <3> QED
        BY <3>1, <3>2
    <2>2. ASSUME NEW q \in Sender, sender'[q].at = "clear"
          PROVE  q \in Reporting'
      BY <1>1, <2>2 DEF KInv, DeliveredFirst, Reporting
    <2> QED
      BY <2>1, <2>2 DEF DeliveredFirst
  <1>6. OnlyTheReported'
    BY <1>1, <1>2 DEF KInv, OnlyTheReported, Reporting
  <1>7. RecordIsNewest' /\ NewestKept'
    BY <1>3, <1>4 DEF KInv, RecordIsNewest, NewestKept, Kept
  <1>8. SafeToDelete'
    BY <1>3, <1>4 DEF KInv, TypeOK, SafeToDelete
  <1> QED
    BY <1>5, <1>6, <1>7, <1>8 DEF KParts

\* A reported rollback is deleted.
LEMMA KClear ==
  ASSUME KInv, NEW p \in Sender, ClearReported(p)
  PROVE  KParts'
  <1>1. \A q \in Sender : sender'[q] = IF q = p THEN Idle ELSE sender[q]
    BY SenderStep DEF KInv, ClearReported
  <1>2. /\ UNCHANGED <<rollbacks, record, core, crossed, received>>
        /\ stored' = NoRecord
    BY DEF ClearReported, cloud, history
  <1>3. Reporting' = Reporting \ {p}
    BY <1>1 DEF Reporting, Idle
  <1>4. DeliveredFirst' /\ OnlyTheReported' /\ RecordIsNewest'
    <2>1. \A q \in Sender : q # p => sender'[q] = sender[q]
      BY <1>1
    <2>2. sender'[p].at = "idle"
      BY <1>1 DEF Idle
    <2>3. DeliveredFirst'
      BY <1>2, <1>3, <2>1, <2>2 DEF KInv, DeliveredFirst, Reporting
    <2> QED
      BY <1>2, <1>3, <2>3 DEF KInv, OnlyTheReported, RecordIsNewest
  <1>5. ~crossed /\ stored # NoRecord => received[stored] > 0
    <2>1. p \in Reporting /\ sender[p].at # "post"
      BY DEF KInv, DeliveredFirst, ClearReported
    <2>2. received[sender[p].report] > 0
      BY <2>1 DEF KInv, DeliveredFirst
    <2> QED
      BY <2>1, <2>2 DEF KInv, OnlyTheReported
  <1>6. NewestKept' /\ SafeToDelete'
    BY <1>2, <1>5 DEF KInv, TypeOK, NewestKept, Kept, SafeToDelete, NoRecord
  <1> QED
    BY <1>4, <1>6 DEF KParts

LEMMA KStep == ASSUME KInv, [Next]_vars PROVE KInv'
  <1>1. TypeOK'
    BY TypeStep DEF KInv
  <1> SUFFICES KParts'
    BY <1>1 DEF KInv, KParts
  <1>2. CASE UNCHANGED vars
    BY <1>2 DEF vars, local, cloud, history, KInv, KParts, RecordIsNewest, SafeToDelete,
                OnlyTheReported, DeliveredFirst, NewestKept, Kept, Reporting
  <1>3. CASE RollBack \/ Start \/ TakeOverFails
    BY <1>1, <1>3, KStart
  <1>4. CASE StopCore
    <2>1. /\ SenderTo("core", Idle) /\ core' = "down"
          /\ UNCHANGED <<rollbacks, record, stored, crossed, received>>
      BY <1>4 DEF StopCore, local, cloud, history
    <2> QED
      BY <2>1, KSend, SenderAssumption DEF KInv, TypeOK, Idle
  <1>5. CASE ChangeLicence
    BY <1>5 DEF ChangeLicence, local, history, KInv, KParts, RecordIsNewest, SafeToDelete,
                OnlyTheReported, DeliveredFirst, NewestKept, Kept, Reporting
  <1>6. ASSUME NEW p \in Sender, BuildPayload(p) \/ SendOnce(p) \/ PostFails(p) \/ StorageFails(p)
           \/ CloseTool(p)
        PROVE  KParts'
    <2>1. CASE ClearReported(p)
      BY <2>1, KClear
    <2>2. CASE BuildPayload(p)
      <3> DEFINE state == [Idle EXCEPT !.at = "post", !.report = stored,
                             !.shared = stored # NoRecord /\ Reporting # {}]
      <3>1. SenderTo(p, state) /\ UNCHANGED <<rollbacks, record, stored, crossed, received, core>>
        BY <2>2 DEF BuildPayload, local, cloud, history
      <3>2. state.report = stored /\ state.at = "post"
        BY DEF Idle
      <3> HIDE DEF state
      <3> QED
        BY <3>1, <3>2, KSend DEF KInv, TypeOK
    <2>3. ASSUME Receive(sender[p])
          PROVE  /\ received' \in [Rollback -> Nat]
                 /\ \A r \in Rollback : received'[r] >= received[r]
                 /\ sender[p].report # NoRecord => received'[sender[p].report] > 0
      BY <2>3, ReceiveType, CountsUp DEF KInv
    <2>4. CASE PostHeartbeat(p)
      <3>1. UNCHANGED <<rollbacks, record, stored, crossed, core>>
        BY <2>4 DEF PostHeartbeat, local
      <3>2. CASE active
        <4>1. PICK state : /\ SenderTo(p, state)
                           /\ state.report = sender[p].report /\ state.at = "persist"
          <5> DEFINE state == [sender[p] EXCEPT !.at = "persist", !.licence = licence]
          <5>1. SenderTo(p, state)
            BY <2>4, <3>2 DEF PostHeartbeat
          <5>2. state.report = sender[p].report /\ state.at = "persist"
            BY SenderFields DEF KInv, SenderState
          <5> HIDE DEF state
          <5> QED
            BY <5>1, <5>2
        <4>2. Receive(sender[p])
          BY <2>4, <3>2 DEF PostHeartbeat
        <4> QED
          BY <2>3, <3>1, <4>1, <4>2, KSend
      <3>3. CASE ~active
        <4>1. SenderTo(p, Idle) /\ received' = received
          BY <2>4, <3>3 DEF PostHeartbeat
        <4> QED
          BY <3>1, <4>1, KSend DEF KInv, TypeOK, Idle
      <3> QED
        BY <3>2, <3>3
    <2>5. CASE PostFails(p)
      <3>1. UNCHANGED <<rollbacks, record, stored, crossed, core>> /\ SenderTo(p, Idle)
        BY <2>5 DEF PostFails, local
      <3>2. CASE Receive(sender[p])
        BY <2>3, <3>1, <3>2, KSend DEF Idle
      <3>3. CASE received' = received
        BY <3>1, <3>3, KSend DEF KInv, TypeOK, Idle
      <3> QED
        BY <2>5, <3>2, <3>3 DEF PostFails
    <2>6. ASSUME AfterPersist(p), sender[p].at = "persist",
                 UNCHANGED <<rollbacks, record, stored, crossed, core, received>>
          PROVE  KParts'
      <3>1. CASE sender[p].report = NoRecord
        BY <2>6, <3>1, KSend DEF AfterPersist, KInv, TypeOK, Idle
      <3>2. CASE sender[p].report # NoRecord
        <4>1. [sender[p] EXCEPT !.at = "clear"].report = sender[p].report
          BY SenderFields DEF KInv, SenderState
        <4>2. received[sender[p].report] > 0
          BY <2>6, <3>2 DEF KInv, DeliveredFirst, Reporting
        <4> QED
          BY <2>6, <3>2, <4>1, <4>2, KSend DEF AfterPersist, KInv, TypeOK
      <3> QED
        BY <3>1, <3>2
    <2>7. CASE PersistLicence(p)
      BY <2>6, <2>7 DEF PersistLicence, cloud, history
    <2>8. CASE StorageFails(p)
      <3>1. UNCHANGED <<rollbacks, record, stored, crossed, core, received>>
        BY <2>8 DEF StorageFails, local, cloud, history
      <3>2. CASE SenderTo(p, Idle)
        BY <3>1, <3>2, KSend DEF KInv, TypeOK, Idle
      <3> QED
        BY <2>6, <2>8, <3>1, <3>2 DEF StorageFails
    <2>9. CASE CloseTool(p)
      <3>1. SenderTo(p, Idle) /\ UNCHANGED <<rollbacks, record, stored, crossed, core, received>>
        BY <2>9 DEF CloseTool, local, cloud, history
      <3> QED
        BY <3>1, KSend DEF KInv, TypeOK, Idle
    <2> QED
      BY <1>6, <2>1, <2>2, <2>4, <2>5, <2>7, <2>8, <2>9 DEF SendOnce
  <1> QED
    BY <1>2, <1>3, <1>4, <1>5, <1>6 DEF Next

\* The last rollback is on the station or with the control plane, whatever
\* fails and wherever the core stops, as long as no record is stored while a
\* report is in flight (takeOverRollbackRecord, sync.go:452).
THEOREM KeepsTheNewest == Spec => []NewestKept
  <1>1. Init => KInv
    BY KInit
  <1>2. KInv /\ [Next]_vars => KInv'
    BY KStep
  <1>3. KInv => NewestKept
    BY DEF KInv
  <1> QED
    BY <1>1, <1>2, <1>3, PTL DEF Spec

-----------------------------------------------------------------------------
(* Each report has a cause.                                                *)

LEMMA Numbers ==
  ASSUME TypeOK
  PROVE  /\ rollbacks \in 0..MaxRollbacks /\ record \in 0..rollbacks /\ stored \in 0..rollbacks
         /\ faults \in Nat /\ overlaps \in Nat
         /\ \A r \in Rollback : r \in Nat /\ r # NoRecord /\ received[r] \in Nat
         /\ \A p \in Sender : sender[p].report \in 0..rollbacks
  BY SenderFields, LimitAssumption DEF TypeOK, Record, Rollback, NoRecord

LEMMA RInit == Init => RInv
  <1> SUFFICES ASSUME Init PROVE RInv
    OBVIOUS
  <1>1. Reporting = {}
    BY DEF Init, Reporting, Idle
  <1>2. ASSUME NEW r \in Rollback PROVE Accounted(r)
    <2>1. ~InFile(r) /\ ~InConfig(r) /\ ~Sending(r)
      BY <1>2 DEF Init, InFile, InConfig, Sending, Alone, Idle, NoRecord, Rollback
    <2> QED
      BY <2>1 DEF Init, Accounted, Bit
  <1> QED
    BY <1>1, <1>2, TypeInit DEF Init, RInv, OneAlone, NoneEarly

\* When the account of a rollback still balances after a step.
LEMMA Balance ==
  ASSUME TypeOK, TypeOK', NEW r \in Rollback, Accounted(r),
         received'[r] + Bit(InFile(r)') + Bit(InConfig(r)') + Bit(Sending(r)') + faults + overlaps
           <= received[r] + Bit(InFile(r)) + Bit(InConfig(r)) + Bit(Sending(r)) + faults' + overlaps'
  PROVE  Accounted(r)'
  <1>1. /\ received[r] \in Nat /\ received'[r] \in Nat
        /\ faults \in Nat /\ faults' \in Nat /\ overlaps \in Nat /\ overlaps' \in Nat
    BY Numbers, LimitAssumption DEF TypeOK
  <1> QED
    BY <1>1 DEF Accounted, Bit

\* The launcher and the start of the core.
LEMMA RStart ==
  ASSUME RInv, TypeOK', RollBack \/ Start \/ TakeOverFails
  PROVE  RInv'
  <1>1. UNCHANGED <<sender, received, overlaps>>
    BY DEF RollBack, Start, StartCore, ReadRecord, StoreRecord, DeleteRecord, TakeOverFails,
           local, cloud, history
  <1>2. OneAlone'
    BY <1>1 DEF RInv, OneAlone, Reporting
  <1>3. NoneEarly'
    <2>1. rollbacks' >= rollbacks
      BY Numbers DEF RInv, RollBack, Start, StartCore, ReadRecord, StoreRecord, DeleteRecord, TakeOverFails
    <2> QED
      BY <1>1, <2>1, Numbers, TypeOK' DEF RInv, NoneEarly, Rollback, TypeOK, Record, NoRecord
  <1>4. ASSUME NEW r \in Rollback PROVE Accounted(r)'
    <2>1. /\ Sending(r)' <=> Sending(r)
          /\ (\A p \in Sender : ~Holds(p, r))' <=> \A p \in Sender : ~Holds(p, r)
      BY <1>1 DEF Sending, Alone, Holds
    <2>2. Accounted(r)
      BY DEF RInv
    <2>3. CASE RollBack
      <3>1. UNCHANGED <<stored, core, faults>> /\ record' = rollbacks + 1 /\ core = "down"
        BY <2>3 DEF RollBack, local
      <3>2. CASE r # rollbacks + 1
        <4>1. InFile(r)' => InFile(r)
          BY <3>1, <3>2 DEF InFile
        <4>2. InConfig(r)' <=> InConfig(r)
          BY <2>1, <3>1 DEF InConfig
        <4> QED
          BY <1>1, <2>1, <2>2, <3>1, <4>1, <4>2, Balance, Numbers DEF RInv, Bit
      <3>3. CASE r = rollbacks + 1
        <4>1. received[r] = 0 /\ ~InConfig(r) /\ ~Sending(r)
          BY <3>3, Numbers DEF RInv, NoneEarly, InConfig, Sending, Alone
        <4>2. ~InConfig(r)' /\ ~Sending(r)'
          BY <2>1, <3>1, <4>1 DEF InConfig
        <4> QED
          BY <1>1, <3>1, <4>1, <4>2, Numbers DEF RInv, Accounted, Bit
      <3> QED
        BY <3>2, <3>3
    <2>4. CASE StoreRecord
      <3>1. UNCHANGED <<record, faults>> /\ stored' = record /\ core = "store" /\ core' = "delete"
        BY <2>4 DEF StoreRecord
      <3>2. ~InFile(r)' /\ (InConfig(r)' => InFile(r))
        BY <3>1 DEF InFile, InConfig
      <3> QED
        BY <1>1, <2>1, <2>2, <3>1, <3>2, Balance, Numbers DEF RInv, Bit
    <2>5. CASE StartCore \/ ReadRecord \/ DeleteRecord
      <3>1. UNCHANGED <<stored, faults>>
        BY <2>5 DEF StartCore, ReadRecord, DeleteRecord, local
      <3>2. InFile(r)' => InFile(r)
        BY <2>5, Numbers DEF RInv, InFile, StartCore, ReadRecord, DeleteRecord, local
      <3>3. InConfig(r)' <=> InConfig(r)
        BY <2>1, <3>1 DEF InConfig
      <3> QED
        BY <1>1, <2>1, <2>2, <3>1, <3>2, <3>3, Balance, Numbers DEF RInv, Bit
    <2>6. CASE TakeOverFails
      <3>1. UNCHANGED stored /\ faults' = faults + 1
        BY <2>6 DEF TakeOverFails, MayFault, local
      <3>2. InConfig(r)' <=> InConfig(r)
        BY <2>1, <3>1 DEF InConfig
      <3> QED
        BY <1>1, <2>1, <2>2, <3>1, <3>2, Balance, Numbers DEF RInv, Bit
    <2> QED
      BY <2>3, <2>4, <2>5, <2>6 DEF Start
  <1> QED
    BY <1>2, <1>3, <1>4 DEF RInv

\* What a step of sender p means for who holds the report of rollback r.
HoldsAs(state, r) == state.report = r /\ (state.at = "post" => ~state.shared)
AloneAs(state, r) == state.at = "post" /\ state.report = r /\ ~state.shared
OtherHolds(p, r) == \E q \in Sender \ {p} : Holds(q, r)
OtherAlone(p, r) == \E q \in Sender \ {p} : Alone(q, r)

LEMMA Hands ==
  ASSUME RInv, NEW p \in Sender, NEW state, SenderTo(p, state), NEW r \in Rollback
  PROVE  /\ Sending(r) <=> Alone(p, r) \/ OtherAlone(p, r)
         /\ Sending(r)' <=> AloneAs(state, r) \/ OtherAlone(p, r)
         /\ InConfig(r) <=> stored = r /\ ~Holds(p, r) /\ ~OtherHolds(p, r)
         /\ InConfig(r)' <=> stored' = r /\ ~HoldsAs(state, r) /\ ~OtherHolds(p, r)
         /\ Alone(p, r) => ~OtherAlone(p, r)
         /\ OtherAlone(p, r) => OtherHolds(p, r)
  <1>1. \A q \in Sender : sender'[q] = IF q = p THEN state ELSE sender[q]
    BY SenderStep DEF RInv
  <1>2. /\ Sending(r) <=> Alone(p, r) \/ OtherAlone(p, r)
        /\ InConfig(r) <=> stored = r /\ ~Holds(p, r) /\ ~OtherHolds(p, r)
        /\ OtherAlone(p, r) => OtherHolds(p, r)
    BY DEF Sending, OtherAlone, InConfig, OtherHolds, Alone, Holds
  <1>3. /\ Sending(r)' <=> AloneAs(state, r) \/ OtherAlone(p, r)
        /\ InConfig(r)' <=> stored' = r /\ ~HoldsAs(state, r) /\ ~OtherHolds(p, r)
    BY <1>1 DEF Sending, OtherAlone, InConfig, OtherHolds, Alone, Holds, AloneAs, HoldsAs
  <1>4. Alone(p, r) => ~OtherAlone(p, r)
    BY Numbers DEF RInv, OneAlone, Reporting, Alone, OtherAlone
  <1> QED
    BY <1>2, <1>3, <1>4

\* Whoever begins a report while there is another does not begin it alone.
LEMMA StaysAlone ==
  ASSUME RInv, NEW p \in Sender, NEW state, SenderTo(p, state),
         state.report = NoRecord \/ state.shared \/ Reporting = {}
           \/ (state.report = sender[p].report /\ state.shared = sender[p].shared)
  PROVE  OneAlone'
  <1>1. \A q \in Sender : sender'[q] = IF q = p THEN state ELSE sender[q]
    BY SenderStep DEF RInv
  <1>2. Reporting' \subseteq Reporting \cup {p}
    BY <1>1 DEF Reporting
  <1> QED
    BY <1>1, <1>2 DEF RInv, OneAlone, Reporting

\* A rollback that is reported has happened.
LEMMA NotEarly ==
  ASSUME RInv, NEW p \in Sender, rollbacks' = rollbacks,
         Receive(sender[p]) \/ received' = received
  PROVE  NoneEarly'
  <1>1. CASE received' = received
    BY <1>1 DEF RInv, NoneEarly
  <1>2. CASE Receive(sender[p])
    BY <1>2, Received, Numbers DEF RInv, NoneEarly, Bit
  <1> QED
    BY <1>1, <1>2

\* A step of one sender; what it must do for the account of a rollback.
LEMMA RSend ==
  ASSUME RInv, TypeOK', NEW p \in Sender, NEW state, SenderTo(p, state),
         rollbacks' = rollbacks,
         Receive(sender[p]) \/ received' = received,
         state.report = NoRecord \/ state.shared \/ Reporting = {}
           \/ (state.report = sender[p].report /\ state.shared = sender[p].shared),
         \A r \in Rollback :
           received'[r] + Bit(InFile(r)') + Bit(stored' = r /\ ~HoldsAs(state, r) /\ ~OtherHolds(p, r))
               + Bit(AloneAs(state, r) \/ OtherAlone(p, r)) + faults + overlaps
             <= received[r] + Bit(InFile(r)) + Bit(stored = r /\ ~Holds(p, r) /\ ~OtherHolds(p, r))
               + Bit(Alone(p, r) \/ OtherAlone(p, r)) + faults' + overlaps'
  PROVE  RInv'
  <1>1. OneAlone'
    BY StaysAlone
  <1>2. NoneEarly'
    BY NotEarly
  <1>3. ASSUME NEW r \in Rollback PROVE Accounted(r)'
    <2>1. /\ Bit(Sending(r)) = Bit(Alone(p, r) \/ OtherAlone(p, r))
          /\ Bit(Sending(r)') = Bit(AloneAs(state, r) \/ OtherAlone(p, r))
      BY Hands DEF Bit
    <2>2. /\ Bit(InConfig(r)) = Bit(stored = r /\ ~Holds(p, r) /\ ~OtherHolds(p, r))
          /\ Bit(InConfig(r)') = Bit(stored' = r /\ ~HoldsAs(state, r) /\ ~OtherHolds(p, r))
      BY Hands DEF Bit
    <2>3. TypeOK /\ Accounted(r)
      BY DEF RInv
    <2> QED
      BY <2>1, <2>2, <2>3, Balance
  <1> QED
    BY <1>1, <1>2, <1>3 DEF RInv

\* What is known of the report of one rollback before a step of sender p.
LEMMA Before ==
  ASSUME RInv, NEW p \in Sender, NEW r \in Rollback
  PROVE  /\ Alone(p, r) => Holds(p, r) /\ ~OtherAlone(p, r)
         /\ OtherAlone(p, r) => OtherHolds(p, r)
         /\ Holds(p, r) <=> sender[p].report = r /\ ~(sender[p].at = "post" /\ sender[p].shared)
         /\ received[r] \in Nat /\ faults \in Nat /\ overlaps \in Nat /\ r # NoRecord
  <1>1. Alone(p, r) => ~OtherAlone(p, r)
    BY Numbers DEF RInv, OneAlone, Reporting, Alone, OtherAlone
  <1>2. OtherAlone(p, r) => OtherHolds(p, r)
    BY DEF OtherAlone, OtherHolds, Alone, Holds
  <1> QED
    BY <1>1, <1>2, Numbers, SenderFields DEF RInv, Alone, Holds

LEMMA RStop == ASSUME RInv, TypeOK', StopCore PROVE RInv'
  <1>1. /\ SenderTo("core", Idle) /\ faults' = faults + 1
        /\ UNCHANGED <<rollbacks, stored, received, overlaps, record>>
    BY DEF StopCore, MayFault, local, cloud, history
  <1>2. "core" \in Sender /\ Idle.report = NoRecord /\ core' = "down"
    BY SenderAssumption DEF Idle, StopCore
  <1>3. ASSUME NEW r \in Rollback
        PROVE  received'[r] + Bit(InFile(r)') + Bit(stored' = r /\ ~HoldsAs(Idle, r) /\ ~OtherHolds("core", r))
                   + Bit(AloneAs(Idle, r) \/ OtherAlone("core", r)) + faults + overlaps
                 <= received[r] + Bit(InFile(r)) + Bit(stored = r /\ ~Holds("core", r) /\ ~OtherHolds("core", r))
                   + Bit(Alone("core", r) \/ OtherAlone("core", r)) + faults' + overlaps'
    <2>1. ~HoldsAs(Idle, r) /\ ~AloneAs(Idle, r)
      BY <1>2, Numbers DEF RInv, HoldsAs, AloneAs
    <2>2. CASE core = "delete"
      <3>1. sender["core"] = Idle
        BY <2>2 DEF RInv, TypeOK
      <3>2. ~Holds("core", r) /\ ~Alone("core", r)
        BY <1>2, <3>1, Numbers DEF RInv, Holds, Alone
      <3> QED
        BY <1>1, <1>2, <2>1, <3>2, Before DEF Bit
    <2>3. CASE core # "delete"
      <3>1. InFile(r)' <=> InFile(r)
        BY <1>1, <1>2, <2>3 DEF InFile
      <3> QED
        BY <1>1, <1>2, <2>1, <3>1, Before DEF Bit
    <2> QED
      BY <2>2, <2>3
  <1> QED
    BY <1>1, <1>2, <1>3, RSend

\* A sender's step while the core stays where it is: the account is about
\* local_config and the report alone.
LEMMA RQuiet ==
  ASSUME RInv, TypeOK', NEW p \in Sender, NEW state, SenderTo(p, state),
         UNCHANGED <<rollbacks, record, core>>,
         Receive(sender[p]) \/ received' = received,
         state.report = NoRecord \/ state.shared \/ Reporting = {}
           \/ (state.report = sender[p].report /\ state.shared = sender[p].shared),
         \A r \in Rollback :
           received'[r] + Bit(stored' = r /\ ~HoldsAs(state, r) /\ ~OtherHolds(p, r))
               + Bit(AloneAs(state, r) \/ OtherAlone(p, r)) + faults + overlaps
             <= received[r] + Bit(stored = r /\ ~Holds(p, r) /\ ~OtherHolds(p, r))
               + Bit(Alone(p, r) \/ OtherAlone(p, r)) + faults' + overlaps'
  PROVE  RInv'
  <1>1. ASSUME NEW r \in Rollback
        PROVE  received'[r] + Bit(InFile(r)') + Bit(stored' = r /\ ~HoldsAs(state, r) /\ ~OtherHolds(p, r))
                   + Bit(AloneAs(state, r) \/ OtherAlone(p, r)) + faults + overlaps
                 <= received[r] + Bit(InFile(r)) + Bit(stored = r /\ ~Holds(p, r) /\ ~OtherHolds(p, r))
                   + Bit(Alone(p, r) \/ OtherAlone(p, r)) + faults' + overlaps'
    <2>1. Bit(InFile(r)') = Bit(InFile(r))
      BY DEF InFile, Bit
    <2>2. /\ received[r] \in Nat /\ received'[r] \in Nat /\ faults \in Nat /\ faults' \in Nat
          /\ overlaps \in Nat /\ overlaps' \in Nat
      BY Numbers, LimitAssumption DEF RInv, TypeOK
    <2> QED
      BY <2>1, <2>2 DEF Bit
  <1> QED
    BY <1>1, RSend

\* A heartbeat is begun.
LEMMA RBuild == ASSUME RInv, TypeOK', NEW p \in Sender, BuildPayload(p) PROVE RInv'
  <1> DEFINE state == [Idle EXCEPT !.at = "post", !.report = stored,
                         !.shared = stored # NoRecord /\ Reporting # {}]
  <1>1. SenderTo(p, state) /\ UNCHANGED <<rollbacks, record, stored, core, received, faults, overlaps>>
    BY DEF BuildPayload, local, cloud, history
  <1>2. /\ state.at = "post" /\ state.report = stored
        /\ state.shared <=> stored # NoRecord /\ Reporting # {}
    BY DEF Idle
  <1>3. sender[p].report = NoRecord
    BY DEF BuildPayload, Idle
  <1> HIDE DEF state
  <1>4. ASSUME NEW r \in Rollback
        PROVE  received'[r] + Bit(stored' = r /\ ~HoldsAs(state, r) /\ ~OtherHolds(p, r))
                   + Bit(AloneAs(state, r) \/ OtherAlone(p, r)) + faults + overlaps
                 <= received[r] + Bit(stored = r /\ ~Holds(p, r) /\ ~OtherHolds(p, r))
                   + Bit(Alone(p, r) \/ OtherAlone(p, r)) + faults' + overlaps'
    <2>1. ~Holds(p, r) /\ ~Alone(p, r)
      BY <1>3, Before
    <2>2. CASE stored = r /\ Reporting = {}
      <3>1. ~OtherHolds(p, r)
        BY <2>2, Before DEF OtherHolds, Holds, Reporting
      <3>2. HoldsAs(state, r)
        BY <1>2, <2>2, Before DEF HoldsAs
      <3> QED
        BY <1>1, <2>1, <2>2, <3>1, <3>2, Before DEF Bit
    <2>3. CASE ~(stored = r /\ Reporting = {})
      <3>1. ~HoldsAs(state, r) /\ ~AloneAs(state, r)
        BY <1>2, <2>3, Before DEF HoldsAs, AloneAs
      <3> QED
        BY <1>1, <2>1, <3>1, Before DEF Bit
    <2> QED
      BY <2>2, <2>3
  <1> QED
    BY <1>1, <1>2, <1>4, RQuiet

\* A report is given up before anybody has it: it is as if it had not begun.
LEMMA RDropped ==
  ASSUME RInv, TypeOK', NEW p \in Sender, sender[p].at = "post", SenderTo(p, Idle),
         UNCHANGED <<rollbacks, record, stored, core, received, overlaps>>,
         faults' = faults \/ faults' = faults + 1
  PROVE  RInv'
  <1>1. Idle.report = NoRecord
    BY DEF Idle
  <1>2. ASSUME NEW r \in Rollback
        PROVE  received'[r] + Bit(stored' = r /\ ~HoldsAs(Idle, r) /\ ~OtherHolds(p, r))
                   + Bit(AloneAs(Idle, r) \/ OtherAlone(p, r)) + faults + overlaps
                 <= received[r] + Bit(stored = r /\ ~Holds(p, r) /\ ~OtherHolds(p, r))
                   + Bit(Alone(p, r) \/ OtherAlone(p, r)) + faults' + overlaps'
    <2>1. ~HoldsAs(Idle, r) /\ ~AloneAs(Idle, r)
      BY <1>1, Before DEF HoldsAs, AloneAs
    <2>2. Holds(p, r) => Alone(p, r)
      BY Before DEF Alone
    <2> QED
      BY <2>1, <2>2, Before DEF Bit
  <1> QED
    BY <1>1, <1>2, RQuiet

\* A heartbeat is given up wherever it is.
LEMMA RGivenUp ==
  ASSUME RInv, TypeOK', NEW p \in Sender, SenderTo(p, Idle), faults' = faults + 1,
         UNCHANGED <<rollbacks, record, stored, core, received, overlaps>>
  PROVE  RInv'
  <1>1. Idle.report = NoRecord
    BY DEF Idle
  <1>2. ASSUME NEW r \in Rollback
        PROVE  received'[r] + Bit(stored' = r /\ ~HoldsAs(Idle, r) /\ ~OtherHolds(p, r))
                   + Bit(AloneAs(Idle, r) \/ OtherAlone(p, r)) + faults + overlaps
                 <= received[r] + Bit(stored = r /\ ~Holds(p, r) /\ ~OtherHolds(p, r))
                   + Bit(Alone(p, r) \/ OtherAlone(p, r)) + faults' + overlaps'
    <2>1. ~HoldsAs(Idle, r) /\ ~AloneAs(Idle, r)
      BY <1>1, Before DEF HoldsAs, AloneAs
    <2> QED
      BY <2>1, Before DEF Bit
  <1> QED
    BY <1>1, <1>2, RQuiet

\* The control plane gets the report.
LEMMA RPost == ASSUME RInv, TypeOK', NEW p \in Sender, PostHeartbeat(p) PROVE RInv'
  <1>1. UNCHANGED <<rollbacks, record, stored, core, faults>> /\ sender[p].at = "post"
    BY DEF PostHeartbeat, local
  <1>2. CASE active
    <2> DEFINE state == [sender[p] EXCEPT !.at = "persist", !.licence = licence]
    <2>1. SenderTo(p, state) /\ Receive(sender[p])
      BY <1>2 DEF PostHeartbeat
    <2>2. /\ state.at = "persist" /\ state.report = sender[p].report
          /\ state.shared = sender[p].shared
      BY SenderFields DEF RInv, SenderState
    <2> HIDE DEF state
    <2>3. ASSUME NEW r \in Rollback
          PROVE  received'[r] + Bit(stored' = r /\ ~HoldsAs(state, r) /\ ~OtherHolds(p, r))
                     + Bit(AloneAs(state, r) \/ OtherAlone(p, r)) + faults + overlaps
                   <= received[r] + Bit(stored = r /\ ~Holds(p, r) /\ ~OtherHolds(p, r))
                     + Bit(Alone(p, r) \/ OtherAlone(p, r)) + faults' + overlaps'
      <3>1. /\ received'[r] = received[r] + Bit(r = sender[p].report)
            /\ overlaps' = overlaps + Bit(sender[p].shared)
        BY <2>1, Received DEF RInv
      <3>2. ~AloneAs(state, r) /\ (HoldsAs(state, r) <=> sender[p].report = r)
        BY <2>2 DEF AloneAs, HoldsAs
      <3>3. CASE sender[p].report # r
        BY <1>1, <3>1, <3>2, <3>3, Before DEF Bit, Alone
      <3>4. CASE sender[p].report = r /\ sender[p].shared
        BY <1>1, <3>1, <3>2, <3>4, Before DEF Bit, Alone
      <3>5. CASE sender[p].report = r /\ ~sender[p].shared
        <4>1. Alone(p, r)
          BY <1>1, <3>5 DEF Alone
        <4> QED
          BY <1>1, <3>1, <3>2, <3>5, <4>1, Before DEF Bit
      <3> QED
        BY <3>3, <3>4, <3>5
    <2> QED
      BY <1>1, <2>1, <2>2, <2>3, RQuiet
  <1>3. CASE ~active
    BY <1>1, <1>3, RDropped DEF PostHeartbeat
  <1> QED
    BY <1>2, <1>3

\* The heartbeat does not get through, or its response does not.
LEMMA RPostFails == ASSUME RInv, TypeOK', NEW p \in Sender, PostFails(p) PROVE RInv'
  <1>1. /\ UNCHANGED <<rollbacks, record, stored, core>> /\ sender[p].at = "post"
        /\ SenderTo(p, Idle)
        /\ faults' = faults + 1
    BY DEF PostFails, MayFault, local
  <1>2. CASE UNCHANGED <<received, overlaps>>
    BY <1>1, <1>2, RDropped
  <1>3. CASE Receive(sender[p])
    <2>1. Idle.report = NoRecord
      BY DEF Idle
    <2>2. ASSUME NEW r \in Rollback
          PROVE  received'[r] + Bit(stored' = r /\ ~HoldsAs(Idle, r) /\ ~OtherHolds(p, r))
                     + Bit(AloneAs(Idle, r) \/ OtherAlone(p, r)) + faults + overlaps
                   <= received[r] + Bit(stored = r /\ ~Holds(p, r) /\ ~OtherHolds(p, r))
                     + Bit(Alone(p, r) \/ OtherAlone(p, r)) + faults' + overlaps'
      <3>1. /\ received'[r] = received[r] + Bit(r = sender[p].report)
            /\ overlaps' = overlaps + Bit(sender[p].shared)
        BY <1>3, Received DEF RInv
      <3>2. ~HoldsAs(Idle, r) /\ ~AloneAs(Idle, r)
        BY <2>1, Before DEF HoldsAs, AloneAs
      <3>3. CASE sender[p].report # r
        BY <1>1, <3>1, <3>2, <3>3, Before DEF Bit, Alone
      <3>4. CASE sender[p].report = r /\ sender[p].shared
        BY <1>1, <3>1, <3>2, <3>4, Before DEF Bit, Alone
      <3>5. CASE sender[p].report = r /\ ~sender[p].shared
        <4>1. Alone(p, r)
          BY <1>1, <3>5 DEF Alone
        <4> QED
          BY <1>1, <3>1, <3>2, <3>5, <4>1, Before DEF Bit
      <3> QED
        BY <3>3, <3>4, <3>5
    <2> QED
      BY <1>1, <1>3, <2>1, <2>2, RQuiet
  <1> QED
    BY <1>2, <1>3 DEF PostFails

\* The licence is cached, or cannot be: what has been reported goes on to be
\* cleared.
LEMMA RPersist ==
  ASSUME RInv, TypeOK', NEW p \in Sender, AfterPersist(p), sender[p].at = "persist",
         UNCHANGED <<rollbacks, record, stored, core, received, overlaps>>,
         faults' = faults \/ faults' = faults + 1
  PROVE  RInv'
  <1>1. PICK state : /\ SenderTo(p, state) /\ state.at # "post"
                     /\ state.report = sender[p].report
                     /\ state.report = NoRecord \/ state.shared = sender[p].shared
    <2>1. CASE sender[p].report = NoRecord
      <3>1. SenderTo(p, Idle) /\ Idle.at # "post" /\ Idle.report = NoRecord
        BY <2>1 DEF AfterPersist, Idle
      <3> QED
        BY <2>1, <3>1
    <2>2. CASE sender[p].report # NoRecord
      <3> DEFINE state == [sender[p] EXCEPT !.at = "clear"]
      <3>1. SenderTo(p, state)
        BY <2>2 DEF AfterPersist
      <3>2. state.at # "post" /\ state.report = sender[p].report /\ state.shared = sender[p].shared
        BY SenderFields DEF RInv, SenderState
      <3> HIDE DEF state
      <3> QED
        BY <3>1, <3>2
    <2> QED
      BY <2>1, <2>2
  <1>2. ASSUME NEW r \in Rollback
        PROVE  received'[r] + Bit(stored' = r /\ ~HoldsAs(state, r) /\ ~OtherHolds(p, r))
                   + Bit(AloneAs(state, r) \/ OtherAlone(p, r)) + faults + overlaps
                 <= received[r] + Bit(stored = r /\ ~Holds(p, r) /\ ~OtherHolds(p, r))
                   + Bit(Alone(p, r) \/ OtherAlone(p, r)) + faults' + overlaps'
    <2>1. (HoldsAs(state, r) <=> Holds(p, r)) /\ ~AloneAs(state, r) /\ ~Alone(p, r)
      BY <1>1, Before DEF HoldsAs, AloneAs, Alone
    <2> QED
      BY <2>1, Before DEF Bit
  <1> QED
    BY <1>1, <1>2, RQuiet

\* The reported rollback is deleted, or the delete fails.
LEMMA RClear ==
  ASSUME RInv, TypeOK', NEW p \in Sender, SenderTo(p, Idle), sender[p].at = "clear",
         UNCHANGED <<rollbacks, record, core, received, overlaps>>,
         \/ stored' = NoRecord /\ faults' = faults
         \/ stored' = stored /\ faults' = faults + 1
  PROVE  RInv'
  <1>1. Idle.report = NoRecord
    BY DEF Idle
  <1>2. ASSUME NEW r \in Rollback
        PROVE  received'[r] + Bit(stored' = r /\ ~HoldsAs(Idle, r) /\ ~OtherHolds(p, r))
                   + Bit(AloneAs(Idle, r) \/ OtherAlone(p, r)) + faults + overlaps
                 <= received[r] + Bit(stored = r /\ ~Holds(p, r) /\ ~OtherHolds(p, r))
                   + Bit(Alone(p, r) \/ OtherAlone(p, r)) + faults' + overlaps'
    <2>1. ~HoldsAs(Idle, r) /\ ~AloneAs(Idle, r) /\ ~Alone(p, r)
      BY <1>1, Before DEF HoldsAs, AloneAs, Alone
    <2> QED
      BY <2>1, Before DEF Bit
  <1> QED
    BY <1>1, <1>2, RQuiet

LEMMA RStep == ASSUME RInv, [Next]_vars PROVE RInv'
  <1>1. TypeOK'
    BY TypeStep DEF RInv
  <1>2. CASE UNCHANGED <<rollbacks, record, stored, core, sender, received, faults, overlaps>>
    <2>1. OneAlone' /\ NoneEarly'
      BY <1>2 DEF RInv, OneAlone, Reporting, NoneEarly
    <2>2. \A r \in Rollback : Accounted(r)'
      BY <1>2 DEF RInv, Accounted, InFile, InConfig, Sending, Alone, Holds
    <2> QED
      BY <1>1, <2>1, <2>2 DEF RInv
  <1>3. CASE UNCHANGED vars \/ ChangeLicence
    BY <1>2, <1>3 DEF vars, local, cloud, history, ChangeLicence
  <1>4. CASE RollBack \/ Start \/ TakeOverFails
    BY <1>1, <1>4, RStart
  <1>5. CASE StopCore
    BY <1>1, <1>5, RStop
  <1>6. ASSUME NEW p \in Sender, BuildPayload(p) \/ SendOnce(p) \/ PostFails(p) \/ StorageFails(p)
           \/ CloseTool(p)
        PROVE  RInv'
    <2>1. CASE BuildPayload(p)
      BY <1>1, <2>1, RBuild
    <2>2. CASE PostHeartbeat(p)
      BY <1>1, <2>2, RPost
    <2>3. CASE PostFails(p)
      BY <1>1, <2>3, RPostFails
    <2>4. CASE PersistLicence(p)
      BY <1>1, <2>4, RPersist DEF PersistLicence, cloud, history
    <2>5. CASE ClearReported(p)
      BY <1>1, <2>5, RClear DEF ClearReported, cloud, history
    <2>6. CASE StorageFails(p)
      BY <1>1, <2>6, RPersist, RClear DEF StorageFails, MayFault, local, cloud, history
    <2>7. CASE CloseTool(p)
      BY <1>1, <2>7, RGivenUp DEF CloseTool, MayFault, local, cloud, history
    <2> QED
      BY <1>6, <2>1, <2>2, <2>3, <2>4, <2>5, <2>6, <2>7 DEF SendOnce
  <1> QED
    BY <1>3, <1>4, <1>5, <1>6 DEF Next

LEMMA AccountedIsExplained == ASSUME RInv PROVE ReportsExplained
  <1> SUFFICES ASSUME NEW r \in 1..rollbacks PROVE received[r] <= 1 + faults + overlaps
    BY DEF ReportsExplained
  <1>1. r \in Rollback
    BY Numbers, LimitAssumption DEF RInv, Rollback
  <1> QED
    BY <1>1, Numbers DEF RInv, Accounted, Bit

\* A rollback is reported at most once, plus once for each fault and for each
\* heartbeat that was begun while another one was reporting (the delete after
\* the report, sync.go:418-420).
THEOREM ReportsHaveCauses == Spec => []ReportsExplained
  <1>1. Init => RInv
    BY RInit
  <1>2. RInv /\ [Next]_vars => RInv'
    BY RStep
  <1>3. RInv => ReportsExplained
    BY AccountedIsExplained
  <1> QED
    BY <1>1, <1>2, <1>3, PTL DEF Spec
=============================================================================

------------------------------ MODULE Heartbeat ------------------------------
(***************************************************************************)
(* The heartbeat (internal/sync): how the launcher's rollback record       *)
(* travels over local_config to the control plane, and the licence back.   *)
(*                                                                         *)
(* Besides the core's loop the support tool sends heartbeats               *)
(* (fuelmind-setup test-heartbeat), from a process of its own and over the *)
(* same database.  One SQL statement, one file operation or one request is *)
(* one step.                                                               *)
(*                                                                         *)
(* Abstractions: a rollback record is the number of the rollback; a        *)
(* licence is the number of the administrator's change; the health fields  *)
(* of the payload and sync_log, which nothing here reads, are left out.    *)
(***************************************************************************)
EXTENDS Integers, FiniteSets

CONSTANTS
  Sender,        \* who sends heartbeats: "core", and perhaps "setup"
  FaultKinds,    \* which of the faults below may happen
  MaxRollbacks,  \* bound on the rollbacks
  MaxChanges,    \* bound on the administrator's changes
  MaxFaults      \* bound on the faults

NoRecord == 0
Faults == {"request lost", "response lost", "storage", "file", "stop"}

ASSUME SenderAssumption == "core" \in Sender
ASSUME LimitAssumption ==
  /\ FaultKinds \subseteq Faults
  /\ MaxRollbacks \in Nat /\ MaxChanges \in Nat /\ MaxFaults \in Nat

VARIABLES
  rollbacks,  \* rollbacks so far; the last one has this number
  record,     \* data\rollback_occurred.json
  stored,     \* local_config last_rollback
  cache,      \* local_config license_cache
  core,       \* where the core is in its start
  sender,     \* where each sender is in SendOnce
  licence,    \* cloud: the station's licence
  active,     \* cloud: the station's status
  received,   \* cloud: how often each rollback was reported
  faults,     \* faults so far
  crossed,    \* history: was a record stored while a report was in flight?
  overlaps    \* history: reports delivered that were begun while another was in flight

local == <<record, stored, cache>>
cloud == <<licence, active, received>>
history == <<crossed, overlaps>>
vars == <<rollbacks, local, core, sender, cloud, faults, history>>

Rollback == 1..MaxRollbacks
Record == Rollback \cup {NoRecord}
Licence == 0..MaxChanges
Idle == [at |-> "idle", report |-> NoRecord, licence |-> 0, shared |-> FALSE]

TypeOK ==
  /\ rollbacks \in Record
  /\ record \in 0..rollbacks /\ stored \in 0..rollbacks
  /\ cache \in 0..licence
  /\ core \in {"down", "start", "store", "delete", "up"}
  /\ core \in {"store", "delete"} => record # NoRecord
  /\ sender \in [Sender -> [at : {"idle", "post", "persist", "clear"},
                            report : 0..rollbacks, licence : 0..licence,
                            shared : BOOLEAN]]
  /\ sender["core"] # Idle => core = "up"
  /\ licence \in Licence /\ active \in BOOLEAN
  /\ received \in [Rollback -> Nat]
  /\ faults \in 0..MaxFaults
  /\ crossed \in BOOLEAN /\ overlaps \in Nat

Init ==
  /\ rollbacks = 0
  /\ record = NoRecord /\ stored = NoRecord /\ cache = 0
  /\ core = "down"
  /\ sender = [p \in Sender |-> Idle]
  /\ licence = 0 /\ active = TRUE
  /\ received = [r \in Rollback |-> 0]
  /\ faults = 0 /\ crossed = FALSE /\ overlaps = 0

\* Who holds a report that is not cleared yet.
Reporting == {p \in Sender : sender[p].report # NoRecord}

MayFault(kind) == kind \in FaultKinds /\ faults < MaxFaults /\ faults' = faults + 1
SenderTo(p, state) == sender' = [sender EXCEPT ![p] = state]

-----------------------------------------------------------------------------
(* The record: from the launcher to local_config.                          *)

\* The launcher rolls back: the core is down, and a record that is still
\* there is overwritten.
RollBack ==
  /\ core = "down" /\ rollbacks < MaxRollbacks
  /\ rollbacks' = rollbacks + 1
  /\ record' = rollbacks + 1
  /\ UNCHANGED <<stored, cache, core, sender, cloud, faults, history>>

StartCore ==
  /\ core = "down"
  /\ core' = "start"
  /\ UNCHANGED <<rollbacks, local, sender, cloud, faults, history>>

\* takeOverRollbackRecord: read, store, delete.
ReadRecord ==
  /\ core = "start"
  /\ core' = IF record = NoRecord THEN "up" ELSE "store"
  /\ UNCHANGED <<rollbacks, local, sender, cloud, faults, history>>

StoreRecord ==
  /\ core = "store"
  /\ stored' = record
  /\ crossed' = (crossed \/ Reporting # {})
  /\ core' = "delete"
  /\ UNCHANGED <<rollbacks, record, cache, sender, cloud, faults, overlaps>>

DeleteRecord ==
  /\ core = "delete"
  /\ record' = NoRecord
  /\ core' = "up"
  /\ UNCHANGED <<rollbacks, stored, cache, sender, cloud, faults, history>>

\* Mutant: the file is deleted although its content could not be stored.
TakeOverFailsDeletes ==
  /\ \/ core = "store" /\ MayFault("storage")
     \/ core \in {"start", "delete"} /\ MayFault("file")
  /\ record' = NoRecord
  /\ core' = "up"
  /\ UNCHANGED <<rollbacks, stored, cache, sender, cloud, history>>

\* One of the steps fails: the core starts all the same.
TakeOverFails ==
  /\ \/ core = "store" /\ MayFault("storage")
     \/ core \in {"start", "delete"} /\ MayFault("file")
  /\ core' = "up"
  /\ UNCHANGED <<rollbacks, local, sender, cloud, history>>

\* The core stops, or is stopped, at any step.
StopCore ==
  /\ core # "down"
  /\ MayFault("stop")
  /\ core' = "down"
  /\ SenderTo("core", Idle)
  /\ UNCHANGED <<rollbacks, local, cloud, history>>

-----------------------------------------------------------------------------
(* SendOnce.                                                               *)

\* Mutant: without consent to telemetry the report is dropped as well.
BuildPayloadBare(p) ==
  /\ sender[p] = Idle
  /\ p = "core" => core = "up"
  /\ SenderTo(p, [Idle EXCEPT !.at = "post"])
  /\ UNCHANGED <<rollbacks, local, core, cloud, faults, history>>

\* buildPayload reads the waiting record.
BuildPayload(p) ==
  /\ sender[p] = Idle
  /\ p = "core" => core = "up"
  /\ SenderTo(p, [Idle EXCEPT !.at = "post", !.report = stored,
                              !.shared = stored # NoRecord /\ Reporting # {}])
  /\ UNCHANGED <<rollbacks, local, core, cloud, faults, history>>

Receive(flight) ==
  /\ received' = IF flight.report = NoRecord THEN received
                 ELSE [received EXCEPT ![flight.report] = @ + 1]
  /\ overlaps' = IF flight.shared THEN overlaps + 1 ELSE overlaps

\* The control plane keeps the heartbeat and returns the licence; it refuses
\* a station that is not active.
PostHeartbeat(p) ==
  /\ sender[p].at = "post"
  /\ IF active
     THEN /\ Receive(sender[p])
          /\ SenderTo(p, [sender[p] EXCEPT !.at = "persist", !.licence = licence])
     ELSE /\ SenderTo(p, Idle)
          /\ UNCHANGED <<received, overlaps>>
  /\ UNCHANGED <<rollbacks, local, core, licence, active, faults, crossed>>

\* The heartbeat does not get through, or its response does not.
PostFails(p) ==
  /\ sender[p].at = "post"
  /\ \/ /\ MayFault("request lost")
        /\ UNCHANGED <<received, overlaps>>
     \/ /\ MayFault("response lost") /\ active
        /\ Receive(sender[p])
  /\ SenderTo(p, Idle)
  /\ UNCHANGED <<rollbacks, local, core, licence, active, crossed>>

AfterPersist(p) ==
  SenderTo(p, IF sender[p].report = NoRecord THEN Idle ELSE [sender[p] EXCEPT !.at = "clear"])

\* Mutant: a licence is cached only the first time.
PersistLicenceOnce(p) ==
  /\ sender[p].at = "persist"
  /\ cache' = IF cache = 0 THEN sender[p].licence ELSE cache
  /\ AfterPersist(p)
  /\ UNCHANGED <<rollbacks, record, stored, core, cloud, faults, history>>

PersistLicence(p) ==
  /\ sender[p].at = "persist"
  /\ cache' = sender[p].licence
  /\ AfterPersist(p)
  /\ UNCHANGED <<rollbacks, record, stored, core, cloud, faults, history>>

\* Mutant: the report is kept.
ClearReportedKeeps(p) ==
  /\ sender[p].at = "clear"
  /\ SenderTo(p, Idle)
  /\ UNCHANGED <<rollbacks, local, core, cloud, faults, history>>

\* A reported rollback is deleted, whichever record is there now.
ClearReported(p) ==
  /\ sender[p].at = "clear"
  /\ stored' = NoRecord
  /\ SenderTo(p, Idle)
  /\ UNCHANGED <<rollbacks, record, cache, core, cloud, faults, history>>

\* Both are logged and passed over when they fail.
StorageFails(p) ==
  /\ MayFault("storage")
  /\ \/ sender[p].at = "persist" /\ AfterPersist(p)
     \/ sender[p].at = "clear" /\ SenderTo(p, Idle)
  /\ UNCHANGED <<rollbacks, local, core, cloud, history>>

\* The support tool is closed in the middle of a heartbeat.
CloseTool(p) ==
  /\ p # "core" /\ sender[p] # Idle
  /\ MayFault("stop")
  /\ SenderTo(p, Idle)
  /\ UNCHANGED <<rollbacks, local, core, cloud, history>>

\* The administrator changes the licence, and may suspend the station.
ChangeLicence ==
  /\ licence < MaxChanges
  /\ licence' = licence + 1
  /\ active' \in BOOLEAN
  /\ UNCHANGED <<rollbacks, local, core, sender, received, faults, history>>

-----------------------------------------------------------------------------
Start == StartCore \/ ReadRecord \/ StoreRecord \/ DeleteRecord
SendOnce(p) == PostHeartbeat(p) \/ PersistLicence(p) \/ ClearReported(p)

Next ==
  \/ RollBack \/ Start \/ TakeOverFails \/ StopCore \/ ChangeLicence
  \/ \E p \in Sender :
       BuildPayload(p) \/ SendOnce(p) \/ PostFails(p) \/ StorageFails(p) \/ CloseTool(p)

Spec == Init /\ [][Next]_vars

\* The service manager starts the core, its cycle comes round, and a heartbeat
\* that began ends, because its request has a timeout.  Nobody has to run the
\* support tool.
Fairness ==
  /\ WF_vars(Start)
  /\ WF_vars(BuildPayload("core"))
  /\ \A p \in Sender : WF_vars(SendOnce(p))
FairSpec == Spec /\ Fairness

-----------------------------------------------------------------------------
(* Properties.                                                             *)

\* "A rollback recorded by the launcher waits in local_config until a heartbeat
\* delivers it" (sync.go:452): the last rollback is on the station or with the
\* control plane, whatever fails and wherever the core stops; unless a record
\* was stored while a report was in flight, see KeptUntilReported.
Kept(r) == record = r \/ stored = r \/ received[r] > 0
NewestKept == rollbacks > 0 /\ ~crossed => Kept(rollbacks)

\* "A reported rollback has reached the cloud; don't report it again"
\* (sync.go:418): each further report has a cause of its own.
ReportsExplained == \A r \in 1..rollbacks : received[r] <= 1 + faults + overlaps

\* A rollback that has got as far as local_config is reported, unless another
\* one takes its place or the station is suspended.  (A record that could not
\* be taken over waits for the next start of the core.)
RollbackReported ==
  \A r \in Rollback : stored = r ~> received[r] > 0 \/ rollbacks > r \/ ~active \/ crossed

\* In the end the station knows its licence, unless it is suspended
\* (sync.go:328-331: the cache is updated on every successful heartbeat).
LicenceCatchesUp == <>[](cache = licence \/ ~active)

\* The comment at sync.go:452 without the reservation.  The support tool
\* refutes it: it clears what the core has stored meanwhile.
KeptUntilReported == rollbacks > 0 => Kept(rollbacks)

\* No rollback goes unreported.  A second one refutes it: there is one file and
\* one row for any number of them.
AllKept == \A r \in 1..rollbacks : Kept(r)
=============================================================================

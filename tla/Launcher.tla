------------------------------ MODULE Launcher ------------------------------
(***************************************************************************)
(* The Windows service that supervises the core (internal/launcher) and    *)
(* the core's unattended update agent (internal/update), which meet only   *)
(* in the files of the data folder: the pointers current.json,             *)
(* previous.json and pending.json, the installed binaries below versions\, *)
(* probation.json, failed_versions.json and rollback_occurred.json.        *)
(*                                                                         *)
(* Every write of one of those files is a step of its own, so a fault can  *)
(* fall between any two of them.  The launcher's main goroutine, the       *)
(* goroutine that watches a version on probation (and prunes old versions  *)
(* when it survives) and the agent inside the core interleave freely,      *)
(* except where the code orders them.                                      *)
(*                                                                         *)
(* Abstractions: a version is its rank in version.Compare order; wall      *)
(* clock time is the two events WindowExpires and CrashForgotten; backoff  *)
(* delays, log files, the job object and ACLs are left out.                *)
(***************************************************************************)
EXTENDS Integers, Sequences, FiniteSets

CONSTANTS
  Version,        \* the releases, numbered in version.Compare order
  Bundled,        \* versions an installer package may carry
  Offered,        \* releases the cloud may offer this station
  Broken,         \* versions that never answer /healthz
  Unstable,       \* versions that may crash or hang at any time
  Quitting,       \* versions that may exit with code 0 at any time
  QuarantineCap,  \* failed_versions.json keeps this many entries (20 in the code)
  FaultKinds,     \* which of "stop", "power", "disk" and "read" may happen
  MaxFaults,      \* bound on the number of faults in a behaviour
  SlowCommit,     \* may the committing goroutine lag behind a whole handoff?
  SlowPrune       \* ... and its pruning behind a download of the next core?

NoVersion == 0

ASSUME VersionAssumption ==
  /\ Version \subseteq Nat \ {NoVersion}
  /\ Bundled \subseteq Version
  /\ Offered \subseteq Version
  /\ Broken \subseteq Version
  /\ Unstable \subseteq Version
  /\ Quitting \subseteq Version
ASSUME BoundAssumption ==
  /\ QuarantineCap \in Nat \ {0}
  /\ FaultKinds \subseteq {"stop", "power", "disk", "read"}
  /\ MaxFaults \in Nat
  /\ SlowCommit \in BOOLEAN /\ SlowPrune \in BOOLEAN

MaybeVersion == Version \cup {NoVersion}

\* Crashes on probation, and crashes within ten minutes, that trigger a rollback.
ProbationLimit == 2
CrashLoopLimit == 3

Window == [open : BOOLEAN, crashes : 0..ProbationLimit]
NoWindow == [open |-> FALSE, crashes |-> 0]
NoFile == [version |-> NoVersion, open |-> FALSE, crashes |-> 0]
ProbationFile == [version : MaybeVersion, open : BOOLEAN, crashes : 0..ProbationLimit]

LauncherStep ==
  { "off", "boot", "bootSwap", "bootPrevious", "bootPending", "bootCurrent",
    "read", "loop", "running", "handoff", "switchPrevious", "switchCurrent",
    "switchPending", "switchProbation", "crashed", "detect",
    "backCurrent", "backPending", "backQuarantine", "backRecord", "backDone" }
WatchStep == {"none", "waiting", "passed", "ended"}
CommitStep == {"off", "clear", "readCurrent", "readPrevious", "readPending", "delete"}
AgentStep == {"idle", "extracted", "removed", "renamed"}

VARIABLES
  \* the data folder
  current, previous, pending,   \* version pointers
  binaries,                     \* versions with a FuelMindCore.exe below versions\
  probation,                    \* probation.json
  quarantine,                   \* failed_versions.json
  record,                       \* rollback_occurred.json
  bundle,                       \* version of the FuelMindCore.exe beside the launcher
  \* the launcher process
  step,                         \* where the supervisor loop stands
  run,                          \* the version it runs (local variable current)
  next,                         \* the version a switch or a rollback moves to
  window,                       \* Supervisor.probationUntil and probationCrashes
  crashes,                      \* crashes the CrashLoopDetector remembers
  checked,                      \* the running child was started on probation
  watch,                        \* ... and how far its health watcher got
  commit,                       \* goroutine that commits a survivor and prunes
  \* the core process
  agent,                        \* update agent: step and version being staged
  \* bookkeeping of the model
  faults,                       \* faults so far
  unproven,                     \* history: version switched to, window not over
  abandoned,                    \* history: versions rolled back
  unread                        \* history: a prune could not read a pointer

ledger == <<probation, quarantine, record, bundle>>
disk == <<current, previous, pending, binaries, ledger>>
memory == <<run, next, window, crashes, checked, watch>>
history == <<unproven, abandoned, unread>>
others == <<memory, commit, agent, faults, history>>
vars == <<disk, step, others>>

NoCommit == [at |-> "off", of |-> NoVersion, keep |-> {}]
NoAgent == [at |-> "idle", v |-> NoVersion]

TypeOK ==
  /\ current \in MaybeVersion /\ previous \in MaybeVersion /\ pending \in MaybeVersion
  /\ binaries \subseteq Version
  /\ probation \in ProbationFile
  /\ quarantine \in Seq(Version)
  /\ record \in MaybeVersion /\ bundle \in MaybeVersion
  /\ step \in LauncherStep
  /\ run \in MaybeVersion /\ next \in MaybeVersion
  /\ window \in Window
  /\ crashes \in 0..CrashLoopLimit
  /\ checked \in BOOLEAN /\ watch \in WatchStep
  /\ commit \in [at : CommitStep, of : MaybeVersion, keep : SUBSET MaybeVersion]
  /\ agent \in [at : AgentStep, v : MaybeVersion]
  /\ faults \in 0..MaxFaults
  /\ unproven \in MaybeVersion
  /\ abandoned \subseteq Version
  /\ unread \in BOOLEAN

\* A fresh machine: no pointer, no version installed, the service not running.
Init ==
  /\ current = NoVersion /\ previous = NoVersion /\ pending = NoVersion
  /\ binaries = {}
  /\ probation = NoFile
  /\ quarantine = <<>>
  /\ record = NoVersion /\ bundle = NoVersion
  /\ step = "off"
  /\ run = NoVersion /\ next = NoVersion
  /\ window = NoWindow /\ crashes = 0
  /\ checked = FALSE /\ watch = "none"
  /\ commit = NoCommit
  /\ agent = NoAgent
  /\ faults = 0
  /\ unproven = NoVersion
  /\ abandoned = {}
  /\ unread = FALSE

Quarantined == {quarantine[i] : i \in 1..Len(quarantine)}
Running == step = "running"
MayFault(kind) == kind \in FaultKinds /\ faults < MaxFaults
Increment(n, limit) == IF n < limit THEN n + 1 ELSE limit

\* probation.json is replaced atomically; a failed write is logged and the
\* old file stays.
WriteProbation(file) ==
  \/ probation' = file /\ UNCHANGED faults
  \/ MayFault("disk") /\ UNCHANGED probation /\ faults' = faults + 1

-----------------------------------------------------------------------------
(* Bootstrap: adopt the core the installer left beside the launcher.       *)

\* The installer package stops the service and replaces the bundled core.
RunInstaller(v) ==
  /\ step = "off"
  /\ v > bundle
  /\ bundle' = v
  /\ UNCHANGED <<current, previous, pending, binaries, probation, quarantine,
                 record, step, others>>

StartService ==
  /\ step = "off"
  /\ step' = "boot"
  /\ UNCHANGED <<disk, others>>

\* The bundled version is already in the folder (or there is no bundle): it
\* becomes current only if nothing is.
BootKnown ==
  /\ step = "boot"
  /\ bundle \in binaries \cup {NoVersion}
  /\ current' = IF current = NoVersion THEN bundle ELSE current
  /\ step' = "read"
  /\ UNCHANGED <<previous, pending, binaries, ledger, others>>

\* Mutant: a missing FuelMindCore.exe beside the launcher is not noticed.
BootInstallNothing ==
  /\ step = "boot"
  /\ bundle \notin binaries
  /\ binaries' = binaries \cup {bundle}
  /\ step' = "bootSwap"
  /\ UNCHANGED <<current, previous, pending, ledger, others>>

BootInstall ==
  /\ step = "boot"
  /\ bundle \notin binaries \cup {NoVersion}
  /\ binaries' = binaries \cup {bundle}
  /\ step' = "bootSwap"
  /\ UNCHANGED <<current, previous, pending, ledger, others>>

\* Mutant: the bundled core is activated without comparing versions.
BootSwapAlways ==
  /\ step = "bootSwap"
  /\ step' = IF current = NoVersion THEN "bootCurrent" ELSE "bootPrevious"
  /\ UNCHANGED <<disk, others>>

\* First install, installer upgrade, or an older bundle that is only stored.
BootSwap ==
  /\ step = "bootSwap"
  /\ step' = CASE current = NoVersion -> "bootCurrent"
               [] current # NoVersion /\ bundle > current -> "bootPrevious"
               [] OTHER -> "read"
  /\ UNCHANGED <<disk, others>>

BootPrevious ==
  /\ step = "bootPrevious"
  /\ previous' = current
  /\ step' = "bootPending"
  /\ UNCHANGED <<current, pending, binaries, ledger, others>>

BootPending ==
  /\ step = "bootPending"
  /\ pending' = NoVersion
  /\ step' = "bootCurrent"
  /\ UNCHANGED <<current, previous, binaries, ledger, others>>

BootCurrent ==
  /\ step = "bootCurrent"
  /\ current' = bundle
  /\ step' = "read"
  /\ UNCHANGED <<previous, pending, binaries, ledger, others>>

\* Mutant: the probation window is not restored.
ReadStateForgets ==
  /\ step = "read"
  /\ current # NoVersion
  /\ run' = current /\ window' = NoWindow
  /\ step' = "loop"
  /\ UNCHANGED <<disk, next, crashes, checked, watch, commit, agent, faults,
                 history>>

\* Run reads current.json and the probation window that was still open; a
\* window of another version, or one that is over, is deleted.
ReadState ==
  /\ step = "read"
  /\ current # NoVersion
  /\ run' = current
  /\ LET live == probation.version = current /\ probation.open
     IN /\ window' = IF live THEN [open |-> TRUE, crashes |-> probation.crashes]
                             ELSE NoWindow
        /\ probation' = IF live THEN probation ELSE NoFile
  /\ step' = "loop"
  /\ UNCHANGED <<current, previous, pending, binaries, quarantine, record, bundle,
                 next, crashes, checked, watch, commit, agent, faults, history>>

\* errNoCurrentVersion: the service stops.
NothingInstalled ==
  /\ step = "read"
  /\ current = NoVersion
  /\ step' = "off"
  /\ UNCHANGED <<disk, others>>

Boot ==
  \/ BootKnown \/ BootInstall \/ BootSwap \/ BootPrevious \/ BootPending
  \/ BootCurrent \/ ReadState \/ NothingInstalled
-----------------------------------------------------------------------------
(* Rollback.  It needs a previous version that is not the failed one and   *)
(* whose binary is still there; a failure to find it leaves everything as  *)
(* it was.  The steps up to BackDone write the files in the code's order.  *)

CanRollBack == previous \notin {NoVersion, run} /\ previous \in binaries

\* Enter rollback if there is a target, otherwise continue at step "other".
RollBackOr(other) ==
  IF CanRollBack THEN step' = "backCurrent" /\ next' = previous
                 ELSE step' = other /\ UNCHANGED next

BackCurrent ==
  /\ step = "backCurrent"
  /\ current' = next
  /\ unproven' = NoVersion
  /\ abandoned' = abandoned \cup {run}
  /\ step' = "backPending"
  /\ UNCHANGED <<previous, pending, binaries, ledger, memory, commit, agent,
                 faults, unread>>

BackPending ==
  /\ step = "backPending"
  /\ pending' = NoVersion
  /\ step' = "backQuarantine"
  /\ UNCHANGED <<current, previous, binaries, ledger, others>>

\* failed_versions.json: no duplicates, the oldest entry falls out at the cap.
Remember(list, v) ==
  IF v \in {list[i] : i \in 1..Len(list)} THEN list
  ELSE Append(IF Len(list) >= QuarantineCap THEN Tail(list) ELSE list, v)

BackQuarantine ==
  /\ step = "backQuarantine"
  /\ quarantine' = Remember(quarantine, run)
  /\ step' = "backRecord"
  /\ UNCHANGED <<current, previous, pending, binaries, probation, record, bundle,
                 others>>

BackRecord ==
  /\ step = "backRecord"
  /\ record' = run
  /\ step' = "backDone"
  /\ UNCHANGED <<current, previous, pending, binaries, probation, quarantine,
                 bundle, others>>

\* Mutant: the loop keeps the version it rolled back.
BackDoneOldRun ==
  /\ step = "backDone"
  /\ WriteProbation(NoFile)
  /\ window' = NoWindow /\ crashes' = 0
  /\ step' = "loop"
  /\ UNCHANGED <<current, previous, pending, binaries, quarantine, record, bundle,
                 run, next, checked, watch, commit, agent, history>>

BackDone ==
  /\ step = "backDone"
  /\ WriteProbation(NoFile)
  /\ window' = NoWindow /\ crashes' = 0
  /\ run' = next
  /\ step' = "loop"
  /\ UNCHANGED <<current, previous, pending, binaries, quarantine, record, bundle,
                 next, checked, watch, commit, agent, history>>

Rollback == BackCurrent \/ BackPending \/ BackQuarantine \/ BackRecord \/ BackDone

-----------------------------------------------------------------------------
(* The supervisor loop and one run of the core.                            *)

\* The binary is there: start the child, watched if its window is open.
StartCore ==
  /\ step = "loop"
  /\ run \in binaries
  /\ checked' = window.open
  /\ watch' = IF window.open THEN "waiting" ELSE "none"
  /\ step' = "running"
  /\ UNCHANGED <<disk, run, next, window, crashes, commit, agent, faults, history>>

BinaryMissing ==
  /\ step = "loop"
  /\ run \notin binaries
  /\ RollBackOr("loop")
  /\ UNCHANGED <<disk, run, window, crashes, checked, watch, commit, agent, faults,
                 history>>

\* The watched child answers /healthz for the first time.
PassHealthCheck ==
  /\ Running /\ watch = "waiting"
  /\ run \notin Broken
  /\ watch' = "passed"
  /\ UNCHANGED <<disk, step, run, next, window, crashes, checked, commit, agent,
                 faults, history>>

\* Mutant: the unanswered self-check only restarts the child.
FailHealthCheckRestarts ==
  /\ Running /\ watch = "waiting"
  /\ run \in Broken \cup Unstable
  /\ step' = "loop"
  /\ agent' = NoAgent
  /\ UNCHANGED <<disk, memory, commit, faults, history>>

\* It does not within HealthTimeout: the child is cancelled and rolled back;
\* with no target the loop just starts it again.
FailHealthCheck ==
  /\ Running /\ watch = "waiting"
  /\ run \in Broken \cup Unstable
  /\ RollBackOr("loop")
  /\ agent' = NoAgent
  /\ UNCHANGED <<disk, run, window, crashes, checked, watch, commit, faults,
                 history>>

\* Exit with an error.
CoreCrash ==
  /\ Running
  /\ run \in Unstable
  /\ step' = IF checked THEN "crashed" ELSE "detect"
  /\ agent' = NoAgent
  /\ UNCHANGED <<disk, memory, commit, faults, history>>

\* A crash on probation is counted and written down; the second rolls back.
CountProbationCrash ==
  /\ step = "crashed"
  /\ LET n == Increment(window.crashes, ProbationLimit)
     IN /\ window' = [window EXCEPT !.crashes = n]
        /\ WriteProbation([version |-> run, open |-> window.open, crashes |-> n])
        /\ IF n >= ProbationLimit THEN RollBackOr("detect")
                                  ELSE step' = "detect" /\ UNCHANGED next
  /\ UNCHANGED <<current, previous, pending, binaries, quarantine, record, bundle,
                 run, crashes, checked, watch, commit, agent, history>>

\* Three crashes within ten minutes roll back whatever the version's age.
DetectCrashLoop ==
  /\ step = "detect"
  /\ crashes' = Increment(crashes, CrashLoopLimit)
  /\ IF crashes' >= CrashLoopLimit THEN RollBackOr("loop")
                                   ELSE step' = "loop" /\ UNCHANGED next
  /\ UNCHANGED <<disk, run, window, checked, watch, commit, agent, faults, history>>

\* Exit with code 0: not a crash, neither for the probation nor for the detector.
CoreExit ==
  /\ Running
  /\ run \in Quitting
  /\ step' = "loop"
  /\ agent' = NoAgent
  /\ UNCHANGED <<disk, memory, commit, faults, history>>

Supervise ==
  \/ StartCore \/ BinaryMissing \/ PassHealthCheck \/ FailHealthCheck
  \/ CoreCrash \/ CountProbationCrash \/ DetectCrashLoop \/ CoreExit

-----------------------------------------------------------------------------
(* Exit code 42: hand over to the staged version.                          *)

\* No pending.json, or its binary is gone: restart the same version.
HandoffRefused ==
  /\ step = "handoff"
  /\ pending \notin binaries
  /\ pending' = NoVersion
  /\ step' = "loop"
  /\ UNCHANGED <<current, previous, binaries, ledger, others>>

HandoffAccepted ==
  /\ step = "handoff"
  /\ pending \in binaries
  /\ next' = pending
  /\ step' = "switchPrevious"
  /\ UNCHANGED <<disk, run, window, crashes, checked, watch, commit, agent, faults,
                 history>>

\* Mutant: the arguments of switchTo are swapped for previous.json.
SwitchPreviousSwapped ==
  /\ step = "switchPrevious"
  /\ previous' = next
  /\ step' = "switchCurrent"
  /\ UNCHANGED <<current, pending, binaries, ledger, others>>

SwitchPrevious ==
  /\ step = "switchPrevious"
  /\ previous' = run
  /\ step' = "switchCurrent"
  /\ UNCHANGED <<current, pending, binaries, ledger, others>>

SwitchCurrent ==
  /\ step = "switchCurrent"
  /\ current' = next
  /\ unproven' = next
  /\ step' = "switchPending"
  /\ UNCHANGED <<previous, pending, binaries, ledger, memory, commit, agent,
                 faults, abandoned, unread>>

\* Mutant: pending.json is left behind.
SwitchPendingKeeps ==
  /\ step = "switchPending"
  /\ step' = "switchProbation"
  /\ UNCHANGED <<disk, others>>

SwitchPending ==
  /\ step = "switchPending"
  /\ pending' = NoVersion
  /\ step' = "switchProbation"
  /\ UNCHANGED <<current, previous, binaries, ledger, others>>

\* Open the probation window in memory and in probation.json.  Unless
\* SlowCommit, a commit that passed its liveness check before the child exited
\* has removed its own probation.json by now.
SwitchProbation ==
  /\ step = "switchProbation"
  /\ SlowCommit \/ commit.at # "clear"
  /\ run' = next
  /\ crashes' = 0
  /\ window' = [open |-> TRUE, crashes |-> 0]
  /\ WriteProbation([version |-> next, open |-> TRUE, crashes |-> 0])
  /\ checked' = FALSE /\ watch' = "none"
  /\ step' = "loop"
  /\ UNCHANGED <<current, previous, pending, binaries, quarantine, record, bundle,
                 next, commit, agent, history>>

Handoff ==
  \/ HandoffRefused \/ HandoffAccepted \/ SwitchPrevious \/ SwitchCurrent
  \/ SwitchPending \/ SwitchProbation

-----------------------------------------------------------------------------
(* The goroutine of runChild: once the window is over and the child still  *)
(* runs, it removes probation.json and prunes the versions that no pointer *)
(* names.  It reads the pointers one by one while the main loop may be     *)
(* switching versions, because the child may exit right after the check.   *)

CommitSurvivor ==
  /\ commit.at = "off"
  /\ Running /\ watch = "passed"
  /\ ~window.open
  /\ watch' = "ended"
  /\ commit' = [at |-> "clear", of |-> run, keep |-> {}]
  /\ UNCHANGED <<disk, step, run, next, window, crashes, checked, agent, faults,
                 history>>

ClearProbation ==
  /\ commit.at = "clear"
  /\ WriteProbation(NoFile)
  /\ commit' = [commit EXCEPT !.at = "readCurrent"]
  /\ UNCHANGED <<current, previous, pending, binaries, quarantine, record, bundle,
                 step, memory, agent, history>>

ReadPointer(at, pointer, then) ==
  /\ commit.at = at
  /\ commit' = [commit EXCEPT !.at = then, !.keep = @ \cup {pointer}]
  /\ UNCHANGED <<disk, step, memory, agent, faults, history>>

\* A pointer that cannot be read protects no version.
ReadPointerFails(at, then) ==
  /\ commit.at = at
  /\ MayFault("read")
  /\ commit' = [commit EXCEPT !.at = then]
  /\ faults' = faults + 1
  /\ unread' = TRUE
  /\ UNCHANGED <<disk, step, memory, agent, unproven, abandoned>>

\* Windows refuses to delete the executable of a running process.
DeleteUnkept ==
  /\ commit.at = "delete"
  /\ binaries' = binaries \cap (commit.keep \cup IF Running THEN {run} ELSE {})
  /\ commit' = NoCommit
  /\ UNCHANGED <<current, previous, pending, ledger, step, memory, agent, faults,
                 history>>

Commit ==
  \/ CommitSurvivor
  \/ ClearProbation
  \/ ReadPointer("readCurrent", current, "readPrevious")
  \/ ReadPointer("readPrevious", previous, "readPending")
  \/ ReadPointer("readPending", pending, "delete")
  \/ ReadPointerFails("readCurrent", "readPrevious")
  \/ ReadPointerFails("readPrevious", "readPending")
  \/ ReadPointerFails("readPending", "delete")
  \/ DeleteUnkept

-----------------------------------------------------------------------------
(* The update agent of the running core.  It looks for a release only when *)
(* nothing is staged; the download is the agent's step from "idle" to      *)
(* "extracted".                                                            *)

Staged == pending \in binaries

\* Mutant: a quarantined release is staged again.
BeginStageQuarantined(v) ==
  /\ Running /\ agent.at = "idle"
  /\ ~Staged
  /\ v > run /\ v # current
  /\ agent' = [at |-> "extracted", v |-> v]
  /\ UNCHANGED <<disk, step, memory, commit, faults, history>>

\* Mutant: neither the version check nor "is already running".
BeginStageAny(v) ==
  /\ Running /\ agent.at = "idle"
  /\ ~Staged
  /\ v \notin Quarantined
  /\ agent' = [at |-> "extracted", v |-> v]
  /\ UNCHANGED <<disk, step, memory, commit, faults, history>>

\* A release newer than the running core.  Unless SlowPrune, the download takes
\* longer than the pruning that the commit of an earlier run of the core has left
\* unfinished.
Download(v) ==
  /\ Running /\ agent.at = "idle"
  /\ v > run
  /\ SlowPrune \/ commit.at = "off" \/ watch = "ended"
  /\ agent' = [at |-> "extracted", v |-> v]
  /\ UNCHANGED <<disk, step, memory, commit, history>>

\* Nothing is staged, and the release is neither quarantined nor already current.
BeginStage(v) ==
  /\ ~Staged /\ v # current /\ v \notin Quarantined
  /\ Download(v)
  /\ UNCHANGED faults

\* One of pending.json, current.json and failed_versions.json cannot be read and
\* stands in the way of nothing.
BeginStageUnread(v) ==
  /\ MayFault("read") /\ faults' = faults + 1
  /\ \/ Staged /\ v # current /\ v \notin Quarantined
     \/ ~Staged /\ v = current /\ v \notin Quarantined
     \/ ~Staged /\ v # current /\ v \in Quarantined
  /\ Download(v)

RemoveOldCopy ==
  /\ Running /\ agent.at = "extracted"
  /\ binaries' = binaries \ {agent.v}
  /\ agent' = [agent EXCEPT !.at = "removed"]
  /\ UNCHANGED <<current, previous, pending, ledger, step, memory, commit, faults,
                 history>>

RenameIntoPlace ==
  /\ Running /\ agent.at = "removed"
  /\ binaries' = binaries \cup {agent.v}
  /\ agent' = [agent EXCEPT !.at = "renamed"]
  /\ UNCHANGED <<current, previous, pending, ledger, step, memory, commit, faults,
                 history>>

WritePending ==
  /\ Running /\ agent.at = "renamed"
  /\ pending' = agent.v
  /\ agent' = NoAgent
  /\ UNCHANGED <<current, previous, binaries, ledger, step, memory, commit, faults,
                 history>>

\* Inside the maintenance window the core exits with code 42.
RequestHandoff ==
  /\ Running /\ agent.at = "idle"
  /\ Staged
  /\ step' = "handoff"
  /\ UNCHANGED <<disk, others>>

\* At its start the core takes over the rollback record for its heartbeat.
TakeOverRecord ==
  /\ Running /\ record # NoVersion
  /\ record' = NoVersion
  /\ UNCHANGED <<current, previous, pending, binaries, probation, quarantine,
                 bundle, step, others>>

Agent ==
  \/ \E v \in Offered : BeginStage(v) \/ BeginStageUnread(v)
  \/ RemoveOldCopy \/ RenameIntoPlace \/ WritePending
  \/ RequestHandoff \/ TakeOverRecord

-----------------------------------------------------------------------------
(* Time and faults.                                                        *)

\* probationUntil passes.  The steps between two runs of the core take
\* milliseconds, so this happens while a core runs, while the loop backs off
\* or while the service is down.  Two hours outlast the self-check of 90 seconds,
\* unless a restart left only the rest of them or the core quits again and again
\* before it answers.
WindowExpires ==
  /\ step \in {"running", "loop", "off"}
  /\ watch = "passed" \/ run \in Quitting \/ faults > 0
  /\ window.open \/ probation.open \/ unproven # NoVersion
  /\ window' = [window EXCEPT !.open = FALSE]
  /\ probation' = [probation EXCEPT !.open = FALSE]
  /\ unproven' = NoVersion
  /\ UNCHANGED <<current, previous, pending, binaries, quarantine, record, bundle,
                 step, run, next, crashes, checked, watch, commit, agent, faults,
                 abandoned, unread>>

\* A remembered crash leaves the detector's ten minutes.
CrashForgotten ==
  /\ Running /\ crashes > 0
  /\ crashes' = crashes - 1
  /\ UNCHANGED <<disk, step, run, next, window, checked, watch, commit, agent,
                 faults, history>>

\* The launcher process and, through the job object, the core are gone.
LoseMemory ==
  /\ step' = "off"
  /\ run' = NoVersion /\ next' = NoVersion
  /\ window' = NoWindow /\ crashes' = 0
  /\ checked' = FALSE /\ watch' = "none"
  /\ commit' = NoCommit
  /\ agent' = NoAgent
  /\ faults' = faults + 1
  /\ UNCHANGED <<disk, history>>

\* The service is stopped: Run returns when the child has, or from its sleep.
StopService == MayFault("stop") /\ step \in {"loop", "running"} /\ LoseMemory

\* The machine loses power, or the launcher is killed, at any step.
PowerLoss == MayFault("power") /\ step # "off" /\ LoseMemory

\* A write or delete fails and the code takes its error path: Bootstrap and
\* switchTo give up where they stand, a rollback gives up only if it cannot
\* write current.json.
DiskError ==
  /\ MayFault("disk")
  /\ faults' = faults + 1
  /\ \/ /\ step \in {"boot", "bootPrevious", "bootPending", "bootCurrent"}
        /\ step' = "read"
     \/ /\ step \in {"switchPrevious", "switchCurrent", "switchPending"}
        /\ step' = "loop"
     \/ step = "handoff" /\ pending \notin binaries /\ step' = "loop"
     \/ step = "backCurrent" /\ step' \in {"loop", "detect"}
     \/ step = "backPending" /\ step' = "backQuarantine"
     \/ step = "backQuarantine" /\ step' = "backRecord"
     \/ step = "backRecord" /\ step' = "backDone"
  /\ UNCHANGED <<disk, memory, commit, agent, history>>

\* A file cannot be read: Bootstrap gives up, Run gives up without current.json
\* and goes on without a window, a handoff without pending.json restarts the same
\* version, a rollback without previous.json is refused.
ReadError ==
  /\ MayFault("read")
  /\ faults' = faults + 1
  /\ \/ step = "boot" /\ step' = "read" /\ UNCHANGED run
     \/ step = "read" /\ step' = "off" /\ UNCHANGED run
     \/ step = "read" /\ current # NoVersion /\ step' = "loop" /\ run' = current
     \/ step = "handoff" /\ step' = "loop" /\ UNCHANGED run
     \/ step = "backCurrent" /\ step' \in {"loop", "detect"} /\ UNCHANGED run
  /\ UNCHANGED <<disk, next, window, crashes, checked, watch, commit, agent, history>>

\* Staging fails (download, checksum, extraction or rename); the next tick
\* starts over.
StageFails ==
  /\ MayFault("disk")
  /\ agent.at # "idle"
  /\ agent' = NoAgent
  /\ faults' = faults + 1
  /\ UNCHANGED <<disk, step, memory, commit, history>>

Next ==
  \/ \E v \in Bundled : RunInstaller(v)
  \/ StartService \/ Boot \/ Supervise \/ Handoff \/ Rollback \/ Commit \/ Agent
  \/ WindowExpires \/ CrashForgotten
  \/ StopService \/ PowerLoss \/ DiskError \/ ReadError \/ StageFails

Spec == Init /\ [][Next]_vars

\* Every goroutine keeps running, the service manager restarts the service, a
\* self-check ends one way or the other, time passes, the cloud keeps offering a
\* release the station has not, and the maintenance window comes every night.
Fairness ==
  /\ WF_vars(StartService)
  /\ WF_vars(Boot)
  /\ WF_vars(StartCore \/ BinaryMissing \/ CountProbationCrash \/ DetectCrashLoop)
  /\ WF_vars(PassHealthCheck \/ FailHealthCheck)
  /\ WF_vars(Handoff)
  /\ WF_vars(Rollback)
  /\ WF_vars(Commit)
  /\ WF_vars(WindowExpires)
  /\ WF_vars(\E v \in Offered : BeginStage(v))
  /\ WF_vars(RemoveOldCopy \/ RenameIntoPlace \/ WritePending)
  /\ SF_vars(RequestHandoff)

FairSpec == Spec /\ Fairness
-----------------------------------------------------------------------------
(* Properties.                                                             *)

\* While a version is on probation the launcher has somewhere to go back to:
\* another version, installed (Supervisor.rollback would not refuse).
WayBack ==
  window.open /\ step \in {"loop", "running", "crashed", "detect"} => CanRollBack

\* A version that was switched to and whose two hours are not over only ever
\* runs under the /healthz watch and the crash count, restarts included.
ProbationKept ==
  Running /\ run = unproven => checked

\* What is in probation.json is what the launcher has in memory, so that a
\* restart loses neither the window nor a crash.
ProbationDurable ==
  Running /\ window.open =>
    probation = [version |-> run, open |-> TRUE, crashes |-> window.crashes]

\* Whatever is interrupted, the next start finds a version to run: current.json
\* names an installed version, or previous.json does, which the supervisor then
\* rolls back to.  Left out: stations where a prune could not read a pointer, and,
\* while no core runs, those where a core of an installer package newer than
\* current.json is in place and previous.json equals current.json.  That is how
\* Bootstrap leaves them when it is cut short before it writes current.json
\* (LauncherOvertaken), but also what a rollback from a bundled core looks like.
NotStarted ==
  { "off", "boot", "bootSwap", "bootPrevious", "bootPending", "bootCurrent", "read",
    "loop" }
Unadopted ==
  /\ step \in NotStarted
  /\ previous = current
  /\ \E b \in binaries \cap Bundled : current < b /\ b <= bundle
NeverBricked ==
  current # NoVersion /\ ~Unadopted /\ ~unread =>
    current \in binaries \/ previous \in binaries \ {current}

\* The core that runs is in place and is the one current.json names or, after a
\* switch that failed half way, the one previous.json names.
RunsANamedVersion ==
  Running => run \in {current, previous} \cap binaries

\* Without failing writes it is the one current.json names.
RunsCurrent ==
  Running => run = current

\* The agent never brings back a version this station rolled back: a bad
\* release cannot flap (install, crash, roll back, download again).
NoFlap ==
  step \in {"switchPrevious", "switchCurrent"} => next \notin abandoned

\* Once Bootstrap is done, a bundled core that was not rolled back is not newer
\* than the one that will run.
BundleAdopted ==
  step = "read" /\ bundle \notin abandoned => current >= bundle

\* What the next two assume: nobody stops the service, and from some time on
\* only a version that never answers /healthz fails.
Undisturbed ==
  [](faults = 0) /\ <>[][~CoreExit /\ (CoreCrash => run \in Broken)]_vars

\* A version that never answers /healthz does not stay: a version that does is
\* running again some time later.
BadUpdateReverted ==
  Undisturbed => (current \in Broken ~> Running /\ run \notin Broken)

\* A staged update is applied (or dropped by a rollback) sooner or later, under
\* the same assumption.
UpdateApplied ==
  Undisturbed => (Staged ~> pending = NoVersion)

\* Crashes count against a version on probation only while its window is open.
CrashesInsideWindow ==
  [][step = "crashed" /\ step' = "backCurrent" => window.open]_vars

\* Seen from outside, the files behave like the abstract rollout: previous.json
\* is armed before current.json moves, and a version counts as banned from the
\* moment a rollback moves current.json away from it.
Banned ==
  Quarantined \cup IF step \in {"backPending", "backQuarantine"} THEN {run} ELSE {}

Abstract == INSTANCE Rollout WITH
  None <- NoVersion, active <- current, fallback <- previous, banned <- Banned

ImplementsRollout == Abstract!Spec
-----------------------------------------------------------------------------
(* Known divergences.                                                      *)

\* NeverBricked without the exception, refuted by LauncherOvertaken: a prune that
\* read current.json before a switch deletes the version switched to; before the
\* supervisor notices, the service is stopped and an installer package comes, and
\* Bootstrap overwrites previous.json, the last pointer to an installed version.
AlwaysAVersion ==
  current # NoVersion => current \in binaries \/ previous \in binaries \ {current}

\* "A bad release cannot flap" (rollback.go) for the bundled core too, refuted by
\* LauncherOvertaken: once a prune has removed a rolled back version, the package
\* that carried it is adopted as a new one by the next start of the service.
NoReturn == step = "bootCurrent" => bundle \notin abandoned

\* BadUpdateReverted for a version that may exit with code 0 before it ever
\* answers /healthz, refuted by LauncherQuits: such an exit is neither unhealthy
\* nor a crash, and the same version is started again, for ever.
QuitterReverted ==
  [](faults = 0) /\ <>[][CoreExit \/ CoreCrash => run \in Broken]_vars
    => (current \in Broken ~> Running /\ run \notin Broken)
=============================================================================

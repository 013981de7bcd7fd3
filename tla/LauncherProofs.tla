--------------------------- MODULE LauncherProofs ---------------------------
(***************************************************************************)
(* Proofs about Launcher, for every set of versions, every bound and any   *)
(* number of faults of the kinds each theorem names.                       *)
(***************************************************************************)
EXTENDS Launcher, FiniteSetTheorems, TLAPS

Upgrading == {"bootPrevious", "bootPending", "bootCurrent"}
Booting == {"off", "boot", "bootSwap", "read"} \cup Upgrading
SwitchingBack == {"backPending", "backQuarantine", "backRecord", "backDone"}
Switching == {"switchPending", "switchProbation"}
Targeted ==
  {"switchPrevious", "switchCurrent", "backCurrent"} \cup Switching \cup SwitchingBack

\* TypeOK is not inductive: that a rollback never bans or quarantines "no
\* version" rests on the loop having a version to run and one to move to.
NamesVersions ==
  /\ step \notin Booting => run # NoVersion
  /\ step \in Targeted => next # NoVersion
  /\ agent.at # "idle" => agent.v # NoVersion

TypeInv == TypeOK /\ NamesVersions

\* Where a prune stands when it reads a pointer or has read the last one.
Reads == {"readCurrent", "readPrevious", "readPending", "delete"}

\* A value of a step label or of a version is of its type.
LEMMA Types ==
  /\ NoVersion \in MaybeVersion
  /\ Version \subseteq MaybeVersion
  /\ NoFile \in ProbationFile
  /\ NoWindow \in Window
  /\ NoCommit \in [at : CommitStep, of : MaybeVersion, keep : SUBSET MaybeVersion]
  /\ NoAgent \in [at : AgentStep, v : MaybeVersion]
  BY DEF MaybeVersion, NoFile, ProbationFile, NoWindow, Window, NoCommit, CommitStep,
         NoAgent, AgentStep, ProbationLimit

\* Counters saturate at their limit.
LEMMA Saturates ==
  ASSUME NEW limit \in Nat, NEW n \in 0..limit
  PROVE  Increment(n, limit) \in 0..limit
  BY DEF Increment

\* failed_versions.json stays a list of versions.
LEMMA RememberType ==
  ASSUME NEW list \in Seq(Version), NEW v \in Version
  PROVE  Remember(list, v) \in Seq(Version)
  <1>1. Append(list, v) \in Seq(Version)
    OBVIOUS
  <1>2. CASE Len(list) >= QuarantineCap
    <2>1. list # <<>>
      BY <1>2, BoundAssumption
    <2>2. Append(Tail(list), v) \in Seq(Version)
      BY <2>1
    <2> QED
      BY <1>1, <2>2 DEF Remember
  <1>3. CASE ~(Len(list) >= QuarantineCap)
    BY <1>1, <1>3 DEF Remember
  <1> QED
    BY <1>2, <1>3

LEMMA VersionsAreNumbers == MaybeVersion \subseteq Nat
  BY VersionAssumption DEF MaybeVersion, NoVersion

\* There is room to count a fault that may happen.
LEMMA FaultType ==
  ASSUME TypeOK, NEW kind, MayFault(kind), faults' = faults + 1
  PROVE  faults' \in 0..MaxFaults
  BY BoundAssumption DEF TypeOK, MayFault

LEMMA WriteProbationType ==
  ASSUME TypeOK, NEW file \in ProbationFile, WriteProbation(file)
  PROVE  probation' \in ProbationFile /\ faults' \in 0..MaxFaults
  BY BoundAssumption DEF TypeOK, WriteProbation, MayFault

-----------------------------------------------------------------------------
(* Type correctness, one lemma per process.                                *)

Environment ==
  \/ \E v \in Bundled : RunInstaller(v)
  \/ StartService \/ WindowExpires \/ CrashForgotten
  \/ StopService \/ PowerLoss \/ DiskError \/ ReadError \/ StageFails

LEMMA BootType ==
  ASSUME TypeInv, Boot
  PROVE  TypeInv'
  <1> USE Types, VersionAssumption, BoundAssumption DEF TypeInv, TypeOK, NamesVersions, Booting, Upgrading, Targeted,
       Switching, SwitchingBack, NoVersion, MaybeVersion, LauncherStep, Running, NoAgent,
       disk, ledger, others, memory, history
  <1>1. CASE BootKnown
    BY <1>1 DEF BootKnown
  <1>2. CASE BootInstall
    BY <1>2 DEF BootInstall
  <1>3. CASE BootSwap
    BY <1>3 DEF BootSwap
  <1>4. CASE BootPrevious
    BY <1>4 DEF BootPrevious
  <1>5. CASE BootPending
    BY <1>5 DEF BootPending
  <1>6. CASE BootCurrent
    BY <1>6 DEF BootCurrent
  <1>7. CASE ReadState
    BY <1>7 DEF ReadState, Window, ProbationFile, ProbationLimit
  <1>8. CASE NothingInstalled
    BY <1>8 DEF NothingInstalled
  <1> QED
    BY <1>1, <1>2, <1>3, <1>4, <1>5, <1>6, <1>7, <1>8 DEF Boot

LEMMA SuperviseType ==
  ASSUME TypeInv, Supervise
  PROVE  TypeInv'
  <1> USE Types, VersionAssumption, BoundAssumption DEF TypeInv, TypeOK, NamesVersions, Booting, Upgrading, Targeted,
       Switching, SwitchingBack, NoVersion, MaybeVersion, LauncherStep, Running, NoAgent,
       disk, ledger, others, memory, history
  <1>1. CASE StartCore
    <2>1. checked' \in BOOLEAN /\ watch' \in WatchStep
      BY <1>1 DEF StartCore, Window, WatchStep
    <2> QED
      BY <1>1, <2>1 DEF StartCore
  <1>2. CASE BinaryMissing
    BY <1>2 DEF BinaryMissing, RollBackOr, CanRollBack
  <1>3. CASE PassHealthCheck
    BY <1>3 DEF PassHealthCheck, WatchStep
  <1>4. CASE FailHealthCheck
    BY <1>4 DEF FailHealthCheck, RollBackOr, CanRollBack
  <1>5. CASE CoreCrash
    BY <1>5 DEF CoreCrash
  <1>6. CASE CountProbationCrash
    <2> DEFINE n == Increment(window.crashes, ProbationLimit)
               file == [version |-> run, open |-> window.open, crashes |-> n]
    <2>1. window.crashes \in 0..ProbationLimit /\ window.open \in BOOLEAN
      BY DEF Window
    <2>2. n \in 0..ProbationLimit
      BY <2>1, Saturates DEF ProbationLimit
    <2> HIDE DEF n
    <2>3. file \in ProbationFile
      BY <2>1, <2>2 DEF ProbationFile
    <2>4. probation' \in ProbationFile /\ faults' \in 0..MaxFaults
      BY <1>6, <2>3, WriteProbationType DEF CountProbationCrash, n
    <2>5. window' = [window EXCEPT !.crashes = n]
      BY <1>6 DEF CountProbationCrash, n
    <2>6. window' \in Window
      BY <2>2, <2>5 DEF Window
    <2>7. step' \in {"backCurrent", "detect"} /\ next' \in MaybeVersion
          /\ (step' = "backCurrent" => next' # NoVersion)
      BY <1>6 DEF CountProbationCrash, RollBackOr, CanRollBack
    <2> QED
      BY <1>6, <2>4, <2>6, <2>7, SMTT(30) DEF CountProbationCrash
  <1>7. CASE DetectCrashLoop
    <2>1. crashes' \in 0..CrashLoopLimit
      BY <1>7, Saturates DEF DetectCrashLoop, CrashLoopLimit
    <2>2. step' \in {"backCurrent", "loop"} /\ next' \in MaybeVersion
          /\ (step' = "backCurrent" => next' # NoVersion)
      BY <1>7 DEF DetectCrashLoop, RollBackOr, CanRollBack
    <2> QED
      BY <1>7, <2>1, <2>2 DEF DetectCrashLoop
  <1>8. CASE CoreExit
    BY <1>8 DEF CoreExit
  <1> QED
    BY <1>1, <1>2, <1>3, <1>4, <1>5, <1>6, <1>7, <1>8 DEF Supervise

LEMMA HandoffType ==
  ASSUME TypeInv, Handoff
  PROVE  TypeInv'
  <1> USE Types, VersionAssumption, BoundAssumption DEF TypeInv, TypeOK, NamesVersions, Booting, Upgrading, Targeted,
       Switching, SwitchingBack, NoVersion, MaybeVersion, LauncherStep, Running, NoAgent,
       disk, ledger, others, memory, history
  <1>1. CASE HandoffRefused
    BY <1>1 DEF HandoffRefused
  <1>2. CASE HandoffAccepted
    BY <1>2 DEF HandoffAccepted
  <1>3. CASE SwitchPrevious
    BY <1>3 DEF SwitchPrevious
  <1>4. CASE SwitchCurrent
    BY <1>4 DEF SwitchCurrent
  <1>5. CASE SwitchPending
    BY <1>5 DEF SwitchPending
  <1>6. CASE SwitchProbation
    <2>1. [version |-> next, open |-> TRUE, crashes |-> 0] \in ProbationFile
      BY DEF ProbationFile, ProbationLimit
    <2>2. probation' \in ProbationFile /\ faults' \in 0..MaxFaults
      BY <1>6, <2>1, WriteProbationType DEF SwitchProbation
    <2>3. window' \in Window
      BY <1>6 DEF SwitchProbation, Window, ProbationLimit
    <2>4. crashes' = 0 /\ checked' = FALSE /\ watch' = "none" /\ run' = next /\ step' = "loop"
      BY <1>6 DEF SwitchProbation
    <2>5. crashes' \in 0..CrashLoopLimit /\ watch' \in WatchStep
      BY <2>4 DEF CrashLoopLimit, WatchStep
    <2>6. checked' \in BOOLEAN
      BY <2>4, Zenon
    <2> QED
      BY <1>6, <2>2, <2>3, <2>5, <2>6 DEF SwitchProbation
  <1> QED
    BY <1>1, <1>2, <1>3, <1>4, <1>5, <1>6 DEF Handoff

LEMMA CommitType ==
  ASSUME TypeInv, Commit
  PROVE  TypeInv'
  <1> USE Types, VersionAssumption, BoundAssumption DEF TypeInv, TypeOK, NamesVersions, Booting, Upgrading, Targeted,
       Switching, SwitchingBack, NoVersion, MaybeVersion, LauncherStep, Running, NoAgent,
       disk, ledger, others, memory, history
  <1>1. CASE CommitSurvivor
    <2>1. commit' \in [at : CommitStep, of : MaybeVersion, keep : SUBSET MaybeVersion]
      BY <1>1 DEF CommitSurvivor, CommitStep
    <2> QED
      BY <1>1, <2>1 DEF CommitSurvivor, WatchStep
  <1>2. CASE ClearProbation
    <2>1. probation' \in ProbationFile /\ faults' \in 0..MaxFaults
      BY <1>2, WriteProbationType DEF ClearProbation
    <2>2. commit' \in [at : CommitStep, of : MaybeVersion, keep : SUBSET MaybeVersion]
      BY <1>2 DEF ClearProbation, CommitStep
    <2>3. UNCHANGED <<current, previous, pending, binaries, quarantine, record, bundle,
                      step, run, next, window, crashes, checked, watch, agent, history>>
      BY <1>2 DEF ClearProbation
    <2> QED
      BY <2>1, <2>2, <2>3
  <1>3. CASE ReadPointer("readCurrent", current, "readPrevious")
    <2>1. commit' \in [at : CommitStep, of : MaybeVersion, keep : SUBSET MaybeVersion]
      BY <1>3 DEF ReadPointer, CommitStep
    <2> QED
      BY <1>3, <2>1, SMTT(30) DEF ReadPointer
  <1>4. CASE ReadPointer("readPrevious", previous, "readPending")
    <2>1. commit' \in [at : CommitStep, of : MaybeVersion, keep : SUBSET MaybeVersion]
      BY <1>4 DEF ReadPointer, CommitStep
    <2> QED
      BY <1>4, <2>1, SMTT(30) DEF ReadPointer
  <1>5. CASE ReadPointer("readPending", pending, "delete")
    <2>1. commit' \in [at : CommitStep, of : MaybeVersion, keep : SUBSET MaybeVersion]
      BY <1>5 DEF ReadPointer, CommitStep
    <2> QED
      BY <1>5, <2>1, SMTT(30) DEF ReadPointer
  <1>6. CASE DeleteUnkept
    BY <1>6 DEF DeleteUnkept, CommitStep
  <1>7. ASSUME NEW at \in Reads, NEW then \in Reads, ReadPointerFails(at, then)
        PROVE  TypeInv'
    <2>1. commit' \in [at : CommitStep, of : MaybeVersion, keep : SUBSET MaybeVersion]
      BY <1>7 DEF ReadPointerFails, CommitStep, Reads
    <2>2. faults' \in 0..MaxFaults
      BY <1>7, FaultType DEF ReadPointerFails
    <2>3. unread' \in BOOLEAN
      BY <1>7, Zenon DEF ReadPointerFails
    <2>4. UNCHANGED <<disk, step, memory, agent, unproven, abandoned>>
      BY <1>7 DEF ReadPointerFails
    <2> QED
      BY <2>1, <2>2, <2>3, <2>4, SMTT(30)
  <1> QED
    BY <1>1, <1>2, <1>3, <1>4, <1>5, <1>6, <1>7 DEF Commit, Reads

\* What the agent's steps have in common: they leave the launcher alone.
LEMMA AgentStepType ==
  ASSUME TypeInv, Running,
         UNCHANGED <<current, previous, probation, quarantine, bundle, step, memory,
                     commit, history>>,
         faults' \in 0..MaxFaults,
         pending' \in MaybeVersion, record' \in MaybeVersion, binaries' \subseteq Version,
         agent' \in [at : AgentStep, v : MaybeVersion],
         agent'.at # "idle" => agent'.v # NoVersion
  PROVE  TypeInv'
  <1>1. TypeOK'
    BY DEF TypeInv, TypeOK, memory, history
  <1>2. NamesVersions'
    BY DEF TypeInv, NamesVersions, memory
  <1> QED
    BY <1>1, <1>2 DEF TypeInv

LEMMA AgentType ==
  ASSUME TypeInv, Agent
  PROVE  TypeInv'
  <1>1. /\ pending \in MaybeVersion /\ record \in MaybeVersion
        /\ binaries \subseteq Version
        /\ agent \in [at : AgentStep, v : MaybeVersion]
        /\ agent.at # "idle" => agent.v # NoVersion
        /\ faults \in 0..MaxFaults
    BY DEF TypeInv, TypeOK, NamesVersions
  <1>2. NoAgent \in [at : AgentStep, v : MaybeVersion] /\ NoAgent.at = "idle"
    BY Types DEF NoAgent
  <1>3. ASSUME NEW v \in Offered, BeginStage(v) \/ BeginStageUnread(v)
        PROVE  TypeInv'
    <2>1. v \in MaybeVersion /\ v # NoVersion
      BY VersionAssumption DEF MaybeVersion
    <2>2. Download(v)
      BY <1>3 DEF BeginStage, BeginStageUnread
    <2>3. agent' \in [at : AgentStep, v : MaybeVersion] /\ agent'.v # NoVersion
      BY <2>1, <2>2 DEF Download, AgentStep
    <2>4. faults' \in 0..MaxFaults
      BY <1>1, <1>3, BoundAssumption DEF BeginStage, BeginStageUnread, MayFault
    <2> QED
      BY <1>1, <2>2, <2>3, <2>4, AgentStepType DEF Download, disk, ledger
  <1>4. CASE RemoveOldCopy
    <2>1. /\ agent' = [agent EXCEPT !.at = "removed"] /\ binaries' \subseteq Version
          /\ agent.at = "extracted"
      BY <1>1, <1>4 DEF RemoveOldCopy
    <2>2. agent' \in [at : AgentStep, v : MaybeVersion] /\ agent'.v # NoVersion
      BY <1>1, <2>1 DEF AgentStep
    <2> QED
      BY <1>1, <1>4, <2>1, <2>2, AgentStepType DEF RemoveOldCopy, ledger
  <1>5. CASE RenameIntoPlace
    <2>1. /\ agent' = [agent EXCEPT !.at = "renamed"] /\ agent.at = "removed"
          /\ binaries' = binaries \cup {agent.v}
      BY <1>5 DEF RenameIntoPlace
    <2>2. agent.v \in Version
      BY <1>1, <2>1 DEF MaybeVersion
    <2>3. agent' \in [at : AgentStep, v : MaybeVersion] /\ agent'.v # NoVersion
      BY <1>1, <2>1 DEF AgentStep
    <2> QED
      BY <1>1, <1>5, <2>1, <2>2, <2>3, AgentStepType DEF RenameIntoPlace, ledger
  <1>6. CASE WritePending
    <2>1. pending' \in MaybeVersion /\ agent' = NoAgent
      BY <1>1, <1>6 DEF WritePending
    <2> QED
      BY <1>1, <1>2, <1>6, <2>1, AgentStepType DEF WritePending, ledger
  <1>7. CASE RequestHandoff
    <2>1. TypeOK'
      BY <1>7 DEF RequestHandoff, TypeInv, TypeOK, LauncherStep, disk, ledger, others,
                  memory, history
    <2>2. NamesVersions'
      BY <1>7 DEF RequestHandoff, TypeInv, NamesVersions, Booting, Upgrading, Targeted,
                  Switching, SwitchingBack, Running, others, memory
    <2> QED
      BY <2>1, <2>2 DEF TypeInv
  <1>8. CASE TakeOverRecord
    BY <1>1, <1>8, AgentStepType DEF TakeOverRecord, others, MaybeVersion
  <1> QED
    BY <1>3, <1>4, <1>5, <1>6, <1>7, <1>8 DEF Agent

LEMMA EnvironmentType ==
  ASSUME TypeInv, Environment
  PROVE  TypeInv'
  <1> USE Types, VersionAssumption, BoundAssumption DEF TypeInv, TypeOK, NamesVersions, Booting, Upgrading, Targeted,
       Switching, SwitchingBack, NoVersion, MaybeVersion, LauncherStep, Running, NoAgent,
       disk, ledger, others, memory, history
  <1>1. CASE \E v \in Bundled : RunInstaller(v)
    BY <1>1 DEF RunInstaller
  <1>2. CASE StartService
    BY <1>2 DEF StartService
  <1>3. CASE WindowExpires
    <2>1. window' \in Window
      BY <1>3 DEF WindowExpires, Window
    <2>2. probation' \in ProbationFile
      BY <1>3 DEF WindowExpires, ProbationFile
    <2> QED
      BY <1>3, <2>1, <2>2 DEF WindowExpires
  <1>4. CASE CrashForgotten
    BY <1>4 DEF CrashForgotten, CrashLoopLimit
  <1>5. CASE StopService
    <2>1. LoseMemory
      BY <1>5 DEF StopService
    <2>2. checked' = FALSE /\ watch' = "none" /\ crashes' = 0 /\ step' = "off"
      BY <2>1 DEF LoseMemory
    <2>3. checked' \in BOOLEAN
      BY <2>2, Zenon
    <2>4. watch' \in WatchStep /\ crashes' \in 0..CrashLoopLimit
      BY <2>2 DEF WatchStep, CrashLoopLimit
    <2>5. faults' \in 0..MaxFaults
      BY <1>5 DEF StopService, LoseMemory, MayFault
    <2> QED
      BY <2>1, <2>2, <2>3, <2>4, <2>5 DEF LoseMemory
  <1>6. CASE PowerLoss
    <2>1. LoseMemory
      BY <1>6 DEF PowerLoss
    <2>2. checked' = FALSE /\ watch' = "none" /\ crashes' = 0 /\ step' = "off"
      BY <2>1 DEF LoseMemory
    <2>3. checked' \in BOOLEAN
      BY <2>2, Zenon
    <2>4. watch' \in WatchStep /\ crashes' \in 0..CrashLoopLimit
      BY <2>2 DEF WatchStep, CrashLoopLimit
    <2>5. faults' \in 0..MaxFaults
      BY <1>6 DEF PowerLoss, LoseMemory, MayFault
    <2> QED
      BY <2>1, <2>2, <2>3, <2>4, <2>5 DEF LoseMemory
  <1>7. CASE DiskError
    BY <1>7 DEF DiskError, MayFault
  <1>8. CASE StageFails
    BY <1>8 DEF StageFails, MayFault
  <1>9. CASE ReadError
    BY <1>9 DEF ReadError, MayFault
  <1> QED
    BY <1>1, <1>2, <1>3, <1>4, <1>5, <1>6, <1>7, <1>8, <1>9 DEF Environment

LEMMA RollbackType ==
  ASSUME TypeInv, Rollback
  PROVE  TypeInv'
  <1> USE Types, VersionAssumption, BoundAssumption DEF TypeInv, TypeOK, NamesVersions, Booting, Upgrading, Targeted,
       Switching, SwitchingBack, NoVersion, MaybeVersion, LauncherStep, Running, NoAgent,
       disk, ledger, others, memory, history
  <1>1. CASE BackCurrent
    BY <1>1 DEF BackCurrent
  <1>2. CASE BackPending
    BY <1>2 DEF BackPending
  <1>3. CASE BackQuarantine
    <2>1. run \in Version
      BY <1>3 DEF BackQuarantine
    <2>2. quarantine' \in Seq(Version)
      BY <1>3, <2>1, RememberType DEF BackQuarantine
    <2> QED
      BY <1>3, <2>2 DEF BackQuarantine
  <1>4. CASE BackRecord
    BY <1>4 DEF BackRecord
  <1>5. CASE BackDone
    <2>1. probation' \in ProbationFile /\ faults' \in 0..MaxFaults
      BY <1>5, WriteProbationType DEF BackDone
    <2> QED
      BY <1>5, <2>1 DEF BackDone, CrashLoopLimit
  <1> QED
    BY <1>1, <1>2, <1>3, <1>4, <1>5 DEF Rollback

LEMMA TypeInvInductive ==
  /\ Init => TypeInv
  /\ TypeInv /\ [Next]_vars => TypeInv'
  <1>1. ASSUME Init
        PROVE  TypeInv
    <2>1. checked \in BOOLEAN /\ unread \in BOOLEAN
      BY <1>1, Zenon DEF Init
    <2> QED
      BY <1>1, <2>1, Types, BoundAssumption
         DEF Init, TypeInv, TypeOK, NamesVersions, Booting, Targeted, Switching,
             SwitchingBack, Upgrading, NoAgent, LauncherStep, WatchStep, CrashLoopLimit,
             NoVersion, MaybeVersion
  <1>2. ASSUME TypeInv, [Next]_vars
        PROVE  TypeInv'
    <2>1. CASE Boot
      BY <1>2, <2>1, BootType
    <2>2. CASE Supervise
      BY <1>2, <2>2, SuperviseType
    <2>3. CASE Handoff
      BY <1>2, <2>3, HandoffType
    <2>4. CASE Rollback
      BY <1>2, <2>4, RollbackType
    <2>5. CASE Commit
      BY <1>2, <2>5, CommitType
    <2>6. CASE Agent
      BY <1>2, <2>6, AgentType
    <2>7. CASE Environment
      BY <1>2, <2>7, EnvironmentType
    <2>8. CASE UNCHANGED vars
      BY <1>2, <2>8
         DEF vars, disk, ledger, others, memory, history, TypeInv, TypeOK, NamesVersions
    <2> QED
      BY <1>2, <2>1, <2>2, <2>3, <2>4, <2>5, <2>6, <2>7, <2>8 DEF Next, Environment
  <1> QED
    BY <1>1, <1>2

\* Every variable of the data folder, the launcher and the agent keeps its type,
\* whatever is interrupted: in particular no rollback ever bans, quarantines or
\* reports "no version" (Supervisor.rollback), and counters stay in their bounds.
THEOREM TypeCorrect == Spec => []TypeOK
  <1>1. TypeInv => TypeOK
    BY DEF TypeInv
  <1> QED
    BY <1>1, TypeInvInductive, PTL DEF Spec

-----------------------------------------------------------------------------
(* The core that runs is the one current.json names, as long as no write   *)
(* fails: a switch gives up half way only then.                            *)

Steady ==
  {"loop", "running", "crashed", "detect", "handoff", "switchPrevious",
   "switchCurrent", "backCurrent"}

\* The loop's local version, and the target of a half done switch, agree with
\* current.json.
InPlace ==
  /\ step \in Steady => run = current
  /\ step \in Switching \cup SwitchingBack => next = current

\* The steps of the launcher's main goroutine, fault free.
LEMMA InPlaceMain ==
  ASSUME InPlace, TypeInv, Boot \/ Supervise \/ Handoff \/ Rollback
  PROVE  InPlace'
  <1> USE DEF InPlace, Steady, Switching, SwitchingBack, TypeInv, NamesVersions,
              disk, ledger, others, memory, history
  <1>1. CASE Boot
    BY <1>1 DEF Boot, BootKnown, BootInstall, BootSwap, BootPrevious, BootPending,
                BootCurrent, ReadState, NothingInstalled
  <1>2. CASE Supervise
    BY <1>2 DEF Supervise, StartCore, BinaryMissing, PassHealthCheck, FailHealthCheck,
                CoreCrash, CountProbationCrash, DetectCrashLoop, CoreExit, RollBackOr,
                Running
  <1>3. CASE Handoff
    BY <1>3 DEF Handoff, HandoffRefused, HandoffAccepted, SwitchPrevious,
                SwitchCurrent, SwitchPending, SwitchProbation
  <1>4. CASE Rollback
    BY <1>4 DEF Rollback, BackCurrent, BackPending, BackQuarantine, BackRecord, BackDone
  <1> QED
    BY <1>1, <1>2, <1>3, <1>4

LEMMA InPlaceInductive ==
  ASSUME "disk" \notin FaultKinds
  PROVE  /\ Init => InPlace
         /\ InPlace /\ TypeInv /\ [Next]_vars => InPlace'
  <1>1. Init => InPlace
    BY DEF Init, InPlace, Steady, Switching, SwitchingBack
  <1>2. ASSUME InPlace, TypeInv, [Next]_vars
        PROVE  InPlace'
    <2> USE DEF InPlace, Steady, Switching, SwitchingBack, disk, ledger, others, memory,
                history
    <2>1. CASE Boot \/ Supervise \/ Handoff \/ Rollback
      BY <1>2, <2>1, InPlaceMain
    <2>2. CASE Commit
      BY <1>2, <2>2 DEF Commit, CommitSurvivor, ClearProbation, ReadPointer, ReadPointerFails, DeleteUnkept
    <2>3. CASE Agent
      BY <1>2, <2>3 DEF Agent, BeginStage, BeginStageUnread, Download, RemoveOldCopy, RenameIntoPlace, WritePending,
                        RequestHandoff, TakeOverRecord, Running
    <2>4. CASE \E v \in Bundled : RunInstaller(v)
      BY <1>2, <2>4 DEF RunInstaller
    <2>5. CASE StartService \/ WindowExpires \/ CrashForgotten \/ StopService \/ PowerLoss
      BY <1>2, <2>5 DEF StartService, WindowExpires, CrashForgotten, StopService,
                        PowerLoss, LoseMemory
    <2>6. CASE DiskError \/ StageFails
      BY <2>6 DEF DiskError, StageFails, MayFault
    <2>7. CASE ReadError
      BY <1>2, <2>7 DEF ReadError
    <2>8. CASE UNCHANGED vars
      BY <1>2, <2>8 DEF vars
    <2> QED
      BY <1>2, <2>1, <2>2, <2>3, <2>4, <2>5, <2>6, <2>7, <2>8 DEF Next
  <1> QED
    BY <1>1, <1>2

\* Whatever power losses and service restarts happen, the version that runs is
\* the one current.json names (Supervisor.Run, switchTo, rollback), provided no
\* file operation fails: after a failed DeletePending the loop goes on with the
\* old version.
THEOREM RunsWhatCurrentNames ==
  ASSUME "disk" \notin FaultKinds
  PROVE  Spec => []RunsCurrent
  <1>1. InPlace => RunsCurrent
    BY DEF InPlace, RunsCurrent, Running, Steady
  <1> QED
    BY <1>1, TypeInvInductive, InPlaceInductive, PTL DEF Spec

-----------------------------------------------------------------------------
(* The service always finds a version it can start, whatever faults come:  *)
(* NeverBricked rests on every switch arming previous.json with the        *)
(* version that runs, and on the pruning goroutine keeping one of the two  *)
(* pointers' versions even when a switch or a rollback falls between its   *)
(* reads.  Nothing here assumes an orderly stop or a prompt commit.  What  *)
(* it does need is in PrunesWell.                                          *)

Supervising ==
  { "loop", "running", "crashed", "detect", "handoff", "switchPrevious",
    "switchCurrent", "backCurrent" }
HandingOff == {"handoff", "switchPrevious", "switchCurrent"} \cup Switching
Reading == {"readPrevious", "readPending", "delete"}

\* The version that runs is named by a pointer; a write that fails between the
\* two pointers leaves it in previous.json only.
RunIsNamed == step \in Supervising => run = current \/ previous = run

\* What the writes of a switch or a rollback have done when the next one is due.
PointersMoved ==
  /\ step \in {"switchCurrent"} \cup Switching => previous = run
  /\ step \in Switching => current = next
  /\ step = "switchProbation" => pending = NoVersion
  /\ step = "backCurrent" => next = previous /\ previous \notin {NoVersion, run}
  /\ step \in SwitchingBack => current = next /\ current = previous

\* What runs is in place; the agent lives inside it and only ever stages something
\* newer; a commit is over before a start.
RunInPlace ==
  /\ Running => run \in binaries
  /\ ~Running => agent.at = "idle"
  /\ agent.at # "idle" => agent.v > run
  /\ commit.at # "off" => step \notin Booting

\* The core that Bootstrap is about to activate came with a package and is in place.
BundleReady ==
  /\ bundle \in Bundled \cup {NoVersion}
  /\ step \in {"bootSwap"} \cup Upgrading => bundle \in binaries
  /\ step \in {"bootPrevious", "bootPending"} => current # NoVersion
  /\ step \in Upgrading /\ current # NoVersion => bundle > current
  /\ step \in {"bootPending", "bootCurrent"} /\ current # NoVersion => previous = current

\* What the pruning goroutine has read is enough to leave a version installed ...
PruneSparesOne ==
  /\ commit.at \in {"readPending", "delete"} => previous \in commit.keep
  /\ commit.at \in Reading =>
       \/ current \in commit.keep
       \/ commit.at = "readPrevious" /\ current = previous
       \/ previous \in binaries \ {current}

\* ... and it is the one that runs, if that may still be switched away from.
RunSpared == run \in commit.keep \/ (commit.at = "readPrevious" /\ previous = run)
MaySwitch ==
  /\ step \in Supervising \cup Switching
  /\ pending # NoVersion \/ agent.at # "idle" \/ step \in HandingOff
PruneSparesRun ==
  commit.at \in Reading /\ (MaySwitch \/ (Running /\ watch = "ended")) => RunSpared

\* current.json or previous.json names an installed version, unless Bootstrap was
\* cut short between the two writes that activate a newer bundled core.
Installed == current \in binaries \/ previous \in binaries \ {current}
CutShort ==
  /\ Unadopted
  /\ step \in Booting \cup {"loop"}
  /\ commit.at = "off"
  /\ step = "loop" => run = current
SomeInstalled == current = NoVersion \/ Installed \/ CutShort

\* What has just handed over, and what a rollback goes back to, is in place.
MovesInPlace ==
  /\ step \in HandingOff => run \in binaries
  /\ step = "backCurrent" => previous \in binaries

\* All of that as long as the prune is over before the next core has downloaded
\* anything, and could read the pointers.
PrunesWell == ~SlowPrune /\ ~unread
Spared == PruneSparesOne /\ PruneSparesRun /\ MovesInPlace /\ SomeInstalled

SafeInv ==
  /\ RunIsNamed /\ PointersMoved /\ RunInPlace /\ BundleReady
  /\ PrunesWell => Spared
  /\ unread => "read" \in FaultKinds

LEMMA BootSafe ==
  ASSUME TypeInv, SafeInv, Boot
  PROVE  SafeInv'
  <1> USE VersionsAreNumbers DEF TypeInv, TypeOK, NamesVersions, Targeted, Switching,
          SwitchingBack, Booting, Upgrading, Supervising, HandingOff, Reading, NoVersion,
          Running, disk, ledger, others, memory, history, SafeInv, RunIsNamed,
          PointersMoved, RunInPlace, BundleReady, PruneSparesOne, RunSpared, MaySwitch,
          PruneSparesRun, MovesInPlace, PrunesWell, Spared, SomeInstalled, Installed,
          CutShort, Unadopted, NotStarted, CanRollBack
  <1>1. CASE BootKnown
    BY <1>1 DEF BootKnown
  <1>2. CASE BootInstall
    BY <1>2 DEF BootInstall
  <1>3. CASE BootSwap
    <2>1. step = "bootSwap" /\ UNCHANGED <<disk, others>>
      BY <1>3 DEF BootSwap
    <2>2. CASE current = NoVersion
      <3>1. step' = "bootCurrent"
        BY <1>3, <2>2 DEF BootSwap
      <3> QED
        BY <2>1, <2>2, <3>1
    <2>3. CASE current # NoVersion /\ bundle > current
      <3>1. step' = "bootPrevious"
        BY <1>3, <2>3 DEF BootSwap
      <3> QED
        BY <2>1, <2>3, <3>1
    <2>4. CASE current # NoVersion /\ ~(bundle > current)
      <3>1. step' = "read"
        BY <1>3, <2>4 DEF BootSwap
      <3> QED
        BY <2>1, <3>1
    <2> QED
      BY <2>2, <2>3, <2>4
  <1>4. CASE BootPrevious
    BY <1>4 DEF BootPrevious
  <1>5. CASE BootPending
    BY <1>5 DEF BootPending
  <1>6. CASE BootCurrent
    BY <1>6 DEF BootCurrent
  <1>7. CASE ReadState
    <2>1. step = "read" /\ step' = "loop" /\ run' = current
          /\ UNCHANGED <<current, previous, pending, binaries, bundle, commit, agent, unread>>
      BY <1>7 DEF ReadState
    <2> QED
      BY <2>1
  <1>8. CASE NothingInstalled
    BY <1>8 DEF NothingInstalled
  <1> QED
    BY <1>1, <1>2, <1>3, <1>4, <1>5, <1>6, <1>7, <1>8 DEF Boot

LEMMA SuperviseSafe ==
  ASSUME TypeInv, SafeInv, Supervise
  PROVE  SafeInv'
  <1> USE VersionsAreNumbers DEF TypeInv, TypeOK, NamesVersions, Targeted, Switching,
          SwitchingBack, Booting, Upgrading, Supervising, HandingOff, Reading, NoVersion,
          Running, disk, ledger, others, memory, history, SafeInv, RunIsNamed,
          PointersMoved, RunInPlace, BundleReady, PruneSparesOne, RunSpared, MaySwitch,
          PruneSparesRun, MovesInPlace, PrunesWell, Spared, SomeInstalled, Installed,
          CutShort, Unadopted, NotStarted, CanRollBack
  <1>1. CASE StartCore
    BY <1>1 DEF StartCore
  <1>2. CASE BinaryMissing
    BY <1>2 DEF BinaryMissing, RollBackOr, CanRollBack
  <1>3. CASE PassHealthCheck
    BY <1>3 DEF PassHealthCheck
  <1>4. CASE FailHealthCheck
    BY <1>4 DEF FailHealthCheck, RollBackOr, CanRollBack, NoAgent
  <1>5. CASE CoreCrash
    BY <1>5 DEF CoreCrash, NoAgent
  <1>6. CASE CountProbationCrash
    BY <1>6 DEF CountProbationCrash, RollBackOr, CanRollBack
  <1>7. CASE DetectCrashLoop
    BY <1>7 DEF DetectCrashLoop, RollBackOr, CanRollBack
  <1>8. CASE CoreExit
    BY <1>8 DEF CoreExit, NoAgent
  <1> QED
    BY <1>1, <1>2, <1>3, <1>4, <1>5, <1>6, <1>7, <1>8 DEF Supervise

LEMMA HandoffSafe ==
  ASSUME TypeInv, SafeInv, Handoff
  PROVE  SafeInv'
  <1> USE VersionsAreNumbers DEF TypeInv, TypeOK, NamesVersions, Targeted, Switching,
          SwitchingBack, Booting, Upgrading, Supervising, HandingOff, Reading, NoVersion,
          Running, disk, ledger, others, memory, history, SafeInv, RunIsNamed,
          PointersMoved, RunInPlace, BundleReady, PruneSparesOne, RunSpared, MaySwitch,
          PruneSparesRun, MovesInPlace, PrunesWell, Spared, SomeInstalled, Installed,
          CutShort, Unadopted, NotStarted, CanRollBack
  <1>1. CASE HandoffRefused
    BY <1>1 DEF HandoffRefused
  <1>2. CASE HandoffAccepted
    BY <1>2 DEF HandoffAccepted
  <1>3. CASE SwitchPrevious
    BY <1>3 DEF SwitchPrevious
  <1>4. CASE SwitchCurrent
    BY <1>4 DEF SwitchCurrent
  <1>5. CASE SwitchPending
    BY <1>5 DEF SwitchPending
  <1>6. CASE SwitchProbation
    BY <1>6 DEF SwitchProbation
  <1> QED
    BY <1>1, <1>2, <1>3, <1>4, <1>5, <1>6 DEF Handoff

LEMMA RollbackSafe ==
  ASSUME TypeInv, SafeInv, Rollback
  PROVE  SafeInv'
  <1> USE VersionsAreNumbers DEF TypeInv, TypeOK, NamesVersions, Targeted, Switching,
          SwitchingBack, Booting, Upgrading, Supervising, HandingOff, Reading, NoVersion,
          Running, disk, ledger, others, memory, history, SafeInv, RunIsNamed,
          PointersMoved, RunInPlace, BundleReady, PruneSparesOne, RunSpared, MaySwitch,
          PruneSparesRun, MovesInPlace, PrunesWell, Spared, SomeInstalled, Installed,
          CutShort, Unadopted, NotStarted, CanRollBack
  <1>1. CASE BackCurrent
    BY <1>1 DEF BackCurrent
  <1>2. CASE BackPending
    BY <1>2 DEF BackPending
  <1>3. CASE BackQuarantine
    BY <1>3 DEF BackQuarantine
  <1>4. CASE BackRecord
    BY <1>4 DEF BackRecord
  <1>5. CASE BackDone
    <2>1. ~window'.open
      BY <1>5 DEF BackDone, NoWindow
    <2> QED
      BY <1>5, <2>1 DEF BackDone
  <1> QED
    BY <1>1, <1>2, <1>3, <1>4, <1>5 DEF Rollback

LEMMA CommitSafe ==
  ASSUME TypeInv, SafeInv, Commit
  PROVE  SafeInv'
  <1> USE VersionsAreNumbers DEF TypeInv, TypeOK, NamesVersions, Targeted, Switching,
          SwitchingBack, Booting, Upgrading, Supervising, HandingOff, Reading, NoVersion,
          Running, disk, ledger, others, memory, history, SafeInv, RunIsNamed,
          PointersMoved, RunInPlace, BundleReady, PruneSparesOne, RunSpared, MaySwitch,
          PruneSparesRun, MovesInPlace, PrunesWell, Spared, SomeInstalled, Installed,
          CutShort, Unadopted, NotStarted, CanRollBack
  <1>1. CASE CommitSurvivor
    BY <1>1 DEF CommitSurvivor
  <1>2. CASE ClearProbation
    BY <1>2 DEF ClearProbation
  <1>3. CASE ReadPointer("readCurrent", current, "readPrevious")
    BY <1>3 DEF ReadPointer
  <1>4. CASE ReadPointer("readPrevious", previous, "readPending")
    BY <1>4 DEF ReadPointer
  <1>5. CASE ReadPointer("readPending", pending, "delete")
    BY <1>5 DEF ReadPointer
  <1>6. CASE DeleteUnkept
    BY <1>6 DEF DeleteUnkept, NoCommit
  <1>7. ASSUME NEW at \in Reads, NEW then \in Reads, ReadPointerFails(at, then)
        PROVE  SafeInv'
    BY <1>7 DEF ReadPointerFails, MayFault, Reads
  <1> QED
    BY <1>1, <1>2, <1>3, <1>4, <1>5, <1>6, <1>7 DEF Commit, Reads

LEMMA AgentSafe ==
  ASSUME TypeInv, SafeInv, Agent
  PROVE  SafeInv'
  <1> USE VersionsAreNumbers DEF TypeInv, TypeOK, NamesVersions, Targeted, Switching,
          SwitchingBack, Booting, Upgrading, Supervising, HandingOff, Reading, NoVersion,
          Running, disk, ledger, others, memory, history, SafeInv, RunIsNamed,
          PointersMoved, RunInPlace, BundleReady, PruneSparesOne, RunSpared, MaySwitch,
          PruneSparesRun, MovesInPlace, PrunesWell, Spared, SomeInstalled, Installed,
          CutShort, Unadopted, NotStarted, CanRollBack
  <1>1. CASE \E v \in Offered : BeginStage(v) \/ BeginStageUnread(v)
    BY <1>1 DEF BeginStage, BeginStageUnread, Download, MayFault
  <1>2. CASE RemoveOldCopy
    BY <1>2 DEF RemoveOldCopy
  <1>3. CASE RenameIntoPlace
    BY <1>3 DEF RenameIntoPlace
  <1>4. CASE WritePending
    BY <1>4 DEF WritePending, NoAgent
  <1>5. CASE RequestHandoff
    <2>1. pending # NoVersion
      BY <1>5, VersionAssumption DEF RequestHandoff, Staged
    <2> QED
      BY <1>5, <2>1 DEF RequestHandoff
  <1>6. CASE TakeOverRecord
    BY <1>6 DEF TakeOverRecord
  <1> QED
    BY <1>1, <1>2, <1>3, <1>4, <1>5, <1>6 DEF Agent

LEMMA EnvironmentSafe ==
  ASSUME TypeInv, SafeInv, Environment
  PROVE  SafeInv'
  <1> USE VersionsAreNumbers DEF TypeInv, TypeOK, NamesVersions, Targeted, Switching,
          SwitchingBack, Booting, Upgrading, Supervising, HandingOff, Reading, NoVersion,
          Running, disk, ledger, others, memory, history, SafeInv, RunIsNamed,
          PointersMoved, RunInPlace, BundleReady, PruneSparesOne, RunSpared, MaySwitch,
          PruneSparesRun, MovesInPlace, PrunesWell, Spared, SomeInstalled, Installed,
          CutShort, Unadopted, NotStarted, CanRollBack
  <1>1. ASSUME NEW v \in Bundled, RunInstaller(v)
        PROVE  SafeInv'
    <2>1. bundle \in Nat /\ v \in Nat /\ bundle < v /\ bundle' = v /\ step = "off"
          /\ UNCHANGED <<current, previous, binaries, step, commit>>
      BY <1>1, VersionAssumption DEF RunInstaller
    <2>2. Unadopted => Unadopted'
      <3>1. SUFFICES ASSUME previous = current, step \in NotStarted,
                            NEW b \in binaries \cap Bundled, current < b, b <= bundle
                     PROVE  Unadopted'
        OBVIOUS
      <3>2. b <= bundle'
        BY <2>1, <3>1, VersionAssumption
      <3> QED
        BY <2>1, <3>1, <3>2
    <2>3. unread' = unread /\ (PrunesWell => SomeInstalled')
      BY <1>1, <2>1, <2>2 DEF RunInstaller
    <2>4. /\ RunIsNamed' /\ PointersMoved' /\ RunInPlace'
          /\ PrunesWell => PruneSparesOne' /\ PruneSparesRun' /\ MovesInPlace'
      BY <1>1 DEF RunInstaller
    <2>5. BundleReady'
      BY <2>1
    <2> QED
      BY <2>3, <2>4, <2>5
  <1>2. CASE StartService
    BY <1>2 DEF StartService
  <1>3. CASE WindowExpires
    BY <1>3 DEF WindowExpires
  <1>4. CASE CrashForgotten
    BY <1>4 DEF CrashForgotten
  <1>5. CASE StopService
    BY <1>5 DEF StopService, LoseMemory, NoCommit, NoAgent
  <1>6. CASE PowerLoss
    BY <1>6 DEF PowerLoss, LoseMemory, NoCommit, NoAgent
  <1>7. CASE DiskError
    BY <1>7 DEF DiskError, MayFault
  <1>8. CASE StageFails
    BY <1>8 DEF StageFails, NoAgent
  <1>9. CASE ReadError
    BY <1>9 DEF ReadError, MayFault
  <1> QED
    BY <1>1, <1>2, <1>3, <1>4, <1>5, <1>6, <1>7, <1>8, <1>9 DEF Environment

LEMMA SafeInitial == Init => SafeInv
  BY DEF Init, SafeInv, RunIsNamed, PointersMoved, RunInPlace, BundleReady, PruneSparesOne,
         PruneSparesRun, MovesInPlace, Spared, SomeInstalled, Supervising, HandingOff,
         Switching, SwitchingBack, Upgrading, Reading, Running, NoCommit, NoAgent, NoVersion

LEMMA SafeInductive ==
  ASSUME TypeInv, SafeInv, [Next]_vars
  PROVE  SafeInv'
  <1>1. CASE UNCHANGED vars
    BY <1>1 DEF vars, disk, ledger, others, memory, history, SafeInv, RunIsNamed,
         PointersMoved, RunInPlace, BundleReady, PruneSparesOne, PruneSparesRun, RunSpared,
         MaySwitch, MovesInPlace, PrunesWell, Spared, SomeInstalled, Installed, CutShort,
         Unadopted, NotStarted, CanRollBack, Running
  <1> QED
    BY <1>1, BootSafe, SuperviseSafe, HandoffSafe, RollbackSafe, CommitSafe, AgentSafe,
       EnvironmentSafe DEF Next, Environment

\* Whatever restarts, power losses, failed writes, crashes, exits and installer
\* packages come in between, current.json or previous.json names an installed
\* version (Bootstrap, switchTo, rollback, PruneVersions), except while Bootstrap
\* has a newer bundled core to activate over the one that ran, and where a prune
\* could not read a pointer.  A prune left over from an earlier run of the core
\* must not outlast a download.
THEOREM AlwaysStartable ==
  ASSUME ~SlowPrune
  PROVE  Spec => []NeverBricked
  <1>1. TypeInv /\ SafeInv /\ [Next]_vars => SafeInv'
    BY SafeInductive
  <1>2. SafeInv => NeverBricked
    BY DEF SafeInv, PrunesWell, Spared, SomeInstalled, Installed, CutShort, NeverBricked
  <1> QED
    BY <1>1, <1>2, SafeInitial, TypeInvInductive, PTL DEF Spec

\* The same invariant says what runs: whatever fails or restarts, the running
\* core is in place and is the one that current.json names or, after a switch that
\* failed half way, the one that previous.json names (switchTo, Supervisor.Run).
THEOREM RunsWhatAPointerNames == Spec => []RunsANamedVersion
  <1>1. TypeInv /\ SafeInv /\ [Next]_vars => SafeInv'
    BY SafeInductive
  <1>2. SafeInv => RunsANamedVersion
    BY DEF SafeInv, RunIsNamed, RunInPlace, RunsANamedVersion, Running, Supervising
  <1> QED
    BY <1>1, <1>2, SafeInitial, TypeInvInductive, PTL DEF Spec

-----------------------------------------------------------------------------
(* What is staged is newer than what it replaces, as long as no write      *)
(* fails and the power holds: a loss between the writes of current.json    *)
(* and pending.json leaves the running version itself staged.              *)

StopsOnly == FaultKinds \subseteq {"stop"}

\* What is staged is newer than what it is going to replace.
StagedIsNewer ==
  /\ step \in Booting \cup Steady /\ pending # NoVersion => pending > current
  /\ current = NoVersion => pending = NoVersion
  /\ step \in {"bootCurrent", "switchProbation", "backQuarantine", "backRecord", "backDone"} =>
       pending = NoVersion
  /\ step = "handoff" => pending # NoVersion
  /\ step \in {"switchPrevious", "switchCurrent"} \cup Switching => next > run

LEMMA NoPowerOrDisk ==
  ASSUME StopsOnly
  PROVE  /\ "disk" \notin FaultKinds /\ "read" \notin FaultKinds
         /\ ~PowerLoss /\ ~DiskError /\ ~ReadError /\ ~StageFails
         /\ \A v : ~BeginStageUnread(v)
         /\ \A at, then : ~ReadPointerFails(at, then)
  BY DEF StopsOnly, PowerLoss, DiskError, ReadError, StageFails, BeginStageUnread,
         ReadPointerFails, MayFault

LEMMA WritesSucceed ==
  ASSUME StopsOnly, NEW file, WriteProbation(file)
  PROVE  probation' = file
  BY DEF StopsOnly, WriteProbation, MayFault

\* The steps of the launcher's main goroutine.
LEMMA MainStaged ==
  ASSUME StopsOnly, TypeInv, InPlace, SafeInv, StagedIsNewer,
         Boot \/ Supervise \/ Handoff \/ Rollback
  PROVE  StagedIsNewer'
  <1> USE VersionsAreNumbers DEF TypeInv, TypeOK, NamesVersions, Targeted, Switching,
          SwitchingBack, Booting, Upgrading, Steady, NoVersion, Running, disk, ledger,
          others, memory, history, InPlace, StagedIsNewer
  <1>1. CASE Boot
    <2>1. step \in Upgrading /\ current # NoVersion => bundle > current
      BY DEF SafeInv, BundleReady
    <2>2. current \in Nat /\ bundle \in Nat /\ pending \in Nat
      OBVIOUS
    <2> QED
      BY <1>1, <2>1, <2>2 DEF Boot, BootKnown, BootInstall, BootSwap, BootPrevious, BootPending,
                  BootCurrent, ReadState, NothingInstalled
  <1>2. CASE Supervise
    BY <1>2 DEF Supervise, StartCore, BinaryMissing, PassHealthCheck, FailHealthCheck,
                CoreCrash, CountProbationCrash, DetectCrashLoop, CoreExit, RollBackOr
  <1>3. CASE Handoff
    BY <1>3 DEF Handoff, HandoffRefused, HandoffAccepted, SwitchPrevious,
                SwitchCurrent, SwitchPending, SwitchProbation
  <1>4. CASE Rollback
    BY <1>4 DEF Rollback, BackCurrent, BackPending, BackQuarantine, BackRecord, BackDone
  <1> QED
    BY <1>1, <1>2, <1>3, <1>4

LEMMA StagedInductive ==
  ASSUME StopsOnly, TypeInv, InPlace, SafeInv, StagedIsNewer, [Next]_vars
  PROVE  StagedIsNewer'
  <1> USE VersionsAreNumbers DEF TypeInv, TypeOK, NamesVersions, Targeted, Switching,
          SwitchingBack, Booting, Upgrading, Steady, NoVersion, Running, disk, ledger,
          others, memory, history, InPlace, StagedIsNewer
  <1>1. CASE Boot \/ Supervise \/ Handoff \/ Rollback
    BY <1>1, MainStaged
  <1>2. CASE Commit
    BY <1>2 DEF Commit, CommitSurvivor, ClearProbation, ReadPointer, ReadPointerFails, DeleteUnkept
  <1>3. CASE WritePending
    BY <1>3 DEF WritePending, SafeInv, RunInPlace
  <1>4. CASE RequestHandoff
    BY <1>4, VersionAssumption DEF RequestHandoff, Staged
  <1>5. CASE (\E v \in Offered : BeginStage(v)) \/ RemoveOldCopy \/ RenameIntoPlace
             \/ TakeOverRecord
    BY <1>5 DEF BeginStage, Download, RemoveOldCopy, RenameIntoPlace, TakeOverRecord
  <1>6. CASE StartService \/ WindowExpires \/ CrashForgotten \/ StopService
             \/ \E v \in Bundled : RunInstaller(v)
    BY <1>6 DEF StartService, WindowExpires, CrashForgotten, StopService, LoseMemory,
                RunInstaller
  <1>7. CASE UNCHANGED vars
    BY <1>7 DEF vars
  <1> QED
    BY <1>1, <1>2, <1>3, <1>4, <1>5, <1>6, <1>7, NoPowerOrDisk DEF Next, Agent

LEMMA StagedInitial == Init => StagedIsNewer
  BY DEF Init, StagedIsNewer, Steady, Booting, Upgrading, Switching, NoVersion

-----------------------------------------------------------------------------
(* A version on probation always has somewhere to go back to.  WayBack     *)
(* rests on what is staged being newer than what runs, on probation.json   *)
(* and previous.json surviving a restart together, and on the pruning of   *)
(* old versions sparing the one to go back to.                             *)

\* A window in probation.json is the one the launcher has open, and with the
\* launcher down it is current.json's or was overtaken by an installer package.
FileInv ==
  probation.open =>
    /\ probation.version # NoVersion
    /\ step \in Steady => window.open /\ probation.version = run
    /\ step \in Booting => probation.version = current \/ probation.version < bundle

\* The version before it, while the window is open in memory, and while only
\* probation.json knows it.
Older(v) == previous \in binaries /\ previous # NoVersion /\ previous < v
TargetKept ==
  /\ window.open /\ step \in {"loop", "running", "crashed", "detect", "handoff", "backCurrent"} =>
       Older(run)
  /\ /\ step \in Booting \ {"bootPending", "bootCurrent"}
     /\ probation.open /\ probation.version = current
     => Older(current)

\* The goroutine that prunes the old versions reads the pointers one by one, and
\* a switch may fall in between: the version whose window it ended is among the
\* ones it keeps for as long as that one runs or is the one to go back to.
InUse(v) == (run = v /\ step \notin SwitchingBack) \/ previous = v
PruneSpares ==
  commit.at # "off" =>
    /\ pending # NoVersion \/ agent.at # "idle" \/ step \in HandingOff => run = commit.of
    /\ Running /\ watch = "ended" => run = commit.of
    /\ window.open => previous = commit.of
    /\ InUse(commit.of) =>
         /\ commit.at \in {"clear", "readCurrent"} => commit.of \in {current, previous}
         /\ commit.at = "readPrevious" => commit.of \in commit.keep \cup {previous}
         /\ commit.at \in {"readPending", "delete"} => commit.of \in commit.keep

WayInv == FileInv /\ TargetKept /\ PruneSpares

\* What holds before every step of this section.
BeforeWay ==
  /\ StopsOnly /\ ~SlowPrune
  /\ TypeInv /\ InPlace /\ SafeInv /\ StagedIsNewer /\ WayInv

LEMMA BootWay ==
  ASSUME BeforeWay, Boot
  PROVE  WayInv'
  <1> USE VersionsAreNumbers DEF BeforeWay, StopsOnly, InPlace, TypeInv, TypeOK,
          NamesVersions, Steady, Switching, SwitchingBack, Targeted, Booting, Upgrading,
          disk, ledger, others, memory, history, NoVersion, Running, SafeInv, RunInPlace,
          BundleReady, PointersMoved, PrunesWell, Spared, MovesInPlace, StagedIsNewer, WayInv, FileInv, TargetKept,
          PruneSpares, HandingOff, Older, InUse
  <1>1. CASE BootKnown
    BY <1>1 DEF BootKnown
  <1>2. CASE BootInstall
    BY <1>2 DEF BootInstall
  <1>3. CASE BootSwap
    BY <1>3 DEF BootSwap
  <1>4. CASE BootPrevious
    BY <1>4 DEF BootPrevious
  <1>5. CASE BootPending
    BY <1>5 DEF BootPending
  <1>6. CASE BootCurrent
    BY <1>6 DEF BootCurrent
  <1>7. CASE ReadState
    <2> DEFINE live == probation.version = current /\ probation.open
    <2>1. step = "read" /\ step' = "loop" /\ run' = current /\ current # NoVersion
          /\ UNCHANGED <<current, previous, pending, binaries, bundle, commit, agent, next>>
      BY <1>7 DEF ReadState
    <2>2. /\ window'.open => live
          /\ probation'.open => live /\ probation' = probation /\ window'.open
      BY <1>7 DEF ReadState, NoWindow, NoFile
    <2>3. FileInv'
      BY <2>1, <2>2
    <2> QED
      BY <2>1, <2>2, <2>3
  <1>8. CASE NothingInstalled
    BY <1>8 DEF NothingInstalled
  <1> QED
    BY <1>1, <1>2, <1>3, <1>4, <1>5, <1>6, <1>7, <1>8 DEF Boot

LEMMA SuperviseWay ==
  ASSUME BeforeWay, Supervise
  PROVE  WayInv'
  <1> USE VersionsAreNumbers DEF BeforeWay, StopsOnly, InPlace, TypeInv, TypeOK,
          NamesVersions, Steady, Switching, SwitchingBack, Targeted, Booting, Upgrading,
          disk, ledger, others, memory, history, NoVersion, Running, SafeInv, RunInPlace,
          BundleReady, PointersMoved, PrunesWell, Spared, MovesInPlace, StagedIsNewer, WayInv, FileInv, TargetKept,
          PruneSpares, HandingOff, Older, InUse
  <1>1. CASE StartCore
    BY <1>1 DEF StartCore
  <1>2. CASE BinaryMissing
    BY <1>2 DEF BinaryMissing, RollBackOr, CanRollBack
  <1>3. CASE PassHealthCheck
    BY <1>3 DEF PassHealthCheck
  <1>4. CASE FailHealthCheck
    BY <1>4 DEF FailHealthCheck, RollBackOr, CanRollBack, NoAgent
  <1>5. CASE CoreCrash
    BY <1>5 DEF CoreCrash, NoAgent
  <1>6. CASE CountProbationCrash
    <2> DEFINE n == Increment(window.crashes, ProbationLimit)
    <2>1. window.open \in BOOLEAN
      BY DEF Window
    <2>2. probation' = [version |-> run, open |-> window.open, crashes |-> n]
      BY <1>6, WritesSucceed DEF CountProbationCrash
    <2>3. window' = [window EXCEPT !.crashes = n]
      BY <1>6 DEF CountProbationCrash
    <2> HIDE DEF n
    <2>4. window'.open = window.open
      BY <2>3 DEF Window
    <2>5. FileInv'
      BY <1>6, <2>1, <2>2, <2>4 DEF CountProbationCrash, RollBackOr, CanRollBack
    <2> QED
      BY <1>6, <2>4, <2>5 DEF CountProbationCrash, RollBackOr, CanRollBack
  <1>7. CASE DetectCrashLoop
    BY <1>7 DEF DetectCrashLoop, RollBackOr, CanRollBack
  <1>8. CASE CoreExit
    BY <1>8 DEF CoreExit, NoAgent
  <1> QED
    BY <1>1, <1>2, <1>3, <1>4, <1>5, <1>6, <1>7, <1>8 DEF Supervise

LEMMA HandoffWay ==
  ASSUME BeforeWay, Handoff
  PROVE  WayInv'
  <1> USE VersionsAreNumbers DEF BeforeWay, StopsOnly, InPlace, TypeInv, TypeOK,
          NamesVersions, Steady, Switching, SwitchingBack, Targeted, Booting, Upgrading,
          disk, ledger, others, memory, history, NoVersion, Running, SafeInv, RunInPlace,
          BundleReady, PointersMoved, PrunesWell, Spared, MovesInPlace, StagedIsNewer, WayInv, FileInv, TargetKept,
          PruneSpares, HandingOff, Older, InUse
  <1>1. CASE HandoffRefused
    BY <1>1 DEF HandoffRefused
  <1>2. CASE HandoffAccepted
    BY <1>2 DEF HandoffAccepted
  <1>3. CASE SwitchPrevious
    BY <1>3 DEF SwitchPrevious
  <1>4. CASE SwitchCurrent
    BY <1>4 DEF SwitchCurrent
  <1>5. CASE SwitchPending
    BY <1>5 DEF SwitchPending
  <1>6. CASE SwitchProbation
    <2>1. window' = [open |-> TRUE, crashes |-> 0]
          /\ probation' = [version |-> next, open |-> TRUE, crashes |-> 0]
      BY <1>6, WritesSucceed DEF SwitchProbation
    <2>2. step = "switchProbation" /\ step' = "loop" /\ run' = next
      BY <1>6 DEF SwitchProbation
    <2>3. window'.open /\ FileInv'
      BY <2>1, <2>2
    <2> QED
      BY <1>6, <2>3 DEF SwitchProbation
  <1> QED
    BY <1>1, <1>2, <1>3, <1>4, <1>5, <1>6 DEF Handoff

LEMMA RollbackWay ==
  ASSUME BeforeWay, Rollback
  PROVE  WayInv'
  <1> USE VersionsAreNumbers DEF BeforeWay, StopsOnly, InPlace, TypeInv, TypeOK,
          NamesVersions, Steady, Switching, SwitchingBack, Targeted, Booting, Upgrading,
          disk, ledger, others, memory, history, NoVersion, Running, SafeInv, RunInPlace,
          BundleReady, PointersMoved, PrunesWell, Spared, MovesInPlace, StagedIsNewer, WayInv, FileInv, TargetKept,
          PruneSpares, HandingOff, Older, InUse
  <1>1. CASE BackCurrent
    BY <1>1 DEF BackCurrent
  <1>2. CASE BackPending
    BY <1>2 DEF BackPending
  <1>3. CASE BackQuarantine
    BY <1>3 DEF BackQuarantine
  <1>4. CASE BackRecord
    BY <1>4 DEF BackRecord
  <1>5. CASE BackDone
    <2>1. ~window'.open /\ ~probation'.open
      BY <1>5, WritesSucceed DEF BackDone, NoWindow, NoFile
    <2> QED
      BY <1>5, <2>1 DEF BackDone
  <1> QED
    BY <1>1, <1>2, <1>3, <1>4, <1>5 DEF Rollback

LEMMA CommitWay ==
  ASSUME BeforeWay, Commit
  PROVE  WayInv'
  <1> USE VersionsAreNumbers DEF BeforeWay, StopsOnly, InPlace, TypeInv, TypeOK,
          NamesVersions, Steady, Switching, SwitchingBack, Targeted, Booting, Upgrading,
          disk, ledger, others, memory, history, NoVersion, Running, SafeInv, RunInPlace,
          BundleReady, PointersMoved, PrunesWell, Spared, MovesInPlace, StagedIsNewer, WayInv, FileInv, TargetKept,
          PruneSpares, HandingOff, Older, InUse
  <1>1. CASE CommitSurvivor
    BY <1>1 DEF CommitSurvivor
  <1>2. CASE ClearProbation
    <2>1. ~probation'.open
      BY <1>2, WritesSucceed DEF ClearProbation, NoFile
    <2> QED
      BY <1>2, <2>1 DEF ClearProbation
  <1>3. CASE ReadPointer("readCurrent", current, "readPrevious")
    BY <1>3 DEF ReadPointer
  <1>4. CASE ReadPointer("readPrevious", previous, "readPending")
    BY <1>4 DEF ReadPointer
  <1>5. CASE ReadPointer("readPending", pending, "delete")
    BY <1>5 DEF ReadPointer
  <1>6. CASE DeleteUnkept
    BY <1>6 DEF DeleteUnkept, NoCommit
  <1>7. ASSUME NEW at \in Reads, NEW then \in Reads, ReadPointerFails(at, then)
        PROVE  WayInv'
    BY <1>7 DEF ReadPointerFails, MayFault, Reads
  <1> QED
    BY <1>1, <1>2, <1>3, <1>4, <1>5, <1>6, <1>7 DEF Commit, Reads

LEMMA AgentWay ==
  ASSUME BeforeWay, Agent
  PROVE  WayInv'
  <1> USE VersionsAreNumbers DEF BeforeWay, StopsOnly, InPlace, TypeInv, TypeOK,
          NamesVersions, Steady, Switching, SwitchingBack, Targeted, Booting, Upgrading,
          disk, ledger, others, memory, history, NoVersion, Running, SafeInv, RunInPlace,
          BundleReady, PointersMoved, PrunesWell, Spared, MovesInPlace, StagedIsNewer, WayInv, FileInv, TargetKept,
          PruneSpares, HandingOff, Older, InUse
  <1>1. CASE \E v \in Offered : BeginStage(v) \/ BeginStageUnread(v)
    BY <1>1 DEF BeginStage, BeginStageUnread, Download, MayFault
  <1>2. CASE RemoveOldCopy
    BY <1>2 DEF RemoveOldCopy
  <1>3. CASE RenameIntoPlace
    BY <1>3 DEF RenameIntoPlace
  <1>4. CASE WritePending
    BY <1>4 DEF WritePending, NoAgent
  <1>5. CASE RequestHandoff
    <2>1. pending # NoVersion
      BY <1>5, VersionAssumption DEF RequestHandoff, Staged
    <2> QED
      BY <1>5, <2>1 DEF RequestHandoff
  <1>6. CASE TakeOverRecord
    BY <1>6 DEF TakeOverRecord
  <1> QED
    BY <1>1, <1>2, <1>3, <1>4, <1>5, <1>6 DEF Agent

LEMMA EnvironmentWay ==
  ASSUME BeforeWay, Environment
  PROVE  WayInv'
  <1> USE VersionsAreNumbers DEF BeforeWay, StopsOnly, InPlace, TypeInv, TypeOK,
          NamesVersions, Steady, Switching, SwitchingBack, Targeted, Booting, Upgrading,
          disk, ledger, others, memory, history, NoVersion, Running, SafeInv, RunInPlace,
          BundleReady, PointersMoved, PrunesWell, Spared, MovesInPlace, StagedIsNewer, WayInv, FileInv, TargetKept,
          PruneSpares, HandingOff, Older, InUse
  <1>1. ASSUME NEW v \in Bundled, RunInstaller(v)
        PROVE  WayInv'
    <2>1. bundle < v /\ bundle' = v /\ bundle \in Nat /\ v \in Nat
      BY <1>1, VersionAssumption DEF RunInstaller
    <2>2. probation.version \in Nat
      BY DEF ProbationFile
    <2>3. FileInv'
      BY <1>1, <2>1, <2>2 DEF RunInstaller
    <2> QED
      BY <1>1, <2>3 DEF RunInstaller
  <1>2. CASE StartService
    BY <1>2 DEF StartService
  <1>3. CASE WindowExpires
    BY <1>3 DEF WindowExpires
  <1>4. CASE CrashForgotten
    BY <1>4 DEF CrashForgotten
  <1>5. CASE StopService
    BY <1>5 DEF StopService, LoseMemory, NoCommit, NoAgent
  <1>6. CASE PowerLoss
    BY <1>6 DEF PowerLoss, MayFault
  <1>7. CASE DiskError
    BY <1>7 DEF DiskError, MayFault
  <1>8. CASE StageFails
    BY <1>8 DEF StageFails, MayFault
  <1>9. CASE ReadError
    BY <1>9 DEF ReadError, MayFault
  <1> QED
    BY <1>1, <1>2, <1>3, <1>4, <1>5, <1>6, <1>7, <1>8, <1>9 DEF Environment

LEMMA WayInitial == Init => WayInv
  BY DEF Init, WayInv, FileInv, TargetKept, PruneSpares, HandingOff, Steady, Booting,
         Upgrading, Switching, SwitchingBack, NoAgent, NoCommit, NoWindow, NoFile, Running

LEMMA WayInductive ==
  ASSUME StopsOnly, ~SlowPrune, TypeInv, InPlace, SafeInv, StagedIsNewer, WayInv,
         [Next]_vars
  PROVE  WayInv'
  <1>1. BeforeWay
    BY DEF BeforeWay
  <1>2. CASE UNCHANGED vars
    BY <1>2 DEF vars, disk, ledger, others, memory, history, WayInv, FileInv,
                TargetKept, PruneSpares, Older, InUse, Running
  <1> QED
    BY <1>1, <1>2, BootWay, SuperviseWay, HandoffWay, RollbackWay, CommitWay, AgentWay,
       EnvironmentWay DEF Next, Environment

\* Whatever orderly restarts, crashes, exits and installer packages come in
\* between, the launcher can go back from a version on probation: previous.json
\* names an older installed version (switchTo, Bootstrap, Supervisor.Run, and the
\* pruning in runChild).
THEOREM WayBackKept ==
  ASSUME StopsOnly, ~SlowPrune
  PROVE  Spec => []WayBack
  <1>1. "disk" \notin FaultKinds
    BY NoPowerOrDisk
  <1>2. TypeInv /\ InPlace /\ SafeInv /\ StagedIsNewer /\ WayInv /\ [Next]_vars
          => SafeInv' /\ StagedIsNewer' /\ WayInv'
    BY SafeInductive, StagedInductive, WayInductive
  <1>3. TypeInv /\ WayInv => WayBack
    <2>1. SUFFICES ASSUME TypeInv, WayInv, window.open,
                          step \in {"loop", "running", "crashed", "detect"}
                   PROVE  CanRollBack
      BY DEF WayBack
    <2>2. Older(run) /\ previous \in Nat /\ run \in Nat
      BY <2>1, VersionsAreNumbers DEF WayInv, TargetKept, TypeInv, TypeOK
    <2> QED
      BY <2>2 DEF Older, CanRollBack
  <1> QED
    BY <1>1, <1>2, <1>3, SafeInitial, StagedInitial, WayInitial, TypeInvInductive,
       InPlaceInductive, PTL DEF Spec

-----------------------------------------------------------------------------
(* A version that was rolled back never comes back.                        *)

\* failed_versions.json has room for every release there is.
QuarantineHolds == IsFiniteSet(Version) /\ Cardinality(Version) <= QuarantineCap

\* NoFlap rests on the quarantine holding every version rolled back, but for the
\* moment a rollback is about to write it there, and on nothing of that kind
\* being staged.
NoDuplicates ==
  \A i, j \in 1..Len(quarantine) : quarantine[i] = quarantine[j] => i = j
FlapInv ==
  /\ NoDuplicates
  /\ abandoned \subseteq
       Quarantined \cup IF step \in {"backPending", "backQuarantine"} THEN {run} ELSE {}
  /\ pending \in abandoned => step = "backPending"
  /\ agent.at # "idle" => agent.v \notin abandoned
  /\ NoFlap

\* With room for every release no entry ever falls out.
LEMMA RememberAll ==
  ASSUME QuarantineHolds, TypeOK, NoDuplicates, NEW v \in Version,
         quarantine' = Remember(quarantine, v)
  PROVE  NoDuplicates' /\ Quarantined' = Quarantined \cup {v}
  <1> DEFINE n == Len(quarantine)
  <1>1. quarantine \in Seq(Version) /\ n \in Nat
    BY DEF TypeOK
  <1>2. CASE v \in Quarantined
    <2>1. quarantine' = quarantine
      BY <1>2 DEF Remember, Quarantined
    <2> QED
      BY <1>2, <2>1 DEF NoDuplicates, Quarantined
  <1>3. CASE v \notin Quarantined
    <2>1. quarantine \in Injection(1..n, Version \ {v})
      <3>1. quarantine \in [1..n -> Version \ {v}]
        BY <1>1, <1>3 DEF Quarantined
      <3> QED
        BY <3>1 DEF NoDuplicates, Injection, IsInjective
    <2>2. IsFiniteSet(Version \ {v}) /\ Cardinality(Version \ {v}) = Cardinality(Version) - 1
          /\ Cardinality(Version) \in Nat
      BY FS_RemoveElement, FS_CardinalityType DEF QuarantineHolds
    <2>3. n <= Cardinality(Version \ {v})
      <3>1. IsFiniteSet(1..n) /\ Cardinality(1..n) = n
        BY <1>1, FS_Interval
      <3> QED
        BY <2>1, <2>2, <3>1, FS_Injection
    <2>4. ~(Len(quarantine) >= QuarantineCap)
      BY <1>1, <2>2, <2>3, BoundAssumption DEF QuarantineHolds
    <2>5. quarantine' = Append(quarantine, v)
      BY <1>3, <2>4 DEF Remember, Quarantined
    <2>6. Len(quarantine') = n + 1 /\ quarantine'[n + 1] = v
          /\ \A i \in 1..n : quarantine'[i] = quarantine[i]
      BY <1>1, <2>5
    <2>7. NoDuplicates'
      <3>1. \A i \in 1..n : quarantine[i] # v
        BY <1>3 DEF Quarantined
      <3> QED
        BY <1>1, <2>6, <3>1 DEF NoDuplicates
    <2>8. Quarantined' = Quarantined \cup {v}
      BY <1>1, <2>6 DEF Quarantined
    <2> QED
      BY <2>7, <2>8
  <1> QED
    BY <1>2, <1>3

\* Steps that roll nothing back and quarantine nothing.
LEMMA KeepsBanned ==
  ASSUME FlapInv, UNCHANGED <<quarantine, abandoned>>,
         step \notin {"backPending", "backQuarantine"}
  PROVE  NoDuplicates' /\ abandoned' \subseteq Quarantined'
  BY DEF FlapInv, NoDuplicates, Quarantined

LEMMA RollbackFlap ==
  ASSUME QuarantineHolds, TypeInv, SafeInv, FlapInv, Rollback
  PROVE  FlapInv'
  <1>1. agent.at = "idle" /\ abandoned \subseteq Version /\ NoVersion \notin abandoned
    <2>1. step # "running"
      BY DEF Rollback, BackCurrent, BackPending, BackQuarantine, BackRecord, BackDone
    <2> QED
      BY <2>1, VersionAssumption DEF SafeInv, RunInPlace, TypeInv, TypeOK, Running
  <1>2. agent' = agent
    BY DEF Rollback, BackCurrent, BackPending, BackQuarantine, BackRecord, BackDone, others
  <1>3. step' \notin {"switchPrevious", "switchCurrent"}
    BY DEF Rollback, BackCurrent, BackPending, BackQuarantine, BackRecord, BackDone
  <1>4. CASE BackCurrent
    <2>1. UNCHANGED <<quarantine, run, pending>> /\ step' = "backPending" /\ step = "backCurrent"
          /\ abandoned' = abandoned \cup {run}
      BY <1>4 DEF BackCurrent, ledger, memory
    <2> QED
      BY <1>1, <1>2, <1>3, <2>1 DEF FlapInv, NoDuplicates, Quarantined, NoFlap
  <1>5. CASE BackPending
    <2>1. UNCHANGED <<quarantine, run, abandoned>> /\ step' = "backQuarantine"
          /\ step = "backPending" /\ pending' = NoVersion
      BY <1>5 DEF BackPending, ledger, others, memory, history
    <2> QED
      BY <1>1, <1>2, <1>3, <2>1 DEF FlapInv, NoDuplicates, Quarantined, NoFlap
  <1>6. CASE BackQuarantine
    <2>1. UNCHANGED <<run, abandoned, pending>> /\ step' = "backRecord"
          /\ step = "backQuarantine" /\ quarantine' = Remember(quarantine, run)
      BY <1>6 DEF BackQuarantine, others, memory, history
    <2>2. run \in Version
      BY <2>1 DEF TypeInv, TypeOK, NamesVersions, Booting, Upgrading, MaybeVersion
    <2>3. NoDuplicates' /\ Quarantined' = Quarantined \cup {run}
      BY <2>1, <2>2, RememberAll DEF TypeInv, FlapInv
    <2> QED
      BY <1>1, <1>2, <1>3, <2>1, <2>3 DEF FlapInv, NoFlap
  <1>7. CASE BackRecord \/ BackDone
    <2>1. UNCHANGED <<abandoned, pending, quarantine>> /\ step \in {"backRecord", "backDone"}
          /\ step' \in {"backDone", "loop"}
      BY <1>7 DEF BackRecord, BackDone, others, history
    <2> QED
      BY <1>1, <1>2, <1>3, <2>1, KeepsBanned DEF FlapInv, NoFlap
  <1> QED
    BY <1>4, <1>5, <1>6, <1>7 DEF Rollback

\* A step that rolls nothing back, stages nothing and starts no switch.
LEMMA QuietFlap ==
  ASSUME TypeInv, FlapInv, UNCHANGED <<quarantine, abandoned>>,
         step \notin {"backPending", "backQuarantine"},
         pending' \in {pending, NoVersion},
         \/ agent' \in {agent, NoAgent}
         \/ agent'.v = agent.v /\ agent.at # "idle",
         \/ step' \notin {"switchPrevious", "switchCurrent"}
         \/ next' = next /\ step = "switchPrevious"
  PROVE  FlapInv'
  <1>1. NoVersion \notin abandoned
    BY VersionAssumption DEF TypeInv, TypeOK
  <1>2. NoDuplicates' /\ abandoned' \subseteq Quarantined'
    BY KeepsBanned
  <1>3. pending' \notin abandoned'
    BY <1>1 DEF FlapInv
  <1>4. agent'.at # "idle" => agent'.v \notin abandoned'
    BY DEF FlapInv, NoAgent
  <1>5. NoFlap'
    BY DEF FlapInv, NoFlap
  <1> QED
    BY <1>2, <1>3, <1>4, <1>5 DEF FlapInv

LEMMA FlapInductive ==
  ASSUME StopsOnly, QuarantineHolds, TypeInv, SafeInv, FlapInv, [Next]_vars
  PROVE  FlapInv'
  <1>1. abandoned \subseteq Version /\ NoVersion \notin abandoned
    BY VersionAssumption DEF TypeInv, TypeOK
  <1>2. CASE Rollback
    BY <1>2, RollbackFlap
  <1>4. CASE Boot
    <2>1. /\ UNCHANGED <<quarantine, abandoned, agent, next>>
          /\ step \notin {"backPending", "backQuarantine"}
          /\ pending' \in {pending, NoVersion}
          /\ step' \notin {"switchPrevious", "switchCurrent"}
      BY <1>4 DEF Boot, BootKnown, BootInstall, BootSwap, BootPrevious, BootPending,
                  BootCurrent, ReadState, NothingInstalled, disk, ledger, others, memory,
                  history
    <2> QED
      BY <2>1, QuietFlap
  <1>5. CASE Supervise
    <2>1. /\ UNCHANGED <<quarantine, abandoned, pending>> /\ agent' \in {agent, NoAgent}
          /\ step \notin {"backPending", "backQuarantine"}
          /\ step' \notin {"switchPrevious", "switchCurrent"}
      BY <1>5 DEF Supervise, StartCore, BinaryMissing, PassHealthCheck, FailHealthCheck,
                  CoreCrash, CountProbationCrash, DetectCrashLoop, CoreExit, RollBackOr,
                  Running, disk, ledger, history
    <2> QED
      BY <2>1, QuietFlap
  <1>6. CASE HandoffAccepted
    <2>1. UNCHANGED <<quarantine, abandoned, pending, agent>> /\ step = "handoff"
          /\ next' = pending
      BY <1>6 DEF HandoffAccepted, disk, ledger, history
    <2> QED
      BY <1>1, <2>1, KeepsBanned DEF FlapInv, NoFlap
  <1>7. CASE HandoffRefused \/ SwitchPrevious \/ SwitchCurrent \/ SwitchPending
               \/ SwitchProbation
    <2>1. /\ UNCHANGED <<quarantine, abandoned, agent, next>>
          /\ pending' \in {pending, NoVersion}
          /\ step \notin {"backPending", "backQuarantine"}
          /\ step' = "switchCurrent" => step = "switchPrevious"
          /\ step' # "switchPrevious"
      BY <1>7 DEF HandoffRefused, SwitchPrevious, SwitchCurrent, SwitchPending,
                  SwitchProbation, ledger, others, memory, history
    <2> QED
      BY <2>1, QuietFlap
  <1>8. CASE Commit
    <2>1. UNCHANGED <<quarantine, abandoned, pending, agent, next, step, run>>
      BY <1>8 DEF Commit, CommitSurvivor, ClearProbation, ReadPointer, ReadPointerFails, DeleteUnkept, disk,
                  ledger, memory, history
    <2> QED
      BY <2>1 DEF FlapInv, NoDuplicates, Quarantined, NoFlap
  <1>9. ASSUME NEW v \in Offered, BeginStage(v)
        PROVE  FlapInv'
    <2>1. UNCHANGED <<quarantine, abandoned, pending, next, step>> /\ step = "running"
          /\ v \notin Quarantined /\ agent' = [at |-> "extracted", v |-> v]
      BY <1>9 DEF BeginStage, Download, disk, ledger, memory, history, Running
    <2>2. v \notin abandoned
      BY <2>1 DEF FlapInv
    <2> QED
      BY <2>1, <2>2, KeepsBanned DEF FlapInv, NoFlap
  <1>10. CASE WritePending
    <2>1. UNCHANGED <<quarantine, abandoned, next, step>> /\ step = "running"
          /\ pending' = agent.v /\ agent.at = "renamed" /\ agent' = NoAgent
      BY <1>10 DEF WritePending, ledger, memory, history, Running
    <2>2. agent.v \notin abandoned
      BY <2>1 DEF FlapInv
    <2> QED
      BY <2>1, <2>2, KeepsBanned DEF FlapInv, NoFlap, NoAgent
  <1>11. CASE RemoveOldCopy \/ RenameIntoPlace \/ RequestHandoff \/ TakeOverRecord
    <2>0. agent \in [at : AgentStep, v : MaybeVersion]
      BY DEF TypeInv, TypeOK
    <2>1. /\ UNCHANGED <<quarantine, abandoned, pending, next>> /\ step = "running"
          /\ \/ agent' = agent
             \/ agent'.v = agent.v /\ agent.at # "idle"
          /\ step' \notin {"switchPrevious", "switchCurrent"}
      BY <1>11, <2>0 DEF RemoveOldCopy, RenameIntoPlace, RequestHandoff, TakeOverRecord, disk,
                   ledger, others, memory, history, Running, TypeInv, TypeOK
    <2> QED
      BY <2>1, QuietFlap
  <1>12. CASE StartService \/ WindowExpires \/ CrashForgotten \/ StopService
                \/ \E v \in Bundled : RunInstaller(v)
    <2>1. /\ UNCHANGED <<quarantine, abandoned, pending>> /\ agent' \in {agent, NoAgent}
          /\ step \notin {"backPending", "backQuarantine"}
          /\ step' \notin {"switchPrevious", "switchCurrent"}
      BY <1>12 DEF StartService, WindowExpires, CrashForgotten, StopService, LoseMemory,
                   RunInstaller, Running, disk, ledger, others, history
    <2> QED
      BY <2>1, QuietFlap
  <1>13. ~PowerLoss /\ ~DiskError /\ ~ReadError /\ ~StageFails
    BY NoPowerOrDisk
  <1>14. CASE UNCHANGED vars
    BY <1>14 DEF vars, disk, ledger, others, memory, history, FlapInv, NoDuplicates,
                 Quarantined, NoFlap
  <1> QED
    BY <1>2, <1>4, <1>5, <1>6, <1>7, <1>8, <1>9, <1>10, <1>11, <1>12, <1>13, <1>14
    , NoPowerOrDisk DEF Next, Handoff, Agent

\* A release this station rolled back is never switched to again, whatever
\* orderly restarts come in between, as long as the list of failed versions has
\* room for it (BlockedVersions, Supervisor.rollback, update agent).
THEOREM NeverFlaps ==
  ASSUME StopsOnly, QuarantineHolds
  PROVE  Spec => []NoFlap
  <1>1. Init => FlapInv
    BY DEF Init, FlapInv, NoDuplicates, NoFlap, NoAgent
  <1>2. TypeInv /\ SafeInv /\ FlapInv /\ [Next]_vars => SafeInv' /\ FlapInv'
    BY SafeInductive, FlapInductive
  <1>3. FlapInv => NoFlap
    BY DEF FlapInv
  <1> QED
    BY <1>1, <1>2, <1>3, SafeInitial, TypeInvInductive, PTL DEF Spec

-----------------------------------------------------------------------------
(* Seen from outside the launcher behaves like Rollout.                    *)

\* Only what was rolled back is banned, and FlapInv has the converse.
BannedInv == Banned \subseteq abandoned

LEMMA BannedInductive ==
  ASSUME StopsOnly, QuarantineHolds, TypeInv, FlapInv, BannedInv, [Next]_vars
  PROVE  BannedInv'
  <1> DEFINE Writing == {"backPending", "backQuarantine"}
  <1>1. CASE BackCurrent \/ BackPending
    BY <1>1 DEF BackCurrent, BackPending, BannedInv, Banned, Quarantined, others, ledger,
                memory, history
  <1>2. CASE BackQuarantine
    <2>1. UNCHANGED abandoned /\ step = "backQuarantine" /\ step' = "backRecord"
          /\ quarantine' = Remember(quarantine, run)
      BY <1>2 DEF BackQuarantine, others, history
    <2>2. run \in Version
      BY <2>1 DEF TypeInv, TypeOK, NamesVersions, Booting, Upgrading, MaybeVersion
    <2>3. Quarantined' = Quarantined \cup {run}
      BY <2>1, <2>2, RememberAll DEF TypeInv, FlapInv
    <2> QED
      BY <2>1, <2>3 DEF BannedInv, Banned
  <1>3. ASSUME UNCHANGED <<quarantine, abandoned>>, step' \notin Writing
        PROVE  BannedInv'
    BY <1>3 DEF BannedInv, Banned, Quarantined
  <1>4. CASE Boot \/ Supervise \/ Handoff \/ BackRecord \/ BackDone
    <2>1. UNCHANGED <<quarantine, abandoned>> /\ step' \notin Writing
      BY <1>4 DEF Boot, BootKnown, BootInstall, BootSwap, BootPrevious, BootPending,
                  BootCurrent, ReadState, NothingInstalled, Supervise, StartCore,
                  BinaryMissing, PassHealthCheck, FailHealthCheck, CoreCrash,
                  CountProbationCrash, DetectCrashLoop, CoreExit, RollBackOr, Running, Handoff,
                  HandoffRefused, HandoffAccepted, SwitchPrevious, SwitchCurrent,
                  SwitchPending, SwitchProbation, BackRecord, BackDone, disk, ledger, others,
                  memory, history
    <2> QED
      BY <1>3, <2>1
  <1>5. CASE Commit
    <2>1. UNCHANGED <<quarantine, abandoned, step, run>>
      BY <1>5 DEF Commit, CommitSurvivor, ClearProbation, ReadPointer, ReadPointerFails, DeleteUnkept, disk,
                  ledger, memory, history
    <2> QED
      BY <2>1 DEF BannedInv, Banned, Quarantined
  <1>6. CASE Agent
    <2>1. UNCHANGED <<quarantine, abandoned>> /\ step' \notin Writing
      BY <1>6 DEF Agent, BeginStage, BeginStageUnread, Download, RemoveOldCopy, RenameIntoPlace, WritePending,
                  RequestHandoff, TakeOverRecord, Running, disk, ledger, others, memory,
                  history
    <2> QED
      BY <1>3, <2>1
  <1>7. CASE StartService \/ WindowExpires \/ CrashForgotten \/ StopService
               \/ \E v \in Bundled : RunInstaller(v)
    <2>1. UNCHANGED <<quarantine, abandoned>> /\ step' \notin Writing
      BY <1>7 DEF StartService, WindowExpires, CrashForgotten, StopService, LoseMemory,
                  RunInstaller, Running, disk, ledger, others, history
    <2> QED
      BY <1>3, <2>1
  <1>8. ~PowerLoss /\ ~DiskError /\ ~ReadError /\ ~StageFails
    BY NoPowerOrDisk
  <1>9. CASE UNCHANGED vars
    BY <1>9 DEF vars, disk, ledger, others, memory, history, BannedInv, Banned, Quarantined
  <1> QED
    BY <1>1, <1>2, <1>4, <1>5, <1>6, <1>7, <1>8, <1>9 DEF Next, Rollback

\* A step moves a pointer as Rollout does, or leaves all that Rollout sees.
LEMMA StepRefines ==
  ASSUME TypeInv, InPlace, StagedIsNewer, SafeInv, FlapInv, BannedInv, FlapInv', BannedInv',
         [Next]_vars
  PROVE  [Abstract!Next]_<<current, previous, Banned>>
  <1> DEFINE Unseen == UNCHANGED <<current, previous, abandoned>>
  <1>1. Banned = abandoned /\ Banned' = abandoned'
    BY DEF FlapInv, BannedInv, Banned
  <1>2. SUFFICES ASSUME ~Unseen
                 PROVE  Abstract!Next
    BY <1>1
  <1> USE DEF Abstract!Next, Abstract!Found, Abstract!Arm, Abstract!Advance, Abstract!Revert
  <1>3. CASE BootKnown
    <2>1. current = NoVersion /\ current' = bundle /\ UNCHANGED <<previous, abandoned>>
      BY <1>2, <1>3 DEF BootKnown, others, history
    <2>2. bundle \in Version
      BY <1>2, <2>1, VersionAssumption DEF SafeInv, BundleReady
    <2> QED
      BY <1>1, <2>1, <2>2
  <1>4. CASE BootPrevious
    BY <1>1, <1>4 DEF BootPrevious, others, history, SafeInv, BundleReady
  <1>5. CASE BootCurrent
    <2>1. step = "bootCurrent" /\ current' = bundle /\ UNCHANGED <<previous, abandoned>>
      BY <1>5 DEF BootCurrent, others, history
    <2>2. bundle \in Version /\ bundle \in Bundled
      BY <2>1, VersionAssumption DEF SafeInv, BundleReady, Upgrading, TypeInv, TypeOK
    <2>3. CASE current = NoVersion
      BY <1>1, <2>1, <2>2, <2>3
    <2>4. CASE current # NoVersion
      <3>1. bundle > current /\ previous = current
        BY <2>1, <2>4 DEF SafeInv, BundleReady, Upgrading
      <3>2. Abstract!Advance(bundle)
        BY <1>1, <2>1, <2>2, <3>1
      <3> QED
        BY <2>2, <3>2
    <2> QED
      BY <2>3, <2>4
  <1>6. CASE SwitchPrevious
    <2>1. step = "switchPrevious" /\ previous' = run /\ UNCHANGED <<current, abandoned>>
      BY <1>6 DEF SwitchPrevious, others, history
    <2>2. run = current /\ run # NoVersion
      BY <2>1 DEF InPlace, Steady, TypeInv, NamesVersions, Booting, Upgrading
    <2> QED
      BY <1>1, <2>1, <2>2
  <1>7. CASE SwitchCurrent
    <2>1. step = "switchCurrent" /\ current' = next /\ UNCHANGED <<previous, abandoned>>
      BY <1>7 DEF SwitchCurrent
    <2>2. run = current /\ previous = run /\ next > run
      BY <2>1 DEF InPlace, Steady, SafeInv, PointersMoved, StagedIsNewer
    <2>3. next \in Version /\ next \notin abandoned
      BY <2>1 DEF TypeInv, TypeOK, NamesVersions, Targeted, MaybeVersion, FlapInv, NoFlap
    <2>4. Abstract!Advance(next)
      BY <1>1, <2>1, <2>2, <2>3
    <2> QED
      BY <2>3, <2>4
  <1>8. CASE BackCurrent
    <2>1. step = "backCurrent" /\ current' = next /\ abandoned' = abandoned \cup {run}
          /\ UNCHANGED previous
      BY <1>8 DEF BackCurrent
    <2>2. run = current /\ next = previous /\ previous \notin {NoVersion, run}
      BY <2>1 DEF InPlace, Steady, SafeInv, PointersMoved, CanRollBack
    <2> QED
      BY <1>1, <2>1, <2>2
  <1>9. CASE BootInstall \/ BootSwap \/ BootPending \/ ReadState \/ NothingInstalled
             \/ Supervise
    BY <1>2, <1>9 DEF BootInstall, BootSwap, BootPending, ReadState, NothingInstalled,
                Supervise, StartCore, BinaryMissing, PassHealthCheck, FailHealthCheck,
                CoreCrash, CountProbationCrash, DetectCrashLoop, CoreExit, disk, ledger, others,
                memory, history
  <1>10. CASE HandoffRefused \/ HandoffAccepted \/ SwitchPending \/ SwitchProbation
             \/ BackPending \/ BackQuarantine \/ BackRecord \/ BackDone
    BY <1>2, <1>10 DEF HandoffRefused, HandoffAccepted, SwitchPending, SwitchProbation,
                BackPending, BackQuarantine, BackRecord, BackDone, disk, ledger, others,
                memory, history
  <1>11. CASE Commit
    BY <1>2, <1>11 DEF Commit, CommitSurvivor, ClearProbation, ReadPointer, ReadPointerFails, DeleteUnkept, disk,
                ledger, memory, history
  <1>12. CASE Agent
    BY <1>2, <1>12 DEF Agent, BeginStage, BeginStageUnread, Download, RemoveOldCopy, RenameIntoPlace, WritePending,
                RequestHandoff, TakeOverRecord, disk, ledger, others, memory, history
  <1>13. CASE Environment
    BY <1>2, <1>13 DEF Environment, RunInstaller, StartService, WindowExpires, CrashForgotten,
                StopService, PowerLoss, LoseMemory, DiskError, ReadError, StageFails, disk, ledger,
                others, memory, history
  <1>14. CASE UNCHANGED vars
    BY <1>2, <1>14 DEF vars, disk, others, history
  <1> QED
    BY <1>3, <1>4, <1>5, <1>6, <1>7, <1>8, <1>9, <1>10, <1>11, <1>12, <1>13, <1>14
    DEF Next, Boot, Handoff, Rollback, Environment

\* Seen from outside, the files behave like the abstract rollout, whatever orderly
\* restarts come in between: previous.json is armed before current.json moves, a
\* rollback leads to exactly that version and bans the one that was left, and only
\* an installer package brings a banned version back (switchTo, rollback, Bootstrap).
THEOREM LauncherImplementsRollout ==
  ASSUME StopsOnly, QuarantineHolds
  PROVE  Spec => ImplementsRollout
  <1>1. "disk" \notin FaultKinds
    BY NoPowerOrDisk
  <1>2. Init => FlapInv /\ BannedInv
    BY DEF Init, FlapInv, NoDuplicates, NoFlap, NoAgent, BannedInv, Banned, Quarantined
  <1>3. Init => Abstract!Init
    BY DEF Init, Abstract!Init, Banned, Quarantined
  <1>4. TypeInv /\ InPlace /\ SafeInv /\ StagedIsNewer /\ FlapInv /\ BannedInv /\ [Next]_vars
        => SafeInv' /\ StagedIsNewer' /\ FlapInv' /\ BannedInv'
    BY SafeInductive, StagedInductive, FlapInductive, BannedInductive
  <1>5. TypeInv /\ InPlace /\ SafeInv /\ StagedIsNewer /\ FlapInv /\ BannedInv /\ FlapInv'
          /\ BannedInv' /\ [Next]_vars
        => [Abstract!Next]_<<current, previous, Banned>>
    BY StepRefines
  <1> QED
    BY <1>1, <1>2, <1>3, <1>4, <1>5, SafeInitial, StagedInitial, TypeInvInductive,
       InPlaceInductive, PTL
    DEF Spec, ImplementsRollout, Abstract!Spec

-----------------------------------------------------------------------------
(* Probation survives every orderly restart: with no power loss, no failed *)
(* write and a commit that does not lag behind a handoff, an unproven      *)
(* version only ever runs watched, and probation.json says what the        *)
(* launcher knows.                                                         *)

\* While the loop is at rest the window is open exactly for the unproven version.
WindowFollows ==
  step \in Steady =>
    /\ window.open <=> unproven = run
    /\ window.open => probation = [version |-> run, open |-> TRUE,
                                   crashes |-> window.crashes]
    /\ probation.open => window.open
    /\ step = "running" /\ window.open => checked

\* With the launcher down, probation.json carries the window on its own.
WindowSaved ==
  step \in Booting =>
    /\ unproven # NoVersion /\ unproven = current =>
         probation.open /\ probation.version = current
    /\ probation.open => unproven # NoVersion /\ unproven = probation.version
    /\ commit.at = "off"

\* An unproven version that is not current was overtaken by an installer package.
Overtaken ==
  /\ unproven # NoVersion => unproven = current \/ unproven < bundle
  /\ current = NoVersion => unproven = NoVersion
  /\ step = "bootSwap" => bundle # NoVersion
  /\ step \in Upgrading => bundle > current

\* Half way through a switch or a rollback, and while a survivor is committed.
BetweenWindows ==
  /\ step \in Switching => unproven = next
  /\ step \in SwitchingBack => unproven = NoVersion
  /\ commit.at = "clear" => ~window.open

ProbationInv == WindowFollows /\ WindowSaved /\ Overtaken /\ BetweenWindows

\* The faults under which the window survives.
OrderlyStops == StopsOnly /\ ~SlowCommit

\* What holds before every step of this section.
Before == OrderlyStops /\ TypeInv /\ InPlace /\ ProbationInv

LEMMA BootProbation ==
  ASSUME Before, Boot
  PROVE  ProbationInv'
  <1> USE VersionsAreNumbers DEF Before, OrderlyStops, StopsOnly, ProbationInv, WindowFollows,
          WindowSaved, Overtaken, BetweenWindows, InPlace, TypeInv, TypeOK,
          NamesVersions, Steady, Switching, SwitchingBack, Targeted, Booting,
          Upgrading, disk, ledger, others, memory, history, NoVersion, Running
  <1>1. CASE BootKnown
    BY <1>1 DEF BootKnown
  <1>2. CASE BootInstall
    BY <1>2 DEF BootInstall
  <1>3. CASE BootSwap
    BY <1>3 DEF BootSwap
  <1>4. CASE BootPrevious
    BY <1>4 DEF BootPrevious
  <1>5. CASE BootPending
    BY <1>5 DEF BootPending
  <1>6. CASE BootCurrent
    BY <1>6 DEF BootCurrent
  <1>7. CASE ReadState
    <2> DEFINE live == probation.version = current /\ probation.open
    <2>1. step' = "loop" /\ run' = current /\ current # NoVersion
          /\ UNCHANGED <<unproven, bundle, current, commit, checked>>
      BY <1>7 DEF ReadState
    <2>2. live <=> unproven = current
      BY <1>7 DEF ReadState
    <2>3. CASE live
      <3>1. window' = [open |-> TRUE, crashes |-> probation.crashes] /\ probation' = probation
        BY <1>7, <2>3 DEF ReadState
      <3>2. probation = [version |-> current, open |-> TRUE, crashes |-> probation.crashes]
        BY <2>3 DEF ProbationFile
      <3>3. window'.open /\ window'.crashes = probation.crashes
        BY <3>1
      <3> QED
        BY <1>7, <2>1, <2>2, <2>3, <3>1, <3>2, <3>3 DEF ReadState
    <2>4. CASE ~live
      <3>1. ~window'.open /\ ~probation'.open
        BY <1>7, <2>4 DEF ReadState, NoWindow, NoFile
      <3> QED
        BY <1>7, <2>1, <2>2, <2>4, <3>1 DEF ReadState
    <2> QED
      BY <2>3, <2>4
  <1>8. CASE NothingInstalled
    BY <1>8 DEF NothingInstalled
  <1> QED
    BY <1>1, <1>2, <1>3, <1>4, <1>5, <1>6, <1>7, <1>8 DEF Boot

LEMMA SuperviseProbation ==
  ASSUME Before, Supervise
  PROVE  ProbationInv'
  <1> USE VersionsAreNumbers DEF Before, OrderlyStops, StopsOnly, ProbationInv, WindowFollows,
          WindowSaved, Overtaken, BetweenWindows, InPlace, TypeInv, TypeOK,
          NamesVersions, Steady, Switching, SwitchingBack, Targeted, Booting,
          Upgrading, disk, ledger, others, memory, history, NoVersion, Running
  <1>1. CASE StartCore
    BY <1>1 DEF StartCore
  <1>2. CASE BinaryMissing
    BY <1>2 DEF BinaryMissing, RollBackOr
  <1>3. CASE PassHealthCheck
    BY <1>3 DEF PassHealthCheck
  <1>4. CASE FailHealthCheck
    BY <1>4 DEF FailHealthCheck, RollBackOr
  <1>5. CASE CoreCrash
    BY <1>5 DEF CoreCrash
  <1>6. CASE CountProbationCrash
    <2> DEFINE n == Increment(window.crashes, ProbationLimit)
    <2>1. window' = [window EXCEPT !.crashes = n]
      BY <1>6 DEF CountProbationCrash
    <2>2. probation' = [version |-> run, open |-> window.open, crashes |-> n]
      BY <1>6, WritesSucceed DEF CountProbationCrash
    <2>3. step' \in {"detect", "backCurrent"} /\ step = "crashed"
          /\ UNCHANGED <<run, current, bundle, unproven, commit>>
      BY <1>6 DEF CountProbationCrash, RollBackOr
    <2> HIDE DEF n
    <2>4. window'.open = window.open /\ window'.crashes = n
      BY <2>1 DEF Window
    <2>5. probation'.open = window.open
      BY <2>2
    <2>6. window.open => probation' = [version |-> run', open |-> TRUE, crashes |-> window'.crashes]
      BY <2>2, <2>3, <2>4 DEF Window
    <2> QED
      BY <2>3, <2>4, <2>5, <2>6
  <1>7. CASE DetectCrashLoop
    BY <1>7 DEF DetectCrashLoop, RollBackOr
  <1>8. CASE CoreExit
    BY <1>8 DEF CoreExit
  <1> QED
    BY <1>1, <1>2, <1>3, <1>4, <1>5, <1>6, <1>7, <1>8 DEF Supervise

LEMMA HandoffProbation ==
  ASSUME Before, Handoff
  PROVE  ProbationInv'
  <1> USE VersionsAreNumbers DEF Before, OrderlyStops, StopsOnly, ProbationInv, WindowFollows,
          WindowSaved, Overtaken, BetweenWindows, InPlace, TypeInv, TypeOK,
          NamesVersions, Steady, Switching, SwitchingBack, Targeted, Booting,
          Upgrading, disk, ledger, others, memory, history, NoVersion, Running
  <1>1. CASE HandoffRefused
    BY <1>1 DEF HandoffRefused
  <1>2. CASE HandoffAccepted
    BY <1>2 DEF HandoffAccepted
  <1>3. CASE SwitchPrevious
    BY <1>3 DEF SwitchPrevious
  <1>4. CASE SwitchCurrent
    BY <1>4 DEF SwitchCurrent
  <1>5. CASE SwitchPending
    BY <1>5 DEF SwitchPending
  <1>6. CASE SwitchProbation
    <2>1. window' = [open |-> TRUE, crashes |-> 0]
          /\ probation' = [version |-> next, open |-> TRUE, crashes |-> 0]
      BY <1>6, WritesSucceed DEF SwitchProbation
    <2>2. step' = "loop" /\ run' = next /\ commit.at # "clear"
          /\ UNCHANGED <<current, bundle, unproven, commit>>
      BY <1>6 DEF SwitchProbation
    <2>3. window'.open /\ window'.crashes = 0
      BY <2>1
    <2> QED
      BY <1>6, <2>1, <2>2, <2>3 DEF SwitchProbation
  <1> QED
    BY <1>1, <1>2, <1>3, <1>4, <1>5, <1>6 DEF Handoff

LEMMA RollbackProbation ==
  ASSUME Before, Rollback
  PROVE  ProbationInv'
  <1> USE VersionsAreNumbers DEF Before, OrderlyStops, StopsOnly, ProbationInv, WindowFollows,
          WindowSaved, Overtaken, BetweenWindows, InPlace, TypeInv, TypeOK,
          NamesVersions, Steady, Switching, SwitchingBack, Targeted, Booting,
          Upgrading, disk, ledger, others, memory, history, NoVersion, Running
  <1>1. CASE BackCurrent
    BY <1>1 DEF BackCurrent
  <1>2. CASE BackPending
    BY <1>2 DEF BackPending
  <1>3. CASE BackQuarantine
    BY <1>3 DEF BackQuarantine
  <1>4. CASE BackRecord
    BY <1>4 DEF BackRecord
  <1>5. CASE BackDone
    <2>1. ~window'.open /\ ~probation'.open
      BY <1>5, WritesSucceed DEF BackDone, NoWindow, NoFile
    <2>2. step' = "loop" /\ run' = next /\ UNCHANGED <<current, bundle, unproven, commit>>
      BY <1>5 DEF BackDone
    <2> QED
      BY <1>5, <2>1, <2>2 DEF BackDone
  <1> QED
    BY <1>1, <1>2, <1>3, <1>4, <1>5 DEF Rollback

LEMMA CommitProbation ==
  ASSUME Before, Commit
  PROVE  ProbationInv'
  <1> USE VersionsAreNumbers DEF Before, OrderlyStops, StopsOnly, ProbationInv, WindowFollows,
          WindowSaved, Overtaken, BetweenWindows, InPlace, TypeInv, TypeOK,
          NamesVersions, Steady, Switching, SwitchingBack, Targeted, Booting,
          Upgrading, disk, ledger, others, memory, history, NoVersion, Running
  <1>1. CASE CommitSurvivor
    BY <1>1 DEF CommitSurvivor
  <1>2. CASE ClearProbation
    <2>1. probation' = NoFile /\ commit.at = "clear" /\ commit'.at = "readCurrent"
      BY <1>2, WritesSucceed DEF ClearProbation
    <2>2. ~probation'.open
      BY <2>1 DEF NoFile
    <2>3. UNCHANGED <<step, run, next, window, checked, current, bundle, unproven>>
      BY <1>2 DEF ClearProbation
    <2> QED
      BY <2>1, <2>2, <2>3
  <1>3. CASE ReadPointer("readCurrent", current, "readPrevious")
    BY <1>3 DEF ReadPointer
  <1>4. CASE ReadPointer("readPrevious", previous, "readPending")
    BY <1>4 DEF ReadPointer
  <1>5. CASE ReadPointer("readPending", pending, "delete")
    BY <1>5 DEF ReadPointer
  <1>6. CASE DeleteUnkept
    <2>1. commit'.at = "off"
      BY <1>6 DEF DeleteUnkept, NoCommit
    <2>2. UNCHANGED <<step, run, next, window, checked, current, bundle, unproven, probation>>
      BY <1>6 DEF DeleteUnkept
    <2> QED
      BY <2>1, <2>2
  <1>7. \A at, then : ~ReadPointerFails(at, then)
    BY NoPowerOrDisk
  <1> QED
    BY <1>1, <1>2, <1>3, <1>4, <1>5, <1>6, <1>7 DEF Commit

LEMMA AgentProbation ==
  ASSUME Before, Agent
  PROVE  ProbationInv'
  <1> USE VersionsAreNumbers DEF Before, OrderlyStops, StopsOnly, ProbationInv, WindowFollows,
          WindowSaved, Overtaken, BetweenWindows, InPlace, TypeInv, TypeOK,
          NamesVersions, Steady, Switching, SwitchingBack, Targeted, Booting,
          Upgrading, disk, ledger, others, memory, history, NoVersion, Running
  <1>1. CASE \E v \in Offered : BeginStage(v) \/ BeginStageUnread(v)
    BY <1>1 DEF BeginStage, BeginStageUnread, Download, MayFault
  <1>2. CASE RemoveOldCopy
    BY <1>2 DEF RemoveOldCopy
  <1>3. CASE RenameIntoPlace
    BY <1>3 DEF RenameIntoPlace
  <1>4. CASE WritePending
    BY <1>4 DEF WritePending
  <1>5. CASE RequestHandoff
    BY <1>5 DEF RequestHandoff
  <1>6. CASE TakeOverRecord
    BY <1>6 DEF TakeOverRecord
  <1> QED
    BY <1>1, <1>2, <1>3, <1>4, <1>5, <1>6 DEF Agent

LEMMA EnvironmentProbation ==
  ASSUME Before, Environment
  PROVE  ProbationInv'
  <1> USE VersionsAreNumbers DEF Before, OrderlyStops, StopsOnly, ProbationInv, WindowFollows,
          WindowSaved, Overtaken, BetweenWindows, InPlace, TypeInv, TypeOK,
          NamesVersions, Steady, Switching, SwitchingBack, Targeted, Booting,
          Upgrading, disk, ledger, others, memory, history, NoVersion, Running
  <1>1. CASE \E v \in Bundled : RunInstaller(v)
    <2> PICK v \in Bundled : RunInstaller(v)
      BY <1>1
    <2>1. bundle' = v /\ v > bundle /\ v \in Nat /\ bundle \in Nat /\ step' = step /\ step = "off"
      BY VersionAssumption DEF RunInstaller
    <2>2. UNCHANGED <<run, next, window, checked, current, unproven, probation, commit>>
      BY DEF RunInstaller
    <2>3. unproven # NoVersion => unproven \in Nat
      BY DEF MaybeVersion
    <2> QED
      BY <2>1, <2>2, <2>3
  <1>2. CASE StartService
    BY <1>2 DEF StartService
  <1>3. CASE WindowExpires
    BY <1>3 DEF WindowExpires
  <1>4. CASE CrashForgotten
    BY <1>4 DEF CrashForgotten
  <1>5. CASE StopService
    BY <1>5 DEF StopService, LoseMemory, NoCommit
  <1>6. CASE PowerLoss
    BY <1>6 DEF PowerLoss, MayFault
  <1>7. CASE DiskError
    BY <1>7 DEF DiskError, MayFault
  <1>8. CASE StageFails
    BY <1>8 DEF StageFails, MayFault
  <1>9. CASE ReadError
    BY <1>9 DEF ReadError, MayFault
  <1> QED
    BY <1>1, <1>2, <1>3, <1>4, <1>5, <1>6, <1>7, <1>8, <1>9 DEF Environment

LEMMA ProbationInductive ==
  ASSUME OrderlyStops
  PROVE  /\ Init => ProbationInv
         /\ ProbationInv /\ InPlace /\ TypeInv /\ [Next]_vars => ProbationInv'
  <1>1. Init => ProbationInv
    BY DEF Init, ProbationInv, WindowFollows, WindowSaved, Overtaken, BetweenWindows,
           Steady, Switching, SwitchingBack, Booting, Upgrading, NoFile, NoWindow, NoCommit
  <1>2. ASSUME ProbationInv, InPlace, TypeInv, [Next]_vars
        PROVE  ProbationInv'
    <2> USE DEF Before
    <2>1. CASE Boot
      BY <1>2, <2>1, BootProbation
    <2>2. CASE Supervise
      BY <1>2, <2>2, SuperviseProbation
    <2>3. CASE Handoff
      BY <1>2, <2>3, HandoffProbation
    <2>4. CASE Rollback
      BY <1>2, <2>4, RollbackProbation
    <2>5. CASE Commit
      BY <1>2, <2>5, CommitProbation
    <2>6. CASE Agent
      BY <1>2, <2>6, AgentProbation
    <2>7. CASE Environment
      BY <1>2, <2>7, EnvironmentProbation
    <2>8. CASE UNCHANGED vars
      BY <1>2, <2>8
         DEF vars, disk, ledger, others, memory, history, ProbationInv, WindowFollows,
             WindowSaved, Overtaken, BetweenWindows
    <2> QED
      BY <1>2, <2>1, <2>2, <2>3, <2>4, <2>5, <2>6, <2>7, <2>8 DEF Next, Environment
  <1> QED
    BY <1>1, <1>2

\* A version that was switched to and whose window is not over runs only under
\* the health watch and the crash count, and probation.json holds the window and
\* the crashes a restart will need (Supervisor.Run, switchTo, runChild,
\* readProbation), when the service stops in an orderly way only.
THEOREM ProbationSurvivesRestart ==
  ASSUME OrderlyStops
  PROVE  Spec => [](ProbationKept /\ ProbationDurable)
  <1>1. "disk" \notin FaultKinds
    BY DEF OrderlyStops, StopsOnly
  <1>2. ProbationInv => ProbationKept /\ ProbationDurable
    BY DEF ProbationInv, WindowFollows, ProbationKept, ProbationDurable, Running, Steady
  <1> QED
    BY <1>1, <1>2, TypeInvInductive, InPlaceInductive, ProbationInductive, PTL DEF Spec

\* What the launcher knows of the window is in probation.json: a restart loses
\* neither the window nor a crash counted in it (saveProbation, loadProbation).
THEOREM ProbationOnDisk ==
  ASSUME OrderlyStops
  PROVE  Spec => []ProbationDurable
  BY ProbationSurvivesRestart, PTL
=============================================================================

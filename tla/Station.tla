------------------------------ MODULE Station -------------------------------
(***************************************************************************)
(* The core process of one station from start to stop: Startup, the        *)
(* settings a request of the dashboard changes and applies to what runs    *)
(* (WatchFolders, Answers), and what ends all of it.  What is composed     *)
(* here is the order of run: the schema before the mart, the mart before   *)
(* the router, the router before the folders, the folders before the       *)
(* dashboard; a browser has one request under way in any of the parts; a   *)
(* stop keeps the rows and the copies and nothing else.                    *)
(***************************************************************************)
EXTENDS WatchFolders, Answers, Startup

vars == <<coreVars, folderVars, answerVars, startupVars>>

TypeOK == CoreTypeOK /\ FoldersTypeOK /\ AnswersTypeOK /\ StartupTypeOK

\* A station that is new, or one that has been running for a while.
Init ==
  /\ CoreInit /\ FoldersInit /\ AnswersInit /\ StartupInit
  /\ schema = 0 <=> table[BuiltIn] = "none"

-----------------------------------------------------------------------------
(* The requests of the dashboard.                                          *)

Serving == core = "serving"
Free(b) == apply[b].at = "idle" /\ save[b].at = "idle"

OnlyFolders == UNCHANGED <<core, answerVars, startupVars>>
OnlyAnswers == UNCHANGED <<core, folderVars, startupVars>>
OnlyStartup == UNCHANGED <<folderVars, answerVars>>

RequestFolders(b) ==
  /\ Serving /\ Free(b) /\ Spend /\ OnlyFolders
  /\ \E f \in Folder : \/ AddWatchFolder(b, f) \/ RemoveWatchFolder(b, f)
                       \/ \E state \in {"on", "off"} : SetWatchFolderEnabled(b, f, state)
RequestSave(b) ==
  /\ Serving /\ Free(b) /\ Spend /\ OnlyAnswers
  /\ \E c \in Choice : SaveSettings(b, c)
RequestAsk(q) == Serving /\ Ask(q) /\ OnlyAnswers /\ UNCHANGED events

WorkFolders(w) == ApplyStep(w) /\ OnlyFolders /\ UNCHANGED events
WorkAnswers == AnswersStep /\ OnlyAnswers /\ UNCHANGED events

-----------------------------------------------------------------------------
(* run.                                                                    *)

Start ==
  /\ Goes("down", "schema")
  /\ \/ StartCore(FALSE) /\ UNCHANGED events
     \/ StartCore(TRUE) /\ Spend
  /\ OnlyStartup
RunSchema(p) ==
  /\ ListApplied(p) \/ PreMigrationBackup(p) \/ ApplyMigration(p)
  /\ OnlyStartup /\ UNCHANGED events
RunPhones ==
  /\ CanonicalizeCustomerPhones \/ PhonesDone \/ FlagPhones(TRUE)
  /\ OnlyStartup /\ UNCHANGED events
RunMart == Materialize(TRUE) /\ OnlyStartup /\ UNCHANGED events
RunModel ==
  /\ Goes("model", "folders") /\ NewRouterFromSettings
  /\ UNCHANGED <<events, folderVars, startupVars>>
\* The folder of its own, then all of them; the dashboard listens after that.
RunFolders ==
  /\ Goes("folders", "applying")
  /\ \/ EnsureBuiltIn(TRUE) /\ UNCHANGED events
     \/ EnsureBuiltIn(FALSE) /\ Fault("storage")
  /\ UNCHANGED <<answerVars, startupVars>>
RunServe ==
  /\ Goes("applying", "serving") /\ apply[Boot].at = "idle" /\ ServeStation
  /\ OnlyStartup /\ UNCHANGED events

-----------------------------------------------------------------------------
(* Beside it: the support tool, the launcher, the backup agent.            *)

RunTool ==
  /\ MigrateBegin(Tool) /\ Spend /\ OnlyStartup
  /\ UNCHANGED <<core, data, rebuild, repair, copies, served, lost>>
InstallVersion == Install /\ Spend /\ OnlyStartup /\ UNCHANGED core
BackUp ==
  /\ OnlyStartup /\ UNCHANGED core
  /\ \/ BackupBegin /\ Spend
     \/ EnforceRetention /\ UNCHANGED events

-----------------------------------------------------------------------------
(* Faults.                                                                 *)

FoldersFail == OnlyFolders /\
  \/ Fault("storage") /\ \E w \in Worker : ApplyStatementFails(w)
  \/ Fault("cancel") /\ \E b \in Browser : ApplyCancelled(b)
  \/ Fault("share") /\ \E f \in Folder : ShareDown(f) \/ ShareUp(f)
AnswersFail == OnlyAnswers /\
  \/ Fault("storage") /\ \E b \in Browser : SaveFails(b) \/ ReloadFails(b)
  \/ /\ Serving /\ Fault("storage")
     /\ \E b \in Browser, c \in Choice : Free(b) /\ SaveSettingsUnread(b, c)
  \/ Fault("cancel") /\ \E b \in Browser : SaveFails(b) \/ ReloadCancelled(b)
StartupFail == OnlyStartup /\ Fault("storage") /\
  \/ PhonesFail \/ FlagPhones(FALSE) \/ Materialize(FALSE)
  \/ BackupFails /\ UNCHANGED core

\* The process ends: it is stopped or crashes, the copy before its migrations
\* fails, or the tool has taken the name of that copy, or has applied the
\* migration it is about to apply.
Gone ==
  /\ core # "down" /\ core' = "down"
  /\ FoldersGone /\ AnswersGone /\ StartupGone
Stop == Gone /\ (Fault("stop") \/ (InStep(Core, "copy") /\ Fault("storage")))
Exit == (NameTaken(Core) \/ Taken(Core)) /\ Gone /\ UNCHANGED events
ToolGone ==
  /\ UNCHANGED <<folderVars, answerVars>>
  /\ \/ (NameTaken(Tool) \/ Taken(Tool)) /\ ToolFails({}) /\ UNCHANGED events
     \/ Migrating(Tool) /\ Fault("stop") /\ \E part \in Part(Tool) : ToolFails(part)

Next ==
  \/ \E b \in Browser : RequestFolders(b) \/ RequestSave(b)
  \/ \E q \in Asker : RequestAsk(q)
  \/ \E w \in Worker : WorkFolders(w)
  \/ WorkAnswers
  \/ Start \/ RunPhones \/ RunMart \/ RunModel \/ RunFolders \/ RunServe
  \/ \E p \in Process : RunSchema(p)
  \/ RunTool \/ InstallVersion \/ BackUp
  \/ FoldersFail \/ AnswersFail \/ StartupFail
  \/ Stop \/ Exit \/ ToolGone

Spec == Init /\ [][Next]_vars

-----------------------------------------------------------------------------
\* What the owner saved on the Data page and under Settings is what runs, as
\* soon as no request is under way and whatever was started or stopped before:
\* the folders that are on are watched or shown not to be, no other is, and the
\* router answers by the saved rows.  Not claimed while two changes overlap or
\* one has failed, until a change of the kind has run alone.
SavedIsApplied == FoldersApplied /\ ModelApplied

\* An upgrade loses nothing: the mart is rebuilt, there is a copy to go back to,
\* and failing nightly copies do not push out the one that was finished.
UpgradeSafe == MartRebuilt /\ CopyKept /\ NightlyKept

-----------------------------------------------------------------------------
(* What a text of the repository says and the code does not do: each holds  *)
(* of none of these instances, and of no listed run.                        *)

AllIdle == Serving /\ \A w \in Worker : apply[w].at = "idle"

\* A folder that was switched off is not read "until you switch it back on"
\* (data_handlers.go): two applies overlap, and the older list is applied last.
OffIsOff == AllIdle => watched \subseteq On
\* "A folder that stops being reachable later is shown as Not reachable"
\* (README.md): one that was watched before stays in the map, and is not told.
NotReachableShown == AllIdle => On \ reachable \subseteq told
\* "The watcher goroutine runs until ctx is done" (watcher.go), and exports
\* "dropped there are read automatically": started by a request, it ends with it.
EventsRead == AllIdle /\ watched # {} => loop = Boot
\* "What is applied is exactly what was saved" (model_handlers.go): the browser
\* goes away between the save and the reload, and rows that cannot be read count
\* as not saved; or the service was started with an address of its own.
AppliedIsSaved == Serving /\ ~Saving => router = Configured(saved, EnvURL)
\* "Rebuild everything when a migration changed the schema" (main.go): a stop
\* between the two, and the next start finds nothing to migrate.
RebuiltAlways == Serving => whole
=============================================================================

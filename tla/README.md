# FuelMind: TLA+ models and proofs

FuelMind is the program a petrol station runs beside its point of sale: it
reads the POS's exports, shows the owner the day's figures, answers questions
about them, sends an evening summary over WhatsApp and updates itself without
anybody looking. One station is one Windows PC with two processes (the
launcher service and the core) and one SQLite file; a small cloud service takes
heartbeats, offers releases and relays questions.

This directory models the parts whose correctness depends on *order*: what may
happen between two file operations, two SQL statements, two goroutines, or a
stop and a restart. TLC checks the models on small stations; TLAPS proves the
main safety properties for every station.

    tlc -workers 2 -config LauncherRestart.cfg Launcher
    tlc -workers 2 -config IngestCorrections.cfg MCIngest
    tlc -workers 2 -config OutboxShared.cfg Outbox
    tlc -workers 2 -config RelayQuestions.cfg MCRelay
    tlc -workers 2 -config HeartbeatReports.cfg Heartbeat
    tlc -workers 2 -config AccountsShared.cfg MCAccounts
    tlc -workers 2 -config StationShared.cfg MCStation
    tlapm RelayProofs.tla

`PROJECT.json` holds the machine-readable side: components, runs, the mapping
of every definition to source lines, the mutants that show each property has
teeth, hazards, findings, theorems. Paths below are relative to the repository.

## 1. The system

| Component | State it keeps | Operations | Hard behaviour | What makes it correct |
|---|---|---|---|---|
| **Launcher** `internal/launcher` | `current/previous/pending.json`, `versions\`, `probation.json`, `failed_versions.json`, `rollback_occurred.json`; in memory: window, crash count, crash-loop detector | Bootstrap, start core, health check, crash handling, handoff (exit 42), rollback, commit and prune | a crash between any two file writes; the commit goroutine against the main loop; failing writes | a version on probation is watched and can be gone back from; a bad release does not return; there is always a version to run |
| **Update agent** `internal/update` (in the core) | `pending.json`, staged binaries | check, download, verify, stage, ask for handoff | shares the folder with the launcher's pruner | a staged update is applied or dropped; quarantine is respected |
| **Ingest** `internal/posadapter/csvwatch`, `internal/normalizer`, `internal/mart`, `internal/storage` | drop folder, `raw_pos_transactions`, `transactions`, `raw_superseded`, `product_aliases`, `daily_sales` | file event, sweep, dashboard upload, manual entry, periodic refresh, catch-up at start | three goroutines without a lock; crash between storing, settling and archiving; storage errors; exports that correct earlier ones | no row lost, no sale counted twice, the newest reading of a sale stands, figures catch up |
| **Outbox** `internal/messaging`, `internal/storage/messages.go`, `internal/web/messages_handlers.go` | `messages`, `messaging_*` settings | minute tick, Save, Send now, Send test, drain | the tick and any number of requests compose and drain at once; the service stops between a send and its mark | at most one message of a kind a day, "sent" means delivered, nothing waits for ever |
| **Questions** `internal/relay`, `internal/cloudctl/messages.go`, `internal/messaging/inbound.go` | the cloud's queue, `remote_questions` | webhook, console, poll, answer, reply, record | lost and late replies, a waiting webhook that reads without the lock, eviction from a full queue, repeated polls | an asker sees the answer to that question from that station; questions go in order and come round; the station records what it answered |
| **Heartbeat** `internal/sync`, `internal/launcher/rollback.go`, `internal/cloudctl` | `rollback_occurred.json`, `local_config` (licence, `last_rollback`), attempt log | take over a rollback record, heartbeat of the core, heartbeat of the support tool, licence | a stop between taking a record over and deleting its file, two senders on one row, a lost response | a rollback is reported, and not over and over; the licence catches up |
| **Accounts** `internal/auth`, `internal/storage/audit.go`, `pinreset.go`, `internal/web/people_handlers.go`, `account_handlers.go` | users, sessions, lockout counters, reset requests, activity log | log in, set up, change or give a PIN, add, edit and remove users, ask for, approve and dismiss a reset; `reset-pin` of the command line | requests are sequences of statements that interleave: check-then-act on the number of owners, a slow PIN check across a concurrent change, an account half made, one removed under somebody's hands | an owner who can sign in remains; a replaced PIN's sessions end; every change is in the activity log |
| **Watch folders** `internal/storage/sources.go`, `internal/web/data_handlers.go`, `csvwatch.Reconcile` | `pos_watch_folders`, the watcher's map, the fsnotify watcher, the event loop and its context | add, switch on and off, remove, apply | two applies with lists read at different times; a share that goes down; a request that ends | what is watched is what is configured, or the page says why not |
| **Backups, migrations, start-up** `internal/backup`, `internal/storage/migrate.go`, `phones.go`, `cmd/fuelmind-core` | backup folder, schema version, one-time phone rewrite, the mart | migrate with a copy before it, rewrite phone numbers, rebuild or refresh the mart, nightly backup, retention | a stop between migration and rebuild; the support tool migrating beside the core; a copy that fails half-way; an older version put back | after an upgrade the mart is whole; every schema that was left has a finished copy; retention keeps a finished nightly copy |
| **Language models** `internal/llm`, `internal/ask`, `internal/web/model_handlers.go` | four rows of `local_config`, the router's client and model | save, reload, configure; ask | two saves interleave row by row; a question under way during a save; a browser that goes away between save and reload | what was saved answers the next question |
| **Dashboard shell, configuration, identity, hardware, logging, tools, installer, cloud schema** | - | rendering, parsing, one-time setup | - | - |

### How the parts meet

* Launcher and core share nothing but files and the exit code 42. A core that
  staged a release exits with 42; the launcher moves the pointers and starts the
  next one. A rollback leaves `rollback_occurred.json`; the next core takes it
  over into `local_config`, from where a heartbeat reports it.
* Inside the core everything is goroutines over one database connection. A
  transaction is atomic; two statements of one operation are not. The only
  ordering at start is `main.go`: migrate, phone numbers, normalize, materialize,
  the model, the watch folders, the dashboard; `Station` composes its modules in
  that order.
* The support tool (`fuelmind-setup`) is a process of its own over the same
  database: it migrates, resets a PIN and sends a heartbeat beside the core.
* Ingest feeds the mart; the dashboard, the answers and the messages read it.

## 2. What is modelled

### `Launcher`, `Rollout` (with `LauncherProofs`)

State is the data folder (a variable per file), the supervisor loop (`step`,
`run`, `next`, `window`, `crashes`, `checked`, `watch`), the goroutine that
commits a survivor (`commit`), and the update agent (`agent`). A version is its
rank in `version.Compare` order. **Every write of a file is one step**; the code
that runs between two writes is the label in `step`:

| Model | Code |
|---|---|
| `BootKnown` ... `BootCurrent` | `Bootstrap`, file by file |
| `ReadState` | the head of `Supervisor.Run`: `ReadCurrentVersion`, `readProbation` |
| `StartCore`, `BinaryMissing`, `PassHealthCheck`, `FailHealthCheck`, `CoreCrash`, `CountProbationCrash`, `DetectCrashLoop`, `CoreExit` | one turn of the loop and `runChild` |
| `HandoffRefused`, `HandoffAccepted`, `SwitchPrevious`, `SwitchCurrent`, `SwitchPending`, `SwitchProbation` | exit code 42 and `switchTo` |
| `BackCurrent` ... `BackDone` | `rollback`, in the code's order |
| `CommitSurvivor`, `ClearProbation`, `ReadPointer`, `DeleteUnkept` | the goroutine of `runChild` and `PruneVersions` |
| `BeginStage`, `RemoveOldCopy`, `RenameIntoPlace`, `WritePending`, `RequestHandoff` | `update.Agent.Tick`, `Stage`, `maybeHandoff` |
| `ReadPointerFails`, `BeginStageUnread`, `ReadError` | a file that cannot be read, and what its reader goes on without: the prune spares one version less, the agent sees nothing staged or quarantined, the supervisor no window or no current version |
| `TakeOverRecord` | `takeOverRollbackRecord` in `cmd/fuelmind-core` |
| `StopService`, `PowerLoss`, `DiskError`, `StageFails` | an orderly service stop, a power loss at any step, a failing file operation with the error path the code takes |

Abstracted: the two hours of a window are the event `WindowExpires`, the ten
minutes of the crash-loop detector `CrashForgotten`; backoff delays are left out
(they order nothing). A window ends while the self-check still waits only if the
version may quit, which starts the wait anew each time, or after a fault. Two
constants bound how late the committing goroutine may be. Unless `SlowPrune`, a
download takes longer than the pruning that the commit of an earlier run of the
core has left unfinished (`Download`); unless `SlowCommit`, a commit that passed
its liveness check has removed its own `probation.json` before the next window is
opened (`SwitchProbation`). `unproven`, `abandoned` and `unread` (a prune could not
read a pointer) are history variables.

`Rollout` is what the launcher promises about versions, without files: move
forward one version at a time with the version that ran before armed as the
fallback; go back only to that one; a version gone back from is banned, and
only an installer package brings it back. `ImplementsRollout` is the refinement
(`active <- current`, `fallback <- previous`, `banned` from `failed_versions.json`
and from a rollback half done).

### `Ingest` (with `MCIngest`, `IngestProofs`)

A CSV row is the *reading* of a sale: sale key, lane, day, product, amount.
Byte-identical rows are equal readings, as `payload_hash` makes them. A raw
row's id is its place in `raw`. A row of `daily_sales` is the set of raw rows
its sums range over, so "counted twice" is visible without adding numbers.
Each goroutine (`loop` the watcher's event loop, `refresh` the periodic refresh
and the catch-up at start, `web` a dashboard upload) runs the pipeline step by
step, and one SQL transaction or file operation is one step:

| Model | Code |
|---|---|
| `BeginFile` | `processFile` up to the parsed rows, with `writeRejects`; by the loop, or by the request that adds or applies a folder, which sweeps it (`ProcessExisting`) |
| `BeginUpload`, `BeginRefresh`, `StartCore` | `IngestCSV`/`IngestRows`, `periodicRefresh`, the catch-up of `main.go` |
| `StoreLane` | `storeRows`: one transaction per lane, `INSERT OR IGNORE` |
| `ReloadAliases`, `ListUnresolved`, `WriteRow`, `WriteNormalized` | `Normalizer.Run`: the aliases, then the list, then row after row with `WriteNormalizedTransaction` |
| `Materialize`, `MaterializeAgain` | `mart.MaterializeSince`, `refreshDailySales` |
| `Archive`, `RejectFile` | the rename into `processed\` or `failed\` |
| `Crash`, `StorageError` | stop at any step; an operation that fails, with the path the code takes |

`current` and `stale` are history: which readings are the last export of their
sale, and which were corrected.

### `Outbox` (with `OutboxProofs`)

A message is its kind, day, number, status and attempts. Which kinds are due in
a tick is an arbitrary input: the hour, the alert switch and the figures decide
it in the code, so every property holds for any thresholds. Settings are read
and written one row at a time, as `LoadSettings` and `Save` do. One goroutine is
the tick; the others are requests of the dashboard.

| Model | Code |
|---|---|
| `BeginSave`, `SaveRecipient` | `Settings.Save`, one `local_config` row after the other |
| `BeginOnce`, `LoadRecipient`, `Compose` | `Agent.Once`, `LoadSettings`, `compose` with `QueueMessage` |
| `BeginTest`, `QueueTest` | `Agent.QueueTest` |
| `ListPending`, `Send`, `Mark` | `Agent.Drain`: `PendingMessages`, `Sender.Send`, `MarkMessageSent`/`MarkMessageAttempt` |
| `Channel`, `Stop`, `Cancel` | the connection, a stop of the service, a request whose context ends |

`reached` (how often a message arrived at a phone) and `overlaps` (drains begun
while another was sending) are history.

### `Relay`, `Mailbox` (with `MCRelay`, `RelayProofs`)

A question is its number in the order of arrival; the control plane's queue and a
station's list are therefore *sets* of numbers, whose least one is next. An answer
is the question, the station and the figures it was computed from. What a handler
does while it holds the control plane's mutex is one step; so is one request or
one SQL statement of the station. `WaitForAnswer` and the console take a pointer
under the mutex and read the message without it: `Look` remembers what was there,
and `Read` returns that, or what is there now, or something torn if it changed
meanwhile (`Readable`).

| Model | Code |
|---|---|
| `Webhook`, `WindowOver`, `Registered`, `Enqueue` | `handleWhatsAppWebhook`: rate limit, then the sender's station, then the queue |
| `SupportAsks`, `SupportReads` | `handleAdminMessages` |
| `Put` | `Server.Enqueue`: append, drop the oldest above 500 |
| `Look`, `Read`, `Deadline` | `WaitForAnswer` |
| `Wake`, `Poll`, `PollFails`, `Pending`, `Oldest` | the owner's switch is read, then the GET: `handlePendingMessages`, and the ten a tick takes |
| `AnswerQuestion`, `Reply`, `Record`, `RecordFails`, `NextQuestion` | the loop of `Agent.Tick` |
| `ReplyFails`, `Arrive` | a POST that is lost, whose response is lost, or that arrives after the agent gave up |
| `Accepts`, `Store` | `handleMessageReply` |
| `SetEnabled` (in the stations of `Switched`), `SetStatus`, `CloudRestart`, `Stop` | the owner's switch, a suspension, a restart of the control plane (everything is in memory), a stop of the service |

`shown` (which answers somebody was shown to which question) is history.

`Mailbox` is what all of this amounts to for whoever asks, without requests, ticks
or polling: a question is kept until `QueueCap` newer ones, or a restart, push it
out; it gets answers only from its own station and never past an older question to
that station that waits; an answer may be replaced (a late reply, a repeated poll)
but not taken back; and nothing is shown of a question that has none.
`ImplementsMailbox` is the refinement (`questions <- messages`, `kept <- queue`,
`seen <- shown`). Three handlers of the control plane are the steps `Ask`, `Answer`
and `Show`; everything else the parts do is a stutter.

### `Heartbeat` (with `HeartbeatProofs`)

A rollback record is the number of the rollback, a licence the number of the
change. `record` is the launcher's file, `stored` and `cache` are rows of
`local_config`; one SQL statement, file operation or request is one step. Two
processes send: the core's loop, and the support tool over the same database.

| Model | Code |
|---|---|
| `RollBack` | `writeRollbackRecord`, once per rollback |
| `StartCore`, `ReadRecord`, `StoreRecord`, `DeleteRecord`, `TakeOverFails` | `takeOverRollbackRecord` at the start of the core, and its error paths |
| `BuildPayload`, `PostHeartbeat`, `Receive`, `PostFails` | `Agent.SendOnce` up to the response, and `handleHeartbeat` |
| `PersistLicence`, `ClearReported`, `StorageFails` | the rest of `SendOnce` |
| `StopCore`, `CloseTool`, `ChangeLicence` | an orderly or sudden stop, the administrator |

`crossed` (a record was stored while a report was in flight) and `overlaps`
(reports begun while another was in flight) are history.

### `Accounts` (with `MCAccounts`, `AccountsProofs`)

A browser has at most one request under way (`work`), which is a sequence of
statements; each SQL statement or transaction is one step and requests
interleave, with each other and with the command line's `reset-pin` (the worker
`Tool`). A PIN is the number of times it was set, so that a session knows which
PIN opened it. Foreign keys and the unique name are enforced where the schema
enforces them.

| Model | Code |
|---|---|
| `BeginLogin`, `RecordFailure`, `Lock`, `RecordSuccess`, `CreateSession`, `Logout`, `Unlock` | `LoginAs`, `RecordLoginFailure`, `RecordLoginSuccess`, `CreateSession`, the lockout |
| `BeginSetup`, `SetupPIN`, `Enter` | the setup page, and `fuelmind-setup reset-pin` (`BeginTool`, `DeleteAllSessions`) |
| `BeginOwn`, `BeginPIN`, `BeginApprove`, `SetPINFor`, `ReadAgain`, `SignOut` | `SetPINFor` from the Account and People pages, then `GetDashboardUser` for the id and `DeleteSessionsForUser` |
| `AskReset`, `BeginDismiss`, `Resolve` | `RequestPINReset`, `ResolvePINResets` |
| `BeginAdd`, `CreateUser` | `AddUser`, which sets the PIN next and deletes the account again if that fails |
| `BeginUpdate`, `BeginRemove`, `ReadRole`, `CountOwners`, `UpdateUser`, `SwitchOff`, `DeleteUser` | `UpdateUser` and `DeleteUser`, with the two statements of `isLastActiveOwner` before them |
| `Audit` | the line in the activity log, refused when its author is gone |
| `Stop`, `Cancel`, `StatementFails` | a stop, a browser that goes away, a failing statement, with each error path |

`overlapped`, `resetup`, `orphaned` and `unlogged` are history: they name the
overlaps the code does not exclude, and the properties are stated relative to
them; what the documents promise without the excuse is refuted in section 6.

### `Station` = `CoreProcess` + `WatchFolders` + `Answers` + `Startup` (with `MCStation`, `StationProofs`)

One process from start to stop. `CoreProcess` holds how far `run` has come
(`core`), each part has its own variables, and `Station` composes them: a phase of
`run` is a step of the part it belongs to, a browser has one request under way
in *any* part, and a stop keeps the rows and the copies and nothing else.

| Module | Model | Code |
|---|---|---|
| `Startup` | `ListApplied`, `PreMigrationBackup`, `ApplyMigration`, `Taken`, `NameTaken` | `MigrateCount`, of the core and of the tool; the one that comes second with a migration, or with the name of its copy, fails |
| | `CanonicalizeCustomerPhones`, `PhonesDone`, `FlagPhones` | the one-time rewrite and its flag |
| | `Materialize` | the catching up at start: everything if a migration or the rewrite called for it, else a week |
| | `BackupBegin`, `EnforceRetention`, `BackupFails` | the nightly copy and `enforceRetention` |
| | `StartCore`, `ServeStation`, `Install`, `StartupGone` | start (also with `-rebuild-mart`), listening, another version put in place, the end of the process |
| `WatchFolders` | `AddWatchFolder`, `SetWatchFolderEnabled`, `RemoveWatchFolder`, `EnsureBuiltIn` | one row, then the apply |
| | `EnabledWatchFolders`, `Folders`, `Unwatch`, `UnwatchNotify`, `WatchAlready`, `WatchFails`, `Watch`, `WatchRegister`, `SetWatchFolderError` | `applyWatchFolders` and `Reconcile`, one access to the table or to the locked map at a time |
| | `ApplyStatementFails`, `ApplyCancelled`, `ShareDown`, `ShareUp`, `FoldersGone` | a failing statement, a browser that goes away, a network share, the end of the process |
| `Answers` | `SaveSettings`, `SaveSettingsUnread`, `SetLocalConfig`, `ReloadModel`, `Configure` | `saveModelSettings` row by row, `reloadModel` row by row, `Router.Configure` |
| | `Ask`, `RouteStandard`, `Current`, `Generate` | a question: figures, `Router.current`, the provider's answer |
| | `SaveFails`, `ReloadFails`, `ReloadCancelled`, `NewRouterFromSettings`, `AnswersGone` | error paths, start, end |

The history `torn` (folders) and `mixed` (model) say that a change may have been
missed: two overlapped, or one failed, and none of the kind has run alone since.
`lost` says that a rebuild of the mart that was owed was not done.

## 3. The runs

| Run | What it shows | Bounds and why they suffice |
|---|---|---|
| `LauncherRestart` | With crashing, hanging and quitting versions, an installer upgrade and two orderly restarts: probation survives, there is a way back, no rolled back version is switched to again, and the files implement `Rollout`. Under the fairness below, a release that never answers `/healthz` is replaced and a staged update is applied or dropped. | Four versions, the last of them bad: one to run, one the installer brings, two to stage; a rollback and a new update overlap. Two stops allow one on each side of a switch. `BadUpdateReverted` and `UpdateApplied` assume an undisturbed station (`Undisturbed`): a service that is killed for ever makes no progress. |
| `LauncherFaults` | With stops, power losses, failing writes and unreadable files at any step, a commit that lags behind, versions that crash or quit and two installer packages: `current.json` or `previous.json` names a version that can be started, unless Bootstrap has a newer installed core to activate (`Unadopted`: `LauncherOvertaken` shows why the exception is needed) or a prune could not read a pointer (`unread`, section 6); and the core that runs is in place and named by one of the two. | Five versions, packages for the first and the last two: a switch, a rollback and two upgrades overlap, and a second package may come before the first was activated. Two faults of any kind: one inside a switch, one inside the recovery from it. `SlowPrune` is off: with it this instance refutes `NeverBricked`, section 6. |
| `LauncherNoWayBack` | *violation*, section 6 | one power loss |
| `IngestConcurrent` | Three goroutines at once over one file name, two days and a correction: whenever a row of the daily figures lags behind `transactions`, a goroutine still at work is going to refresh it; no sale vanishes and none is counted twice. | Two days on either side of the start of the week; two exports for three goroutines: one imports, one corrects, one refreshes with a list that grows old. No faults and no late aliases: both let figures lag with nobody at work, which is what the refresh is for. |
| `IngestCorrections` | One goroutine, two successive corrections of a sale, a bad row, a file without one good row, a late-known row, two crashes or storage errors: the newest reading stands, archived rows are stored or handed back, and every sale reaches the figures even if no file-system event ever arrives. | Two corrections: one to supersede, one to supersede the superseding row. Two faults: one in the step, one in the retry. Under concurrency newest-wins fails (section 6). |
| `OutboxShared` | The tick and a request side by side over two days, with a stop, a cancelled request, a failed send or a failed write anywhere: one message per kind and day, "sent" means it reached a phone, every repetition has a cause, and what is sent or given up stays so unless two drains overlap. | Two goroutines give every overlap of two drains; the proof covers any number. Two numbers, one that cannot be reached; two attempts instead of five. |
| `OutboxLive` | Every queued message is sent or given up while the channel works, although the drain takes a batch of one and one number is never reached. | Batch 1 makes head-of-line blocking possible with two messages. |
| `RelayQuestions` | Two stations that share a number, the webhook and the console, replies whose response is lost or that arrive late: everybody sees the right station's answer to the right question, each gap of a station's record has a fault behind it, and questions are answered in order. | Two questions for a list of two: one to fail, one to overtake. One open request, since requests only meet in the queue. A lost request is left out here: it is a delayed one that never arrives. So is the owner's switch (`Switched` is empty): it only keeps ticks from beginning. Stations are interchangeable (`SYMMETRY`; safety only). |
| `RelayLive` | A queue of two for three questions, one question per tick, an owner who uses the switch, lost polls and replies, a failed record, a stopped service and a restarted control plane: no question waits for ever while its station is switched on and active; and seen from outside all of it is `Mailbox`. | Queue and list smaller than the number of questions, so that eviction and a second tick occur. |
| `HeartbeatReports` | Two rollbacks, a changing licence, two senders, two faults anywhere: the last rollback is kept until it is delivered, each repeated report has a cause, reports and licences arrive in the end. | Two rollbacks: one in flight, one to overwrite it. |
| `AccountsShared` | Two browsers and the command line change the accounts of a new station, or of one with two owners, statement by statement, with a stop, a closed request or a failed statement anywhere: an owner who can sign in remains, sessions of a replaced PIN end, every change is in the activity log or under way. | Two browsers, two accounts, three requests or faults (right sign-ins are free): two to collide and one to fail. `CHECK_DEADLOCK FALSE`: when the bound is used up and nobody is signed in the station rests. |
| `StationShared` | A station starts, is upgraded or put back, backs itself up and serves two browsers and a phone: what was saved is what runs, a question is answered by the choice saved when it was asked, an upgrade loses neither figures nor the copy to go back to. | Two folders (FuelMind's own and a share), three model choices, two versions, one nightly copy kept, three requests, faults, upgrades or copies in all. Every pair of concurrent changes with one fault fits; the theorems cover any number. `CHECK_DEADLOCK FALSE` for the same reason. Safety only: these parts promise nothing without somebody asking. |

### Fairness

* `Launcher!FairSpec`: goroutines go on; the service manager restarts the
  service (the MSI sets recovery to restart); a self-check ends, because
  `HealthTimeout` bounds it; windows expire, because time passes; the agent's
  ticker fires every 30 minutes; the handoff (`SF`) needs strong fairness, since
  the maintenance window comes every night but not all the time, and a crash of
  the running core disables it meanwhile. Nothing forces a crash or an exit.
* `Ingest!FairSpec`: a run that began goes on; the 15-minute refresh sweeps each
  folder and runs the normalizer (`SF`: the goroutine may be busy with another
  file when the ticker fires, but is free again and again). **No fairness for
  file-system events**, aliases, uploads or the loop's picking up a file: events
  get lost.
* `Relay!FairSpec`: the 20-second ticker, and every step of a tick that began,
  because each request of it has a timeout. Nothing makes anybody ask, and
  nothing lets the station be switched on.
* `Heartbeat!FairSpec`: the service manager starts the core, its cycle comes
  round, a heartbeat that began ends. Nobody has to run the support tool, and the
  launcher does not have to roll back.
* `Outbox!FairSpec`: the minute tick, and every goroutine that began. Nothing
  makes the channel recover: the property is about stations whose channel does.

## 4. What is proved

For every value of the constants (any versions, readings, files, kinds, numbers,
bounds; any number of browsers and stations, and of goroutines in `Outbox`, while
`Ingest` has the three named in section 2), from the named ASSUMEs of the modules only:

| Theorem | Statement | Further assumption | Inductive invariant |
|---|---|---|---|
| `LauncherProofs!TypeCorrect` | `Spec => []TypeOK` | none | `TypeInv`: besides types, a step that uses a version (`run`, `next`, `agent.v`) has one; without it a rollback could put "no version" in the quarantine |
| `LauncherProofs!AlwaysStartable` | `Spec => []NeverBricked` | prunes not overtaken by a download (`~SlowPrune`) | `SafeInv`: one of the two pointers names an installed version, or Bootstrap was cut short with a newer core in place (`SomeInstalled`); what runs is named by a pointer and in place (`RunIsNamed`, `RunInPlace`); the writes of a switch or a rollback are done in order (`PointersMoved`); the core Bootstrap activates is in place before a pointer names it (`BundleReady`); a prune spares one of the versions that are still named, and the one that runs for as long as it may be switched away from (`PruneSparesOne`, `PruneSparesRun`) |
| `LauncherProofs!RunsWhatAPointerNames` | `Spec => []RunsANamedVersion` | none | `SafeInv` |
| `LauncherProofs!RunsWhatCurrentNames` | `Spec => []RunsCurrent` | no failing writes | `InPlace`: outside a switch or rollback `run = current`, after the write of `current.json` `next = current` |
| `LauncherProofs!NeverFlaps` | `Spec => []NoFlap` | orderly stops only (`StopsOnly`), and `QuarantineHolds`: `failed_versions.json` has room for every release | `FlapInv`: every version rolled back is in the list, but for the one a rollback is about to write there; none of them is staged. With room for all the list never drops an entry (`RememberAll`, a counting argument) |
| `LauncherProofs!LauncherImplementsRollout` | `Spec => ImplementsRollout` | the same | `FlapInv`, `SafeInv`, `StagedIsNewer` (what is staged is newer than what it replaces) and `BannedInv` (what `failed_versions.json` and a rollback half done ban is what was rolled back from): each step of the files is an `Advance`, `Revert`, `Arm` or `Found` of `Rollout`, or a stutter (`StepRefines`) |
| `LauncherProofs!WayBackKept` | `Spec => []WayBack` | orderly stops only, prunes not overtaken (`~SlowPrune`) | `WayInv`: the window in `probation.json` is the one in memory or was overtaken by a package (`FileInv`), `previous.json` names an older installed version whenever a window is open, in memory or in the file (`TargetKept`), and what a prune has read so far includes it (`PruneSpares`) |
| `LauncherProofs!ProbationSurvivesRestart` | `Spec => [](ProbationKept /\ ProbationDurable)` | orderly stops only, commits not overtaken (`~SlowCommit`) | the window in memory, `probation.json` and the history of the version being tried agree at every step of the loop, and the commit goroutine only holds a window that is closed |
| `LauncherProofs!ProbationOnDisk` | `Spec => []ProbationDurable` | the same | a corollary |
| `IngestProofs!TypeCorrect` | `Spec => []TypeOK` (with: no payload twice) | none | `TypeInv`: what each goroutine holds fits its step |
| `IngestProofs!CorrectionKeepsSale` | `Spec => []SaleKept` | none | `SaleKept` together with `TypeInv`: when the row that stands for a superseded one is replaced in turn, its replacement is of the same sale |
| `IngestProofs!CountsEachSaleOnce` | `Spec => []CountedOnce` | corrections keep day and product | `BookInv`: at most one row of `transactions` per sale, and `daily_sales` only books rows under the day and product of their sale |
| `IngestProofs!NothingArchivedUnread` | `Spec => []ArchivedIsStored` | files are left alone until they are gone, rejected rows can be written | for every goroutine that holds a file: the rows of what is *now* under that name are still in its hands, stored, or in `failed\` |
| `IngestProofs!RefreshIsOwed` | `Spec => []RefreshOwed` | every product known, no faults; one, two or all three goroutines | `CountsSales`, `OpenIsHeld`, `AliasesRead`, `ReplacedIsCorrected`, `StartIdle`: a row not yet normalized is in the hands of a goroutine that will refresh its day |
| `IngestProofs!NewestReadingWins` | `Spec => []NewestWins` | one goroutine, products are kept by corrections | `ListIsComplete`, `InOrder`: the list a run works from has every open row, oldest first |
| `IngestProofs!LastExportWins` | `Spec => []LastExportStands` | one goroutine, products are kept | `ExportOrder`, `WaitingIsLast`, `AllExported`, `InHandIsWaiting`: what waits in the folder or is held is later than all that is stored |
| `OutboxProofs!TypeCorrect` | `Spec => []TypeOK` (with: the dedup key is unique) | none | `TypeInv`: what a goroutine has listed exists |
| `OutboxProofs!ShowsWhatWasDelivered` | `Spec => []SentIsDelivered` | none | `DeliveredInv`: a goroutine about to mark a message as sent has seen it go out |
| `OutboxProofs!RepeatsHaveCauses` | `Spec => []RepeatsExplained` | none | `RepeatInv`, below |
| `OutboxProofs!SettledStays` | `Spec => SettledIsFinal` (an action property) | none | `AloneInv`: until two drains have overlapped, at most one goroutine holds messages and all it holds are still queued |
| `RelayProofs!TypeCorrect` | `Spec => []TypeOK` (with: the queue keeps its cap, one record per question) | none | `TypeInv`: an open request past `enqueue` names a message, a tick that is not idle has a list |
| `RelayProofs!AnswersAreOwn` | `Spec => []OwnAnswer` | none | `OInv`: what the messages hold, what open requests have found there and what ticks have worked out is each to its own question and from its own station |
| `RelayProofs!AnswersInOrder` | `Spec => []OldestFirst` | none | `OldInv`, below |
| `RelayProofs!GapsAreFaults` | `Spec => []LogGapsExplained` | none | `LogInv`: a set of answers no larger than the number of faults holds every answer that left a station (stored, late, read or shown) and is neither recorded nor about to be; a recorded question has its answer, so no tick takes it up again and `INSERT OR IGNORE` ignores nothing |
| `RelayProofs!RelayImplementsMailbox` | `Spec => ImplementsMailbox` | none | `MailInv`: `OldInv`, and an answer a request has seen is there for good (`FoundStays`), so that even a read that returns the answer before, or half of one, shows something of a question that is answered; each step maps to `Ask`, `Answer`, `Show`, `Forget` or a stutter (`MailStep`) |
| `HeartbeatProofs!TypeCorrect` | `Spec => []TypeOK` | none | itself |
| `HeartbeatProofs!KeepsTheNewest` | `Spec => []NewestKept` | none | `KInv`: what is in the file is the newest rollback, the file is deleted only after that one was stored, and `local_config` is cleared only of what was delivered unless the report was crossed |
| `HeartbeatProofs!ReportsHaveCauses` | `Spec => []ReportsExplained` | none | `RInv`: counts the reports under way and the copies still on the station, as `RepeatInv` does |
| `AccountsProofs!TypeCorrect` | `Spec => []TypeOK` (with: names are unique, sessions, requests and reset rows refer to accounts) | none | itself, table by table |
| `AccountsProofs!OwnerStays` | `Spec => []OwnerCanSignIn` | none | `OwnerInv`: unless `overlapped`, at most one request is past its count, and the owners it counted are still there; an account without a PIN is the built-in one or is in the hands of `AddUser` (`Adding`, `HalfMade`) |
| `AccountsProofs!SessionsEnd` | `Spec => []SessionsCurrent` | none | `SessInv`: with `ShapeInv` (which statements a request of each kind goes through: only a tool that works on the built-in name, or a page that has set a PIN, gets to a sign-out; whoever opens a session has a PIN), a cookie names a session or nothing, and a session of a replaced PIN belongs to the account that a sign-out is about to look up or has found |
| `AccountsProofs!EveryChangeIsLogged` | `Spec => []ChangesLogged` | none | `LogInv`: with the lines missing so far it counts those that are `Lost` already, because their author or the account they are about is gone; a fault answers for every request it may cut short, a removal for the requests by or for the account |
| `StationProofs!TypeCorrect` | `Spec => []TypeOK` | none | itself |
| `StationProofs!UpgradesSafe` | `Spec => []UpgradeSafe` | none | `StartInv`: `MartOwed` (a mart that is not whole is owed a rebuild by this start, or it is `lost`), `CopyOwed` (a migration that may still be applied has its copy, or is about to take it), `NightlyOwed`, `Ordered` |
| `StationProofs!SavedApplies` | `Spec => []SavedIsApplied` | no model address in the environment | `FolderInv`: alone, an apply's list is the table's and what it has still to do is the difference (`OneApplies`, `Progress`); `ModelInv`: alone, what a save has read back is what it wrote (`Quiet`, `Alone`, `Written`, `Routing`) |
| `StationProofs!NextQuestion` | `Spec => []NextQuestionUsesIt` | the same | `ModelInv` with `Fresh`: a question that knows its answer's source was asked after the last save ended |

`RepeatInv` is the interesting one. For a message, `Spent` counts its deliveries
plus the drains that have listed it and not yet sent it. Listing the message
adds one *future* delivery, so "delivered at most `1 + faults + overlaps`" is not
inductive: it holds right before a drain lists a message that was already
delivered as often as allowed. The invariant says `Spent <= 1 + causes`, and,
for a message that is queued with no drain holding it or whose send is about to
be marked as failed, `Spent <= causes`: a message in nobody's hands is back in
the queue because of a cause already counted, or was never sent.

`OldInv` explains why a station cannot be made to answer out of order. Ordering of
the answers alone is not inductive, because a tick works from a list it read
earlier, while the queue drops its oldest question, new ones come, and a reply
given up before may still arrive. So the invariant says: a list leaves out no
unanswered question older than one on it (`Ahead(s, id) \subseteq todo`); the
question a tick records has its answer, so the next one on the list is the oldest
that waits; and when a reply was sent, nothing waited in front of its question,
which stays true however late it arrives, because answers are never taken back and
questions are never put in front (`Grows`).

`LeastMember` proves that `Min` of a non-empty set of naturals is its least member, which
the other modules need because they take rows, messages and questions in order.

`FlapInv` shows why a bad release cannot come back: the agent refuses what is in
`failed_versions.json`, so it is enough that nothing it holds is banned *later*.
That needs the rollback to run with no agent at work (the core is gone), the
pending pointer to be cleared before the quarantine is written, and the list to
keep its entries. The further assumptions are as weak as TLC allows: a power loss
or a failing write refutes `NoFlap`, `WayBack` and `ProbationKept` (section 6), a
list that is too short refutes `NoFlap`, and a commit that lags behind refutes
`ProbationKept` alone. `WayInv` ties three actors together: the agent stages only what
is newer, the switch arms the version that ran, and the prune reads the pointers
one by one while the main loop may be moving them.

Model-checked only: liveness (`BadUpdateReverted`, `UpdateApplied`,
`SalesShowUp`, `OutboxEmpties`, `QuestionsAnswered`, `RollbackReported`,
`LicenceCatchesUp`), since proofs about fairness and ENABLED are out
of this prover's reach, as is induction over data.

`AlwaysStartable` assumes nothing about the faults, but for what it says of a prune
that could not read a pointer (`unread`), and `~SlowPrune` about timing. It does not
follow from orderly switches: a switch that failed half way leaves the version that runs in
`previous.json` only, a prune may have deleted the one `current.json` names, and a
power loss may come in between. What saves the station is that `switchTo` writes
`previous.json` first and that the prune reads `previous.json` after
`current.json`. With the reads the other way round TLC refutes `NeverBricked`: a
switch between them, and the rollback from it, leave neither version installed.

Three statements changed because a proof of them failed: `NeverBricked` had to leave
out `Unadopted`; `Unadopted` first asked for the core of the *last* package, which
an installer that runs twice before the service starts replaces by one not yet
copied (found with five versions, two packages and two power losses); and
`SessionsCurrent` excused a setup page sent twice by the id of
the built-in account, where the code looks it up by the name `owner`, which another
account may bear once the built-in one is removed.

## 5. Mutants

Beside several definitions stands a *mutant*: the same step with a plausible
mistake (crash counted in memory only, `pending.json` left behind, the listed
message not checked for its status ...). `PROJECT.json` lists one per property;
substituting it makes TLC find that property violated. They are never part of
`Next`.

## 6. Where code and documents disagree

A listed run, expected to end in a counterexample:

* **`LauncherNoWayBack`** - a power loss between `WriteCurrentVersion` and
  `DeletePending` (`supervisor.go:335`) leaves `pending.json` naming the version
  that now runs. The next handoff goes from that version to itself and
  `previous.json` names it too: rollback refuses. `docs/RUNBOOK.md:79-81`: "A new
  version that does not answer `/healthz`, or crashes twice inside the two-hour
  probation, is rolled back automatically."

More of the same kind, each with its `.cfg` to reproduce: TLC ends with the
counterexample. They ask nothing of the system that a listed run does not ask
under the condition it holds under. Where several rows share a configuration it
names one property and its comment says which others to put in its place.

| Configuration | Property refuted | What happens | What is said |
|---|---|---|---|
| `LauncherPower` | `ProbationKept` | power loss between the writes of `current.json` and `probation.json`: the new version runs unwatched | `probation.go:14-18` "a version that would have been rolled back runs on indefinitely instead. That is exactly the case probation exists for" |
| `LauncherSlowCommit` | `ProbationKept` | the committing goroutine is overtaken by a whole handoff and deletes the new window's file; a restart forgets the window | the same |
| `LauncherPower` | `NoFlap` | power loss in a rollback before the quarantine is written: the release is downloaded again | `rollback.go:61-63` "a bad release cannot flap" |
| `LauncherLateCrash` | `CrashesInsideWindow` | "on probation" is sampled when the child starts; a crash after the window counts against it | `RUNBOOK.md:79-81` "crashes twice inside the two-hour probation" |
| `LauncherQuits` | `QuitterReverted` | a version that exits with 0 before its self-check is neither unhealthy nor crashed, for ever | `RUNBOOK.md:79-81` |
| `LauncherOvertaken` | `AlwaysAVersion` | a prune read the pointers before a switch and deletes the version switched to; the service stops there, an installer package comes, and Bootstrap overwrites `previous.json`, the last pointer to an installed version, before `current.json` | `supervisor.go:372-373` "PruneVersions deletes installed versions other than current, previous and pending." |
| `LauncherOvertaken` | `NoReturn` | a rolled-back core of the installer that a prune has removed is copied and activated again by the next start: Bootstrap does not look at the quarantine | `rollback.go:61-63` "a bad release cannot flap" |
| `LauncherBundle` | `BundleAdopted` | power loss in Bootstrap after the copy: the next start finds the binary and does not activate it | `bootstrap.go:20-22` "the bundled core becomes current" |
| `IngestRace` | `NewestWins` | two normalizer runs hold lists read at different times and the older reading of a sale is written last (`storage.go:231` compares nothing) | migration 007 "the newest raw row for a key wins" |
| `IngestMoved` | `CountedOnce` | a correction changes day or product; the upsert of `refreshDailySales` leaves the emptied group with its old sums (`mart.go:97`) | `storage.go:208` "Revenue is never counted twice." |
| `IngestSetBack` | `FiguresOwed` | the periodic refresh works from a list it read earlier and writes a sale of an older day back after the import that corrected it has refreshed its figures; the refresh itself recomputes the trailing week only | `watcher.go:460` "settle runs normalization and mart materialization after new raw rows land" |
| `IngestHeal` | `NewestWins` | sequential: an older row whose alias was missing is normalized later and replaces the newer one | migration 007 |
| `IngestRevert` | `LastExportStands` | export A, corrected to B, taken back to A: the row is byte-identical to a stored one and ignored | `testdata/pos_samples/README.md:75-78` "replaced by the newer copy" |
| `IngestOldDay` | `SalesShowUp` | the mart step of an import of older days fails; only the trailing week is ever retried | `watcher.go:460-462` "the periodic refresh retries it" |
| `IngestReplaced` | `ArchivedIsStored` | the POS rewrites the file between the read and the rename; the new rows are archived unread | `testdata/pos_samples/README.md:90` "Nothing is silently dropped" |
| `IngestRejectsLost` | `ArchivedIsStored` | `writeRejects` fails, the file is archived all the same | `watcher.go:310-313` "the bad ones are written out on their own" |
| `OutboxKnown` | `AtMostOnceADay` | *Send now* while the tick is sending: both drains list the same message and send it (`agent.go:184`) | `README.md:264` "at most one of each a day" |
| `OutboxKnown` | `OneNumber` | a message queued for the old number goes out after the owner entered another | `README.md:270` "it only ever writes to the one number you entered" |
| `OutboxFlap` | `NothingLost` | the connection drops between `Ready` and the send, five times | `README.md:284-285` "nothing is lost" |
| `RelayUnlogged` | `AnswersLogged` | the control plane stores and shows the answer, its response is lost, and the question is not listed again: the station never records it | `README.md:242-243` "Every answered question is logged on the station" |
| `HeartbeatKnown` | `KeptUntilReported` | the support tool's heartbeat reports an old rollback and then deletes the row into which the core has put a new one | `sync.go:452` "waits in local_config until a heartbeat delivers it" |
| `HeartbeatKnown` | `AllKept` | a second rollback before the first was delivered takes its place in the file or in the row | the same |
| `AccountsKnown` | `OwnerAlways` | two owners demote or remove each other at the same time: each counts the other (`audit.go:165`) and then writes | `audit.go:62-63` "would leave the station with nobody who can administer it"; `audit_test.go:96` "A station must never be left with nobody who can administer it." |
| `AccountsKnown` | `LoginPageWorks` | another owner removes or may remove the built-in account `owner`, which login, setup and `reset-pin` look up by that name | the same |
| `AccountsKnown` | `NoLateSession` | a login compared the old PIN before it was replaced and opens its session after the sign-out | `users.go:56` "takes effect at once" |
| `StationKnown` | `OffIsOff` | two applies overlap and the older list is applied last | `data_handlers.go:180` "Nothing there will be read until you switch it back on." |
| `StationKnown` | `NotReachableShown` | a share that goes down after it was watched stays in the map; nothing tells its row | `README.md:75-77` "a folder that stops being reachable later ... is shown as Not reachable" |
| `StationKnown` | `EventsRead` | the event loop was started under a request's context (no folder could be watched before) and ends with it | `watcher.go:124` "The watcher goroutine runs until ctx is done"; `data_handlers.go:158` "Exports dropped there are read automatically." |
| `StationKnown` | `AppliedIsSaved` | the browser goes away between the save and the reload; rows that cannot be read count as not saved | `model_handlers.go:90` "what is applied is exactly what was saved" |
| `StationAddress` | `AppliedIsSaved` | `FUELMIND_OLLAMA_URL` is honoured at start and not by a reload | the same |
| `StationKnown` | `RebuiltAlways` | a stop between the migration and the rebuild: the next start finds nothing to migrate and refreshes a week | `main.go:165-166` "rebuild everything when a migration changed the schema" |

Smaller ones, seen while reading:

* *Send test* drains everything that is queued even when messages are off
  (`messages_handlers.go:113` "Messages are off. Nothing will be sent from this
  station."), and a stop between a send and its mark sends the same summary again,
  which the dedup key of migration 009 does not prevent ("what stops a restart ...
  from sending the same evening summary twice").
* The webhook promises that the station "will answer as soon as it is back online"
  (`messages.go:266`); the answer is stored and shown to nobody.
* An owner who resolved somebody else's PIN request cannot be removed
  (`012:29`, a foreign key without an action), and a half-made owner without a PIN
  counts as an active one in `isLastActiveOwner`.
* A share that was down at the start is told, and retried only by the next change
  or restart; `Unwatch` and `Watch` of one folder by two applies can leave the map
  and the fsnotify watcher different.
* A version whose pointer cannot be read is deleted by the prune
  (`supervisor.go:377`, `381`, against `372-373` "other than current, previous and
  pending"); a prune left over from an earlier run of the core that is still deleting
  when the agent has renamed the next release into place, but not yet named it in
  `pending.json`, deletes that release (`LauncherFaults` with `SlowPrune = TRUE`
  refutes `NeverBricked`).
* A saved API key that cannot be read while the form is saved with its box left blank
  counts as none (`config.go:88`, `97`) and is erased, where `config.go:62` says of
  `KeepExistingKey` "leave the saved key alone".
* Two processes that migrate at once: the transaction of one fails, or its copy if
  both pick the same name in one second (`migrate.go:144`), and if that is the core
  it exits with 1 and is restarted.
* Retention keeps the newest by modification time: a clock set back makes it remove
  the newest copy.
* `ask.Context` reads its figures in separate statements, so one answer may mix two
  refreshes; a reload that is cut short reads the tier of the PC as "standard".

## 7. Plan

Order: what decides whether the station runs at all (launcher), whether its
figures are right (ingest), what leaves it (outbox), then who may use it and what
the cloud sees.

| Module | Models | State | What is left |
|---|---|---|---|
| `Launcher`, `Rollout` | launcher and update agent | modelled; its safety properties and the refinement proved, each for all the faults it survives | |
| `Ingest` | drop folder to daily figures | modelled; all its safety properties proved, each under the condition it holds under | the mart's other tables (tank levels, credit, score), which no step reads back |
| `Outbox` | outgoing messages | modelled and proved | |
| `Relay`, `Mailbox` | questions over the cloud | modelled; its safety properties and the refinement proved | |
| `Heartbeat` | licence and rollback reports | modelled and proved | composition with `Launcher`: they meet in `rollback_occurred.json`, a variable of both |
| `Accounts` | accounts, PINs, sessions | modelled and proved | |
| `Station` | start-up, folders, model, backups | modelled and proved | `Inbound`: the limit on questions of one number and the log of questions asked over the station's own WhatsApp (`inbound.go`), which now is only an asker of `Answers` |

Runs follow one pattern: two actors, two of each datum, one to three faults;
liveness in the run whose actors make progress without anybody asking.

## 8. Not modelled, and why

* **Rendering, routing, templates, formatting, configuration parsing, hardware
  identification, logging, the tools' other commands, the installer**: pure functions or one-time setup; no order to
  get wrong.
* **WhatsApp transport**: an adapter to a library. The model uses what the caller
  can observe: a send succeeds, fails, or fails although it got through.
* **The webhook's limiter** counts before the sender's number is looked up; in the
  model both are one step, and a limiter whose table of numbers is full, which refuses
  like one whose window is used up, is left out. No property depends on either.
* **Language models**: prompt building, number grounding over free text, the wire
  format of the providers and the *Test* button, which changes nothing. A reply is
  an event; what it says is not modelled.
* **SQLite and the file system**: assumed to do what the code expects: a
  transaction is atomic and durable, a rename is atomic. Loss of a whole disk is
  out of scope.
* **A data race in the alias map** (`normalizer.go:65`: replaced without a lock
  while another goroutine reads it): `loaded` is shared in the model, as in the
  code, but a reader always sees a whole map.
* **Update downloads**: signature, checksum and network errors are one event
  (`StageFails`); the cloud's rollout percentages decide only which versions are
  `Offered`.
* **Time**: windows, tickers and days are events that may happen at any moment the
  code allows; no property is about durations.

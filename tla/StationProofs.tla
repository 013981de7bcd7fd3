---------------------------- MODULE StationProofs ----------------------------
(***************************************************************************)
(* What holds of a station for any number of browsers, questions, folders, *)
(* choices, versions and faults.                                           *)
(***************************************************************************)
EXTENDS Station, SequenceTheorems, TLAPS

-----------------------------------------------------------------------------
(* Type correctness, part by part.                                         *)

LEMMA FoldersTypeStep ==
  ASSUME FoldersTypeOK, NEW w \in Worker, ApplyStep(w)
  PROVE  FoldersTypeOK'
<1> USE FolderAssumption DEF FoldersTypeOK, Apply, Idle, Go, Step, At, Finish, On
<1>1. CASE EnabledWatchFolders(w) BY <1>1 DEF EnabledWatchFolders
<1>2. CASE Folders(w) BY <1>2 DEF Folders
<1>3. CASE UnwatchNotify(w)
  <2>1. [Step(w, "unwatch") EXCEPT !.todo = @ \ {apply[w].f}, !.f = BuiltIn] \in Apply
    OBVIOUS
  <2> QED BY <1>3, <2>1 DEF UnwatchNotify
<1>4. CASE Unwatched(w) BY <1>4 DEF Unwatched
<1>5. CASE WatchRegister(w)
  <2>1. [Step(w, "watch") EXCEPT !.todo = @ \ {apply[w].f}, !.f = BuiltIn] \in Apply
    OBVIOUS
  <2>2. apply[w].f \in Folder OBVIOUS
  <2> QED BY <1>5, <2>1, <2>2 DEF WatchRegister
<1>6. CASE Watched(w) BY <1>6 DEF Watched
<1>7. CASE Applied(w) BY <1>7 DEF Applied
<1>8. ASSUME NEW f \in Folder, Unwatch(w, f) PROVE FoldersTypeOK' BY <1>8 DEF Unwatch
<1>9. ASSUME NEW f \in Folder, WatchAlready(w, f) PROVE FoldersTypeOK'
  BY <1>9 DEF WatchAlready
<1>10. ASSUME NEW f \in Folder, WatchFails(w, f) PROVE FoldersTypeOK'
  BY <1>10 DEF WatchFails
<1>11. ASSUME NEW f \in Folder, Watch(w, f) PROVE FoldersTypeOK' BY <1>11 DEF Watch
<1>12. ASSUME NEW f \in Folder, SetWatchFolderError(w, f) PROVE FoldersTypeOK'
  BY <1>12 DEF SetWatchFolderError
<1> QED BY <1>1, <1>2, <1>3, <1>4, <1>5, <1>6, <1>7, <1>8, <1>9, <1>10, <1>11, <1>12
        DEF ApplyStep

LEMMA FoldersTypeRequest ==
  ASSUME FoldersTypeOK, NEW w \in Worker, NEW f \in Folder, NEW state \in {"on", "off"},
         \/ AddWatchFolder(w, f) \/ RemoveWatchFolder(w, f)
         \/ SetWatchFolderEnabled(w, f, state)
  PROVE  FoldersTypeOK'
<1> USE FolderAssumption DEF FoldersTypeOK, Apply, Go, Step, At, Changed
<1>1. CASE AddWatchFolder(w, f) BY <1>1 DEF AddWatchFolder
<1>2. CASE RemoveWatchFolder(w, f) BY <1>2 DEF RemoveWatchFolder
<1>3. CASE SetWatchFolderEnabled(w, f, state) BY <1>3 DEF SetWatchFolderEnabled
<1> QED BY <1>1, <1>2, <1>3

LEMMA FoldersTypeBoot ==
  ASSUME FoldersTypeOK, NEW ok \in BOOLEAN, EnsureBuiltIn(ok)
  PROVE  FoldersTypeOK'
BY FolderAssumption
   DEF FoldersTypeOK, Apply, Go, Step, At, Changed, EnsureBuiltIn, Worker

LEMMA FoldersTypeFail ==
  ASSUME FoldersTypeOK,
         \/ \E w \in Worker : ApplyStatementFails(w)
         \/ \E b \in Browser : ApplyCancelled(b)
         \/ \E f \in Folder : ShareDown(f) \/ ShareUp(f)
         \/ FoldersGone
  PROVE  FoldersTypeOK'
<1> USE FolderAssumption DEF FoldersTypeOK, Apply, Idle, Go, Step, At, Finish
<1>1. ASSUME NEW w \in Worker, ApplyStatementFails(w) PROVE FoldersTypeOK'
  BY <1>1 DEF ApplyStatementFails
<1>2. ASSUME NEW b \in Browser, ApplyCancelled(b) PROVE FoldersTypeOK'
  BY <1>2 DEF ApplyCancelled, Worker
<1>3. ASSUME NEW f \in Folder, ShareDown(f) PROVE FoldersTypeOK' BY <1>3 DEF ShareDown
<1>4. ASSUME NEW f \in Folder, ShareUp(f) PROVE FoldersTypeOK' BY <1>4 DEF ShareUp
<1>5. CASE FoldersGone BY <1>5 DEF FoldersGone
<1> QED BY <1>1, <1>2, <1>3, <1>4, <1>5

-----------------------------------------------------------------------------
(* The rows and the router.                                                *)

LEMMA FormSaved ==
  ASSUME saved \in Saved, NEW c \in Choice,
         NEW key, \/ key = (IF c.key = KeepExistingKey THEN saved.key ELSE c.key)
                  \/ key = ""
  PROVE  Form(c, key) \in Saved
<1>1. /\ Form(c, c.key)["provider"] \in Value("provider")
      /\ Form(c, c.key)["model"] \in Value("model")
      /\ Form(c, c.key)["key"] \in Value("key") /\ Form(c, c.key)["url"] \in Value("url")
  BY DEF Value
<1>2. key \in Value("key") \ {KeepExistingKey}
  <2>1. "" \in Value("key") \ {KeepExistingKey} BY DEF Value, KeepExistingKey
  <2> QED BY <1>1, <2>1 DEF Saved, Form
<1> QED BY <1>1, <1>2 DEF Saved, Form

LEMMA RowSaved ==
  ASSUME NEW rows \in Saved, NEW row \in Row, NEW c \in Saved
  PROVE  [rows EXCEPT ![row] = c[row]] \in Saved /\ [rows EXCEPT ![row] = ""] \in Saved
<1>1. "" \in Value("provider") /\ "" \in Value("model") /\ "" \in Value("url")
      /\ "" \in Value("key") \ {KeepExistingKey}
  BY DEF Value, KeepExistingKey
<1>2. CASE row = "provider" BY <1>1, <1>2 DEF Saved
<1>3. CASE row = "model" BY <1>1, <1>3 DEF Saved
<1>4. CASE row = "key" BY <1>1, <1>4 DEF Saved
<1>5. CASE row = "url" BY <1>1, <1>5 DEF Saved
<1> QED BY <1>2, <1>3, <1>4, <1>5 DEF Row

LEMMA UnsetSaved == Unset \in Saved
BY DEF Unset, Saved, Value, KeepExistingKey

LEMMA CutSaved ==
  ASSUME NEW c \in Saved, NEW rows
  PROVE  Cut(c, rows) \in Saved
BY DEF Cut, Saved, Value, KeepExistingKey

LEMMA FollowingRow == \A row \in Row : Following[row] \in Row
BY DEF Row, Following

LEMMA AnswersTypeStep ==
  ASSUME AnswersTypeOK, AnswersStep
  PROVE  AnswersTypeOK'
<1> USE DEF AnswersTypeOK
<1>1. ASSUME NEW b \in Browser, SetLocalConfig(b) PROVE AnswersTypeOK'
  <2>1. saved' \in Saved BY <1>1, RowSaved DEF SetLocalConfig, Save
  <2>2. save' \in [Browser -> Save] BY <1>1, FollowingRow DEF SetLocalConfig, Save
  <2> QED BY <1>1, <2>1, <2>2 DEF SetLocalConfig
<1>2. ASSUME NEW b \in Browser, ReloadModel(b) PROVE AnswersTypeOK'
  <2>1. [save[b].c EXCEPT ![save[b].row] = saved[save[b].row]] \in Saved
    BY <1>2, RowSaved DEF Save
  <2>2. save' \in [Browser -> Save]
    BY <1>2, <2>1, FollowingRow DEF ReloadModel, Reads, Save
  <2> QED BY <1>2, <2>2 DEF ReloadModel
<1>3. ASSUME NEW b \in Browser, Configure(b) PROVE AnswersTypeOK'
  <2>1. Configured(save[b].c, "") \in Routed BY DEF Save, Routed
  <2> QED BY <1>3, <2>1, UnsetSaved DEF Configure, Save, NoSave, Row
<1>4. ASSUME NEW q \in Asker, RouteStandard(q) \/ Current(q) \/ Generate(q)
      PROVE  AnswersTypeOK'
  <2>1. NoQuestion \in Question
    BY UnsetSaved DEF NoQuestion, Question, Routed
  <2> QED BY <1>4, <2>1
          DEF RouteStandard, Current, Generate, Answered, Question
<1> QED BY <1>1, <1>2, <1>3, <1>4 DEF AnswersStep

LEMMA AnswersTypeRequest ==
  ASSUME AnswersTypeOK,
         \/ \E b \in Browser, c \in Choice : SaveSettings(b, c) \/ SaveSettingsUnread(b, c)
         \/ \E q \in Asker : Ask(q)
         \/ NewRouterFromSettings
  PROVE  AnswersTypeOK'
<1> USE DEF AnswersTypeOK
<1>1. ASSUME NEW b \in Browser, NEW c \in Choice,
             SaveSettings(b, c) \/ SaveSettingsUnread(b, c)
      PROVE  AnswersTypeOK'
  <2>1. PICK key : Form(c, key) \in Saved /\ BeginSave(b, c, key)
    BY <1>1, FormSaved DEF SaveSettings, SaveSettingsUnread
  <2>2. save' \in [Browser -> Save]
    BY <2>1 DEF BeginSave, Save, Row
  <2>3. ask' \in [Asker -> Question] BY <2>1 DEF BeginSave, Question
  <2> QED BY <2>1, <2>2, <2>3 DEF BeginSave, Saving
<1>2. ASSUME NEW q \in Asker, Ask(q) PROVE AnswersTypeOK'
  <2>1. Configured(saved, EnvURL) \in Routed BY DEF Routed
  <2>2. [NoQuestion EXCEPT !.at = "figures",
          !.fresh = IF Saving \/ mixed THEN {} ELSE {Configured(saved, EnvURL)}] \in Question
    BY <2>1, UnsetSaved DEF NoQuestion, Question, Routed
  <2> QED BY <1>2, <2>2 DEF Ask
<1>3. CASE NewRouterFromSettings BY <1>3 DEF NewRouterFromSettings, Routed
<1> QED BY <1>1, <1>2, <1>3

LEMMA AnswersTypeFail ==
  ASSUME AnswersTypeOK,
         \/ \E b \in Browser : SaveFails(b) \/ ReloadFails(b) \/ ReloadCancelled(b)
         \/ AnswersGone
  PROVE  AnswersTypeOK'
<1> USE DEF AnswersTypeOK
<1>1. ASSUME NEW b \in Browser, SaveFails(b) PROVE AnswersTypeOK'
  BY <1>1, UnsetSaved DEF SaveFails, NoSave, Save, Row
<1>2. ASSUME NEW b \in Browser, ReloadFails(b) PROVE AnswersTypeOK'
  <2>1. [save[b].c EXCEPT ![save[b].row] = ""] \in Saved BY <1>2, RowSaved DEF Save
  <2>2. save' \in [Browser -> Save]
    BY <1>2, <2>1, FollowingRow DEF ReloadFails, Reads, Save
  <2> QED BY <1>2, <2>2 DEF ReloadFails
<1>3. ASSUME NEW b \in Browser, ReloadCancelled(b) PROVE AnswersTypeOK'
  <2>1. Cut(save[b].c, Left(save[b].row)) \in Saved BY CutSaved DEF Save
  <2>2. save' \in [Browser -> Save] BY <1>3, <2>1 DEF ReloadCancelled, Save, Row
  <2> QED BY <1>3, <2>2 DEF ReloadCancelled
<1>4. CASE AnswersGone
  BY <1>4, UnsetSaved DEF AnswersGone, NoSave, Save, Row, NoQuestion, Question, Routed
<1> QED BY <1>1, <1>2, <1>3, <1>4

-----------------------------------------------------------------------------
(* Start-up, the migrations and the copies: the inductive invariant.       *)

\* A list of migrations is worked off in order.
Ordered == \A p \in Process : migrate[p].next <= migrate[p].goal
\* Whatever has left days out of the mart, a rebuild of all of it is to come in
\* this start, or has been missed.
MartOwed ==
  /\ core = "schema" <=> Migrating(Core)
  /\ \/ whole \/ lost \/ InStep(Core, "apply")
     \/ core \in {"phones", "flag", "mart"} /\ rebuild
\* A process about to apply a migration to a schema that was served under has
\* copied it.
CopyOwed ==
  /\ core \notin {"down", "schema"} => schema >= 1
  /\ served \subseteq 1..schema
  /\ \A p \in Process : migrate[p].at \in {"copy", "apply"} => migrate[p].next <= schema + 1
  /\ \A p \in Process : /\ InStep(p, "apply") /\ migrate[p].next = schema + 1
                        /\ schema \in served
                        => <<schema, TRUE>> \in pre
  /\ CopyKept
\* The last nightly copy is the one that is being written.
NightlyOwed == NightlyKept /\ (copying => nightly # <<>>)

StartInv == StartupTypeOK /\ Ordered /\ MartOwed /\ CopyOwed /\ NightlyOwed

LEMMA StartInvInit ==
  ASSUME CoreInit, StartupInit
  PROVE  StartInv
<1>1. StartupTypeOK /\ Ordered
  <2> USE VersionAssumption DEF StartupInit
  <2>1. NoMigrate \in Migrate /\ NoMigrate.next <= NoMigrate.goal
    BY DEF NoMigrate, Migrate, Version
  <2>2. build \in Version /\ schema \in 0..MaxVersion /\ served \in SUBSET (0..MaxVersion)
    BY DEF Version
  <2>3. nightly \in Seq(BOOLEAN) BY EmptySeq
  <2>4. pre \in SUBSET ((0..MaxVersion) \X BOOLEAN) OBVIOUS
  <2>5. canon \in BOOLEAN OBVIOUS
  <2> QED BY <2>1, <2>2, <2>3, <2>4, <2>5 DEF StartupTypeOK, Ordered
<1>2. MartOwed BY DEF CoreInit, StartupInit, MartOwed, Migrating, NoMigrate, Process
<1>3. CopyOwed
  BY DEF CoreInit, StartupInit, CopyOwed, CopyKept, InStep, NoMigrate
<1>4. NightlyOwed BY DEF StartupInit, NightlyOwed, NightlyKept
<1> QED BY <1>1, <1>2, <1>3, <1>4 DEF StartInv

LEMMA StartInvSame ==
  ASSUME StartInv, UNCHANGED <<core, startupVars>>
  PROVE  StartInv'
BY DEF StartInv, StartupTypeOK, Ordered, MartOwed, CopyOwed, NightlyOwed, CopyKept,
       NightlyKept, Migrating, InStep, startupVars

LEMMA NightlySame ==
  ASSUME NightlyOwed, UNCHANGED copies
  PROVE  NightlyOwed'
BY DEF NightlyOwed, NightlyKept, copies

LEMMA MigratedKeeps ==
  ASSUME StartInv, NEW p \in Process, NEW applied \in BOOLEAN, Migrated(p, applied)
  PROVE  /\ migrate' \in [Process -> Migrate] /\ Ordered' /\ rebuild' \in BOOLEAN
         /\ \A q \in Process : migrate'[q] = IF q = p THEN NoMigrate ELSE migrate[q]
         /\ p = Core => core = "schema" /\ core' = "phones" /\ (rebuild' <=> applied)
         /\ p # Core => UNCHANGED <<core, rebuild>>
<1> USE DEF StartInv, StartupTypeOK, Migrated, Goes
<1>1. NoMigrate \in Migrate /\ NoMigrate.next <= NoMigrate.goal
  BY VersionAssumption DEF NoMigrate, Migrate, Version
<1>2. migrate' = [migrate EXCEPT ![p] = NoMigrate] OBVIOUS
<1>3. rebuild' \in BOOLEAN /\ (p = Core => (rebuild' <=> applied)) OBVIOUS
<1> QED BY <1>1, <1>2, <1>3 DEF Ordered

LEMMA ListAppliedKeeps ==
  ASSUME StartInv, NEW p \in Process, ListApplied(p)
  PROVE  StartInv'
<1> DEFINE goal == migrate[p].goal
<1>1. migrate[p] \in Migrate /\ goal \in Version /\ schema \in 0..MaxVersion
  BY DEF StartInv, StartupTypeOK, Migrate
<1>2. /\ migrate[p].at = "list" /\ UNCHANGED <<data, repair, copies, served, lost>>
      /\ goal \in Nat \ {0} /\ schema \in Nat /\ goal <= MaxVersion /\ MaxVersion \in Nat
  BY <1>1, VersionAssumption DEF ListApplied, InStep, Version
<1>3. NightlyOwed' BY <1>2, NightlySame DEF StartInv
<1>4. p = Core => whole \/ lost
  BY <1>2 DEF StartInv, MartOwed, Migrating, InStep
<1>5. CASE schema >= goal
  <2>5. Migrated(p, FALSE) BY <1>5 DEF ListApplied
  <2>1. /\ migrate' \in [Process -> Migrate] /\ Ordered' /\ rebuild' \in BOOLEAN
        /\ \A q \in Process : migrate'[q] = IF q = p THEN NoMigrate ELSE migrate[q]
        /\ p = Core => core = "schema" /\ core' = "phones"
        /\ p # Core => UNCHANGED <<core, rebuild>>
    BY <2>5, MigratedKeeps
  <2>2. StartupTypeOK' /\ Ordered'
    BY <2>1, <1>2 DEF StartInv, StartupTypeOK, data, copies
  <2>3. MartOwed'
    <3>1. CASE p = Core
      <4>1. core' = "phones" /\ ~Migrating(Core)'
        BY <2>1, <3>1 DEF Migrating, NoMigrate
      <4>2. whole' \/ lost' BY <1>2, <1>4, <3>1 DEF data
      <4> QED BY <4>1, <4>2 DEF MartOwed
    <3>2. CASE p # Core
      <4>1. /\ migrate'[Core] = migrate[Core] /\ core' = core /\ (rebuild' <=> rebuild)
            /\ (whole' <=> whole) /\ (lost' <=> lost)
        BY <2>1, <3>2, <1>2 DEF Process, data
      <4> QED BY <4>1 DEF StartInv, MartOwed, Migrating, InStep
    <3> QED BY <3>1, <3>2
  <2>4. CopyOwed'
    <3>1. /\ schema' = schema /\ served' = served /\ pre' = pre /\ schema >= 1
          /\ \A q \in Process : migrate'[q] = IF q = p THEN NoMigrate ELSE migrate[q]
      BY <2>1, <1>2, <1>5 DEF data, copies
    <3>2. \A q \in Process : migrate'[q].at \in {"copy", "apply"} => migrate'[q] = migrate[q]
      BY <3>1 DEF NoMigrate
    <3>3. CopyKept' BY <3>1 DEF StartInv, CopyOwed, CopyKept
    <3> QED BY <3>1, <3>2, <3>3 DEF StartInv, CopyOwed, InStep
  <2> QED BY <2>2, <2>3, <2>4, <1>3 DEF StartInv
<1>6. CASE ~(schema >= goal)
  <2> DEFINE at == IF schema > 0 THEN "copy" ELSE "apply"
  <2>1. /\ migrate' = [migrate EXCEPT ![p].next = schema + 1, ![p].at = at]
        /\ UNCHANGED <<core, rebuild>>
    BY <1>6 DEF ListApplied
  <2>2. /\ \A q \in Process : q # p => migrate'[q] = migrate[q]
        /\ migrate'[p].next = schema + 1 /\ migrate'[p].at = at /\ migrate'[p].goal = goal
    BY <2>1, <1>1 DEF StartInv, StartupTypeOK, Migrate
  <2>3. schema + 1 \in Version /\ schema + 1 <= goal
    BY <1>2, <1>6 DEF Version
  <2>4. migrate' \in [Process -> Migrate]
    BY <2>1, <2>3, <1>1 DEF StartInv, StartupTypeOK, Migrate
  <2>5. StartupTypeOK' /\ Ordered'
    BY <2>1, <2>2, <2>3, <2>4, <1>2 DEF StartInv, StartupTypeOK, Ordered, data, copies
  <2>6. MartOwed'
    <3>1. Migrating(Core)' <=> Migrating(Core)
      BY <2>2, <1>2 DEF Migrating, Process
    <3>2. InStep(Core, "apply") => InStep(Core, "apply")'
      BY <2>2, <1>2 DEF InStep, Process
    <3>3. core' = core /\ (rebuild' <=> rebuild) /\ (whole' <=> whole) /\ (lost' <=> lost)
      BY <2>1, <1>2 DEF data
    <3> QED BY <3>1, <3>2, <3>3 DEF StartInv, MartOwed
  <2>7. CopyOwed'
    <3>1. migrate'[p].at = "apply" => schema \notin served
      BY <2>2, <1>2 DEF StartInv, CopyOwed
    <3>2. schema' = schema /\ served' = served /\ pre' = pre /\ core' = core
      BY <2>1, <1>2 DEF data, copies
    <3>3. ASSUME NEW q \in Process, migrate'[q].at \in {"copy", "apply"}
          PROVE  /\ migrate'[q].next <= schema + 1
                 /\ InStep(q, "apply")' /\ migrate'[q].next = schema + 1 /\ schema \in served
                    => <<schema, TRUE>> \in pre
      <4>1. CASE q = p BY <4>1, <3>1, <2>2, <1>2 DEF InStep
      <4>2. CASE q # p BY <4>2, <3>3, <2>2 DEF StartInv, CopyOwed, InStep
      <4> QED BY <4>1, <4>2
    <3> QED BY <3>2, <3>3 DEF StartInv, CopyOwed, CopyKept, InStep
  <2> QED BY <2>5, <2>6, <2>7, <1>3 DEF StartInv
<1> QED BY <1>5, <1>6

LEMMA PreMigrationBackupKeeps ==
  ASSUME StartInv, NEW p \in Process, PreMigrationBackup(p)
  PROVE  StartInv'
<1>1. /\ migrate[p] \in Migrate /\ migrate[p].at = "copy"
      /\ migrate' = [migrate EXCEPT ![p].at = "apply"]
      /\ pre' = pre \cup {<<schema, TRUE>>}
      /\ UNCHANGED <<core, rebuild, data, repair, nightly, copying, made, served, lost>>
  BY DEF PreMigrationBackup, InStep, StartInv, StartupTypeOK
<1>2. /\ migrate' \in [Process -> Migrate]
      /\ \A q \in Process : q # p => migrate'[q] = migrate[q]
      /\ migrate'[p].at = "apply" /\ migrate'[p].next = migrate[p].next
      /\ migrate'[p].goal = migrate[p].goal
  BY <1>1 DEF StartInv, StartupTypeOK, Migrate
<1>3. StartupTypeOK'
  <2>1. <<schema, TRUE>> \in (0..MaxVersion) \X BOOLEAN BY DEF StartInv, StartupTypeOK
  <2>2. pre' \in SUBSET ((0..MaxVersion) \X BOOLEAN)
    BY <1>1, <2>1 DEF StartInv, StartupTypeOK
  <2> QED BY <1>1, <1>2, <2>2 DEF StartInv, StartupTypeOK, data
<1>4. Ordered' BY <1>2 DEF StartInv, Ordered
<1>5. MartOwed'
  <2>1. Migrating(Core)' <=> Migrating(Core)
    BY <1>1, <1>2 DEF Migrating, Process
  <2>2. InStep(Core, "apply") => InStep(Core, "apply")'
    BY <1>1, <1>2 DEF InStep, Process
  <2>3. core' = core /\ (rebuild' <=> rebuild) /\ (whole' <=> whole) /\ (lost' <=> lost)
    BY <1>1 DEF data
  <2> QED BY <2>1, <2>2, <2>3 DEF StartInv, MartOwed
<1>6. CopyOwed' BY <1>1, <1>2 DEF StartInv, CopyOwed, CopyKept, InStep, data
<1>7. NightlyOwed' BY <1>1 DEF StartInv, NightlyOwed, NightlyKept
<1> QED BY <1>3, <1>4, <1>5, <1>6, <1>7 DEF StartInv

LEMMA ApplyMigrationKeeps ==
  ASSUME StartInv, NEW p \in Process, ApplyMigration(p)
  PROVE  StartInv'
<1> DEFINE m == migrate[p]
<1>1. /\ m \in Migrate /\ m.at = "apply" /\ schema = m.next - 1 /\ schema' = m.next
      /\ whole' = (whole /\ served = {}) /\ lost' = (lost \/ (p = Tool /\ served # {}))
      /\ UNCHANGED <<build, canon, done, repair, copies, served>>
  BY DEF ApplyMigration, InStep, StartInv, StartupTypeOK
<1>2. /\ m.next \in Nat \ {0} /\ m.goal \in Nat \ {0} /\ m.next <= m.goal
      /\ m.goal <= MaxVersion /\ MaxVersion \in Nat
      /\ schema \in Nat /\ schema' = schema + 1 /\ schema' \in 0..MaxVersion
  BY <1>1, VersionAssumption DEF Migrate, Version, StartInv, Ordered
<1>3. /\ migrate' \in [Process -> Migrate] /\ Ordered' /\ rebuild' \in BOOLEAN
      /\ \A q \in Process : q # p => migrate'[q] = migrate[q]
      /\ p # Core => UNCHANGED <<core, rebuild>>
      /\ \/ migrate'[p] = NoMigrate /\ (p = Core => core' = "phones" /\ rebuild')
         \/ /\ migrate'[p].at = "apply" /\ migrate'[p].next = m.next + 1
            /\ UNCHANGED <<core, rebuild>>
  <2>1. CASE m.next = m.goal
    <3>1. Migrated(p, TRUE) BY <2>1 DEF ApplyMigration
    <3> QED BY <3>1, MigratedKeeps
  <2>2. CASE m.next # m.goal
    <3>1. migrate' = [migrate EXCEPT ![p].next = m.next + 1] /\ UNCHANGED <<core, rebuild>>
      BY <2>2 DEF ApplyMigration
    <3>2. m.next + 1 \in Version /\ m.next + 1 <= m.goal
      BY <2>2, <1>2 DEF Version
    <3>3. /\ \A q \in Process : q # p => migrate'[q] = migrate[q]
          /\ migrate'[p].next = m.next + 1 /\ migrate'[p].at = m.at
          /\ migrate'[p].goal = m.goal
      BY <3>1, <1>1 DEF StartInv, StartupTypeOK, Migrate
    <3>4. migrate' \in [Process -> Migrate]
      BY <3>1, <3>2, <1>1 DEF StartInv, StartupTypeOK, Migrate
    <3>5. Ordered' BY <3>2, <3>3 DEF StartInv, Ordered
    <3> QED BY <3>1, <3>3, <3>4, <3>5, <1>1 DEF StartInv, StartupTypeOK
  <2> QED BY <2>1, <2>2
<1>4. StartupTypeOK'
  BY <1>1, <1>2, <1>3 DEF StartInv, StartupTypeOK, copies
<1>5. MartOwed'
  <2>1. CASE p = Core
    <3>1. CASE migrate'[p] = NoMigrate /\ core' = "phones" /\ rebuild'
      BY <2>1, <3>1 DEF MartOwed, Migrating, NoMigrate
    <3>2. CASE migrate'[p].at = "apply" /\ UNCHANGED <<core, rebuild>>
      BY <2>1, <3>2, <1>1 DEF StartInv, MartOwed, Migrating, InStep
    <3> QED BY <2>1, <3>1, <3>2, <1>3
  <2>2. CASE p = Tool
    <3>1. migrate'[Core] = migrate[Core] /\ core' = core /\ (rebuild' <=> rebuild)
      BY <2>2, <1>3 DEF Process, Core, Tool
    <3>2. (whole' <=> whole) \/ lost'
      BY <2>2, <1>1
    <3>3. lost => lost' BY <1>1
    <3> QED BY <3>1, <3>2, <3>3 DEF StartInv, MartOwed, Migrating, InStep
  <2> QED BY <2>1, <2>2 DEF Process
<1>6. CopyOwed'
  <2>1. served' \subseteq 1..schema' /\ schema' \notin served'
    BY <1>1, <1>2 DEF StartInv, CopyOwed
  <2>2. CopyKept'
    <3>1. pre' = pre /\ served' = served BY <1>1 DEF copies
    <3>2. ASSUME NEW v \in served, v < schema' PROVE <<v, TRUE>> \in pre
      <4>1. v = schema \/ v < schema BY <3>2, <1>2 DEF StartInv, CopyOwed
      <4>2. CASE v < schema BY <4>2 DEF StartInv, CopyOwed, CopyKept
      <4>3. CASE v = schema
        BY <4>3, <3>2, <1>1, <1>2 DEF StartInv, CopyOwed, InStep
      <4> QED BY <4>1, <4>2, <4>3
    <3> QED BY <3>1, <3>2 DEF CopyKept
  <2>3. ASSUME NEW q \in Process, migrate'[q].at \in {"copy", "apply"}
        PROVE  migrate'[q].next <= schema' + 1
    <3>1. CASE q = p BY <3>1, <2>3, <1>1, <1>2, <1>3 DEF NoMigrate
    <3>2. CASE q # p
      <4>1. migrate'[q] = migrate[q] /\ migrate[q].next \in Nat
        BY <3>2, <1>3 DEF StartInv, StartupTypeOK, Migrate, Version
      <4>2. migrate[q].next <= schema + 1 BY <4>1, <2>3 DEF StartInv, CopyOwed
      <4> QED BY <4>1, <4>2, <1>2
    <3> QED BY <3>1, <3>2
  <2> QED BY <2>1, <2>2, <2>3, <1>2 DEF CopyOwed
<1>7. NightlyOwed' BY <1>1, NightlySame DEF StartInv
<1> QED BY <1>3, <1>4, <1>5, <1>6, <1>7 DEF StartInv

\* The phone numbers are rewritten, or were; the flag is set, or is not.
LEMMA PhonesKeeps ==
  ASSUME StartInv,
         \/ CanonicalizeCustomerPhones \/ PhonesDone \/ PhonesFail
         \/ \E ok \in BOOLEAN : FlagPhones(ok)
  PROVE  StartInv'
<1>1. /\ core \in {"phones", "flag"} /\ core' \in {"flag", "mart"}
      /\ UNCHANGED <<build, schema, migrate, repair, copies, served, lost>>
      /\ canon' \in BOOLEAN /\ done' \in BOOLEAN /\ whole' \in BOOLEAN /\ rebuild' \in BOOLEAN
      /\ whole /\ ~whole' => rebuild'
      /\ rebuild => rebuild'
  BY DEF CanonicalizeCustomerPhones, PhonesDone, PhonesFail, FlagPhones, Goes,
         startupVars, copies, StartInv, StartupTypeOK
<1>2. StartupTypeOK' /\ Ordered'
  BY <1>1 DEF StartInv, StartupTypeOK, Ordered, copies
<1>3. MartOwed'
  <2>1. ~InStep(Core, "apply")
    BY <1>1 DEF StartInv, MartOwed, Migrating, InStep
  <2>2. Migrating(Core)' <=> Migrating(Core) BY <1>1 DEF Migrating
  <2>3. lost' <=> lost BY <1>1
  <2> QED BY <1>1, <2>1, <2>2, <2>3 DEF StartInv, MartOwed
<1>4. CopyOwed' BY <1>1 DEF StartInv, CopyOwed, CopyKept, InStep, copies
<1>5. NightlyOwed' BY <1>1, NightlySame DEF StartInv
<1> QED BY <1>2, <1>3, <1>4, <1>5 DEF StartInv

LEMMA MaterializeKeeps ==
  ASSUME StartInv, NEW ok \in BOOLEAN, Materialize(ok)
  PROVE  StartInv'
<1>1. /\ core = "mart" /\ core' \in {"down", "model"}
      /\ UNCHANGED <<build, schema, canon, done, migrate, rebuild, repair, copies, served>>
      /\ whole' = (whole \/ ((repair \/ rebuild) /\ ok))
      /\ lost' = (IF repair \/ rebuild THEN ~ok /\ (lost \/ ~whole) ELSE lost)
  BY DEF Materialize, Goes
<1>2. whole' \in BOOLEAN /\ lost' \in BOOLEAN
  BY <1>1 DEF StartInv, StartupTypeOK
<1>3. StartupTypeOK' /\ Ordered'
  BY <1>1, <1>2 DEF StartInv, StartupTypeOK, Ordered, copies
<1>4. MartOwed'
  <2>1. ~Migrating(Core) /\ ~InStep(Core, "apply")
    BY <1>1 DEF StartInv, MartOwed, Migrating, InStep
  <2>2. whole \/ lost \/ rebuild
    BY <1>1, <2>1 DEF StartInv, MartOwed
  <2>3. whole' \/ lost' BY <2>2, <1>1
  <2>4. ~Migrating(Core)' BY <2>1, <1>1 DEF Migrating
  <2> QED BY <2>3, <2>4, <1>1 DEF MartOwed
<1>5. CopyOwed' BY <1>1 DEF StartInv, CopyOwed, CopyKept, InStep, copies
<1>6. NightlyOwed' BY <1>1, NightlySame DEF StartInv
<1> QED BY <1>3, <1>4, <1>5, <1>6 DEF StartInv

\* The phases after the mart change nothing of this but the schemas served.
LEMMA ServeKeeps ==
  ASSUME StartInv, core \in {"model", "folders", "applying"},
         core' \in {"folders", "applying", "serving"},
         ServeStation \/ UNCHANGED startupVars
  PROVE  StartInv'
<1>1. /\ UNCHANGED <<data, migrate, rebuild, repair, copies, lost>>
      /\ served' = served \/ (served' = served \cup {schema} /\ ~Migrating(Tool))
  BY DEF ServeStation, startupVars, data, copies
<1>2. StartupTypeOK' /\ Ordered'
  <2>1. served' \in SUBSET (0..MaxVersion) BY <1>1 DEF StartInv, StartupTypeOK
  <2> QED BY <1>1, <2>1 DEF StartInv, StartupTypeOK, Ordered, data, copies
<1>3. MartOwed'
  <2>1. ~InStep(Core, "apply") /\ ~Migrating(Core)
    BY DEF StartInv, MartOwed, Migrating, InStep
  <2>2. (whole' <=> whole) /\ (lost' <=> lost) /\ ~Migrating(Core)'
    BY <1>1, <2>1 DEF data, Migrating
  <2> QED BY <2>1, <2>2 DEF StartInv, MartOwed
<1>4. CopyOwed'
  <2>1. schema \in Nat /\ schema >= 1 BY DEF StartInv, CopyOwed, StartupTypeOK
  <2>2. ~Migrating(Tool) => \A q \in Process : ~InStep(q, "apply")
    BY DEF StartInv, MartOwed, Migrating, InStep, Process
  <2>3. schema' = schema /\ migrate' = migrate /\ pre' = pre BY <1>1 DEF data, copies
  <2>4. CASE served' = served
    BY <2>4, <2>1, <2>3 DEF StartInv, CopyOwed, CopyKept, InStep
  <2>5. CASE served' = served \cup {schema} /\ ~Migrating(Tool)
    <3>1. served' \subseteq 1..schema BY <2>5, <2>1 DEF StartInv, CopyOwed
    <3>5. \A v \in served : v < schema => <<v, TRUE>> \in pre
      BY DEF StartInv, CopyOwed, CopyKept
    <3>6. \A v \in served' : v < schema => v \in served BY <2>5, <2>1
    <3>2. CopyKept' BY <3>5, <3>6, <2>3 DEF CopyKept
    <3>3. \A q \in Process : ~InStep(q, "apply")' BY <2>2, <2>3, <2>5 DEF InStep
    <3>4. \A q \in Process :
            migrate'[q].at \in {"copy", "apply"} => migrate'[q].next <= schema' + 1
      BY <2>3 DEF StartInv, CopyOwed
    <3> QED BY <3>1, <3>2, <3>3, <3>4, <2>1, <2>3 DEF CopyOwed
  <2> QED BY <2>4, <2>5, <1>1
<1>5. NightlyOwed' BY <1>1, NightlySame DEF StartInv
<1> QED BY <1>2, <1>3, <1>4, <1>5 DEF StartInv

\* The backup agent: a copy is begun, finished and what is old thinned out, or fails.
LEMMA BackUpKeeps ==
  ASSUME StartInv, BackupBegin \/ EnforceRetention \/ BackupFails, UNCHANGED core
  PROVE  StartInv'
<1>1. UNCHANGED <<data, migrate, rebuild, repair, pre, served, lost>>
  BY DEF BackupBegin, EnforceRetention, BackupFails
<1>2. /\ nightly' \in Seq(BOOLEAN) /\ copying' \in BOOLEAN /\ made' \in BOOLEAN
      /\ NightlyOwed'
  <2> DEFINE n == Len(nightly)
  <2>1. nightly \in Seq(BOOLEAN) /\ n \in Nat
    BY LenProperties DEF StartInv, StartupTypeOK
  <2>2. CASE BackupBegin
    <3>1. /\ nightly' \in Seq(BOOLEAN) /\ nightly' # <<>> /\ Len(nightly') = n + 1
          /\ \A i \in 1..n : nightly'[i] = nightly[i]
      <4>1. PICK part \in BOOLEAN : part = FALSE OBVIOUS
      <4>2. nightly' = Append(nightly, part) BY <4>1, <2>2 DEF BackupBegin
      <4>3. /\ Append(nightly, part) \in Seq(BOOLEAN) /\ Append(nightly, part) # <<>>
            /\ Len(Append(nightly, part)) = n + 1
            /\ \A i \in 1..n : Append(nightly, part)[i] = nightly[i]
        BY <2>1, AppendProperties
      <4> QED BY <4>2, <4>3
    <3>2. made' = made /\ copying' BY <2>2 DEF BackupBegin
    <3>3. NightlyKept' BY <3>1, <3>2, <2>1 DEF StartInv, NightlyOwed, NightlyKept
    <3> QED BY <3>1, <3>2, <3>3, <2>2 DEF BackupBegin, StartInv, StartupTypeOK, NightlyOwed
  <2>3. CASE EnforceRetention
    <3> DEFINE s == [nightly EXCEPT ![n] = TRUE]
    <3>1. n \in 1..n
      BY <2>1, <2>3, EmptySeq DEF EnforceRetention, StartInv, NightlyOwed
    <3>2. s \in Seq(BOOLEAN) /\ Len(s) = n /\ s[n]
      BY <3>1, <2>1, ExceptSeq
    <3>3. /\ Newest(s) \in Seq(BOOLEAN) /\ Len(Newest(s)) \in Nat \ {0}
          /\ Newest(s)[Len(Newest(s))]
      <4> HIDE DEF s
      <4>1. CASE Len(s) <= Keep BY <4>1, <3>1, <3>2 DEF Newest
      <4>2. CASE ~(Len(s) <= Keep)
        <5>1. /\ n - Keep + 1 \in 1..n /\ n \in Nat /\ Keep \in Nat \ {0}
          BY <4>2, <3>2, <2>1, VersionAssumption
        <5>2. \A i \in (n - Keep + 1)..n : s[i] \in BOOLEAN
          BY <3>2, <5>1, ElementOfSeq
        <5>3. /\ SubSeq(s, n - Keep + 1, n) \in Seq(BOOLEAN)
              /\ Len(SubSeq(s, n - Keep + 1, n)) = Keep
              /\ SubSeq(s, n - Keep + 1, n)[Keep] = s[n]
          BY <5>1, <5>2, SubSeqProperties
        <5> QED BY <5>1, <5>3, <4>2, <3>2 DEF Newest
      <4> QED BY <4>1, <4>2
    <3>4. nightly' = Newest(s) /\ made' /\ ~copying' /\ made' \in BOOLEAN /\ copying' \in BOOLEAN
      BY <2>3 DEF EnforceRetention
    <3>5. nightly' \in Seq(BOOLEAN) /\ Len(nightly') \in 1..Len(nightly') /\ nightly'[Len(nightly')]
      BY <3>3, <3>4
    <3>6. NightlyKept' BY <3>5 DEF NightlyKept
    <3> QED BY <3>4, <3>5, <3>6 DEF NightlyOwed
  <2>4. CASE BackupFails
    BY <2>1, <2>4 DEF BackupFails, StartInv, StartupTypeOK, NightlyOwed, NightlyKept
  <2> QED BY <2>2, <2>3, <2>4
<1>3. StartupTypeOK' /\ Ordered'
  BY <1>1, <1>2 DEF StartInv, StartupTypeOK, Ordered, data
<1>4. MartOwed' BY <1>1 DEF StartInv, MartOwed, Migrating, InStep, data
<1>5. CopyOwed' BY <1>1 DEF StartInv, CopyOwed, CopyKept, InStep, data
<1> QED BY <1>2, <1>3, <1>4, <1>5 DEF StartInv

LEMMA PartTyped ==
  ASSUME StartInv, NEW p \in Process, NEW part \in Part(p)
  PROVE  pre \cup part \in SUBSET ((0..MaxVersion) \X BOOLEAN)
<1>1. <<schema, FALSE>> \in (0..MaxVersion) \X BOOLEAN BY DEF StartInv, StartupTypeOK
<1>2. part = {} \/ part = {<<schema, FALSE>>} BY DEF Part
<1> QED BY <1>1, <1>2 DEF StartInv, StartupTypeOK

LEMMA BeginKeeps ==
  ASSUME StartInv, NEW p \in Process, MigrateBegin(p),
         UNCHANGED <<data, copies, served, lost>>, repair' \in BOOLEAN, UNCHANGED rebuild,
         IF p = Core THEN Goes("down", "schema") ELSE UNCHANGED core
  PROVE  StartInv'
<1>1. /\ migrate' = [migrate EXCEPT ![p] = [NoMigrate EXCEPT !.at = "list", !.goal = build]]
      /\ ~Migrating(p)
  BY DEF MigrateBegin
<1>9. NoMigrate \in Migrate BY VersionAssumption DEF NoMigrate, Migrate, Version
<1>10. build \in Version BY DEF StartInv, StartupTypeOK
<1>2. build \in Version /\ [NoMigrate EXCEPT !.at = "list", !.goal = build] \in Migrate
  BY <1>9, <1>10 DEF Migrate
<1>3. /\ migrate' \in [Process -> Migrate]
      /\ \A q \in Process : q # p => migrate'[q] = migrate[q]
      /\ migrate'[p].at = "list" /\ migrate'[p].next = 1 /\ migrate'[p].goal = build
  BY <1>1, <1>2 DEF StartInv, StartupTypeOK, NoMigrate
<1>4. StartupTypeOK' BY <1>3 DEF StartInv, StartupTypeOK, data, copies
<1>5. Ordered' BY <1>2, <1>3 DEF StartInv, Ordered, Version
<1>6. MartOwed'
  <2>1. (whole' <=> whole) /\ (lost' <=> lost) /\ (rebuild' <=> rebuild) BY DEF data
  <2>2. CASE p = Core
    <3>1. whole \/ lost
      BY <2>2, <1>1 DEF StartInv, MartOwed, Migrating, InStep, Goes
    <3>2. core' = "schema" /\ Migrating(Core)' BY <2>2, <1>3 DEF Migrating, Goes
    <3> QED BY <3>1, <3>2, <2>1 DEF MartOwed
  <2>3. CASE p # Core
    <3>1. migrate'[Core] = migrate[Core] /\ core' = core BY <2>3, <1>3 DEF Process
    <3> QED BY <3>1, <2>1 DEF StartInv, MartOwed, Migrating, InStep
  <2> QED BY <2>2, <2>3
<1>7. CopyOwed'
  <2>1. schema' = schema /\ served' = served /\ pre' = pre BY DEF data, copies
  <2>2. core' \notin {"down", "schema"} => core \notin {"down", "schema"} BY DEF Goes
  <2>3. \A q \in Process : migrate'[q].at \in {"copy", "apply"} => migrate'[q] = migrate[q]
    BY <1>3
  <2>4. CopyKept' BY <2>1 DEF StartInv, CopyOwed, CopyKept
  <2> QED BY <2>1, <2>2, <2>3, <2>4 DEF StartInv, CopyOwed, InStep
<1>8. NightlyOwed' BY NightlySame DEF StartInv
<1> QED BY <1>4, <1>5, <1>6, <1>7, <1>8 DEF StartInv

\* A process ends while it migrates, or the core at any time.
LEMMA EndKeeps ==
  ASSUME StartInv, NEW p \in Process, NEW part \in Part(p),
         migrate' = [migrate EXCEPT ![p] = NoMigrate], pre' = pre \cup part,
         UNCHANGED <<data, nightly, made, served>>,
         IF p = Core THEN /\ core' = "down" /\ rebuild' = FALSE /\ repair' = FALSE
                          /\ copying' = FALSE /\ lost' = (lost \/ ~whole)
         ELSE UNCHANGED <<core, rebuild, repair, copying, lost>>
  PROVE  StartInv'
<1>1. /\ migrate' \in [Process -> Migrate] /\ Ordered'
      /\ \A q \in Process : migrate'[q] = IF q = p THEN NoMigrate ELSE migrate[q]
  BY VersionAssumption DEF StartInv, StartupTypeOK, Ordered, NoMigrate, Migrate, Version
<1>2. StartupTypeOK'
  <2>1. pre' \in SUBSET ((0..MaxVersion) \X BOOLEAN) BY PartTyped
  <2>2. /\ rebuild' \in BOOLEAN /\ repair' \in BOOLEAN /\ copying' \in BOOLEAN
        /\ lost' \in BOOLEAN
    BY DEF StartInv, StartupTypeOK
  <2> QED BY <1>1, <2>1, <2>2 DEF StartInv, StartupTypeOK, data
<1>3. MartOwed'
  <2>1. whole' <=> whole BY DEF data
  <2>2. CASE p = Core
    <3>1. whole' \/ lost' BY <2>1, <2>2
    <3>2. ~Migrating(Core)' BY <2>2, <1>1 DEF Migrating, NoMigrate
    <3> QED BY <3>1, <3>2, <2>2 DEF MartOwed
  <2>3. CASE p # Core
    <3>1. migrate'[Core] = migrate[Core] BY <2>3, <1>1 DEF Process
    <3> QED BY <3>1, <2>1, <2>3 DEF StartInv, MartOwed, Migrating, InStep
  <2> QED BY <2>2, <2>3
<1>4. CopyOwed'
  <2>1. schema' = schema /\ served' = served /\ pre \subseteq pre' BY DEF data
  <2>2. core' \notin {"down", "schema"} => core \notin {"down", "schema"} OBVIOUS
  <2>3. \A q \in Process : migrate'[q].at \in {"copy", "apply"} => migrate'[q] = migrate[q]
    BY <1>1 DEF NoMigrate
  <2>4. CopyKept' BY <2>1 DEF StartInv, CopyOwed, CopyKept
  <2> QED BY <2>1, <2>2, <2>3, <2>4 DEF StartInv, CopyOwed, InStep
<1>5. NightlyOwed'
  <2>1. copying' => copying OBVIOUS
  <2> QED BY <2>1 DEF StartInv, NightlyOwed, NightlyKept
<1> QED BY <1>1, <1>2, <1>3, <1>4, <1>5 DEF StartInv

LEMMA InstallKeeps ==
  ASSUME StartInv, Install, UNCHANGED core
  PROVE  StartInv'
<1>1. /\ build' \in Version
      /\ UNCHANGED <<schema, canon, done, whole, migrate, rebuild, repair, copies, served, lost>>
  BY DEF Install
<1>2. StartupTypeOK' /\ Ordered' BY <1>1 DEF StartInv, StartupTypeOK, Ordered, copies
<1>3. MartOwed' BY <1>1 DEF StartInv, MartOwed, Migrating, InStep
<1>4. CopyOwed' BY <1>1 DEF StartInv, CopyOwed, CopyKept, InStep, copies
<1>5. NightlyOwed' BY <1>1, NightlySame DEF StartInv
<1> QED BY <1>2, <1>3, <1>4, <1>5 DEF StartInv

LEMMA StartInvNext ==
  ASSUME StartInv, Next
  PROVE  StartInv'
<1>1. ASSUME \/ \E b \in Browser : RequestFolders(b) \/ RequestSave(b)
             \/ \E q \in Asker : RequestAsk(q)
             \/ \E w \in Worker : WorkFolders(w)
             \/ WorkAnswers \/ FoldersFail \/ AnswersFail
      PROVE  StartInv'
  <2>1. UNCHANGED <<core, startupVars>>
    BY <1>1 DEF RequestFolders, RequestSave, RequestAsk, WorkFolders, WorkAnswers,
                FoldersFail, AnswersFail, OnlyFolders, OnlyAnswers
  <2> QED BY <2>1, StartInvSame
<1>2. CASE Start
  <2>1. ASSUME NEW fix \in BOOLEAN, StartCore(fix), Goes("down", "schema") PROVE StartInv'
    BY <2>1, BeginKeeps DEF StartCore, Process
  <2> QED BY <1>2, <2>1 DEF Start
<1>3. CASE RunPhones BY <1>3, PhonesKeeps DEF RunPhones
<1>4. CASE RunMart BY <1>4, MaterializeKeeps DEF RunMart
<1>5. CASE RunModel BY <1>5, ServeKeeps DEF RunModel, Goes
<1>6. CASE RunFolders BY <1>6, ServeKeeps DEF RunFolders, Goes
<1>7. CASE RunServe BY <1>7, ServeKeeps DEF RunServe, Goes
<1>8. ASSUME NEW p \in Process, RunSchema(p) PROVE StartInv'
  BY <1>8, ListAppliedKeeps, PreMigrationBackupKeeps, ApplyMigrationKeeps DEF RunSchema
<1>9. CASE RunTool
  <2>1. repair' \in BOOLEAN BY <1>9 DEF RunTool, StartInv, StartupTypeOK
  <2>2. Tool \in Process /\ Tool # Core BY DEF Process, Tool, Core
  <2> QED BY <1>9, <2>1, <2>2, BeginKeeps DEF RunTool
<1>10. CASE InstallVersion BY <1>10, InstallKeeps DEF InstallVersion
<1>11. CASE BackUp BY <1>11, BackUpKeeps DEF BackUp
<1>12. CASE StartupFail
  BY <1>12, PhonesKeeps, MaterializeKeeps, BackUpKeeps DEF StartupFail
<1>13. CASE Gone
  <2>1. PICK part \in Part(Core) : pre' = pre \cup part BY <1>13 DEF Gone, StartupGone
  <2> QED BY <1>13, <2>1, EndKeeps DEF Gone, StartupGone, Process
<1>14. CASE ToolGone
  <2>1. PICK part \in Part(Tool) : ToolFails(part) BY <1>14 DEF ToolGone, Part
  <2>2. Tool \in Process /\ Tool # Core BY DEF Process, Tool, Core
  <2> QED BY <2>1, <2>2, EndKeeps DEF ToolFails, data
<1> QED BY <1>1, <1>2, <1>3, <1>4, <1>5, <1>6, <1>7, <1>8, <1>9, <1>10, <1>11, <1>12,
           <1>13, <1>14
        DEF Next, Stop, Exit

LEMMA StartInvStep ==
  ASSUME StartInv, [Next]_vars
  PROVE  StartInv'
<1>1. CASE UNCHANGED vars BY <1>1, StartInvSame DEF vars, coreVars
<1> QED BY <1>1, StartInvNext

-----------------------------------------------------------------------------
(* The model settings: the inductive invariant.                            *)

Quiet ==
  core # "serving" =>
    /\ ~mixed /\ ~Saving
    /\ \A q \in Asker : ask[q].at = "idle" /\ ask[q].fresh = {}
Alone == ~mixed => \A b, d \in Browser : save[b].at # "idle" /\ save[d].at # "idle" => b = d
\* How far a save that runs alone has come.
Written == ~mixed => \A b \in Browser :
  /\ save[b].at = "write" => \A r \in Row \ Left(save[b].row) : saved[r] = save[b].c[r]
  /\ save[b].at \in {"read", "configure"} => \A r \in Row : saved[r] = save[b].c[r]
Settled == ~mixed /\ ~Saving
Routing ==
  core \in {"folders", "applying", "serving"} /\ Settled => router = Configured(saved, EnvURL)
Fresh == \A q \in Asker : ask[q].fresh # {} =>
  /\ Settled /\ ask[q].fresh = {Configured(saved, EnvURL)}
  /\ ask[q].at = "call" => ask[q].given \in ask[q].fresh

ModelInv == AnswersTypeOK /\ Quiet /\ Alone /\ Written /\ Routing /\ Fresh

LEMMA RowValue ==
  ASSUME NEW rows \in Saved, NEW row \in Row, NEW r \in Row, NEW v
  PROVE  [rows EXCEPT ![row] = v][r] = IF r = row THEN v ELSE rows[r]
<1>1. CASE row = "provider" BY <1>1 DEF Saved, Row
<1>2. CASE row = "model" BY <1>2 DEF Saved, Row
<1>3. CASE row = "key" BY <1>3 DEF Saved, Row
<1>4. CASE row = "url" BY <1>4 DEF Saved, Row
<1> QED BY <1>1, <1>2, <1>3, <1>4 DEF Row

LEMMA SameConfigured ==
  ASSUME NEW c, NEW rows, \A r \in Row : rows[r] = c[r], NEW url
  PROVE  Configured(c, url) = Configured(rows, url)
<1>1. /\ rows.provider = c.provider /\ rows.model = c.model
      /\ rows.key = c.key /\ rows.url = c.url
  BY DEF Row
<1> QED BY <1>1 DEF Configured, LoadSettings

\* Another part of the process takes a step, or another phase begins.
LEMMA ModelSame ==
  ASSUME ModelInv, UNCHANGED answerVars,
         \/ core' = core
         \/ core' # "serving" /\ core # "serving" /\ (core' \in {"folders", "applying"} =>
                                                     core \in {"folders", "applying"})
         \/ core' = "serving" /\ core = "applying"
  PROVE  ModelInv'
<1>1. AnswersTypeOK' BY DEF ModelInv, AnswersTypeOK, answerVars
<1>2. Quiet' BY DEF ModelInv, Quiet, Saving, answerVars
<1>3. Alone' /\ Written' BY DEF ModelInv, Alone, Written, answerVars
<1>4. Routing' BY DEF ModelInv, Routing, Settled, Saving, answerVars
<1>5. Fresh' BY DEF ModelInv, Fresh, Settled, Saving, answerVars
<1> QED BY <1>1, <1>2, <1>3, <1>4, <1>5 DEF ModelInv

LEMMA SetLocalConfigKeeps ==
  ASSUME ModelInv, NEW b \in Browser, SetLocalConfig(b), UNCHANGED core
  PROVE  ModelInv'
<1> DEFINE s == save[b]
<1>1. /\ s.at = "write" /\ s.row \in Row /\ s.c \in Saved /\ saved \in Saved
      /\ saved' = [saved EXCEPT ![s.row] = s.c[s.row]]
      /\ save' = [save EXCEPT ![b].row = Following[s.row],
                              ![b].at = IF s.row = "url" THEN "read" ELSE "write"]
      /\ UNCHANGED <<router, ask, mixed>>
  BY DEF ModelInv, AnswersTypeOK, SetLocalConfig, Save
<1>2. /\ \A d \in Browser : d # b => save'[d] = save[d]
      /\ save'[b].c = s.c /\ save'[b].row = Following[s.row]
      /\ save'[b].at = IF s.row = "url" THEN "read" ELSE "write"
  BY <1>1 DEF ModelInv, AnswersTypeOK, Save
<1>3. Saving /\ Saving'
  <2>1. save'[b].at # "idle" BY <1>2
  <2> QED BY <1>1, <2>1 DEF Saving
<1>4. AnswersTypeOK' BY AnswersTypeStep DEF ModelInv, AnswersStep
<1>5. Quiet' BY <1>3 DEF ModelInv, Quiet
<1>6. Alone' BY <1>1, <1>2 DEF ModelInv, Alone
<1>7. Written'
  <2> SUFFICES ASSUME ~mixed, NEW d \in Browser
      PROVE  /\ save'[d].at = "write" =>
                  \A r \in Row \ Left(save'[d].row) : saved'[r] = save'[d].c[r]
             /\ save'[d].at \in {"read", "configure"} =>
                  \A r \in Row : saved'[r] = save'[d].c[r]
    BY <1>1 DEF Written
  <2>1. \A r \in Row : saved'[r] = IF r = s.row THEN s.c[r] ELSE saved[r]
    <3> DEFINE v == s.c[s.row]
    <3>1. \A r \in Row : [saved EXCEPT ![s.row] = v][r] = IF r = s.row THEN v ELSE saved[r]
      <4> HIDE DEF v
      <4> QED BY <1>1, RowValue
    <3> QED BY <1>1, <3>1
  <2>2. \A r \in Row \ Left(s.row) : saved[r] = s.c[r] BY <1>1 DEF ModelInv, Written
  <2>3. CASE d = b
    <3>1. \A r \in (Row \ Left(s.row)) \cup {s.row} : saved'[r] = s.c[r] BY <2>1, <2>2, <1>1
    <3>2. s.row # "url" => Row \ Left(Following[s.row]) \subseteq (Row \ Left(s.row)) \cup {s.row}
      BY <1>1 DEF Row, Left, Following
    <3>3. s.row = "url" => Row \subseteq (Row \ Left(s.row)) \cup {s.row} BY DEF Row, Left
    <3> QED BY <2>3, <3>1, <3>2, <3>3, <1>2
  <2>4. CASE d # b
    BY <2>4, <1>1, <1>2 DEF ModelInv, Alone
  <2> QED BY <2>3, <2>4
<1>8. Routing' BY <1>3 DEF Routing, Settled
<1>9. Fresh' BY <1>1, <1>3 DEF ModelInv, Fresh, Settled
<1> QED BY <1>4, <1>5, <1>6, <1>7, <1>8, <1>9 DEF ModelInv

LEMMA ReadsKeeps ==
  ASSUME ModelInv, NEW b \in Browser, AnswersTypeOK', UNCHANGED <<core, saved, router, ask>>,
         save[b].at = "read", \A d \in Browser : d # b => save'[d] = save[d],
         save'[b].at \in {"read", "configure"},
         ~mixed' => ~mixed /\ \A r \in Row : save'[b].c[r] = save[b].c[r]
  PROVE  ModelInv'
<1>1. Saving /\ Saving' BY DEF Saving
<1>3. Quiet' BY <1>1 DEF ModelInv, Quiet
<1>4. Alone' BY DEF ModelInv, Alone
<1>5. Written' BY DEF ModelInv, Written
<1>6. Routing' BY <1>1 DEF Routing, Settled
<1>7. Fresh' BY <1>1 DEF ModelInv, Fresh, Settled
<1> QED BY <1>3, <1>4, <1>5, <1>6, <1>7 DEF ModelInv

LEMMA ReloadModelKeeps ==
  ASSUME ModelInv, NEW b \in Browser, ReloadModel(b), UNCHANGED core
  PROVE  ModelInv'
<1> DEFINE s == save[b]
<1>1. /\ s.at = "read" /\ s.row \in Row /\ s.c \in Saved /\ saved \in Saved
      /\ save' = [save EXCEPT ![b].row = Following[s.row], ![b].c[s.row] = saved[s.row],
                              ![b].at = IF s.row = "url" THEN "configure" ELSE "read"]
      /\ UNCHANGED <<saved, router, ask, mixed>>
  BY DEF ModelInv, AnswersTypeOK, ReloadModel, Reads, Save
<1>2. /\ \A d \in Browser : d # b => save'[d] = save[d]
      /\ save'[b].c = [s.c EXCEPT ![s.row] = saved[s.row]]
      /\ save'[b].at \in {"read", "configure"}
  BY <1>1 DEF ModelInv, AnswersTypeOK, Save
<1>3. ~mixed => \A r \in Row : save'[b].c[r] = s.c[r]
  <2> DEFINE v == saved[s.row]
  <2>1. \A r \in Row : [s.c EXCEPT ![s.row] = v][r] = IF r = s.row THEN v ELSE s.c[r]
    <3> DEFINE c == s.c row == s.row
    <3>1. row \in Row /\ c \in Saved BY <1>1
    <3>2. \A r \in Row : [c EXCEPT ![row] = v][r] = IF r = row THEN v ELSE c[r]
      <4> HIDE DEF v, c, row
      <4> QED BY <3>1, RowValue
    <3> QED BY <3>2
  <2>2. ~mixed => \A r \in Row : saved[r] = s.c[r] BY <1>1 DEF ModelInv, Written
  <2>3. save'[b].c = [s.c EXCEPT ![s.row] = v] /\ s.row \in Row BY <1>1, <1>2
  <2>4. \A r \in Row : save'[b].c[r] = IF r = s.row THEN v ELSE s.c[r] BY <2>1, <2>3
  <2>5. ~mixed => v = s.c[s.row] BY <2>2, <2>3
  <2> HIDE DEF v, s
  <2> QED BY <2>4, <2>5
<1>4. AnswersTypeOK' BY AnswersTypeStep DEF ModelInv, AnswersStep
<1>5. ~mixed' => ~mixed /\ \A r \in Row : save'[b].c[r] = save[b].c[r]
  BY <1>1, <1>3
<1> QED BY <1>1, <1>2, <1>4, <1>5, ReadsKeeps

LEMMA ReloadFailsKeeps ==
  ASSUME ModelInv, NEW b \in Browser, ReloadFails(b) \/ ReloadCancelled(b), UNCHANGED core
  PROVE  ModelInv'
<1>1. /\ save[b].at = "read" /\ mixed' /\ UNCHANGED <<saved, router, ask>>
      /\ \A d \in Browser : d # b => save'[d] = save[d]
      /\ save'[b].at \in {"read", "configure"}
  <2>1. CASE ReloadFails(b)
    BY <2>1 DEF ModelInv, AnswersTypeOK, ReloadFails, Reads, Save
  <2>2. CASE ReloadCancelled(b)
    BY <2>2 DEF ModelInv, AnswersTypeOK, ReloadCancelled, Save
  <2> QED BY <2>1, <2>2
<1>2. AnswersTypeOK' BY AnswersTypeFail DEF ModelInv
<1> QED BY <1>1, <1>2, ReadsKeeps

LEMMA SaveFailsKeeps ==
  ASSUME ModelInv, NEW b \in Browser, SaveFails(b), UNCHANGED core
  PROVE  ModelInv'
<1>1. /\ save[b].at = "write" /\ mixed' /\ UNCHANGED <<saved, router, ask>>
  BY DEF SaveFails
<1>2. Saving BY <1>1 DEF Saving
<1>3. AnswersTypeOK' BY AnswersTypeFail DEF ModelInv
<1>4. Quiet' /\ Alone' /\ Written' /\ Routing'
  BY <1>1, <1>2 DEF ModelInv, Quiet, Alone, Written, Routing, Settled
<1>5. Fresh' BY <1>1, <1>2 DEF ModelInv, Fresh, Settled
<1> QED BY <1>3, <1>4, <1>5 DEF ModelInv

LEMMA ConfigureKeeps ==
  ASSUME ModelInv, EnvURL = "", NEW b \in Browser, Configure(b), UNCHANGED core
  PROVE  ModelInv'
<1>1. /\ save[b].at = "configure" /\ save' = [save EXCEPT ![b] = NoSave]
      /\ router' = Configured(save[b].c, "") /\ UNCHANGED <<saved, ask, mixed>>
  BY DEF Configure
<1>2. /\ \A d \in Browser : d # b => save'[d] = save[d]
      /\ save'[b].at = "idle"
  BY <1>1 DEF ModelInv, AnswersTypeOK, NoSave
<1>3. Saving BY <1>1 DEF Saving
<1>4. AnswersTypeOK' BY AnswersTypeStep DEF ModelInv, AnswersStep
<1>5. Quiet' BY <1>3 DEF ModelInv, Quiet
<1>6. Alone' /\ Written' BY <1>1, <1>2 DEF ModelInv, Alone, Written
<1>7. Routing'
  <2>1. ~mixed => \A r \in Row : saved[r] = save[b].c[r]
    BY <1>1 DEF ModelInv, Written
  <2>2. ~mixed => router' = Configured(saved, EnvURL) BY <1>1, <2>1, SameConfigured
  <2> QED BY <1>1, <2>2 DEF Routing, Settled
<1>8. Fresh' BY <1>1, <1>3 DEF ModelInv, Fresh, Settled
<1> QED BY <1>4, <1>5, <1>6, <1>7, <1>8 DEF ModelInv

LEMMA SaveSettingsKeeps ==
  ASSUME ModelInv, NEW b \in Browser, NEW c \in Choice,
         SaveSettings(b, c) \/ SaveSettingsUnread(b, c),
         core = "serving", UNCHANGED core
  PROVE  ModelInv'
<1>0. PICK key : BeginSave(b, c, key) BY DEF SaveSettings, SaveSettingsUnread
<1>1. /\ save[b].at = "idle" /\ (mixed' <=> Saving) /\ UNCHANGED <<saved, router>>
      /\ \A q \in Asker : ask'[q].fresh = {}
  BY <1>0 DEF BeginSave, ModelInv, AnswersTypeOK, Question
<1>2. /\ \A d \in Browser : d # b => save'[d] = save[d]
      /\ save'[b].at = "write" /\ save'[b].row = "provider"
  BY <1>0 DEF BeginSave, ModelInv, AnswersTypeOK
<1>3. Saving' BY <1>2 DEF Saving
<1>4. AnswersTypeOK' BY AnswersTypeRequest DEF ModelInv
<1>5. Quiet' BY DEF Quiet
<1>6. Alone' BY <1>1, <1>2 DEF Alone, Saving
<1>7. Written'
  <2>1. ~mixed' => \A d \in Browser : d # b => save'[d].at = "idle"
    BY <1>1, <1>2 DEF Saving
  <2>2. Row \ Left("provider") = {} BY DEF Left
  <2> QED BY <2>1, <2>2, <1>2 DEF Written
<1>8. Routing' BY <1>3 DEF Routing, Settled
<1>9. Fresh' BY <1>1 DEF Fresh
<1> QED BY <1>4, <1>5, <1>6, <1>7, <1>8, <1>9 DEF ModelInv

LEMMA AskKeeps ==
  ASSUME ModelInv, NEW q \in Asker, UNCHANGED core, core = "serving",
         Ask(q) \/ RouteStandard(q) \/ Current(q) \/ Generate(q)
  PROVE  ModelInv'
<1>1. UNCHANGED <<saved, router, save, mixed>>
  BY DEF Ask, RouteStandard, Current, Generate
<1>2. AnswersTypeOK'
  BY AnswersTypeRequest, AnswersTypeStep DEF ModelInv, AnswersStep
<1>3. Quiet' BY DEF Quiet
<1>4. Alone' /\ Written' BY <1>1 DEF ModelInv, Alone, Written
<1>5. Routing' BY <1>1 DEF ModelInv, Routing, Settled, Saving
<1>6. Settled' <=> Settled BY <1>1 DEF Settled, Saving
<1>7. Fresh'
  <2> SUFFICES ASSUME NEW r \in Asker, ask'[r].fresh # {}
      PROVE  /\ Settled /\ ask'[r].fresh = {Configured(saved, EnvURL)}
             /\ ask'[r].at = "call" => ask'[r].given \in ask'[r].fresh
    BY <1>1, <1>6 DEF Fresh
  <2>1. CASE Ask(q)
    <3>1. ask' = [ask EXCEPT ![q] = [NoQuestion EXCEPT !.at = "figures",
            !.fresh = IF Saving \/ mixed THEN {} ELSE {Configured(saved, EnvURL)}]]
      BY <2>1 DEF Ask
    <3>2. CASE r = q
      <4>1. /\ ask'[q].at = "figures"
            /\ ask'[q].fresh = IF Saving \/ mixed THEN {} ELSE {Configured(saved, EnvURL)}
        BY <3>1 DEF ModelInv, AnswersTypeOK, NoQuestion
      <4> QED BY <3>2, <4>1 DEF Settled
    <3>3. CASE r # q
      <4>1. ask'[r] = ask[r] BY <3>1, <3>3 DEF ModelInv, AnswersTypeOK
      <4> QED BY <4>1 DEF ModelInv, Fresh
    <3> QED BY <3>2, <3>3
  <2>2. CASE RouteStandard(q) \/ Generate(q)
    <3>1. ask'[r] = IF r = q THEN NoQuestion ELSE ask[r]
      BY <2>2 DEF RouteStandard, Generate, Answered, ModelInv, AnswersTypeOK
    <3>2. CASE r = q
      <4>1. NoQuestion.fresh = {} BY DEF NoQuestion
      <4> QED BY <3>1, <3>2, <4>1
    <3>3. CASE r # q BY <3>1, <3>3 DEF ModelInv, Fresh
    <3> QED BY <3>2, <3>3
  <2>3. CASE Current(q)
    <3>1. /\ ask'[r].fresh = ask[r].fresh
          /\ r # q => ask'[r] = ask[r]
          /\ ask'[q].given = router
      BY <2>3 DEF Current, ModelInv, AnswersTypeOK, Question
    <3>2. Settled /\ ask[r].fresh = {Configured(saved, EnvURL)}
      BY <3>1 DEF ModelInv, Fresh
    <3>3. router = Configured(saved, EnvURL) BY <3>2 DEF ModelInv, Routing
    <3> QED BY <3>1, <3>2, <3>3 DEF ModelInv, Fresh
  <2> QED BY <2>1, <2>2, <2>3
<1> QED BY <1>2, <1>3, <1>4, <1>5, <1>7 DEF ModelInv

LEMMA RunModelKeeps ==
  ASSUME ModelInv, RunModel
  PROVE  ModelInv'
<1>1. /\ core = "model" /\ core' = "folders" /\ router' = Configured(saved, EnvURL)
      /\ UNCHANGED <<saved, save, ask, mixed>>
  BY DEF RunModel, Goes, NewRouterFromSettings
<1>2. AnswersTypeOK' BY AnswersTypeRequest DEF ModelInv, RunModel
<1>3. Quiet' BY <1>1 DEF ModelInv, Quiet, Saving
<1>4. Alone' /\ Written' BY <1>1 DEF ModelInv, Alone, Written
<1>5. Routing' BY <1>1 DEF Routing
<1>6. Fresh' BY <1>1 DEF ModelInv, Fresh, Quiet
<1> QED BY <1>2, <1>3, <1>4, <1>5, <1>6 DEF ModelInv

LEMMA AnswersGoneKeeps ==
  ASSUME ModelInv, Gone
  PROVE  ModelInv'
<1>1. /\ core' = "down" /\ save' = [b \in Browser |-> NoSave]
      /\ ask' = [q \in Asker |-> NoQuestion] /\ mixed' = FALSE /\ UNCHANGED <<saved, router>>
  BY DEF Gone, AnswersGone
<1>2. AnswersTypeOK' BY AnswersTypeFail DEF ModelInv, Gone
<1>3. Quiet' BY <1>1 DEF Quiet, Saving, NoSave, NoQuestion
<1>4. Alone' /\ Written' BY <1>1 DEF Alone, Written, NoSave
<1>5. Routing' /\ Fresh' BY <1>1 DEF Routing, Fresh, NoQuestion
<1> QED BY <1>2, <1>3, <1>4, <1>5 DEF ModelInv

-----------------------------------------------------------------------------
(* The folders: the inductive invariant.                                   *)

AllQuiet == \A w \in Worker : At(w, "idle")
Resting == core \notin {"applying", "serving"} => AllQuiet
NothingBad == \A w \in Worker :
  apply[w].at \in {"idle", "read", "have", "unwatch", "remove"} => apply[w].bad = {}
OneApplies == \A v, w \in Worker : ~At(v, "idle") /\ ~At(w, "idle") => v = w
Listed(w) == ~At(w, "idle") /\ ~At(w, "read") => apply[w].want = On
\* How far an apply that runs alone has come.
Unwatching(w) ==
  /\ apply[w].at \in {"unwatch", "remove"} => watched \subseteq On \cup apply[w].todo
  /\ At(w, "remove") => apply[w].f \notin watched
Watching(w) ==
  /\ apply[w].at \in {"watch", "register"} =>
       /\ watched \subseteq On /\ apply[w].todo \subseteq On /\ apply[w].bad \subseteq On
       /\ On \subseteq watched \cup apply[w].todo \cup apply[w].bad
       /\ apply[w].bad \cap watched = {} /\ apply[w].bad \cap apply[w].todo = {}
  /\ At(w, "register") => apply[w].f \in apply[w].todo
Telling(w) == At(w, "tell") =>
  /\ watched \subseteq On /\ apply[w].bad = On \ watched /\ apply[w].todo \subseteq On
  /\ (told \cap On) \ apply[w].todo = apply[w].bad \ apply[w].todo
Progress(w) == Listed(w) /\ Unwatching(w) /\ Watching(w) /\ Telling(w)
Matches ==
  /\ OneApplies /\ \A w \in Worker : Progress(w)
  /\ core \in {"applying", "serving"} /\ AllQuiet => watched = On \ told

FolderInv == FoldersTypeOK /\ Resting /\ NothingBad /\ (~torn => Matches)

LEMMA FolderSame ==
  ASSUME FolderInv, UNCHANGED <<table, told, watched, apply, torn>>, FoldersTypeOK',
         \/ core' = core
         \/ core' \notin {"applying", "serving"} /\ core \notin {"applying", "serving"}
         \/ core' = "serving" /\ core = "applying"
  PROVE  FolderInv'
<1>1. Resting' BY DEF FolderInv, Resting, AllQuiet, At
<1>2. NothingBad' BY DEF FolderInv, NothingBad
<1>3. On' = On BY DEF On
<1>4. Matches => Matches'
  <2>1. OneApplies => OneApplies' BY DEF OneApplies, At
  <2>2. \A w \in Worker : Progress(w) => Progress(w)'
    BY <1>3 DEF Progress, Listed, Unwatching, Watching, Telling, At
  <2> QED BY <1>3, <2>1, <2>2 DEF Matches, AllQuiet, At
<1> QED BY <1>1, <1>2, <1>4 DEF FolderInv

\* A step of an apply, by what it must show of its own record.
LEMMA StepKeeps ==
  ASSUME FolderInv, NEW w \in Worker, ~At(w, "idle"), ~At(w, "idle")',
         UNCHANGED <<core, table>>, torn' \/ ~torn, FoldersTypeOK',
         \A v \in Worker \ {w} : apply'[v] = apply[v],
         apply'[w].at \in {"idle", "read", "have", "unwatch", "remove"} => apply'[w].bad = {},
         ~torn /\ Progress(w) => Progress(w)'
  PROVE  FolderInv'
<1>1. Resting' BY DEF FolderInv, Resting, AllQuiet, At
<1>2. NothingBad' BY DEF FolderInv, NothingBad
<1>3. ASSUME ~torn' PROVE Matches'
  <2>1. \A v \in Worker \ {w} : At(v, "idle") /\ At(v, "idle")'
    BY <1>3 DEF FolderInv, Matches, OneApplies, At
  <2>2. Progress(w)' BY <1>3 DEF FolderInv, Matches
  <2>3. \A v \in Worker \ {w} : Progress(v)'
    BY <2>1 DEF Progress, Listed, Unwatching, Watching, Telling, At
  <2>4. OneApplies' /\ ~AllQuiet' BY <2>1 DEF OneApplies, AllQuiet, At
  <2> QED BY <2>2, <2>3, <2>4 DEF Matches
<1> QED BY <1>1, <1>2, <1>3 DEF FolderInv

LEMMA ApplyKeeps ==
  ASSUME FolderInv, NEW w \in Worker, ApplyStep(w), UNCHANGED core
  PROVE  FolderInv'
<1> DEFINE a == apply[w]  b == apply'[w]
<1>1. FoldersTypeOK' BY FoldersTypeStep DEF FolderInv
<1>2. /\ apply \in [Worker -> Apply] /\ a \in Apply /\ torn \in BOOLEAN
      /\ told \subseteq Folder /\ watched \subseteq Folder /\ On \subseteq Folder
  BY DEF FolderInv, FoldersTypeOK, On
<1>3. a.at \in {"idle", "read", "have", "unwatch", "remove"} => a.bad = {}
  BY DEF FolderInv, NothingBad
<1>4. CASE EnabledWatchFolders(w)
  <2>1. /\ a.at = "read" /\ \A v \in Worker \ {w} : apply'[v] = apply[v]
        /\ b.at = "have" /\ b.want = On /\ b.bad = a.bad
        /\ (torn' <=> torn /\ Others(w)) /\ UNCHANGED <<table, told, watched>>
    BY <1>2, <1>4 DEF EnabledWatchFolders, At, Go, Step, Apply
  <2>2. Resting' BY <2>1 DEF FolderInv, Resting, AllQuiet, At
  <2>3. NothingBad' BY <2>1, <1>3 DEF FolderInv, NothingBad
  <2>4. On' = On BY <2>1 DEF On
  <2>5. ASSUME ~torn' PROVE Matches'
    <3>1. \A v \in Worker \ {w} : apply[v].at = "idle"
      BY <2>1, <2>5 DEF FolderInv, Matches, OneApplies, At, Others
    <3>2. OneApplies' /\ ~AllQuiet' BY <2>1, <3>1 DEF OneApplies, AllQuiet, At
    <3>3. \A v \in Worker : Progress(v)'
      BY <2>1, <2>4, <3>1 DEF Progress, Listed, Unwatching, Watching, Telling, At
    <3> QED BY <3>2, <3>3 DEF Matches
  <2> QED BY <1>1, <2>2, <2>3, <2>5 DEF FolderInv
<1>5. CASE Folders(w)
  <2>1. /\ a.at = "have" /\ \A v \in Worker \ {w} : apply'[v] = apply[v]
        /\ b.at = "unwatch" /\ b.want = a.want /\ b.bad = a.bad /\ b.todo = watched \ a.want
        /\ UNCHANGED <<table, told, watched, torn>>
    BY <1>2, <1>5 DEF Folders, At, Go, Step, Apply
  <2>2. Progress(w) => Progress(w)'
    BY <2>1 DEF Progress, Listed, Unwatching, Watching, Telling, At, On
  <2> QED BY <2>1, <2>2, <1>1, <1>3, StepKeeps DEF At
<1>6. ASSUME NEW f \in Folder, Unwatch(w, f) PROVE FolderInv'
  <2>1. /\ a.at = "unwatch" /\ \A v \in Worker \ {w} : apply'[v] = apply[v]
        /\ b.at = "remove" /\ b.want = a.want /\ b.bad = a.bad /\ b.todo = a.todo /\ b.f = f
        /\ watched' = watched \ {f} /\ UNCHANGED <<table, told, torn>>
    BY <1>2, <1>6 DEF Unwatch, At, Go, Step, Apply
  <2>2. Progress(w) => Progress(w)'
    BY <2>1 DEF Progress, Listed, Unwatching, Watching, Telling, At, On
  <2> QED BY <2>1, <2>2, <1>1, <1>3, StepKeeps DEF At
<1>7. CASE UnwatchNotify(w)
  <2>1. /\ a.at = "remove" /\ \A v \in Worker \ {w} : apply'[v] = apply[v]
        /\ b.at = "unwatch" /\ b.want = a.want /\ b.bad = a.bad /\ b.todo = a.todo \ {a.f}
        /\ UNCHANGED <<table, told, watched, torn>>
    BY <1>2, <1>7 DEF UnwatchNotify, At, Go, Step, Apply
  <2>2. Progress(w) => Progress(w)'
    BY <2>1 DEF Progress, Listed, Unwatching, Watching, Telling, At, On
  <2> QED BY <2>1, <2>2, <1>1, <1>3, StepKeeps DEF At
<1>8. CASE Unwatched(w)
  <2>1. /\ a.at = "unwatch" /\ a.todo = {} /\ \A v \in Worker \ {w} : apply'[v] = apply[v]
        /\ b.at = "watch" /\ b.want = a.want /\ b.bad = {} /\ b.todo = a.want
        /\ UNCHANGED <<table, told, watched, torn>>
    BY <1>2, <1>3, <1>8 DEF Unwatched, At, Go, Step, Apply
  <2>2. Progress(w) => Progress(w)'
    <3>1. On' = On BY <2>1 DEF On
    <3> QED BY <2>1, <3>1 DEF Progress, Listed, Unwatching, Watching, Telling, At
  <2> QED BY <2>1, <2>2, <1>1, StepKeeps DEF At
<1>9. ASSUME NEW f \in Folder, WatchAlready(w, f) PROVE FolderInv'
  <2>1. /\ a.at = "watch" /\ f \in watched /\ \A v \in Worker \ {w} : apply'[v] = apply[v]
        /\ b.at = "watch" /\ b.want = a.want /\ b.bad = a.bad /\ b.todo = a.todo \ {f}
        /\ UNCHANGED <<table, told, watched, torn>>
    BY <1>2, <1>9 DEF WatchAlready, At, Go, Apply
  <2>2. Progress(w) => Progress(w)'
    <3>1. On' = On BY <2>1 DEF On
    <3> QED BY <2>1, <3>1 DEF Progress, Listed, Unwatching, Watching, Telling, At
  <2> QED BY <2>1, <2>2, <1>1, StepKeeps DEF At
<1>10. ASSUME NEW f \in Folder, WatchFails(w, f) PROVE FolderInv'
  <2>1. /\ a.at = "watch" /\ f \in a.todo \ watched
        /\ \A v \in Worker \ {w} : apply'[v] = apply[v]
        /\ b.at = "watch" /\ b.want = a.want /\ b.bad = a.bad \cup {f}
        /\ b.todo = a.todo \ {f} /\ UNCHANGED <<table, told, watched, torn>>
    BY <1>2, <1>10 DEF WatchFails, At, Go, Apply
  <2>2. Progress(w) => Progress(w)'
    <3>1. On' = On BY <2>1 DEF On
    <3> QED BY <2>1, <3>1 DEF Progress, Listed, Unwatching, Watching, Telling, At
  <2> QED BY <2>1, <2>2, <1>1, StepKeeps DEF At
<1>11. ASSUME NEW f \in Folder, Watch(w, f) PROVE FolderInv'
  <2>1. /\ a.at = "watch" /\ f \in a.todo /\ \A v \in Worker \ {w} : apply'[v] = apply[v]
        /\ b.at = "register" /\ b.want = a.want /\ b.bad = a.bad /\ b.todo = a.todo /\ b.f = f
        /\ UNCHANGED <<table, told, watched, torn>>
    BY <1>2, <1>11 DEF Watch, At, Go, Step, Apply
  <2>2. Progress(w) => Progress(w)'
    <3>1. On' = On BY <2>1 DEF On
    <3> QED BY <2>1, <3>1 DEF Progress, Listed, Unwatching, Watching, Telling, At
  <2> QED BY <2>1, <2>2, <1>1, StepKeeps DEF At
<1>12. CASE WatchRegister(w)
  <2>1. /\ a.at = "register" /\ \A v \in Worker \ {w} : apply'[v] = apply[v]
        /\ b.at = "watch" /\ b.want = a.want /\ b.bad = a.bad /\ b.todo = a.todo \ {a.f}
        /\ watched' = watched \cup {a.f} /\ UNCHANGED <<table, told, torn>>
    BY <1>2, <1>12 DEF WatchRegister, At, Go, Step, Apply
  <2>2. Progress(w) => Progress(w)'
    <3>1. On' = On BY <2>1 DEF On
    <3> QED BY <2>1, <3>1 DEF Progress, Listed, Unwatching, Watching, Telling, At
  <2> QED BY <2>1, <2>2, <1>1, StepKeeps DEF At
<1>13. CASE Watched(w)
  <2>1. /\ a.at = "watch" /\ a.todo = {} /\ \A v \in Worker \ {w} : apply'[v] = apply[v]
        /\ b.at = "tell" /\ b.want = a.want /\ b.bad = a.bad /\ b.todo = a.want
        /\ UNCHANGED <<table, told, watched, torn>>
    BY <1>2, <1>13 DEF Watched, At, Go, Step, Apply
  <2>2. Progress(w) => Progress(w)'
    <3>1. On' = On BY <2>1 DEF On
    <3> QED BY <2>1, <3>1 DEF Progress, Listed, Unwatching, Watching, Telling, At
  <2> QED BY <2>1, <2>2, <1>1, StepKeeps DEF At
<1>14. ASSUME NEW f \in Folder, SetWatchFolderError(w, f) PROVE FolderInv'
  <2>1. /\ a.at = "tell" /\ f \in a.todo /\ \A v \in Worker \ {w} : apply'[v] = apply[v]
        /\ b.at = "tell" /\ b.want = a.want /\ b.bad = a.bad /\ b.todo = a.todo \ {f}
        /\ told' = (IF f \in a.bad /\ table[f] # "none" THEN told \cup {f} ELSE told \ {f})
        /\ UNCHANGED <<table, watched, torn>>
    BY <1>2, <1>14 DEF SetWatchFolderError, At, Go, Apply
  <2>2. Progress(w) => Progress(w)'
    <3>1. On' = On BY <2>1 DEF On
    <3>2. f \in On => table[f] # "none" BY DEF On
    <3> QED BY <2>1, <3>1, <3>2 DEF Progress, Listed, Unwatching, Watching, Telling, At
  <2> QED BY <2>1, <2>2, <1>1, StepKeeps DEF At
<1>15. CASE Applied(w)
  <2>1. /\ a.at = "tell" /\ a.todo = {} /\ apply' = [apply EXCEPT ![w] = Idle]
        /\ UNCHANGED <<table, told, watched, torn>>
    BY <1>15 DEF Applied, At, Finish, Go
  <2>2. /\ \A v \in Worker \ {w} : apply'[v] = apply[v]
        /\ b.at = "idle" /\ b.bad = {}
    BY <2>1, <1>2 DEF Idle
  <2>3. Resting' BY <2>1, <2>2 DEF FolderInv, Resting, AllQuiet, At
  <2>4. NothingBad' BY <2>2 DEF FolderInv, NothingBad
  <2>5. On' = On BY <2>1 DEF On
  <2>6. ASSUME ~torn' PROVE Matches'
    <3>1. Matches BY <2>1, <2>6 DEF FolderInv
    <3>2. \A v \in Worker : apply'[v].at = "idle"
      BY <2>1, <2>2, <3>1 DEF Matches, OneApplies, At
    <3>3. OneApplies' BY <3>2 DEF OneApplies, At
    <3>4. \A v \in Worker : Progress(v)'
      BY <3>2 DEF Progress, Listed, Unwatching, Watching, Telling, At
    <3>5. Telling(w) BY <3>1 DEF Matches, Progress
    <3>6. watched' = On' \ told' BY <2>1, <2>5, <3>5 DEF Telling, At
    <3> QED BY <3>3, <3>4, <3>6 DEF Matches
  <2> QED BY <1>1, <2>3, <2>4, <2>6 DEF FolderInv
<1> QED BY <1>4, <1>5, <1>6, <1>7, <1>8, <1>9, <1>10, <1>11, <1>12, <1>13, <1>14, <1>15
        DEF ApplyStep

\* A change of one row, and the apply that follows it is begun.
LEMMA ChangedKeeps ==
  ASSUME FolderInv, NEW w \in Worker, NEW f, NEW state, Changed(w, f, state), FoldersTypeOK',
         core' \in {"applying", "serving"}, core' = core \/ AllQuiet
  PROVE  FolderInv'
<1>1. /\ apply[w].at = "idle" /\ apply[w].bad = {} /\ (torn' <=> torn \/ Others(w))
      /\ UNCHANGED watched
  BY DEF Changed, At, FolderInv, NothingBad, FoldersTypeOK
<1>2. /\ \A v \in Worker \ {w} : apply'[v] = apply[v]
      /\ apply'[w].at = "read" /\ apply'[w].bad = {}
  BY <1>1 DEF Changed, Go, Step, FolderInv, FoldersTypeOK, Apply
<1>3. Resting' BY DEF Resting
<1>4. NothingBad' BY <1>2 DEF FolderInv, NothingBad
<1>5. ASSUME ~torn' PROVE Matches'
  <2>1. \A v \in Worker \ {w} : apply'[v].at = "idle" BY <1>1, <1>2, <1>5 DEF Others
  <2>2. OneApplies' /\ ~AllQuiet' BY <2>1, <1>2 DEF OneApplies, AllQuiet, At
  <2>3. \A v \in Worker : Progress(v)'
    BY <2>1, <1>2 DEF Progress, Listed, Unwatching, Watching, Telling, At
  <2> QED BY <2>2, <2>3 DEF Matches
<1> QED BY <1>3, <1>4, <1>5 DEF FolderInv

\* A statement of an apply fails, or the process ends.
LEMMA FolderFailKeeps ==
  ASSUME FolderInv,
         \/ UNCHANGED core /\ \E w \in Worker : ApplyStatementFails(w)
         \/ UNCHANGED core /\ \E b \in Browser : ApplyCancelled(b)
         \/ core' = "down" /\ FoldersGone
  PROVE  FolderInv'
<1>1. FoldersTypeOK' BY FoldersTypeFail DEF FolderInv
<1>2. ASSUME UNCHANGED core, NEW w \in Worker, ApplyStatementFails(w) \/ (w \in Browser /\ ApplyCancelled(w))
      PROVE  FolderInv'
  <2>1. /\ torn' /\ ~At(w, "idle") /\ \A v \in Worker \ {w} : apply'[v] = apply[v]
        /\ apply'[w] = Idle \/ (apply'[w].at = "tell")
    BY <1>2 DEF ApplyStatementFails, ApplyCancelled, At, Finish, Go, FolderInv, FoldersTypeOK, Apply
  <2>2. Resting' BY <1>2, <2>1 DEF FolderInv, Resting, AllQuiet
  <2>3. NothingBad' BY <2>1 DEF FolderInv, NothingBad, Idle
  <2> QED BY <1>1, <2>1, <2>2, <2>3 DEF FolderInv
<1>3. CASE core' = "down" /\ FoldersGone
  <2>1. apply' = [w \in Worker |-> Idle] /\ watched' = {} BY <1>3 DEF FoldersGone
  <2>2. \A w \in Worker : apply'[w].at = "idle" /\ apply'[w].bad = {} BY <2>1 DEF Idle
  <2>3. Resting' /\ NothingBad' BY <2>2 DEF Resting, AllQuiet, NothingBad, At
  <2>4. OneApplies' /\ \A w \in Worker : Progress(w)'
    BY <2>2 DEF OneApplies, Progress, Listed, Unwatching, Watching, Telling, At
  <2>5. core' \notin {"applying", "serving"} BY <1>3
  <2>6. Matches' BY <2>4, <2>5 DEF Matches
  <2> QED BY <1>1, <2>3, <2>6 DEF FolderInv
<1> QED BY <1>2, <1>3 DEF Worker

-----------------------------------------------------------------------------
(* The theorems.                                                           *)

LEMMA CoreTypeStep ==
  ASSUME CoreTypeOK, Next
  PROVE  CoreTypeOK'
<1>1. UNCHANGED events \/ Spend
  <2>1. ASSUME NEW b \in Browser, RequestFolders(b) \/ RequestSave(b)
        PROVE  Spend
    BY <2>1 DEF RequestFolders, RequestSave
  <2>2. CASE \/ \E q \in Asker : RequestAsk(q)
             \/ \E w \in Worker : WorkFolders(w)
             \/ \E p \in Process : RunSchema(p)
             \/ WorkAnswers \/ RunPhones \/ RunMart \/ RunModel \/ RunServe \/ Exit
    BY <2>2 DEF RequestAsk, WorkFolders, WorkAnswers, RunSchema, RunPhones, RunMart,
                RunModel, RunServe, Exit
  <2>3. CASE Start \/ RunFolders \/ RunTool \/ InstallVersion \/ BackUp
    BY <2>3 DEF Start, RunFolders, RunTool, InstallVersion, BackUp, Fault
  <2>4. CASE FoldersFail \/ AnswersFail \/ StartupFail \/ Stop \/ ToolGone
    BY <2>4 DEF FoldersFail, AnswersFail, StartupFail, Stop, ToolGone, Fault
  <2> QED BY <2>1, <2>2, <2>3, <2>4 DEF Next
<1>3. events' \in 0..MaxEvents BY <1>1, EventsAssumption DEF CoreTypeOK, Spend
<1>2. core' = core \/ core' \in Phase
  BY DEF Phase, Goes, Next, RequestFolders, RequestSave, RequestAsk, WorkFolders, WorkAnswers, Start,
         OnlyFolders, OnlyAnswers, RunPhones, CanonicalizeCustomerPhones, PhonesDone, FlagPhones,
         RunMart, Materialize, RunModel, RunFolders, RunServe, RunSchema, ListApplied, Migrated,
         PreMigrationBackup, ApplyMigration, RunTool,
         InstallVersion, BackUp, FoldersFail, AnswersFail, StartupFail, PhonesFail,
         Stop, Exit, Gone, ToolGone, ToolFails
<1> QED BY <1>2, <1>3 DEF CoreTypeOK

LEMMA FolderInvInit == Init => FolderInv
<1> SUFFICES ASSUME Init PROVE FolderInv OBVIOUS
<1>1. FoldersTypeOK
  BY FolderAssumption DEF Init, FoldersInit, FoldersTypeOK, Idle, Apply
<1>2. /\ \A w \in Worker : apply[w].at = "idle" /\ apply[w].bad = {}
      /\ core \notin {"applying", "serving"}
  BY DEF Init, FoldersInit, CoreInit, Idle
<1>3. Resting /\ NothingBad BY <1>2 DEF Resting, AllQuiet, NothingBad, At
<1>4. Matches
  BY <1>2 DEF Matches, OneApplies, Progress, Listed, Unwatching, Watching, Telling, At
<1> QED BY <1>1, <1>3, <1>4 DEF FolderInv

LEMMA FolderInvStep ==
  ASSUME FolderInv, [Next]_vars
  PROVE  FolderInv'
<1>1. CASE UNCHANGED <<core, folderVars>> \/ (UNCHANGED folderVars /\
             \/ core' \notin {"applying", "serving"} /\ core \notin {"applying", "serving"}
             \/ core' = "serving" /\ core = "applying")
  <2>1. FoldersTypeOK' BY <1>1 DEF FolderInv, FoldersTypeOK, folderVars
  <2> QED BY <1>1, <2>1, FolderSame DEF folderVars
<1>2. ASSUME NEW b \in Browser, RequestFolders(b) PROVE FolderInv'
  <2>1. FoldersTypeOK' BY <1>2, FoldersTypeRequest DEF RequestFolders, FolderInv, Worker
  <2>2. \E f \in Folder : \E state : Changed(b, f, state)
    BY <1>2 DEF RequestFolders, AddWatchFolder, RemoveWatchFolder, SetWatchFolderEnabled
  <2> QED BY <1>2, <2>1, <2>2, ChangedKeeps DEF RequestFolders, Serving, OnlyFolders, Worker
<1>3. ASSUME NEW w \in Worker, WorkFolders(w) PROVE FolderInv'
  BY <1>3, ApplyKeeps DEF WorkFolders, OnlyFolders
<1>4. CASE RunFolders
  <2>1. FoldersTypeOK' BY <1>4, FoldersTypeBoot DEF RunFolders, FolderInv
  <2>2. \E state : Changed(Boot, BuiltIn, state) BY <1>4 DEF RunFolders, EnsureBuiltIn
  <2>3. AllQuiet /\ core' = "applying"
    BY <1>4 DEF RunFolders, Goes, FolderInv, Resting
  <2> QED BY <2>1, <2>2, <2>3, ChangedKeeps DEF Worker
<1>5. CASE FoldersFail
  <2>1. ASSUME NEW f \in Folder, ShareDown(f) \/ ShareUp(f) PROVE FolderInv'
    <3>1. FoldersTypeOK' BY <2>1, FoldersTypeFail DEF FolderInv
    <3> QED BY <1>5, <2>1, <3>1, FolderSame DEF FoldersFail, OnlyFolders, ShareDown, ShareUp
  <2> QED BY <1>5, <2>1, FolderFailKeeps DEF FoldersFail, OnlyFolders
<1>6. CASE Gone BY <1>6, FolderFailKeeps DEF Gone
<1>7. CASE UNCHANGED vars BY <1>1, <1>7 DEF vars, coreVars
<1>8. CASE \/ \E b \in Browser : RequestSave(b)
           \/ \E q \in Asker : RequestAsk(q)
           \/ WorkAnswers \/ AnswersFail \/ RunTool \/ InstallVersion \/ BackUp \/ ToolGone
  <2>1. UNCHANGED <<core, folderVars>>
    BY <1>8 DEF RequestSave, RequestAsk, WorkAnswers, AnswersFail, RunTool, InstallVersion,
                BackUp, ToolGone, OnlyAnswers, OnlyStartup, ToolFails
  <2> QED BY <1>1, <2>1
<1>9. CASE \/ Start \/ RunPhones \/ RunMart \/ RunModel \/ RunServe \/ StartupFail
           \/ \E p \in Process : RunSchema(p)
  <2>1. UNCHANGED folderVars
    BY <1>9 DEF Start, RunPhones, RunMart, RunModel, RunServe, StartupFail, RunSchema, OnlyStartup
  <2>2. \/ core' = core
        \/ core' \notin {"applying", "serving"} /\ core \notin {"applying", "serving"}
        \/ core' = "serving" /\ core = "applying"
    BY <1>9 DEF Start, RunPhones, RunMart, RunModel, RunServe, StartupFail, RunSchema,
                Goes, CanonicalizeCustomerPhones, PhonesDone, PhonesFail, FlagPhones, Materialize,
                ListApplied, Migrated, PreMigrationBackup, ApplyMigration
  <2> QED BY <1>1, <2>1, <2>2
<1> QED BY <1>2, <1>3, <1>4, <1>5, <1>6, <1>7, <1>8, <1>9 DEF Next, Stop, Exit

LEMMA ModelInvInit == Init => ModelInv
<1> SUFFICES ASSUME Init PROVE ModelInv OBVIOUS
<1>1. AnswersTypeOK
  <2>1. NoSave \in Save BY UnsetSaved DEF NoSave, Save, Row
  <2>2. Configured(Unset, "") \in Routed BY UnsetSaved DEF Routed
  <2>3. NoQuestion \in Question BY <2>2 DEF NoQuestion, Question
  <2> QED BY <2>1, <2>2, <2>3, UnsetSaved DEF Init, AnswersInit, AnswersTypeOK
<1>2. /\ core = "down" /\ save = [b \in Browser |-> NoSave]
      /\ ask = [q \in Asker |-> NoQuestion] /\ ~mixed
  BY DEF Init, CoreInit, AnswersInit
<1>3. Quiet BY <1>2 DEF Quiet, Saving, NoSave, NoQuestion
<1>4. Alone /\ Written BY <1>2 DEF Alone, Written, NoSave
<1>5. Routing /\ Fresh BY <1>2 DEF Routing, Fresh, NoQuestion
<1> QED BY <1>1, <1>3, <1>4, <1>5 DEF ModelInv

LEMMA ModelInvStep ==
  ASSUME EnvURL = "", ModelInv, [Next]_vars
  PROVE  ModelInv'
<1>1. CASE UNCHANGED <<core, answerVars>> \/ (UNCHANGED answerVars /\
             \/ core' \notin {"folders", "applying", "serving"} /\ core # "serving"
             \/ core' = "applying" /\ core = "folders"
             \/ core' = "serving" /\ core = "applying")
  BY <1>1, ModelSame
<1>2. ASSUME NEW b \in Browser, RequestSave(b) PROVE ModelInv'
  BY <1>2, SaveSettingsKeeps DEF RequestSave, Serving, OnlyAnswers
<1>3. ASSUME NEW q \in Asker, RequestAsk(q) PROVE ModelInv'
  BY <1>3, AskKeeps DEF RequestAsk, Serving, OnlyAnswers
<1>4. CASE WorkAnswers
  <2>1. ASSUME NEW b \in Browser, SetLocalConfig(b) \/ ReloadModel(b) \/ Configure(b)
        PROVE  ModelInv'
    BY <1>4, <2>1, SetLocalConfigKeeps, ReloadModelKeeps, ConfigureKeeps
       DEF WorkAnswers, OnlyAnswers
  <2>2. ASSUME NEW q \in Asker, RouteStandard(q) \/ Current(q) \/ Generate(q)
        PROVE  ModelInv'
    <3>1. ask[q].at # "idle" BY <2>2 DEF RouteStandard, Current, Generate
    <3>2. core = "serving" BY <3>1 DEF ModelInv, Quiet
    <3> QED BY <1>4, <2>2, <3>2, AskKeeps DEF WorkAnswers, OnlyAnswers
  <2> QED BY <1>4, <2>1, <2>2 DEF WorkAnswers, AnswersStep
<1>5. CASE RunModel BY <1>5, RunModelKeeps
<1>6. CASE AnswersFail
  BY <1>6, SaveFailsKeeps, ReloadFailsKeeps, SaveSettingsKeeps
     DEF AnswersFail, Serving, OnlyAnswers
<1>7. CASE Gone BY <1>7, AnswersGoneKeeps
<1>8. CASE UNCHANGED vars BY <1>1, <1>8 DEF vars, coreVars
<1>9. CASE \/ \E b \in Browser : RequestFolders(b)
           \/ \E w \in Worker : WorkFolders(w)
           \/ FoldersFail \/ RunTool \/ InstallVersion \/ BackUp \/ ToolGone
  <2>1. UNCHANGED <<core, answerVars>>
    BY <1>9 DEF RequestFolders, WorkFolders, FoldersFail, RunTool, InstallVersion,
                BackUp, ToolGone, OnlyFolders, OnlyStartup, ToolFails
  <2> QED BY <1>1, <2>1
<1>10. CASE \/ Start \/ RunPhones \/ RunMart \/ RunFolders \/ RunServe \/ StartupFail
            \/ \E p \in Process : RunSchema(p)
  <2>1. UNCHANGED answerVars
    BY <1>10 DEF Start, RunPhones, RunMart, RunFolders, RunServe, StartupFail, RunSchema,
                 OnlyStartup
  <2>2. \/ core' = core
        \/ core' \notin {"folders", "applying", "serving"} /\ core # "serving"
        \/ core' = "applying" /\ core = "folders"
        \/ core' = "serving" /\ core = "applying"
    BY <1>10 DEF Start, RunPhones, RunMart, RunFolders, RunServe, StartupFail, RunSchema,
                 Goes, CanonicalizeCustomerPhones, PhonesDone, PhonesFail, FlagPhones, Materialize,
                 ListApplied, Migrated, PreMigrationBackup, ApplyMigration
  <2> QED BY <1>1, <2>1, <2>2
<1> QED BY <1>2, <1>3, <1>4, <1>5, <1>6, <1>7, <1>8, <1>9, <1>10 DEF Next, Stop, Exit

\* Everything a station keeps has its type, with any number of browsers, askers,
\* folders, choices and versions, through every fault, upgrade and roll back.
THEOREM TypeCorrect == Spec => []TypeOK
<1> DEFINE Inv == CoreTypeOK /\ FoldersTypeOK /\ AnswersTypeOK /\ StartInv
<1>1. Init => Inv
  <2> SUFFICES ASSUME Init PROVE Inv OBVIOUS
  <2>1. CoreTypeOK BY EventsAssumption DEF Init, CoreInit, CoreTypeOK, Phase
  <2>2. FoldersTypeOK
    BY FolderAssumption DEF Init, FoldersInit, FoldersTypeOK, Idle, Apply
  <2>3. AnswersTypeOK
    <3>1. NoSave \in Save BY UnsetSaved DEF NoSave, Save, Row
    <3>2. Configured(Unset, "") \in Routed BY UnsetSaved DEF Routed
    <3>3. NoQuestion \in Question BY <3>2 DEF NoQuestion, Question
    <3> QED BY <3>1, <3>2, <3>3, UnsetSaved DEF Init, AnswersInit, AnswersTypeOK
  <2> QED BY <2>1, <2>2, <2>3, StartInvInit DEF Init
<1>2. Inv /\ [Next]_vars => Inv'
  <2> SUFFICES ASSUME Inv, [Next]_vars PROVE Inv' OBVIOUS
  <2>1. StartInv' BY StartInvStep
  <2>2. CASE UNCHANGED vars
    BY <2>1, <2>2
       DEF vars, coreVars, folderVars, answerVars, CoreTypeOK, FoldersTypeOK, AnswersTypeOK
  <2>3. CASE Next
    <3>1. CoreTypeOK' BY <2>3, CoreTypeStep
    <3>2. FoldersTypeOK'
      <4>1. CASE UNCHANGED folderVars BY <4>1 DEF folderVars, FoldersTypeOK
      <4>2. ASSUME NEW b \in Browser, RequestFolders(b) PROVE FoldersTypeOK'
        BY <4>2, FoldersTypeRequest DEF RequestFolders, Worker
      <4>3. ASSUME NEW w \in Worker, WorkFolders(w) PROVE FoldersTypeOK'
        BY <4>3, FoldersTypeStep DEF WorkFolders
      <4>4. CASE RunFolders BY <4>4, FoldersTypeBoot DEF RunFolders
      <4>5. CASE FoldersFail BY <4>5, FoldersTypeFail DEF FoldersFail
      <4>6. CASE Gone BY <4>6, FoldersTypeFail DEF Gone
      <4> QED BY <2>3, <4>1, <4>2, <4>3, <4>4, <4>5, <4>6
              DEF Next, RequestSave, RequestAsk, WorkAnswers, Start, RunPhones, RunMart, RunModel,
                  RunServe, RunSchema, RunTool, InstallVersion, BackUp, AnswersFail,
                  StartupFail, Stop, Exit, ToolGone, OnlyAnswers, OnlyStartup
    <3>3. AnswersTypeOK'
      <4>1. CASE UNCHANGED answerVars BY <4>1 DEF answerVars, AnswersTypeOK
      <4>2. ASSUME NEW b \in Browser, RequestSave(b) PROVE AnswersTypeOK'
        BY <4>2, AnswersTypeRequest DEF RequestSave
      <4>3. ASSUME NEW q \in Asker, RequestAsk(q) PROVE AnswersTypeOK'
        BY <4>3, AnswersTypeRequest DEF RequestAsk
      <4>4. CASE WorkAnswers BY <4>4, AnswersTypeStep DEF WorkAnswers
      <4>5. CASE RunModel BY <4>5, AnswersTypeRequest DEF RunModel
      <4>6. CASE AnswersFail BY <4>6, AnswersTypeFail, AnswersTypeRequest DEF AnswersFail
      <4>7. CASE Gone BY <4>7, AnswersTypeFail DEF Gone
      <4> QED BY <2>3, <4>1, <4>2, <4>3, <4>4, <4>5, <4>6, <4>7
              DEF Next, RequestFolders, WorkFolders, Start, RunPhones, RunMart, RunFolders,
                  RunServe, RunSchema, RunTool, InstallVersion, BackUp, FoldersFail,
                  StartupFail, Stop, Exit, ToolGone, OnlyFolders, OnlyStartup
    <3> QED BY <2>1, <3>1, <3>2, <3>3
  <2> QED BY <2>2, <2>3
<1>3. Inv => TypeOK BY DEF TypeOK, StartInv
<1> QED BY <1>1, <1>2, <1>3, PTL DEF Spec

LEMMA StartInvSafe ==
  ASSUME StartInv
  PROVE  UpgradeSafe
<1>1. MartRebuilt
  BY DEF StartInv, MartOwed, Migrating, InStep, MartRebuilt
<1> QED BY <1>1 DEF StartInv, CopyOwed, NightlyOwed, UpgradeSafe

\* An upgrade loses nothing, in any sequence of upgrades, roll backs, stops,
\* failures, and runs of the support tool beside the core.
THEOREM UpgradesSafe == Spec => []UpgradeSafe
<1>1. Init => StartInv BY StartInvInit DEF Init
<1>2. StartInv /\ [Next]_vars => StartInv' BY StartInvStep
<1>3. StartInv => UpgradeSafe BY StartInvSafe
<1> QED BY <1>1, <1>2, <1>3, PTL DEF Spec

\* What the owner saved is what runs, for any number of browsers and folders,
\* where the local model is at its default address: the folders that are on are
\* watched or shown not to be, and the router answers by the saved rows.
THEOREM SavedApplies == ASSUME EnvURL = "" PROVE Spec => []SavedIsApplied
<1>1. Init => FolderInv /\ ModelInv BY FolderInvInit, ModelInvInit
<1>2. FolderInv /\ ModelInv /\ [Next]_vars => (FolderInv /\ ModelInv)'
  BY FolderInvStep, ModelInvStep
<1>3. FolderInv /\ ModelInv => SavedIsApplied
  <2> SUFFICES ASSUME FolderInv, ModelInv PROVE SavedIsApplied OBVIOUS
  <2>1. FoldersApplied BY DEF FolderInv, Matches, AllQuiet, FoldersApplied
  <2>2. ModelApplied BY DEF ModelInv, Routing, Settled, ModelApplied
  <2> QED BY <2>1, <2>2 DEF SavedIsApplied
<1> QED BY <1>1, <1>2, <1>3, PTL DEF Spec

\* A question asked when nothing was being saved, and none began to be, goes to
\* the provider, with the model, the key and the address, that was saved.
THEOREM NextQuestion == ASSUME EnvURL = "" PROVE Spec => []NextQuestionUsesIt
<1>1. Init => ModelInv BY ModelInvInit
<1>2. ModelInv /\ [Next]_vars => ModelInv' BY ModelInvStep
<1>3. ModelInv => NextQuestionUsesIt BY DEF ModelInv, Fresh, NextQuestionUsesIt
<1> QED BY <1>1, <1>2, <1>3, PTL DEF Spec
=============================================================================

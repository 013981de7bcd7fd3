------------------------------ MODULE Startup -------------------------------
(***************************************************************************)
(* The start of the core process up to its dashboard (run in               *)
(* cmd/fuelmind-core), and what keeps a station's data through an upgrade: *)
(* the migrations with the copy taken before them                          *)
(* (internal/storage/migrate.go), the one-time rewriting of phone numbers  *)
(* (internal/storage/phones.go), the rebuild of the business mart that     *)
(* either calls for, and the nightly copies (internal/backup).  The        *)
(* support tool, fuelmind-setup, migrates too, beside the core or before.  *)
(*                                                                         *)
(* Abstractions: a schema is the number of migrations applied, a program   *)
(* the number it knows; the mart is whole or not; a copy is the schema it  *)
(* holds and whether it was finished; nightly copies are in the order of   *)
(* their modification times, so the clock is not set back.                 *)
(***************************************************************************)
EXTENDS CoreProcess

CONSTANTS
  MaxVersion,  \* bound on the versions released
  Keep         \* nightly copies kept: 7

Core == "core"
Tool == "tool"
Process == {Core, Tool}
Version == 1..MaxVersion

ASSUME VersionAssumption == MaxVersion \in Nat \ {0} /\ Keep \in Nat \ {0}

VARIABLES
  build,    \* the version installed
  schema,   \* migrations applied to the database; 0 is a new one
  canon,    \* are the stored phone numbers in one form?
  done,     \* customer_phones_canonicalized
  whole,    \* does the mart hold every day under this schema and these numbers?
  migrate,  \* MigrateCount of the core and of the tool
  rebuild,  \* applied > 0 || phonesRekeyed > 0
  repair,   \* was the core started with -rebuild-mart?
  pre,      \* pre-migrate copies, as <<schema, finished>>
  nightly,  \* nightly copies, oldest first: is each finished?
  copying,  \* is the backup agent writing the last of them?
  made,     \* history: has a nightly copy been finished?
  served,   \* history: schemas a start of the station ended with, not half-migrated
  lost      \* history: was a rebuild that was called for not done?

startupVars == <<build, schema, canon, done, whole, migrate, rebuild, repair,
                 pre, nightly, copying, made, served, lost>>
data == <<build, schema, canon, done, whole>>
copies == <<pre, nightly, copying, made>>

NoMigrate == [at |-> "idle", goal |-> 1, next |-> 1]
Migrate == [at : {"idle", "list", "copy", "apply"}, goal : Version, next : Version]

StartupTypeOK ==
  /\ build \in Version /\ schema \in 0..MaxVersion
  /\ canon \in BOOLEAN /\ done \in BOOLEAN /\ whole \in BOOLEAN
  /\ migrate \in [Process -> Migrate] /\ rebuild \in BOOLEAN /\ repair \in BOOLEAN
  /\ pre \in SUBSET ((0..MaxVersion) \X BOOLEAN)
  /\ nightly \in Seq(BOOLEAN) /\ copying \in BOOLEAN /\ made \in BOOLEAN
  /\ served \in SUBSET (0..MaxVersion) /\ lost \in BOOLEAN

\* A new station, or one whose numbers were written before there was one form.
StartupInit ==
  /\ build = 1 /\ schema \in {0, 1} /\ canon = (schema = 0) /\ done = FALSE
  /\ whole = TRUE /\ served = {schema} \ {0} /\ lost = FALSE
  /\ migrate = [p \in Process |-> NoMigrate] /\ rebuild = FALSE /\ repair = FALSE
  /\ pre = {} /\ nightly = <<>> /\ copying = FALSE /\ made = FALSE

-----------------------------------------------------------------------------
(* MigrateCount.                                                           *)

Migrating(p) == migrate[p].at # "idle"
InStep(p, step) == migrate[p].at = step
\* run goes on to the phone numbers once its migrations are in.
Migrated(p, applied) ==
  /\ migrate' = [migrate EXCEPT ![p] = NoMigrate]
  /\ IF p = Core THEN Goes("schema", "phones") /\ rebuild' = applied
     ELSE UNCHANGED <<core, rebuild>>

MigrateBegin(p) ==
  /\ ~Migrating(p)
  /\ migrate' = [migrate EXCEPT ![p] = [NoMigrate EXCEPT !.at = "list", !.goal = build]]

\* The migrations this program knows and the table does not list are pending;
\* a database that has some is copied first.
ListApplied(p) ==
  /\ InStep(p, "list")
  /\ IF schema >= migrate[p].goal
     THEN Migrated(p, FALSE)
     ELSE /\ migrate' = [migrate EXCEPT ![p].next = schema + 1,
                            ![p].at = IF schema > 0 THEN "copy" ELSE "apply"]
          /\ UNCHANGED <<core, rebuild>>
  /\ UNCHANGED <<data, repair, copies, served, lost>>

\* (mutant: only the copy of a first upgrade is taken)
PreMigrationBackupOnce(p) ==
  /\ InStep(p, "copy") /\ migrate' = [migrate EXCEPT ![p].at = "apply"]
  /\ pre' = IF pre = {} THEN {<<schema, TRUE>>} ELSE pre
  /\ UNCHANGED <<core, rebuild, data, repair, nightly, copying, made, served, lost>>
\* BackupTo under a name of its own: VACUUM INTO copies what is committed.
PreMigrationBackup(p) ==
  /\ InStep(p, "copy") /\ migrate' = [migrate EXCEPT ![p].at = "apply"]
  /\ pre' = pre \cup {<<schema, TRUE>>}
  /\ UNCHANGED <<core, rebuild, data, repair, nightly, copying, made, served, lost>>

\* One migration with its row in schema_migrations, in one transaction.
ApplyMigration(p) ==
  LET m == migrate[p]
  IN  /\ InStep(p, "apply") /\ schema = m.next - 1
      /\ schema' = m.next /\ whole' = (whole /\ served = {})
      /\ lost' = (lost \/ (p = Tool /\ served # {}))
      /\ IF m.next = m.goal
         THEN Migrated(p, TRUE)
         ELSE /\ migrate' = [migrate EXCEPT ![p].next = m.next + 1]
              /\ UNCHANGED <<core, rebuild>>
      /\ UNCHANGED <<build, canon, done, repair, copies, served>>

\* The other process has applied it already: the transaction fails.
Taken(p) == InStep(p, "apply") /\ schema # migrate[p].next - 1
\* The other process has copied the same schema in the same second, under the
\* same name, before it went on to its migrations: the target exists already.
NameTaken(p) ==
  /\ InStep(p, "copy") /\ <<migrate[p].next - 1, TRUE>> \in pre
  /\ schema # migrate[p].next - 1 \/ \E q \in Process \ {p} : InStep(q, "apply")
\* The tool gives up; the core exits (module Station).
ToolFails(part) ==
  /\ migrate' = [migrate EXCEPT ![Tool] = NoMigrate]
  /\ pre' = pre \cup part
  /\ UNCHANGED <<core, rebuild, data, repair, nightly, copying, made, served, lost>>
\* What a copy leaves behind that is interrupted, or fails: maybe a part of it.
Part(p) == IF InStep(p, "copy") THEN {{}, {<<schema, FALSE>>}} ELSE {{}}

-----------------------------------------------------------------------------
(* The rest of run, up to the dashboard.                                   *)

\* (mutant: only a migration calls for a rebuild)
CanonicalizeCustomerPhonesOnly ==
  /\ ~done /\ Goes("phones", "flag")
  /\ canon' = TRUE /\ whole' = (whole /\ canon)
  /\ UNCHANGED <<build, schema, done, migrate, rebuild, repair, copies, served, lost>>
\* One transaction rewrites the numbers and clears what was derived from them.
CanonicalizeCustomerPhones ==
  /\ ~done /\ Goes("phones", "flag")
  /\ canon' = TRUE /\ whole' = (whole /\ canon) /\ rebuild' = (rebuild \/ ~canon)
  /\ UNCHANGED <<build, schema, done, migrate, repair, copies, served, lost>>
PhonesDone ==
  /\ done /\ Goes("phones", "mart")
  /\ UNCHANGED startupVars
PhonesFail ==
  /\ ~done /\ Goes("phones", "mart")
  /\ UNCHANGED startupVars
FlagPhones(ok) ==
  /\ Goes("flag", "mart") /\ done' = ok
  /\ UNCHANGED <<build, schema, canon, whole, migrate, rebuild, repair, copies, served, lost>>

\* MaterializeAll, or the last seven days where nothing called for more; a
\* failure is logged.
Materialize(ok) ==
  /\ Goes("mart", IF repair THEN "down" ELSE "model")
  /\ LET all == repair \/ rebuild
     IN  /\ whole' = (whole \/ (all /\ ok))
         /\ lost' = (IF all THEN ~ok /\ (lost \/ ~whole) ELSE lost)
  /\ UNCHANGED <<build, schema, canon, done, migrate, rebuild, repair, copies, served>>

\* The dashboard listens.
ServeStation ==
  /\ served' = IF Migrating(Tool) THEN served ELSE served \cup {schema}
  /\ UNCHANGED <<data, migrate, rebuild, repair, copies, lost>>

-----------------------------------------------------------------------------
(* The backup agent, from the catching up of the mart on.                  *)

BackupBegin ==
  /\ core \in {"model", "folders", "applying", "serving"} /\ ~copying
  /\ nightly' = Append(nightly, FALSE) /\ copying' = TRUE
  /\ UNCHANGED <<data, migrate, rebuild, repair, pre, made, served, lost>>

Newest(s) == IF Len(s) <= Keep THEN s ELSE SubSeq(s, Len(s) - Keep + 1, Len(s))
\* The newest are kept, finished or not; the copies before migrations too.
EnforceRetention ==
  /\ copying /\ copying' = FALSE /\ made' = TRUE
  /\ nightly' = Newest([nightly EXCEPT ![Len(nightly)] = TRUE])
  /\ UNCHANGED <<data, migrate, rebuild, repair, pre, served, lost>>
\* (mutant: what is kept is thinned out after a copy that failed, too)
BackupFailsThinned ==
  /\ copying /\ copying' = FALSE /\ nightly' = Newest(nightly)
  /\ UNCHANGED <<data, migrate, rebuild, repair, pre, made, served, lost>>
\* The copy fails and leaves a part of itself: nothing is thinned out.
BackupFails ==
  /\ copying /\ copying' = FALSE
  /\ UNCHANGED <<data, migrate, rebuild, repair, pre, nightly, made, served, lost>>

-----------------------------------------------------------------------------
(* The process starts, and ends.                                           *)

StartCore(fix) ==
  /\ repair' = fix /\ MigrateBegin(Core)
  /\ UNCHANGED <<data, rebuild, copies, served, lost>>
\* Another version is put in place, an older one too; the next start runs it.
Install ==
  /\ build' \in {build - 1, build + 1} \cap Version
  /\ UNCHANGED <<schema, canon, done, whole, migrate, rebuild, repair, copies, served, lost>>
StartupGone ==
  /\ migrate' = [migrate EXCEPT ![Core] = NoMigrate] /\ rebuild' = FALSE /\ repair' = FALSE
  /\ copying' = FALSE /\ lost' = (lost \/ ~whole)
  /\ \E part \in Part(Core) : pre' = pre \cup part
  /\ UNCHANGED <<data, nightly, made, served>>

-----------------------------------------------------------------------------
\* "Rebuild everything when a migration changed the schema" (main.go): once
\* run is past it the mart holds every day, unless the process ended before
\* the rebuild it owed, the rebuild failed, or the tool migrated.
MartRebuilt == core \in {"model", "folders", "applying", "serving"} => whole \/ lost

\* "So a rollback to the previous binary can restore the pre-migration data"
\* (migrate.go): of every schema the station has been served under and has
\* left there is a finished copy, whatever the nightly ones.
CopyKept == \A v \in served : v < schema => <<v, TRUE>> \in pre
\* Once a nightly copy has been finished there is one, however many fail.
NightlyKept == made => \E i \in 1..Len(nightly) : nightly[i]
=============================================================================

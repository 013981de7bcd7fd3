------------------------------- MODULE Ingest -------------------------------
(***************************************************************************)
(* From a POS export to the figures on the dashboard: the drop folder and  *)
(* the watcher (internal/posadapter/csvwatch), the append-only raw layer   *)
(* and the transactions table (internal/storage), the normalizer           *)
(* (internal/normalizer) and the daily_sales table of the business mart    *)
(* (internal/mart).                                                        *)
(*                                                                         *)
(* Nothing orders the goroutines that ingest: the watcher's event loop,    *)
(* the periodic refresh of cmd/fuelmind-core and a dashboard upload run    *)
(* the same pipeline side by side, and only a single SQL transaction is    *)
(* atomic.  Every such transaction and every file operation is a step.     *)
(*                                                                         *)
(* Abstractions: a CSV row is the reading of a sale (its payload); equal   *)
(* readings are byte-identical rows, key stands for pos_source_id with     *)
(* external_id, product for the alias text.  A row of daily_sales is the   *)
(* set of raw rows its sums range over.  Days are numbers that end today.  *)
(***************************************************************************)
EXTENDS Integers, Sequences, FiniteSets, FiniteSetsExt, SequencesExt

CONSTANTS
  Reading,       \* rows a POS may export: [key, lane, day, product, total]
  Garbled,       \* readings parseFile cannot read
  Export,        \* files the POS may drop or the owner upload: sets of readings
  FileName,      \* names the POS gives its exports
  Worker,        \* goroutines that ingest: "loop", "refresh", "web"
  KnownProduct,  \* products with an alias when the station is set up
  Product,       \* products the owner's support may add an alias for
  WeekStart,     \* first day of the trailing week the periodic refresh covers
  QuarterStart,  \* first day of the 90 days a dashboard entry refreshes
  Rewrite,       \* may the POS rewrite a file that is waiting or being ingested?
  Revert,        \* may the POS take a correction back?
  FaultKinds,    \* which of "crash", "storage" and "rejects" may happen
  MaxFaults      \* bound on the number of faults in a behaviour

NoKey == "none"   \* an empty external_id
NoFile == {}      \* nothing under a file name
NoName == ""

ASSUME ReadingAssumption ==
  /\ \A p \in Reading : p.day \in Nat /\ p.product \in Product
  /\ Garbled \subseteq Reading
  /\ KnownProduct \subseteq Product
  /\ Worker \subseteq {"loop", "refresh", "web"}
ASSUME ExportAssumption ==
  /\ \A e \in Export : e # NoFile /\ e \subseteq Reading /\ IsFiniteSet(e)
  /\ NoName \notin FileName
  /\ \A p, q \in Reading : p.key = q.key => p.lane = q.lane \/ p.key = NoKey
  \* an export names a sale once
  /\ \A e \in Export : \A p, q \in e : p.key = q.key => p = q \/ p.key = NoKey
ASSUME BoundAssumption ==
  /\ WeekStart \in Nat /\ QuarterStart \in 0..WeekStart
  /\ Rewrite \in BOOLEAN /\ Revert \in BOOLEAN
  /\ FaultKinds \subseteq {"crash", "storage", "rejects"}
  /\ MaxFaults \in Nat

Day == {p.day : p \in Reading}
Lane == {p.lane : p \in Reading}
Readable(e) == e \ Garbled

VARIABLES
  folder,      \* drop folder: the export under each file name, or NoFile
  archived,    \* readings whose file was moved to processed\ or failed\
  rejects,     \* readings handed back in failed\
  raw,         \* raw_pos_transactions; a raw row's id is its index
  sales,       \* ids of the raw rows the rows of transactions come from
  superseded,  \* raw_superseded
  aliases,     \* products with a row in product_aliases
  loaded,      \* ... as the shared Normalizer last read them
  daily,       \* daily_sales: raw rows counted per [day, product]
  service,     \* "down", "starting" or "up"
  worker,      \* what each goroutine is doing
  faults,      \* faults so far
  current,     \* history: the readings that are the last export of their sale
  stale        \* history: the readings a later export corrected

files == <<folder, archived, rejects>>
database == <<raw, sales, superseded, aliases, daily>>
exports == <<current, stale>>
vars == <<files, database, loaded, service, worker, faults, exports>>

Group == [day : Day, product : Product]
GroupOf(id) == [day |-> raw[id].day, product |-> raw[id].product]
Ids == 1..Len(raw)
Stored == {raw[id] : id \in Ids}

\* The view raw_unresolved.
Unresolved == Ids \ (sales \cup superseded)

WorkerStep ==
  {"idle", "reject", "store", "reload", "list", "write", "mart", "again", "archive"}
NoWork == [at |-> "idle", name |-> NoName, rows |-> {}, todo |-> {}, since |-> 0]
Idle(w) == worker[w] = NoWork

Work == [at : WorkerStep, name : FileName \cup {NoName}, rows : SUBSET Reading,
         todo : SUBSET Ids, since : Day \cup {0, WeekStart}]

TypeOK ==
  /\ folder \in [FileName -> Export \cup {NoFile}]
  /\ archived \subseteq Reading /\ rejects \subseteq Reading
  /\ raw \in Seq(Reading) /\ \A i, j \in Ids : raw[i] = raw[j] => i = j
  /\ sales \subseteq Ids /\ superseded \subseteq Ids
  /\ aliases \subseteq Product /\ loaded \subseteq Product
  /\ daily \in [Group -> SUBSET Ids]
  /\ service \in {"down", "starting", "up"}
  /\ worker \in [Worker -> Work]
  /\ faults \in 0..MaxFaults
  /\ current \subseteq Reading /\ stale \subseteq Reading

Init ==
  /\ folder = [n \in FileName |-> NoFile]
  /\ archived = {} /\ rejects = {}
  /\ raw = <<>> /\ sales = {} /\ superseded = {}
  /\ aliases = KnownProduct /\ loaded = {}
  /\ daily = [g \in Group |-> {}]
  /\ service = "down"
  /\ worker = [w \in Worker |-> NoWork]
  /\ faults = 0
  /\ current = {} /\ stale = {}

-----------------------------------------------------------------------------
(* The POS and the owner.                                                  *)

Held(n) == \E w \in Worker : worker[w].name = n

SameSale(p, q) == p.key = q.key /\ p.key # NoKey

\* The history: a later reading of a sale corrects the earlier one.
Exported(e) ==
  LET corrected == {p \in current \ e : \E q \in Readable(e) : SameSale(p, q)}
  IN /\ Revert \/ e \cap stale = {}
     /\ current' = (current \ corrected) \cup Readable(e)
     /\ stale' = (stale \cup corrected) \ Readable(e)

\* A new export appears; the POS may well use the name again once the earlier
\* file was archived.
DropFile(n, e) ==
  /\ Rewrite \/ (folder[n] = NoFile /\ ~Held(n))
  /\ Exported(e)
  /\ folder' = [folder EXCEPT ![n] = e]
  /\ UNCHANGED <<archived, rejects, database, loaded, service, worker, faults>>

\* Support adds an alias.
AddAlias(product) ==
  /\ product \notin aliases
  /\ aliases' = aliases \cup {product}
  /\ UNCHANGED <<files, raw, sales, superseded, daily, loaded, service, worker,
                 faults, exports>>

-----------------------------------------------------------------------------
(* One run of the pipeline.                                                *)

Step(w, work) == worker' = [worker EXCEPT ![w] = work]

MayFault(kind) == kind \in FaultKinds /\ faults < MaxFaults

\* writeRejects; its failure is logged and the file is ingested all the same.
HandBack(rows) ==
  \/ rejects' = rejects \cup rows /\ UNCHANGED faults
  \/ MayFault("rejects") /\ UNCHANGED rejects /\ faults' = faults + 1

\* processFile up to the parsed rows, for an event, the periodic sweep, or the
\* sweep in the request that adds or applies a folder.
\* Rows that cannot be read go to failed\<name>.rejected.csv; a file with no
\* readable row is moved to failed\ as it is.
BeginFile(w, n) ==
  /\ service = "up" /\ Idle(w)
  /\ folder[n] # NoFile
  /\ LET good == Readable(folder[n])
     IN /\ Step(w, [NoWork EXCEPT !.at = IF good = {} THEN "reject" ELSE "store",
                                  !.name = n, !.rows = good])
        /\ IF good = {} \/ good = folder[n] THEN UNCHANGED <<rejects, faults>>
                                           ELSE HandBack(folder[n] \ good)
  /\ UNCHANGED <<folder, archived, database, loaded, service, exports>>

\* An export uploaded in the browser, or a sale typed in by hand.
BeginUpload(w, e) ==
  /\ w = "web" /\ service = "up" /\ Idle(w)
  /\ Readable(e) # {}
  /\ Exported(e)
  /\ Step(w, [NoWork EXCEPT !.at = "store", !.rows = Readable(e)])
  /\ UNCHANGED <<files, database, loaded, service, faults>>

\* The periodic refresh, and the catch-up before the service is up.
BeginRefresh(w) ==
  /\ w = "refresh" /\ Idle(w)
  /\ service = "up"
  /\ Step(w, [NoWork EXCEPT !.at = "reload", !.since = WeekStart])
  /\ UNCHANGED <<files, database, loaded, service, faults, exports>>

\* Mutant: the last day of the rows instead of the first.
EarliestIsLast(rows) == Max({p.day : p \in rows})

\* The first business day the rows touch.
Earliest(rows) == Min({p.day : p \in rows})

\* Mutant: a row that is stored already is inserted again.
StoreLaneAgain(w) ==
  /\ worker[w].at = "store"
  /\ \E rows \in SetToSeqs(worker[w].rows) : raw' = raw \o rows
  /\ Step(w, [worker[w] EXCEPT !.at = "reload", !.since = Earliest(worker[w].rows)])
  /\ UNCHANGED <<files, sales, superseded, aliases, daily, loaded, service, faults,
                 exports>>

\* WriteRawTransactions inserts the rows of one lane in one transaction and
\* ignores a row whose payload it already has.
StoreLane(w) ==
  /\ worker[w].at = "store"
  /\ LET new == worker[w].rows \ Stored
         stored == [worker[w] EXCEPT !.at = "reload",
                                     !.since = Earliest(worker[w].rows)]
     IN \/ /\ new = {}
           /\ Step(w, stored)
           /\ UNCHANGED raw
        \/ \E lane \in {p.lane : p \in new} :
             LET batch == {p \in new : p.lane = lane}
             IN /\ \E rows \in SetToSeqs(batch) : raw' = raw \o rows
                /\ Step(w, IF batch = new THEN stored ELSE worker[w])
  /\ UNCHANGED <<files, sales, superseded, aliases, daily, loaded, service, faults,
                 exports>>

\* Mutant: the aliases are read once, at the first run.
ReloadAliasesOnce(w) ==
  /\ worker[w].at = "reload"
  /\ loaded' = IF loaded = {} THEN aliases ELSE loaded
  /\ Step(w, [worker[w] EXCEPT !.at = "list"])
  /\ UNCHANGED <<files, database, service, faults, exports>>

\* Normalizer.Run reloads the aliases all goroutines share ...
ReloadAliases(w) ==
  /\ worker[w].at = "reload"
  /\ loaded' = aliases
  /\ Step(w, [worker[w] EXCEPT !.at = "list"])
  /\ UNCHANGED <<files, database, service, faults, exports>>

\* ... and reads the list of open raw rows.
ListUnresolved(w) ==
  /\ worker[w].at = "list"
  /\ Step(w, [worker[w] EXCEPT !.at = IF Unresolved = {} THEN "mart" ELSE "write",
                               !.todo = Unresolved])
  /\ UNCHANGED <<files, database, loaded, service, faults, exports>>

\* Mutants: the earlier row of the sale stays beside the new one; it is removed
\* and the new one not inserted; the new raw row is recorded as the superseded
\* one; the first row of a sale wins.
WriteNormalizedInserts(id) == sales' = sales \cup {id} /\ UNCHANGED superseded
WriteNormalizedRemoves(id) ==
  LET same == {s \in sales : SameSale(raw[s], raw[id])}
  IN /\ sales' = IF same = {} THEN sales \cup {id} ELSE sales \ same
     /\ superseded' = superseded \cup (same \ {id})
WriteNormalizedSwapped(id) ==
  LET same == {s \in sales : SameSale(raw[s], raw[id])} \ {id}
  IN /\ sales' = (sales \ same) \cup {id}
     /\ superseded' = IF same = {} THEN superseded ELSE superseded \cup {id}
WriteNormalizedFirst(id) ==
  LET same == {s \in sales : SameSale(raw[s], raw[id])} \ {id}
  IN /\ sales' = IF same = {} THEN sales \cup {id} ELSE sales
     /\ superseded' = IF same = {} THEN superseded ELSE superseded \cup {id}

\* WriteNormalizedTransaction: a later reading of the same sale replaces the
\* row it finds, the raw row that is replaced is recorded.
WriteNormalized(id) ==
  LET same == {s \in sales : SameSale(raw[s], raw[id])}
  IN /\ sales' = (sales \ same) \cup {id}
     /\ superseded' = superseded \cup (same \ {id})

\* Run takes the rows it listed in order; one it cannot normalize stays open.
WriteRow(w) ==
  /\ worker[w].at = "write"
  /\ LET id == Min(worker[w].todo)
         rest == worker[w].todo \ {id}
     IN /\ IF raw[id].product \in loaded THEN WriteNormalized(id)
                                        ELSE UNCHANGED <<sales, superseded>>
        /\ Step(w, [worker[w] EXCEPT !.at = IF rest = {} THEN "mart" ELSE "write",
                                     !.todo = rest])
  /\ UNCHANGED <<files, raw, aliases, daily, loaded, service, faults, exports>>

\* refreshDailySales: one upsert per day and product that has transactions.
Counted(g) == {id \in sales : GroupOf(id) = g}
Refresh(since) ==
  daily' = [g \in Group |-> IF g.day >= since /\ Counted(g) # {} THEN Counted(g)
                                                                ELSE daily[g]]

\* What follows the mart: a file is archived, a dashboard entry refreshes the
\* last 90 days again, and the catch-up lets the service come up.
AfterMart(w) ==
  CASE worker[w].name # NoName -> Step(w, [worker[w] EXCEPT !.at = "archive"])
    [] worker[w].name = NoName /\ w = "web" -> Step(w, [worker[w] EXCEPT !.at = "again"])
    [] OTHER -> Step(w, NoWork)

Materialize(w) ==
  /\ worker[w].at = "mart"
  /\ Refresh(worker[w].since)
  /\ AfterMart(w)
  /\ service' = IF service = "starting" THEN "up" ELSE service
  /\ UNCHANGED <<files, raw, sales, superseded, aliases, loaded, faults, exports>>

MaterializeAgain(w) ==
  /\ worker[w].at = "again"
  /\ Refresh(QuarterStart)
  /\ Step(w, NoWork)
  /\ UNCHANGED <<files, raw, sales, superseded, aliases, loaded, service, faults,
                 exports>>

\* The rename moves whatever has the name by now; it may have gone already.
MoveAway(w, at) ==
  LET n == worker[w].name
  IN /\ worker[w].at = at
     /\ folder' = [folder EXCEPT ![n] = NoFile]
     /\ archived' = archived \cup folder[n]
     /\ Step(w, NoWork)
     /\ UNCHANGED <<database, loaded, service, faults, exports>>

Archive(w) == MoveAway(w, "archive") /\ UNCHANGED rejects

RejectFile(w) ==
  /\ MoveAway(w, "reject")
  /\ rejects' = rejects \cup folder[worker[w].name]

-----------------------------------------------------------------------------
(* Start, crash and storage errors.                                        *)

\* Before anything else runs the core normalizes what is open and refreshes
\* the trailing week, or the whole history when a migration ran.
StartCore ==
  /\ service = "down" /\ "refresh" \in Worker
  /\ service' = "starting"
  /\ \E since \in {WeekStart, 0} :
       Step("refresh", [NoWork EXCEPT !.at = "reload", !.since = since])
  /\ UNCHANGED <<files, database, loaded, faults, exports>>

Crash ==
  /\ MayFault("crash") /\ service # "down"
  /\ faults' = faults + 1
  /\ service' = "down"
  /\ worker' = [w \in Worker |-> NoWork]
  /\ loaded' = {}
  /\ UNCHANGED <<files, database, exports>>

\* Mutant: a file whose rows could not be stored is archived all the same.
StorageErrorArchives(w) ==
  /\ MayFault("storage")
  /\ faults' = faults + 1
  /\ worker[w].at = "store"
  /\ Step(w, [worker[w] EXCEPT !.at = "archive"])
  /\ UNCHANGED <<files, database, loaded, service, exports>>

\* The station database or the file system refuses one operation, or the
\* browser closes the request an upload runs under.  A file
\* whose rows are not stored stays in the folder; a normalizer run that fails
\* goes on to the mart; later failures are logged.
StorageError(w) ==
  /\ MayFault("storage")
  /\ faults' = faults + 1
  /\ \/ worker[w].at \in {"store", "again", "archive", "reject"} /\ Step(w, NoWork)
        /\ UNCHANGED service
     \/ /\ worker[w].at \in {"reload", "list", "write"}
        /\ Step(w, [worker[w] EXCEPT !.at = "mart", !.todo = {}])
        /\ UNCHANGED service
     \/ /\ worker[w].at = "mart"
        /\ AfterMart(w)
        /\ service' = IF service = "starting" THEN "up" ELSE service
  /\ UNCHANGED <<files, database, loaded, exports>>

Ingesting(w) ==
  \/ StoreLane(w) \/ ReloadAliases(w) \/ ListUnresolved(w) \/ WriteRow(w)
  \/ Materialize(w) \/ MaterializeAgain(w) \/ Archive(w) \/ RejectFile(w)

Next ==
  \/ \E n \in FileName, e \in Export : DropFile(n, e)
  \/ \E product \in Product : AddAlias(product)
  \/ StartCore \/ Crash
  \/ \E w \in Worker :
       \/ \E n \in FileName : BeginFile(w, n)
       \/ \E e \in Export : BeginUpload(w, e)
       \/ BeginRefresh(w)
       \/ Ingesting(w)
       \/ StorageError(w)

Spec == Init /\ [][Next]_vars

\* The 15-minute refresh sweeps the folder and runs the normalizer and the mart
\* whenever it is free; a run that began goes on.  No file-system event is owed.
FairSpec ==
  /\ Spec
  /\ WF_vars(StartCore)
  /\ \A w \in Worker : WF_vars(Ingesting(w))
  /\ \A n \in FileName : SF_vars(BeginFile("refresh", n))
  /\ SF_vars(BeginRefresh("refresh"))

-----------------------------------------------------------------------------
(* What the pipeline owes the owner.                                       *)

\* A row of a file that has left the drop folder is in the raw layer or was
\* handed back in failed\, whatever crash or storage error came in between
\* (processFile stores the rows before it archives the file).
ArchivedIsStored == archived \subseteq Stored \cup rejects

\* No correction makes a sale vanish: a raw row is set aside only for another
\* one of the same sale that is in transactions (WriteNormalizedTransaction).
SaleKept == \A id \in superseded : \E s \in sales : SameSale(raw[s], raw[id])

\* The dashboard counts no sale in two rows of daily_sales and in none twice,
\* however often and by whomever it is exported, corrected or refreshed
\* (refreshDailySales over transactions).
CountedOnce ==
  \A g, h \in Group : \A s \in daily[g], t \in daily[h] :
    SameSale(raw[s], raw[t]) => g = h /\ s = t

\* A row of daily_sales that does not agree with transactions is one that a
\* goroutine still at work is going to refresh: whoever's normalizer run wrote
\* the rows, the figures of an import are complete when it is over (settle).
\* Left out: a day and product that a correction took a sale from when either
\* none is left there (IngestMoved) or the day is not the last one, which a
\* goroutine that writes corrections from an old list may not refresh
\* (IngestSetBack).
Owes(w, day) ==
  \/ worker[w].at = "store" /\ Earliest(worker[w].rows) <= day
  \/ worker[w].at \in {"reload", "list", "write", "mart"} /\ worker[w].since <= day
Corrected(g) ==
  \E i, j \in Ids : i # j /\ SameSale(raw[i], raw[j]) /\ GroupOf(i) = g
LastDay(day) == WeekStart <= day /\ \A d \in Day : d <= day
MayLag(g) == Corrected(g) /\ (Counted(g) = {} \/ ~LastDay(g.day))
RefreshOwed ==
  \A g \in Group :
    daily[g] # Counted(g) => MayLag(g) \/ \E w \in Worker : Owes(w, g.day)

\* The newest raw row of a sale wins: what it replaced was older
\* (WriteNormalizedTransaction, migration 007).
NewestWins ==
  \A s \in sales, id \in superseded : SameSale(raw[s], raw[id]) => id < s

\* The last export of a sale is never set aside for an earlier one
\* (WriteRawTransactions, Normalizer.Run).
LastExportStands == \A id \in superseded : raw[id] \notin current

\* A sale that is in a file in the drop folder reaches the daily figures, or
\* its correction does, once its product is known: after crashes and storage
\* errors too, and if no file-system event ever arrives (periodicRefresh).
Shown(p) == \E id \in Ids : raw[id] = p /\ id \in daily[GroupOf(id)] \cup superseded
SalesShowUp ==
  \A n \in FileName, p \in Reading \ Garbled :
    p \in folder[n] /\ p.product \in aliases ~> Shown(p)

-----------------------------------------------------------------------------
(* Known divergence.                                                       *)

\* RefreshOwed for corrected days too (settle: the figures an import changed
\* are refreshed with it), refuted by IngestSetBack.
FiguresOwed ==
  \A g \in Group : daily[g] # Counted(g) => \E w \in Worker : Owes(w, g.day)
=============================================================================

---------------------------- MODULE IngestProofs ----------------------------
(***************************************************************************)
(* Proofs about Ingest, for any exports, any number of goroutines and any  *)
(* number of crashes and storage errors.                                   *)
(***************************************************************************)
EXTENDS Ingest, LeastMember, TLAPS, FiniteSetTheorems

-----------------------------------------------------------------------------
(* Orders of a set.                                                        *)

\* An order of a finite set names every member once.
LEMMA OrderNamesAll ==
  ASSUME NEW S, IsFiniteSet(S), NEW rows \in SetToSeqs(S)
  PROVE  /\ rows \in Seq(S)
         /\ \A p \in S : \E i \in 1..Len(rows) : rows[i] = p
         /\ \A i, j \in 1..Len(rows) : rows[i] = rows[j] => i = j
  <1> DEFINE n == Cardinality(S)
  <1>1. n \in Nat
    BY FS_CardinalityType
  <1>2. rows \in [1..n -> S] /\ \A i, j \in 1..n : i # j => rows[i] # rows[j]
    BY DEF SetToSeqs
  <1>3. rows \in Seq(S) /\ Len(rows) = n
    BY <1>1, <1>2
  <1>4. rows \in Injection(1..n, S)
    BY <1>2 DEF Injection, IsInjective
  <1>5. Cardinality(1..n) = n
    BY <1>1, FS_Interval
  <1>6. rows \in Surjection(1..n, S)
    BY <1>4, <1>5, FS_Injection
  <1>7. \A p \in S : \E i \in 1..n : rows[i] = p
    BY <1>6 DEF Surjection
  <1> QED
    BY <1>2, <1>3, <1>7

-----------------------------------------------------------------------------
(* Type correctness.                                                       *)

\* TypeOK is not inductive: that the earliest day of the rows and the least of
\* the listed ids exist, and that a rename has a name, rests on the goroutine
\* having what its step needs.
InHand(work) ==
  /\ IsFiniteSet(work.rows)
  /\ work.at = "store" => work.rows # {}
  /\ work.at = "write" => work.todo # {}
  /\ work.at \in {"archive", "reject"} => work.name # NoName

TypeInv == TypeOK /\ \A w \in Worker : InHand(worker[w])

LEMMA NoWorkType == NoWork \in Work /\ InHand(NoWork)
  BY FS_EmptySet DEF NoWork, Work, WorkerStep, InHand

\* A step of one goroutine leaves the others with what they have in hand.
LEMMA StepType ==
  ASSUME TypeInv, Ids \subseteq Ids', NEW w \in Worker,
         NEW work \in Work', InHand(work), Step(w, work)
  PROVE  worker' \in [Worker -> Work'] /\ \A v \in Worker : InHand(worker'[v])
  <1>1. worker' = [worker EXCEPT ![w] = work]
    BY DEF Step
  <1>2. worker \in [Worker -> Work]
    BY DEF TypeInv, TypeOK
  <1>3. Work \subseteq Work'
    BY DEF Work
  <1>4. \A v \in Worker : worker'[v] = IF v = w THEN work ELSE worker[v]
    BY <1>1, <1>2
  <1>5. worker' \in [Worker -> Work']
    BY <1>1, <1>2, <1>3
  <1> QED
    BY <1>4, <1>5 DEF TypeInv

\* What TypeOK says of the goroutines' work, field by field.
LEMMA WorkFields ==
  ASSUME TypeOK, NEW w \in Worker
  PROVE  /\ worker[w] \in Work
         /\ worker[w].at \in WorkerStep
         /\ worker[w].name \in FileName \cup {NoName}
         /\ worker[w].rows \subseteq Reading
         /\ worker[w].todo \subseteq Ids
         /\ worker[w].since \in Day \cup {0, WeekStart}
  BY DEF TypeOK, Work

\* The history of the exports keeps its type.
LEMMA ExportedType ==
  ASSUME TypeOK, NEW e \in Export, Exported(e)
  PROVE  current' \subseteq Reading /\ stale' \subseteq Reading
  BY ExportAssumption DEF TypeOK, Exported, Readable

LEMMA DropFileType ==
  ASSUME TypeInv, NEW n \in FileName, NEW e \in Export, DropFile(n, e)
  PROVE  TypeInv'
  <1>1. current' \subseteq Reading /\ stale' \subseteq Reading
    BY ExportedType DEF DropFile, TypeInv
  <1>2. folder' \in [FileName -> Export \cup {NoFile}]
    BY DEF DropFile, TypeInv, TypeOK
  <1>3. UNCHANGED <<archived, rejects, raw, sales, superseded, aliases, daily, loaded,
                    service, worker, faults>>
    BY DEF DropFile, database
  <1>4. Ids' = Ids /\ Work' = Work
    BY <1>3 DEF Ids, Work
  <1> QED
    BY <1>1, <1>2, <1>3, <1>4 DEF TypeInv, TypeOK

LEMMA AddAliasType ==
  ASSUME TypeInv, NEW product \in Product, AddAlias(product)
  PROVE  TypeInv'
  <1>1. aliases' \subseteq Product
    BY DEF AddAlias, TypeInv, TypeOK
  <1>2. UNCHANGED <<folder, archived, rejects, raw, sales, superseded, daily, loaded,
                    service, worker, faults, current, stale>>
    BY DEF AddAlias, files, exports
  <1>3. Ids' = Ids /\ Work' = Work
    BY <1>2 DEF Ids, Work
  <1> QED
    BY <1>1, <1>2, <1>3 DEF TypeInv, TypeOK

LEMMA BeginFileType ==
  ASSUME TypeInv, NEW w \in Worker, NEW n \in FileName, BeginFile(w, n)
  PROVE  TypeInv'
  <1> DEFINE good == Readable(folder[n])
             work == [NoWork EXCEPT !.at = IF good = {} THEN "reject" ELSE "store",
                                    !.name = n, !.rows = good]
  <1>1. folder[n] \in Export
    BY DEF BeginFile, TypeInv, TypeOK
  <1>2. good \subseteq Reading /\ IsFiniteSet(good)
    BY <1>1, ExportAssumption, FS_Difference DEF Readable
  <1>3. UNCHANGED <<folder, archived, raw, sales, superseded, aliases, daily, loaded,
                    service, current, stale>>
    BY DEF BeginFile, database, exports
  <1>4. Ids' = Ids /\ Work' = Work
    BY <1>3 DEF Ids, Work
  <1>5. work \in Work /\ InHand(work)
    <2>1. n # NoName
      BY ExportAssumption
    <2> HIDE DEF good
    <2> QED
      BY <1>2, <2>1 DEF NoWork, Work, WorkerStep, InHand
  <1>6. Step(w, work)
    BY DEF BeginFile
  <1>7. worker' \in [Worker -> Work'] /\ \A v \in Worker : InHand(worker'[v])
    <2> HIDE DEF work
    <2> QED
      BY <1>4, <1>5, <1>6, StepType
  <1>8. rejects' \subseteq Reading /\ faults' \in 0..MaxFaults
    BY <1>1, ExportAssumption, BoundAssumption
    DEF BeginFile, HandBack, MayFault, TypeInv, TypeOK
  <1> QED
    BY <1>3, <1>4, <1>7, <1>8 DEF TypeInv, TypeOK

LEMMA BeginUploadType ==
  ASSUME TypeInv, NEW w \in Worker, NEW e \in Export, BeginUpload(w, e)
  PROVE  TypeInv'
  <1> DEFINE work == [NoWork EXCEPT !.at = "store", !.rows = Readable(e)]
  <1>1. Readable(e) \subseteq Reading /\ IsFiniteSet(Readable(e)) /\ Readable(e) # {}
    BY ExportAssumption, FS_Difference DEF Readable, BeginUpload
  <1>2. UNCHANGED <<folder, archived, rejects, raw, sales, superseded, aliases, daily,
                    loaded, service, faults>>
    BY DEF BeginUpload, database, files
  <1>3. Ids' = Ids /\ Work' = Work
    BY <1>2 DEF Ids, Work
  <1>4. work \in Work /\ InHand(work)
    BY <1>1 DEF NoWork, Work, WorkerStep, InHand
  <1>5. Step(w, work)
    BY DEF BeginUpload
  <1>6. worker' \in [Worker -> Work'] /\ \A v \in Worker : InHand(worker'[v])
    <2> HIDE DEF work
    <2> QED
      BY <1>3, <1>4, <1>5, StepType
  <1>7. current' \subseteq Reading /\ stale' \subseteq Reading
    BY ExportedType DEF BeginUpload, TypeInv
  <1> QED
    BY <1>2, <1>3, <1>6, <1>7 DEF TypeInv, TypeOK

\* An import's first refresh starts at the normalizer.
LEMMA ListWorkType ==
  ASSUME NEW since \in {WeekStart, 0}
  PROVE  /\ [NoWork EXCEPT !.at = "reload", !.since = since] \in Work
         /\ InHand([NoWork EXCEPT !.at = "reload", !.since = since])
  BY FS_EmptySet DEF NoWork, Work, WorkerStep, InHand

LEMMA BeginRefreshType ==
  ASSUME TypeInv, NEW w \in Worker, BeginRefresh(w)
  PROVE  TypeInv'
  <1>1. UNCHANGED <<folder, archived, rejects, raw, sales, superseded, aliases, daily,
                    loaded, service, faults, current, stale>>
    BY DEF BeginRefresh, database, files, exports
  <1>2. Ids' = Ids /\ Work' = Work
    BY <1>1 DEF Ids, Work
  <1>3. Step(w, [NoWork EXCEPT !.at = "reload", !.since = WeekStart])
    BY DEF BeginRefresh
  <1>4. worker' \in [Worker -> Work'] /\ \A v \in Worker : InHand(worker'[v])
    BY <1>2, <1>3, ListWorkType, StepType
  <1> QED
    BY <1>1, <1>2, <1>4 DEF TypeInv, TypeOK

LEMMA StartCoreType ==
  ASSUME TypeInv, StartCore
  PROVE  TypeInv'
  <1>1. UNCHANGED <<folder, archived, rejects, raw, sales, superseded, aliases, daily,
                    loaded, faults, current, stale>>
    BY DEF StartCore, database, files, exports
  <1>2. Ids' = Ids /\ Work' = Work
    BY <1>1 DEF Ids, Work
  <1>3. PICK since \in {WeekStart, 0} :
          Step("refresh", [NoWork EXCEPT !.at = "reload", !.since = since])
    BY DEF StartCore
  <1>4. worker' \in [Worker -> Work'] /\ \A v \in Worker : InHand(worker'[v])
    <2>1. "refresh" \in Worker
      BY DEF StartCore
    <2> QED
      BY <1>2, <1>3, <2>1, ListWorkType, StepType
  <1>5. service' \in {"down", "starting", "up"}
    BY DEF StartCore
  <1> QED
    BY <1>1, <1>2, <1>4, <1>5 DEF TypeInv, TypeOK

\* Appending new rows keeps the ids of the old ones and adds no row twice.
LEMMA AppendRows ==
  ASSUME TypeOK, NEW batch \in SUBSET Reading, IsFiniteSet(batch),
         batch \cap Stored = {}, NEW rows \in SetToSeqs(batch), raw' = raw \o rows
  PROVE  /\ raw' \in Seq(Reading)
         /\ Ids \subseteq Ids' /\ \A i \in Ids : raw'[i] = raw[i]
         /\ \A i, j \in Ids' : raw'[i] = raw'[j] => i = j
         /\ Stored \cup batch \subseteq Stored'
  <1>1. /\ rows \in Seq(batch)
        /\ \A p \in batch : \E i \in 1..Len(rows) : rows[i] = p
        /\ \A i, j \in 1..Len(rows) : rows[i] = rows[j] => i = j
    BY OrderNamesAll
  <1>2. raw \in Seq(Reading) /\ rows \in Seq(Reading)
    BY <1>1 DEF TypeOK
  <1>3. /\ raw' \in Seq(Reading) /\ Len(raw') = Len(raw) + Len(rows)
        /\ \A i \in 1..Len(raw) : raw'[i] = raw[i]
        /\ \A i \in 1..Len(rows) : raw'[Len(raw) + i] = rows[i]
    BY <1>2
  <1>4. Len(raw) \in Nat /\ Len(rows) \in Nat
    BY <1>2
  <1>5. Ids \subseteq Ids' /\ \A i \in Ids : raw'[i] = raw[i]
    BY <1>3, <1>4 DEF Ids
  <1>6. \A i \in 1..Len(rows) : rows[i] \in batch
    BY <1>1
  <1>7. ASSUME NEW i \in Ids', NEW j \in Ids', raw'[i] = raw'[j]
        PROVE  i = j
    <2>1. CASE i \in Ids /\ j \in Ids
      BY <1>5, <1>7, <2>1 DEF TypeOK
    <2>2. ASSUME NEW k \in Ids' \ Ids
          PROVE  k - Len(raw) \in 1..Len(rows) /\ raw'[k] = rows[k - Len(raw)]
      <3>1. k \in Nat /\ k > Len(raw) /\ k <= Len(raw) + Len(rows)
        BY <1>3, <1>4 DEF Ids
      <3>2. k - Len(raw) \in 1..Len(rows) /\ k = Len(raw) + (k - Len(raw))
        BY <1>4, <3>1
      <3> QED
        BY <1>3, <3>2
    <2>3. ASSUME NEW k \in Ids' \ Ids
          PROVE  raw'[k] \in batch
      BY <1>6, <2>2
    <2>4. ASSUME NEW k \in Ids
          PROVE  raw'[k] \notin batch
      BY <1>5 DEF Stored
    <2>5. CASE i \notin Ids /\ j \notin Ids
      <3>1. rows[i - Len(raw)] = rows[j - Len(raw)]
        BY <1>7, <2>2, <2>5
      <3>2. i - Len(raw) = j - Len(raw)
        BY <1>1, <2>2, <2>5, <3>1
      <3> QED
        BY <1>3, <1>4, <3>2 DEF Ids
    <2> QED
      BY <1>7, <2>1, <2>3, <2>4, <2>5
  <1>8. Stored \subseteq Stored'
    BY <1>5 DEF Stored
  <1>9. ASSUME NEW p \in batch PROVE p \in Stored'
    <2>1. PICK i \in 1..Len(rows) : rows[i] = p
      BY <1>1
    <2>2. Len(raw) + i \in Ids' /\ raw'[Len(raw) + i] = p
      BY <1>3, <1>4, <2>1 DEF Ids
    <2> QED
      BY <2>2 DEF Stored
  <1> QED
    BY <1>3, <1>5, <1>7, <1>8, <1>9

\* WriteRawTransactions only adds rows, and when it has done its last lane every
\* row the goroutine has in hand is stored.
LEMMA StoreLaneStores ==
  ASSUME TypeInv, NEW w \in Worker, StoreLane(w)
  PROVE  /\ raw' \in Seq(Reading)
         /\ Ids \subseteq Ids' /\ \A i \in Ids : raw'[i] = raw[i]
         /\ \A i, j \in Ids' : raw'[i] = raw'[j] => i = j
         /\ Stored \subseteq Stored'
         /\ \/ Step(w, worker[w])
            \/ /\ worker[w].rows \subseteq Stored'
               /\ Step(w, [worker[w] EXCEPT !.at = "reload",
                                            !.since = Earliest(worker[w].rows)])
  <1> DEFINE new == worker[w].rows \ Stored
             stored == [worker[w] EXCEPT !.at = "reload",
                                         !.since = Earliest(worker[w].rows)]
  <1>1. CASE new = {} /\ Step(w, stored) /\ UNCHANGED raw
    <2>1. Ids' = Ids /\ Stored' = Stored
      BY <1>1 DEF Ids, Stored
    <2> QED
      BY <1>1, <2>1 DEF TypeInv, TypeOK
  <1>2. ASSUME NEW lane \in {p.lane : p \in new},
               NEW rows \in SetToSeqs({p \in new : p.lane = lane}), raw' = raw \o rows,
               Step(w, IF {p \in new : p.lane = lane} = new THEN stored ELSE worker[w])
        PROVE  /\ raw' \in Seq(Reading)
               /\ Ids \subseteq Ids' /\ \A i \in Ids : raw'[i] = raw[i]
               /\ \A i, j \in Ids' : raw'[i] = raw'[j] => i = j
               /\ Stored \subseteq Stored'
               /\ \/ Step(w, worker[w])
                  \/ worker[w].rows \subseteq Stored' /\ Step(w, stored)
    <2> DEFINE batch == {p \in new : p.lane = lane}
    <2>1. batch \in SUBSET Reading /\ batch \cap Stored = {}
      BY WorkFields DEF TypeInv
    <2>2. IsFiniteSet(batch)
      BY FS_Subset DEF TypeInv, InHand
    <2>3. /\ raw' \in Seq(Reading)
          /\ Ids \subseteq Ids' /\ \A i \in Ids : raw'[i] = raw[i]
          /\ \A i, j \in Ids' : raw'[i] = raw'[j] => i = j
          /\ Stored \cup batch \subseteq Stored'
      <3> HIDE DEF batch
      <3>1. rows \in SetToSeqs(batch)
        BY DEF batch
      <3> QED
        BY <1>2, <2>1, <2>2, <3>1, AppendRows DEF TypeInv
    <2>4. CASE batch = new
      <3>1. worker[w].rows \subseteq Stored'
        BY <2>3, <2>4
      <3>2. Step(w, stored)
        BY <1>2, <2>4
      <3> QED
        BY <2>3, <3>1, <3>2
    <2>5. CASE batch # new
      <3>1. Step(w, worker[w])
        BY <1>2, <2>5
      <3> QED
        BY <2>3, <3>1
    <2> QED
      BY <2>4, <2>5
  <1> QED
    BY <1>1, <1>2 DEF StoreLane

LEMMA StoreLaneType ==
  ASSUME TypeInv, NEW w \in Worker, StoreLane(w)
  PROVE  TypeInv'
  <1> DEFINE rows == worker[w].rows
             stored == [worker[w] EXCEPT !.at = "reload", !.since = Earliest(rows)]
  <1>1. UNCHANGED <<folder, archived, rejects, sales, superseded, aliases, daily,
                    loaded, service, faults, current, stale>>
    BY DEF StoreLane, files, exports
  <1>2. /\ raw' \in Seq(Reading) /\ Ids \subseteq Ids'
        /\ \A i, j \in Ids' : raw'[i] = raw'[j] => i = j
        /\ Step(w, worker[w]) \/ Step(w, stored)
    BY StoreLaneStores
  <1>3. Earliest(rows) \in Day
    <2>1. rows \subseteq Reading /\ rows # {}
      BY WorkFields DEF StoreLane, TypeInv, InHand
    <2> DEFINE days == {p.day : p \in rows}
    <2>2. days \in SUBSET Nat /\ days # {} /\ days \subseteq Day
      BY <2>1, ReadingAssumption DEF Day
    <2>3. Min(days) \in days
      <3> HIDE DEF days
      <3> QED
        BY <2>2, MinIsMember
    <2> QED
      BY <2>2, <2>3 DEF Earliest
  <1>4. worker[w] \in Work' /\ InHand(worker[w])
    BY <1>2 DEF TypeInv, TypeOK, Work
  <1>5. stored \in Work' /\ InHand(stored)
    <2> HIDE DEF rows
    <2>1. stored \in Work'
      BY <1>3, <1>4 DEF Work, WorkerStep
    <2>2. InHand(stored)
      BY <1>4 DEF InHand, Work
    <2> QED
      BY <2>1, <2>2
  <1>6. worker' \in [Worker -> Work'] /\ \A v \in Worker : InHand(worker'[v])
    <2> HIDE DEF stored
    <2> QED
      BY <1>2, <1>4, <1>5, StepType
  <1>7. daily' \in [Group -> SUBSET Ids']
    BY <1>1, <1>2 DEF TypeInv, TypeOK
  <1>8. sales' \subseteq Ids' /\ superseded' \subseteq Ids'
    BY <1>1, <1>2 DEF TypeInv, TypeOK
  <1> QED
    BY <1>1, <1>2, <1>6, <1>7, <1>8 DEF TypeInv, TypeOK

LEMMA ReloadAliasesType ==
  ASSUME TypeInv, NEW w \in Worker, ReloadAliases(w)
  PROVE  TypeInv'
  <1> DEFINE work == [worker[w] EXCEPT !.at = "list"]
  <1>1. UNCHANGED <<folder, archived, rejects, raw, sales, superseded, aliases, daily,
                    service, faults, current, stale>>
    BY DEF ReloadAliases, database, files, exports
  <1>2. Ids' = Ids /\ Work' = Work
    BY <1>1 DEF Ids, Work
  <1>3. work \in Work /\ InHand(work)
    BY WorkFields DEF TypeInv, Work, WorkerStep, InHand
  <1>4. Step(w, work)
    BY DEF ReloadAliases
  <1>5. worker' \in [Worker -> Work'] /\ \A v \in Worker : InHand(worker'[v])
    <2> HIDE DEF work
    <2> QED
      BY <1>2, <1>3, <1>4, StepType
  <1>6. loaded' \subseteq Product
    BY DEF ReloadAliases, TypeInv, TypeOK
  <1> QED
    BY <1>1, <1>2, <1>5, <1>6 DEF TypeInv, TypeOK

LEMMA ListUnresolvedType ==
  ASSUME TypeInv, NEW w \in Worker, ListUnresolved(w)
  PROVE  TypeInv'
  <1> DEFINE work == [worker[w] EXCEPT !.at = IF Unresolved = {} THEN "mart" ELSE "write",
                                       !.todo = Unresolved]
  <1>1. UNCHANGED <<folder, archived, rejects, raw, sales, superseded, aliases, daily,
                    service, faults, current, stale>>
    BY DEF ListUnresolved, database, files, exports
  <1>2. Ids' = Ids /\ Work' = Work
    BY <1>1 DEF Ids, Work
  <1>3. Unresolved \subseteq Ids
    BY DEF Unresolved
  <1>4. work \in Work /\ InHand(work)
    BY <1>3, WorkFields DEF TypeInv, Work, WorkerStep, InHand
  <1>5. Step(w, work)
    BY DEF ListUnresolved
  <1>6. worker' \in [Worker -> Work'] /\ \A v \in Worker : InHand(worker'[v])
    <2> HIDE DEF work
    <2> QED
      BY <1>2, <1>4, <1>5, StepType
  <1>7. loaded' \subseteq Product
    BY DEF ListUnresolved, TypeInv, TypeOK
  <1> QED
    BY <1>1, <1>2, <1>6, <1>7 DEF TypeInv, TypeOK

LEMMA WriteRowType ==
  ASSUME TypeInv, NEW w \in Worker, WriteRow(w)
  PROVE  TypeInv'
  <1> DEFINE id == Min(worker[w].todo)
             rest == worker[w].todo \ {id}
             work == [worker[w] EXCEPT !.at = IF rest = {} THEN "mart" ELSE "write",
                                       !.todo = rest]
  <1>1. UNCHANGED <<folder, archived, rejects, raw, aliases, daily, loaded, service,
                    faults, current, stale>>
    BY DEF WriteRow, files, exports
  <1>2. Ids' = Ids /\ Work' = Work
    BY <1>1 DEF Ids, Work
  <1>3. id \in Ids
    <2>1. worker[w].todo \subseteq Ids /\ worker[w].todo # {}
      BY WorkFields DEF WriteRow, TypeInv, InHand
    <2>2. worker[w].todo \in SUBSET Nat
      BY <2>1 DEF Ids
    <2> QED
      BY <2>1, <2>2, MinIsMember
  <1>4. sales' \subseteq Ids /\ superseded' \subseteq Ids
    <2>1. WriteNormalized(id) \/ UNCHANGED <<sales, superseded>>
      BY DEF WriteRow
    <2> HIDE DEF id
    <2> QED
      BY <1>3, <2>1 DEF WriteNormalized, TypeInv, TypeOK
  <1>5. work \in Work /\ InHand(work)
    <2>1. rest \subseteq Ids
      BY WorkFields DEF TypeInv
    <2> HIDE DEF rest
    <2> QED
      BY <2>1, WorkFields DEF TypeInv, Work, WorkerStep, InHand
  <1>6. Step(w, work)
    BY DEF WriteRow
  <1>7. worker' \in [Worker -> Work'] /\ \A v \in Worker : InHand(worker'[v])
    <2> HIDE DEF work
    <2> QED
      BY <1>2, <1>5, <1>6, StepType
  <1> QED
    BY <1>1, <1>2, <1>4, <1>7 DEF TypeInv, TypeOK

\* A refresh leaves rows of daily_sales that range over raw rows.
LEMMA RefreshType ==
  ASSUME TypeOK, NEW since, Refresh(since)
  PROVE  daily' \in [Group -> SUBSET Ids]
  <1>1. \A g \in Group : Counted(g) \subseteq Ids
    BY DEF Counted, TypeOK
  <1> QED
    BY <1>1 DEF Refresh, TypeOK

LEMMA AfterMartType ==
  ASSUME TypeInv, Ids' = Ids, NEW w \in Worker, AfterMart(w)
  PROVE  worker' \in [Worker -> Work'] /\ \A v \in Worker : InHand(worker'[v])
  <1>1. Work' = Work
    BY DEF Work
  <1>2. CASE worker[w].name # NoName
    <2> DEFINE work == [worker[w] EXCEPT !.at = "archive"]
    <2>1. Step(w, work)
      BY <1>2 DEF AfterMart
    <2>2. work \in Work /\ InHand(work)
      BY <1>2, WorkFields DEF TypeInv, Work, WorkerStep, InHand
    <2> HIDE DEF work
    <2> QED
      BY <1>1, <2>1, <2>2, StepType
  <1>3. CASE worker[w].name = NoName /\ w = "web"
    <2> DEFINE work == [worker[w] EXCEPT !.at = "again"]
    <2>1. Step(w, work)
      BY <1>3 DEF AfterMart
    <2>2. work \in Work /\ InHand(work)
      BY <1>3, WorkFields DEF TypeInv, Work, WorkerStep, InHand
    <2> HIDE DEF work
    <2> QED
      BY <1>1, <2>1, <2>2, StepType
  <1>4. CASE worker[w].name = NoName /\ w # "web"
    <2>1. Step(w, NoWork)
      BY <1>4 DEF AfterMart
    <2> QED
      BY <1>1, <2>1, NoWorkType, StepType
  <1> QED
    BY <1>2, <1>3, <1>4

LEMMA MaterializeType ==
  ASSUME TypeInv, NEW w \in Worker, Materialize(w)
  PROVE  TypeInv'
  <1>1. UNCHANGED <<folder, archived, rejects, raw, sales, superseded, aliases, loaded,
                    faults, current, stale>>
    BY DEF Materialize, files, exports
  <1>2. Ids' = Ids /\ Work' = Work
    BY <1>1 DEF Ids, Work
  <1>3. daily' \in [Group -> SUBSET Ids]
    BY RefreshType DEF Materialize, TypeInv
  <1>4. worker' \in [Worker -> Work'] /\ \A v \in Worker : InHand(worker'[v])
    BY <1>2, AfterMartType DEF Materialize
  <1>5. service' \in {"down", "starting", "up"}
    BY DEF Materialize, TypeInv, TypeOK
  <1> QED
    BY <1>1, <1>2, <1>3, <1>4, <1>5 DEF TypeInv, TypeOK

\* A goroutine that goes idle.
LEMMA IdleType ==
  ASSUME TypeInv, Ids' = Ids, NEW w \in Worker, Step(w, NoWork)
  PROVE  worker' \in [Worker -> Work'] /\ \A v \in Worker : InHand(worker'[v])
  <1>1. Work' = Work
    BY DEF Work
  <1> QED
    BY <1>1, NoWorkType, StepType

LEMMA MaterializeAgainType ==
  ASSUME TypeInv, NEW w \in Worker, MaterializeAgain(w)
  PROVE  TypeInv'
  <1>1. UNCHANGED <<folder, archived, rejects, raw, sales, superseded, aliases, loaded,
                    service, faults, current, stale>>
    BY DEF MaterializeAgain, files, exports
  <1>2. Ids' = Ids /\ Work' = Work
    BY <1>1 DEF Ids, Work
  <1>3. daily' \in [Group -> SUBSET Ids]
    BY RefreshType DEF MaterializeAgain, TypeInv
  <1>4. worker' \in [Worker -> Work'] /\ \A v \in Worker : InHand(worker'[v])
    BY <1>2, IdleType DEF MaterializeAgain
  <1> QED
    BY <1>1, <1>2, <1>3, <1>4 DEF TypeInv, TypeOK

LEMMA MoveAwayType ==
  ASSUME TypeInv, NEW w \in Worker, NEW at \in {"archive", "reject"}, MoveAway(w, at),
         rejects' = rejects \/ rejects' = rejects \cup folder[worker[w].name]
  PROVE  TypeInv'
  <1>1. UNCHANGED <<raw, sales, superseded, aliases, daily, loaded, service, faults,
                    current, stale>>
    BY DEF MoveAway, database, exports
  <1>2. Ids' = Ids /\ Work' = Work
    BY <1>1 DEF Ids, Work
  <1>3. worker[w].name \in FileName
    BY WorkFields DEF MoveAway, TypeInv, InHand
  <1>4. folder[worker[w].name] \subseteq Reading
    BY <1>3, ExportAssumption DEF TypeInv, TypeOK, NoFile
  <1>5. folder' \in [FileName -> Export \cup {NoFile}]
    BY <1>3 DEF MoveAway, TypeInv, TypeOK
  <1>6. archived' \subseteq Reading /\ rejects' \subseteq Reading
    BY <1>4 DEF MoveAway, TypeInv, TypeOK
  <1>7. worker' \in [Worker -> Work'] /\ \A v \in Worker : InHand(worker'[v])
    BY <1>2, IdleType DEF MoveAway
  <1> QED
    BY <1>1, <1>2, <1>5, <1>6, <1>7 DEF TypeInv, TypeOK

LEMMA CrashType ==
  ASSUME TypeInv, Crash
  PROVE  TypeInv'
  <1>1. UNCHANGED <<folder, archived, rejects, raw, sales, superseded, aliases, daily,
                    current, stale>>
    BY DEF Crash, files, database, exports
  <1>2. Ids' = Ids /\ Work' = Work
    BY <1>1 DEF Ids, Work
  <1>3. worker' = [w \in Worker |-> NoWork] /\ loaded' = {} /\ service' = "down"
    BY DEF Crash
  <1>4. worker' \in [Worker -> Work'] /\ \A v \in Worker : InHand(worker'[v])
    BY <1>2, <1>3, NoWorkType
  <1>5. faults' \in 0..MaxFaults
    BY BoundAssumption DEF Crash, MayFault, TypeInv, TypeOK
  <1> QED
    BY <1>1, <1>2, <1>3, <1>4, <1>5 DEF TypeInv, TypeOK

LEMMA StorageErrorType ==
  ASSUME TypeInv, NEW w \in Worker, StorageError(w)
  PROVE  TypeInv'
  <1>1. UNCHANGED <<folder, archived, rejects, raw, sales, superseded, aliases, daily,
                    loaded, current, stale>>
    BY DEF StorageError, files, database, exports
  <1>2. Ids' = Ids /\ Work' = Work
    BY <1>1 DEF Ids, Work
  <1>3. faults' \in 0..MaxFaults
    BY BoundAssumption DEF StorageError, MayFault, TypeInv, TypeOK
  <1>4. service' \in {"down", "starting", "up"}
    BY DEF StorageError, TypeInv, TypeOK
  <1>5. worker' \in [Worker -> Work'] /\ \A v \in Worker : InHand(worker'[v])
    <2>1. CASE Step(w, NoWork)
      BY <1>2, <2>1, IdleType
    <2>2. CASE Step(w, [worker[w] EXCEPT !.at = "mart", !.todo = {}])
      <3>1. /\ [worker[w] EXCEPT !.at = "mart", !.todo = {}] \in Work'
            /\ InHand([worker[w] EXCEPT !.at = "mart", !.todo = {}])
        BY <1>2, WorkFields DEF TypeInv, Work, WorkerStep, InHand
      <3> QED
        BY <1>2, <2>2, <3>1, StepType
    <2>3. CASE AfterMart(w)
      BY <1>2, <2>3, AfterMartType
    <2> QED
      BY <2>1, <2>2, <2>3 DEF StorageError
  <1> QED
    BY <1>1, <1>2, <1>3, <1>4, <1>5 DEF TypeInv, TypeOK

LEMMA TypeInvInductive ==
  ASSUME TypeInv, [Next]_vars
  PROVE  TypeInv'
  <1>1. CASE UNCHANGED vars
    <2>1. UNCHANGED <<folder, archived, rejects, raw, sales, superseded, aliases, daily,
                      loaded, service, worker, faults, current, stale>>
      BY <1>1 DEF vars, files, database, exports
    <2>2. Ids' = Ids /\ Work' = Work
      BY <2>1 DEF Ids, Work
    <2> QED
      BY <2>1, <2>2 DEF TypeInv, TypeOK
  <1>2. ASSUME NEW n \in FileName, NEW e \in Export, DropFile(n, e)
        PROVE  TypeInv'
    BY <1>2, DropFileType
  <1>3. ASSUME NEW product \in Product, AddAlias(product)
        PROVE  TypeInv'
    BY <1>3, AddAliasType
  <1>4. CASE StartCore
    BY <1>4, StartCoreType
  <1>5. CASE Crash
    BY <1>5, CrashType
  <1>6. ASSUME NEW w \in Worker, NEW n \in FileName, BeginFile(w, n)
        PROVE  TypeInv'
    BY <1>6, BeginFileType
  <1>7. ASSUME NEW w \in Worker, NEW e \in Export, BeginUpload(w, e)
        PROVE  TypeInv'
    BY <1>7, BeginUploadType
  <1>8. ASSUME NEW w \in Worker, BeginRefresh(w)
        PROVE  TypeInv'
    BY <1>8, BeginRefreshType
  <1>9. ASSUME NEW w \in Worker, Ingesting(w)
        PROVE  TypeInv'
    <2>1. CASE StoreLane(w)
      BY <2>1, StoreLaneType
    <2>2. CASE ListUnresolved(w)
      BY <2>2, ListUnresolvedType
    <2>3. CASE WriteRow(w)
      BY <2>3, WriteRowType
    <2>4. CASE Materialize(w)
      BY <2>4, MaterializeType
    <2>5. CASE MaterializeAgain(w)
      BY <2>5, MaterializeAgainType
    <2>6. CASE Archive(w)
      BY <2>6, MoveAwayType DEF Archive
    <2>7. CASE RejectFile(w)
      BY <2>7, MoveAwayType DEF RejectFile
    <2>8. CASE ReloadAliases(w)
      BY <2>8, ReloadAliasesType
    <2> QED
      BY <1>9, <2>1, <2>2, <2>3, <2>4, <2>5, <2>6, <2>7, <2>8 DEF Ingesting
  <1>10. ASSUME NEW w \in Worker, StorageError(w)
         PROVE  TypeInv'
    BY <1>10, StorageErrorType
  <1> QED
    BY <1>1, <1>2, <1>3, <1>4, <1>5, <1>6, <1>7, <1>8, <1>9, <1>10 DEF Next

LEMMA TypeInvInit ==
  ASSUME Init
  PROVE  TypeInv
  <1>1. Ids = {}
    BY DEF Init, Ids
  <1>2. worker \in [Worker -> Work] /\ \A w \in Worker : InHand(worker[w])
    BY NoWorkType DEF Init
  <1>3. daily \in [Group -> SUBSET Ids]
    BY DEF Init
  <1>4. raw \in Seq(Reading)
    BY DEF Init
  <1> QED
    BY <1>1, <1>2, <1>3, <1>4, ReadingAssumption, BoundAssumption DEF Init, TypeInv, TypeOK

\* Every variable of the pipeline keeps its type, and no payload is stored twice.
THEOREM TypeCorrect == Spec => []TypeOK
  <1>1. Init => TypeInv
    BY TypeInvInit
  <1>2. TypeInv /\ [Next]_vars => TypeInv'
    BY TypeInvInductive
  <1>3. TypeInv => TypeOK
    BY DEF TypeInv
  <1> QED
    BY <1>1, <1>2, <1>3, PTL DEF Spec

-----------------------------------------------------------------------------
(* No sale vanishes, and none is counted twice.                            *)

\* What a step may do to the raw layer, to transactions and to daily_sales.
LEMMA DatabaseSteps ==
  ASSUME TypeInv, [Next]_vars
  PROVE  \/ UNCHANGED <<raw, sales, superseded, daily>>
         \/ \E w \in Worker : StoreLane(w)
         \/ \E w \in Worker : WriteRow(w)
         \/ \E since : Refresh(since) /\ UNCHANGED <<raw, sales, superseded>>
  <1>1. CASE UNCHANGED vars
    BY <1>1 DEF vars, database
  <1>2. ASSUME NEW n \in FileName, NEW e \in Export, DropFile(n, e)
        PROVE  UNCHANGED <<raw, sales, superseded, daily>>
    BY <1>2 DEF DropFile, database
  <1>3. ASSUME NEW product \in Product, AddAlias(product)
        PROVE  UNCHANGED <<raw, sales, superseded, daily>>
    BY <1>3 DEF AddAlias
  <1>4. CASE StartCore \/ Crash
    BY <1>4 DEF StartCore, Crash, database
  <1>5. ASSUME NEW w \in Worker,
               \/ \E n \in FileName : BeginFile(w, n)
               \/ \E e \in Export : BeginUpload(w, e)
               \/ BeginRefresh(w) \/ StorageError(w) \/ ReloadAliases(w)
               \/ ListUnresolved(w) \/ Archive(w) \/ RejectFile(w)
        PROVE  UNCHANGED <<raw, sales, superseded, daily>>
    BY <1>5 DEF BeginFile, BeginUpload, BeginRefresh, StorageError, ReloadAliases,
                ListUnresolved, Archive, RejectFile, MoveAway, database
  <1>6. ASSUME NEW w \in Worker, Materialize(w) \/ MaterializeAgain(w)
        PROVE  \E since : Refresh(since) /\ UNCHANGED <<raw, sales, superseded>>
    BY <1>6 DEF Materialize, MaterializeAgain
  <1> QED
    BY <1>1, <1>2, <1>3, <1>4, <1>5, <1>6 DEF Next, Ingesting

\* WriteRow takes one of the listed rows.
LEMMA WriteRowWrites ==
  ASSUME TypeInv, NEW w \in Worker, WriteRow(w)
  PROVE  /\ UNCHANGED <<raw, daily>>
         /\ \/ UNCHANGED <<sales, superseded>>
            \/ \E id \in Ids : WriteNormalized(id)
  <1> DEFINE id == Min(worker[w].todo)
  <1>1. worker[w].todo \subseteq Ids /\ worker[w].todo # {}
    BY WorkFields DEF WriteRow, TypeInv, InHand
  <1>2. worker[w].todo \in SUBSET Nat
    BY <1>1 DEF Ids
  <1>3. id \in Ids
    BY <1>1, <1>2, MinIsMember
  <1>4. UNCHANGED <<sales, superseded>> \/ WriteNormalized(id)
    BY DEF WriteRow
  <1> HIDE DEF id
  <1> QED
    BY <1>3, <1>4 DEF WriteRow

LEMMA SaleKeptInductive ==
  ASSUME TypeInv, SaleKept, [Next]_vars
  PROVE  SaleKept'
  <1>1. CASE UNCHANGED <<raw, sales, superseded>>
    BY <1>1 DEF SaleKept
  <1>2. ASSUME NEW w \in Worker, StoreLane(w)
        PROVE  SaleKept'
    <2>1. \A i \in Ids : raw'[i] = raw[i]
      BY <1>2, StoreLaneStores
    <2>2. sales' = sales /\ superseded' = superseded
      BY <1>2 DEF StoreLane
    <2> QED
      BY <2>1, <2>2 DEF SaleKept, TypeInv, TypeOK
  <1>3. ASSUME NEW id \in Ids, WriteNormalized(id), UNCHANGED raw
        PROVE  SaleKept'
    <2> DEFINE same == {s \in sales : SameSale(raw[s], raw[id])}
    <2>1. sales' = (sales \ same) \cup {id} /\ superseded' = superseded \cup (same \ {id})
      BY <1>3 DEF WriteNormalized
    <2>2. ASSUME NEW i \in superseded'
          PROVE  \E s \in sales' : SameSale(raw[s], raw[i])
      <3>1. CASE i \in same
        BY <2>1, <3>1 DEF SameSale
      <3>2. CASE i \in superseded
        <4>1. PICK s \in sales : SameSale(raw[s], raw[i])
          BY <3>2 DEF SaleKept
        <4>2. s \in sales' \/ SameSale(raw[s], raw[id])
          BY <2>1
        <4>3. SameSale(raw[s], raw[id]) => SameSale(raw[id], raw[i])
          BY <4>1 DEF SameSale
        <4> QED
          BY <2>1, <4>1, <4>2, <4>3
      <3> QED
        BY <2>1, <2>2, <3>1, <3>2
    <2> QED
      BY <1>3, <2>2 DEF SaleKept
  <1> QED
    BY <1>1, <1>2, <1>3, DatabaseSteps, WriteRowWrites

\* A correction never makes a sale vanish, whatever goroutines, crashes, storage
\* errors and new aliases come in between: WriteNormalizedTransaction sets a raw
\* row aside only for one of the same sale that is in transactions.
THEOREM CorrectionKeepsSale == Spec => []SaleKept
  <1>1. Init => TypeInv /\ SaleKept
    BY TypeInvInit DEF Init, SaleKept
  <1>2. TypeInv /\ SaleKept /\ [Next]_vars => TypeInv' /\ SaleKept'
    BY TypeInvInductive, SaleKeptInductive
  <1> QED
    BY <1>1, <1>2, PTL DEF Spec

\* A correction is made in place: it changes neither the day nor the product.
InPlace ==
  \A p, q \in Reading : SameSale(p, q) => p.day = q.day /\ p.product = q.product

\* CountedOnce is not inductive: a later refresh counts what transactions hold,
\* so that has one row per sale too, and a row of daily_sales must not keep a
\* sale of another day.
OneRowPerSale == \A s, t \in sales : SameSale(raw[s], raw[t]) => s = t
Booked ==
  \A g \in Group : \A s \in daily[g] :
    GroupOf(s) = g /\ \A t \in daily[g] : SameSale(raw[s], raw[t]) => s = t
BookInv == OneRowPerSale /\ Booked

LEMMA BookInductive ==
  ASSUME TypeInv, BookInv, [Next]_vars
  PROVE  BookInv'
  <1>1. CASE UNCHANGED <<raw, sales, daily>>
    BY <1>1 DEF BookInv, OneRowPerSale, Booked, GroupOf
  <1>2. ASSUME NEW w \in Worker, StoreLane(w)
        PROVE  BookInv'
    <2>1. \A i \in Ids : raw'[i] = raw[i]
      BY <1>2, StoreLaneStores
    <2>2. sales' = sales /\ daily' = daily
      BY <1>2 DEF StoreLane
    <2>3. OneRowPerSale'
      BY <2>1, <2>2 DEF BookInv, OneRowPerSale, TypeInv, TypeOK
    <2>4. \A g \in Group : daily[g] \subseteq Ids
      BY DEF TypeInv, TypeOK
    <2>5. Booked'
      BY <2>1, <2>2, <2>4 DEF BookInv, Booked, GroupOf
    <2> QED
      BY <2>3, <2>5 DEF BookInv
  <1>3. ASSUME NEW id \in Ids, WriteNormalized(id), UNCHANGED <<raw, daily>>
        PROVE  BookInv'
    <2>1. OneRowPerSale'
      BY <1>3 DEF WriteNormalized, BookInv, OneRowPerSale, SameSale
    <2>2. Booked'
      BY <1>3 DEF BookInv, Booked, GroupOf
    <2> QED
      BY <2>1, <2>2 DEF BookInv
  <1>4. ASSUME NEW since, Refresh(since), UNCHANGED <<raw, sales, superseded>>
        PROVE  BookInv'
    <2>1. OneRowPerSale'
      BY <1>4 DEF BookInv, OneRowPerSale
    <2>2. \A g \in Group : daily'[g] = Counted(g) \/ daily'[g] = daily[g]
      BY <1>4 DEF Refresh
    <2>3. \A g \in Group : \A s \in Counted(g) :
            GroupOf(s) = g /\ \A t \in Counted(g) : SameSale(raw[s], raw[t]) => s = t
      BY DEF Counted, BookInv, OneRowPerSale
    <2>4. Booked'
      BY <1>4, <2>2, <2>3 DEF BookInv, Booked, GroupOf
    <2> QED
      BY <2>1, <2>4 DEF BookInv
  <1> QED
    BY <1>1, <1>2, <1>3, <1>4, DatabaseSteps, WriteRowWrites

LEMMA BookedIsCountedOnce ==
  ASSUME InPlace, TypeOK, BookInv
  PROVE  CountedOnce
  <1>1. SUFFICES ASSUME NEW g \in Group, NEW h \in Group,
                        NEW s \in daily[g], NEW t \in daily[h],
                        SameSale(raw[s], raw[t])
                 PROVE  g = h /\ s = t
    BY DEF CountedOnce
  <1>2. raw[s] \in Reading /\ raw[t] \in Reading
    <2>1. s \in Ids /\ t \in Ids
      BY DEF TypeOK
    <2> QED
      BY <2>1 DEF TypeOK, Ids
  <1>3. GroupOf(s) = GroupOf(t)
    BY <1>1, <1>2 DEF InPlace, GroupOf
  <1>4. g = h
    BY <1>3 DEF BookInv, Booked
  <1> QED
    BY <1>1, <1>4 DEF BookInv, Booked

\* If the POS corrects amounts only, the dashboard never counts a sale twice,
\* however many goroutines import and refresh at once and wherever they fail.
THEOREM CountsEachSaleOnce ==
  ASSUME InPlace
  PROVE  Spec => []CountedOnce
  <1>1. Init => TypeInv /\ BookInv
    BY TypeInvInit DEF Init, BookInv, OneRowPerSale, Booked
  <1>2. TypeInv /\ BookInv /\ [Next]_vars => TypeInv' /\ BookInv'
    BY TypeInvInductive, BookInductive
  <1>3. TypeInv /\ BookInv => CountedOnce
    BY BookedIsCountedOnce DEF TypeInv
  <1> QED
    BY <1>1, <1>2, <1>3, PTL DEF Spec

-----------------------------------------------------------------------------
(* Nothing is archived unread.                                             *)

\* ArchivedIsStored is not inductive: past its storing step a goroutine has no
\* row that is not stored, and the file it is going to move still holds the rows
\* it read, those that could not be read being in failed\ already.
Covered(work, f, handed, stored) ==
  /\ work.at # "store" => work.rows \subseteq stored
  /\ work.name # NoName /\ work.at # "reject" =>
       f[work.name] \subseteq work.rows \cup handed

AllCovered == \A w \in Worker : Covered(worker[w], folder, rejects, Stored)
ArchiveInv == ArchivedIsStored /\ AllCovered

\* One goroutine's step keeps all covered when files only leave the folder.
LEMMA StepCovers ==
  ASSUME TypeInv, AllCovered, NEW w \in Worker, NEW work, Step(w, work),
         Stored \subseteq Stored', rejects \subseteq rejects',
         \A n \in FileName : folder'[n] \subseteq folder[n],
         Covered(work, folder', rejects', Stored')
  PROVE  AllCovered'
  <1>1. \A v \in Worker : worker'[v] = IF v = w THEN work ELSE worker[v]
    BY DEF Step, TypeInv, TypeOK
  <1>2. ASSUME NEW v \in Worker, v # w
        PROVE  Covered(worker[v], folder', rejects', Stored')
    <2>1. worker[v].name \in FileName \cup {NoName}
      BY WorkFields DEF TypeInv
    <2>2. Covered(worker[v], folder, rejects, Stored)
      BY DEF AllCovered
    <2> QED
      BY <2>1, <2>2 DEF Covered
  <1> QED
    BY <1>1, <1>2 DEF AllCovered

LEMMA IdleCovers ==
  ASSUME NEW f, NEW handed, NEW stored
  PROVE  Covered(NoWork, f, handed, stored)
  BY DEF Covered, NoWork

\* A step that changes neither file nor raw layer.
LEMMA QuietCovers ==
  ASSUME TypeInv, ArchiveInv, UNCHANGED <<folder, archived, rejects, raw>>,
         NEW w \in Worker, NEW work, Step(w, work),
         Covered(work, folder, rejects, Stored)
  PROVE  ArchiveInv'
  <1>1. Stored' = Stored
    BY DEF Stored, Ids
  <1>2. AllCovered'
    BY <1>1, StepCovers DEF ArchiveInv
  <1> QED
    BY <1>1, <1>2 DEF ArchiveInv, ArchivedIsStored

\* After the mart the goroutine has the rows and the file it had.
LEMMA AfterMartCovers ==
  ASSUME TypeInv, ArchiveInv, UNCHANGED <<folder, archived, rejects, raw>>,
         NEW w \in Worker, worker[w].at = "mart", AfterMart(w)
  PROVE  ArchiveInv'
  <1>1. Covered(worker[w], folder, rejects, Stored) /\ worker[w] \in Work
    BY WorkFields DEF ArchiveInv, AllCovered, TypeInv
  <1>2. ASSUME NEW at \in WorkerStep \ {"store"}
        PROVE  Covered([worker[w] EXCEPT !.at = at], folder, rejects, Stored)
    BY <1>1, <1>2 DEF Covered, Work
  <1>3. CASE worker[w].name # NoName
    BY <1>2, <1>3, QuietCovers DEF AfterMart, WorkerStep
  <1>4. CASE worker[w].name = NoName /\ w = "web"
    BY <1>2, <1>4, QuietCovers DEF AfterMart, WorkerStep
  <1>5. CASE worker[w].name = NoName /\ w # "web"
    BY <1>5, IdleCovers, QuietCovers DEF AfterMart
  <1> QED
    BY <1>3, <1>4, <1>5

LEMMA DropFileCovers ==
  ASSUME ~Rewrite, TypeInv, ArchiveInv, NEW n \in FileName, NEW e \in Export,
         DropFile(n, e)
  PROVE  ArchiveInv'
  <1>1. UNCHANGED <<archived, rejects, raw, worker>> /\ ~Held(n)
    BY DEF DropFile, database
  <1>2. Stored' = Stored
    BY <1>1 DEF Stored, Ids
  <1>3. \A m \in FileName \ {n} : folder'[m] = folder[m]
    BY DEF DropFile, TypeInv, TypeOK
  <1>4. ASSUME NEW w \in Worker
        PROVE  Covered(worker[w], folder', rejects, Stored)
    <2>1. worker[w].name \in (FileName \ {n}) \cup {NoName}
      BY <1>1, WorkFields DEF TypeInv, Held
    <2>2. Covered(worker[w], folder, rejects, Stored)
      BY DEF ArchiveInv, AllCovered
    <2> QED
      BY <1>3, <2>1, <2>2 DEF Covered
  <1> QED
    BY <1>1, <1>2, <1>4 DEF ArchiveInv, AllCovered, ArchivedIsStored

LEMMA BeginFileCovers ==
  ASSUME "rejects" \notin FaultKinds, TypeInv, ArchiveInv, NEW w \in Worker,
         NEW n \in FileName, BeginFile(w, n)
  PROVE  ArchiveInv'
  <1> DEFINE good == Readable(folder[n])
             work == [NoWork EXCEPT !.at = IF good = {} THEN "reject" ELSE "store",
                                    !.name = n, !.rows = good]
  <1>1. UNCHANGED <<folder, archived, raw>>
    BY DEF BeginFile, database
  <1>2. Stored' = Stored /\ rejects \subseteq rejects'
    BY <1>1 DEF Stored, Ids, BeginFile, HandBack
  <1>3. good # {} => folder[n] \subseteq good \cup rejects'
    BY DEF BeginFile, HandBack, MayFault
  <1>4. Covered(work, folder', rejects', Stored')
    <2> HIDE DEF good
    <2> QED
      BY <1>1, <1>3 DEF Covered, NoWork
  <1>5. Step(w, work)
    BY DEF BeginFile
  <1>6. AllCovered'
    <2> HIDE DEF work
    <2> QED
      BY <1>1, <1>2, <1>4, <1>5, StepCovers DEF ArchiveInv
  <1> QED
    BY <1>1, <1>2, <1>6 DEF ArchiveInv, ArchivedIsStored

LEMMA StoreLaneCovers ==
  ASSUME TypeInv, ArchiveInv, NEW w \in Worker, StoreLane(w)
  PROVE  ArchiveInv'
  <1> DEFINE stored == [worker[w] EXCEPT !.at = "reload",
                                         !.since = Earliest(worker[w].rows)]
  <1>1. UNCHANGED <<folder, archived, rejects>> /\ worker[w].at = "store"
    BY DEF StoreLane, files
  <1>2. /\ Stored \subseteq Stored'
        /\ \/ Step(w, worker[w])
           \/ worker[w].rows \subseteq Stored' /\ Step(w, stored)
    BY StoreLaneStores
  <1>3. Covered(worker[w], folder, rejects, Stored) /\ worker[w] \in Work
    BY WorkFields DEF ArchiveInv, AllCovered, TypeInv
  <1>4. CASE Step(w, worker[w])
    <2>1. Covered(worker[w], folder', rejects', Stored')
      BY <1>1, <1>3 DEF Covered
    <2> QED
      BY <1>1, <1>2, <1>4, <2>1, StepCovers DEF ArchiveInv, ArchivedIsStored
  <1>5. CASE worker[w].rows \subseteq Stored' /\ Step(w, stored)
    <2>1. Covered(stored, folder', rejects', Stored')
      BY <1>1, <1>3, <1>5 DEF Covered, Work
    <2>2. AllCovered'
      <3> HIDE DEF stored
      <3> QED
        BY <1>1, <1>2, <1>5, <2>1, StepCovers DEF ArchiveInv
    <2> QED
      BY <1>1, <1>2, <2>2 DEF ArchiveInv, ArchivedIsStored
  <1> QED
    BY <1>2, <1>4, <1>5

LEMMA WriteRowCovers ==
  ASSUME TypeInv, ArchiveInv, NEW w \in Worker,
         ReloadAliases(w) \/ ListUnresolved(w) \/ WriteRow(w)
  PROVE  ArchiveInv'
  <1>1. UNCHANGED <<folder, archived, rejects, raw>>
    BY DEF ReloadAliases, ListUnresolved, WriteRow, files, database
  <1>2. Covered(worker[w], folder, rejects, Stored) /\ worker[w] \in Work
    BY WorkFields DEF ArchiveInv, AllCovered, TypeInv
  <1>3. worker[w].at \in {"reload", "list", "write"}
    BY DEF ReloadAliases, ListUnresolved, WriteRow
  <1>4. ASSUME NEW at \in {"write", "mart"}, NEW todo
        PROVE  Covered([worker[w] EXCEPT !.at = at, !.todo = todo], folder, rejects, Stored)
    BY <1>2, <1>3 DEF Covered, Work
  <1>5. CASE ListUnresolved(w) \/ WriteRow(w)
    <2>1. PICK at \in {"write", "mart"},
               todo \in {Unresolved, worker[w].todo \ {Min(worker[w].todo)}} :
            Step(w, [worker[w] EXCEPT !.at = at, !.todo = todo])
      BY <1>5 DEF ListUnresolved, WriteRow
    <2> QED
      BY <1>1, <1>4, <2>1, QuietCovers
  <1>6. CASE ReloadAliases(w)
    <2>1. Covered([worker[w] EXCEPT !.at = "list"], folder, rejects, Stored)
      BY <1>2, <1>3 DEF Covered, Work
    <2> QED
      BY <1>1, <1>6, <2>1, QuietCovers DEF ReloadAliases
  <1> QED
    BY <1>5, <1>6

LEMMA MoveAwayCovers ==
  ASSUME TypeInv, ArchiveInv, NEW w \in Worker, Archive(w) \/ RejectFile(w)
  PROVE  ArchiveInv'
  <1> DEFINE n == worker[w].name
  <1>1. UNCHANGED raw /\ Step(w, NoWork)
    BY DEF Archive, RejectFile, MoveAway, database
  <1>2. Stored' = Stored
    BY <1>1 DEF Stored, Ids
  <1>3. n \in FileName
    BY WorkFields DEF Archive, RejectFile, MoveAway, TypeInv, InHand
  <1>4. folder' = [folder EXCEPT ![n] = NoFile] /\ archived' = archived \cup folder[n]
    BY DEF Archive, RejectFile, MoveAway
  <1>5. \A m \in FileName : folder'[m] \subseteq folder[m]
    BY <1>3, <1>4 DEF TypeInv, TypeOK, NoFile
  <1>6. rejects \subseteq rejects'
    BY DEF Archive, RejectFile
  <1>7. AllCovered'
    BY <1>1, <1>2, <1>5, <1>6, IdleCovers, StepCovers DEF ArchiveInv
  <1>8. folder[n] \subseteq Stored \cup rejects'
    <2>1. CASE Archive(w)
      <3>1. worker[w].at = "archive" /\ n # NoName
        BY <2>1 DEF Archive, MoveAway, TypeInv, InHand
      <3>2. Covered(worker[w], folder, rejects, Stored)
        BY DEF ArchiveInv, AllCovered
      <3> QED
        BY <1>6, <3>1, <3>2 DEF Covered
    <2>2. CASE RejectFile(w)
      BY <2>2 DEF RejectFile
    <2> QED
      BY <2>1, <2>2
  <1> QED
    BY <1>2, <1>4, <1>6, <1>7, <1>8 DEF ArchiveInv, ArchivedIsStored

LEMMA StorageErrorCovers ==
  ASSUME TypeInv, ArchiveInv, NEW w \in Worker, StorageError(w)
  PROVE  ArchiveInv'
  <1>1. UNCHANGED <<folder, archived, rejects, raw>>
    BY DEF StorageError, files, database
  <1>2. CASE Step(w, NoWork)
    BY <1>1, <1>2, IdleCovers, QuietCovers
  <1>3. CASE /\ worker[w].at \in {"reload", "list", "write"}
             /\ Step(w, [worker[w] EXCEPT !.at = "mart", !.todo = {}])
    <2>1. Covered(worker[w], folder, rejects, Stored) /\ worker[w] \in Work
      BY WorkFields DEF ArchiveInv, AllCovered, TypeInv
    <2>2. Covered([worker[w] EXCEPT !.at = "mart", !.todo = {}], folder, rejects, Stored)
      BY <1>3, <2>1 DEF Covered, Work
    <2> QED
      BY <1>1, <1>3, <2>2, QuietCovers
  <1>4. CASE worker[w].at = "mart" /\ AfterMart(w)
    BY <1>1, <1>4, AfterMartCovers
  <1> QED
    BY <1>2, <1>3, <1>4 DEF StorageError

LEMMA ArchiveInductive ==
  ASSUME ~Rewrite, "rejects" \notin FaultKinds, TypeInv, ArchiveInv, [Next]_vars
  PROVE  ArchiveInv'
  <1>1. CASE UNCHANGED <<folder, archived, rejects, raw, worker>>
    BY <1>1 DEF ArchiveInv, ArchivedIsStored, AllCovered, Stored, Ids
  <1>2. CASE UNCHANGED vars \/ \E product \in Product : AddAlias(product)
    BY <1>1, <1>2 DEF vars, files, database, AddAlias
  <1>3. ASSUME NEW n \in FileName, NEW e \in Export, DropFile(n, e)
        PROVE  ArchiveInv'
    BY <1>3, DropFileCovers
  <1>4. CASE StartCore
    <2>1. UNCHANGED <<folder, archived, rejects, raw>> /\ "refresh" \in Worker
      BY <1>4 DEF StartCore, files, database
    <2>2. PICK since \in {WeekStart, 0} :
            Step("refresh", [NoWork EXCEPT !.at = "reload", !.since = since])
      BY <1>4 DEF StartCore
    <2>3. Covered([NoWork EXCEPT !.at = "reload", !.since = since], folder, rejects, Stored)
      BY DEF Covered, NoWork
    <2> QED
      BY <2>1, <2>2, <2>3, QuietCovers
  <1>5. CASE Crash
    <2>1. UNCHANGED <<folder, archived, rejects, raw>> /\ worker' = [w \in Worker |-> NoWork]
      BY <1>5 DEF Crash, files, database
    <2>2. Stored' = Stored
      BY <2>1 DEF Stored, Ids
    <2> QED
      BY <2>1, <2>2, IdleCovers DEF ArchiveInv, ArchivedIsStored, AllCovered
  <1>6. ASSUME NEW w \in Worker, NEW n \in FileName, BeginFile(w, n)
        PROVE  ArchiveInv'
    BY <1>6, BeginFileCovers
  <1>7. ASSUME NEW w \in Worker, NEW e \in Export, BeginUpload(w, e)
        PROVE  ArchiveInv'
    <2>1. UNCHANGED <<folder, archived, rejects, raw>>
      BY <1>7 DEF BeginUpload, files, database
    <2>2. Step(w, [NoWork EXCEPT !.at = "store", !.rows = Readable(e)])
      BY <1>7 DEF BeginUpload
    <2>3. Covered([NoWork EXCEPT !.at = "store", !.rows = Readable(e)],
                  folder, rejects, Stored)
      BY DEF Covered, NoWork
    <2> QED
      BY <2>1, <2>2, <2>3, QuietCovers
  <1>8. ASSUME NEW w \in Worker, BeginRefresh(w)
        PROVE  ArchiveInv'
    <2>1. UNCHANGED <<folder, archived, rejects, raw>>
      BY <1>8 DEF BeginRefresh, files, database
    <2>2. Step(w, [NoWork EXCEPT !.at = "reload", !.since = WeekStart])
      BY <1>8 DEF BeginRefresh
    <2>3. Covered([NoWork EXCEPT !.at = "reload", !.since = WeekStart],
                  folder, rejects, Stored)
      BY DEF Covered, NoWork
    <2> QED
      BY <2>1, <2>2, <2>3, QuietCovers
  <1>9. ASSUME NEW w \in Worker, Ingesting(w)
        PROVE  ArchiveInv'
    <2>1. CASE StoreLane(w)
      BY <2>1, StoreLaneCovers
    <2>2. CASE ReloadAliases(w) \/ ListUnresolved(w) \/ WriteRow(w)
      BY <2>2, WriteRowCovers
    <2>3. CASE Materialize(w)
      BY <2>3, AfterMartCovers DEF Materialize, files
    <2>4. CASE MaterializeAgain(w)
      BY <2>4, IdleCovers, QuietCovers DEF MaterializeAgain, files
    <2>5. CASE Archive(w) \/ RejectFile(w)
      BY <2>5, MoveAwayCovers
    <2> QED
      BY <1>9, <2>1, <2>2, <2>3, <2>4, <2>5 DEF Ingesting
  <1>10. ASSUME NEW w \in Worker, StorageError(w)
         PROVE  ArchiveInv'
    BY <1>10, StorageErrorCovers
  <1> QED
    BY <1>2, <1>3, <1>4, <1>5, <1>6, <1>7, <1>8, <1>9, <1>10 DEF Next

\* If the POS leaves a file alone until it is gone from the drop folder and the
\* rejected rows can be written to failed\, no row of it is lost: each is stored
\* before the file is archived, or handed back in failed\.  Any number of
\* goroutines may take the file, and every crash and storage error may come in
\* between.
THEOREM NothingArchivedUnread ==
  ASSUME ~Rewrite, "rejects" \notin FaultKinds
  PROVE  Spec => []ArchivedIsStored
  <1>1. Init => TypeInv /\ ArchiveInv
    BY TypeInvInit, IdleCovers DEF Init, ArchiveInv, ArchivedIsStored, AllCovered
  <1>2. TypeInv /\ ArchiveInv /\ [Next]_vars => TypeInv' /\ ArchiveInv'
    BY TypeInvInductive, ArchiveInductive
  <1>3. ArchiveInv => ArchivedIsStored
    BY DEF ArchiveInv
  <1> QED
    BY <1>1, <1>2, <1>3, PTL DEF Spec

-----------------------------------------------------------------------------
(* The figures of an import are complete when it is over.                  *)

\* Every alias is known from the start and nothing fails.
AllKnown == KnownProduct = Product
NoFaults == "crash" \notin FaultKinds /\ "storage" \notin FaultKinds

\* Rows WriteRawTransactions adds are rows the goroutine has in hand.
LEMMA StoreLaneAdds ==
  ASSUME TypeInv, NEW w \in Worker, StoreLane(w)
  PROVE  \A i \in Ids' \ Ids : raw'[i] \in worker[w].rows /\ i > Len(raw)
  <1>1. CASE UNCHANGED raw
    BY <1>1 DEF Ids
  <1>2. ASSUME NEW lane,
               NEW rows \in SetToSeqs({p \in worker[w].rows \ Stored : p.lane = lane}),
               raw' = raw \o rows
        PROVE  \A i \in Ids' \ Ids : raw'[i] \in worker[w].rows /\ i > Len(raw)
    <2> DEFINE batch == {p \in worker[w].rows \ Stored : p.lane = lane}
    <2>1. IsFiniteSet(batch)
      BY FS_Subset DEF TypeInv, InHand
    <2>2. rows \in Seq(batch)
      <3> HIDE DEF batch
      <3>1. rows \in SetToSeqs(batch)
        BY <1>2 DEF batch
      <3> QED
        BY <2>1, <3>1, OrderNamesAll
    <2>3. batch \subseteq worker[w].rows /\ worker[w].rows \subseteq Reading
      BY WorkFields DEF TypeInv
    <2>4. raw \in Seq(Reading) /\ rows \in Seq(Reading)
      <3> HIDE DEF batch
      <3> QED
        BY <2>2, <2>3 DEF TypeInv, TypeOK
    <2>5. /\ Len(raw') = Len(raw) + Len(rows)
          /\ \A i \in 1..Len(rows) : raw'[Len(raw) + i] = rows[i]
          /\ Len(raw) \in Nat /\ Len(rows) \in Nat
      BY <1>2, <2>4
    <2>6. ASSUME NEW i \in Ids' \ Ids
          PROVE  raw'[i] \in worker[w].rows /\ i > Len(raw)
      <3>1. i \in Nat /\ i > Len(raw) /\ i <= Len(raw) + Len(rows)
        BY <2>5 DEF Ids
      <3>2. i - Len(raw) \in 1..Len(rows) /\ i = Len(raw) + (i - Len(raw))
        BY <2>5, <3>1
      <3>3. rows[i - Len(raw)] \in batch
        <4> HIDE DEF batch
        <4> QED
          BY <2>2, <3>2
      <3> QED
        BY <2>3, <2>5, <3>1, <3>2, <3>3
    <2> QED
      BY <2>6
  <1> QED
    BY <1>1, <1>2 DEF StoreLane

\* RefreshOwed is not inductive.  That a row of transactions is owed a refresh
\* rests on the goroutine that stored the raw row having it on its list until
\* some goroutine normalizes it; that nobody is owed one rests on a row of
\* daily_sales counting only what is in transactions, unless a correction has
\* taken it from there.
Has(work, id) ==
  \/ work.at = "store" /\ raw[id] \in work.rows
  \/ work.at \in {"reload", "list"} /\ work.since <= raw[id].day
  \/ work.at = "write" /\ work.since <= raw[id].day /\ id \in work.todo
AliasesRead ==
  /\ aliases = Product
  /\ \A w \in Worker : worker[w].at \in {"list", "write"} => loaded = Product
OpenIsHeld == \A id \in Unresolved : \E w \in Worker : Has(worker[w], id)
ReplacedIsCorrected == \A id \in superseded : Corrected(GroupOf(id))
CountsSales == \A g \in Group : daily[g] \subseteq Counted(g) \/ Corrected(g)
OwedInv ==
  /\ AliasesRead /\ OpenIsHeld /\ ReplacedIsCorrected /\ CountsSales /\ RefreshOwed

\* Work that brings nobody's rows into the figures.
Quiet(work) == work.at \notin {"store", "reload", "list", "write", "mart"}

\* A goroutine that has no rows in hand neither holds nor owes anything, so one
\* that begins or ends such work changes nothing.
LEMMA QuietOwes ==
  ASSUME TypeInv, OwedInv, UNCHANGED <<raw, sales, superseded, daily, aliases>>,
         NEW w \in Worker, Quiet(worker[w]), NEW work, work.at \notin {"list", "write"},
         Step(w, work), loaded' = loaded
  PROVE  OwedInv'
  <1>1. /\ Ids' = Ids /\ Unresolved' = Unresolved
        /\ \A g : Corrected(g)' = Corrected(g)
        /\ \A g : Counted(g)' = Counted(g)
        /\ \A id : GroupOf(id)' = GroupOf(id)
    BY DEF Ids, Unresolved, Corrected, Counted, GroupOf
  <1>2. worker'[w] = work /\ \A v \in Worker \ {w} : worker'[v] = worker[v]
    BY DEF Step, TypeInv, TypeOK
  <1>3. AliasesRead'
    BY <1>2 DEF OwedInv, AliasesRead
  <1>4. OpenIsHeld'
    <2>1. \A id : ~Has(worker[w], id)
      BY DEF Has, Quiet
    <2> QED
      BY <1>1, <1>2, <2>1 DEF OwedInv, OpenIsHeld, Has
  <1>5. ReplacedIsCorrected' /\ CountsSales'
    BY <1>1 DEF OwedInv, ReplacedIsCorrected, CountsSales
  <1>6. RefreshOwed'
    <2>1. \A day : ~Owes(w, day)
      BY DEF Owes, Quiet
    <2>2. \A v \in Worker \ {w}, day \in Day : Owes(v, day)' <=> Owes(v, day)
      BY <1>2 DEF Owes
    <2>3. \A g \in Group : g.day \in Day /\ (MayLag(g)' <=> MayLag(g))
      BY <1>1 DEF MayLag, Group
    <2> QED
      BY <1>1, <2>1, <2>2, <2>3 DEF OwedInv, RefreshOwed
  <1> QED
    BY <1>3, <1>4, <1>5, <1>6 DEF OwedInv

\* Storing rows: what was corrected stays so, and the ids keep their groups.
LEMMA StoreLaneKeeps ==
  ASSUME TypeInv, NEW w \in Worker, StoreLane(w)
  PROVE  /\ Ids \subseteq Ids' /\ \A i \in Ids : raw'[i] = raw[i]
         /\ \A i \in Ids : GroupOf(i)' = GroupOf(i)
         /\ \A g \in Group : Counted(g)' = Counted(g)
         /\ \A g \in Group : Corrected(g) => Corrected(g)'
  <1>1. Ids \subseteq Ids' /\ \A i \in Ids : raw'[i] = raw[i]
    BY StoreLaneStores
  <1>2. \A i \in Ids : GroupOf(i)' = GroupOf(i)
    BY <1>1 DEF GroupOf
  <1>3. sales' = sales /\ sales \subseteq Ids
    BY DEF StoreLane, TypeInv, TypeOK
  <1>4. \A g \in Group : Counted(g)' = Counted(g)
    BY <1>2, <1>3 DEF Counted
  <1>5. \A g \in Group : Corrected(g) => Corrected(g)'
    BY <1>1, <1>2 DEF Corrected
  <1> QED
    BY <1>1, <1>2, <1>4, <1>5

\* The first day of the rows a goroutine stores is the first.
LEMMA EarliestIsFirst ==
  ASSUME TypeInv, NEW w \in Worker, worker[w].at = "store"
  PROVE  /\ Earliest(worker[w].rows) \in Day
         /\ \A p \in worker[w].rows : Earliest(worker[w].rows) <= p.day
  <1> DEFINE days == {p.day : p \in worker[w].rows}
  <1>1. worker[w].rows \subseteq Reading /\ worker[w].rows # {}
    BY WorkFields DEF TypeInv, InHand
  <1>2. days \in SUBSET Nat /\ days # {} /\ days \subseteq Day
    BY <1>1, ReadingAssumption DEF Day
  <1>3. Min(days) \in days /\ \A d \in days : Min(days) =< d
    <2> HIDE DEF days
    <2> QED
      BY <1>2, MinIsLeast
  <1> QED
    BY <1>2, <1>3 DEF Earliest

\* The day a goroutine refreshes from is never after the last one.
LEMMA SinceFields ==
  ASSUME TypeInv, NEW w \in Worker
  PROVE  /\ worker[w].since \in Nat
         /\ \A day \in Nat : LastDay(day) => worker[w].since <= day
  <1>1. worker[w].since \in Day \cup {0, WeekStart}
    BY WorkFields DEF TypeInv
  <1> QED
    BY <1>1, ReadingAssumption, BoundAssumption DEF Day, LastDay

LEMMA StoreLaneOwes ==
  ASSUME TypeInv, OwedInv, NEW w \in Worker, StoreLane(w)
  PROVE  OwedInv'
  <1> DEFINE first == Earliest(worker[w].rows)
             stored == [worker[w] EXCEPT !.at = "reload", !.since = first]
  <1>1. UNCHANGED <<sales, superseded, daily, aliases, loaded>> /\ worker[w].at = "store"
    BY DEF StoreLane
  <1>2. /\ Ids \subseteq Ids' /\ \A i \in Ids : raw'[i] = raw[i]
        /\ \A i \in Ids : GroupOf(i)' = GroupOf(i)
        /\ \A g \in Group : Counted(g)' = Counted(g)
        /\ \A g \in Group : Corrected(g) => Corrected(g)'
    BY StoreLaneKeeps
  <1>3. \A i \in Ids' \ Ids : raw'[i] \in worker[w].rows
    BY StoreLaneAdds
  <1>4. Step(w, worker[w]) \/ Step(w, stored)
    BY StoreLaneStores
  <1>5. /\ worker'[w] = worker[w] \/ worker'[w] = stored
        /\ \A v \in Worker \ {w} : worker'[v] = worker[v]
    BY <1>4 DEF Step, TypeInv, TypeOK
  <1>6. /\ stored.at = "reload" /\ stored.since = first
        /\ first \in Day /\ \A p \in worker[w].rows : first <= p.day
    BY <1>1, WorkFields, EarliestIsFirst DEF TypeInv, Work
  <1> HIDE DEF stored, first
  <1>7. AliasesRead'
    BY <1>1, <1>5, <1>6 DEF OwedInv, AliasesRead
  <1>8. OpenIsHeld'
    <2>1. SUFFICES ASSUME NEW id \in Unresolved'
                   PROVE  \E v \in Worker : Has(worker[v], id)'
      BY DEF OpenIsHeld
    <2>2. CASE id \notin Ids
      <3>1. raw'[id] \in worker[w].rows
        BY <1>3, <2>2 DEF Unresolved
      <3>2. Has(worker[w], id)'
        BY <1>1, <1>5, <1>6, <3>1 DEF Has
      <3> QED
        BY <3>2
    <2>3. CASE id \in Ids
      <3>1. id \in Unresolved
        BY <1>1, <2>3 DEF Unresolved
      <3>2. PICK v \in Worker : Has(worker[v], id)
        BY <3>1 DEF OwedInv, OpenIsHeld
      <3>3. raw'[id] = raw[id]
        BY <1>2, <2>3
      <3>4. Has(worker[v], id)'
        BY <1>1, <1>5, <1>6, <3>2, <3>3 DEF Has
      <3> QED
        BY <3>4
    <2> QED
      BY <2>2, <2>3
  <1>9. ReplacedIsCorrected'
    <2>1. superseded \subseteq Ids /\ \A id \in Ids : GroupOf(id) \in Group
      BY ReadingAssumption DEF TypeInv, TypeOK, GroupOf, Group, Day, Ids
    <2> QED
      BY <1>1, <1>2, <2>1 DEF OwedInv, ReplacedIsCorrected
  <1>10. CountsSales'
    BY <1>1, <1>2 DEF OwedInv, CountsSales
  <1>11. RefreshOwed'
    <2>1. SUFFICES ASSUME NEW g \in Group, daily'[g] # Counted(g)', ~MayLag(g)'
                   PROVE  \E v \in Worker : Owes(v, g.day)'
      BY DEF RefreshOwed
    <2>2. ~MayLag(g)
      BY <1>2, <2>1 DEF MayLag
    <2>3. PICK v \in Worker : Owes(v, g.day)
      BY <1>1, <1>2, <2>1, <2>2 DEF OwedInv, RefreshOwed
    <2>4. CASE v # w
      BY <1>5, <2>3, <2>4 DEF Owes
    <2>5. CASE v = w
      <3>1. first <= g.day
        BY <1>1, <2>3, <2>5 DEF Owes, first
      <3> QED
        BY <1>1, <1>5, <1>6, <3>1, <2>5 DEF Owes, first
    <2> QED
      BY <2>4, <2>5
  <1> QED
    BY <1>7, <1>8, <1>9, <1>10, <1>11 DEF OwedInv

LEMMA ReloadOwes ==
  ASSUME TypeInv, OwedInv, NEW w \in Worker, ReloadAliases(w)
  PROVE  OwedInv'
  <1> DEFINE work == [worker[w] EXCEPT !.at = "list"]
  <1>1. /\ UNCHANGED <<raw, sales, superseded, daily, aliases>>
        /\ worker[w].at = "reload" /\ loaded' = aliases
    BY DEF ReloadAliases, database
  <1>2. /\ Ids' = Ids /\ Unresolved' = Unresolved
        /\ \A g : Corrected(g)' = Corrected(g)
        /\ \A g : Counted(g)' = Counted(g)
        /\ \A id : GroupOf(id)' = GroupOf(id)
    BY <1>1 DEF Ids, Unresolved, Corrected, Counted, GroupOf
  <1>3. worker'[w] = work /\ \A v \in Worker \ {w} : worker'[v] = worker[v]
    BY DEF ReloadAliases, Step, TypeInv, TypeOK
  <1>4. work.at = "list" /\ work.since = worker[w].since
    BY WorkFields DEF TypeInv, Work
  <1> HIDE DEF work
  <1>5. AliasesRead'
    BY <1>1 DEF OwedInv, AliasesRead
  <1>6. OpenIsHeld'
    BY <1>1, <1>2, <1>3, <1>4 DEF OwedInv, OpenIsHeld, Has
  <1>7. ReplacedIsCorrected' /\ CountsSales'
    BY <1>1, <1>2 DEF OwedInv, ReplacedIsCorrected, CountsSales
  <1>8. RefreshOwed'
    <2>1. \A v \in Worker, day \in Day : Owes(v, day) => Owes(v, day)'
      BY <1>1, <1>3, <1>4 DEF Owes
    <2>2. \A g \in Group : g.day \in Day /\ (MayLag(g)' <=> MayLag(g))
      BY <1>2 DEF MayLag, Group
    <2> QED
      BY <1>1, <1>2, <2>1, <2>2 DEF OwedInv, RefreshOwed
  <1> QED
    BY <1>5, <1>6, <1>7, <1>8 DEF OwedInv

LEMMA ListOwes ==
  ASSUME TypeInv, OwedInv, NEW w \in Worker, ListUnresolved(w)
  PROVE  OwedInv'
  <1> DEFINE work == [worker[w] EXCEPT !.at = IF Unresolved = {} THEN "mart" ELSE "write",
                                       !.todo = Unresolved]
  <1>1. UNCHANGED <<raw, sales, superseded, daily, aliases>> /\ worker[w].at = "list"
    BY DEF ListUnresolved, database
  <1>2. /\ Ids' = Ids /\ Unresolved' = Unresolved
        /\ \A g : Corrected(g)' = Corrected(g)
        /\ \A g : Counted(g)' = Counted(g)
        /\ \A id : GroupOf(id)' = GroupOf(id)
    BY <1>1 DEF Ids, Unresolved, Corrected, Counted, GroupOf
  <1>3. worker'[w] = work /\ \A v \in Worker \ {w} : worker'[v] = worker[v]
    BY DEF ListUnresolved, Step, TypeInv, TypeOK
  <1>4. /\ work.at = (IF Unresolved = {} THEN "mart" ELSE "write")
        /\ work.todo = Unresolved /\ work.since = worker[w].since
    BY WorkFields DEF TypeInv, Work
  <1> HIDE DEF work
  <1>5. AliasesRead'
    BY <1>1 DEF OwedInv, AliasesRead, ListUnresolved
  <1>6. OpenIsHeld'
    BY <1>1, <1>2, <1>3, <1>4 DEF OwedInv, OpenIsHeld, Has
  <1>7. ReplacedIsCorrected' /\ CountsSales'
    BY <1>1, <1>2 DEF OwedInv, ReplacedIsCorrected, CountsSales
  <1>8. RefreshOwed'
    <2>1. \A v \in Worker, day \in Day : Owes(v, day) => Owes(v, day)'
      BY <1>1, <1>3, <1>4 DEF Owes
    <2>2. \A g \in Group : g.day \in Day /\ (MayLag(g)' <=> MayLag(g))
      BY <1>2 DEF MayLag, Group
    <2> QED
      BY <1>1, <1>2, <2>1, <2>2 DEF OwedInv, RefreshOwed
  <1> QED
    BY <1>5, <1>6, <1>7, <1>8 DEF OwedInv

\* With every alias read, the row whose turn it is goes into transactions, and
\* what it replaces is a reading of the same sale.
LEMMA WriteRowResolves ==
  ASSUME TypeInv, AllKnown, AliasesRead, NEW w \in Worker, WriteRow(w)
  PROVE  \E id \in worker[w].todo :
           /\ id \in Ids /\ WriteNormalized(id)
           /\ \A j \in worker[w].todo : id <= j
           /\ \E at \in {"write", "mart"} :
                /\ at = "mart" => worker[w].todo \ {id} = {}
                /\ Step(w, [worker[w] EXCEPT !.at = at, !.todo = worker[w].todo \ {id}])
  <1> DEFINE id == Min(worker[w].todo)
             rest == worker[w].todo \ {id}
  <1>1. worker[w].todo \subseteq Ids /\ worker[w].todo # {} /\ worker[w].at = "write"
    BY WorkFields DEF WriteRow, TypeInv, InHand
  <1>2. worker[w].todo \in SUBSET Nat
    BY <1>1 DEF Ids
  <1>3. id \in worker[w].todo /\ \A j \in worker[w].todo : id <= j
    BY <1>1, <1>2, MinIsLeast
  <1>4. raw[id] \in Reading
    BY <1>1, <1>3 DEF TypeInv, TypeOK, Ids
  <1>5. raw[id].product \in loaded
    BY <1>1, <1>4, ReadingAssumption DEF AliasesRead
  <1>6. WriteNormalized(id)
    BY <1>5 DEF WriteRow
  <1>7. Step(w, [worker[w] EXCEPT !.at = IF rest = {} THEN "mart" ELSE "write",
                                  !.todo = rest])
    BY DEF WriteRow
  <1> HIDE DEF id
  <1> QED
    BY <1>1, <1>3, <1>6, <1>7

LEMMA WriteRowOwes ==
  ASSUME TypeInv, AllKnown, OwedInv, NEW w \in Worker, WriteRow(w)
  PROVE  OwedInv'
  <1>1. UNCHANGED <<raw, daily, aliases, loaded>> /\ worker[w].at = "write"
    BY DEF WriteRow
  <1>2. PICK id \in worker[w].todo :
          /\ id \in Ids /\ WriteNormalized(id)
          /\ \A j \in worker[w].todo : id <= j
          /\ \E at \in {"write", "mart"} :
               /\ at = "mart" => worker[w].todo \ {id} = {}
               /\ Step(w, [worker[w] EXCEPT !.at = at, !.todo = worker[w].todo \ {id}])
    BY WriteRowResolves DEF OwedInv
  <1>3. PICK at \in {"write", "mart"} :
          /\ at = "mart" => worker[w].todo \ {id} = {}
          /\ Step(w, [worker[w] EXCEPT !.at = at, !.todo = worker[w].todo \ {id}])
    BY <1>2
  <1> DEFINE work == [worker[w] EXCEPT !.at = at, !.todo = worker[w].todo \ {id}]
             same == {s \in sales : SameSale(raw[s], raw[id])}
  <1>4. worker'[w] = work /\ \A v \in Worker \ {w} : worker'[v] = worker[v]
    BY <1>3 DEF Step, TypeInv, TypeOK
  <1>5. /\ work.at = at /\ work.todo = worker[w].todo \ {id}
        /\ work.since = worker[w].since
    BY WorkFields DEF TypeInv, Work
  <1>6. sales' = (sales \ same) \cup {id} /\ superseded' = superseded \cup (same \ {id})
    BY <1>2 DEF WriteNormalized
  <1>7. /\ Ids' = Ids
        /\ \A g : Corrected(g)' = Corrected(g)
        /\ \A i : GroupOf(i)' = GroupOf(i)
    BY <1>1 DEF Ids, Corrected, GroupOf
  <1>8. sales \subseteq Ids /\ superseded \subseteq Ids
    BY DEF TypeInv, TypeOK
  <1>9. \A s \in same \ {id} : Corrected(GroupOf(s))
    BY <1>2, <1>8 DEF Corrected
  <1> HIDE DEF work
  <1>10. Unresolved' = Unresolved \ {id}
    BY <1>6, <1>7 DEF Unresolved
  <1>11. AliasesRead'
    BY <1>1, <1>4, <1>5 DEF OwedInv, AliasesRead
  <1>12. OpenIsHeld'
    BY <1>1, <1>3, <1>4, <1>5, <1>10 DEF OwedInv, OpenIsHeld, Has
  <1>13. ReplacedIsCorrected'
    <2> HIDE DEF same
    <2> QED
      BY <1>6, <1>7, <1>9 DEF OwedInv, ReplacedIsCorrected
  <1>14. CountsSales'
    <2>1. SUFFICES ASSUME NEW g \in Group, ~Corrected(g)
                   PROVE  daily[g] \subseteq Counted(g)'
      BY <1>1, <1>7 DEF CountsSales
    <2>2. daily[g] \subseteq Counted(g)
      BY <2>1 DEF OwedInv, CountsSales
    <2>3. ASSUME NEW s \in Counted(g) PROVE s \in Counted(g)'
      <3>1. s \in sales /\ GroupOf(s) = g
        BY DEF Counted
      <3>2. s \in sales'
        BY <1>6, <1>9, <2>1, <3>1
      <3> QED
        BY <1>7, <3>1, <3>2 DEF Counted
    <2> QED
      BY <2>2, <2>3
  <1>15. RefreshOwed'
    <2>1. SUFFICES ASSUME NEW g \in Group, daily[g] # Counted(g)', ~MayLag(g)'
                   PROVE  \E v \in Worker : Owes(v, g.day)'
      BY <1>1 DEF RefreshOwed
    <2>2. \A v \in Worker, day \in Day : Owes(v, day) => Owes(v, day)'
      BY <1>1, <1>4, <1>5 DEF Owes
    <2>3. g.day \in Day /\ g.day \in Nat
      BY ReadingAssumption DEF Group, Day
    <2>4. CASE LastDay(g.day)
      <3>1. work.since <= g.day
        BY <1>5, <2>3, <2>4, SinceFields
      <3>2. Owes(w, g.day)'
        BY <1>3, <1>4, <1>5, <3>1 DEF Owes
      <3> QED
        BY <3>2
    <2>5. CASE ~LastDay(g.day)
      <3>1. ~Corrected(g)
        BY <1>7, <2>1, <2>5 DEF MayLag, LastDay
      <3>2. CASE daily[g] # Counted(g)
        <4>1. PICK v \in Worker : Owes(v, g.day)
          BY <3>1, <3>2 DEF OwedInv, RefreshOwed, MayLag
        <4> QED
          BY <2>2, <2>3, <4>1
      <3>3. CASE Counted(g)' # Counted(g)
        <4>1. GroupOf(id) = g /\ id \notin sales
          <5>1. \A s \in Counted(g) : s \in Counted(g)'
            BY <1>6, <1>7, <1>9, <3>1 DEF Counted
          <5>2. PICK s \in Counted(g)' : s \notin Counted(g)
            BY <3>3, <5>1 DEF Counted
          <5> QED
            BY <1>6, <1>7, <5>2 DEF Counted
        <4>2. id \notin superseded
          BY <3>1, <4>1 DEF OwedInv, ReplacedIsCorrected
        <4>3. PICK v \in Worker : Has(worker[v], id)
          BY <1>2, <4>1, <4>2 DEF Unresolved, OwedInv, OpenIsHeld
        <4>4. raw[id].day = g.day
          BY <4>1 DEF GroupOf
        <4>5. Owes(v, g.day)
          BY <4>3, <4>4, EarliestIsFirst, WorkFields, <2>3, ReadingAssumption
          DEF Has, Owes, TypeInv
        <4> QED
          BY <2>2, <2>3, <4>5
      <3> QED
        BY <2>1, <3>2, <3>3
    <2> QED
      BY <2>4, <2>5
  <1> QED
    BY <1>11, <1>12, <1>13, <1>14, <1>15 DEF OwedInv

\* A refresh that covers a day brings it up to date, and any refresh leaves a
\* day as it was or up to date.
LEMMA RefreshCounts ==
  ASSUME NEW since, Refresh(since), NEW g \in Group
  PROVE  /\ daily'[g] = daily[g] \/ daily'[g] = Counted(g)
         /\ since <= g.day /\ Counted(g) # {} => daily'[g] = Counted(g)
  BY DEF Refresh

LEMMA MaterializeOwes ==
  ASSUME TypeInv, OwedInv, NEW w \in Worker,
         \/ worker[w].at = "mart" /\ Refresh(worker[w].since)
         \/ worker[w].at = "again" /\ Refresh(QuarterStart),
         UNCHANGED <<raw, sales, superseded, aliases, loaded>>,
         NEW work, work.at \notin {"list", "write"}, Step(w, work)
  PROVE  OwedInv'
  <1>1. /\ Ids' = Ids /\ Unresolved' = Unresolved
        /\ \A g : Corrected(g)' = Corrected(g)
        /\ \A g : Counted(g)' = Counted(g)
        /\ \A id : GroupOf(id)' = GroupOf(id)
    BY DEF Ids, Unresolved, Corrected, Counted, GroupOf
  <1>2. worker'[w] = work /\ \A v \in Worker \ {w} : worker'[v] = worker[v]
    BY DEF Step, TypeInv, TypeOK
  <1>3. AliasesRead'
    BY <1>2 DEF OwedInv, AliasesRead
  <1>4. OpenIsHeld'
    <2>1. \A id : ~Has(worker[w], id)
      BY DEF Has
    <2> QED
      BY <1>1, <1>2, <2>1 DEF OwedInv, OpenIsHeld, Has
  <1>5. \A g \in Group : daily'[g] = daily[g] \/ daily'[g] = Counted(g)
    BY RefreshCounts
  <1>6. ReplacedIsCorrected' /\ CountsSales'
    BY <1>1, <1>5 DEF OwedInv, ReplacedIsCorrected, CountsSales
  <1>7. RefreshOwed'
    <2>1. SUFFICES ASSUME NEW g \in Group, daily'[g] # Counted(g), ~MayLag(g)
                   PROVE  \E v \in Worker : Owes(v, g.day)'
      BY <1>1 DEF RefreshOwed, MayLag
    <2>2. daily'[g] = daily[g] /\ g.day \in Day
      BY <1>5, <2>1 DEF Group
    <2>3. PICK v \in Worker : Owes(v, g.day)
      BY <2>1, <2>2 DEF OwedInv, RefreshOwed
    <2>4. Counted(g) # {}
      BY <2>1, <2>2 DEF OwedInv, CountsSales, MayLag
    <2>5. v # w
      BY <2>1, <2>3, <2>4, RefreshCounts DEF Owes
    <2> QED
      BY <1>2, <2>3, <2>5 DEF Owes
  <1> QED
    BY <1>3, <1>4, <1>6, <1>7 DEF OwedInv

\* Without a crash the service is down only before its first start.
StartIdle == service = "down" => \A w \in Worker : Idle(w)

LEMMA StartIdleInductive ==
  ASSUME NoFaults, TypeInv, StartIdle, [Next]_vars
  PROVE  StartIdle'
  <1>1. CASE UNCHANGED <<service, worker>>
    BY <1>1 DEF StartIdle, Idle
  <1>2. ASSUME NEW w \in Worker, ~Idle(w), service' # "down" \/ service' = service
        PROVE  StartIdle'
    BY <1>2 DEF StartIdle
  <1>3. ASSUME NEW w \in Worker, Ingesting(w)
        PROVE  StartIdle'
    <2>1. ~Idle(w)
      BY <1>3 DEF Ingesting, StoreLane, ReloadAliases, ListUnresolved, WriteRow, Materialize,
                  MaterializeAgain, Archive, RejectFile, MoveAway, Idle, NoWork
    <2>2. service' # "down" \/ service' = service
      BY <1>3 DEF Ingesting, StoreLane, ReloadAliases, ListUnresolved, WriteRow, Materialize,
                  MaterializeAgain, Archive, RejectFile, MoveAway
    <2> QED
      BY <1>2, <2>1, <2>2
  <1>4. CASE StartCore
    BY <1>4 DEF StartCore, StartIdle
  <1>5. ASSUME NEW w \in Worker,
               \/ \E n \in FileName : BeginFile(w, n)
               \/ \E e \in Export : BeginUpload(w, e)
               \/ BeginRefresh(w)
        PROVE  StartIdle'
    BY <1>5 DEF BeginFile, BeginUpload, BeginRefresh, StartIdle
  <1> QED
    BY <1>1, <1>3, <1>4, <1>5
    DEF Next, NoFaults, Crash, StorageError, MayFault, DropFile, AddAlias, vars

LEMMA OwedInductive ==
  ASSUME AllKnown, NoFaults, TypeInv, StartIdle, OwedInv, [Next]_vars
  PROVE  OwedInv'
  <1>1. CASE UNCHANGED <<raw, sales, superseded, daily, aliases, loaded, worker>>
    <2>1. /\ Ids' = Ids /\ Unresolved' = Unresolved
          /\ \A g : Corrected(g)' = Corrected(g)
          /\ \A g : Counted(g)' = Counted(g)
          /\ \A id : GroupOf(id)' = GroupOf(id)
      BY <1>1 DEF Ids, Unresolved, Corrected, Counted, GroupOf
    <2>2. \A v, day : Owes(v, day)' = Owes(v, day)
      BY <1>1 DEF Owes
    <2> QED
      BY <1>1, <2>1, <2>2 DEF OwedInv, AliasesRead, OpenIsHeld, Has,
         ReplacedIsCorrected, CountsSales, RefreshOwed, MayLag
  <1>2. CASE UNCHANGED vars \/ \E n \in FileName, e \in Export : DropFile(n, e)
    BY <1>1, <1>2 DEF vars, database, DropFile
  <1>3. ASSUME NEW product \in Product, AddAlias(product)
        PROVE  FALSE
    BY <1>3 DEF AddAlias, OwedInv, AliasesRead
  <1>4. CASE StartCore
    <2>1. /\ "refresh" \in Worker /\ Quiet(worker["refresh"])
          /\ UNCHANGED <<raw, sales, superseded, daily, aliases, loaded>>
      BY <1>4 DEF StartCore, StartIdle, Idle, NoWork, Quiet, database
    <2>2. PICK since \in {WeekStart, 0} :
            Step("refresh", [NoWork EXCEPT !.at = "reload", !.since = since])
      BY <1>4 DEF StartCore
    <2>3. [NoWork EXCEPT !.at = "reload", !.since = since].at \notin {"list", "write"}
      BY DEF NoWork
    <2> QED
      BY <2>1, <2>2, <2>3, QuietOwes
  <1>5. ASSUME NEW w \in Worker,
               \/ \E n \in FileName : BeginFile(w, n)
               \/ \E e \in Export : BeginUpload(w, e)
               \/ BeginRefresh(w)
        PROVE  OwedInv'
    <2>1. Quiet(worker[w]) /\ UNCHANGED <<raw, sales, superseded, daily, aliases, loaded>>
      <3>1. Idle(w) /\ UNCHANGED <<database, loaded>>
        BY <1>5 DEF BeginFile, BeginUpload, BeginRefresh
      <3>2. worker[w].at = "idle"
        BY <3>1 DEF Idle, NoWork
      <3> QED
        BY <3>1, <3>2 DEF Quiet, database
    <2>2. PICK work : work.at \notin {"list", "write"} /\ Step(w, work)
      <3>1. ASSUME NEW at \in {"reject", "store", "reload"}, NEW n, NEW rows, NEW since
            PROVE  /\ [NoWork EXCEPT !.at = at, !.name = n, !.rows = rows].at \notin {"list", "write"}
                   /\ [NoWork EXCEPT !.at = at, !.rows = rows].at \notin {"list", "write"}
                   /\ [NoWork EXCEPT !.at = at, !.since = since].at \notin {"list", "write"}
        BY DEF NoWork
      <3>2. CASE \E n \in FileName : BeginFile(w, n)
        <4>1. PICK n \in FileName : BeginFile(w, n)
          BY <3>2
        <4>2. PICK at \in {"reject", "store"} :
                Step(w, [NoWork EXCEPT !.at = at, !.name = n, !.rows = Readable(folder[n])])
          BY <4>1 DEF BeginFile
        <4> QED
          BY <3>1, <4>2
      <3>3. CASE BeginRefresh(w) \/ \E e \in Export : BeginUpload(w, e)
        BY <3>1, <3>3 DEF BeginUpload, BeginRefresh
      <3> QED
        BY <1>5, <3>2, <3>3
    <2> QED
      BY <2>1, <2>2, QuietOwes
  <1>6. ASSUME NEW w \in Worker, Ingesting(w)
        PROVE  OwedInv'
    <2>1. CASE StoreLane(w)
      BY <2>1, StoreLaneOwes
    <2>2. CASE ListUnresolved(w)
      BY <2>2, ListOwes
    <2>3. CASE WriteRow(w)
      BY <2>3, WriteRowOwes
    <2>4. CASE Materialize(w) \/ MaterializeAgain(w)
      <3>1. /\ \/ worker[w].at = "mart" /\ Refresh(worker[w].since)
               \/ worker[w].at = "again" /\ Refresh(QuarterStart)
            /\ UNCHANGED <<raw, sales, superseded, aliases, loaded>>
        BY <2>4 DEF Materialize, MaterializeAgain
      <3>2. PICK work : work.at \notin {"list", "write"} /\ Step(w, work)
        BY <2>4, WorkFields
        DEF Materialize, MaterializeAgain, AfterMart, NoWork, TypeInv, Work
      <3> QED
        BY <3>1, <3>2, MaterializeOwes
    <2>5. CASE Archive(w) \/ RejectFile(w)
      <3>1. Quiet(worker[w]) /\ UNCHANGED <<raw, sales, superseded, daily, aliases, loaded>>
        BY <2>5 DEF Archive, RejectFile, MoveAway, Quiet, database
      <3>2. NoWork.at \notin {"list", "write"} /\ Step(w, NoWork)
        BY <2>5 DEF Archive, RejectFile, MoveAway, NoWork
      <3> QED
        BY <3>1, <3>2, QuietOwes
    <2>6. CASE ReloadAliases(w)
      BY <2>6, ReloadOwes
    <2> QED
      BY <1>6, <2>1, <2>2, <2>3, <2>4, <2>5, <2>6 DEF Ingesting
  <1> QED
    BY <1>2, <1>3, <1>4, <1>5, <1>6 DEF Next, NoFaults, Crash, StorageError, MayFault

\* If every product is known and nothing fails, figures that disagree with the
\* transactions are about to be refreshed, but for the days corrections were
\* made on: whether one, two or all three goroutines store, normalize and refresh
\* side by side, and whichever of them wrote the rows.
THEOREM RefreshIsOwed ==
  ASSUME AllKnown, NoFaults
  PROVE  Spec => []RefreshOwed
  <1>1. Init => TypeInv /\ StartIdle /\ OwedInv
    <2>1. ASSUME Init PROVE StartIdle /\ OwedInv
      <3>1. Ids = {} /\ Unresolved = {} /\ \A g \in Group : Counted(g) = {}
        BY <2>1 DEF Init, Ids, Unresolved, Counted
      <3>2. AliasesRead /\ StartIdle
        BY <2>1 DEF Init, AliasesRead, StartIdle, Idle, AllKnown, NoWork
      <3> QED
        BY <2>1, <3>1, <3>2 DEF Init, OwedInv, OpenIsHeld, ReplacedIsCorrected,
           CountsSales, RefreshOwed
    <2> QED
      BY <2>1, TypeInvInit
  <1>2. TypeInv /\ StartIdle /\ OwedInv /\ [Next]_vars
          => TypeInv' /\ StartIdle' /\ OwedInv'
    BY TypeInvInductive, StartIdleInductive, OwedInductive
  <1>3. OwedInv => RefreshOwed
    BY DEF OwedInv
  <1> QED
    BY <1>1, <1>2, <1>3, PTL DEF Spec

-----------------------------------------------------------------------------
(* The newest reading of a sale wins.                                      *)

\* Nothing ingests beside the periodic refresh, and a correction keeps the
\* product or names one that has an alias from the start.
OneWorker == \A v, w \in Worker : v = w
KeepsProduct ==
  \A p, q \in Reading : SameSale(p, q) => p.product = q.product \/ q.product \in KnownProduct

\* NewestWins is not inductive: that the row whose turn it is is newer than all
\* it replaces rests on the list holding every open row of the sale, whatever an
\* earlier run was interrupted in.
ListIsComplete ==
  /\ KnownProduct \subseteq aliases
  /\ \A w \in Worker : worker[w].at \in {"list", "write"} => KnownProduct \subseteq loaded
  /\ \A w \in Worker : worker[w].at = "write" =>
       /\ worker[w].todo \subseteq Unresolved
       /\ \A j \in Unresolved \ worker[w].todo : raw[j].product \notin loaded
InOrder ==
  \A i \in sales \cup superseded, j \in Unresolved : SameSale(raw[i], raw[j]) => i < j
NewestInv == ListIsComplete /\ InOrder /\ NewestWins

LEMMA StoreLaneOrder ==
  ASSUME OneWorker, TypeInv, NewestInv, NEW w \in Worker, StoreLane(w)
  PROVE  NewestInv'
  <1>1. UNCHANGED <<sales, superseded, aliases>> /\ sales \cup superseded \subseteq Ids
    BY DEF StoreLane, TypeInv, TypeOK
  <1>2. Ids \subseteq Ids' /\ \A i \in Ids : raw'[i] = raw[i]
    BY StoreLaneStores
  <1>3. \A i \in Ids' \ Ids : i > Len(raw)
    BY StoreLaneAdds
  <1>4. worker'[w].at \notin {"list", "write"}
    <2>1. Step(w, worker[w])
            \/ Step(w, [worker[w] EXCEPT !.at = "reload", !.since = Earliest(worker[w].rows)])
      BY StoreLaneStores
    <2>2. worker[w].at = "store" /\ worker[w] \in Work /\ worker \in [Worker -> Work]
      BY WorkFields DEF StoreLane, TypeInv, TypeOK
    <2> QED
      BY <2>1, <2>2 DEF Step, Work
  <1>5. ListIsComplete'
    BY <1>1, <1>4 DEF OneWorker, NewestInv, ListIsComplete
  <1>6. InOrder'
    <2>1. SUFFICES ASSUME NEW i \in sales \cup superseded, NEW j \in Unresolved',
                          SameSale(raw'[i], raw'[j])
                   PROVE  i < j
      BY <1>1 DEF InOrder
    <2>2. i \in Ids /\ j \in Ids'
      BY <1>1 DEF Unresolved
    <2>3. CASE j \in Ids
      BY <1>1, <1>2, <2>1, <2>2, <2>3 DEF Unresolved, NewestInv, InOrder
    <2>4. CASE j \notin Ids
      <3>1. j > Len(raw) /\ i <= Len(raw) /\ j \in Nat /\ i \in Nat /\ Len(raw) \in Nat
        BY <1>3, <2>2, <2>4 DEF Ids, TypeInv, TypeOK
      <3> QED
        BY <3>1
    <2> QED
      BY <2>3, <2>4
  <1>7. NewestWins'
    BY <1>1, <1>2 DEF NewestInv, NewestWins
  <1> QED
    BY <1>5, <1>6, <1>7 DEF NewestInv

LEMMA WriteRowOrder ==
  ASSUME OneWorker, KeepsProduct, TypeInv, NewestInv, NEW w \in Worker, WriteRow(w)
  PROVE  NewestInv'
  <1> DEFINE id == Min(worker[w].todo)
             rest == worker[w].todo \ {id}
             work == [worker[w] EXCEPT !.at = IF rest = {} THEN "mart" ELSE "write",
                                       !.todo = rest]
             same == {s \in sales : SameSale(raw[s], raw[id])}
  <1>1. UNCHANGED <<raw, aliases, loaded>> /\ worker[w].at = "write"
    BY DEF WriteRow
  <1>2. worker[w].todo \subseteq Ids /\ worker[w].todo # {} /\ Ids \subseteq Nat
    BY WorkFields DEF WriteRow, TypeInv, InHand, Ids
  <1>3. id \in worker[w].todo /\ \A j \in worker[w].todo : id <= j
    BY <1>2, MinIsLeast
  <1>4. id \in Unresolved /\ id \in Ids /\ id \notin sales \cup superseded
    BY <1>1, <1>3 DEF NewestInv, ListIsComplete, Unresolved
  <1>5. /\ \A j \in Unresolved \ worker[w].todo : raw[j].product \notin loaded
        /\ KnownProduct \subseteq loaded /\ worker[w].todo \subseteq Unresolved
    BY <1>1 DEF NewestInv, ListIsComplete
  <1>6. worker' = [worker EXCEPT ![w] = work]
    BY DEF WriteRow, Step
  <1>7. worker'[w].todo = rest
    BY <1>6, WorkFields DEF TypeInv, TypeOK, Work
  <1>8. Ids' = Ids /\ sales \cup superseded \subseteq Ids
    BY <1>1 DEF Ids, TypeInv, TypeOK
  <1>9. raw \in Seq(Reading)
    BY DEF TypeInv, TypeOK
  <1>10. CASE raw[id].product \notin loaded
    <2>1. UNCHANGED <<sales, superseded>>
      BY <1>10 DEF WriteRow
    <2>2. Unresolved' = Unresolved
      BY <1>8, <2>1 DEF Unresolved
    <2>3. ListIsComplete'
      <3> HIDE DEF id
      <3> QED
        BY <1>1, <1>5, <1>7, <1>10, <2>2 DEF OneWorker, NewestInv, ListIsComplete
    <2> QED
      BY <1>1, <2>1, <2>2, <2>3 DEF NewestInv, InOrder, NewestWins
  <1>11. CASE raw[id].product \in loaded
    <2>1. sales' = (sales \ same) \cup {id} /\ superseded' = superseded \cup (same \ {id})
      BY <1>11 DEF WriteRow, WriteNormalized
    <2> HIDE DEF id
    <2>2. Unresolved' = Unresolved \ {id}
      BY <1>8, <2>1 DEF Unresolved
    <2>3. ListIsComplete'
      BY <1>1, <1>5, <1>7, <2>2 DEF OneWorker, NewestInv, ListIsComplete
    <2>4. ASSUME NEW j \in Unresolved \ {id}, SameSale(raw[id], raw[j])
          PROVE  id < j
      <3>1. raw[id] \in Reading /\ raw[j] \in Reading
        BY <1>4, <1>9 DEF Ids, Unresolved
      <3>2. raw[j].product \in loaded
        BY <1>5, <1>11, <2>4, <3>1 DEF KeepsProduct
      <3>3. j \in worker[w].todo
        BY <1>5, <3>2
      <3>4. id \in Nat /\ j \in Nat /\ id <= j /\ id # j
        BY <1>2, <1>3, <3>3
      <3> QED
        BY <3>4
    <2>5. InOrder'
      <3>1. SUFFICES ASSUME NEW i \in sales' \cup superseded', NEW j \in Unresolved \ {id},
                            SameSale(raw[i], raw[j])
                     PROVE  i < j
        BY <1>1, <2>2 DEF InOrder
      <3>2. CASE i = id
        <4>1. SameSale(raw[id], raw[j])
          BY <3>1, <3>2
        <4> QED
          BY <2>4, <3>2, <4>1
      <3>3. CASE i \in sales \cup superseded
        BY <3>1, <3>3 DEF NewestInv, InOrder
      <3> QED
        BY <2>1, <3>2, <3>3
    <2>6. NewestWins'
      <3>1. SUFFICES ASSUME NEW s \in sales', NEW i \in superseded',
                            SameSale(raw[s], raw[i])
                     PROVE  i < s
        BY <1>1 DEF NewestWins
      <3>2. CASE s = id
        <4>1. i \in sales \cup superseded
          BY <2>1
        <4>2. SameSale(raw[i], raw[id])
          BY <3>1, <3>2 DEF SameSale
        <4> QED
          BY <1>4, <3>2, <4>1, <4>2 DEF NewestInv, InOrder
      <3>3. CASE s \in sales \ same /\ i \in superseded
        BY <3>1, <3>3 DEF NewestInv, NewestWins
      <3>4. CASE s \in sales \ same /\ i \in same
        BY <3>1, <3>4 DEF SameSale
      <3> QED
        BY <2>1, <3>2, <3>3, <3>4
    <2> QED
      BY <2>3, <2>5, <2>6 DEF NewestInv
  <1> QED
    BY <1>10, <1>11

\* A step that writes neither rows nor transactions and starts no list.
LEMMA KeepsOrder ==
  ASSUME TypeInv, NewestInv, UNCHANGED <<raw, sales, superseded>>,
         KnownProduct \subseteq aliases',
         \A w \in Worker : worker'[w].at \in {"list", "write"} =>
           worker'[w] = worker[w] /\ loaded' = loaded
  PROVE  NewestInv'
  <1>1. Ids' = Ids /\ Unresolved' = Unresolved
    BY DEF Ids, Unresolved
  <1> QED
    BY <1>1 DEF NewestInv, ListIsComplete, InOrder, NewestWins

\* A goroutine whose next step is not to write a row.
LEMMA StepOrder ==
  ASSUME OneWorker, TypeInv, NewestInv, UNCHANGED <<raw, sales, superseded, aliases>>,
         NEW w \in Worker, NEW work, work.at \notin {"list", "write"}, Step(w, work)
  PROVE  NewestInv'
  <1>1. worker'[w].at \notin {"list", "write"}
    BY DEF Step, TypeInv, TypeOK
  <1>2. \A v \in Worker : worker'[v].at \notin {"list", "write"}
    BY <1>1 DEF OneWorker
  <1>3. KnownProduct \subseteq aliases'
    BY DEF NewestInv, ListIsComplete
  <1> QED
    BY <1>2, <1>3, KeepsOrder

LEMMA ReloadOrder ==
  ASSUME OneWorker, TypeInv, NewestInv, NEW w \in Worker, ReloadAliases(w)
  PROVE  NewestInv'
  <1>1. UNCHANGED <<raw, sales, superseded, aliases>> /\ loaded' = aliases
    BY DEF ReloadAliases, database
  <1>2. Ids' = Ids /\ Unresolved' = Unresolved
    BY <1>1 DEF Ids, Unresolved
  <1>3. worker'[w].at = "list"
    BY WorkFields DEF ReloadAliases, Step, TypeInv, TypeOK, Work
  <1> QED
    BY <1>1, <1>2, <1>3 DEF OneWorker, NewestInv, ListIsComplete, InOrder, NewestWins

LEMMA ListOrder ==
  ASSUME OneWorker, TypeInv, NewestInv, NEW w \in Worker, ListUnresolved(w)
  PROVE  NewestInv'
  <1>1. UNCHANGED <<raw, sales, superseded, aliases, loaded>> /\ worker[w].at = "list"
    BY DEF ListUnresolved, database
  <1>2. Ids' = Ids /\ Unresolved' = Unresolved
    BY <1>1 DEF Ids, Unresolved
  <1>3. worker'[w].todo = Unresolved
    BY WorkFields DEF ListUnresolved, Step, TypeInv, TypeOK, Work
  <1> QED
    BY <1>1, <1>2, <1>3 DEF OneWorker, NewestInv, ListIsComplete, InOrder, NewestWins

LEMMA NewestInductive ==
  ASSUME OneWorker, KeepsProduct, TypeInv, NewestInv, [Next]_vars
  PROVE  NewestInv'
  <1>1. CASE UNCHANGED <<raw, sales, superseded, aliases, loaded, worker>>
    BY <1>1, KeepsOrder DEF NewestInv, ListIsComplete
  <1>2. CASE UNCHANGED vars \/ \E n \in FileName, e \in Export : DropFile(n, e)
    BY <1>1, <1>2 DEF vars, database, DropFile
  <1>3. ASSUME NEW product \in Product, AddAlias(product)
        PROVE  NewestInv'
    <2>1. UNCHANGED <<raw, sales, superseded, loaded, worker>>
      BY <1>3 DEF AddAlias
    <2>2. KnownProduct \subseteq aliases'
      BY <1>3 DEF AddAlias, NewestInv, ListIsComplete
    <2> QED
      BY <2>1, <2>2, KeepsOrder
  <1>4. CASE StartCore
    <2>1. "refresh" \in Worker /\ UNCHANGED <<raw, sales, superseded, aliases>>
      BY <1>4 DEF StartCore, database
    <2>2. PICK since : Step("refresh", [NoWork EXCEPT !.at = "reload", !.since = since])
      BY <1>4 DEF StartCore
    <2>3. [NoWork EXCEPT !.at = "reload", !.since = since].at \notin {"list", "write"}
      BY DEF NoWork
    <2> QED
      BY <2>1, <2>2, <2>3, StepOrder
  <1>5. CASE Crash
    <2>1. UNCHANGED <<raw, sales, superseded, aliases>> /\ worker' = [w \in Worker |-> NoWork]
      BY <1>5 DEF Crash, database
    <2>2. \A w \in Worker : worker'[w].at \notin {"list", "write"}
      BY <2>1 DEF NoWork
    <2> QED
      BY <2>1, <2>2, KeepsOrder DEF NewestInv, ListIsComplete
  <1>6. ASSUME NEW w \in Worker,
               \/ \E n \in FileName : BeginFile(w, n)
               \/ \E e \in Export : BeginUpload(w, e)
               \/ BeginRefresh(w) \/ StorageError(w)
               \/ Materialize(w) \/ MaterializeAgain(w) \/ Archive(w) \/ RejectFile(w)
        PROVE  NewestInv'
    <2>1. UNCHANGED <<raw, sales, superseded, aliases>>
      <3>1. UNCHANGED database \/ UNCHANGED <<raw, sales, superseded, aliases>>
        BY <1>6 DEF BeginFile, BeginUpload, BeginRefresh, StorageError, Materialize,
                    MaterializeAgain, Archive, RejectFile, MoveAway
      <3> QED
        BY <3>1 DEF database
    <2>2. ASSUME NEW at, NEW n, NEW rows, NEW since, at \notin {"list", "write"}
          PROVE  /\ [NoWork EXCEPT !.at = at, !.name = n, !.rows = rows].at \notin {"list", "write"}
                 /\ [NoWork EXCEPT !.at = at, !.rows = rows].at \notin {"list", "write"}
                 /\ [NoWork EXCEPT !.at = at, !.since = since].at \notin {"list", "write"}
                 /\ NoWork.at \notin {"list", "write"}
      BY <2>2 DEF NoWork
    <2>3. /\ \A at : [worker[w] EXCEPT !.at = at].at = at
          /\ [worker[w] EXCEPT !.at = "mart", !.todo = {}].at = "mart"
      BY WorkFields DEF TypeInv, Work
    <2>4. AfterMart(w) => \E work : work.at \notin {"list", "write"} /\ Step(w, work)
      BY <2>2, <2>3 DEF AfterMart
    <2>5. CASE \E n \in FileName : BeginFile(w, n)
      <3>1. PICK n \in FileName : BeginFile(w, n)
        BY <2>5
      <3>2. PICK at \in {"reject", "store"} :
              Step(w, [NoWork EXCEPT !.at = at, !.name = n, !.rows = Readable(folder[n])])
        BY <3>1 DEF BeginFile
      <3> QED
        BY <2>1, <2>2, <3>2, StepOrder
    <2>6. CASE BeginRefresh(w) \/ \E e \in Export : BeginUpload(w, e)
      BY <2>1, <2>2, <2>6, StepOrder DEF BeginUpload, BeginRefresh
    <2>7. CASE Materialize(w) \/ MaterializeAgain(w) \/ Archive(w) \/ RejectFile(w)
      BY <2>1, <2>2, <2>4, <2>7, StepOrder
      DEF Materialize, MaterializeAgain, Archive, RejectFile, MoveAway
    <2>8. CASE StorageError(w)
      BY <2>1, <2>2, <2>3, <2>4, <2>8, StepOrder DEF StorageError
    <2> QED
      BY <1>6, <2>5, <2>6, <2>7, <2>8
  <1>7. ASSUME NEW w \in Worker,
               StoreLane(w) \/ ReloadAliases(w) \/ ListUnresolved(w) \/ WriteRow(w)
        PROVE  NewestInv'
    BY <1>7, StoreLaneOrder, ReloadOrder, ListOrder, WriteRowOrder
  <1> QED
    BY <1>2, <1>3, <1>4, <1>5, <1>6, <1>7 DEF Next, Ingesting

\* While one goroutine ingests, the newest reading of a sale replaces the older
\* ones and never the reverse, whatever crash or storage error cuts a run of the
\* normalizer short and however late an alias is added.
THEOREM NewestReadingWins ==
  ASSUME OneWorker, KeepsProduct
  PROVE  Spec => []NewestWins
  <1>1. Init => TypeInv /\ NewestInv
    <2>1. ASSUME Init PROVE NewestInv
      BY <2>1 DEF Init, NewestInv, ListIsComplete, InOrder, NewestWins, NoWork
    <2> QED
      BY <2>1, TypeInvInit
  <1>2. TypeInv /\ NewestInv /\ [Next]_vars => TypeInv' /\ NewestInv'
    BY TypeInvInductive, NewestInductive
  <1>3. NewestInv => NewestWins
    BY DEF NewestInv
  <1> QED
    BY <1>1, <1>2, <1>3, PTL DEF Spec

-----------------------------------------------------------------------------
(* The last export of a sale stands.                                       *)

\* The POS waits for its one file to be gone before it writes the next, never
\* takes a correction back, and nobody uploads.
OneFile == \A m, n \in FileName : m = n
OneAtATime == OneWorker /\ OneFile /\ "web" \notin Worker /\ ~Rewrite /\ ~Revert

\* LastExportStands rests on the raw layer keeping the order of the exports: a
\* reading that is followed by another one of its sale has been corrected, and
\* one that waits in the folder corrects what is stored of its sale.
ExportOrder ==
  \A i, j \in Ids : i < j /\ SameSale(raw[i], raw[j]) => raw[i] \notin current
Waiting == UNION {Readable(folder[n]) : n \in FileName}
WaitingIsLast ==
  \A p \in Waiting \ Stored, q \in Stored : SameSale(p, q) => q \notin current
AllExported == Stored \cup Waiting \subseteq current \cup stale
InHandIsWaiting ==
  \A w \in Worker : worker[w].at = "store" =>
    worker[w].name \in FileName /\ worker[w].rows \subseteq Readable(folder[worker[w].name])
LastInv == ExportOrder /\ WaitingIsLast /\ AllExported /\ InHandIsWaiting

\* What waits under the only name is one export, which names a sale once.
LEMMA WaitingNamesOnce ==
  ASSUME OneFile, TypeOK, NEW p \in Waiting, NEW q \in Waiting, SameSale(p, q)
  PROVE  p = q
  <1>1. PICK n \in FileName : p \in Readable(folder[n]) /\ q \in Readable(folder[n])
    BY DEF OneFile, Waiting
  <1>2. folder[n] \in Export \cup {NoFile}
    BY DEF TypeOK
  <1>3. p \in folder[n] /\ q \in folder[n]
    BY <1>1 DEF Readable
  <1>4. folder[n] \in Export
    BY <1>2, <1>3 DEF NoFile
  <1> QED
    BY <1>3, <1>4, ExportAssumption DEF SameSale

LEMMA DropFileLast ==
  ASSUME OneAtATime, TypeInv, LastInv, NEW n \in FileName, NEW e \in Export, DropFile(n, e)
  PROVE  LastInv'
  <1> DEFINE corrected == {p \in current \ e : \E q \in Readable(e) : SameSale(p, q)}
  <1>1. /\ e \cap stale = {}
        /\ current' = (current \ corrected) \cup Readable(e)
        /\ stale' = (stale \cup corrected) \ Readable(e)
    BY DEF DropFile, Exported, OneAtATime
  <1>2. UNCHANGED <<raw, worker>> /\ folder' = [folder EXCEPT ![n] = e] /\ ~Held(n)
    BY DEF DropFile, OneAtATime, database
  <1>3. Ids' = Ids /\ Stored' = Stored
    BY <1>2 DEF Ids, Stored
  <1>4. folder \in [FileName -> Export \cup {NoFile}]
    BY DEF TypeInv, TypeOK
  <1>5. Waiting' = Readable(e)
    BY <1>2, <1>4 DEF Waiting, Readable, OneAtATime, OneFile
  <1>6. Readable(e) \subseteq e
    BY DEF Readable
  <1>7. \A q \in Stored : q \in current' => q \in current
    BY <1>1, <1>6 DEF LastInv, AllExported
  <1>8. ExportOrder'
    <2>1. \A i \in Ids : raw[i] \in Stored
      BY DEF Stored
    <2> QED
      BY <1>2, <1>3, <1>7, <2>1 DEF LastInv, ExportOrder
  <1>9. WaitingIsLast'
    <2>1. SUFFICES ASSUME NEW p \in Readable(e), p \notin Stored, NEW q \in Stored,
                          SameSale(p, q), q \in current'
                   PROVE  FALSE
      BY <1>3, <1>5 DEF WaitingIsLast
    <2>2. q \notin e
      BY <1>6, <2>1, ExportAssumption DEF SameSale
    <2>3. q \in current /\ SameSale(q, p)
      BY <1>7, <2>1 DEF SameSale
    <2>4. q \in corrected
      BY <2>2, <2>3
    <2> QED
      BY <1>1, <1>6, <2>1, <2>2, <2>4
  <1>10. AllExported'
    BY <1>1, <1>3, <1>5 DEF LastInv, AllExported
  <1>11. InHandIsWaiting'
    BY <1>2 DEF LastInv, InHandIsWaiting, Held, OneAtATime, OneFile
  <1> QED
    BY <1>8, <1>9, <1>10, <1>11 DEF LastInv

LEMMA StoreLaneLast ==
  ASSUME OneAtATime, TypeInv, LastInv, NEW w \in Worker, StoreLane(w)
  PROVE  LastInv'
  <1>1. UNCHANGED <<folder, current, stale>> /\ worker[w].at = "store"
    BY DEF StoreLane, files, exports
  <1>2. /\ Ids \subseteq Ids' /\ \A i \in Ids : raw'[i] = raw[i]
        /\ \A i, j \in Ids' : raw'[i] = raw'[j] => i = j
    BY StoreLaneStores
  <1>3. \A i \in Ids' \ Ids : raw'[i] \in worker[w].rows /\ i > Len(raw)
    BY StoreLaneAdds
  <1>4. worker[w].rows \subseteq Waiting
    BY <1>1 DEF LastInv, InHandIsWaiting, Waiting
  <1>5. Waiting' = Waiting
    BY <1>1 DEF Waiting
  <1>6. \A i \in Ids' \ Ids : raw'[i] \in Waiting \ Stored
    <2>1. \A i \in Ids' \ Ids : raw'[i] \notin Stored
      BY <1>2 DEF Stored
    <2> QED
      BY <1>3, <1>4, <2>1
  <1>7. Stored \subseteq Stored' /\ Stored' \subseteq Stored \cup Waiting
    <2>1. \A i \in Ids' : raw'[i] \in Stored \cup Waiting
      BY <1>2, <1>6 DEF Stored
    <2> QED
      BY <1>2, <2>1 DEF Stored
  <1>8. ExportOrder'
    <2>1. SUFFICES ASSUME NEW i \in Ids', NEW j \in Ids', i < j, SameSale(raw'[i], raw'[j])
                   PROVE  raw'[i] \notin current
      BY <1>1 DEF ExportOrder
    <2>2. CASE i \in Ids /\ j \in Ids
      BY <1>2, <2>1, <2>2 DEF LastInv, ExportOrder
    <2>3. CASE i \in Ids /\ j \notin Ids
      <3>1. raw'[i] \in Stored /\ raw'[j] \in Waiting \ Stored
        BY <1>2, <1>6, <2>3 DEF Stored
      <3> QED
        BY <2>1, <3>1 DEF LastInv, WaitingIsLast, SameSale
    <2>4. CASE i \notin Ids /\ j \notin Ids
      <3>1. raw'[i] = raw'[j]
        BY <1>6, <2>1, <2>4, WaitingNamesOnce DEF OneAtATime, TypeInv
      <3>2. i = j
        BY <1>2, <3>1
      <3> QED
        BY <2>1, <3>2 DEF Ids
    <2>5. CASE i \notin Ids /\ j \in Ids
      <3>1. i > Len(raw) /\ j <= Len(raw) /\ i \in Nat /\ j \in Nat /\ Len(raw) \in Nat
        BY <1>3, <2>5 DEF Ids, TypeInv, TypeOK
      <3> QED
        BY <2>1, <3>1
    <2> QED
      BY <2>2, <2>3, <2>4, <2>5
  <1>9. WaitingIsLast'
    <2>1. SUFFICES ASSUME NEW p \in Waiting, p \notin Stored', NEW q \in Stored',
                          SameSale(p, q)
                   PROVE  q \notin current
      BY <1>1, <1>5 DEF WaitingIsLast
    <2>2. CASE q \in Stored
      BY <1>7, <2>1, <2>2 DEF LastInv, WaitingIsLast
    <2>3. CASE q \in Waiting
      BY <2>1, <2>3, WaitingNamesOnce DEF OneAtATime, TypeInv
    <2> QED
      BY <1>7, <2>2, <2>3
  <1>10. AllExported'
    BY <1>1, <1>5, <1>7 DEF LastInv, AllExported
  <1>11. InHandIsWaiting'
    <2>1. Step(w, worker[w])
            \/ Step(w, [worker[w] EXCEPT !.at = "reload", !.since = Earliest(worker[w].rows)])
      BY StoreLaneStores
    <2>2. worker[w] \in Work /\ worker \in [Worker -> Work]
      BY WorkFields DEF TypeInv, TypeOK
    <2>3. worker'[w] = worker[w] \/ worker'[w].at = "reload"
      BY <2>1, <2>2 DEF Step, Work
    <2>4. \A v \in Worker : v = w
      BY DEF OneAtATime, OneWorker
    <2> QED
      BY <1>1, <2>3, <2>4 DEF LastInv, InHandIsWaiting
  <1> QED
    BY <1>8, <1>9, <1>10, <1>11 DEF LastInv

\* A step that neither exports nor stores, and after which no goroutine has rows
\* to store but those of the file that waits.
LEMMA KeepsLast ==
  ASSUME TypeInv, LastInv, UNCHANGED <<raw, current, stale>>, InHandIsWaiting',
         \A n \in FileName : folder'[n] \subseteq folder[n]
  PROVE  LastInv'
  <1>1. Ids' = Ids /\ Stored' = Stored
    BY DEF Ids, Stored
  <1>2. Waiting' \subseteq Waiting
    BY DEF Waiting, Readable
  <1> QED
    BY <1>1, <1>2 DEF LastInv, ExportOrder, WaitingIsLast, AllExported

LEMMA LastInductive ==
  ASSUME OneAtATime, TypeInv, LastInv, [Next]_vars
  PROVE  LastInv'
  <1>1. CASE UNCHANGED vars \/ \E product \in Product : AddAlias(product)
    <2>1. UNCHANGED <<folder, raw, current, stale, worker>>
      BY <1>1 DEF vars, files, database, exports, AddAlias
    <2> QED
      BY <2>1, KeepsLast DEF LastInv, InHandIsWaiting
  <1>2. ASSUME NEW n \in FileName, NEW e \in Export, DropFile(n, e)
        PROVE  LastInv'
    BY <1>2, DropFileLast
  <1>3. ASSUME NEW w \in Worker, Step(w, NoWork) \/ worker'[w].at # "store",
               UNCHANGED <<raw, current, stale>>,
               \A n \in FileName : folder'[n] \subseteq folder[n]
        PROVE  LastInv'
    <2>1. worker'[w].at # "store"
      BY <1>3 DEF Step, NoWork, TypeInv, TypeOK
    <2> QED
      BY <1>3, <2>1, KeepsLast DEF InHandIsWaiting, OneAtATime, OneWorker
  <1>4. CASE StartCore \/ Crash
    <2>1. UNCHANGED <<folder, raw, current, stale>>
      BY <1>4 DEF StartCore, Crash, files, database, exports
    <2>2. \A w \in Worker : worker'[w].at # "store"
      <3>1. CASE Crash
        BY <3>1 DEF Crash, NoWork
      <3>2. CASE StartCore
        <4>1. PICK since : Step("refresh", [NoWork EXCEPT !.at = "reload", !.since = since])
          BY <3>2 DEF StartCore
        <4> QED
          BY <3>2, <4>1 DEF StartCore, Step, NoWork, TypeInv, TypeOK, OneAtATime, OneWorker
      <3> QED
        BY <1>4, <3>1, <3>2
    <2> QED
      BY <2>1, <2>2, KeepsLast DEF InHandIsWaiting
  <1>5. ASSUME NEW w \in Worker, NEW n \in FileName, BeginFile(w, n)
        PROVE  LastInv'
    <2>1. UNCHANGED <<folder, raw, current, stale>>
      BY <1>5 DEF BeginFile, database, exports
    <2>2. PICK at \in {"reject", "store"} :
            Step(w, [NoWork EXCEPT !.at = at, !.name = n, !.rows = Readable(folder[n])])
      BY <1>5 DEF BeginFile
    <2>3. worker'[w].name = n /\ worker'[w].rows = Readable(folder[n])
      BY <2>2 DEF Step, NoWork, TypeInv, TypeOK
    <2>4. InHandIsWaiting'
      BY <2>1, <2>3 DEF InHandIsWaiting, Readable, OneAtATime, OneWorker
    <2> QED
      BY <2>1, <2>4, KeepsLast
  <1>6. ASSUME NEW w \in Worker, NEW e \in Export, BeginUpload(w, e)
        PROVE  FALSE
    BY <1>6 DEF BeginUpload, OneAtATime
  <1>7. ASSUME NEW w \in Worker, BeginRefresh(w)
        PROVE  LastInv'
    <2>1. UNCHANGED <<folder, raw, current, stale>>
      BY <1>7 DEF BeginRefresh, files, database, exports
    <2>2. worker'[w].at # "store"
      BY <1>7 DEF BeginRefresh, Step, NoWork, TypeInv, TypeOK
    <2> QED
      BY <1>3, <2>1, <2>2
  <1>8. ASSUME NEW w \in Worker, AfterMart(w)
        PROVE  Step(w, NoWork) \/ worker'[w].at # "store"
    BY <1>8, WorkFields DEF AfterMart, Step, TypeInv, TypeOK, Work
  <1>9. ASSUME NEW w \in Worker,
               \/ ReloadAliases(w) \/ ListUnresolved(w) \/ WriteRow(w)
               \/ Materialize(w) \/ MaterializeAgain(w) \/ StorageError(w)
        PROVE  LastInv'
    <2>1. UNCHANGED <<folder, raw, current, stale>>
      BY <1>9 DEF ReloadAliases, ListUnresolved, WriteRow, Materialize, MaterializeAgain,
                  StorageError, files, database, exports
    <2>2. Step(w, NoWork) \/ worker'[w].at # "store"
      <3>1. ASSUME NEW at \in {"write", "mart"}, NEW todo,
                   Step(w, [worker[w] EXCEPT !.at = at, !.todo = todo])
            PROVE  worker'[w].at # "store"
        BY <3>1, WorkFields DEF Step, TypeInv, TypeOK, Work
      <3>2. \/ Step(w, NoWork) \/ AfterMart(w) \/ Step(w, [worker[w] EXCEPT !.at = "list"])
            \/ \E at \in {"write", "mart"} : \E todo :
                 Step(w, [worker[w] EXCEPT !.at = at, !.todo = todo])
        BY <1>9 DEF ReloadAliases, ListUnresolved, WriteRow, Materialize,
                    MaterializeAgain, StorageError
      <3>3. Step(w, [worker[w] EXCEPT !.at = "list"]) => worker'[w].at # "store"
        BY WorkFields DEF Step, TypeInv, TypeOK, Work
      <3> QED
        BY <1>8, <3>1, <3>2, <3>3
    <2> QED
      BY <1>3, <2>1, <2>2
  <1>10. ASSUME NEW w \in Worker, Archive(w) \/ RejectFile(w)
         PROVE  LastInv'
    <2>1. UNCHANGED <<raw, current, stale>> /\ Step(w, NoWork)
          /\ folder' = [folder EXCEPT ![worker[w].name] = NoFile]
      BY <1>10 DEF Archive, RejectFile, MoveAway, database, exports
    <2>2. \A n \in FileName : folder'[n] \subseteq folder[n]
      BY <2>1 DEF TypeInv, TypeOK, NoFile
    <2> QED
      BY <1>3, <2>1, <2>2
  <1>11. ASSUME NEW w \in Worker, StoreLane(w)
         PROVE  LastInv'
    BY <1>11, StoreLaneLast
  <1> QED
    BY <1>1, <1>2, <1>4, <1>5, <1>6, <1>7, <1>9, <1>10, <1>11 DEF Next, Ingesting

\* If one goroutine takes one file at a time and the POS takes nothing back, the
\* last export of a sale is never set aside for an earlier one, whatever crash or
\* storage error cuts a run short and in whatever order the rows of a file are
\* stored.
THEOREM LastExportWins ==
  ASSUME OneAtATime, KeepsProduct
  PROVE  Spec => []LastExportStands
  <1>1. Init => TypeInv /\ SaleKept /\ NewestInv /\ LastInv
    <2>1. ASSUME Init PROVE SaleKept /\ NewestInv /\ LastInv
      <3>1. Ids = {} /\ Stored = {} /\ Waiting = {}
        BY <2>1 DEF Init, Ids, Stored, Waiting, Readable, NoFile
      <3> QED
        BY <2>1, <3>1 DEF Init, SaleKept, NewestInv, ListIsComplete, InOrder, NewestWins,
           LastInv, ExportOrder, WaitingIsLast, AllExported, InHandIsWaiting, NoWork
    <2> QED
      BY <2>1, TypeInvInit
  <1>2. TypeInv /\ SaleKept /\ NewestInv /\ LastInv /\ [Next]_vars
          => TypeInv' /\ SaleKept' /\ NewestInv' /\ LastInv'
    BY TypeInvInductive, SaleKeptInductive, NewestInductive, LastInductive DEF OneAtATime
  <1>3. TypeInv /\ SaleKept /\ NewestInv /\ LastInv => LastExportStands
    <2>1. SUFFICES ASSUME TypeInv, SaleKept, NewestInv, LastInv, NEW id \in superseded
                   PROVE  raw[id] \notin current
      BY DEF LastExportStands
    <2>2. PICK s \in sales : SameSale(raw[s], raw[id])
      BY <2>1 DEF SaleKept
    <2>3. id < s /\ id \in Ids /\ s \in Ids
      BY <2>1, <2>2 DEF NewestInv, NewestWins, TypeInv, TypeOK
    <2> QED
      BY <2>1, <2>2, <2>3 DEF LastInv, ExportOrder, SameSale
  <1> QED
    BY <1>1, <1>2, <1>3, PTL DEF Spec
=============================================================================

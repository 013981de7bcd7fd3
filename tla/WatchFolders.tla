---------------------------- MODULE WatchFolders ----------------------------
(***************************************************************************)
(* The folders a station reads exports from: the table the Data page       *)
(* changes (internal/storage/sources.go, internal/web/data_handlers.go)    *)
(* and the running watcher that is made to match it (csvwatch).  A request *)
(* writes one row, then applies the whole table: it reads the folders that *)
(* are on, drops what is watched and not wanted, watches what is wanted    *)
(* and not watched, and records against each folder why it could not be.   *)
(* Start-up applies the table the same way.  Applies are not serialised:   *)
(* only the watcher's map is behind a lock, one access at a time.          *)
(*                                                                         *)
(* Abstractions: a path is a folder; labels and the reading of the files   *)
(* (module Ingest) are left out; a share is reachable or not, and one that *)
(* goes down may take the operating system's notifications with it.        *)
(***************************************************************************)
EXTENDS CoreProcess

CONSTANTS
  Folder,    \* folders the owner may name, and FuelMind's own
  BuiltIn    \* pos_drop

ASSUME FolderAssumption == IsFiniteSet(Folder) /\ BuiltIn \in Folder

VARIABLES
  table,      \* pos_watch_folders: "none", "on" or "off"
  told,       \* folders whose row has a last_error
  reachable,  \* folders that exist and can be written to
  watched,    \* Watcher.folders
  notified,   \* folders added to the fsnotify watcher
  loop,       \* whose context the event loop runs under: a worker, "none", "ended"
  apply,      \* the apply each worker has under way
  torn        \* history: may what runs differ from what is saved?

folderVars == <<table, told, reachable, watched, notified, loop, apply, torn>>

Idle == [at |-> "idle", want |-> {}, todo |-> {}, bad |-> {}, f |-> BuiltIn]
Apply == [at : {"idle", "read", "have", "unwatch", "remove", "watch", "register", "tell"},
          want : SUBSET Folder, todo : SUBSET Folder, bad : SUBSET Folder, f : Folder]

FoldersTypeOK ==
  /\ table \in [Folder -> {"none", "off", "on"}]
  /\ told \in SUBSET Folder /\ reachable \in SUBSET Folder
  /\ watched \in SUBSET Folder /\ notified \in SUBSET Folder
  /\ loop \in Worker \cup {"none", "ended"}
  /\ apply \in [Worker -> Apply] /\ torn \in BOOLEAN

\* FuelMind's own folder is registered before the owner can name another.
FoldersInit ==
  /\ table \in {t \in [Folder -> {"none", "on"}] :
                t[BuiltIn] = "none" => t = [f \in Folder |-> "none"]}
  /\ told = {}
  /\ reachable \in {r \in SUBSET Folder : BuiltIn \in r}
  /\ watched = {} /\ notified = {} /\ loop = "none"
  /\ apply = [w \in Worker |-> Idle] /\ torn = FALSE

-----------------------------------------------------------------------------
(* The rows: one statement each, and then the worker applies the table.    *)

On == {f \in Folder : table[f] = "on"}
At(w, step) == apply[w].at = step
Others(w) == \E v \in Worker \ {w} : apply[v].at # "idle"
Go(w, rec) == apply' = [apply EXCEPT ![w] = rec]
Step(w, step) == [apply[w] EXCEPT !.at = step]

\* A change that another worker's apply may have missed tears.
Changed(w, f, state) ==
  /\ At(w, "idle") /\ Go(w, Step(w, "read"))
  /\ table' = [table EXCEPT ![f] = state]
  /\ torn' = (torn \/ Others(w))
  /\ UNCHANGED <<reachable, watched, notified, loop>>

\* addWatchFolder: the folder is there and can be written to.
AddWatchFolder(b, f) ==
  f \in reachable /\ Changed(b, f, "on") /\ UNCHANGED told
\* setWatchFolderEnabled; the page may be older than the removal of the row.
SetWatchFolderEnabled(b, f, state) ==
  /\ Changed(b, f, IF table[f] = "none" THEN "none" ELSE state)
  /\ told' = told \ {f}
\* removeWatchFolder: FuelMind's own folder is kept.
RemoveWatchFolder(b, f) ==
  /\ table[f] # "none" /\ f # BuiltIn
  /\ Changed(b, f, "none") /\ told' = told \ {f}
\* EnsureBuiltInWatchFolder, at start-up; the table is applied even if it fails.
EnsureBuiltIn(ok) ==
  /\ Changed(Boot, BuiltIn, IF ok /\ table[BuiltIn] = "none" THEN "on" ELSE table[BuiltIn])
  /\ UNCHANGED told

-----------------------------------------------------------------------------
(* applyWatchFolders and Watcher.Reconcile.                                *)

\* The end of a request ends an event loop that was started under its context.
Finish(w) ==
  /\ Go(w, Idle)
  /\ loop' = IF w # Boot /\ loop = w THEN "ended" ELSE loop

\* The list of an apply that runs alone is the table's until it ends.
EnabledWatchFolders(w) ==
  /\ At(w, "read")
  /\ Go(w, [Step(w, "have") EXCEPT !.want = On])
  /\ torn' = (torn /\ Others(w))
  /\ UNCHANGED <<table, told, reachable, watched, notified, loop>>

\* (mutant: what is no longer wanted stays watched)
FoldersNone(w) ==
  /\ At(w, "have") /\ Go(w, Step(w, "unwatch"))
  /\ UNCHANGED <<table, told, reachable, watched, notified, loop, torn>>

Folders(w) ==
  /\ At(w, "have")
  /\ Go(w, [Step(w, "unwatch") EXCEPT !.todo = watched \ apply[w].want])
  /\ UNCHANGED <<table, told, reachable, watched, notified, loop, torn>>

Unwatch(w, f) ==
  /\ At(w, "unwatch") /\ f \in apply[w].todo
  /\ watched' = watched \ {f}
  /\ Go(w, [Step(w, "remove") EXCEPT !.f = f])
  /\ UNCHANGED <<table, told, reachable, notified, loop, torn>>
UnwatchNotify(w) ==
  /\ At(w, "remove") /\ notified' = notified \ {apply[w].f}
  /\ Go(w, [Step(w, "unwatch") EXCEPT !.todo = @ \ {apply[w].f}, !.f = BuiltIn])
  /\ UNCHANGED <<table, told, reachable, watched, loop, torn>>
Unwatched(w) ==
  /\ At(w, "unwatch") /\ apply[w].todo = {}
  /\ Go(w, [Step(w, "watch") EXCEPT !.todo = apply[w].want])
  /\ UNCHANGED <<table, told, reachable, watched, notified, loop, torn>>

\* Watch: already watched, out of reach, or added to the fsnotify watcher
\* and, after that, to the map.
WatchAlready(w, f) ==
  /\ At(w, "watch") /\ f \in apply[w].todo /\ f \in watched
  /\ Go(w, [apply[w] EXCEPT !.todo = @ \ {f}])
  /\ UNCHANGED <<table, told, reachable, watched, notified, loop, torn>>
WatchFails(w, f) ==
  /\ At(w, "watch") /\ f \in apply[w].todo \ (watched \cup reachable)
  /\ Go(w, [apply[w] EXCEPT !.todo = @ \ {f}, !.bad = @ \cup {f}])
  /\ UNCHANGED <<table, told, reachable, watched, notified, loop, torn>>
Watch(w, f) ==
  /\ At(w, "watch") /\ f \in (apply[w].todo \ watched) \cap reachable
  /\ notified' = notified \cup {f}
  /\ Go(w, [Step(w, "register") EXCEPT !.f = f])
  /\ UNCHANGED <<table, told, reachable, watched, loop, torn>>
WatchRegister(w) ==
  /\ At(w, "register") /\ watched' = watched \cup {apply[w].f}
  /\ loop' = IF loop = "none" THEN w ELSE loop
  /\ Go(w, [Step(w, "watch") EXCEPT !.todo = @ \ {apply[w].f}, !.f = BuiltIn])
  /\ UNCHANGED <<table, told, reachable, notified, torn>>
Watched(w) ==
  /\ At(w, "watch") /\ apply[w].todo = {}
  /\ Go(w, [Step(w, "tell") EXCEPT !.todo = apply[w].want])
  /\ UNCHANGED <<table, told, reachable, watched, notified, loop, torn>>

\* (mutant: only failures are recorded, and never taken back)
SetWatchFolderErrorOnly(w, f) ==
  /\ At(w, "tell") /\ f \in apply[w].todo
  /\ told' = IF f \in apply[w].bad /\ table[f] # "none" THEN told \cup {f} ELSE told
  /\ Go(w, [apply[w] EXCEPT !.todo = @ \ {f}])
  /\ UNCHANGED <<table, reachable, watched, notified, loop, torn>>
\* One UPDATE for each folder that was wanted, if it still has a row.
SetWatchFolderError(w, f) ==
  /\ At(w, "tell") /\ f \in apply[w].todo
  /\ told' = IF f \in apply[w].bad /\ table[f] # "none" THEN told \cup {f} ELSE told \ {f}
  /\ Go(w, [apply[w] EXCEPT !.todo = @ \ {f}])
  /\ UNCHANGED <<table, reachable, watched, notified, loop, torn>>
Applied(w) ==
  /\ At(w, "tell") /\ apply[w].todo = {} /\ Finish(w)
  /\ UNCHANGED <<table, told, reachable, watched, notified, torn>>

ApplyStep(w) ==
  \/ EnabledWatchFolders(w) \/ Folders(w) \/ UnwatchNotify(w) \/ Unwatched(w)
  \/ WatchRegister(w) \/ Watched(w) \/ Applied(w)
  \/ \E f \in Folder : \/ Unwatch(w, f) \/ WatchAlready(w, f) \/ WatchFails(w, f)
                       \/ Watch(w, f) \/ SetWatchFolderError(w, f)

-----------------------------------------------------------------------------
(* Faults.                                                                 *)

\* A statement fails: nothing is applied, or this folder's row is not updated.
ApplyStatementFails(w) ==
  /\ torn' = TRUE
  /\ UNCHANGED <<table, told, reachable, watched, notified>>
  /\ \/ At(w, "read") /\ Finish(w)
     \/ \E f \in apply[w].todo :
          At(w, "tell") /\ Go(w, [apply[w] EXCEPT !.todo = @ \ {f}]) /\ UNCHANGED loop
\* The browser has gone: every statement that is left fails.
ApplyCancelled(b) ==
  /\ apply[b].at \in {"read", "tell"} /\ Finish(b) /\ torn' = TRUE
  /\ UNCHANGED <<table, told, reachable, watched, notified>>
ShareDown(f) ==
  /\ f \in reachable \ {BuiltIn} /\ reachable' = reachable \ {f}
  /\ notified' \in {notified, notified \ {f}}
  /\ UNCHANGED <<table, told, watched, loop, apply, torn>>
ShareUp(f) ==
  /\ f \notin reachable /\ reachable' = reachable \cup {f}
  /\ UNCHANGED <<table, told, watched, notified, loop, apply, torn>>
\* The process ends: the rows remain.
FoldersGone ==
  /\ watched' = {} /\ notified' = {} /\ loop' = "none"
  /\ apply' = [w \in Worker |-> Idle] /\ torn' = FALSE
  /\ UNCHANGED <<table, told, reachable>>

-----------------------------------------------------------------------------
\* What the Data page says is what runs: no apply is under way, and the last
\* one neither missed a change nor had a statement fail.
FoldersApplied ==
  core = "serving" /\ ~torn /\ (\A w \in Worker : At(w, "idle")) => watched = On \ told
=============================================================================

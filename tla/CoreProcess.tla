---------------------------- MODULE CoreProcess -----------------------------
(***************************************************************************)
(* The core process of a station (cmd/fuelmind-core): the order in which   *)
(* run starts its parts, and who works in it.  Start-up is one goroutine,  *)
(* here the worker Boot; once the dashboard listens, each request of a     *)
(* browser is a worker of its own.  A stop ends them all and loses what is *)
(* only in memory.                                                         *)
(***************************************************************************)
EXTENDS Integers, Sequences, FiniteSets

CONSTANTS
  Browser,     \* browsers, each with at most one request under way
  FaultKinds,  \* which of "stop", "cancel", "storage" and "share" may happen
  MaxEvents    \* bound on the requests, faults, upgrades and backups together

Boot == "boot"
Worker == Browser \cup {Boot}

ASSUME BrowserAssumption == IsFiniteSet(Browser) /\ Boot \notin Browser
ASSUME EventsAssumption ==
  MaxEvents \in Nat /\ FaultKinds \subseteq {"stop", "cancel", "storage", "share"}

VARIABLES
  core,    \* how far run has come
  events   \* requests, faults, upgrades and backups so far

coreVars == <<core, events>>

\* "flag" follows the rewriting of the phone numbers, "mart" is the catching
\* up, "model" builds the router, "folders" registers FuelMind's own folder and
\* "applying" makes the watcher match the table.
Phase == {"down", "schema", "phones", "flag", "mart", "model", "folders", "applying",
          "serving"}
CoreTypeOK == core \in Phase /\ events \in 0..MaxEvents
CoreInit == core = "down" /\ events = 0

\* The next phase of run, and one more event of those that are bounded.
Goes(from, to) == core = from /\ core' = to
Spend == events < MaxEvents /\ events' = events + 1
Fault(kind) == kind \in FaultKinds /\ Spend
=============================================================================

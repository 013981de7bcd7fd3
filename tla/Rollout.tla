------------------------------ MODULE Rollout -------------------------------
(***************************************************************************)
(* What the launcher promises about the version a station runs, without    *)
(* files, goroutines or restarts: versions move forward one at a time, the *)
(* version that ran before is armed as the fallback first, and going back  *)
(* leads to exactly that version and bans the one that was left.           *)
(***************************************************************************)
EXTENDS Naturals

CONSTANTS Version, Bundled, None

VARIABLES active, fallback, banned

Init == active = None /\ fallback = None /\ banned = {}

\* The first version of a fresh station.
Found(v) ==
  /\ active = None
  /\ active' = v
  /\ UNCHANGED <<fallback, banned>>

Arm ==
  /\ active # None
  /\ fallback' = active
  /\ UNCHANGED <<active, banned>>

\* Only the installer package may bring a banned version back.
Advance(v) ==
  /\ fallback = active
  /\ v > active
  /\ v \notin banned \/ v \in Bundled
  /\ active' = v
  /\ UNCHANGED <<fallback, banned>>

Revert ==
  /\ fallback \notin {None, active}
  /\ active' = fallback
  /\ banned' = banned \cup {active}
  /\ UNCHANGED fallback

Next == (\E v \in Version : Found(v) \/ Advance(v)) \/ Arm \/ Revert

Spec == Init /\ [][Next]_<<active, fallback, banned>>
=============================================================================

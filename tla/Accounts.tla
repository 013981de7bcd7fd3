------------------------------ MODULE Accounts ------------------------------
(***************************************************************************)
(* The people who may sign in to a station's dashboard: their accounts and *)
(* PINs (internal/auth, internal/storage), their sessions, the requests to *)
(* reset a PIN, and the pages that change them (internal/web: setup, login,*)
(* People, Account), with the command line's reset-pin.                    *)
(*                                                                         *)
(* A request of a browser is a sequence of SQL statements; nothing but one *)
(* statement or one transaction is atomic, and requests interleave.  The   *)
(* reads with which a request begins (its session, the account its form    *)
(* names) are taken together.                                              *)
(*                                                                         *)
(* Abstractions: a PIN is the number of times the account's PIN has been   *)
(* set, and a PIN that is typed is right or wrong when it is compared; a   *)
(* browser holds one session, the one its cookie names; display names, the *)
(* wording of the activity log and its entries about sign-ins are left out.*)
(***************************************************************************)
EXTENDS Integers, Sequences, FiniteSets

CONSTANTS
  Browser,       \* browsers, each with at most one request under way
  Name,          \* sign-in names
  Owners,        \* names of the owners of a station that has been set up
  MaxAccounts,   \* bound on the accounts ever created
  MaxEvents,     \* bound on the requests, but for right sign-ins, and the faults
  MaxFailed,     \* MaxFailedAttempts
  FaultKinds     \* which of "stop", "cancel" and "storage" may happen

OwnerUsername == "owner"
Tool == "tool"   \* fuelmind-setup reset-pin, a process of its own
BuiltIn == 1     \* the id of the account the migrations create

Worker == Browser \cup {Tool}
Id == 1..MaxAccounts
Role == {"owner", "staff"}

ASSUME NameAssumption == OwnerUsername \in Name /\ Tool \notin Browser
ASSUME OwnersAssumption ==
  /\ Owners \in Seq(Name) /\ Len(Owners) \in 1..MaxAccounts
  /\ Owners[BuiltIn] = OwnerUsername
  /\ \A i, j \in 1..Len(Owners) : Owners[i] = Owners[j] => i = j
ASSUME BrowserAssumption == IsFiniteSet(Browser)
ASSUME LimitAssumption ==
  /\ MaxAccounts \in Nat \ {0} /\ MaxEvents \in Nat /\ MaxFailed \in Nat \ {0}
  /\ FaultKinds \subseteq {"stop", "cancel", "storage"}

VARIABLES
  users,      \* dashboard_users, by id
  sessions,   \* the auth_sessions row a browser's cookie names
  resets,     \* accounts with a pending row in pin_reset_requests
  resolved,   \* its other rows, as <<user_id, resolved_by>>
  work,       \* the request each browser, or the tool, has under way
  requests,   \* requests so far, but for sign-ins with the right PIN
  faults,     \* faults so far
  overlapped, \* history: have two requests to weaken an owner overlapped?
  resetup,    \* history: has a setup page replaced the PIN of another one?
  orphaned,   \* history: requests under way by or for an account as it was removed
  unlogged    \* history: changes that never reached the activity log

history == <<overlapped, resetup, orphaned, unlogged>>
vars == <<users, sessions, resets, resolved, work, requests, faults, history>>

-----------------------------------------------------------------------------
(* The tables.                                                             *)

Account ==
  [state : {"free", "live", "removed"}, name : Name, role : Role,
   active : BOOLEAN, pin : Nat, failed : Nat, locked : BOOLEAN]
New(n, r) ==
  [state |-> "live", name |-> n, role |-> r,
   active |-> TRUE, pin |-> 0, failed |-> 0, locked |-> FALSE]

Live(i) == i \in Id /\ users[i].state = "live"
Named(n) == {i \in Id : Live(i) /\ users[i].name = n}
ActiveOwner(i) == Live(i) /\ users[i].role = "owner" /\ users[i].active
\* The other owners who may sign in.
\* (mutant: an owner who is switched off counts too)
OthersAtAll(i) == {j \in Id \ {i} : Live(j) /\ users[j].role = "owner"}
Others(i) == {j \in Id \ {i} : ActiveOwner(j)}

NoSession == [user |-> 0, pin |-> 0, late |-> FALSE]
Session == [user : 0..MaxAccounts, pin : Nat, late : BOOLEAN]
\* late: the PIN it was opened with had been replaced by then
SignedOut(gone) == [b \in Browser |->
  IF sessions[b].user \in gone THEN NoSession ELSE sessions[b]]

\* CurrentUser: the person a browser's requests are made by.
CurrentUser(b) == {i \in Id : sessions[b].user = i /\ Live(i) /\ users[i].active}

\* The built-in account's PIN stands for the station's: IsPINSet.
IsPINSet == \E i \in Named(OwnerUsername) : users[i].pin # 0

-----------------------------------------------------------------------------
(* Requests.                                                               *)

Doing(at, why, me, id, name) ==
  [at |-> at, why |-> why, me |-> me, id |-> id, name |-> name,
   role |-> "staff", on |-> TRUE, pin |-> 0, found |-> 0]
NoWork == Doing("idle", "", 0, 0, OwnerUsername)
Work ==
  [at : {"idle", "success", "failure", "lock", "session", "enter", "create",
         "count", "others", "update", "remove", "pin", "signout", "clear", "off", "resolve",
         "audit"},
   why : {"", "login", "setup", "tool", "own", "add", "update", "remove", "pin",
          "approve", "dismiss"},
   me : 0..MaxAccounts, id : 0..MaxAccounts, name : Name, role : Role,
   on : BOOLEAN, pin : Nat, found : 0..MaxAccounts]

Idle(w) == work[w] = NoWork
Step(w, at) == work' = [work EXCEPT ![w].at = at]
Finish(w) == work' = [work EXCEPT ![w] = NoWork]
Begin(w, what) == Idle(w) /\ work' = [work EXCEPT ![w] = what]
Request == requests + faults < MaxEvents /\ requests' = requests + 1
Change(w, what) == Request /\ Begin(w, what)

\* Would this request, past its count of the owners, leave one fewer?
Weakens(what) ==
  \/ what.at = "remove"
  \/ what.at = "update" /\ ~(what.role = "owner" /\ what.on)

\* Has this request changed something the activity log does not have yet?
Owed(what) ==
  \/ what.at \in {"clear", "off", "audit"}
  \/ what.at = "signout" /\ what.why # "tool"
  \/ what.at = "resolve" /\ what.why = "approve"
  \/ what.why = "add" /\ what.at \in {"pin", "count", "others", "remove"}

\* The request reports an error, or is cut short.
Quit(w) ==
  /\ Finish(w)
  /\ unlogged' = unlogged + (IF Owed(work[w]) THEN 1 ELSE 0)

TypeOK ==
  /\ users \in [Id -> Account]
  /\ \A i, j \in Id :  \* UNIQUE username
       Live(i) /\ Live(j) /\ users[i].name = users[j].name => i = j
  /\ sessions \in [Browser -> Session]
  /\ \A b \in Browser : sessions[b].user # 0 => Live(sessions[b].user)  \* foreign keys
  /\ resets \subseteq {i \in Id : Live(i)}
  /\ resolved \subseteq {i \in Id : Live(i)} \X {i \in Id : Live(i)}
  /\ work \in [Worker -> Work]
  /\ requests \in Nat /\ faults \in Nat /\ requests + faults <= MaxEvents
  /\ overlapped \in BOOLEAN /\ resetup \in BOOLEAN
  /\ orphaned \in Nat /\ unlogged \in Nat

\* A behaviour begins on first run, or at a station with the owners Owners
\* besides, who have all chosen a PIN (first run leads there, request by request).
Started(owners) ==
  [i \in Id |-> IF i \in owners
     THEN [New(Owners[i], "owner") EXCEPT !.pin = IF owners = {BuiltIn} THEN 0 ELSE 1]
     ELSE [New(OwnerUsername, "owner") EXCEPT !.state = "free"]]

Init ==
  /\ \E owners \in {{BuiltIn}, DOMAIN Owners} : users = Started(owners)
  /\ sessions = [b \in Browser |-> NoSession]
  /\ resets = {} /\ resolved = {}
  /\ work = [w \in Worker |-> NoWork]
  /\ requests = 0 /\ faults = 0
  /\ overlapped = FALSE /\ resetup = FALSE /\ orphaned = 0 /\ unlogged = 0

-----------------------------------------------------------------------------
(* Signing in: the login form and, on first run, the setup page.           *)

\* LoginAs compares a PIN only for such an account.
MayLogin(i) == Live(i) /\ users[i].active /\ users[i].pin # 0 /\ ~users[i].locked

BeginLogin(b, i, right) ==
  /\ IsPINSet /\ MayLogin(i)
  /\ LET typed(at) == [Doing(at, "login", 0, i, users[i].name) EXCEPT !.pin = users[i].pin]
     IN IF right THEN Begin(b, typed("success")) /\ UNCHANGED requests
        ELSE Change(b, typed("failure"))
  /\ UNCHANGED <<users, sessions, resets, resolved, faults, history>>

\* RecordLoginFailure, its first statement; the request goes on to the second
\* when the counter has reached the limit.
RecordFailure(w) ==
  /\ work[w].at = "failure"
  /\ \/ /\ Named(work[w].name) = {} /\ Finish(w) /\ UNCHANGED users
     \/ \E i \in Named(work[w].name) :
          /\ users' = [users EXCEPT ![i].failed = @ + 1]
          /\ IF users[i].failed + 1 >= MaxFailed THEN Step(w, "lock") ELSE Finish(w)
  /\ UNCHANGED <<sessions, resets, resolved, requests, faults, history>>

Lock(w) ==
  /\ work[w].at = "lock"
  /\ users' = [i \in Id |-> IF i \in Named(work[w].name)
                 THEN [users[i] EXCEPT !.failed = 0, !.locked = TRUE] ELSE users[i]]
  /\ Finish(w)
  /\ UNCHANGED <<sessions, resets, resolved, requests, faults, history>>

RecordSuccess(w) ==
  /\ work[w].at = "success"
  /\ users' = [i \in Id |-> IF i \in Named(work[w].name)
                 THEN [users[i] EXCEPT !.failed = 0, !.locked = FALSE] ELSE users[i]]
  /\ Step(w, "session")
  /\ UNCHANGED <<sessions, resets, resolved, requests, faults, history>>

\* (mutant: the foreign key is not enforced)
CreateSessionUnchecked(b) ==
  /\ work[b].at = "session"
  /\ sessions' = [sessions EXCEPT ![b] = [user |-> work[b].id, pin |-> work[b].pin,
                                         late |-> FALSE]]
  /\ Finish(b)
  /\ UNCHANGED <<users, resets, resolved, requests, faults, history>>

\* The account is the one read when the request began; nothing is read again.
CreateSession(b) ==
  /\ work[b].at = "session"
  /\ IF Live(work[b].id)
     THEN sessions' = [sessions EXCEPT ![b] =
            [user |-> work[b].id, pin |-> work[b].pin,
             late |-> users[work[b].id].pin # work[b].pin]]
     ELSE UNCHANGED sessions   \* the foreign key refuses it
  /\ Finish(b)
  /\ UNCHANGED <<users, resets, resolved, requests, faults, history>>

BeginSetup(b) ==
  /\ \E i \in Named(OwnerUsername) : users[i].pin = 0
  /\ Change(b, Doing("pin", "setup", 0, 0, OwnerUsername))
  /\ UNCHANGED <<users, sessions, resets, resolved, faults, history>>

\* The setup page signs in with the PIN it has just set.
Enter(b) ==
  /\ work[b].at = "enter"
  /\ LET able == {i \in Named(OwnerUsername) : users[i].active /\ ~users[i].locked}
     IN \/ able = {} /\ Finish(b)
        \/ \E i \in able :
             work' = [work EXCEPT
               ![b].at = IF users[i].pin = work[b].pin THEN "success" ELSE "failure",
               ![b].id = i]
  /\ UNCHANGED <<users, sessions, resets, resolved, requests, faults, history>>

\* The row is deleted; or SessionTTL has passed, it is refused from then on and
\* the next login purges it (a request under way does not read it again).
Logout(b) ==
  /\ Idle(b) /\ sessions[b] # NoSession
  /\ sessions' = [sessions EXCEPT ![b] = NoSession]
  /\ UNCHANGED <<users, resets, resolved, work, requests, faults, history>>

\* LockoutDuration passes.
Unlock(i) ==
  /\ Live(i) /\ users[i].locked
  /\ users' = [users EXCEPT ![i].locked = FALSE]
  /\ UNCHANGED <<sessions, resets, resolved, work, requests, faults, history>>

-----------------------------------------------------------------------------
(* Setting a PIN: SetPINFor and SetupPIN.  The account is looked up by its *)
(* name at every statement.                                                *)

\* The Account page; a wrong current PIN counts as a failed login.
OwnPIN(i, right) ==
  Doing(IF right THEN "pin" ELSE "failure", "own", i, i, users[i].name)
BeginOwn(b, right) ==
  /\ \E i \in CurrentUser(b) : Change(b, OwnPIN(i, right))
  /\ UNCHANGED <<users, sessions, resets, resolved, faults, history>>

\* An owner gives someone a new PIN, of their own accord or as asked.
GivePIN(me, i, why) == Doing("pin", why, me, i, users[i].name)
BeginPIN(b, i) ==
  /\ Live(i)
  /\ \E me \in CurrentUser(b) :
       users[me].role = "owner" /\ Change(b, GivePIN(me, i, "pin"))
  /\ UNCHANGED <<users, sessions, resets, resolved, faults, history>>
BeginApprove(b, i) ==
  /\ Live(i)
  /\ \E me \in CurrentUser(b) :
       users[me].role = "owner" /\ Change(b, GivePIN(me, i, "approve"))
  /\ UNCHANGED <<users, sessions, resets, resolved, faults, history>>

BeginTool ==
  /\ Change(Tool, Doing("pin", "tool", 0, 0, OwnerUsername))
  /\ UNCHANGED <<users, sessions, resets, resolved, faults, history>>

SetDashboardUserPIN(i) ==
  users' = [users EXCEPT ![i] = [users[i] EXCEPT !.pin = @ + 1, !.failed = 0, !.locked = FALSE]]

\* The setup page goes on to sign in, the tool to sign everybody out.
SetupPIN(w) ==
  /\ work[w].at = "pin" /\ work[w].why \in {"setup", "tool"}
  /\ \/ Named(OwnerUsername) = {} /\ Finish(w) /\ UNCHANGED <<users, resetup>>
     \/ \E i \in Named(OwnerUsername) :
          /\ SetDashboardUserPIN(i)
          /\ resetup' = (resetup \/ (work[w].why = "setup" /\ users[i].pin # 0))
          /\ IF work[w].why = "setup"
             THEN work' = [work EXCEPT ![w].at = "enter", ![w].pin = users[i].pin + 1]
             ELSE Step(w, "signout")
  /\ UNCHANGED <<sessions, resets, resolved, requests, faults, overlapped, orphaned, unlogged>>

SetPINFor(b) ==
  /\ work[b].at = "pin" /\ work[b].why \in {"own", "add", "pin", "approve"}
  /\ \/ /\ Named(work[b].name) = {}
        /\ IF work[b].why = "add" THEN Step(b, "count") ELSE Finish(b)
        /\ UNCHANGED users
     \/ \E i \in Named(work[b].name) : SetDashboardUserPIN(i) /\ Step(b, "signout")
  /\ UNCHANGED <<sessions, resets, resolved, requests, faults, history>>

\* What follows the sign-out; AddUser reads the account it created again, and
\* reports an error when it is gone.
AfterSignOut(b) ==
  CASE work[b].why = "approve" -> Step(b, "resolve") /\ UNCHANGED unlogged
    [] work[b].why = "add" /\ ~Live(work[b].id) -> Quit(b)
    [] OTHER -> Step(b, "audit") /\ UNCHANGED unlogged

\* GetDashboardUser: the account is read again for its id, or is gone.
ReadAgain(b) ==
  /\ work[b].at = "signout" /\ work[b].why # "tool"
  /\ \/ Named(work[b].name) = {} /\ AfterSignOut(b)
     \/ \E i \in Named(work[b].name) :
          work' = [work EXCEPT ![b].at = "clear", ![b].found = i] /\ UNCHANGED unlogged
  /\ UNCHANGED <<users, sessions, resets, resolved, requests, faults, overlapped, resetup, orphaned>>

\* (mutant: the one who sets the PIN is signed out, not the one whose PIN it is)
SignOutMe(b) ==
  /\ work[b].at = "clear"
  /\ sessions' = SignedOut({work[b].me})
  /\ AfterSignOut(b)
  /\ UNCHANGED <<users, resets, resolved, requests, faults, overlapped, resetup, orphaned>>

SignOut(b) ==
  /\ work[b].at = "clear"
  /\ sessions' = SignedOut({work[b].found})
  /\ AfterSignOut(b)
  /\ UNCHANGED <<users, resets, resolved, requests, faults, overlapped, resetup, orphaned>>

DeleteAllSessions ==
  /\ work[Tool].at = "signout"
  /\ sessions' = [b \in Browser |-> NoSession]
  /\ Finish(Tool)
  /\ UNCHANGED <<users, resets, resolved, requests, faults, history>>

-----------------------------------------------------------------------------
(* PIN reset requests.                                                     *)

MayAsk(i) == Live(i) /\ users[i].active /\ i \notin resets

AskReset(i) ==
  /\ MayAsk(i) /\ Request
  /\ resets' = resets \cup {i}
  /\ UNCHANGED <<users, sessions, resolved, work, faults, history>>

BeginDismiss(b, i) ==
  /\ Live(i)
  /\ \E me \in CurrentUser(b) :
       /\ users[me].role = "owner"
       /\ Change(b, Doing("resolve", "dismiss", me, i, users[i].name))
  /\ UNCHANGED <<users, sessions, resets, resolved, faults, history>>

\* ResolvePINResets; when the foreign key refuses who resolved it, an approval
\* goes on without closing the request.
Resolve(b) ==
  /\ work[b].at = "resolve"
  /\ \/ /\ work[b].id \in resets => Live(work[b].me)
        /\ resets' = resets \ {work[b].id}
        /\ resolved' = resolved \cup ((resets \cap {work[b].id}) \X {work[b].me})
        /\ Step(b, "audit")
     \/ /\ work[b].id \in resets /\ ~Live(work[b].me)
        /\ IF work[b].why = "approve" THEN Step(b, "audit") ELSE Finish(b)
        /\ UNCHANGED <<resets, resolved>>
  /\ UNCHANGED <<users, sessions, requests, faults, history>>

-----------------------------------------------------------------------------
(* The People page: adding, changing and removing accounts.                *)

BeginAdd(b, n, r) ==
  /\ \E me \in CurrentUser(b) :
       /\ users[me].role = "owner"
       /\ Change(b, [Doing("create", "add", me, 0, n) EXCEPT !.role = r])
  /\ UNCHANGED <<users, sessions, resets, resolved, faults, history>>

\* Ids are never used again: a new account takes the one after the last.
CreateUser(b) ==
  /\ work[b].at = "create"
  /\ \/ Named(work[b].name) # {} /\ Finish(b) /\ UNCHANGED users
     \/ /\ Named(work[b].name) = {}
        /\ \E i \in Id :
             /\ \A j \in Id : users[j].state = "free" <=> j >= i
             /\ users' = [users EXCEPT ![i] = New(work[b].name, work[b].role)]
             /\ work' = [work EXCEPT ![b].at = "pin", ![b].id = i]
  /\ UNCHANGED <<sessions, resets, resolved, requests, faults, history>>

BeginUpdate(b, i, r, on) ==
  /\ Live(i)
  /\ \E me \in CurrentUser(b) :
       /\ users[me].role = "owner"
       /\ LET at == IF r = "owner" /\ on THEN "update" ELSE "count"
          IN Change(b, [Doing(at, "update", me, i, users[i].name) EXCEPT !.role = r, !.on = on])
  /\ UNCHANGED <<users, sessions, resets, resolved, faults, history>>

BeginRemove(b, i) ==
  /\ Live(i)
  /\ \E me \in CurrentUser(b) :
       /\ users[me].role = "owner" /\ i # me
       /\ Change(b, Doing("count", "remove", me, i, users[i].name))
  /\ UNCHANGED <<users, sessions, resets, resolved, faults, history>>

\* isLastActiveOwner says no, and the request goes on to what it is about.
NotLast(b) ==
  /\ Step(b, IF work[b].why = "update" THEN "update" ELSE "remove")
  /\ overlapped' = (overlapped \/ \E c \in Worker \ {b} : Weakens(work[c]))
  /\ UNCHANGED unlogged

\* Its first statement, the account's role; an account half made by AddUser is
\* removed the same way.
ReadRole(b) ==
  /\ work[b].at = "count"
  /\ \/ /\ ~Live(work[b].id)
        /\ Finish(b) /\ UNCHANGED <<overlapped, unlogged>>
     \/ /\ Live(work[b].id) /\ users[work[b].id].role = "owner"
        /\ Step(b, "others") /\ UNCHANGED <<overlapped, unlogged>>
     \/ /\ Live(work[b].id) /\ users[work[b].id].role # "owner"
        /\ NotLast(b)
  /\ UNCHANGED <<users, sessions, resets, resolved, requests, faults, resetup, orphaned>>

\* Its second, the other owners, whatever has become of the account itself.
CountOwners(b) ==
  /\ work[b].at = "others"
  /\ \/ Others(work[b].id) # {} /\ NotLast(b)
     \/ Others(work[b].id) = {} /\ Quit(b) /\ UNCHANGED overlapped
  /\ UNCHANGED <<users, sessions, resets, resolved, requests, faults, resetup, orphaned>>

\* UpdateUser's second statement.
UpdateUser(b) ==
  /\ work[b].at = "update"
  /\ users' = [i \in Id |-> IF Live(i) /\ i = work[b].id
                 THEN [users[i] EXCEPT !.role = work[b].role, !.active = work[b].on]
                 ELSE users[i]]
  /\ Step(b, IF work[b].on THEN "audit" ELSE "off")
  /\ UNCHANGED <<sessions, resets, resolved, requests, faults, history>>

\* (mutant: the page returns before it writes its line)
SwitchOffSilently(b) ==
  /\ work[b].at = "off"
  /\ sessions' = SignedOut({work[b].id})
  /\ Quit(b)
  /\ UNCHANGED <<users, resets, resolved, requests, faults, overlapped, resetup, orphaned>>

\* Whoever is switched off is signed out.
SwitchOff(b) ==
  /\ work[b].at = "off"
  /\ sessions' = SignedOut({work[b].id})
  /\ Step(b, "audit")
  /\ UNCHANGED <<users, resets, resolved, requests, faults, history>>

\* Requests that name an account as the one who makes them or as their subject.
About(i) == {w \in Worker : work[w] # NoWork /\ i \in {work[w].me, work[w].id}}

\* DeleteUser's transaction; the row of a PIN request the account resolved for
\* someone else still refers to it, and then nothing is removed.
DeleteUser(b) ==
  LET gone == work[b].id
  IN /\ work[b].at = "remove"
     /\ \/ /\ \E i \in Id \ {gone} : <<i, gone>> \in resolved
           /\ Quit(b)
           /\ UNCHANGED <<users, sessions, resets, resolved, orphaned>>
        \/ /\ \A i \in Id \ {gone} : <<i, gone>> \notin resolved
           /\ users' = [i \in Id |-> IF Live(i) /\ i = gone
                          THEN [users[i] EXCEPT !.state = "removed"] ELSE users[i]]
           /\ sessions' = SignedOut({gone})
           /\ resets' = resets \ {gone}
           /\ resolved' = {row \in resolved : row[1] # gone}
           /\ orphaned' = orphaned + Cardinality(About(gone) \ {b})
           /\ IF work[b].why = "add" THEN Finish(b) ELSE Step(b, "audit")
           /\ UNCHANGED unlogged
     /\ UNCHANGED <<requests, faults, overlapped, resetup>>

\* One line of the activity log; the foreign key refuses it when the one who
\* made the change has been removed meanwhile.
RecordAudit(me) == unlogged' = unlogged + (IF Live(me) THEN 0 ELSE 1)
Audit(b) ==
  /\ work[b].at = "audit"
  /\ RecordAudit(work[b].me)
  /\ Finish(b)
  /\ UNCHANGED <<users, sessions, resets, resolved, requests, faults,
                 overlapped, resetup, orphaned>>

-----------------------------------------------------------------------------
(* Faults.                                                                 *)

Fault(kind) == kind \in FaultKinds /\ requests + faults < MaxEvents /\ faults' = faults + 1

\* What is under way ends where it is; nothing of it reaches the log.
Abandon(stopped) ==
  /\ work' = [w \in Worker |-> IF w \in stopped THEN NoWork ELSE work[w]]
  /\ unlogged' = unlogged + Cardinality({w \in stopped : Owed(work[w])})
  /\ UNCHANGED <<users, sessions, resets, resolved, requests, overlapped, resetup, orphaned>>

\* The service stops, or hands off to an update; the tool is its own process.
Stop ==
  /\ Fault("stop")
  /\ \E b \in Browser : ~Idle(b)
  /\ Abandon(Browser)

\* A browser closes its request, which cancels every statement still to come;
\* the tool is interrupted.
Cancel(w) ==
  /\ Fault("cancel")
  /\ ~Idle(w)
  /\ Abandon({w})

\* A statement fails.
StatementFails(w) ==
  /\ Fault("storage")
  /\ ~Idle(w)
  /\ \/ \* AddUser takes the account back
        /\ work[w].why = "add" /\ work[w].at \in {"pin", "clear"}
        /\ Step(w, "count") /\ UNCHANGED unlogged
     \/ \* the account cannot be read again, and keeps its sessions
        /\ work[w].at = "signout" /\ work[w].why # "tool" /\ AfterSignOut(w)
     \/ \* the failure is logged, and the request goes on
        /\ \/ work[w].at = "off"
           \/ work[w].at = "resolve" /\ work[w].why = "approve"
        /\ Step(w, "audit") /\ UNCHANGED unlogged
     \/ \* the request reports an error
        /\ ~(work[w].why = "add" /\ work[w].at \in {"pin", "clear"})
        /\ ~(work[w].at = "signout" /\ work[w].why # "tool")
        /\ work[w].at # "off" /\ ~(work[w].at = "resolve" /\ work[w].why = "approve")
        /\ Quit(w)
  /\ UNCHANGED <<users, sessions, resets, resolved, requests, overlapped, resetup, orphaned>>

-----------------------------------------------------------------------------
\* What the person at a browser may ask for next, besides signing in.
MayRequest(b) == Idle(b) /\ requests + faults < MaxEvents
Requests(b) ==
  /\ MayRequest(b)
  /\ \/ BeginSetup(b)
     \/ \E right \in BOOLEAN : BeginOwn(b, right)
     \/ \E i \in Id : \/ BeginPIN(b, i) \/ BeginApprove(b, i) \/ BeginDismiss(b, i)
                     \/ BeginRemove(b, i)
     \/ \E i \in Id, r \in Role, on \in BOOLEAN : BeginUpdate(b, i, r, on)
     \/ \E n \in Name, r \in Role : BeginAdd(b, n, r)

Next ==
  \/ \E b \in Browser :
       \/ Idle(b) /\ \E i \in Id, right \in BOOLEAN : BeginLogin(b, i, right)
       \/ Requests(b)
       \/ CreateSession(b) \/ Enter(b) \/ Logout(b)
       \/ SetPINFor(b) \/ ReadAgain(b) \/ SignOut(b)
       \/ Resolve(b) \/ CreateUser(b) \/ ReadRole(b) \/ CountOwners(b)
       \/ UpdateUser(b) \/ SwitchOff(b) \/ DeleteUser(b) \/ Audit(b)
  \/ \E w \in Worker :
       \/ RecordFailure(w) \/ Lock(w) \/ RecordSuccess(w)
       \/ SetupPIN(w) \/ Cancel(w) \/ StatementFails(w)
  \/ \E i \in Id : Unlock(i) \/ AskReset(i)
  \/ BeginTool \/ DeleteAllSessions \/ Stop

Spec == Init /\ [][Next]_vars

-----------------------------------------------------------------------------
(* Safety.                                                                 *)

\* Is someone about to give this account its first PIN?
BeingAdded(i) == \E w \in Worker : work[w].why = "add" /\ work[w].id = i

\* ErrLastOwner's promise, that the station keeps somebody who can administer
\* it: whatever is added, changed and removed, an active owner is left who has a
\* PIN, is being given one, or is yet to choose it on the setup page.  Two
\* requests that weaken an owner can break it together, as each counts the
\* owners in one statement and writes in another; a fault can leave an owner
\* without a PIN, which the count does not look at.
OwnerCanSignIn ==
  \/ overlapped
  \/ \E i \in Id : /\ ActiveOwner(i)
                   /\ users[i].pin = 0 => i = BuiltIn \/ BeingAdded(i) \/ faults > 0

\* Is this request about to end the sessions of the account?
SigningOut(what, i) ==
  \/ what.at = "signout" /\ what.name = users[i].name
  \/ what.at = "clear" /\ what.found = i

\* "A PIN changed because it was shared takes effect at once": a session opened
\* with a PIN that has been replaced since is one that is about to be signed
\* out, unless a fault came between the two statements.  (A login that had
\* compared the old PIN when it was replaced opens its session late, and a
\* setup page sent twice signs nobody out: neither is ended by the change.)
SessionsCurrent ==
  \A b \in Browser :
    LET s == sessions[b]
    IN s # NoSession /\ users[s.user].pin # s.pin =>
         \/ s.late \/ faults > 0
         \/ resetup /\ users[s.user].name = OwnerUsername
         \/ \E w \in Worker : SigningOut(work[w], s.user)

\* Losing the audit line never undoes a change, but every change made on the
\* People and Account pages is in the activity log or under way, but for those
\* a fault cut short and those made by, or for, an account as it was removed.
ChangesLogged == unlogged <= faults * Cardinality(Worker) + orphaned

-----------------------------------------------------------------------------
(* Known divergences, each refuted by AccountsKnown.cfg.                   *)

\* ErrLastOwner ("nobody who can administer it"), without the excuse of the
\* overlap: two owners demote each other at the same time.
OwnerAlways == \E i \in Id : ActiveOwner(i)

\* The login page, the setup page and reset-pin all look up the account called
\* "owner" first: once another owner has removed it they fail for everybody.
LoginPageWorks == Named(OwnerUsername) # {}

\* SetPINFor "signs them out everywhere": a login that compared the old PIN
\* before it was replaced is signed in afterwards.
NoLateSession ==
  \A b \in Browser : sessions[b].late => \E w \in Worker : work[w].at \in {"signout", "clear"}

=============================================================================

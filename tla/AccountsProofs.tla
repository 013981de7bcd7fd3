--------------------------- MODULE AccountsProofs ---------------------------
(***************************************************************************)
(* Proofs about Accounts, for any number of browsers, names, accounts and  *)
(* faults.                                                                 *)
(***************************************************************************)
EXTENDS Accounts, FiniteSetTheorems, TLAPS

-----------------------------------------------------------------------------
(* Type correctness.                                                       *)

TablesOK ==
  /\ users \in [Id -> Account]
  /\ \A i, j \in Id :
       Live(i) /\ Live(j) /\ users[i].name = users[j].name => i = j
  /\ sessions \in [Browser -> Session]
  /\ \A b \in Browser : sessions[b].user # 0 => Live(sessions[b].user)
  /\ resets \subseteq {i \in Id : Live(i)}
  /\ resolved \subseteq {i \in Id : Live(i)} \X {i \in Id : Live(i)}
WorkOK == work \in [Worker -> Work]
CountsOK ==
  /\ requests \in Nat /\ faults \in Nat /\ requests + faults <= MaxEvents
  /\ overlapped \in BOOLEAN /\ resetup \in BOOLEAN
  /\ orphaned \in Nat /\ unlogged \in Nat

LEMMA Parts ==
  /\ TypeOK <=> TablesOK /\ WorkOK /\ CountsOK
  /\ TypeOK' <=> TablesOK' /\ WorkOK' /\ CountsOK'
  BY DEF TypeOK, TablesOK, WorkOK, CountsOK, Live

LEMMA Workers == Browser \subseteq Worker /\ Tool \in Worker /\ IsFiniteSet(Worker)
  BY BrowserAssumption, FS_Singleton, FS_Union DEF Worker

\* A request's next step is a request.
LEMMA WorkStep ==
  ASSUME WorkOK, NEW w \in Worker, NEW what \in Work,
         work' = [work EXCEPT ![w] = what]
  PROVE  WorkOK'
  BY DEF WorkOK, Work

At == {"idle", "success", "failure", "lock", "session", "enter", "create",
       "count", "others", "update", "remove", "pin", "signout", "clear", "off", "resolve",
       "audit"}

\* One field at a time, as the provers do not see through more.
LEMMA WorkWith ==
  ASSUME NEW what \in Work
  PROVE  /\ \A x \in At : [what EXCEPT !.at = x] \in Work
         /\ \A x \in 0..MaxAccounts : [what EXCEPT !.id = x] \in Work
         /\ \A x \in Nat : [what EXCEPT !.pin = x] \in Work
         /\ \A x \in 0..MaxAccounts : [what EXCEPT !.found = x] \in Work
         /\ \A x \in Role : [what EXCEPT !.role = x] \in Work
         /\ \A x \in BOOLEAN : [what EXCEPT !.on = x] \in Work
  BY DEF Work, At

LEMMA AccountWith ==
  ASSUME NEW a \in Account
  PROVE  /\ \A x \in Nat : [a EXCEPT !.pin = x] \in Account
         /\ \A x \in Nat : [a EXCEPT !.failed = x] \in Account
         /\ \A x \in BOOLEAN : [a EXCEPT !.locked = x] \in Account
         /\ \A x \in Role : [a EXCEPT !.role = x] \in Account
         /\ \A x \in BOOLEAN : [a EXCEPT !.active = x] \in Account
  BY DEF Account

Reasons == {"", "login", "setup", "tool", "own", "add", "update", "remove", "pin",
            "approve", "dismiss"}

LEMMA DoingType ==
  ASSUME NEW at \in At, NEW why \in Reasons, NEW me \in 0..MaxAccounts,
         NEW id \in 0..MaxAccounts, NEW name \in Name
  PROVE  Doing(at, why, me, id, name) \in Work
  <1>1. 0 \in 0..MaxAccounts
    BY LimitAssumption
  <1> QED
    BY <1>1 DEF Doing, Work, At, Reasons, Role

LEMMA StepType ==
  ASSUME WorkOK, NEW w \in Worker, NEW at \in At, Step(w, at)
  PROVE  WorkOK'
  <1>1. work[w] \in Work
    BY DEF WorkOK
  <1>2. [work[w] EXCEPT !.at = at] \in Work
    BY <1>1 DEF Work, At
  <1>3. work' = [work EXCEPT ![w] = [work[w] EXCEPT !.at = at]]
    BY DEF Step
  <1> QED
    BY <1>2, <1>3, WorkStep

LEMMA Ids == 0 \in 0..MaxAccounts /\ Id \subseteq 0..MaxAccounts /\ BuiltIn \in Id
  BY LimitAssumption DEF Id, BuiltIn

LEMMA NoWorkType == NoWork \in Work /\ NoWork.why # "add"
  <1>1. "idle" \in At /\ "" \in Reasons
    BY DEF At, Reasons
  <1>2. NoWork \in Work
    BY <1>1, NameAssumption, Ids, DoingType DEF NoWork
  <1> QED
    BY <1>2 DEF NoWork, Doing

LEMMA FinishType ==
  ASSUME WorkOK, NEW w \in Worker, Finish(w)
  PROVE  WorkOK'
  BY WorkStep, NoWorkType DEF Finish

\* How many of some workers there are is a number.
LEMMA CardType ==
  ASSUME NEW S \in SUBSET Worker
  PROVE  Cardinality(S) \in Nat
  BY Workers, FS_Subset, FS_CardinalityType

LEMMA QuitType ==
  ASSUME WorkOK, unlogged \in Nat, NEW w \in Worker, Quit(w)
  PROVE  WorkOK' /\ unlogged' \in Nat
  BY FinishType DEF Quit

\* A step that neither creates nor removes an account, and ends sessions only.
LEMMA SameAccounts ==
  ASSUME TablesOK, users' \in [Id -> Account],
         \A i \in Id : users'[i].state = users[i].state /\ users'[i].name = users[i].name,
         sessions' \in [Browser -> Session],
         \A b \in Browser : sessions'[b].user \in {sessions[b].user, 0},
         UNCHANGED <<resets, resolved>>
  PROVE  TablesOK'
  <1>1. \A i : Live(i)' <=> Live(i)
    BY DEF Live
  <1> QED
    BY <1>1 DEF TablesOK

LEMMA SameTables ==
  ASSUME TablesOK, UNCHANGED <<users, sessions, resets, resolved>>
  PROVE  TablesOK'
  BY DEF TablesOK, Live

LEMMA SignedOutType ==
  ASSUME TablesOK, NEW gone
  PROVE  /\ SignedOut(gone) \in [Browser -> Session]
         /\ \A b \in Browser : SignedOut(gone)[b].user \in {sessions[b].user, 0}
         /\ \A b \in Browser : SignedOut(gone)[b].user \in gone => SignedOut(gone)[b].user = 0
  BY LimitAssumption DEF TablesOK, SignedOut, NoSession, Session

LEMMA NoSessionType == NoSession \in Session /\ NoSession.user = 0
  BY LimitAssumption DEF NoSession, Session

\* What a browser's session names is an account.
LEMMA CurrentUserType ==
  ASSUME NEW b, NEW i \in CurrentUser(b)
  PROVE  i \in Id /\ Live(i)
  BY DEF CurrentUser

LEMMA ChangeType ==
  ASSUME WorkOK, CountsOK, NEW w \in Worker, NEW what \in Work, Change(w, what),
         UNCHANGED <<faults, history>>
  PROVE  WorkOK' /\ CountsOK'
  <1>1. WorkOK'
    BY WorkStep DEF Change, Begin
  <1>2. CountsOK'
    BY LimitAssumption DEF Change, Request, CountsOK, history
  <1> QED
    BY <1>1, <1>2

LEMMA SetPINType ==
  ASSUME TablesOK, NEW i \in Id, SetDashboardUserPIN(i), UNCHANGED <<sessions, resets, resolved>>
  PROVE  TablesOK'
  <1>1. users' \in [Id -> Account]
    <2>1. users[i] \in Account
      BY DEF TablesOK
    <2>2. users[i].pin + 1 \in Nat
      BY <2>1 DEF Account
    <2>3. [users[i] EXCEPT !.pin = @ + 1] \in Account
      BY <2>1, <2>2, AccountWith
    <2>4. [users[i] EXCEPT !.pin = @ + 1, !.failed = 0] \in Account
      BY <2>3, AccountWith
    <2>5. [users[i] EXCEPT !.pin = @ + 1, !.failed = 0, !.locked = FALSE] \in Account
      BY <2>4, AccountWith
    <2> QED
      BY <2>5 DEF TablesOK, SetDashboardUserPIN
  <1>2. \A j \in Id : users'[j].state = users[j].state /\ users'[j].name = users[j].name
    BY DEF TablesOK, SetDashboardUserPIN, Account
  <1>3. sessions' \in [Browser -> Session] /\ \A b \in Browser : sessions'[b].user = sessions[b].user
    BY DEF TablesOK
  <1> QED
    BY <1>1, <1>2, <1>3, SameAccounts

-----------------------------------------------------------------------------
(* Each action keeps the types.                                            *)

\* A step that changes nothing but the requests under way.
LEMMA OnlyWork ==
  ASSUME TypeOK, WorkOK', UNCHANGED <<users, sessions, resets, resolved, requests, faults, history>>
  PROVE  TypeOK'
  BY Parts, SameTables DEF CountsOK, history

LEMMA BeginTypes ==
  ASSUME TypeOK, NEW w \in Worker, NEW what \in Work, Change(w, what),
         UNCHANGED <<users, sessions, resets, resolved, faults, history>>
  PROVE  TypeOK'
  BY Parts, SameTables, ChangeType

\* A step that changes accounts without creating or removing one.
LEMMA OnlyUsers ==
  ASSUME TypeOK, WorkOK', users' \in [Id -> Account],
         \A i \in Id : users'[i].state = users[i].state /\ users'[i].name = users[i].name,
         UNCHANGED <<sessions, resets, resolved, requests, faults, history>>
  PROVE  TypeOK'
  <1>1. TablesOK'
    BY Parts, SameAccounts DEF TablesOK
  <1> QED
    BY <1>1, Parts DEF CountsOK, history

LEMMA LoginType ==
  ASSUME TypeOK, NEW b \in Browser, NEW i \in Id, NEW right \in BOOLEAN, BeginLogin(b, i, right)
  PROVE  TypeOK'
  <1> DEFINE typed(at) == [Doing(at, "login", 0, i, users[i].name) EXCEPT !.pin = users[i].pin]
  <1>1. users[i].name \in Name /\ users[i].pin \in Nat /\ i \in 0..MaxAccounts
    BY DEF TypeOK, Account, Id
  <1>2. ASSUME NEW at \in At PROVE typed(at) \in Work
    <2>0. "login" \in Reasons
      BY DEF Reasons
    <2>1. Doing(at, "login", 0, i, users[i].name) \in Work
      BY <1>1, <2>0, <1>2, Ids, DoingType
    <2> QED
      BY <2>1, <1>1, WorkWith
  <1>a. typed("success") \in Work /\ typed("failure") \in Work
    BY <1>2 DEF At
  <1>3. CASE right
    <2>1. Begin(b, typed("success")) /\ UNCHANGED requests
      BY <1>3 DEF BeginLogin
    <2>2. WorkOK'
      BY <2>1, <1>a, Workers, Parts, WorkStep DEF Begin
    <2> QED
      BY <2>1, <2>2, OnlyWork DEF BeginLogin
  <1>4. CASE ~right
    <2>1. Change(b, typed("failure"))
      BY <1>4 DEF BeginLogin
    <2> HIDE DEF typed
    <2> QED
      BY <2>1, <1>a, Workers, BeginTypes DEF BeginLogin
  <1> QED
    BY <1>3, <1>4

LEMMA RecordFailureType ==
  ASSUME TypeOK, NEW w \in Worker, RecordFailure(w)
  PROVE  TypeOK'
  <1>1. CASE Finish(w) /\ UNCHANGED users
    BY <1>1, Parts, FinishType, OnlyWork DEF RecordFailure
  <1>2. ASSUME NEW i \in Named(work[w].name), users' = [users EXCEPT ![i].failed = @ + 1],
               Step(w, "lock") \/ Finish(w)
        PROVE  TypeOK'
    <2>1. i \in Id /\ users[i] \in Account
      BY DEF Named, TypeOK
    <2>2. users' \in [Id -> Account]
      BY <1>2, <2>1 DEF TypeOK, Account
    <2>3. \A j \in Id : users'[j].state = users[j].state /\ users'[j].name = users[j].name
      BY <1>2, <2>1 DEF TypeOK, Account
    <2>4. WorkOK'
      BY <1>2, Parts, StepType, FinishType DEF At
    <2> QED
      BY <2>2, <2>3, <2>4, OnlyUsers DEF RecordFailure
  <1> QED
    BY <1>1, <1>2 DEF RecordFailure

\* The second statement of a failed login, or the first of a successful one.
LEMMA CounterType ==
  ASSUME TypeOK, NEW w \in Worker, NEW named, NEW locked \in BOOLEAN,
         users' = [i \in Id |-> IF i \in named
                     THEN [users[i] EXCEPT !.failed = 0, !.locked = locked] ELSE users[i]],
         Finish(w) \/ Step(w, "session"),
         UNCHANGED <<sessions, resets, resolved, requests, faults, history>>
  PROVE  TypeOK'
  <1>1. \A i \in Id : users[i] \in Account
    BY DEF TypeOK
  <1>2. \A i \in Id : [users[i] EXCEPT !.failed = 0, !.locked = locked] \in Account
    BY <1>1 DEF Account
  <1>3. \A i \in Id : users'[i].state = users[i].state /\ users'[i].name = users[i].name
    BY <1>1 DEF Account
  <1>4. WorkOK'
    BY Parts, StepType, FinishType DEF At
  <1> QED
    BY <1>1, <1>2, <1>3, <1>4, OnlyUsers

LEMMA LockType ==
  ASSUME TypeOK, NEW w \in Worker, Lock(w) \/ RecordSuccess(w)
  PROVE  TypeOK'
  <1>1. CASE Lock(w)
    BY <1>1, CounterType DEF Lock
  <1>2. CASE RecordSuccess(w)
    BY <1>2, CounterType DEF RecordSuccess
  <1> QED
    BY <1>1, <1>2

LEMMA CreateSessionType ==
  ASSUME TypeOK, NEW b \in Browser, CreateSession(b)
  PROVE  TypeOK'
  <1>1. WorkOK'
    BY Workers, Parts, FinishType DEF CreateSession
  <1>2. CASE ~Live(work[b].id)
    BY <1>1, <1>2, OnlyWork DEF CreateSession
  <1>3. CASE Live(work[b].id)
    <2> DEFINE opened == [user |-> work[b].id, pin |-> work[b].pin,
                          late |-> users[work[b].id].pin # work[b].pin]
    <2>1. work[b] \in Work
      BY Workers DEF TypeOK
    <2>2. opened \in Session
      BY <2>1 DEF Session, Work
    <2>3. sessions' = [sessions EXCEPT ![b] = opened]
      BY <1>3 DEF CreateSession
    <2>4. TablesOK'
      BY <1>3, <2>2, <2>3, Parts DEF TablesOK, CreateSession, Live
    <2> QED
      BY <1>1, <2>4, Parts DEF CreateSession, CountsOK, history
  <1> QED
    BY <1>2, <1>3

LEMMA EnterType ==
  ASSUME TypeOK, NEW b \in Browser, Enter(b)
  PROVE  TypeOK'
  <1>1. CASE Finish(b)
    BY <1>1, Workers, Parts, FinishType, OnlyWork DEF Enter
  <1>2. ASSUME NEW i \in Id, NEW at \in At,
               work' = [work EXCEPT ![b].at = at, ![b].id = i]
        PROVE  WorkOK'
    <2>1. work[b] \in Work
      BY Workers DEF TypeOK
    <2>2. [work[b] EXCEPT !.at = at] \in Work
      BY <2>1, WorkWith
    <2>3. [work[b] EXCEPT !.at = at, !.id = i] \in Work
      BY <2>2, Ids, WorkWith
    <2>4. work' = [work EXCEPT ![b] = [work[b] EXCEPT !.at = at, !.id = i]]
      BY <1>2
    <2> QED
      BY <2>3, <2>4, Workers, Parts, WorkStep
  <1>3. CASE ~Finish(b)
    <2>1. PICK i \in Named(OwnerUsername) :
            work' = [work EXCEPT
               ![b].at = IF users[i].pin = work[b].pin THEN "success" ELSE "failure",
               ![b].id = i]
      BY <1>3 DEF Enter
    <2>2. WorkOK'
      BY <2>1, <1>2 DEF Named, At
    <2> QED
      BY <2>2, OnlyWork DEF Enter
  <1> QED
    BY <1>1, <1>3

\* Every request that begins on the setup, Account and People pages, or at the tool.
LEMMA BeginToolType ==
  ASSUME TypeOK, BeginTool
  PROVE  TypeOK'
  <1>1. "pin" \in At /\ "tool" \in Reasons
    BY DEF At, Reasons
  <1>2. Doing("pin", "tool", 0, 0, OwnerUsername) \in Work
    BY <1>1, Ids, NameAssumption, DoingType
  <1> QED
    BY <1>2, BeginTypes, Workers DEF BeginTool

LEMMA BeginningsType ==
  ASSUME TypeOK, NEW b \in Browser,
         \/ BeginSetup(b)
         \/ \E right \in BOOLEAN : BeginOwn(b, right)
         \/ \E i \in Id : BeginPIN(b, i) \/ BeginApprove(b, i) \/ BeginDismiss(b, i)
                          \/ BeginRemove(b, i)
         \/ \E i \in Id, r \in Role, on \in BOOLEAN : BeginUpdate(b, i, r, on)
         \/ \E n \in Name, r \in Role : BeginAdd(b, n, r)
  PROVE  TypeOK'
  <1>1. /\ {"pin", "failure", "resolve", "count", "update", "create"} \subseteq At
        /\ {"setup", "tool", "own", "pin", "approve", "dismiss", "remove", "update", "add"}
             \subseteq Reasons
    BY DEF At, Reasons
  <1>2. \A i \in Id : users[i].name \in Name /\ i \in 0..MaxAccounts
    BY Ids DEF TypeOK, Account
  <1>3. ASSUME NEW w \in Worker, NEW what \in Work, Change(w, what),
               UNCHANGED <<users, sessions, resets, resolved, faults, history>>
        PROVE  TypeOK'
    BY <1>3, BeginTypes
  <1>4. ASSUME NEW i \in Id, NEW at \in {"pin", "failure", "resolve", "count", "update"},
               NEW why \in {"own", "pin", "approve", "dismiss", "remove", "update"}
        PROVE  /\ \A me \in Id : Doing(at, why, me, i, users[i].name) \in Work
               /\ \A me \in CurrentUser(b) : Doing(at, why, me, i, users[i].name) \in Work
    BY <1>1, <1>2, DoingType, CurrentUserType
  <1>5. CASE BeginSetup(b)
    <2>1. Doing("pin", "setup", 0, 0, OwnerUsername) \in Work
      BY <1>1, Ids, NameAssumption, DoingType
    <2> QED
      BY <2>1, <1>3, <1>5, Workers DEF BeginSetup
  <1>7. ASSUME NEW right \in BOOLEAN, BeginOwn(b, right) PROVE TypeOK'
    <2>1. PICK i \in CurrentUser(b) : Change(b, OwnPIN(i, right))
      BY <1>7 DEF BeginOwn
    <2>2. OwnPIN(i, right) \in Work
      BY <1>4, CurrentUserType DEF OwnPIN
    <2> QED
      BY <2>1, <2>2, <1>3, <1>7, Workers DEF BeginOwn
  <1>8. ASSUME NEW i \in Id, BeginPIN(b, i) PROVE TypeOK'
    <2>1. PICK me \in CurrentUser(b) : Change(b, GivePIN(me, i, "pin"))
      BY <1>8 DEF BeginPIN
    <2>2. GivePIN(me, i, "pin") \in Work
      BY <1>4 DEF GivePIN
    <2> QED
      BY <2>1, <2>2, <1>3, <1>8, Workers DEF BeginPIN
  <1>9. ASSUME NEW i \in Id, BeginApprove(b, i) PROVE TypeOK'
    <2>1. PICK me \in CurrentUser(b) : Change(b, GivePIN(me, i, "approve"))
      BY <1>9 DEF BeginApprove
    <2>2. GivePIN(me, i, "approve") \in Work
      BY <1>4 DEF GivePIN
    <2> QED
      BY <2>1, <2>2, <1>3, <1>9, Workers DEF BeginApprove
  <1>10. ASSUME NEW i \in Id, BeginDismiss(b, i) PROVE TypeOK'
    <2>1. PICK me \in CurrentUser(b) : Change(b, Doing("resolve", "dismiss", me, i, users[i].name))
      BY <1>10 DEF BeginDismiss
    <2>2. Doing("resolve", "dismiss", me, i, users[i].name) \in Work
      BY <1>4
    <2> QED
      BY <2>1, <2>2, <1>3, <1>10, Workers DEF BeginDismiss
  <1>11. ASSUME NEW i \in Id, BeginRemove(b, i) PROVE TypeOK'
    <2>1. PICK me \in CurrentUser(b) : Change(b, Doing("count", "remove", me, i, users[i].name))
      BY <1>11 DEF BeginRemove
    <2>2. Doing("count", "remove", me, i, users[i].name) \in Work
      BY <1>4
    <2> QED
      BY <2>1, <2>2, <1>3, <1>11, Workers DEF BeginRemove
  <1>12. ASSUME NEW i \in Id, NEW r \in Role, NEW on \in BOOLEAN, BeginUpdate(b, i, r, on)
         PROVE  TypeOK'
    <2> DEFINE at == IF r = "owner" /\ on THEN "update" ELSE "count"
    <2>1. PICK me \in CurrentUser(b) :
            Change(b, [Doing(at, "update", me, i, users[i].name) EXCEPT !.role = r, !.on = on])
      BY <1>12 DEF BeginUpdate
    <2>2. Doing(at, "update", me, i, users[i].name) \in Work
      BY <1>4
    <2>3. [Doing(at, "update", me, i, users[i].name) EXCEPT !.role = r] \in Work
      BY <2>2, WorkWith
    <2>4. [Doing(at, "update", me, i, users[i].name) EXCEPT !.role = r, !.on = on] \in Work
      BY <2>3, WorkWith
    <2> QED
      BY <2>1, <2>4, <1>3, <1>12, Workers DEF BeginUpdate
  <1>13. ASSUME NEW n \in Name, NEW r \in Role, BeginAdd(b, n, r) PROVE TypeOK'
    <2>1. PICK me \in CurrentUser(b) : Change(b, [Doing("create", "add", me, 0, n) EXCEPT !.role = r])
      BY <1>13 DEF BeginAdd
    <2>2. Doing("create", "add", me, 0, n) \in Work
      BY <1>1, Ids, DoingType, CurrentUserType
    <2>3. [Doing("create", "add", me, 0, n) EXCEPT !.role = r] \in Work
      BY <2>2, WorkWith
    <2> QED
      BY <2>1, <2>3, <1>3, <1>13, Workers DEF BeginAdd
  <1> QED
    BY <1>5, <1>7, <1>8, <1>9, <1>10, <1>11, <1>12, <1>13

LEMMA SetupPINType ==
  ASSUME TypeOK, NEW w \in Worker, SetupPIN(w)
  PROVE  TypeOK'
  <1>1. CASE Finish(w) /\ UNCHANGED <<users, resetup>>
    BY <1>1, Parts, FinishType, OnlyWork DEF SetupPIN, history
  <1>2. CASE ~(Finish(w) /\ UNCHANGED <<users, resetup>>)
    <2>1. PICK i \in Named(OwnerUsername) :
            /\ SetDashboardUserPIN(i)
            /\ resetup' = (resetup \/ (work[w].why = "setup" /\ users[i].pin # 0))
            /\ IF work[w].why = "setup"
               THEN work' = [work EXCEPT ![w].at = "enter", ![w].pin = users[i].pin + 1]
               ELSE Step(w, "signout")
      BY <1>2 DEF SetupPIN
    <2>2. i \in Id /\ users[i] \in Account /\ work[w] \in Work
      BY DEF Named, TypeOK
    <2>3. TablesOK'
      BY <2>1, <2>2, Parts, SetPINType DEF SetupPIN
    <2>4. ASSUME work[w].why = "setup" PROVE WorkOK'
      <3>1. users[i].pin + 1 \in Nat /\ "enter" \in At
        BY <2>2 DEF Account, At
      <3>2. [work[w] EXCEPT !.at = "enter"] \in Work
        BY <2>2, <3>1, WorkWith
      <3>3. [work[w] EXCEPT !.at = "enter", !.pin = users[i].pin + 1] \in Work
        BY <3>1, <3>2, WorkWith
      <3>4. work' = [work EXCEPT ![w] = [work[w] EXCEPT !.at = "enter", !.pin = users[i].pin + 1]]
        BY <2>1, <2>4
      <3> QED
        BY <3>3, <3>4, Parts, WorkStep
    <2>5. ASSUME work[w].why # "setup" PROVE WorkOK'
      BY <2>1, <2>5, Parts, StepType DEF At
    <2>6. WorkOK'
      BY <2>4, <2>5
    <2>7. CountsOK'
      BY <2>1, Parts DEF SetupPIN, CountsOK
    <2> QED
      BY <2>3, <2>6, <2>7, Parts
  <1> QED
    BY <1>1, <1>2

LEMMA SetPINForType ==
  ASSUME TypeOK, NEW b \in Browser, SetPINFor(b)
  PROVE  TypeOK'
  <1>1. CASE UNCHANGED users /\ (Step(b, "count") \/ Finish(b))
    <2>1. WorkOK'
      BY <1>1, Workers, Parts, StepType, FinishType DEF At
    <2> QED
      BY <1>1, <2>1, OnlyWork DEF SetPINFor
  <1>2. ASSUME NEW i \in Named(work[b].name), SetDashboardUserPIN(i), Step(b, "signout")
        PROVE  TypeOK'
    <2>1. TablesOK'
      BY <1>2, Parts, SetPINType DEF SetPINFor, Named
    <2>2. WorkOK'
      BY <1>2, Workers, Parts, StepType DEF At
    <2> QED
      BY <2>1, <2>2, Parts DEF SetPINFor, CountsOK, history
  <1> QED
    BY <1>1, <1>2 DEF SetPINFor

LEMMA AfterSignOutType ==
  ASSUME TypeOK, NEW b \in Worker, AfterSignOut(b)
  PROVE  WorkOK' /\ unlogged' \in Nat
  <1>1. WorkOK /\ unlogged \in Nat
    BY Parts DEF CountsOK
  <1>2. CASE Quit(b)
    BY <1>1, <1>2, QuitType
  <1>3. CASE (Step(b, "resolve") \/ Step(b, "audit")) /\ UNCHANGED unlogged
    BY <1>1, <1>3, StepType DEF At
  <1> QED
    BY <1>2, <1>3 DEF AfterSignOut

LEMMA ReadAgainType ==
  ASSUME TypeOK, NEW b \in Browser, ReadAgain(b)
  PROVE  TypeOK'
  <1>1. WorkOK /\ b \in Worker /\ unlogged \in Nat
    BY Parts, Workers DEF CountsOK
  <1>2. CASE AfterSignOut(b)
    BY <1>1, <1>2, AfterSignOutType, Parts, SameTables DEF ReadAgain, CountsOK
  <1>3. ASSUME NEW i \in Named(work[b].name), UNCHANGED unlogged,
               work' = [work EXCEPT ![b].at = "clear", ![b].found = i]
        PROVE  TypeOK'
    <2>1. work[b] \in Work /\ i \in 0..MaxAccounts /\ "clear" \in At
      BY <1>1, Ids DEF WorkOK, Named, At
    <2>2. [work[b] EXCEPT !.at = "clear"] \in Work
      BY <2>1, WorkWith
    <2>3. [work[b] EXCEPT !.at = "clear", !.found = i] \in Work
      BY <2>1, <2>2, WorkWith
    <2>4. work' = [work EXCEPT ![b] = [work[b] EXCEPT !.at = "clear", !.found = i]]
      BY <1>3
    <2>5. WorkOK'
      BY <1>1, <2>3, <2>4, WorkStep
    <2> QED
      BY <1>1, <1>3, <2>5, Parts, SameTables DEF ReadAgain, CountsOK
  <1> QED
    BY <1>2, <1>3 DEF ReadAgain

\* A step that ends sessions.
LEMMA OnlySessions ==
  ASSUME TypeOK, WorkOK', unlogged' \in Nat, sessions' \in [Browser -> Session],
         \A b \in Browser : sessions'[b].user \in {sessions[b].user, 0},
         UNCHANGED <<users, resets, resolved, requests, faults, overlapped, resetup, orphaned>>
  PROVE  TypeOK'
  <1>1. TablesOK'
    BY Parts, SameAccounts DEF TablesOK
  <1> QED
    BY <1>1, Parts DEF CountsOK

LEMMA DeleteAllSessionsType ==
  ASSUME TypeOK, DeleteAllSessions
  PROVE  TypeOK'
  <1>1. WorkOK'
    BY Parts, Workers, FinishType DEF DeleteAllSessions
  <1>2. /\ sessions' \in [Browser -> Session]
        /\ \A c \in Browser : sessions'[c].user \in {sessions[c].user, 0}
    BY NoSessionType DEF DeleteAllSessions
  <1> QED
    BY <1>1, <1>2, OnlySessions DEF DeleteAllSessions, history, TypeOK

LEMMA SessionEndsType ==
  ASSUME TypeOK, NEW b \in Browser,
         SignOut(b) \/ Logout(b) \/ SwitchOff(b)
  PROVE  TypeOK'
  <1>1. TablesOK /\ WorkOK /\ unlogged \in Nat
    BY Parts DEF CountsOK
  <1>2. CASE SignOut(b)
    <2>1. WorkOK' /\ unlogged' \in Nat
      BY <1>2, Workers, AfterSignOutType DEF SignOut
    <2> QED
      BY <1>1, <1>2, <2>1, SignedOutType, OnlySessions DEF SignOut
  <1>4. CASE Logout(b)
    <2>1. WorkOK'
      BY <1>1, <1>4 DEF Logout, WorkOK
    <2>2. /\ sessions' \in [Browser -> Session]
          /\ \A c \in Browser : sessions'[c].user \in {sessions[c].user, 0}
      BY <1>1, <1>4, NoSessionType DEF Logout, TablesOK
    <2> QED
      BY <1>1, <1>4, <2>1, <2>2, OnlySessions DEF Logout, history
  <1>5. CASE SwitchOff(b)
    <2>1. WorkOK'
      BY <1>1, <1>5, Workers, StepType DEF SwitchOff, At
    <2> QED
      BY <1>1, <1>5, <2>1, SignedOutType, OnlySessions DEF SwitchOff, history
  <1> QED
    BY <1>2, <1>4, <1>5

LEMMA UnlockType ==
  ASSUME TypeOK, NEW i \in Id, Unlock(i)
  PROVE  TypeOK'
  <1>1. users[i] \in Account
    BY DEF TypeOK
  <1>2. [users[i] EXCEPT !.locked = FALSE] \in Account
    BY <1>1, AccountWith
  <1>3. users' = [users EXCEPT ![i] = [users[i] EXCEPT !.locked = FALSE]]
    BY DEF Unlock
  <1>4. users' \in [Id -> Account]
    BY <1>2, <1>3 DEF TypeOK
  <1>5. \A j \in Id : users'[j].state = users[j].state /\ users'[j].name = users[j].name
    BY <1>1, <1>3 DEF TypeOK, Account
  <1>6. WorkOK'
    BY Parts DEF Unlock, WorkOK
  <1> QED
    BY <1>4, <1>5, <1>6, OnlyUsers DEF Unlock

LEMMA AskResetType ==
  ASSUME TypeOK, NEW i \in Id, AskReset(i)
  PROVE  TypeOK'
  <1>1. TablesOK' /\ WorkOK'
    BY Parts DEF AskReset, MayAsk, TablesOK, WorkOK, Live
  <1>2. CountsOK'
    BY Parts, LimitAssumption DEF AskReset, Request, CountsOK, history
  <1> QED
    BY <1>1, <1>2, Parts

LEMMA ResolveType ==
  ASSUME TypeOK, NEW b \in Browser, Resolve(b)
  PROVE  TypeOK'
  <1>1. WorkOK'
    BY Workers, Parts, StepType, FinishType DEF Resolve, At
  <1>2. TablesOK'
    <2>1. resets' \subseteq {i \in Id : Live(i)} /\ UNCHANGED <<users, sessions>>
      BY DEF Resolve, TypeOK
    <2>2. resolved' \subseteq {i \in Id : Live(i)} \X {i \in Id : Live(i)}
      <3>1. CASE /\ work[b].id \in resets => Live(work[b].me)
                 /\ resolved' = resolved \cup ((resets \cap {work[b].id}) \X {work[b].me})
        BY <3>1 DEF TypeOK, Live
      <3>2. CASE UNCHANGED resolved
        BY <3>2 DEF TypeOK
      <3> QED
        BY <3>1, <3>2 DEF Resolve
    <2> QED
      BY <2>1, <2>2, Parts DEF TablesOK, Live
  <1> QED
    BY <1>1, <1>2, Parts DEF Resolve, CountsOK, history

LEMMA CreateUserType ==
  ASSUME TypeOK, NEW b \in Browser, CreateUser(b)
  PROVE  TypeOK'
  <1>1. CASE Finish(b) /\ UNCHANGED users
    BY <1>1, Workers, Parts, FinishType, OnlyWork DEF CreateUser
  <1>2. ASSUME NEW i \in Id, Named(work[b].name) = {},
               \A j \in Id : users[j].state = "free" <=> j >= i,
               users' = [users EXCEPT ![i] = New(work[b].name, work[b].role)],
               work' = [work EXCEPT ![b].at = "pin", ![b].id = i]
        PROVE  TypeOK'
    <2>1. work[b] \in Work
      BY Workers DEF TypeOK
    <2>2. New(work[b].name, work[b].role) \in Account
      BY <2>1 DEF New, Account, Work
    <2>3. users' \in [Id -> Account]
      BY <1>2, <2>2 DEF TypeOK
    <2>4. \A j \in Id : users'[j] = IF j = i THEN New(work[b].name, work[b].role) ELSE users[j]
      BY <1>2 DEF TypeOK
    <2>5. \A j : Live(j) => j # i /\ Live(j)'
      BY <1>2, <2>4 DEF Live, Id
    <2>6. TablesOK'
      <3>1. \A j, k \in Id : (Live(j) /\ Live(k))' /\ users'[j].name = users'[k].name => j = k
        <4>1. New(work[b].name, work[b].role).name = work[b].name
          BY DEF New
        <4>2. \A j \in Id : Live(j) => users[j].name # work[b].name
          BY <1>2 DEF Named
        <4>3. \A j \in Id : j # i => users'[j] = users[j] /\ (Live(j)' <=> Live(j))
          BY <2>4 DEF Live
        <4>4. users'[i].name = work[b].name
          BY <2>4, <4>1
        <4> QED
          BY <4>2, <4>3, <4>4 DEF TypeOK
      <3> QED
        BY <2>3, <2>5, <3>1 DEF TablesOK, TypeOK, CreateUser
    <2>7. WorkOK'
      <3>1. [work[b] EXCEPT !.at = "pin"] \in Work
        BY <2>1, WorkWith DEF At
      <3>2. [work[b] EXCEPT !.at = "pin", !.id = i] \in Work
        BY <3>1, Ids, WorkWith
      <3>3. work' = [work EXCEPT ![b] = [work[b] EXCEPT !.at = "pin", !.id = i]]
        BY <1>2
      <3> QED
        BY <3>2, <3>3, Workers, Parts, WorkStep
    <2> QED
      BY <2>6, <2>7, Parts DEF CreateUser, CountsOK, history
  <1> QED
    BY <1>1, <1>2 DEF CreateUser

LEMMA CountOwnersType ==
  ASSUME TypeOK, NEW b \in Browser, ReadRole(b) \/ CountOwners(b)
  PROVE  TypeOK'
  <1>1. WorkOK /\ unlogged \in Nat /\ overlapped \in BOOLEAN /\ b \in Worker
    BY Parts, Workers DEF CountsOK
  <1>2. WorkOK' /\ unlogged' \in Nat /\ overlapped' \in BOOLEAN
    <2>1. CASE /\ Step(b, IF work[b].why = "update" THEN "update" ELSE "remove")
               /\ overlapped' = (overlapped \/ \E c \in Worker \ {b} : Weakens(work[c]))
               /\ UNCHANGED unlogged
      BY <1>1, <2>1, StepType DEF At
    <2>2. CASE Step(b, "others") /\ UNCHANGED <<overlapped, unlogged>>
      BY <1>1, <2>2, StepType DEF At
    <2>3. CASE Quit(b) /\ UNCHANGED overlapped
      BY <1>1, <2>3, QuitType
    <2>4. CASE Finish(b) /\ UNCHANGED <<overlapped, unlogged>>
      BY <1>1, <2>4, FinishType
    <2> QED
      BY <2>1, <2>2, <2>3, <2>4 DEF ReadRole, CountOwners, NotLast
  <1> QED
    BY <1>2, Parts, SameTables DEF ReadRole, CountOwners, CountsOK

LEMMA UpdateUserType ==
  ASSUME TypeOK, NEW b \in Browser, UpdateUser(b)
  PROVE  TypeOK'
  <1>1. work[b].role \in Role /\ work[b].on \in BOOLEAN
    BY Workers DEF TypeOK, Work
  <1>2. ASSUME NEW i \in Id
        PROVE  /\ users'[i] \in Account
               /\ users'[i].state = users[i].state /\ users'[i].name = users[i].name
    <2> DEFINE a == users[i]
    <2>1. a \in Account
      BY DEF TypeOK
    <2>2. [a EXCEPT !.role = work[b].role] \in Account
      BY <1>1, <2>1, AccountWith
    <2>3. [a EXCEPT !.role = work[b].role, !.active = work[b].on] \in Account
      BY <1>1, <2>2, AccountWith
    <2>4. users'[i] = IF Live(i) /\ i = work[b].id
                      THEN [a EXCEPT !.role = work[b].role, !.active = work[b].on] ELSE a
      BY DEF UpdateUser
    <2>5. /\ [a EXCEPT !.role = work[b].role, !.active = work[b].on].state = a.state
          /\ [a EXCEPT !.role = work[b].role, !.active = work[b].on].name = a.name
      BY <2>1 DEF Account
    <2> QED
      BY <2>1, <2>3, <2>4, <2>5
  <1>3. users' \in [Id -> Account]
    BY <1>2 DEF UpdateUser
  <1>4. WorkOK'
    BY Workers, Parts, StepType DEF UpdateUser, At
  <1> QED
    BY <1>2, <1>3, <1>4, OnlyUsers DEF UpdateUser

LEMMA DeleteUserType ==
  ASSUME TypeOK, NEW b \in Browser, DeleteUser(b)
  PROVE  TypeOK'
  <1> DEFINE gone == work[b].id
  <1>1. TablesOK /\ WorkOK /\ unlogged \in Nat /\ orphaned \in Nat /\ b \in Worker
    BY Parts, Workers DEF CountsOK
  <1>2. CASE Quit(b) /\ UNCHANGED <<users, sessions, resets, resolved, orphaned>>
    <2>1. WorkOK' /\ unlogged' \in Nat
      BY <1>1, <1>2, QuitType
    <2> QED
      BY <1>2, <2>1, Parts, SameTables DEF DeleteUser, CountsOK
  <1>3. CASE /\ \A i \in Id \ {gone} : <<i, gone>> \notin resolved
             /\ users' = [i \in Id |-> IF Live(i) /\ i = gone
                            THEN [users[i] EXCEPT !.state = "removed"] ELSE users[i]]
             /\ sessions' = SignedOut({gone})
             /\ resets' = resets \ {gone}
             /\ resolved' = {row \in resolved : row[1] # gone}
             /\ orphaned' = orphaned + Cardinality(About(gone) \ {b})
             /\ IF work[b].why = "add" THEN Finish(b) ELSE Step(b, "audit")
             /\ UNCHANGED unlogged
    <2>1. WorkOK'
      <3>1. CASE work[b].why = "add"
        BY <1>1, <1>3, <3>1, FinishType
      <3>2. CASE work[b].why # "add"
        BY <1>1, <1>3, <3>2, StepType DEF At
      <3> QED
        BY <3>1, <3>2
    <2>2. \A i \in Id : users'[i] \in Account /\ users'[i].name = users[i].name
      <3> SUFFICES ASSUME NEW i \in Id
                   PROVE  users'[i] \in Account /\ users'[i].name = users[i].name
        OBVIOUS
      <3>1. users[i] \in Account
        BY <1>1 DEF TablesOK
      <3> QED
        BY <1>3, <3>1 DEF Account
    <2>3. \A i : Live(i)' <=> Live(i) /\ i # gone
      BY <1>1, <1>3 DEF Live, TablesOK, Account
    <2>4. TablesOK'
      <3>1. users' \in [Id -> Account]
        BY <1>3, <2>2
      <3>2. sessions' \in [Browser -> Session]
        BY <1>1, <1>3, SignedOutType
      <3>5. \A c \in Browser : (sessions[c].user # 0 => Live(sessions[c].user))'
        <4> SUFFICES ASSUME NEW c \in Browser, sessions'[c].user # 0
                     PROVE  Live(sessions[c].user)'
          OBVIOUS
        <4>1. sessions'[c].user = sessions[c].user /\ sessions[c].user # gone
          BY <1>1, <1>3, SignedOutType
        <4> QED
          BY <1>1, <2>3, <4>1 DEF TablesOK
      <3>3. resets' \subseteq {i \in Id : Live(i)'}
        BY <1>1, <1>3, <2>3 DEF TablesOK
      <3>4. resolved' \subseteq {i \in Id : Live(i)'} \X {i \in Id : Live(i)'}
        BY <1>1, <1>3, <2>3 DEF TablesOK
      <3> QED
        BY <1>1, <2>2, <2>3, <3>1, <3>2, <3>3, <3>4, <3>5 DEF TablesOK
    <2>5. Cardinality(About(gone) \ {b}) \in Nat
      BY CardType DEF About
    <2> QED
      BY <1>1, <1>3, <2>1, <2>4, <2>5, Parts DEF DeleteUser, CountsOK
  <1> QED
    BY <1>2, <1>3 DEF DeleteUser

LEMMA AuditType ==
  ASSUME TypeOK, NEW b \in Browser, Audit(b)
  PROVE  TypeOK'
  <1>1. WorkOK'
    BY Workers, Parts, FinishType DEF Audit
  <1> QED
    BY <1>1, Parts, SameTables DEF Audit, RecordAudit, CountsOK

LEMMA AbandonType ==
  ASSUME TypeOK, NEW kind, NEW stopped \in SUBSET Worker, Fault(kind), Abandon(stopped)
  PROVE  TypeOK'
  <1>1. Cardinality({w \in stopped : Owed(work[w])}) \in Nat
    BY CardType
  <1>2. WorkOK'
    BY Parts, NoWorkType DEF Abandon, WorkOK
  <1> QED
    BY <1>1, <1>2, Parts, SameTables, LimitAssumption DEF Fault, Abandon, CountsOK

LEMMA StatementFailsType ==
  ASSUME TypeOK, NEW w \in Worker, StatementFails(w)
  PROVE  TypeOK'
  <1>1. WorkOK /\ unlogged \in Nat
    BY Parts DEF CountsOK
  <1>2. CASE (Step(w, "count") \/ Step(w, "audit")) /\ UNCHANGED unlogged
    BY <1>1, <1>2, Parts, SameTables, StepType, LimitAssumption
       DEF StatementFails, Fault, CountsOK, At
  <1>3. CASE AfterSignOut(w) \/ Quit(w)
    <2>1. WorkOK' /\ unlogged' \in Nat
      BY <1>1, <1>3, AfterSignOutType, QuitType
    <2> QED
      BY <1>1, <2>1, Parts, SameTables, LimitAssumption DEF StatementFails, Fault, CountsOK
  <1> QED
    BY <1>2, <1>3 DEF StatementFails

LEMMA StutterType ==
  ASSUME TypeOK, UNCHANGED vars
  PROVE  TypeOK'
  BY Parts, SameTables DEF vars, history, CountsOK, WorkOK

LEMMA InitType ==
  ASSUME Init
  PROVE  TypeOK
  <1>1. PICK owners \in {{BuiltIn}, DOMAIN Owners} : users = Started(owners)
    BY DEF Init
  <1>2. owners \subseteq Id /\ \A i \in owners : Owners[i] \in Name /\ i \in 1..Len(Owners)
    <2>1. DOMAIN Owners = 1..Len(Owners) /\ \A i \in 1..Len(Owners) : Owners[i] \in Name
      BY OwnersAssumption
    <2>2. 1..Len(Owners) \subseteq Id /\ BuiltIn \in 1..Len(Owners)
      BY OwnersAssumption, LimitAssumption DEF Id, BuiltIn
    <2> QED
      BY <2>1, <2>2, <1>1
  <1>3. \A n \in Name : New(n, "owner") \in Account
    BY DEF New, Account, Role
  <1>4. \A i \in Id : users[i] = IF i \in owners
          THEN [New(Owners[i], "owner") EXCEPT !.pin = IF owners = {BuiltIn} THEN 0 ELSE 1]
          ELSE [New(OwnerUsername, "owner") EXCEPT !.state = "free"]
    BY <1>1 DEF Started
  <1>5. \A i \in Id : [New(OwnerUsername, "owner") EXCEPT !.state = "free"] \in Account
    BY NameAssumption, <1>3 DEF Account
  <1>6. \A i \in owners : users[i] \in Account /\ users[i].name = Owners[i]
    <2> SUFFICES ASSUME NEW i \in owners
                 PROVE  users[i] \in Account /\ users[i].name = Owners[i]
      OBVIOUS
    <2>1. New(Owners[i], "owner") \in Account
      BY <1>2, <1>3
    <2>2. users[i] = [New(Owners[i], "owner") EXCEPT !.pin = IF owners = {BuiltIn} THEN 0 ELSE 1]
      BY <1>2, <1>4
    <2>3. New(Owners[i], "owner").name = Owners[i]
      BY DEF New
    <2> QED
      BY <2>1, <2>2, <2>3, AccountWith DEF Account
  <1>7. \A i \in Id : i \notin owners => users[i].state = "free"
    BY <1>4, <1>5, NameAssumption DEF New
  <1>8. users \in [Id -> Account]
    BY <1>1, <1>4, <1>5, <1>6 DEF Started
  <1>9. \A i \in Id : Live(i) => i \in owners
    BY <1>7 DEF Live
  <1>10. \A i, j \in Id : Live(i) /\ Live(j) /\ users[i].name = users[j].name => i = j
    BY <1>2, <1>6, <1>9, OwnersAssumption
  <1>11. TablesOK
    <2>1. sessions \in [Browser -> Session] /\ \A b \in Browser : sessions[b].user = 0
      BY NoSessionType DEF Init
    <2> QED
      BY <1>8, <1>10, <2>1 DEF Init, TablesOK
  <1>12. WorkOK
    BY NoWorkType DEF Init, WorkOK
  <1>13. CountsOK
    <2>1. MaxEvents \in Nat
      BY LimitAssumption
    <2>2. requests = 0 /\ faults = 0 /\ orphaned = 0 /\ unlogged = 0
      BY DEF Init
    <2>3. overlapped \in BOOLEAN /\ resetup \in BOOLEAN
      BY DEF Init
    <2>4. requests + faults <= MaxEvents
      BY <2>1, <2>2
    <2> QED
      BY <2>2, <2>3, <2>4 DEF CountsOK
  <1> QED
    BY <1>11, <1>12, <1>13, Parts

LEMMA NextType ==
  ASSUME TypeOK, [Next]_vars
  PROVE  TypeOK'
  <1>1. ASSUME NEW b \in Browser, NEW i \in Id, NEW right \in BOOLEAN, BeginLogin(b, i, right)
        PROVE  TypeOK'
    BY <1>1, LoginType
  <1>2. ASSUME NEW b \in Browser,
               \/ CreateSession(b) \/ Enter(b) \/ Logout(b) \/ SetPINFor(b)
               \/ ReadAgain(b) \/ SignOut(b) \/ Resolve(b) \/ CreateUser(b)
               \/ ReadRole(b) \/ CountOwners(b) \/ UpdateUser(b)
               \/ SwitchOff(b) \/ DeleteUser(b) \/ Audit(b)
        PROVE  TypeOK'
    BY <1>2, CreateSessionType, EnterType, SessionEndsType, ReadAgainType, SetPINForType, ResolveType,
       CreateUserType, CountOwnersType, UpdateUserType, DeleteUserType, AuditType
  <1>3. ASSUME NEW b \in Browser,
               \/ BeginSetup(b)
               \/ \E right \in BOOLEAN : BeginOwn(b, right)
               \/ \E i \in Id : BeginPIN(b, i) \/ BeginApprove(b, i) \/ BeginDismiss(b, i)
                                \/ BeginRemove(b, i)
               \/ \E i \in Id, r \in Role, on \in BOOLEAN : BeginUpdate(b, i, r, on)
               \/ \E n \in Name, r \in Role : BeginAdd(b, n, r)
        PROVE  TypeOK'
    BY <1>3, BeginningsType
  <1>4. ASSUME NEW w \in Worker,
               RecordFailure(w) \/ Lock(w) \/ RecordSuccess(w) \/ SetupPIN(w)
        PROVE  TypeOK'
    BY <1>4, RecordFailureType, LockType, SetupPINType
  <1>5. ASSUME NEW w \in Worker, Cancel(w) PROVE TypeOK'
    BY <1>5, AbandonType DEF Cancel
  <1>6. ASSUME NEW w \in Worker, StatementFails(w) PROVE TypeOK'
    BY <1>6, StatementFailsType
  <1>7. CASE Stop
    BY <1>7, Workers, AbandonType DEF Stop
  <1>8. ASSUME NEW i \in Id, Unlock(i) PROVE TypeOK'
    BY <1>8, UnlockType
  <1>9. CASE BeginTool \/ DeleteAllSessions
    BY <1>9, BeginToolType, DeleteAllSessionsType
  <1>10. ASSUME NEW i \in Id, AskReset(i) PROVE TypeOK'
    BY <1>10, AskResetType
  <1>11. CASE UNCHANGED vars
    BY <1>11, StutterType
  <1> QED
    BY <1>1, <1>2, <1>3, <1>4, <1>5, <1>6, <1>7, <1>8, <1>9, <1>10, <1>11 DEF Next, Requests

\* The accounts, sessions, PIN requests and everything under way are what they
\* should be, sign-in names are unique, and no row refers to a removed account.
THEOREM TypeCorrect == Spec => []TypeOK
  <1>1. Init => TypeOK
    BY InitType
  <1>2. TypeOK /\ [Next]_vars => TypeOK'
    BY NextType
  <1> QED
    BY <1>1, <1>2, PTL DEF Spec

-----------------------------------------------------------------------------
(* An owner who can sign in remains.                                       *)

\* What AddUser knows of the account it is adding: it is there, under the name
\* it asked for, until it is removed; it has a PIN once that was set; and the
\* account is taken back only after a fault, or when it is gone already.
Adding(what) ==
  /\ what.at = "create" => what.why = "add" /\ what.id = 0
  /\ what.why = "add" =>
       /\ what.at \in {"create", "pin", "signout", "clear", "audit", "count", "others", "remove"}
       /\ what.id # 0 =>
            /\ what.id \in Id /\ users[what.id].state # "free"
            /\ Live(what.id) =>
                 /\ users[what.id].name = what.name
                 /\ what.at \in {"signout", "clear", "audit"} => users[what.id].pin # 0
                 /\ what.at \in {"count", "others", "remove"} => faults > 0

\* An account without a PIN is the built-in one, or is being added.
HalfMade ==
  \A i \in Id : Live(i) /\ users[i].pin = 0 =>
    i = BuiltIn \/ BeingAdded(i) \/ faults > 0

\* Until two of them overlap, only one request weakens an owner at a time, and
\* the owner it counted besides is still there.
OneAtATime ==
  overlapped \/
    /\ \E i \in Id : ActiveOwner(i)
    /\ \A w \in Worker : Weakens(work[w]) =>
         /\ \E j \in Id : j # work[w].id /\ ActiveOwner(j)
         /\ \A v \in Worker : Weakens(work[v]) => v = w

OwnerInv ==
  /\ TypeOK
  /\ \A w \in Worker : Adding(work[w])
  /\ HalfMade
  /\ OneAtATime

\* A step that leaves alone who there is, who is an owner, and who has a PIN.
Calm ==
  \A i \in Id :
    /\ users'[i].state = users[i].state /\ users'[i].name = users[i].name
    /\ users'[i].role = users[i].role /\ users'[i].active = users[i].active
    /\ users'[i].pin = 0 => users[i].pin = 0

LEMMA CalmFacts ==
  ASSUME Calm
  PROVE  /\ \A i : Live(i)' <=> Live(i)
         /\ \A i : ActiveOwner(i)' <=> ActiveOwner(i)
  BY DEF Calm, Live, ActiveOwner

LEMMA UnchangedIsCalm ==
  ASSUME UNCHANGED users
  PROVE  Calm
  BY DEF Calm

\* What one request knows survives the calm step of another.
LEMMA AddingKept ==
  ASSUME Calm, NEW what, Adding(what), faults \in Nat, faults' \in Nat, faults <= faults'
  PROVE  Adding(what)'
  BY CalmFacts DEF Calm, Adding

\* A calm step of one request: it weakens no owner, and it goes on adding the
\* account it was adding, or leaves it with a PIN, removed, or to a fault.
LEMMA CalmStep ==
  ASSUME OwnerInv, TypeOK', Calm, UNCHANGED overlapped, faults <= faults',
         NEW w \in Worker, NEW what, work' = [work EXCEPT ![w] = what],
         Adding(what)', ~Weakens(what),
         \/ work[w].why # "add" \/ work[w].id = 0
         \/ what.why = "add" /\ what.id = work[w].id
         \/ faults' > 0 \/ ~Live(work[w].id) \/ users'[work[w].id].pin # 0
  PROVE  OwnerInv'
  <1>1. faults \in Nat /\ faults' \in Nat /\ work \in [Worker -> Work]
    BY DEF OwnerInv, TypeOK
  <1>2. \A v \in Worker : work'[v] = IF v = w THEN what ELSE work[v]
    BY <1>1
  <1>3. \A v \in Worker : Adding(work[v])'
    <2> SUFFICES ASSUME NEW v \in Worker PROVE Adding(work[v])'
      OBVIOUS
    <2>1. CASE v = w
      BY <1>2, <2>1 DEF Adding, Live
    <2>2. CASE v # w
      <3>1. Adding(work[v]) /\ work'[v] = work[v]
        BY <1>2, <2>2 DEF OwnerInv
      <3> QED
        BY <1>1, <3>1, CalmFacts DEF Calm, Adding
    <2> QED
      BY <2>1, <2>2
  <1>4. HalfMade'
    <2> SUFFICES ASSUME NEW i \in Id, Live(i)', users'[i].pin = 0, i # BuiltIn, faults' = 0
                 PROVE  BeingAdded(i)'
      BY <1>1 DEF HalfMade
    <2>1. Live(i) /\ users[i].pin = 0 /\ faults = 0
      BY <1>1, CalmFacts DEF Calm
    <2>2. PICK v \in Worker : work[v].why = "add" /\ work[v].id = i
      BY <2>1 DEF OwnerInv, HalfMade, BeingAdded
    <2>3. CASE v # w
      BY <1>2, <2>2, <2>3 DEF BeingAdded
    <2>4. CASE v = w
      <3>1. i # 0
        BY DEF Id
      <3>2. what.why = "add" /\ what.id = i
        BY <2>1, <2>2, <2>4, <3>1
      <3> QED
        BY <1>2, <3>2 DEF BeingAdded
    <2> QED
      BY <2>3, <2>4
  <1>5. OneAtATime'
    <2>1. \A v \in Worker : Weakens(work'[v]) => work'[v] = work[v]
      BY <1>2
    <2> QED
      BY <2>1, CalmFacts DEF OwnerInv, OneAtATime, Weakens
  <1> QED
    BY <1>3, <1>4, <1>5 DEF OwnerInv

LEMMA NoWorkInv ==
  /\ Adding(NoWork) /\ Adding(NoWork)' /\ ~Weakens(NoWork)
  BY NoWorkType DEF Adding, Weakens, NoWork, Doing

LEMMA CalmFinish ==
  ASSUME OwnerInv, TypeOK', Calm, UNCHANGED overlapped, faults <= faults',
         NEW w \in Worker, Finish(w),
         \/ work[w].why # "add" \/ work[w].id = 0
         \/ faults' > 0 \/ ~Live(work[w].id) \/ users'[work[w].id].pin # 0
  PROVE  OwnerInv'
  BY CalmStep, NoWorkInv DEF Finish

LEMMA CalmGo ==
  ASSUME OwnerInv, TypeOK', Calm, UNCHANGED overlapped, faults <= faults',
         NEW w \in Worker, NEW at \in At \ {"create", "update", "remove"}, Step(w, at),
         work[w].why = "add" =>
           /\ at \in {"signout", "audit", "count", "others"}
           /\ Live(work[w].id) =>
                /\ at \in {"signout", "audit"} => users'[work[w].id].pin # 0
                /\ at \in {"count", "others"} => faults' > 0
  PROVE  OwnerInv'
  <1> PICK what : what = [work[w] EXCEPT !.at = at]
    OBVIOUS
  <1>1. work[w] \in Work /\ Adding(work[w])
    BY DEF OwnerInv, TypeOK
  <1>2. /\ what.at = at /\ what.why = work[w].why /\ what.id = work[w].id
        /\ what.name = work[w].name
    BY <1>1 DEF Work
  <1>3. work' = [work EXCEPT ![w] = what]
    BY DEF Step
  <1>4. Adding(what)'
    BY <1>1, <1>2, CalmFacts DEF Adding, Calm
  <1>5. ~Weakens(what)
    BY <1>2 DEF Weakens
  <1> QED
    BY <1>2, <1>3, <1>4, <1>5, CalmStep

\* A request begins.
LEMMA BeginInv ==
  ASSUME OwnerInv, TypeOK', UNCHANGED <<users, faults, overlapped>>,
         NEW w \in Worker, NEW what, Begin(w, what), ~Weakens(what), Adding(what)
  PROVE  OwnerInv'
  <1>1. faults \in Nat
    BY DEF OwnerInv, TypeOK
  <1>2. work' = [work EXCEPT ![w] = what] /\ work[w].why # "add"
    BY NoWorkType DEF Begin, Idle
  <1>3. faults' \in Nat /\ faults <= faults' /\ overlapped' = overlapped
    BY <1>1
  <1>4. Calm
    BY UnchangedIsCalm
  <1>5. Adding(what)'
    BY <1>1, <1>3, <1>4, AddingKept
  <1> QED
    BY <1>2, <1>3, <1>4, <1>5, CalmStep

\* No request but one to add an account is one, and none begins by weakening.
LEMMA DoingInv ==
  ASSUME NEW at \in At \ {"create", "update", "remove"}, NEW why \in Reasons \ {"add"},
         NEW me, NEW id, NEW name
  PROVE  ~Weakens(Doing(at, why, me, id, name)) /\ Adding(Doing(at, why, me, id, name))
  BY DEF Doing, Weakens, Adding

LEMMA BeginningsInv ==
  ASSUME OwnerInv, TypeOK', NEW b \in Browser,
         \/ BeginSetup(b)
         \/ \E right \in BOOLEAN : BeginOwn(b, right)
         \/ \E i \in Id : BeginPIN(b, i) \/ BeginApprove(b, i) \/ BeginDismiss(b, i)
                          \/ BeginRemove(b, i)
         \/ \E i \in Id, r \in Role, on \in BOOLEAN : BeginUpdate(b, i, r, on)
         \/ \E n \in Name, r \in Role : BeginAdd(b, n, r)
  PROVE  OwnerInv'
  <1>1. /\ {"pin", "failure", "resolve", "count"} \subseteq At \ {"create", "update", "remove"}
        /\ {"setup", "own", "pin", "approve", "dismiss", "remove", "update"} \subseteq Reasons \ {"add"}
    BY DEF At, Reasons
  <1>2. ASSUME NEW at \in {"pin", "failure", "resolve", "count"},
               NEW why \in {"setup", "own", "pin", "approve", "dismiss", "remove"},
               NEW me, NEW id, NEW name, Change(b, Doing(at, why, me, id, name)),
               UNCHANGED <<users, faults, overlapped>>
        PROVE  OwnerInv'
    <2> PICK what : what = Doing(at, why, me, id, name)
      OBVIOUS
    <2>1. ~Weakens(what) /\ Adding(what)
      BY <1>1, DoingInv
    <2> QED
      BY <1>2, <2>1, Workers, BeginInv DEF Change
  <1>3. CASE BeginSetup(b)
    BY <1>2, <1>3 DEF BeginSetup, history
  <1>4. ASSUME NEW right \in BOOLEAN, BeginOwn(b, right) PROVE OwnerInv'
    <2>1. PICK i \in CurrentUser(b) : Change(b, OwnPIN(i, right))
      BY <1>4 DEF BeginOwn
    <2>2. PICK name : name = users[i].name
      OBVIOUS
    <2> QED
      BY <1>2, <1>4, <2>1, <2>2 DEF BeginOwn, OwnPIN, history
  <1>5. ASSUME NEW i \in Id, BeginPIN(b, i) PROVE OwnerInv'
    <2>1. PICK me \in CurrentUser(b) : Change(b, GivePIN(me, i, "pin"))
      BY <1>5 DEF BeginPIN
    <2>2. PICK name : name = users[i].name
      OBVIOUS
    <2> QED
      BY <1>2, <1>5, <2>1, <2>2 DEF BeginPIN, GivePIN, history
  <1>6. ASSUME NEW i \in Id, BeginApprove(b, i) PROVE OwnerInv'
    <2>1. PICK me \in CurrentUser(b) : Change(b, GivePIN(me, i, "approve"))
      BY <1>6 DEF BeginApprove
    <2>2. PICK name : name = users[i].name
      OBVIOUS
    <2> QED
      BY <1>2, <1>6, <2>1, <2>2 DEF BeginApprove, GivePIN, history
  <1>7. ASSUME NEW i \in Id, BeginDismiss(b, i) PROVE OwnerInv'
    <2>1. PICK me \in CurrentUser(b) : Change(b, Doing("resolve", "dismiss", me, i, users[i].name))
      BY <1>7 DEF BeginDismiss
    <2>2. PICK name : name = users[i].name
      OBVIOUS
    <2> QED
      BY <1>2, <1>7, <2>1, <2>2 DEF BeginDismiss, history
  <1>8. ASSUME NEW i \in Id, BeginRemove(b, i) PROVE OwnerInv'
    <2>1. PICK me \in CurrentUser(b) : Change(b, Doing("count", "remove", me, i, users[i].name))
      BY <1>8 DEF BeginRemove
    <2>2. PICK name : name = users[i].name
      OBVIOUS
    <2> QED
      BY <1>2, <1>8, <2>1, <2>2 DEF BeginRemove, history
  <1>9. ASSUME NEW i \in Id, NEW r \in Role, NEW on \in BOOLEAN, BeginUpdate(b, i, r, on)
        PROVE  OwnerInv'
    <2>1. PICK me \in CurrentUser(b) :
            Change(b, [Doing(IF r = "owner" /\ on THEN "update" ELSE "count",
                             "update", me, i, users[i].name) EXCEPT !.role = r, !.on = on])
      BY <1>9 DEF BeginUpdate
    <2>2. PICK what : what = [Doing(IF r = "owner" /\ on THEN "update" ELSE "count",
                             "update", me, i, users[i].name) EXCEPT !.role = r, !.on = on]
      OBVIOUS
    <2>3. /\ what.at = IF r = "owner" /\ on THEN "update" ELSE "count"
          /\ what.why = "update" /\ what.role = r /\ what.on = on
      BY <2>2 DEF Doing
    <2>4. ~Weakens(what) /\ Adding(what)
      BY <2>3 DEF Weakens, Adding
    <2> QED
      BY <1>9, <2>1, <2>2, <2>4, Workers, BeginInv DEF BeginUpdate, Change, history
  <1>10. ASSUME NEW n \in Name, NEW r \in Role, BeginAdd(b, n, r) PROVE OwnerInv'
    <2>1. PICK me \in CurrentUser(b) : Change(b, [Doing("create", "add", me, 0, n) EXCEPT !.role = r])
      BY <1>10 DEF BeginAdd
    <2>2. PICK what : what = [Doing("create", "add", me, 0, n) EXCEPT !.role = r]
      OBVIOUS
    <2>3. what.at = "create" /\ what.why = "add" /\ what.id = 0
      BY <2>2 DEF Doing
    <2>4. ~Weakens(what) /\ Adding(what)
      BY <2>3 DEF Weakens, Adding
    <2> QED
      BY <1>10, <2>1, <2>2, <2>4, Workers, BeginInv DEF BeginAdd, Change, history
  <1> QED
    BY <1>3, <1>4, <1>5, <1>6, <1>7, <1>8, <1>9, <1>10

LEMMA BeginToolInv ==
  ASSUME OwnerInv, TypeOK', BeginTool
  PROVE  OwnerInv'
  <1> PICK what : what = Doing("pin", "tool", 0, 0, OwnerUsername)
    OBVIOUS
  <1>1. "pin" \in At \ {"create", "update", "remove"} /\ "tool" \in Reasons \ {"add"}
    BY DEF At, Reasons
  <1>2. ~Weakens(what) /\ Adding(what)
    BY <1>1, DoingInv
  <1> QED
    BY <1>2, Workers, BeginInv DEF BeginTool, Change, history

LEMMA LoginInv ==
  ASSUME OwnerInv, TypeOK', NEW b \in Browser, NEW i \in Id, NEW right \in BOOLEAN,
         BeginLogin(b, i, right)
  PROVE  OwnerInv'
  <1>1. PICK what : /\ what = [Doing(IF right THEN "success" ELSE "failure", "login", 0, i,
                                      users[i].name) EXCEPT !.pin = users[i].pin]
                    /\ Begin(b, what)
    BY DEF BeginLogin, Change
  <1>2. what.at = (IF right THEN "success" ELSE "failure") /\ what.why = "login"
    BY <1>1 DEF Doing
  <1>3. ~Weakens(what) /\ Adding(what)
    BY <1>2 DEF Weakens, Adding
  <1> QED
    BY <1>1, <1>3, Workers, BeginInv DEF BeginLogin, history


\* A step that leaves every request where it is.
LEMMA CalmSame ==
  ASSUME OwnerInv, TypeOK', Calm, UNCHANGED <<work, faults, overlapped>>
  PROVE  OwnerInv'
  <1>1. faults \in Nat
    BY DEF OwnerInv, TypeOK
  <1>2. \A w \in Worker : Adding(work[w])'
    BY CalmFacts DEF OwnerInv, Calm, Adding
  <1>3. HalfMade'
    BY CalmFacts DEF OwnerInv, Calm, HalfMade, BeingAdded
  <1>4. OneAtATime'
    BY CalmFacts DEF OwnerInv, OneAtATime, Weakens
  <1> QED
    BY <1>2, <1>3, <1>4 DEF OwnerInv

\* Who there is and who is an owner is not a sign-in's business.
LEMMA FailureInv ==
  ASSUME OwnerInv, TypeOK', NEW w \in Worker, RecordFailure(w)
  PROVE  OwnerInv'
  <1>1. faults \in Nat /\ faults' = faults /\ overlapped' = overlapped /\ users \in [Id -> Account]
    BY DEF OwnerInv, TypeOK, RecordFailure, history
  <1>2. work[w].why # "add"
    BY DEF OwnerInv, Adding, RecordFailure
  <1>3. Calm
    BY <1>1 DEF RecordFailure, Calm, Named, Account
  <1>4. Finish(w) \/ Step(w, "lock")
    BY DEF RecordFailure
  <1>5. "lock" \in At \ {"create", "update", "remove"}
    BY DEF At
  <1>6. CASE Finish(w)
    BY <1>1, <1>2, <1>3, <1>6, CalmFinish
  <1>7. CASE Step(w, "lock")
    BY <1>1, <1>2, <1>3, <1>5, <1>7, CalmGo
  <1> QED
    BY <1>4, <1>6, <1>7

LEMMA LockInv ==
  ASSUME OwnerInv, TypeOK', NEW w \in Worker, Lock(w) \/ RecordSuccess(w)
  PROVE  OwnerInv'
  <1>1. /\ faults \in Nat /\ faults' = faults /\ overlapped' = overlapped
        /\ users \in [Id -> Account]
    BY DEF OwnerInv, TypeOK, Lock, RecordSuccess, history
  <1>2. work[w].why # "add"
    BY DEF OwnerInv, Adding, Lock, RecordSuccess
  <1>3. Calm
    <2> SUFFICES ASSUME NEW i \in Id
                 PROVE  /\ users'[i].state = users[i].state /\ users'[i].name = users[i].name
                        /\ users'[i].role = users[i].role /\ users'[i].active = users[i].active
                        /\ users'[i].pin = users[i].pin
      BY DEF Calm
    <2>1. users[i] \in Account
      BY <1>1
    <2>2. \/ users'[i] = users[i]
          \/ users'[i] = [users[i] EXCEPT !.failed = 0, !.locked = TRUE]
          \/ users'[i] = [users[i] EXCEPT !.failed = 0, !.locked = FALSE]
      BY DEF Lock, RecordSuccess
    <2> QED
      BY <2>1, <2>2 DEF Account
  <1>4. Finish(w) \/ Step(w, "session")
    BY DEF Lock, RecordSuccess
  <1>5. "session" \in At \ {"create", "update", "remove"}
    BY DEF At
  <1>6. CASE Finish(w)
    BY <1>1, <1>2, <1>3, <1>6, CalmFinish
  <1>7. CASE Step(w, "session")
    BY <1>1, <1>2, <1>3, <1>5, <1>7, CalmGo
  <1> QED
    BY <1>4, <1>6, <1>7

LEMMA CreateSessionInv ==
  ASSUME OwnerInv, TypeOK', NEW b \in Browser, CreateSession(b)
  PROVE  OwnerInv'
  <1>1. faults \in Nat /\ faults' = faults /\ overlapped' = overlapped /\ Calm
    BY UnchangedIsCalm DEF OwnerInv, TypeOK, CreateSession, history
  <1>2. work[b].why # "add" /\ b \in Worker
    BY Workers DEF OwnerInv, Adding, CreateSession
  <1> QED
    BY <1>1, <1>2, CalmFinish DEF CreateSession

LEMMA EnterInv ==
  ASSUME OwnerInv, TypeOK', NEW b \in Browser, Enter(b)
  PROVE  OwnerInv'
  <1>1. faults \in Nat /\ faults' = faults /\ overlapped' = overlapped /\ Calm
    BY UnchangedIsCalm DEF OwnerInv, TypeOK, Enter, history
  <1>2. work[b].why # "add" /\ b \in Worker /\ work[b] \in Work
    BY Workers DEF OwnerInv, TypeOK, Adding, Enter
  <1>3. CASE Finish(b)
    BY <1>1, <1>2, <1>3, CalmFinish
  <1>4. ASSUME NEW i, NEW at \in {"success", "failure"},
               work' = [work EXCEPT ![b].at = at, ![b].id = i]
        PROVE  OwnerInv'
    <2> PICK what : what = [work[b] EXCEPT !.at = at, !.id = i]
      OBVIOUS
    <2>1. what.at = at /\ what.why = work[b].why
      BY <1>2 DEF Work
    <2>2. work' = [work EXCEPT ![b] = what]
      BY <1>4
    <2>3. ~Weakens(what) /\ Adding(what)'
      BY <1>2, <2>1 DEF Weakens, Adding
    <2>4. faults <= faults'
      BY <1>1
    <2> QED
      BY <1>1, <1>2, <2>2, <2>3, <2>4, CalmStep
  <1> QED
    BY <1>3, <1>4 DEF Enter

LEMMA LogoutInv ==
  ASSUME OwnerInv, TypeOK',
         (\E b \in Browser : Logout(b)) \/ (\E i \in Id : Unlock(i) \/ AskReset(i))
  PROVE  OwnerInv'
  <1>1. UNCHANGED <<work, faults, overlapped>>
    BY DEF Logout, Unlock, AskReset, history
  <1>2. users \in [Id -> Account]
    BY DEF OwnerInv, TypeOK
  <1>3. Calm
    BY <1>2 DEF Logout, Unlock, AskReset, Calm, Account
  <1> QED
    BY <1>1, <1>3, CalmSame

\* The statements that set a PIN.
LEMMA PINIsCalm ==
  ASSUME TypeOK, NEW i \in Id, SetDashboardUserPIN(i)
  PROVE  Calm /\ users'[i].pin # 0
  <1>1. users \in [Id -> Account] /\ users[i] \in Account
    BY DEF TypeOK
  <1>2. \A j \in Id : users'[j] = IF j = i
          THEN [users[i] EXCEPT !.pin = @ + 1, !.failed = 0, !.locked = FALSE] ELSE users[j]
    BY <1>1 DEF SetDashboardUserPIN
  <1>3. users'[i].pin = users[i].pin + 1 /\ users[i].pin \in Nat
    BY <1>1, <1>2 DEF Account
  <1>4. \A j \in Id : j # i => users'[j] = users[j]
    BY <1>2
  <1>5. /\ users'[i].state = users[i].state /\ users'[i].name = users[i].name
        /\ users'[i].role = users[i].role /\ users'[i].active = users[i].active
    BY <1>1, <1>2 DEF Account
  <1>6. users'[i].pin # 0
    BY <1>3
  <1> QED
    BY <1>4, <1>5, <1>6 DEF Calm

LEMMA SetupPINInv ==
  ASSUME OwnerInv, TypeOK', NEW w \in Worker, SetupPIN(w)
  PROVE  OwnerInv'
  <1>1. faults <= faults' /\ overlapped' = overlapped /\ TypeOK
    BY DEF OwnerInv, TypeOK, SetupPIN
  <1>2. work[w].why # "add" /\ work[w] \in Work
    BY DEF OwnerInv, TypeOK, SetupPIN
  <1>3. Calm
    BY <1>1, UnchangedIsCalm, PINIsCalm DEF SetupPIN, Named
  <1>4. CASE Finish(w)
    BY <1>1, <1>2, <1>3, <1>4, CalmFinish
  <1>5. CASE Step(w, "signout")
    <2>1. "signout" \in At \ {"create", "update", "remove"}
      BY DEF At
    <2> QED
      BY <1>1, <1>2, <1>3, <1>5, <2>1, CalmGo
  <1>6. ASSUME NEW pin, work' = [work EXCEPT ![w].at = "enter", ![w].pin = pin]
        PROVE  OwnerInv'
    <2> PICK what : what = [work[w] EXCEPT !.at = "enter", !.pin = pin]
      OBVIOUS
    <2>1. what.at = "enter" /\ what.why = work[w].why
      BY <1>2 DEF Work
    <2>2. work' = [work EXCEPT ![w] = what]
      BY <1>6
    <2>3. ~Weakens(what) /\ Adding(what)'
      BY <1>2, <2>1 DEF Weakens, Adding
    <2> QED
      BY <1>1, <1>2, <1>3, <2>2, <2>3, CalmStep
  <1>7. CASE Named(OwnerUsername) = {}
    BY <1>4, <1>7 DEF SetupPIN
  <1>8. ASSUME NEW i \in Named(OwnerUsername),
               IF work[w].why = "setup"
               THEN work' = [work EXCEPT ![w].at = "enter", ![w].pin = users[i].pin + 1]
               ELSE Step(w, "signout")
        PROVE  OwnerInv'
    <2> PICK pin : pin = users[i].pin + 1
      OBVIOUS
    <2> QED
      BY <1>5, <1>6, <1>8
  <1> QED
    BY <1>4, <1>8 DEF SetupPIN

LEMMA SetPINForInv ==
  ASSUME OwnerInv, TypeOK', NEW b \in Browser, SetPINFor(b)
  PROVE  OwnerInv'
  <1>1. /\ faults \in Nat /\ faults <= faults' /\ overlapped' = overlapped /\ TypeOK
        /\ b \in Worker /\ work[b] \in Work
    BY Workers DEF OwnerInv, TypeOK, SetPINFor, history
  <1>2. "signout" \in At \ {"create", "update", "remove"} /\ "count" \in At \ {"create", "update", "remove"}
    BY DEF At
  <1>3. work[b].at = "pin" /\ Adding(work[b])
    BY <1>1 DEF SetPINFor, OwnerInv
  <1>4. CASE Named(work[b].name) = {} /\ UNCHANGED users
    <2>1. Calm
      BY <1>4, UnchangedIsCalm
    <2>2. work[b].why = "add" => work[b].id = 0 \/ ~Live(work[b].id)
      BY <1>3, <1>4 DEF Adding, Named, Live
    <2>3. CASE work[b].why # "add" /\ Finish(b)
      BY <1>1, <2>1, <2>3, CalmFinish
    <2>4. CASE work[b].why = "add" /\ Step(b, "count")
      <3>1. ~Live(work[b].id)
        BY <2>2, <2>4 DEF Live, Id
      <3> QED
        BY <1>1, <1>2, <2>1, <2>4, <3>1, CalmGo
    <2> QED
      BY <1>4, <2>3, <2>4 DEF SetPINFor, Named
  <1>5. ASSUME NEW i \in Named(work[b].name), SetDashboardUserPIN(i), Step(b, "signout")
        PROVE  OwnerInv'
    <2>1. Calm /\ users'[i].pin # 0 /\ Live(i) /\ users[i].name = work[b].name /\ i \in Id
      BY <1>1, <1>5, PINIsCalm DEF Named
    <2>2. work[b].why = "add" /\ Live(work[b].id) => work[b].id = i
      <3>1. work[b].why = "add" /\ Live(work[b].id) =>
              work[b].id \in Id /\ users[work[b].id].name = work[b].name
        BY <1>3 DEF Adding, Live, Id
      <3> QED
        BY <1>1, <2>1, <3>1 DEF TypeOK
    <2>3. work[b].why = "add" /\ Live(work[b].id) => users'[work[b].id].pin # 0
      BY <2>1, <2>2
    <2> QED
      BY <1>1, <1>2, <1>5, <2>1, <2>3, CalmGo
  <1> QED
    BY <1>4, <1>5 DEF SetPINFor

LEMMA AfterSignOutInv ==
  ASSUME OwnerInv, TypeOK', UNCHANGED <<users, overlapped>>, faults <= faults',
         NEW b \in Worker, work[b].at \in {"signout", "clear"}, AfterSignOut(b)
  PROVE  OwnerInv'
  <1>1. Calm /\ Adding(work[b])
    BY UnchangedIsCalm DEF OwnerInv
  <1>2. {"resolve", "audit"} \subseteq At \ {"create", "update", "remove"}
    BY DEF At
  <1>3. work[b].why = "add" /\ Live(work[b].id) => users'[work[b].id].pin # 0
    BY <1>1 DEF Adding, Live, Id
  <1>4. CASE Step(b, "resolve") /\ work[b].why # "add"
    BY <1>1, <1>2, <1>4, CalmGo
  <1>5. CASE Finish(b) /\ ~Live(work[b].id)
    BY <1>1, <1>5, CalmFinish
  <1>6. CASE Step(b, "audit")
    BY <1>1, <1>2, <1>3, <1>6, CalmGo
  <1> QED
    BY <1>4, <1>5, <1>6 DEF AfterSignOut, Quit

LEMMA ReadAgainInv ==
  ASSUME OwnerInv, TypeOK', NEW b \in Browser, ReadAgain(b)
  PROVE  OwnerInv'
  <1>1. /\ faults \in Nat /\ faults' = faults /\ overlapped' = overlapped /\ users' = users
        /\ b \in Worker /\ work[b] \in Work /\ Adding(work[b]) /\ Calm /\ work[b].at = "signout"
    BY Workers, UnchangedIsCalm DEF OwnerInv, TypeOK, ReadAgain
  <1>2. faults <= faults'
    BY <1>1
  <1>3. CASE AfterSignOut(b)
    BY <1>1, <1>2, <1>3, AfterSignOutInv
  <1>4. ASSUME NEW i, work' = [work EXCEPT ![b].at = "clear", ![b].found = i]
        PROVE  OwnerInv'
    <2> PICK what : what = [work[b] EXCEPT !.at = "clear", !.found = i]
      OBVIOUS
    <2>1. /\ what.at = "clear" /\ what.why = work[b].why /\ what.id = work[b].id
          /\ what.name = work[b].name
      BY <1>1 DEF Work
    <2>2. work' = [work EXCEPT ![b] = what]
      BY <1>4
    <2>3. ~Weakens(what) /\ Adding(what)'
      BY <1>1, <2>1 DEF Weakens, Adding, Live
    <2> QED
      BY <1>1, <1>2, <2>1, <2>2, <2>3, CalmStep
  <1> QED
    BY <1>3, <1>4 DEF ReadAgain

\* Steps that touch sessions, PIN requests and the activity log only.
LEMMA QuietInv ==
  ASSUME OwnerInv, TypeOK',
         NEW b \in Browser, SignOut(b) \/ Resolve(b) \/ SwitchOff(b) \/ Audit(b)
  PROVE  OwnerInv'
  <1>1. /\ faults \in Nat /\ faults' = faults /\ overlapped' = overlapped /\ users' = users
        /\ b \in Worker /\ Adding(work[b]) /\ Calm
    BY Workers, UnchangedIsCalm DEF OwnerInv, TypeOK, SignOut, Resolve, SwitchOff, Audit, history
  <1>2. faults <= faults' /\ "audit" \in At \ {"create", "update", "remove"}
    BY <1>1 DEF At
  <1>3. CASE SignOut(b)
    BY <1>1, <1>2, <1>3, AfterSignOutInv DEF SignOut
  <1>4. CASE Resolve(b) \/ SwitchOff(b)
    <2>1. work[b].why # "add"
      BY <1>1, <1>4 DEF Adding, Resolve, SwitchOff
    <2>2. Finish(b) \/ Step(b, "audit")
      BY <1>4 DEF Resolve, SwitchOff
    <2>3. CASE Finish(b)
      BY <1>1, <1>2, <2>1, <2>3, CalmFinish
    <2>4. CASE Step(b, "audit")
      BY <1>1, <1>2, <2>1, <2>4, CalmGo
    <2> QED
      BY <2>2, <2>3, <2>4
  <1>5. CASE Audit(b)
    <2>1. \/ work[b].why # "add" \/ work[b].id = 0 \/ ~Live(work[b].id)
          \/ users'[work[b].id].pin # 0
      BY <1>1, <1>5 DEF Adding, Audit
    <2> QED
      BY <1>1, <1>2, <1>5, <2>1, CalmFinish DEF Audit
  <1> QED
    BY <1>3, <1>4, <1>5

LEMMA DeleteAllSessionsInv ==
  ASSUME OwnerInv, TypeOK', DeleteAllSessions
  PROVE  OwnerInv'
  <1>1. faults \in Nat /\ faults' = faults /\ overlapped' = overlapped /\ Calm
    BY UnchangedIsCalm DEF OwnerInv, TypeOK, DeleteAllSessions, history
  <1>2. Tool \in Worker /\ Adding(work[Tool]) /\ work[Tool].at = "signout"
    BY Workers DEF OwnerInv, DeleteAllSessions
  <1>3. \/ work[Tool].why # "add" \/ work[Tool].id = 0 \/ ~Live(work[Tool].id)
        \/ users'[work[Tool].id].pin # 0
    BY <1>2 DEF Adding, DeleteAllSessions
  <1>4. faults <= faults'
    BY <1>1
  <1> QED
    BY <1>1, <1>2, <1>3, <1>4, CalmFinish DEF DeleteAllSessions

LEMMA StatementFailsInv ==
  ASSUME OwnerInv, TypeOK', NEW w \in Worker, StatementFails(w)
  PROVE  OwnerInv'
  <1>1. /\ faults \in Nat /\ faults' = faults + 1 /\ overlapped' = overlapped
        /\ users' = users /\ Adding(work[w]) /\ Calm
    BY UnchangedIsCalm DEF OwnerInv, TypeOK, StatementFails, Fault
  <1>2. faults <= faults' /\ faults' > 0
    BY <1>1
  <1>3. {"count", "audit"} \subseteq At \ {"create", "update", "remove"}
    BY DEF At
  <1>4. CASE Step(w, "count")
    BY <1>1, <1>2, <1>3, <1>4, CalmGo
  <1>5. CASE work[w].at \in {"signout", "clear"} /\ AfterSignOut(w)
    BY <1>1, <1>2, <1>5, AfterSignOutInv
  <1>6. CASE /\ \/ work[w].at = "off"
                \/ work[w].at = "resolve" /\ work[w].why = "approve"
             /\ Step(w, "audit")
    <2>1. work[w].why # "add"
      BY <1>1, <1>6 DEF Adding
    <2> QED
      BY <1>1, <1>2, <1>3, <1>6, <2>1, CalmGo
  <1>7. CASE Quit(w)
    BY <1>1, <1>2, <1>7, CalmFinish DEF Quit
  <1> QED
    BY <1>4, <1>5, <1>6, <1>7 DEF StatementFails

LEMMA AbandonInv ==
  ASSUME OwnerInv, TypeOK', NEW kind, NEW stopped \in SUBSET Worker,
         Fault(kind), Abandon(stopped)
  PROVE  OwnerInv'
  <1>1. /\ faults \in Nat /\ faults' = faults + 1 /\ overlapped' = overlapped
        /\ users' = users /\ work \in [Worker -> Work]
    BY DEF OwnerInv, TypeOK, Fault, Abandon
  <1>2. \A w \in Worker : work'[w] = IF w \in stopped THEN NoWork ELSE work[w]
    BY DEF Abandon
  <1>3. faults' \in Nat /\ faults' > 0
    BY <1>1
  <1>4. \A w \in Worker : Adding(work[w])'
    <2> SUFFICES ASSUME NEW w \in Worker PROVE Adding(work[w])'
      OBVIOUS
    <2>1. CASE work'[w] = NoWork
      <3>1. NoWork.at # "create" /\ NoWork.why # "add"
        BY DEF NoWork, Doing
      <3> QED
        BY <2>1, <3>1 DEF Adding
    <2>2. CASE work'[w] = work[w]
      BY <1>1, <1>3, <2>2 DEF OwnerInv, Adding, Live
    <2> QED
      BY <1>2, <2>1, <2>2
  <1>5. HalfMade'
    BY <1>3 DEF HalfMade
  <1>6. OneAtATime'
    <2>1. \A w \in Worker : Weakens(work'[w]) => work'[w] = work[w]
      BY <1>2, NoWorkInv
    <2> QED
      BY <1>1, <2>1 DEF OwnerInv, OneAtATime, ActiveOwner, Live, Weakens
  <1> QED
    BY <1>4, <1>5, <1>6 DEF OwnerInv

\* A new account is nobody else's, and its first PIN is on the way.
LEMMA CreateUserInv ==
  ASSUME OwnerInv, TypeOK', NEW b \in Browser, CreateUser(b)
  PROVE  OwnerInv'
  <1>1. /\ faults \in Nat /\ faults' = faults /\ overlapped' = overlapped
        /\ b \in Worker /\ work \in [Worker -> Work] /\ users \in [Id -> Account]
    BY Workers DEF OwnerInv, TypeOK, CreateUser, history
  <1>2. Adding(work[b]) /\ work[b].at = "create"
    BY <1>1 DEF OwnerInv, CreateUser
  <1>3. work[b].why = "add" /\ work[b].id = 0
    BY <1>2 DEF Adding
  <1>4. CASE Finish(b) /\ UNCHANGED users
    <2>1. Calm /\ faults <= faults'
      BY <1>1, <1>4, UnchangedIsCalm
    <2> QED
      BY <1>1, <1>3, <1>4, <2>1, CalmFinish
  <1>5. ASSUME NEW i \in Id, users[i].state = "free",
               users' = [users EXCEPT ![i] = New(work[b].name, work[b].role)],
               work' = [work EXCEPT ![b].at = "pin", ![b].id = i]
        PROVE  OwnerInv'
    <2>1. \A j \in Id : j # i => users'[j] = users[j]
      BY <1>1, <1>5
    <2>2. users'[i].state = "live" /\ users'[i].name = work[b].name
      BY <1>1, <1>5 DEF New
    <2>3. /\ work'[b].at = "pin" /\ work'[b].id = i /\ work'[b].why = work[b].why
          /\ work'[b].name = work[b].name
          /\ \A v \in Worker : v # b => work'[v] = work[v]
      BY <1>1, <1>5 DEF Work
    <2>4. Adding(work[b])'
      BY <2>2, <2>3 DEF Adding, Live
    <2>5. \A v \in Worker : v # b => Adding(work[v])'
      <3> SUFFICES ASSUME NEW v \in Worker, v # b PROVE Adding(work[v])'
        OBVIOUS
      <3>1. Adding(work[v]) /\ work'[v] = work[v]
        BY <2>3 DEF OwnerInv
      <3>4. CASE work[v].why # "add"
        BY <3>1, <3>4 DEF Adding
      <3>2. CASE work[v].id = 0
        BY <3>1, <3>2 DEF Adding
      <3>3. CASE work[v].id # 0 /\ work[v].why = "add"
        <4>1. work[v].id \in Id /\ work[v].id # i
          BY <1>5, <3>1, <3>3 DEF Adding
        <4>2. users'[work[v].id] = users[work[v].id]
          BY <2>1, <4>1
        <4> QED
          BY <1>1, <3>1, <3>3, <4>1, <4>2 DEF Adding, Live
      <3> QED
        BY <3>2, <3>3, <3>4
    <2>6. HalfMade'
      <3> SUFFICES ASSUME NEW j \in Id, Live(j)', users'[j].pin = 0, j # BuiltIn, faults' = 0
                   PROVE  BeingAdded(j)'
        BY <1>1 DEF HalfMade
      <3>1. CASE j = i
        BY <1>1, <1>3, <2>3, <3>1 DEF BeingAdded
      <3>2. CASE j # i
        <4>1. Live(j) /\ users[j].pin = 0 /\ faults = 0
          BY <1>1, <2>1, <3>2 DEF Live
        <4>2. PICK v \in Worker : work[v].why = "add" /\ work[v].id = j
          BY <4>1 DEF OwnerInv, HalfMade, BeingAdded
        <4>3. v # b /\ j # 0
          BY <1>3, <4>2 DEF Id
        <4> QED
          BY <2>3, <4>2, <4>3 DEF BeingAdded
      <3> QED
        BY <3>1, <3>2
    <2>7. OneAtATime'
      <3>1. \A j : ActiveOwner(j) => ActiveOwner(j)'
        BY <1>5, <2>1 DEF ActiveOwner, Live
      <3>2. \A v \in Worker : Weakens(work'[v]) => work'[v] = work[v]
        BY <2>3 DEF Weakens
      <3> QED
        BY <1>1, <3>1, <3>2 DEF OwnerInv, OneAtATime, Weakens
    <2> QED
      BY <2>3, <2>4, <2>5, <2>6, <2>7 DEF OwnerInv
  <1>6. \A i \in Id : (\A j \in Id : users[j].state = "free" <=> j >= i) => users[i].state = "free"
    BY LimitAssumption DEF Id
  <1> QED
    BY <1>4, <1>5, <1>6 DEF CreateUser

LEMMA CountOwnersInv ==
  ASSUME OwnerInv, TypeOK', NEW b \in Browser, ReadRole(b) \/ CountOwners(b)
  PROVE  OwnerInv'
  <1>1. /\ faults \in Nat /\ faults' = faults /\ users' = users /\ b \in Worker
        /\ work \in [Worker -> Work] /\ work[b] \in Work /\ Calm
    BY Workers, UnchangedIsCalm DEF OwnerInv, TypeOK, ReadRole, CountOwners
  <1>2. Adding(work[b]) /\ work[b].at \in {"count", "others"} /\ faults <= faults'
    BY <1>1 DEF OwnerInv, ReadRole, CountOwners
  <1>3. CASE Finish(b) /\ UNCHANGED overlapped
    <2>1. work[b].why # "add" \/ work[b].id = 0 \/ ~Live(work[b].id) \/ faults' > 0
      BY <1>1, <1>2 DEF Adding
    <2> QED
      BY <1>1, <1>2, <1>3, <2>1, CalmFinish
  <1>4. ASSUME NEW at \in {"update", "remove"},
               work[b].at = "others" => Others(work[b].id) # {},
               work[b].at = "count" => Live(work[b].id) /\ users[work[b].id].role # "owner",
               at = IF work[b].why = "update" THEN "update" ELSE "remove", Step(b, at),
               overlapped' = (overlapped \/ \E c \in Worker \ {b} : Weakens(work[c]))
        PROVE  OwnerInv'
    <2>1. /\ work'[b].at = at /\ work'[b].why = work[b].why /\ work'[b].id = work[b].id
          /\ work'[b].name = work[b].name
          /\ \A v \in Worker : v # b => work'[v] = work[v]
      BY <1>1, <1>4 DEF Step, Work
    <2>2. \A v \in Worker : Adding(work[v])'
      <3> SUFFICES ASSUME NEW v \in Worker PROVE Adding(work[v])'
        OBVIOUS
      <3>1. CASE v = b
        BY <1>1, <1>2, <1>4, <2>1, <3>1 DEF Adding, Live
      <3>2. CASE v # b
        BY <1>1, <2>1, <3>2 DEF OwnerInv, Adding, Live
      <3> QED
        BY <3>1, <3>2
    <2>3. HalfMade'
      <3>1. \A i : BeingAdded(i) => BeingAdded(i)'
        BY <2>1 DEF BeingAdded
      <3> QED
        BY <1>1, <3>1 DEF OwnerInv, HalfMade, Live
    <2>4. OneAtATime'
      <3> SUFFICES ASSUME ~overlapped' PROVE OneAtATime'
        BY DEF OneAtATime
      <3>1. ~overlapped /\ \A c \in Worker \ {b} : ~Weakens(work[c])
        BY <1>4
      <3>2. PICK i \in Id : ActiveOwner(i)
        BY <3>1 DEF OwnerInv, OneAtATime
      <3>3. \E j \in Id : j # work[b].id /\ ActiveOwner(j)
        <4>1. CASE work[b].at = "others"
          BY <1>4, <4>1 DEF Others
        <4>2. CASE work[b].at = "count"
          BY <1>4, <3>2, <4>2 DEF ActiveOwner
        <4> QED
          BY <1>2, <4>1, <4>2
      <3>4. \A j : ActiveOwner(j)' <=> ActiveOwner(j)
        BY <1>1, CalmFacts
      <3>5. \A v \in Worker : Weakens(work'[v]) => v = b
        BY <2>1, <3>1 DEF Weakens
      <3>6. \A v \in Worker : Weakens(work[v])' <=> Weakens(work'[v])
        BY DEF Weakens
      <3>7. \E j \in Id : ActiveOwner(j)'
        BY <3>2, <3>4
      <3>8. \E j \in Id : j # work'[b].id /\ ActiveOwner(j)'
        BY <2>1, <3>3, <3>4
      <3> QED
        BY <3>5, <3>6, <3>7, <3>8 DEF OneAtATime
    <2> QED
      BY <2>2, <2>3, <2>4 DEF OwnerInv
  <1>5. CASE Step(b, "others") /\ UNCHANGED overlapped
    <2>1. "others" \in At \ {"create", "update", "remove"}
      BY DEF At
    <2>2. work[b].why = "add" => (Live(work[b].id) => faults' > 0)
      BY <1>1, <1>2 DEF Adding, Live, Id
    <2> QED
      BY <1>1, <1>2, <1>5, <2>1, <2>2, CalmGo
  <1>6. CASE ReadRole(b)
    BY <1>3, <1>4, <1>5, <1>6 DEF ReadRole, NotLast
  <1>7. CASE CountOwners(b)
    BY <1>3, <1>4, <1>7 DEF CountOwners, NotLast, Quit
  <1> QED
    BY <1>6, <1>7

\* Taking an owner's role or access away: it was counted that one would be left,
\* and nobody else is taking that one's.
LEMMA UpdateUserInv ==
  ASSUME OwnerInv, TypeOK', NEW b \in Browser, UpdateUser(b)
  PROVE  OwnerInv'
  <1> DEFINE gone == work[b].id
  <1>1. /\ faults \in Nat /\ faults' = faults /\ overlapped' = overlapped
        /\ b \in Worker /\ work \in [Worker -> Work] /\ work[b] \in Work
        /\ users \in [Id -> Account]
    BY Workers DEF OwnerInv, TypeOK, UpdateUser, history
  <1>2. Adding(work[b]) /\ work[b].at = "update"
    BY <1>1 DEF OwnerInv, UpdateUser
  <1>3. work[b].why # "add"
    BY <1>2 DEF Adding
  <1>4. PICK at \in {"audit", "off"} : Step(b, at)
    BY DEF UpdateUser
  <1>5. /\ work'[b].at = at /\ work'[b].why = work[b].why
        /\ \A v \in Worker : v # b => work'[v] = work[v]
    BY <1>1, <1>4 DEF Step, Work
  <1>6. \A i \in Id :
          /\ i # gone => users'[i] = users[i]
          /\ users'[i].state = users[i].state /\ users'[i].name = users[i].name
          /\ users'[i].pin = users[i].pin
          /\ i = gone /\ Live(i) => users'[i].role = work[b].role /\ users'[i].active = work[b].on
    <2> SUFFICES ASSUME NEW i \in Id
                 PROVE  /\ i # gone => users'[i] = users[i]
                        /\ users'[i].state = users[i].state /\ users'[i].name = users[i].name
                        /\ users'[i].pin = users[i].pin
                        /\ i = gone /\ Live(i) =>
                             users'[i].role = work[b].role /\ users'[i].active = work[b].on
      OBVIOUS
    <2>1. users[i] \in Account
      BY <1>1
    <2>2. users'[i] = IF Live(i) /\ i = gone
                      THEN [users[i] EXCEPT !.role = work[b].role, !.active = work[b].on]
                      ELSE users[i]
      BY DEF UpdateUser
    <2> QED
      BY <2>1, <2>2 DEF Account
  <1>7. \A i : Live(i)' <=> Live(i)
    BY <1>6 DEF Live
  <1>8. \A v \in Worker : Adding(work[v])'
    <2> SUFFICES ASSUME NEW v \in Worker PROVE Adding(work[v])'
      OBVIOUS
    <2>1. CASE v = b
      BY <1>3, <1>5, <2>1 DEF Adding
    <2>2. CASE v # b
      <3>1. Adding(work[v]) /\ work'[v] = work[v]
        BY <1>5, <2>2 DEF OwnerInv
      <3> QED
        BY <1>1, <1>6, <1>7, <3>1 DEF Adding
    <2> QED
      BY <2>1, <2>2
  <1>9. HalfMade'
    <2>1. \A i : BeingAdded(i) => BeingAdded(i)'
      BY <1>3, <1>5 DEF BeingAdded
    <2> QED
      BY <1>1, <1>6, <1>7, <2>1 DEF OwnerInv, HalfMade
  <1>10. OneAtATime'
    <2> SUFFICES ASSUME ~overlapped PROVE OneAtATime'
      BY <1>1 DEF OneAtATime
    <2>1. \A v \in Worker : Weakens(work'[v]) => v # b /\ Weakens(work[v]) /\ work'[v] = work[v]
      BY <1>5 DEF Weakens
    <2>2. \A v \in Worker : Weakens(work[v])' <=> Weakens(work'[v])
      BY DEF Weakens
    <2>3. CASE Weakens(work[b])
      <3>1. \A v \in Worker : ~Weakens(work'[v])
        BY <1>1, <2>1, <2>3 DEF OwnerInv, OneAtATime
      <3>2. PICK j \in Id : j # gone /\ ActiveOwner(j)
        BY <1>1, <2>3 DEF OwnerInv, OneAtATime
      <3>3. ActiveOwner(j)'
        BY <1>6, <1>7, <3>2 DEF ActiveOwner
      <3> QED
        BY <2>2, <3>1, <3>3 DEF OneAtATime
    <2>4. CASE ~Weakens(work[b])
      <3>1. work[b].role = "owner" /\ work[b].on
        BY <1>2, <2>4 DEF Weakens
      <3>2. \A j \in Id : ActiveOwner(j) => ActiveOwner(j)'
        BY <1>6, <1>7, <3>1 DEF ActiveOwner
      <3>3. \E j \in Id : ActiveOwner(j)'
        BY <3>2 DEF OwnerInv, OneAtATime
      <3>4. \A v \in Worker : Weakens(work'[v]) =>
              /\ \E j \in Id : j # work'[v].id /\ ActiveOwner(j)'
              /\ \A u \in Worker : Weakens(work'[u]) => u = v
        BY <2>1, <3>2 DEF OwnerInv, OneAtATime
      <3> QED
        BY <2>2, <3>3, <3>4 DEF OneAtATime
    <2> QED
      BY <2>3, <2>4
  <1> QED
    BY <1>8, <1>9, <1>10 DEF OwnerInv

LEMMA DeleteUserInv ==
  ASSUME OwnerInv, TypeOK', NEW b \in Browser, DeleteUser(b)
  PROVE  OwnerInv'
  <1> DEFINE gone == work[b].id
  <1>1. /\ faults \in Nat /\ faults' = faults /\ overlapped' = overlapped /\ faults <= faults'
        /\ b \in Worker /\ work \in [Worker -> Work] /\ work[b] \in Work
        /\ users \in [Id -> Account]
    BY Workers DEF OwnerInv, TypeOK, DeleteUser
  <1>2. Adding(work[b]) /\ work[b].at = "remove"
    BY <1>1 DEF OwnerInv, DeleteUser
  <1>3. CASE Quit(b) /\ UNCHANGED users
    <2>1. work[b].why # "add" \/ work[b].id = 0 \/ ~Live(work[b].id) \/ faults' > 0
      BY <1>1, <1>2 DEF Adding
    <2>2. Calm
      BY <1>3, UnchangedIsCalm
    <2> QED
      BY <1>1, <1>3, <2>1, <2>2, CalmFinish DEF Quit
  <1>4. CASE /\ users' = [i \in Id |-> IF Live(i) /\ i = gone
                            THEN [users[i] EXCEPT !.state = "removed"] ELSE users[i]]
             /\ IF work[b].why = "add" THEN Finish(b) ELSE Step(b, "audit")
    <2>1. \A i \in Id :
            /\ i # gone => users'[i] = users[i]
            /\ users[i].state # "free" => users'[i].state # "free"
            /\ users'[i].name = users[i].name /\ users'[i].pin = users[i].pin
      <3> SUFFICES ASSUME NEW i \in Id
                   PROVE  /\ i # gone => users'[i] = users[i]
                          /\ users[i].state # "free" => users'[i].state # "free"
                          /\ users'[i].name = users[i].name /\ users'[i].pin = users[i].pin
        OBVIOUS
      <3>1. users[i] \in Account
        BY <1>1
      <3>2. users'[i] = IF Live(i) /\ i = gone
                        THEN [users[i] EXCEPT !.state = "removed"] ELSE users[i]
        BY <1>4
      <3> QED
        BY <3>1, <3>2 DEF Account
    <2>2. \A i : Live(i)' <=> Live(i) /\ i # gone
      <3> SUFFICES ASSUME NEW i \in Id PROVE Live(i)' <=> Live(i) /\ i # gone
        BY DEF Live
      <3>1. users[i] \in Account
        BY <1>1
      <3>2. users'[i] = IF Live(i) /\ i = gone
                        THEN [users[i] EXCEPT !.state = "removed"] ELSE users[i]
        BY <1>4
      <3> QED
        BY <3>1, <3>2 DEF Account, Live
    <2>3. \A v \in Worker : v # b => work'[v] = work[v]
      BY <1>1, <1>4 DEF Finish, Step
    <2>4. work'[b].at \notin {"create", "update", "remove"} /\ work'[b].why # "add"
      <3>1. CASE work[b].why = "add"
        <4>1. work'[b] = NoWork
          BY <1>1, <1>4, <3>1 DEF Finish
        <4>2. NoWork.at = "idle" /\ NoWork.why = ""
          BY DEF NoWork, Doing
        <4> QED
          BY <4>1, <4>2
      <3>2. CASE work[b].why # "add"
        <4>1. work'[b] = [work[b] EXCEPT !.at = "audit"]
          BY <1>1, <1>4, <3>2 DEF Step
        <4>2. work'[b].at = "audit" /\ work'[b].why = work[b].why
          BY <1>1, <4>1 DEF Work
        <4> QED
          BY <3>2, <4>2
      <3> QED
        BY <3>1, <3>2
    <2>5. \A v \in Worker : Adding(work[v])'
      <3> SUFFICES ASSUME NEW v \in Worker PROVE Adding(work[v])'
        OBVIOUS
      <3>1. CASE v = b
        BY <2>4, <3>1 DEF Adding
      <3>2. CASE v # b
        <4>1. Adding(work[v]) /\ work'[v] = work[v]
          BY <2>3, <3>2 DEF OwnerInv
        <4> QED
          BY <1>1, <2>1, <2>2, <4>1 DEF Adding
      <3> QED
        BY <3>1, <3>2
    <2>6. HalfMade'
      <3> SUFFICES ASSUME NEW i \in Id, Live(i)', users'[i].pin = 0, i # BuiltIn, faults' = 0
                   PROVE  BeingAdded(i)'
        BY <1>1 DEF HalfMade
      <3>1. Live(i) /\ users[i].pin = 0 /\ faults = 0 /\ i # gone
        BY <1>1, <2>1, <2>2
      <3>2. PICK v \in Worker : work[v].why = "add" /\ work[v].id = i
        BY <3>1 DEF OwnerInv, HalfMade, BeingAdded
      <3> QED
        BY <2>3, <3>1, <3>2 DEF BeingAdded
    <2>7. OneAtATime'
      <3> SUFFICES ASSUME ~overlapped PROVE OneAtATime'
        BY <1>1 DEF OneAtATime
      <3>1. Weakens(work[b])
        BY <1>2 DEF Weakens
      <3>2. \A v \in Worker : ~Weakens(work'[v])
        <4>1. ~Weakens(work'[b])
          BY <2>4 DEF Weakens
        <4> QED
          BY <1>1, <2>3, <3>1, <4>1 DEF OwnerInv, OneAtATime
      <3>3. \A v \in Worker : Weakens(work[v])' <=> Weakens(work'[v])
        BY DEF Weakens
      <3>4. PICK j \in Id : j # gone /\ ActiveOwner(j)
        BY <1>1, <3>1 DEF OwnerInv, OneAtATime
      <3>5. ActiveOwner(j)'
        BY <2>1, <2>2, <3>4 DEF ActiveOwner
      <3> QED
        BY <3>2, <3>3, <3>5 DEF OneAtATime
    <2> QED
      BY <2>5, <2>6, <2>7 DEF OwnerInv
  <1> QED
    BY <1>3, <1>4 DEF DeleteUser

\* At the start every owner but the built-in one has a PIN.
LEMMA OwnerInit ==
  ASSUME Init
  PROVE  OwnerInv
  <1>1. PICK owners \in {{BuiltIn}, DOMAIN Owners} : users = Started(owners)
    BY DEF Init
  <1>2. TypeOK /\ users \in [Id -> Account]
    BY InitType DEF TypeOK
  <1>3. \A w \in Worker : work[w] = NoWork
    BY DEF Init
  <1>4. NoWork.at = "idle" /\ NoWork.why = ""
    BY DEF NoWork, Doing
  <1>5. \A w \in Worker : Adding(work[w]) /\ ~Weakens(work[w])
    BY <1>3, <1>4 DEF Adding, Weakens
  <1>6. \A i \in Id : Live(i) => i \in owners
    BY <1>1 DEF Started, New, Live
  <1>7. \A i \in owners \cap Id : users[i] = [New(Owners[i], "owner") EXCEPT
                                    !.pin = IF owners = {BuiltIn} THEN 0 ELSE 1]
    BY <1>1 DEF Started
  <1>8. \A i \in owners \cap Id :
          /\ users[i].pin = IF owners = {BuiltIn} THEN 0 ELSE 1
          /\ users[i].state = "live" /\ users[i].role = "owner" /\ users[i].active
    BY <1>7 DEF New
  <1>9. HalfMade
    BY <1>6, <1>8 DEF HalfMade
  <1>10. BuiltIn \in Id /\ BuiltIn \in owners
    BY OwnersAssumption, LimitAssumption DEF Id, BuiltIn
  <1>11. OneAtATime
    <2>1. ActiveOwner(BuiltIn)
      BY <1>8, <1>10 DEF ActiveOwner, Live
    <2> QED
      BY <1>5, <1>10, <2>1 DEF OneAtATime
  <1> QED
    BY <1>2, <1>5, <1>9, <1>11 DEF OwnerInv

LEMMA OwnerNext ==
  ASSUME OwnerInv, TypeOK', [Next]_vars
  PROVE  OwnerInv'
  <1>1. ASSUME NEW b \in Browser, NEW i \in Id, NEW right \in BOOLEAN, BeginLogin(b, i, right)
        PROVE  OwnerInv'
    BY <1>1, LoginInv
  <1>2. ASSUME NEW b \in Browser,
               \/ CreateSession(b) \/ Enter(b) \/ Logout(b) \/ SetPINFor(b)
               \/ ReadAgain(b) \/ SignOut(b) \/ Resolve(b) \/ CreateUser(b)
               \/ ReadRole(b) \/ CountOwners(b) \/ UpdateUser(b)
               \/ SwitchOff(b) \/ DeleteUser(b) \/ Audit(b)
        PROVE  OwnerInv'
    BY <1>2, CreateSessionInv, EnterInv, LogoutInv, SetPINForInv, ReadAgainInv, QuietInv,
       CreateUserInv, CountOwnersInv, UpdateUserInv, DeleteUserInv
  <1>3. ASSUME NEW b \in Browser,
               \/ BeginSetup(b)
               \/ \E right \in BOOLEAN : BeginOwn(b, right)
               \/ \E i \in Id : BeginPIN(b, i) \/ BeginApprove(b, i) \/ BeginDismiss(b, i)
                                \/ BeginRemove(b, i)
               \/ \E i \in Id, r \in Role, on \in BOOLEAN : BeginUpdate(b, i, r, on)
               \/ \E n \in Name, r \in Role : BeginAdd(b, n, r)
        PROVE  OwnerInv'
    BY <1>3, BeginningsInv
  <1>4. ASSUME NEW w \in Worker,
               RecordFailure(w) \/ Lock(w) \/ RecordSuccess(w) \/ SetupPIN(w)
        PROVE  OwnerInv'
    BY <1>4, FailureInv, LockInv, SetupPINInv
  <1>5. ASSUME NEW w \in Worker, Cancel(w) PROVE OwnerInv'
    BY <1>5, AbandonInv DEF Cancel
  <1>6. ASSUME NEW w \in Worker, StatementFails(w) PROVE OwnerInv'
    BY <1>6, StatementFailsInv
  <1>7. CASE Stop
    BY <1>7, Workers, AbandonInv DEF Stop
  <1>8. ASSUME NEW i \in Id, Unlock(i) \/ AskReset(i) PROVE OwnerInv'
    BY <1>8, LogoutInv
  <1>9. CASE BeginTool \/ DeleteAllSessions
    BY <1>9, BeginToolInv, DeleteAllSessionsInv
  <1>10. CASE UNCHANGED vars
    BY <1>10, CalmSame, UnchangedIsCalm DEF vars, history
  <1> QED
    BY <1>1, <1>2, <1>3, <1>4, <1>5, <1>6, <1>7, <1>8, <1>9, <1>10 DEF Next, Requests

\* However requests interleave and whatever fails, as long as no two that weaken
\* an owner overlap, somebody is left who can administer the station and has a
\* PIN, is being given one, or chooses it on the setup page.
THEOREM OwnerStays == Spec => []OwnerCanSignIn
  <1>1. Init => OwnerInv
    BY OwnerInit
  <1>2. OwnerInv /\ [Next]_vars => OwnerInv'
    BY NextType, OwnerNext DEF OwnerInv
  <1>3. OwnerInv => OwnerCanSignIn
    BY DEF OwnerInv, OneAtATime, HalfMade, OwnerCanSignIn, ActiveOwner
  <1> QED
    BY <1>1, <1>2, <1>3, PTL DEF Spec

-----------------------------------------------------------------------------
(* Which statements each kind of request goes through, and what it knows   *)
(* on the way.                                                             *)

Plain == {"", "login", "setup", "tool"}
SigningIn == {"success", "failure", "lock", "session"}

\* Every step of a request has its reason; a sign-in has a PIN to sign in with;
\* the tool works on the built-in name; and who changes something is known.
Shaped(w, what) ==
  /\ what.why = "" => what.at = "idle"
  /\ what.why = "login" => what.at \in SigningIn
  /\ what.why = "setup" => what.at \in SigningIn \cup {"pin", "enter"}
  /\ what.why = "tool" => what.at \in {"pin", "signout"} /\ w = Tool /\ what.name = OwnerUsername
  /\ what.why = "own" => what.at \in {"pin", "failure", "lock", "signout", "clear", "audit"}
  /\ what.why = "add" =>
       what.at \in {"create", "pin", "count", "others", "remove", "signout", "clear", "audit"}
  /\ what.why = "update" => what.at \in {"count", "others", "update", "off", "audit"}
  /\ what.why = "remove" => what.at \in {"count", "others", "remove", "audit"} /\ what.id # what.me
  /\ what.why = "pin" => what.at \in {"pin", "signout", "clear", "audit"}
  /\ what.why = "approve" => what.at \in {"pin", "signout", "clear", "resolve", "audit"}
  /\ what.why = "dismiss" => what.at \in {"resolve", "audit"}
  /\ what.at \in {"enter", "success", "session"} => what.pin # 0
  /\ what.why \notin Plain => what.me \in Id
  /\ what.why = "add" /\ what.at # "create" => what.id \in Id

ShapeInv == TypeOK /\ \A w \in Worker : Shaped(w, work[w])

\* One request takes a step, or is over.
LEMMA Moves ==
  ASSUME TypeOK, NEW w \in Worker, NEW at, Step(w, at)
  PROVE  /\ work'[w].at = at /\ work'[w].why = work[w].why /\ work'[w].me = work[w].me
         /\ work'[w].id = work[w].id /\ work'[w].name = work[w].name
         /\ work'[w].pin = work[w].pin
         /\ \A v \in Worker : v # w => work'[v] = work[v]
  BY DEF TypeOK, Step, Work

LEMMA MovesId ==
  ASSUME TypeOK, NEW w \in Worker, NEW at, NEW x, work' = [work EXCEPT ![w].at = at, ![w].id = x]
  PROVE  /\ work'[w].at = at /\ work'[w].id = x /\ work'[w].why = work[w].why
         /\ work'[w].me = work[w].me /\ work'[w].name = work[w].name
         /\ work'[w].pin = work[w].pin
         /\ \A v \in Worker : v # w => work'[v] = work[v]
  <1>1. work \in [Worker -> Work] /\ work[w] \in Work
    BY DEF TypeOK
  <1>2. work' = [work EXCEPT ![w] = [work[w] EXCEPT !.at = at, !.id = x]]
    BY <1>1
  <1>3. PICK what : what = [work[w] EXCEPT !.at = at, !.id = x]
    OBVIOUS
  <1>4. /\ what.at = at /\ what.id = x /\ what.why = work[w].why /\ what.me = work[w].me
        /\ what.name = work[w].name /\ what.pin = work[w].pin
    BY <1>1, <1>3 DEF Work
  <1> QED
    BY <1>1, <1>2, <1>3, <1>4

LEMMA MovesPIN ==
  ASSUME TypeOK, NEW w \in Worker, NEW at, NEW x, work' = [work EXCEPT ![w].at = at, ![w].pin = x]
  PROVE  /\ work'[w].at = at /\ work'[w].pin = x /\ work'[w].why = work[w].why
         /\ work'[w].me = work[w].me /\ work'[w].name = work[w].name
         /\ work'[w].id = work[w].id
         /\ \A v \in Worker : v # w => work'[v] = work[v]
  <1>1. work \in [Worker -> Work] /\ work[w] \in Work
    BY DEF TypeOK
  <1>2. work' = [work EXCEPT ![w] = [work[w] EXCEPT !.at = at, !.pin = x]]
    BY <1>1
  <1>3. PICK what : what = [work[w] EXCEPT !.at = at, !.pin = x]
    OBVIOUS
  <1>4. /\ what.at = at /\ what.pin = x /\ what.why = work[w].why /\ what.me = work[w].me
        /\ what.name = work[w].name /\ what.id = work[w].id
    BY <1>1, <1>3 DEF Work
  <1> QED
    BY <1>1, <1>2, <1>3, <1>4

LEMMA MovesFound ==
  ASSUME TypeOK, NEW w \in Worker, NEW at, NEW x,
         work' = [work EXCEPT ![w].at = at, ![w].found = x]
  PROVE  /\ work'[w].at = at /\ work'[w].found = x /\ work'[w].why = work[w].why
         /\ work'[w].me = work[w].me /\ work'[w].name = work[w].name
         /\ work'[w].id = work[w].id
         /\ \A v \in Worker : v # w => work'[v] = work[v]
  <1>1. work \in [Worker -> Work] /\ work[w] \in Work
    BY DEF TypeOK
  <1>2. work' = [work EXCEPT ![w] = [work[w] EXCEPT !.at = at, !.found = x]]
    BY <1>1
  <1>3. PICK what : what = [work[w] EXCEPT !.at = at, !.found = x]
    OBVIOUS
  <1>4. /\ what.at = at /\ what.found = x /\ what.why = work[w].why /\ what.me = work[w].me
        /\ what.name = work[w].name /\ what.id = work[w].id
    BY <1>1, <1>3 DEF Work
  <1> QED
    BY <1>1, <1>2, <1>3, <1>4

LEMMA Ends ==
  ASSUME TypeOK, NEW w \in Worker, Finish(w)
  PROVE  /\ work'[w] = NoWork /\ work'[w].at = "idle" /\ work'[w].why = ""
         /\ \A v \in Worker : v # w => work'[v] = work[v]
  BY DEF TypeOK, Finish, NoWork, Doing

LEMMA NoWorkShaped ==
  ASSUME NEW w
  PROVE  Shaped(w, NoWork)
  BY DEF Shaped, NoWork, Doing, Plain

\* What a request is when it begins.
Opens(w, what) ==
  /\ Begin(w, what)
  /\ Shaped(w, what)
  /\ what.why \notin Plain => Live(what.me)
  /\ what.at \notin {"signout", "clear", "remove", "count", "others"} \/ what.why \in {"update", "remove"}
  /\ what.why = "add" => what.at = "create"
  /\ UNCHANGED <<users, sessions, resets, resolved, faults, history>>

LEMMA LoginOpens ==
  ASSUME TypeOK, NEW b \in Browser, NEW i \in Id, NEW right \in BOOLEAN, BeginLogin(b, i, right)
  PROVE  \E what : Opens(b, what)
  <1> DEFINE typed(at) == [Doing(at, "login", 0, i, users[i].name) EXCEPT !.pin = users[i].pin]
  <1>1. users[i].pin # 0 /\ UNCHANGED <<users, sessions, resets, resolved, faults, history>>
    BY DEF BeginLogin, MayLogin
  <1>2. Begin(b, typed("success")) \/ Begin(b, typed("failure"))
    BY DEF BeginLogin, Change
  <1>3. ASSUME NEW at \in {"success", "failure"}
        PROVE  typed(at).at = at /\ typed(at).why = "login" /\ typed(at).pin # 0
    BY <1>1 DEF Doing
  <1>4. ASSUME NEW at \in {"success", "failure"}, Begin(b, typed(at))
        PROVE  Opens(b, typed(at))
    BY <1>1, <1>3, <1>4 DEF Opens, Shaped, Plain, SigningIn
  <1> QED
    BY <1>2, <1>4

LEMMA PageOpens ==
  ASSUME TypeOK, NEW b \in Browser,
         \/ BeginSetup(b)
         \/ \E right \in BOOLEAN : BeginOwn(b, right)
         \/ \E i \in Id : BeginPIN(b, i) \/ BeginApprove(b, i) \/ BeginDismiss(b, i)
                          \/ BeginRemove(b, i)
         \/ \E i \in Id, r \in Role, on \in BOOLEAN : BeginUpdate(b, i, r, on)
         \/ \E n \in Name, r \in Role : BeginAdd(b, n, r)
  PROVE  \E what : Opens(b, what)
  <1> DEFINE Same == UNCHANGED <<users, sessions, resets, resolved, faults, history>>
  <1>1. ASSUME NEW at, NEW why, NEW me \in CurrentUser(b), NEW id, NEW name,
               \/ why = "own" /\ at \in {"pin", "failure"}
               \/ why \in {"pin", "approve"} /\ at = "pin"
               \/ why = "dismiss" /\ at = "resolve"
               \/ why = "remove" /\ at = "count" /\ id # me,
               Change(b, Doing(at, why, me, id, name)), Same
        PROVE  \E what : Opens(b, what)
    <2> PICK what : what = Doing(at, why, me, id, name)
      OBVIOUS
    <2>1. what.at = at /\ what.why = why /\ what.me = me /\ what.id = id
      BY DEF Doing
    <2>2. Shaped(b, what)
      BY <1>1, <2>1, CurrentUserType DEF Shaped, Plain
    <2> QED
      BY <1>1, <2>1, <2>2, CurrentUserType DEF Opens, Change
  <1>2. CASE BeginSetup(b)
    <2> PICK what : what = Doing("pin", "setup", 0, 0, OwnerUsername)
      OBVIOUS
    <2>1. what.at = "pin" /\ what.why = "setup"
      BY DEF Doing
    <2>2. Shaped(b, what)
      BY <2>1 DEF Shaped, Plain
    <2> QED
      BY <1>2, <2>1, <2>2 DEF BeginSetup, Opens, Change, Plain
  <1>3. ASSUME NEW right \in BOOLEAN, BeginOwn(b, right) PROVE \E what : Opens(b, what)
    <2>1. PICK i \in CurrentUser(b) : Change(b, OwnPIN(i, right))
      BY <1>3 DEF BeginOwn
    <2>2. PICK name, at : name = users[i].name /\ at = IF right THEN "pin" ELSE "failure"
      OBVIOUS
    <2>3. Change(b, Doing(at, "own", i, i, name)) /\ at \in {"pin", "failure"} /\ Same
      BY <1>3, <2>1, <2>2 DEF OwnPIN, BeginOwn
    <2> QED
      BY <1>1, <2>3
  <1>4. ASSUME NEW i \in Id, BeginPIN(b, i) \/ BeginApprove(b, i)
        PROVE  \E what : Opens(b, what)
    <2>1. PICK me \in CurrentUser(b), why \in {"pin", "approve"} : Change(b, GivePIN(me, i, why))
      BY <1>4 DEF BeginPIN, BeginApprove
    <2>2. PICK name : name = users[i].name
      OBVIOUS
    <2>3. Change(b, Doing("pin", why, me, i, name)) /\ Same
      BY <1>4, <2>1, <2>2 DEF GivePIN, BeginPIN, BeginApprove
    <2> QED
      BY <1>1, <2>3
  <1>5. ASSUME NEW i \in Id, BeginDismiss(b, i) PROVE \E what : Opens(b, what)
    <2>1. PICK name : name = users[i].name
      OBVIOUS
    <2>2. PICK me \in CurrentUser(b) : Change(b, Doing("resolve", "dismiss", me, i, name))
      BY <1>5, <2>1 DEF BeginDismiss
    <2> QED
      BY <1>1, <1>5, <2>2 DEF BeginDismiss
  <1>6. ASSUME NEW i \in Id, BeginRemove(b, i) PROVE \E what : Opens(b, what)
    <2>1. PICK name : name = users[i].name
      OBVIOUS
    <2>2. PICK me \in CurrentUser(b) :
            i # me /\ Change(b, Doing("count", "remove", me, i, name))
      BY <1>6, <2>1 DEF BeginRemove
    <2> QED
      BY <1>1, <1>6, <2>2 DEF BeginRemove
  <1>7. ASSUME NEW i \in Id, NEW r \in Role, NEW on \in BOOLEAN, BeginUpdate(b, i, r, on)
        PROVE  \E what : Opens(b, what)
    <2>1. PICK me \in CurrentUser(b) :
            Change(b, [Doing(IF r = "owner" /\ on THEN "update" ELSE "count",
                             "update", me, i, users[i].name) EXCEPT !.role = r, !.on = on])
      BY <1>7 DEF BeginUpdate
    <2>2. PICK what : what = [Doing(IF r = "owner" /\ on THEN "update" ELSE "count",
                             "update", me, i, users[i].name) EXCEPT !.role = r, !.on = on]
      OBVIOUS
    <2>3. what.at \in {"update", "count"} /\ what.why = "update" /\ what.me = me
      BY <2>2 DEF Doing
    <2>4. Shaped(b, what)
      BY <2>3, CurrentUserType DEF Shaped, Plain
    <2> QED
      BY <1>7, <2>1, <2>2, <2>3, <2>4, CurrentUserType DEF BeginUpdate, Change, Opens
  <1>8. ASSUME NEW n \in Name, NEW r \in Role, BeginAdd(b, n, r)
        PROVE  \E what : Opens(b, what)
    <2>1. PICK me \in CurrentUser(b) : Change(b, [Doing("create", "add", me, 0, n) EXCEPT !.role = r])
      BY <1>8 DEF BeginAdd
    <2>2. PICK what : what = [Doing("create", "add", me, 0, n) EXCEPT !.role = r]
      OBVIOUS
    <2>3. what.at = "create" /\ what.why = "add" /\ what.me = me
      BY <2>2 DEF Doing
    <2>4. Shaped(b, what)
      BY <2>3, CurrentUserType DEF Shaped, Plain
    <2> QED
      BY <1>8, <2>1, <2>2, <2>3, <2>4, CurrentUserType DEF BeginAdd, Change, Opens
  <1> QED
    BY <1>2, <1>3, <1>4, <1>5, <1>6, <1>7, <1>8

LEMMA ToolOpens ==
  ASSUME TypeOK, BeginTool
  PROVE  \E what : Opens(Tool, what)
  <1> PICK what : what = Doing("pin", "tool", 0, 0, OwnerUsername)
    OBVIOUS
  <1>1. what.at = "pin" /\ what.why = "tool" /\ what.name = OwnerUsername
    BY DEF Doing
  <1>2. Shaped(Tool, what)
    BY <1>1 DEF Shaped, Plain
  <1> QED
    BY <1>1, <1>2 DEF BeginTool, Opens, Change, Plain

\* What a request is after its next statement.
LEMMA ShapedAll ==
  ASSUME TypeOK', ShapeInv, NEW w \in Worker, Shaped(w, work'[w]),
         \A v \in Worker : v # w => work'[v] = work[v]
  PROVE  ShapeInv'
  <1>1. \A v \in Worker : Shaped(v, work'[v])
    BY DEF ShapeInv
  <1>2. ASSUME NEW v \in Worker PROVE Shaped(v, work[v])' <=> Shaped(v, work'[v])
    BY DEF Shaped
  <1> QED
    BY <1>1, <1>2 DEF ShapeInv

LEMMA ShapedEnd ==
  ASSUME TypeOK', ShapeInv, NEW w \in Worker, Finish(w)
  PROVE  ShapeInv'
  BY Ends, NoWorkShaped, ShapedAll DEF ShapeInv

\* The statements that may come next.
LEMMA ShapedStep ==
  ASSUME TypeOK', ShapeInv, NEW w \in Worker, NEW at, Step(w, at),
         \/ work[w].at \in {"failure", "success"} /\ work[w].why \in {"login", "setup"}
            /\ at \in {"lock", "session"}
            /\ (at = "session" => work[w].at = "success")
         \/ work[w].why = "own" /\ at = "lock"
         \/ work[w].why = "tool" /\ at = "signout"
         \/ work[w].why \in {"own", "add", "pin", "approve"} /\ at \in {"signout", "audit"}
            /\ work[w].at \in {"pin", "signout", "clear", "resolve"}
         \/ work[w].why = "add" /\ at = "count" /\ work[w].at \in {"pin", "clear"}
         \/ work[w].why \in {"add", "update", "remove"} /\ at = "others" /\ work[w].at = "count"
         \/ work[w].why = "approve" /\ at = "resolve"
         \/ work[w].why \in {"approve", "dismiss"} /\ at = "audit"
         \/ work[w].why = "update" /\ at \in {"update", "off", "audit"}
         \/ work[w].why = "remove" /\ at \in {"remove", "audit"}
         \/ work[w].why = "add" /\ at = "remove" /\ work[w].at \in {"count", "others"}
  PROVE  ShapeInv'
  <1>1. Shaped(w, work[w])
    BY DEF ShapeInv
  <1>2. Shaped(w, work'[w])
    BY <1>1, Moves DEF Shaped, Plain, SigningIn, ShapeInv
  <1> QED
    BY <1>2, Moves, ShapedAll DEF ShapeInv

LEMMA AfterSignOutShape ==
  ASSUME TypeOK', ShapeInv, NEW w \in Worker, work[w].at \in {"signout", "clear"},
         work[w].why # "tool", AfterSignOut(w)
  PROVE  ShapeInv'
  <1>1. Shaped(w, work[w]) /\ work[w] \in Work
    BY DEF ShapeInv, TypeOK
  <1>2. work[w].why \in {"own", "add", "pin", "approve"}
    BY <1>1 DEF Shaped, Work, SigningIn
  <1>3. CASE Quit(w)
    BY <1>3, ShapedEnd DEF Quit
  <1>4. CASE Step(w, "audit")
    BY <1>2, <1>4, ShapedStep
  <1>5. CASE work[w].why = "approve" /\ Step(w, "resolve")
    BY <1>5, ShapedStep
  <1> QED
    BY <1>3, <1>4, <1>5 DEF AfterSignOut

LEMMA AbandonShape ==
  ASSUME TypeOK', ShapeInv, NEW stopped \in SUBSET Worker, Abandon(stopped)
  PROVE  ShapeInv'
  <1>1. \A w \in Worker : Shaped(w, work'[w])
    BY NoWorkShaped DEF Abandon, ShapeInv
  <1>2. ASSUME NEW v \in Worker PROVE Shaped(v, work[v])' <=> Shaped(v, work'[v])
    BY DEF Shaped
  <1> QED
    BY <1>1, <1>2 DEF ShapeInv

LEMMA OpensShape ==
  ASSUME TypeOK', ShapeInv, NEW w \in Worker, NEW what, Opens(w, what)
  PROVE  ShapeInv'
  <1>1. work'[w] = what /\ \A v \in Worker : v # w => work'[v] = work[v]
    BY DEF Opens, Begin, ShapeInv, TypeOK
  <1> QED
    BY <1>1, ShapedAll DEF Opens

\* Signing in.
LEMMA SigningInShape ==
  ASSUME TypeOK', ShapeInv, NEW w \in Worker,
         \/ RecordFailure(w) \/ Lock(w) \/ RecordSuccess(w)
         \/ w \in Browser /\ (CreateSession(w) \/ Enter(w))
  PROVE  ShapeInv'
  <1>1. Shaped(w, work[w]) /\ work[w] \in Work /\ TypeOK
    BY DEF ShapeInv, TypeOK
  <1>2. CASE Finish(w)
    BY <1>2, ShapedEnd
  <1>3. CASE RecordFailure(w) /\ Step(w, "lock")
    <2>1. work[w].at = "failure" /\ work[w].why \in {"login", "setup", "own"}
      BY <1>1, <1>3 DEF RecordFailure, Shaped, Work, SigningIn
    <2> QED
      BY <1>3, <2>1, ShapedStep
  <1>4. CASE RecordSuccess(w)
    <2>1. work[w].at = "success" /\ work[w].why \in {"login", "setup"} /\ Step(w, "session")
      BY <1>1, <1>4 DEF RecordSuccess, Shaped, Work, SigningIn
    <2> QED
      BY <2>1, ShapedStep
  <1>5. CASE Enter(w) /\ ~Finish(w)
    <2>1. work[w].at = "enter" /\ work[w].why = "setup" /\ work[w].pin # 0
      BY <1>1, <1>5 DEF Enter, Shaped, Work, SigningIn
    <2>2. PICK i \in Id : work' = [work EXCEPT
                  ![w].at = IF users[i].pin = work[w].pin THEN "success" ELSE "failure",
                  ![w].id = i]
      BY <1>5 DEF Enter, Named
    <2>3. PICK at : at = IF users[i].pin = work[w].pin THEN "success" ELSE "failure"
      OBVIOUS
    <2>4. at \in {"success", "failure"} /\ work' = [work EXCEPT ![w].at = at, ![w].id = i]
      BY <2>2, <2>3
    <2>5. /\ work'[w].at \in {"success", "failure"} /\ work'[w].why = "setup"
          /\ work'[w].pin = work[w].pin
          /\ \A v \in Worker : v # w => work'[v] = work[v]
      BY <1>1, <2>1, <2>4, MovesId
    <2>6. Shaped(w, work'[w])
      BY <2>1, <2>5 DEF Shaped, Plain, SigningIn
    <2> QED
      BY <2>5, <2>6, ShapedAll
  <1> QED
    BY <1>2, <1>3, <1>4, <1>5 DEF RecordFailure, Lock, CreateSession

\* Setting a PIN.
LEMMA SettingShape ==
  ASSUME TypeOK', ShapeInv, NEW w \in Worker,
         \/ SetupPIN(w)
         \/ w \in Browser /\ (SetPINFor(w) \/ ReadAgain(w) \/ SignOut(w))
  PROVE  ShapeInv'
  <1>1. Shaped(w, work[w]) /\ work[w] \in Work /\ TypeOK
    BY DEF ShapeInv, TypeOK
  <1>2. CASE Finish(w)
    BY <1>2, ShapedEnd
  <1>3. CASE SetupPIN(w) /\ ~Finish(w)
    <2>1. PICK i \in Named(OwnerUsername) :
            IF work[w].why = "setup"
            THEN work' = [work EXCEPT ![w].at = "enter", ![w].pin = users[i].pin + 1]
            ELSE Step(w, "signout")
      BY <1>3 DEF SetupPIN
    <2>2. CASE work[w].why = "setup"
      <3>0. PICK pin : pin = users[i].pin + 1
        OBVIOUS
      <3>4. work' = [work EXCEPT ![w].at = "enter", ![w].pin = pin]
        BY <2>1, <2>2, <3>0
      <3>1. /\ work'[w].at = "enter" /\ work'[w].why = "setup"
            /\ work'[w].pin = pin
        <4>1. work \in [Worker -> Work] /\ work[w] \in Work
          BY <1>1 DEF TypeOK
        <4>2. PICK what : what = [work[w] EXCEPT !.at = "enter", !.pin = pin]
          OBVIOUS
        <4>3. what.at = "enter" /\ what.why = work[w].why /\ what.pin = pin
          BY <4>1, <4>2 DEF Work
        <4>4. work'[w] = what
          BY <3>4, <4>1, <4>2
        <4> QED
          BY <2>2, <4>3, <4>4
      <3>6. \A v \in Worker : v # w => work'[v] = work[v]
        BY <3>4, <1>1 DEF TypeOK
      <3>2. users[i].pin \in Nat
        BY <1>1 DEF Named, TypeOK, Account
      <3>3. Shaped(w, work'[w])
        BY <3>0, <3>1, <3>2 DEF Shaped, Plain
      <3> QED
        BY <3>3, <3>6, ShapedAll
    <2>3. CASE work[w].why # "setup"
      BY <1>3, <2>1, <2>3, ShapedStep DEF SetupPIN
    <2> QED
      BY <2>2, <2>3
  <1>4. CASE w \in Browser /\ SetPINFor(w) /\ ~Finish(w)
    <2>1. work[w].at = "pin" /\ work[w].why \in {"own", "add", "pin", "approve"}
      BY <1>4 DEF SetPINFor
    <2>2. Step(w, "signout") \/ (work[w].why = "add" /\ Step(w, "count"))
      BY <1>4 DEF SetPINFor
    <2> QED
      BY <2>1, <2>2, ShapedStep
  <1>5. CASE w \in Browser /\ SignOut(w)
    <2>1. work[w].why # "tool" /\ work[w].at = "clear" /\ AfterSignOut(w)
      BY <1>1, <1>5 DEF Shaped, SignOut
    <2> QED
      BY <2>1, AfterSignOutShape
  <1>6. CASE w \in Browser /\ ReadAgain(w)
    <2>1. work[w].why # "tool" /\ work[w].at = "signout"
      BY <1>6 DEF ReadAgain
    <2>2. CASE AfterSignOut(w)
      BY <2>1, <2>2, AfterSignOutShape
    <2>3. ASSUME NEW i, work' = [work EXCEPT ![w].at = "clear", ![w].found = i]
          PROVE  ShapeInv'
      <3>1. /\ work'[w].at = "clear" /\ work'[w].why = work[w].why /\ work'[w].me = work[w].me
            /\ work'[w].id = work[w].id
            /\ \A v \in Worker : v # w => work'[v] = work[v]
        BY <1>1, <2>3, MovesFound
      <3>2. work[w].why \in {"own", "add", "pin", "approve"}
        BY <1>1, <2>1 DEF Shaped, Work, SigningIn
      <3>3. Shaped(w, work'[w])
        BY <1>1, <2>1, <3>1, <3>2 DEF Shaped, Plain
      <3> QED
        BY <3>1, <3>3, ShapedAll
    <2> QED
      BY <1>6, <2>2, <2>3 DEF ReadAgain
  <1> QED
    BY <1>2, <1>3, <1>4, <1>5, <1>6

\* The People page.
LEMMA PeopleShape ==
  ASSUME TypeOK', ShapeInv, NEW b \in Browser,
         \/ Resolve(b) \/ CreateUser(b) \/ ReadRole(b) \/ CountOwners(b) \/ UpdateUser(b)
         \/ SwitchOff(b) \/ DeleteUser(b) \/ Audit(b)
  PROVE  ShapeInv'
  <1>1. b \in Worker /\ Shaped(b, work[b]) /\ work[b] \in Work /\ TypeOK
    BY Workers DEF ShapeInv, TypeOK
  <1>2. CASE Finish(b)
    BY <1>1, <1>2, ShapedEnd
  <1>3. CASE Resolve(b) /\ ~Finish(b)
    <2>1. work[b].why \in {"approve", "dismiss"} /\ Step(b, "audit")
      BY <1>1, <1>3 DEF Resolve, Shaped, Work, SigningIn
    <2> QED
      BY <1>1, <2>1, ShapedStep
  <1>4. CASE CreateUser(b) /\ ~Finish(b)
    <2>1. work[b].at = "create" /\ work[b].why = "add"
      BY <1>1, <1>4 DEF CreateUser, Shaped, Work, SigningIn
    <2>2. PICK i \in Id : work' = [work EXCEPT ![b].at = "pin", ![b].id = i]
      BY <1>4 DEF CreateUser
    <2>3. /\ work'[b].at = "pin" /\ work'[b].why = "add" /\ work'[b].id = i
          /\ work'[b].me = work[b].me
          /\ \A v \in Worker : v # b => work'[v] = work[v]
      BY <1>1, <2>1, <2>2 DEF TypeOK, Work
    <2>4. Shaped(b, work'[b])
      BY <1>1, <2>1, <2>3 DEF Shaped, Plain
    <2> QED
      BY <1>1, <2>3, <2>4, ShapedAll
  <1>5. CASE (ReadRole(b) \/ CountOwners(b)) /\ ~Finish(b)
    <2>1. work[b].at \in {"count", "others"} /\ work[b].why \in {"add", "update", "remove"}
      BY <1>1, <1>5 DEF ReadRole, CountOwners, Shaped, Work, SigningIn
    <2>2. \/ Step(b, IF work[b].why = "update" THEN "update" ELSE "remove")
          \/ work[b].at = "count" /\ Step(b, "others")
      BY <1>5 DEF ReadRole, CountOwners, NotLast, Quit
    <2> QED
      BY <1>1, <2>1, <2>2, ShapedStep
  <1>6. CASE UpdateUser(b) \/ SwitchOff(b)
    <2>1. work[b].why = "update"
      BY <1>1, <1>6 DEF UpdateUser, SwitchOff, Shaped, Work, SigningIn
    <2>2. Step(b, "audit") \/ Step(b, "off")
      BY <1>6 DEF UpdateUser, SwitchOff
    <2> QED
      BY <1>1, <2>1, <2>2, ShapedStep
  <1>7. CASE DeleteUser(b) /\ ~Finish(b)
    <2>1. work[b].at = "remove" /\ work[b].why = "remove" /\ Step(b, "audit")
      BY <1>1, <1>7 DEF DeleteUser, Quit, Shaped, Work, SigningIn
    <2> QED
      BY <1>1, <2>1, ShapedStep
  <1> QED
    BY <1>2, <1>3, <1>4, <1>5, <1>6, <1>7 DEF Audit

LEMMA StatementFailsShape ==
  ASSUME TypeOK', ShapeInv, NEW w \in Worker, StatementFails(w)
  PROVE  ShapeInv'
  <1>1. Shaped(w, work[w]) /\ work[w] \in Work /\ TypeOK
    BY DEF ShapeInv, TypeOK
  <1>2. CASE work[w].why = "add" /\ work[w].at \in {"pin", "clear"} /\ Step(w, "count")
    BY <1>2, ShapedStep
  <1>3. CASE work[w].at = "signout" /\ work[w].why # "tool" /\ AfterSignOut(w)
    BY <1>3, AfterSignOutShape
  <1>4. CASE /\ \/ work[w].at = "off"
                \/ work[w].at = "resolve" /\ work[w].why = "approve"
             /\ Step(w, "audit")
    <2>1. work[w].why \in {"update", "approve"}
      BY <1>1, <1>4 DEF Shaped, Work, SigningIn
    <2> QED
      BY <1>4, <2>1, ShapedStep
  <1>5. CASE Quit(w)
    BY <1>5, ShapedEnd DEF Quit
  <1> QED
    BY <1>2, <1>3, <1>4, <1>5 DEF StatementFails

LEMMA ShapeNext ==
  ASSUME ShapeInv, TypeOK', [Next]_vars
  PROVE  ShapeInv'
  <1>1. ASSUME NEW b \in Browser, NEW i \in Id, NEW right \in BOOLEAN, BeginLogin(b, i, right)
        PROVE  ShapeInv'
    BY <1>1, Workers, LoginOpens, OpensShape DEF ShapeInv
  <1>2. ASSUME NEW b \in Browser,
               \/ BeginSetup(b)
               \/ \E right \in BOOLEAN : BeginOwn(b, right)
               \/ \E i \in Id : BeginPIN(b, i) \/ BeginApprove(b, i) \/ BeginDismiss(b, i)
                                \/ BeginRemove(b, i)
               \/ \E i \in Id, r \in Role, on \in BOOLEAN : BeginUpdate(b, i, r, on)
               \/ \E n \in Name, r \in Role : BeginAdd(b, n, r)
        PROVE  ShapeInv'
    BY <1>2, Workers, PageOpens, OpensShape DEF ShapeInv
  <1>3. ASSUME NEW b \in Browser,
               CreateSession(b) \/ Enter(b) \/ SetPINFor(b) \/ ReadAgain(b) \/ SignOut(b)
        PROVE  ShapeInv'
    BY <1>3, Workers, SigningInShape, SettingShape
  <1>4. ASSUME NEW b \in Browser,
               \/ Resolve(b) \/ CreateUser(b) \/ ReadRole(b) \/ CountOwners(b) \/ UpdateUser(b)
               \/ SwitchOff(b) \/ DeleteUser(b) \/ Audit(b)
        PROVE  ShapeInv'
    BY <1>4, PeopleShape
  <1>5. ASSUME NEW w \in Worker,
               RecordFailure(w) \/ Lock(w) \/ RecordSuccess(w) \/ SetupPIN(w)
        PROVE  ShapeInv'
    BY <1>5, SigningInShape, SettingShape
  <1>6. ASSUME NEW w \in Worker, Cancel(w) \/ StatementFails(w) PROVE ShapeInv'
    BY <1>6, AbandonShape, StatementFailsShape DEF Cancel
  <1>7. CASE Stop
    BY <1>7, Workers, AbandonShape DEF Stop
  <1>8. CASE BeginTool
    BY <1>8, Workers, ToolOpens, OpensShape DEF ShapeInv
  <1>9. CASE DeleteAllSessions
    BY <1>9, Workers, ShapedEnd DEF DeleteAllSessions
  <1>10. ASSUME UNCHANGED work PROVE ShapeInv'
    BY <1>10 DEF ShapeInv, Shaped
  <1>11. ASSUME NEW b \in Browser, Logout(b) PROVE ShapeInv'
    BY <1>10, <1>11 DEF Logout
  <1>12. ASSUME NEW i \in Id, Unlock(i) \/ AskReset(i) PROVE ShapeInv'
    BY <1>10, <1>12 DEF Unlock, AskReset
  <1>13. CASE UNCHANGED vars
    BY <1>10, <1>13 DEF vars
  <1> QED
    BY <1>1, <1>2, <1>3, <1>4, <1>5, <1>6, <1>7, <1>8, <1>9, <1>11, <1>12, <1>13 DEF Next, Requests

LEMMA ShapeInit ==
  ASSUME Init
  PROVE  ShapeInv
  BY InitType, NoWorkShaped DEF Init, ShapeInv

-----------------------------------------------------------------------------
(* A session whose PIN was replaced is about to end.                       *)

\* A browser's cookie names a session or nothing, and a session was opened
\* with a PIN.
SessionPins ==
  \A b \in Browser :
    IF sessions[b].user = 0 THEN sessions[b] = NoSession ELSE sessions[b].pin # 0

SessInv == ShapeInv /\ SessionPins /\ SessionsCurrent

\* Nobody's PIN is replaced, and whoever was about to be signed out is, or still
\* will be, or a fault came.
LEMMA SessKeeps ==
  ASSUME SessInv, ShapeInv', UNCHANGED resetup, faults <= faults',
         \A i \in Id : Live(i) =>
           users'[i].pin = users[i].pin /\ users'[i].name = users[i].name,
         \A b \in Browser : sessions'[b] \in {sessions[b], NoSession},
         \A w \in Worker, i \in Id : Live(i) /\ SigningOut(work[w], i) =>
           \/ faults' > 0
           \/ SigningOut(work'[w], i)
           \/ \A b \in Browser : sessions'[b] # NoSession => sessions[b].user # i
  PROVE  SessInv'
  <1>1. faults \in Nat /\ faults' \in Nat
    BY DEF SessInv, ShapeInv, TypeOK
  <1>2. SessionPins'
    <2>1. ASSUME NEW b \in Browser
          PROVE  IF sessions'[b].user = 0 THEN sessions'[b] = NoSession ELSE sessions'[b].pin # 0
      <3>1. sessions'[b] = NoSession \/ sessions'[b] = sessions[b]
        OBVIOUS
      <3> QED
        BY <3>1 DEF SessInv, SessionPins, NoSession
    <2> QED
      BY <2>1 DEF SessionPins
  <1>3. ASSUME NEW b \in Browser, sessions'[b] # NoSession,
               users'[sessions'[b].user].pin # sessions'[b].pin
        PROVE  \/ sessions'[b].late \/ faults' > 0
               \/ resetup' /\ users'[sessions'[b].user].name = OwnerUsername
               \/ \E w \in Worker : SigningOut(work[w], sessions[b].user)'
    <2>1. sessions'[b] = sessions[b] /\ sessions[b].user # 0
      BY <1>3 DEF SessInv, SessionPins
    <2>2. PICK u : u = sessions[b].user
      OBVIOUS
    <2>3. u \in Id /\ Live(u)
      BY <2>1, <2>2 DEF SessInv, ShapeInv, TypeOK, Live
    <2>4. users'[u].pin = users[u].pin /\ users'[u].name = users[u].name
      BY <2>3
    <2>5. \/ sessions[b].late \/ faults > 0 \/ (resetup /\ users[u].name = OwnerUsername)
          \/ \E w \in Worker : SigningOut(work[w], u)
      BY <1>3, <2>1, <2>2, <2>4 DEF SessInv, SessionsCurrent
    <2>6. ASSUME NEW w \in Worker, SigningOut(work[w], u), ~(faults' > 0)
          PROVE  SigningOut(work[w], sessions[b].user)'
      <3>1. SigningOut(work'[w], u)
        BY <1>3, <2>1, <2>2, <2>3, <2>6
      <3> QED
        BY <2>1, <2>2, <2>4, <3>1 DEF SigningOut
    <2> QED
      BY <1>1, <2>1, <2>2, <2>4, <2>5, <2>6
  <1> QED
    BY <1>2, <1>3 DEF SessInv, SessionsCurrent

\* A request that signs nobody out takes a step.
LEMMA SessQuiet ==
  ASSUME SessInv, ShapeInv', UNCHANGED resetup, faults <= faults',
         \A i \in Id : Live(i) =>
           users'[i].pin = users[i].pin /\ users'[i].name = users[i].name,
         \A b \in Browser : sessions'[b] \in {sessions[b], NoSession},
         NEW w \in Worker, work[w].at \notin {"signout", "clear"},
         \A v \in Worker : v # w => work'[v] = work[v]
  PROVE  SessInv'
  <1>1. \A i : ~SigningOut(work[w], i)
    BY DEF SigningOut
  <1> QED
    BY <1>1, SessKeeps

\* It sets a PIN: the sessions of that account are about to end, or it is the
\* setup page.
LEMMA SessSetsPIN ==
  ASSUME SessInv, ShapeInv', UNCHANGED <<sessions, faults>>,
         NEW i \in Id, Live(i), SetDashboardUserPIN(i),
         NEW w \in Worker, work[w].at = "pin", \A v \in Worker : v # w => work'[v] = work[v],
         \/ UNCHANGED resetup /\ work'[w].at = "signout" /\ work'[w].name = users[i].name
         \/ resetup' = (resetup \/ users[i].pin # 0) /\ users[i].name = OwnerUsername
  PROVE  SessInv'
  <1>1. /\ users \in [Id -> Account] /\ \A j \in Id \ {i} : users'[j] = users[j]
        /\ users'[i].name = users[i].name
    BY DEF SessInv, ShapeInv, TypeOK, SetDashboardUserPIN, Account
  <1>2. SessionPins'
    BY DEF SessInv, SessionPins
  <1>3. ASSUME NEW b \in Browser, sessions[b] # NoSession,
               users'[sessions[b].user].pin # sessions[b].pin
        PROVE  \/ sessions[b].late \/ faults > 0
               \/ resetup' /\ users'[sessions[b].user].name = OwnerUsername
               \/ \E v \in Worker : SigningOut(work[v], sessions[b].user)'
    <2>1. sessions[b].user # 0 /\ sessions[b].pin # 0
      BY <1>3 DEF SessInv, SessionPins
    <2>2. PICK u : u = sessions[b].user
      OBVIOUS
    <2>3. u \in Id /\ Live(u) /\ users'[u].name = users[u].name
      BY <1>1, <2>1, <2>2 DEF SessInv, ShapeInv, TypeOK, Live
    <2>4. ASSUME users[u].pin # sessions[b].pin
          PROVE  \/ sessions[b].late \/ faults > 0 \/ (resetup /\ users[u].name = OwnerUsername)
                 \/ \E v \in Worker : SigningOut(work[v], u)
      BY <1>3, <2>2, <2>4 DEF SessInv, SessionsCurrent
    <2>5. ASSUME NEW v \in Worker, SigningOut(work[v], u)
          PROVE  SigningOut(work[v], sessions[b].user)'
      <3>1. work'[v] = work[v]
        BY <2>5 DEF SigningOut
      <3> QED
        BY <2>2, <2>3, <2>5, <3>1 DEF SigningOut
    <2>6. CASE users[u].pin # sessions[b].pin
      <3>1. resetup => resetup'
        OBVIOUS
      <3> QED
        BY <2>2, <2>3, <2>4, <2>5, <2>6, <3>1
    <2>7. CASE users[u].pin = sessions[b].pin
      <3>1. u = i
        BY <1>1, <1>3, <2>2, <2>3, <2>7
      <3> QED
        BY <2>1, <2>2, <2>3, <2>7, <3>1 DEF SigningOut
    <2> QED
      BY <2>6, <2>7
  <1> QED
    BY <1>2, <1>3 DEF SessInv, SessionsCurrent

\* A sign-in: its PIN was set, and is the account's unless it was replaced meanwhile.
LEMMA CreateSessionSess ==
  ASSUME SessInv, ShapeInv', NEW b \in Browser, CreateSession(b)
  PROVE  SessInv'
  <1>1. /\ b \in Worker /\ work[b].at = "session" /\ Finish(b) /\ TypeOK
        /\ UNCHANGED <<users, faults, resetup>> /\ faults \in Nat
        /\ Shaped(b, work[b])
    BY Workers DEF CreateSession, SessInv, ShapeInv, TypeOK, history
  <1>2. \A v \in Worker : v # b => work'[v] = work[v]
    BY <1>1, Ends
  <1>3. CASE ~Live(work[b].id)
    BY <1>1, <1>2, <1>3, SessQuiet DEF CreateSession
  <1>4. CASE Live(work[b].id)
    <2>1. PICK new : /\ new = [user |-> work[b].id, pin |-> work[b].pin,
                               late |-> users[work[b].id].pin # work[b].pin]
                     /\ sessions' = [sessions EXCEPT ![b] = new]
      BY <1>4 DEF CreateSession
    <2>2. new.user # 0 /\ new.pin # 0
      <3>1. work[b].pin # 0
        BY <1>1 DEF Shaped
      <3>2. work[b].id # 0
        BY <1>4, LimitAssumption DEF Live, Id
      <3> QED
        BY <2>1, <3>1, <3>2
    <2>3. /\ sessions'[b] = new
          /\ \A c \in Browser : c # b => sessions'[c] = sessions[c]
      BY <1>1, <2>1 DEF TypeOK
    <2>4. SessionPins'
      BY <2>2, <2>3 DEF SessInv, SessionPins
    <2>5. users[new.user].pin # new.pin => new.late
      BY <2>1
    <2>6. ASSUME NEW v \in Worker, NEW c \in Browser, SigningOut(work[v], sessions[c].user),
                 c # b
          PROVE  SigningOut(work[v], sessions[c].user)'
      <3>1. work'[v] = work[v]
        BY <1>1, <1>2, <2>6 DEF SigningOut
      <3>2. sessions'[c] = sessions[c] /\ users' = users
        BY <1>1, <2>3, <2>6
      <3> QED
        BY <2>6, <3>1, <3>2 DEF SigningOut
    <2>7. ASSUME NEW c \in Browser, c # b, sessions[c] # NoSession,
                 users[sessions[c].user].pin # sessions[c].pin
          PROVE  \/ sessions[c].late \/ faults > 0
                 \/ resetup /\ users[sessions[c].user].name = OwnerUsername
                 \/ \E w \in Worker : SigningOut(work[w], sessions[c].user)'
      <3>1. \/ sessions[c].late \/ faults > 0
            \/ resetup /\ users[sessions[c].user].name = OwnerUsername
            \/ \E w \in Worker : SigningOut(work[w], sessions[c].user)
        BY <2>7 DEF SessInv, SessionsCurrent
      <3> QED
        BY <2>6, <2>7, <3>1
    <2>8. SessionsCurrent'
      BY <1>1, <2>3, <2>5, <2>7 DEF SessionsCurrent
    <2> QED
      BY <2>4, <2>8 DEF SessInv
  <1> QED
    BY <1>3, <1>4


\* Signing in with a PIN replaces none, and signs nobody out.
LEMMA SigningInSess ==
  ASSUME SessInv, ShapeInv', NEW w \in Worker,
         RecordFailure(w) \/ Lock(w) \/ RecordSuccess(w) \/ (w \in Browser /\ Enter(w))
  PROVE  SessInv'
  <1>1. /\ work[w].at \in {"failure", "lock", "success", "enter"}
        /\ UNCHANGED <<sessions, faults, resetup>> /\ TypeOK /\ faults \in Nat
    BY DEF RecordFailure, Lock, RecordSuccess, Enter, history, SessInv, ShapeInv, TypeOK
  <1>2. \A v \in Worker : v # w => work'[v] = work[v]
    BY <1>1 DEF RecordFailure, Lock, RecordSuccess, Enter, Step, Finish, TypeOK
  <1>3. users \in [Id -> Account]
    BY <1>1 DEF TypeOK
  <1>4. \A i \in Id : users'[i].pin = users[i].pin /\ users'[i].name = users[i].name
    <2>1. CASE RecordFailure(w)
      BY <1>3, <2>1 DEF RecordFailure, Account
    <2>2. CASE Lock(w)
      BY <1>3, <2>2 DEF Lock, Account
    <2>3. CASE RecordSuccess(w)
      BY <1>3, <2>3 DEF RecordSuccess, Account
    <2>4. CASE Enter(w)
      BY <2>4 DEF Enter
    <2> QED
      BY <2>1, <2>2, <2>3, <2>4
  <1> QED
    BY <1>1, <1>2, <1>4, SessQuiet

\* The setup page and the tool; the Account and People pages.
LEMMA SettingSess ==
  ASSUME SessInv, ShapeInv', NEW w \in Worker, SetupPIN(w) \/ (w \in Browser /\ SetPINFor(w))
  PROVE  SessInv'
  <1>1. /\ work[w].at = "pin" /\ UNCHANGED <<sessions, faults>> /\ TypeOK /\ faults \in Nat
        /\ Shaped(w, work[w])
    BY DEF SetupPIN, SetPINFor, history, SessInv, ShapeInv, TypeOK
  <1>2. \A v \in Worker : v # w => work'[v] = work[v]
    BY <1>1 DEF SetupPIN, SetPINFor, Step, Finish, TypeOK
  <1>3. CASE UNCHANGED <<users, resetup>>
    BY <1>1, <1>2, <1>3, SessQuiet
  <1>4. CASE SetupPIN(w) /\ ~UNCHANGED <<users, resetup>>
    <2>1. PICK i \in Named(OwnerUsername) :
            /\ SetDashboardUserPIN(i)
            /\ resetup' = (resetup \/ (work[w].why = "setup" /\ users[i].pin # 0))
            /\ work[w].why # "setup" => Step(w, "signout")
      BY <1>4 DEF SetupPIN
    <2>2. i \in Id /\ Live(i) /\ users[i].name = OwnerUsername
      BY DEF Named
    <2>3. CASE work[w].why = "setup"
      BY <1>1, <1>2, <2>1, <2>2, <2>3, SessSetsPIN
    <2>4. CASE work[w].why # "setup"
      <3>1. work[w].name = OwnerUsername
        BY <1>1, <1>4, <2>4 DEF SetupPIN, Shaped
      <3>2. work'[w].at = "signout" /\ work'[w].name = users[i].name
        BY <1>1, <2>1, <2>2, <2>4, <3>1, Moves
      <3>3. UNCHANGED resetup
        BY <1>1, <2>1, <2>4 DEF TypeOK
      <3> QED
        BY <1>1, <1>2, <2>1, <2>2, <3>2, <3>3, SessSetsPIN
    <2> QED
      BY <2>3, <2>4
  <1>5. CASE w \in Browser /\ SetPINFor(w) /\ ~UNCHANGED <<users, resetup>>
    <2>1. PICK i \in Named(work[w].name) : SetDashboardUserPIN(i) /\ Step(w, "signout")
      BY <1>5 DEF SetPINFor, history
    <2>2. i \in Id /\ Live(i) /\ users[i].name = work[w].name
      BY DEF Named
    <2>3. work'[w].at = "signout" /\ work'[w].name = users[i].name
      BY <1>1, <2>1, <2>2, Moves
    <2>4. UNCHANGED resetup
      BY <1>5 DEF SetPINFor, history
    <2> QED
      BY <1>1, <1>2, <2>1, <2>2, <2>3, <2>4, SessSetsPIN
  <1> QED
    BY <1>3, <1>4, <1>5

\* The account whose sign-out is owed is found by its name, or has been removed.
LEMMA ReadAgainSess ==
  ASSUME SessInv, ShapeInv', NEW b \in Browser, ReadAgain(b)
  PROVE  SessInv'
  <1>1. /\ TypeOK /\ faults \in Nat /\ UNCHANGED <<users, sessions, faults, resetup>>
        /\ b \in Worker /\ work[b].at = "signout"
    BY Workers DEF SessInv, ShapeInv, TypeOK, ReadAgain
  <1>2. \A v \in Worker : v # b => work'[v] = work[v]
    BY <1>1 DEF ReadAgain, AfterSignOut, Quit, Step, Finish, TypeOK
  <1>3. ASSUME NEW i \in Id, Live(i), SigningOut(work[b], i)
        PROVE  SigningOut(work'[b], i)
    <2>1. i \in Named(work[b].name)
      BY <1>1, <1>3 DEF SigningOut, Named
    <2>2. PICK j \in Named(work[b].name) :
            work' = [work EXCEPT ![b].at = "clear", ![b].found = j]
      BY <2>1 DEF ReadAgain
    <2>3. j = i
      BY <1>1, <2>1 DEF Named, TypeOK
    <2>4. work'[b].at = "clear" /\ work'[b].found = i
      <3>1. work \in [Worker -> Work] /\ work[b] \in Work
        BY <1>1 DEF TypeOK
      <3>2. PICK what : what = [work[b] EXCEPT !.at = "clear", !.found = j]
        OBVIOUS
      <3>3. what.at = "clear" /\ what.found = j
        BY <3>1, <3>2 DEF Work
      <3>4. work'[b] = what
        BY <1>1, <2>2, <3>1, <3>2
      <3> QED
        BY <2>3, <3>3, <3>4
    <2> QED
      BY <2>4 DEF SigningOut
  <1>4. \A w \in Worker, i \in Id :
          Live(i) /\ SigningOut(work[w], i) => SigningOut(work'[w], i)
    BY <1>2, <1>3
  <1> QED
    BY <1>1, <1>4, SessKeeps

\* The sign-outs end the sessions they were owed to.
LEMMA SignOutSess ==
  ASSUME SessInv, ShapeInv', (\E b \in Browser : SignOut(b)) \/ DeleteAllSessions
  PROVE  SessInv'
  <1>1. /\ TypeOK /\ faults \in Nat /\ UNCHANGED <<users, faults, resetup>>
        /\ Browser \subseteq Worker /\ Tool \in Worker
    BY Workers DEF SessInv, ShapeInv, TypeOK, SignOut, DeleteAllSessions, history
  <1>2. ASSUME NEW b \in Browser, SignOut(b) PROVE SessInv'
    <2>1. /\ sessions' = SignedOut({work[b].found}) /\ AfterSignOut(b)
          /\ work[b].at = "clear"
      BY <1>2 DEF SignOut
    <2>2. \A v \in Worker : v # b => work'[v] = work[v]
      BY <1>1, <2>1 DEF AfterSignOut, Quit, Step, Finish, TypeOK
    <2>3. \A c \in Browser : sessions'[c] \in {sessions[c], NoSession}
      BY <2>1 DEF SignedOut
    <2>4. \A c \in Browser : sessions'[c] # NoSession => sessions[c].user # work[b].found
      BY <2>1 DEF SignedOut
    <2>5. ASSUME NEW w \in Worker, NEW i \in Id, SigningOut(work[w], i)
          PROVE  \/ SigningOut(work'[w], i)
                 \/ \A c \in Browser : sessions'[c] # NoSession => sessions[c].user # i
      BY <2>1, <2>2, <2>4, <2>5 DEF SigningOut
    <2> QED
      BY <1>1, <2>3, <2>5, SessKeeps
  <1>3. CASE DeleteAllSessions
    <2>1. \A b \in Browser : sessions'[b] = NoSession
      BY <1>3 DEF DeleteAllSessions
    <2> QED
      BY <1>1, <2>1, SessKeeps
  <1> QED
    BY <1>2, <1>3

\* The People page replaces no PIN either.
LEMMA PeopleSess ==
  ASSUME SessInv, ShapeInv', NEW b \in Browser,
         \/ Resolve(b) \/ CreateUser(b) \/ ReadRole(b) \/ CountOwners(b) \/ UpdateUser(b)
         \/ SwitchOff(b) \/ DeleteUser(b) \/ Audit(b)
  PROVE  SessInv'
  <1>1. /\ work[b].at \in {"resolve", "create", "count", "others", "update", "off", "remove", "audit"}
        /\ UNCHANGED <<faults, resetup>> /\ TypeOK /\ faults \in Nat /\ b \in Worker
    BY Workers DEF Resolve, CreateUser, ReadRole, CountOwners, NotLast, UpdateUser, SwitchOff, DeleteUser, Audit,
         history, SessInv, ShapeInv, TypeOK
  <1>2. \A v \in Worker : v # b => work'[v] = work[v]
    BY <1>1 DEF Resolve, CreateUser, ReadRole, CountOwners, NotLast, UpdateUser, SwitchOff, DeleteUser, Audit,
         Step, Finish, Quit, TypeOK
  <1>3. \A c \in Browser : sessions'[c] \in {sessions[c], NoSession}
    BY DEF Resolve, CreateUser, ReadRole, CountOwners, NotLast, UpdateUser, SwitchOff, DeleteUser, Audit, SignedOut
  <1>4. users \in [Id -> Account]
    BY <1>1 DEF TypeOK
  <1>5. ASSUME NEW i \in Id, Live(i)
        PROVE  users'[i].pin = users[i].pin /\ users'[i].name = users[i].name
    <2>1. CASE UNCHANGED users
      BY <2>1
    <2>2. CASE CreateUser(b) /\ ~UNCHANGED users
      <3>1. PICK j \in Id : /\ \A k \in Id : users[k].state = "free" <=> k >= j
                            /\ users' = [users EXCEPT ![j] = New(work[b].name, work[b].role)]
        BY <2>2 DEF CreateUser
      <3>2. users[j].state = "free"
        BY <3>1 DEF Id
      <3>3. i # j
        BY <1>5, <3>2 DEF Live
      <3> QED
        BY <1>4, <3>1, <3>3
    <2>3. CASE UpdateUser(b)
      BY <1>4, <2>3 DEF UpdateUser, Account
    <2>4. CASE DeleteUser(b) /\ ~UNCHANGED users
      BY <1>4, <2>4 DEF DeleteUser, Account
    <2> QED
      BY <2>1, <2>2, <2>3, <2>4 DEF Resolve, ReadRole, CountOwners, SwitchOff, Audit, DeleteUser, CreateUser
  <1> QED
    BY <1>1, <1>2, <1>3, <1>5, SessQuiet

\* A fault excuses what follows it.
LEMMA FaultSess ==
  ASSUME SessInv, ShapeInv', Stop \/ \E w \in Worker : Cancel(w) \/ StatementFails(w)
  PROVE  SessInv'
  <1>1. /\ faults \in Nat /\ faults' = faults + 1
        /\ UNCHANGED <<users, sessions, resetup>>
    BY DEF Stop, Cancel, StatementFails, Fault, Abandon, SessInv, ShapeInv, TypeOK
  <1>2. faults' > 0 /\ faults <= faults'
    BY <1>1
  <1> QED
    BY <1>1, <1>2, SessKeeps

LEMMA SessNext ==
  ASSUME SessInv, TypeOK', [Next]_vars
  PROVE  SessInv'
  <1>1. ShapeInv' /\ TypeOK /\ faults \in Nat
    BY ShapeNext DEF SessInv, ShapeInv, TypeOK
  <1>2. ASSUME NEW w \in Worker, NEW what, Opens(w, what) PROVE SessInv'
    <2>1. Begin(w, what) /\ UNCHANGED <<users, sessions, faults, resetup>>
      BY <1>2 DEF Opens, history
    <2>2. work[w].at \notin {"signout", "clear"}
      <3>1. work[w] = NoWork
        BY <2>1 DEF Begin, Idle
      <3>2. NoWork.at = "idle"
        BY DEF NoWork, Doing
      <3> QED
        BY <3>1, <3>2
    <2>3. \A v \in Worker : v # w => work'[v] = work[v]
      BY <1>1, <2>1 DEF Begin, TypeOK
    <2> QED
      BY <1>1, <2>1, <2>2, <2>3, SessQuiet
  <1>3. ASSUME NEW b \in Browser, NEW i \in Id, NEW right \in BOOLEAN, BeginLogin(b, i, right)
        PROVE  SessInv'
    BY <1>1, <1>2, <1>3, Workers, LoginOpens
  <1>4. ASSUME NEW b \in Browser,
               \/ BeginSetup(b)
               \/ \E right \in BOOLEAN : BeginOwn(b, right)
               \/ \E i \in Id : BeginPIN(b, i) \/ BeginApprove(b, i) \/ BeginDismiss(b, i)
                                \/ BeginRemove(b, i)
               \/ \E i \in Id, r \in Role, on \in BOOLEAN : BeginUpdate(b, i, r, on)
               \/ \E n \in Name, r \in Role : BeginAdd(b, n, r)
        PROVE  SessInv'
    BY <1>1, <1>2, <1>4, Workers, PageOpens
  <1>5. ASSUME NEW b \in Browser,
               CreateSession(b) \/ Enter(b) \/ SetPINFor(b) \/ ReadAgain(b) \/ SignOut(b)
        PROVE  SessInv'
    BY <1>1, <1>5, Workers, CreateSessionSess, SigningInSess, SettingSess, ReadAgainSess,
       SignOutSess
  <1>6. ASSUME NEW b \in Browser,
               \/ Resolve(b) \/ CreateUser(b) \/ ReadRole(b) \/ CountOwners(b) \/ UpdateUser(b)
               \/ SwitchOff(b) \/ DeleteUser(b) \/ Audit(b)
        PROVE  SessInv'
    BY <1>1, <1>6, PeopleSess
  <1>7. ASSUME NEW w \in Worker,
               RecordFailure(w) \/ Lock(w) \/ RecordSuccess(w) \/ SetupPIN(w)
        PROVE  SessInv'
    BY <1>1, <1>7, SigningInSess, SettingSess
  <1>8. CASE Stop \/ \E w \in Worker : Cancel(w) \/ StatementFails(w)
    BY <1>1, <1>8, FaultSess
  <1>9. CASE BeginTool
    BY <1>1, <1>2, <1>9, Workers, ToolOpens
  <1>10. CASE DeleteAllSessions
    BY <1>1, <1>10, SignOutSess
  <1>11. ASSUME UNCHANGED <<work, faults, resetup>>,
                \A i \in Id : users'[i].pin = users[i].pin /\ users'[i].name = users[i].name,
                \A b \in Browser : sessions'[b] \in {sessions[b], NoSession}
         PROVE  SessInv'
    BY <1>1, <1>11, SessKeeps
  <1>12. ASSUME NEW b \in Browser, Logout(b) PROVE SessInv'
    BY <1>1, <1>11, <1>12 DEF Logout, history, TypeOK
  <1>13. ASSUME NEW i \in Id, Unlock(i) \/ AskReset(i) PROVE SessInv'
    <2>1. \A j \in Id : users'[j].pin = users[j].pin /\ users'[j].name = users[j].name
      BY <1>1, <1>13 DEF Unlock, AskReset, TypeOK, Account
    <2> QED
      BY <1>11, <1>13, <2>1 DEF Unlock, AskReset, history
  <1>14. CASE UNCHANGED vars
    BY <1>11, <1>14 DEF vars, history
  <1> QED
    BY <1>3, <1>4, <1>5, <1>6, <1>7, <1>8, <1>9, <1>10, <1>12, <1>13, <1>14 DEF Next, Requests

LEMMA SessInit ==
  ASSUME Init
  PROVE  SessInv
  <1>1. \A b \in Browser : sessions[b] = NoSession
    BY DEF Init
  <1> QED
    BY <1>1, ShapeInit DEF SessInv, SessionPins, SessionsCurrent, NoSession

\* A session opened with a PIN that has been replaced since is about to be signed
\* out, unless it was opened late, a setup page was sent twice or a fault came.
THEOREM SessionsEnd == Spec => []SessionsCurrent
  <1>1. Spec => []TypeOK
    BY TypeCorrect
  <1>2. Init => SessInv
    BY SessInit
  <1>3. SessInv /\ TypeOK' /\ [Next]_vars => SessInv'
    BY SessNext
  <1>4. SessInv => SessionsCurrent
    BY DEF SessInv
  <1> QED
    BY <1>1, <1>2, <1>3, <1>4, PTL DEF Spec


-----------------------------------------------------------------------------
(* Every change is in the activity log, or somebody answers for it.        *)

\* This request's line will not be written: the one who makes it has been removed,
\* or AddUser has lost the account it is adding, or is taking it back.
Loses(what) ==
  /\ what.why \notin Plain
  /\ \/ ~Live(what.me)
     \/ /\ what.why = "add" /\ what.at # "create"
        /\ ~Live(what.id) \/ what.at \in {"count", "others", "remove"}
Lost == {w \in Worker : Loses(work[w])}

\* Faults and removals pay for the lines that are missing and for those that will be.
Balance == unlogged + Cardinality(Lost) <= faults * Cardinality(Worker) + orphaned
LogInv == OwnerInv /\ ShapeInv /\ Balance

\* Nobody is removed.
Lives == \A i \in Id : users[i].state = "live" => users'[i].state = "live"

\* How many of some workers there are.
LEMMA Counts ==
  /\ \A S \in SUBSET Worker : Cardinality(S) \in Nat
  /\ \A T \in SUBSET Worker : \A S \in SUBSET T : Cardinality(S) <= Cardinality(T)
  /\ \A S, T \in SUBSET Worker : Cardinality(S \cup T) <= Cardinality(S) + Cardinality(T)
  /\ \A T \in SUBSET Worker : \A w \in T : Cardinality(T \ {w}) = Cardinality(T) - 1
  /\ Cardinality(Worker) \in Nat /\ Cardinality(Worker) >= 1
  <1>1. ASSUME NEW S \in SUBSET Worker PROVE IsFiniteSet(S) /\ Cardinality(S) \in Nat
    BY Workers, FS_Subset, FS_CardinalityType
  <1>2. ASSUME NEW T \in SUBSET Worker, NEW S \in SUBSET T PROVE Cardinality(S) <= Cardinality(T)
    BY <1>1, FS_Subset
  <1>3. ASSUME NEW S \in SUBSET Worker, NEW T \in SUBSET Worker
        PROVE  Cardinality(S \cup T) <= Cardinality(S) + Cardinality(T)
    <2>1. Cardinality(S \cup T) = Cardinality(S) + Cardinality(T) - Cardinality(S \cap T)
      BY <1>1, FS_Union
    <2>2. Cardinality(S) \in Nat /\ Cardinality(T) \in Nat /\ Cardinality(S \cap T) \in Nat
      <3>1. S \cap T \in SUBSET Worker
        OBVIOUS
      <3> QED
        BY <1>1, <3>1
    <2> QED
      BY <2>1, <2>2
  <1>4. ASSUME NEW T \in SUBSET Worker, NEW w \in T
        PROVE  Cardinality(T \ {w}) = Cardinality(T) - 1
    BY <1>1, FS_RemoveElement
  <1>5. Cardinality(Worker) \in Nat /\ Cardinality(Worker) >= 1
    <2>1. {Tool} \in SUBSET Worker /\ Cardinality({Tool}) = 1
      BY Workers, FS_Singleton
    <2>2. Cardinality({Tool}) <= Cardinality(Worker)
      BY <1>2, <2>1
    <2> QED
      BY <1>1, <2>1, <2>2
  <1> QED
    BY <1>1, <1>2, <1>3, <1>4, <1>5

\* Nothing is lost.
LEMMA LogQuiet ==
  ASSUME LogInv, OwnerInv', ShapeInv', Lost' \subseteq Lost,
         UNCHANGED <<unlogged, faults, orphaned>>
  PROVE  LogInv'
  <1>1. Lost \in SUBSET Worker /\ Lost' \in SUBSET Worker
    BY DEF Lost
  <1>2. /\ Cardinality(Lost') <= Cardinality(Lost)
        /\ Cardinality(Lost) \in Nat /\ Cardinality(Lost') \in Nat /\ Cardinality(Worker) \in Nat
    BY <1>1, Counts
  <1>3. unlogged \in Nat /\ faults \in Nat /\ orphaned \in Nat
    BY DEF LogInv, OwnerInv, TypeOK
  <1>4. PICK owed \in Nat : owed = faults * Cardinality(Worker)
    BY <1>2, <1>3
  <1>5. Balance' <=> unlogged + Cardinality(Lost') <= owed + orphaned
    BY <1>4 DEF Balance
  <1> QED
    BY <1>2, <1>3, <1>4, <1>5 DEF LogInv, Balance

\* A line that was given up is missing now.
LEMMA LogPays ==
  ASSUME LogInv, OwnerInv', ShapeInv', NEW w \in Lost, Lost' \subseteq Lost \ {w},
         unlogged' = unlogged + 1, UNCHANGED <<faults, orphaned>>
  PROVE  LogInv'
  <1>1. Lost \in SUBSET Worker /\ Lost' \in SUBSET Worker /\ Lost \ {w} \in SUBSET Worker
    BY DEF Lost
  <1>2. /\ Cardinality(Lost') <= Cardinality(Lost \ {w})
        /\ Cardinality(Lost \ {w}) = Cardinality(Lost) - 1
        /\ Cardinality(Lost) \in Nat /\ Cardinality(Lost') \in Nat /\ Cardinality(Worker) \in Nat
    BY <1>1, Counts
  <1>3. unlogged \in Nat /\ faults \in Nat /\ orphaned \in Nat
    BY DEF LogInv, OwnerInv, TypeOK
  <1>4. PICK owed \in Nat : owed = faults * Cardinality(Worker)
    BY <1>2, <1>3
  <1>5. Balance' <=> unlogged + 1 + Cardinality(Lost') <= owed + orphaned
    BY <1>4 DEF Balance
  <1> QED
    BY <1>2, <1>3, <1>4, <1>5 DEF LogInv, Balance

\* A removal answers for the requests by or for the account it removes.
LEMMA LogOrphans ==
  ASSUME LogInv, OwnerInv', ShapeInv', NEW S \in SUBSET Worker, Lost' \subseteq Lost \cup S,
         orphaned' = orphaned + Cardinality(S), UNCHANGED <<unlogged, faults>>
  PROVE  LogInv'
  <1>1. Lost \in SUBSET Worker /\ Lost' \in SUBSET Worker /\ Lost \cup S \in SUBSET Worker
    BY DEF Lost
  <1>2. /\ Cardinality(Lost') <= Cardinality(Lost \cup S)
        /\ Cardinality(Lost \cup S) <= Cardinality(Lost) + Cardinality(S)
        /\ Cardinality(Lost) \in Nat /\ Cardinality(Lost') \in Nat /\ Cardinality(S) \in Nat
        /\ Cardinality(Lost \cup S) \in Nat /\ Cardinality(Worker) \in Nat
    BY <1>1, Counts
  <1>3. unlogged \in Nat /\ faults \in Nat /\ orphaned \in Nat
    BY DEF LogInv, OwnerInv, TypeOK
  <1>4. PICK owed \in Nat : owed = faults * Cardinality(Worker)
    BY <1>2, <1>3
  <1>5. Balance' <=> unlogged + Cardinality(Lost') <= owed + (orphaned + Cardinality(S))
    BY <1>4 DEF Balance
  <1> QED
    BY <1>2, <1>3, <1>4, <1>5 DEF LogInv, Balance

\* A fault answers for every request it may have cut short.
LEMMA LogFault ==
  ASSUME LogInv, OwnerInv', ShapeInv', NEW S \in SUBSET Worker, NEW T \in SUBSET Worker,
         Lost' \subseteq Lost \cup T, unlogged' = unlogged + Cardinality(S),
         S = {} \/ T = {}, faults' = faults + 1, UNCHANGED orphaned
  PROVE  LogInv'
  <1>1. Lost \in SUBSET Worker /\ Lost' \in SUBSET Worker /\ Lost \cup T \in SUBSET Worker
    BY DEF Lost
  <1>2. /\ Cardinality(Lost') <= Cardinality(Lost \cup T)
        /\ Cardinality(Lost \cup T) <= Cardinality(Lost) + Cardinality(T)
        /\ Cardinality(Lost) \in Nat /\ Cardinality(Lost') \in Nat
        /\ Cardinality(S) \in Nat /\ Cardinality(T) \in Nat
        /\ Cardinality(Lost \cup T) \in Nat /\ Cardinality(Worker) \in Nat
        /\ Cardinality(S) <= Cardinality(Worker) /\ Cardinality(T) <= Cardinality(Worker)
    BY <1>1, Counts
  <1>3. Cardinality(S) + Cardinality(T) <= Cardinality(Worker)
    <2>1. Cardinality({}) = 0
      BY FS_EmptySet
    <2> QED
      BY <1>2, <2>1
  <1>4. unlogged \in Nat /\ faults \in Nat /\ orphaned \in Nat
    BY DEF LogInv, OwnerInv, TypeOK
  <1>5. PICK owed \in Nat : owed = faults * Cardinality(Worker)
    BY <1>2, <1>4
  <1>6. (faults + 1) * Cardinality(Worker) = owed + Cardinality(Worker)
    BY <1>2, <1>4, <1>5
  <1>7. Balance' <=> unlogged + Cardinality(S) + Cardinality(Lost')
                       <= (owed + Cardinality(Worker)) + orphaned
    BY <1>6 DEF Balance
  <1> QED
    BY <1>2, <1>3, <1>4, <1>5, <1>7 DEF LogInv, Balance

\* The request that takes a step is the only one that could lose its line.
LEMMA LostMoves ==
  ASSUME Lives, NEW w \in Worker, \A v \in Worker : v # w => work'[v] = work[v],
         Loses(work[w])' => Loses(work[w])
  PROVE  Lost' \subseteq Lost
  <1>1. ASSUME NEW v \in Worker, Loses(work[v])', v # w PROVE Loses(work[v])
    BY <1>1 DEF Loses, Live, Lives
  <1> QED
    BY <1>1 DEF Lost

\* A sign-in, or a PIN from the setup page or the tool, has no line to lose.
LEMMA LostPlain ==
  ASSUME Lives, NEW w \in Worker, \A v \in Worker : v # w => work'[v] = work[v],
         work'[w].why \in Plain
  PROVE  Lost' \subseteq Lost
  <1>1. ~Loses(work[w])'
    BY DEF Loses, Plain
  <1> QED
    BY <1>1, LostMoves

LEMMA LostFinish ==
  ASSUME TypeOK, Lives, NEW w \in Worker, Finish(w)
  PROVE  Lost' \subseteq Lost \ {w}
  <1>1. Lost' \subseteq Lost
    BY Ends, LostPlain DEF Plain
  <1>2. ~Loses(work[w])'
    BY Ends DEF Loses, Plain
  <1> QED
    BY <1>1, <1>2 DEF Lost

LEMMA LostStep ==
  ASSUME TypeOK, Lives, NEW w \in Worker, NEW at, Step(w, at),
         work[w].at # "create" \/ work[w].why # "add",
         at \notin {"count", "others", "remove"} \/ work[w].why # "add" \/ Loses(work[w])
  PROVE  Lost' \subseteq Lost
  <1>1. /\ work'[w].at = at /\ work'[w].why = work[w].why /\ work'[w].me = work[w].me
        /\ work'[w].id = work[w].id
        /\ \A v \in Worker : v # w => work'[v] = work[v]
    BY Moves
  <1>2. Loses(work[w])' => Loses(work[w])
    BY <1>1 DEF Loses, Live, Lives
  <1> QED
    BY <1>1, <1>2, LostMoves

LEMMA LostOpens ==
  ASSUME TypeOK, NEW w \in Worker, NEW what, Opens(w, what)
  PROVE  Lost' \subseteq Lost
  <1>1. work' = [work EXCEPT ![w] = what] /\ UNCHANGED users
    BY DEF Opens, Begin
  <1>2. work'[w] = what /\ \A v \in Worker : v # w => work'[v] = work[v]
    BY <1>1 DEF TypeOK
  <1>3. ~Loses(work[w])'
    BY <1>1, <1>2 DEF Opens, Loses, Live
  <1>4. Lives
    BY <1>1 DEF Lives
  <1> QED
    BY <1>2, <1>3, <1>4, LostMoves

LEMMA SetPINLives ==
  ASSUME users \in [Id -> Account], NEW i \in Id, SetDashboardUserPIN(i)
  PROVE  Lives
  <1>1. users'[i].state = users[i].state
    BY DEF SetDashboardUserPIN, Account
  <1>2. \A j \in Id : j # i => users'[j] = users[j]
    BY DEF SetDashboardUserPIN
  <1> QED
    BY <1>1, <1>2 DEF Lives

\* Signing in, and the setup page and the tool.
LEMMA SigningInLog ==
  ASSUME LogInv, OwnerInv', ShapeInv', NEW w \in Worker,
         \/ RecordFailure(w) \/ Lock(w) \/ RecordSuccess(w) \/ SetupPIN(w)
         \/ w \in Browser /\ (CreateSession(w) \/ Enter(w))
  PROVE  LogInv'
  <1>1. /\ TypeOK /\ Shaped(w, work[w]) /\ work[w] \in Work /\ users \in [Id -> Account]
        /\ UNCHANGED <<unlogged, faults, orphaned>>
    BY DEF LogInv, ShapeInv, TypeOK, RecordFailure, Lock, RecordSuccess, SetupPIN,
           CreateSession, Enter, history
  <1>2. Lives
    <2>1. CASE RecordFailure(w)
      BY <1>1, <2>1 DEF RecordFailure, Lives, Account
    <2>2. CASE Lock(w)
      BY <1>1, <2>2 DEF Lock, Lives, Account
    <2>3. CASE RecordSuccess(w)
      BY <1>1, <2>3 DEF RecordSuccess, Lives, Account
    <2>4. ASSUME NEW i \in Id, SetDashboardUserPIN(i) PROVE Lives
      BY <1>1, <2>4, SetPINLives
    <2>5. CASE UNCHANGED users
      BY <2>5 DEF Lives
    <2> QED
      BY <2>1, <2>2, <2>3, <2>4, <2>5 DEF CreateSession, Enter, SetupPIN, Named
  <1>3. CASE Finish(w)
    BY <1>1, <1>2, <1>3, LostFinish, LogQuiet
  <1>4. CASE \E at \in {"lock", "session", "signout"} : work[w].at # "create" /\ Step(w, at)
    BY <1>1, <1>2, <1>4, LostStep, LogQuiet
  <1>5. CASE Enter(w) /\ ~Finish(w)
    <2>1. work[w].why = "setup"
      BY <1>1, <1>5 DEF Enter, Shaped, Work, SigningIn
    <2>2. PICK i \in Id : work' = [work EXCEPT
                  ![w].at = IF users[i].pin = work[w].pin THEN "success" ELSE "failure",
                  ![w].id = i]
      BY <1>5 DEF Enter, Named
    <2>3. PICK at : at = IF users[i].pin = work[w].pin THEN "success" ELSE "failure"
      OBVIOUS
    <2>4. work'[w].why = "setup" /\ \A v \in Worker : v # w => work'[v] = work[v]
      BY <1>1, <2>1, <2>2, <2>3, MovesId
    <2> QED
      BY <1>1, <1>2, <2>4, LostPlain, LogQuiet DEF Plain
  <1>6. CASE SetupPIN(w) /\ work[w].why = "setup" /\ ~Finish(w)
    <2>1. PICK i \in Id : work' = [work EXCEPT ![w].at = "enter", ![w].pin = users[i].pin + 1]
      BY <1>6 DEF SetupPIN, Named
    <2>2. PICK pin : pin = users[i].pin + 1
      OBVIOUS
    <2>3. work'[w].why = "setup" /\ \A v \in Worker : v # w => work'[v] = work[v]
      BY <1>1, <1>6, <2>1, <2>2, MovesPIN
    <2> QED
      BY <1>1, <1>2, <2>3, LostPlain, LogQuiet DEF Plain
  <1> QED
    BY <1>3, <1>4, <1>5, <1>6 DEF RecordFailure, Lock, RecordSuccess, SetupPIN, CreateSession

\* A PIN is set, and the sessions of that account end.
LEMMA SettingLog ==
  ASSUME LogInv, OwnerInv', ShapeInv', NEW b \in Browser, SetPINFor(b)
  PROVE  LogInv'
  <1>1. /\ TypeOK /\ Shaped(b, work[b]) /\ users \in [Id -> Account] /\ b \in Worker
        /\ work[b].at = "pin" /\ UNCHANGED <<unlogged, faults, orphaned>>
    BY Workers DEF LogInv, ShapeInv, TypeOK, SetPINFor, history
  <1>2. Lives
    <2>1. CASE UNCHANGED users
      BY <2>1 DEF Lives
    <2> QED
      BY <1>1, <2>1, SetPINLives DEF SetPINFor, Named
  <1>3. CASE Finish(b)
    BY <1>1, <1>2, <1>3, LostFinish, LogQuiet
  <1>4. CASE Step(b, "signout")
    BY <1>1, <1>2, <1>4, LostStep, LogQuiet
  <1>5. CASE Named(work[b].name) = {} /\ work[b].why = "add" /\ Step(b, "count")
    <2>1. work[b].id \in Id
      BY <1>1, <1>5 DEF Shaped
    <2>2. Adding(work[b])
      BY <1>1 DEF LogInv, OwnerInv
    <2>3. ~Live(work[b].id)
      BY <1>5, <2>1, <2>2, LimitAssumption DEF Adding, Named, Id
    <2>4. Loses(work[b])
      BY <1>1, <1>5, <2>3 DEF Loses, Plain
    <2> QED
      BY <1>1, <1>2, <1>5, <2>4, LostStep, LogQuiet
  <1> QED
    BY <1>3, <1>4, <1>5 DEF SetPINFor

\* What follows a sign-out: the account AddUser made may be gone.
LEMMA AfterSignOutLog ==
  ASSUME LogInv, UNCHANGED users, NEW b \in Worker, work[b].why # "tool",
         work[b].at \in {"signout", "clear"}, AfterSignOut(b)
  PROVE  \/ Lost' \subseteq Lost /\ unlogged' = unlogged
         \/ b \in Lost /\ Lost' \subseteq Lost \ {b} /\ unlogged' = unlogged + 1
  <1>1. TypeOK /\ Lives /\ unlogged \in Nat
    BY DEF LogInv, ShapeInv, TypeOK, Lives
  <1>2. CASE \E at \in {"resolve", "audit"} : Step(b, at) /\ unlogged' = unlogged
    BY <1>1, <1>2, LostStep
  <1>3. CASE work[b].why = "add" /\ ~Live(work[b].id) /\ Quit(b)
    <2>1. Lost' \subseteq Lost \ {b}
      BY <1>1, <1>3, LostFinish DEF Quit
    <2>2. Loses(work[b])
      BY <1>3 DEF Loses, Plain
    <2>3. unlogged' = unlogged + 1
      BY <1>3 DEF Quit, Owed
    <2> QED
      BY <2>1, <2>2, <2>3 DEF Lost
  <1> QED
    BY <1>2, <1>3 DEF AfterSignOut

LEMMA SignOutLog ==
  ASSUME LogInv, OwnerInv', ShapeInv',
         (\E b \in Browser : ReadAgain(b) \/ SignOut(b)) \/ DeleteAllSessions
  PROVE  LogInv'
  <1>1. TypeOK /\ UNCHANGED <<users, faults, orphaned>> /\ Browser \subseteq Worker /\ Tool \in Worker
    BY Workers DEF LogInv, ShapeInv, ReadAgain, SignOut, DeleteAllSessions, history
  <1>2. ASSUME NEW b \in Browser, SignOut(b) \/ (ReadAgain(b) /\ AfterSignOut(b)) PROVE LogInv'
    <2>1. Shaped(b, work[b]) /\ b # Tool
      BY <1>1, NameAssumption DEF LogInv, ShapeInv
    <2>2. work[b].at \in {"signout", "clear"} /\ work[b].why # "tool" /\ AfterSignOut(b)
      BY <1>2, <2>1 DEF ReadAgain, SignOut, Shaped
    <2> QED
      BY <1>1, <2>2, AfterSignOutLog, LogQuiet, LogPays
  <1>3. CASE DeleteAllSessions
    <2>1. Finish(Tool) /\ unlogged' = unlogged /\ Lives
      BY <1>3 DEF DeleteAllSessions, history, Lives
    <2> QED
      BY <1>1, <2>1, LostFinish, LogQuiet
  <1>4. ASSUME NEW b \in Browser, ReadAgain(b), NEW i, UNCHANGED unlogged,
               work' = [work EXCEPT ![b].at = "clear", ![b].found = i]
        PROVE  LogInv'
    <2>1. /\ work'[b].at = "clear" /\ work'[b].why = work[b].why /\ work'[b].me = work[b].me
          /\ work'[b].id = work[b].id
          /\ \A v \in Worker : v # b => work'[v] = work[v]
      BY <1>1, <1>4, MovesFound
    <2>2. Loses(work[b])' => Loses(work[b])
      BY <1>1, <1>4, <2>1 DEF ReadAgain, Loses, Live
    <2>3. Lives
      BY <1>1 DEF Lives
    <2>4. Lost' \subseteq Lost
      BY <1>1, <2>1, <2>2, <2>3, LostMoves
    <2> QED
      BY <1>1, <1>4, <2>4, LogQuiet
  <1> QED
    BY <1>2, <1>3, <1>4 DEF ReadAgain

\* The People page, where nobody is removed.
LEMMA PeopleLog ==
  ASSUME LogInv, OwnerInv', ShapeInv', NEW b \in Browser,
         Resolve(b) \/ ReadRole(b) \/ CountOwners(b) \/ UpdateUser(b) \/ SwitchOff(b) \/ Audit(b)
  PROVE  LogInv'
  <1>1. /\ TypeOK /\ Shaped(b, work[b]) /\ work[b] \in Work /\ users \in [Id -> Account]
        /\ b \in Worker /\ UNCHANGED <<faults, orphaned>> /\ unlogged \in Nat
    BY Workers DEF LogInv, ShapeInv, TypeOK, Resolve, ReadRole, CountOwners, NotLast, UpdateUser, SwitchOff, Audit,
                   history
  <1>2. Lives
    <2>1. CASE UpdateUser(b)
      BY <1>1, <2>1 DEF UpdateUser, Lives, Account
    <2>2. CASE UNCHANGED users
      BY <2>2 DEF Lives
    <2> QED
      BY <2>1, <2>2 DEF Resolve, ReadRole, CountOwners, SwitchOff, Audit
  <1>3. CASE Finish(b) /\ unlogged' = unlogged
    BY <1>1, <1>2, <1>3, LostFinish, LogQuiet
  <1>4. CASE b \in Lost /\ Finish(b) /\ unlogged' = unlogged + 1
    BY <1>1, <1>2, <1>4, LostFinish, LogPays
  <1>5. CASE \E at \in {"audit", "off", "update"} :
               work[b].at # "create" /\ Step(b, at) /\ unlogged' = unlogged
    BY <1>1, <1>2, <1>5, LostStep, LogQuiet
  <1>6. CASE ReadRole(b) \/ CountOwners(b)
    <2>1. work[b].at \in {"count", "others"} /\ work[b].why \in {"add", "update", "remove"}
      BY <1>1, <1>6 DEF ReadRole, CountOwners, Shaped, Work, SigningIn
    <2>2. work[b].why = "add" => Loses(work[b])
      BY <2>1 DEF Loses, Plain
    <2>3. ASSUME NEW at \in {"others", "update", "remove"}, Step(b, at), unlogged' = unlogged
          PROVE  LogInv'
      BY <1>1, <1>2, <2>1, <2>2, <2>3, LostStep, LogQuiet
    <2>4. CASE NotLast(b)
      <3>1. PICK at \in {"update", "remove"} :
              at = IF work[b].why = "update" THEN "update" ELSE "remove"
        OBVIOUS
      <3> QED
        BY <2>3, <2>4, <3>1 DEF NotLast
    <2>5. CASE Quit(b)
      <3>1. unlogged' = unlogged + (IF work[b].why = "add" THEN 1 ELSE 0) /\ Finish(b)
        BY <2>1, <2>5 DEF Quit, Owed
      <3> QED
        BY <1>1, <1>3, <1>4, <2>2, <3>1 DEF Lost
    <2> QED
      BY <1>3, <1>6, <2>3, <2>4, <2>5 DEF ReadRole, CountOwners
  <1>7. CASE Audit(b)
    <2>1. work[b].at = "audit" /\ Finish(b)
          /\ unlogged' = unlogged + (IF Live(work[b].me) THEN 0 ELSE 1)
      BY <1>7 DEF Audit, RecordAudit
    <2>2. work[b].why \notin Plain
      BY <1>1, <2>1 DEF Shaped, Plain, SigningIn
    <2> QED
      BY <1>1, <1>3, <1>4, <2>1, <2>2 DEF Loses, Lost
  <1> QED
    BY <1>1, <1>3, <1>5, <1>6, <1>7 DEF Resolve, UpdateUser, SwitchOff, history

\* AddUser creates the account it then has something to say about.
LEMMA CreateUserLog ==
  ASSUME LogInv, OwnerInv', ShapeInv', NEW b \in Browser, CreateUser(b)
  PROVE  LogInv'
  <1>1. /\ TypeOK /\ users \in [Id -> Account] /\ b \in Worker
        /\ UNCHANGED <<unlogged, faults, orphaned>>
    BY Workers DEF LogInv, ShapeInv, TypeOK, CreateUser, history
  <1>2. CASE Finish(b) /\ UNCHANGED users
    BY <1>1, <1>2, LostFinish, LogQuiet DEF Lives
  <1>3. ASSUME NEW i \in Id, \A j \in Id : users[j].state = "free" <=> j >= i,
               users' = [users EXCEPT ![i] = New(work[b].name, work[b].role)],
               work' = [work EXCEPT ![b].at = "pin", ![b].id = i]
        PROVE  LogInv'
    <2>1. users'[i].state = "live" /\ \A j \in Id : j # i => users'[j] = users[j]
      BY <1>1, <1>3 DEF New
    <2>2. Lives
      BY <2>1 DEF Lives
    <2>3. /\ work'[b].at = "pin" /\ work'[b].id = i /\ work'[b].why = work[b].why
          /\ work'[b].me = work[b].me
          /\ \A v \in Worker : v # b => work'[v] = work[v]
      <3>1. work \in [Worker -> Work] /\ work[b] \in Work
        BY <1>1 DEF TypeOK
      <3>2. PICK what : what = [work[b] EXCEPT !.at = "pin", !.id = i]
        OBVIOUS
      <3>3. what.at = "pin" /\ what.id = i /\ what.why = work[b].why /\ what.me = work[b].me
        BY <3>1, <3>2 DEF Work
      <3>4. work' = [work EXCEPT ![b] = what]
        BY <1>1, <1>3, <3>1, <3>2
      <3> QED
        BY <1>1, <3>1, <3>3, <3>4
    <2>4. Loses(work[b])' => Loses(work[b])
      BY <2>1, <2>2, <2>3 DEF Loses, Live, Lives
    <2> QED
      BY <1>1, <2>2, <2>3, <2>4, LostMoves, LogQuiet
  <1> QED
    BY <1>2, <1>3 DEF CreateUser

\* A removal takes the lines of the others who work for or on that account.
LEMMA DeleteUserLog ==
  ASSUME LogInv, OwnerInv', ShapeInv', NEW b \in Browser, DeleteUser(b)
  PROVE  LogInv'
  <1>1. /\ TypeOK /\ Shaped(b, work[b]) /\ work[b] \in Work /\ users \in [Id -> Account]
        /\ b \in Worker /\ UNCHANGED faults /\ unlogged \in Nat /\ work[b].at = "remove"
    BY Workers DEF LogInv, ShapeInv, TypeOK, DeleteUser
  <1>2. work[b].why \in {"add", "remove"}
    BY <1>1 DEF Shaped, Work, SigningIn
  <1>3. CASE Quit(b) /\ UNCHANGED <<users, orphaned>>
    <2>1. Lost' \subseteq Lost \ {b}
      BY <1>1, <1>3, LostFinish DEF Quit, Lives
    <2>2. unlogged' = unlogged + (IF work[b].why = "add" THEN 1 ELSE 0)
      BY <1>1, <1>3 DEF Quit, Owed
    <2>3. CASE work[b].why = "add"
      <3>1. b \in Lost
        BY <1>1, <2>3 DEF Lost, Loses, Plain
      <3> QED
        BY <1>1, <1>3, <2>1, <2>2, <2>3, <3>1, LogPays
    <2>4. CASE work[b].why # "add"
      BY <1>1, <1>3, <2>1, <2>2, <2>4, LogQuiet
    <2> QED
      BY <2>3, <2>4
  <1>4. CASE /\ users' = [i \in Id |-> IF Live(i) /\ i = work[b].id
                            THEN [users[i] EXCEPT !.state = "removed"] ELSE users[i]]
             /\ orphaned' = orphaned + Cardinality(About(work[b].id) \ {b})
             /\ IF work[b].why = "add" THEN Finish(b) ELSE Step(b, "audit")
             /\ UNCHANGED unlogged
    <2>1. PICK gone : gone = work[b].id
      OBVIOUS
    <2>2. \A i \in Id : i # gone => users'[i] = users[i]
      BY <1>4, <2>1
    <2>3. \A v \in Worker : v # b => work'[v] = work[v]
      BY <1>1, <1>4, Moves, Ends
    <2>4. ASSUME NEW v \in Worker, v # b, Loses(work[v])'
          PROVE  v \in Lost \/ v \in About(gone)
      <3>1. work'[v] = work[v] /\ work[v].why \notin Plain
        BY <2>3, <2>4 DEF Loses
      <3>2. work[v] # NoWork
        <4>1. NoWork.why = ""
          BY DEF NoWork, Doing
        <4> QED
          BY <3>1, <4>1 DEF Plain
      <3>3. CASE gone \in {work[v].me, work[v].id}
        BY <3>2, <3>3 DEF About
      <3>4. CASE gone # work[v].me /\ gone # work[v].id
        <4>1. /\ ~Live(work[v].me)' => ~Live(work[v].me)
              /\ ~Live(work[v].id)' => ~Live(work[v].id)
          BY <2>2, <3>1, <3>4 DEF Live
        <4>2. Loses(work[v])
          BY <2>4, <3>1, <4>1 DEF Loses
        <4> QED
          BY <4>2 DEF Lost
      <3> QED
        BY <3>3, <3>4
    <2>5. ASSUME Loses(work[b])' PROVE b \in Lost
      <3>1. CASE work[b].why = "add"
        BY <1>1, <1>4, <2>5, <3>1, Ends DEF Loses, Plain
      <3>2. CASE work[b].why = "remove"
        <4>1. work'[b].why = "remove" /\ work'[b].me = work[b].me
          BY <1>1, <1>4, <3>2, Moves
        <4>2. work[b].me # gone
          BY <1>1, <2>1, <3>2 DEF Shaped
        <4>3. ~Live(work[b].me)
          BY <2>2, <2>5, <4>1, <4>2 DEF Loses, Live
        <4> QED
          BY <1>1, <3>2, <4>3 DEF Lost, Loses, Plain
      <3> QED
        BY <1>2, <3>1, <3>2
    <2>6. Lost' \subseteq Lost \cup (About(gone) \ {b})
      BY <2>4, <2>5 DEF Lost
    <2>7. About(gone) \ {b} \in SUBSET Worker
      BY DEF About
    <2>8. orphaned' = orphaned + Cardinality(About(gone) \ {b}) /\ UNCHANGED unlogged
      BY <1>4, <2>1
    <2> QED
      BY <1>1, <2>6, <2>7, <2>8, LogOrphans
  <1> QED
    BY <1>3, <1>4 DEF DeleteUser

\* A fault cuts short what is under way.
LEMMA AbandonLog ==
  ASSUME LogInv, OwnerInv', ShapeInv', NEW stopped \in SUBSET Worker, Abandon(stopped),
         faults' = faults + 1
  PROVE  LogInv'
  <1>1. PICK S \in SUBSET Worker : S = {w \in stopped : Owed(work[w])}
    OBVIOUS
  <1>2. /\ unlogged' = unlogged + Cardinality(S) /\ UNCHANGED <<users, orphaned>>
        /\ work' = [w \in Worker |-> IF w \in stopped THEN NoWork ELSE work[w]]
    BY <1>1 DEF Abandon
  <1>3. NoWork.why = ""
    BY DEF NoWork, Doing
  <1>4. ASSUME NEW w \in Worker, Loses(work[w])' PROVE Loses(work[w])
    <2>1. work'[w] = IF w \in stopped THEN NoWork ELSE work[w]
      BY <1>2
    <2>2. work'[w].why \notin Plain
      BY <1>4 DEF Loses
    <2>3. work'[w] = work[w]
      BY <1>3, <2>1, <2>2 DEF Plain
    <2> QED
      BY <1>2, <1>4, <2>3 DEF Loses, Live
  <1>5. Lost' \subseteq Lost \cup {}
    BY <1>4 DEF Lost
  <1>6. {} \in SUBSET Worker
    OBVIOUS
  <1> QED
    BY <1>2, <1>5, <1>6, LogFault

LEMMA StatementFailsLog ==
  ASSUME LogInv, OwnerInv', ShapeInv', NEW w \in Worker, StatementFails(w)
  PROVE  LogInv'
  <1>1. /\ TypeOK /\ Shaped(w, work[w]) /\ faults' = faults + 1 /\ UNCHANGED <<users, orphaned>>
        /\ unlogged \in Nat /\ Lives /\ Cardinality({}) = 0 /\ Cardinality({w}) = 1
    BY FS_EmptySet, FS_Singleton DEF LogInv, ShapeInv, TypeOK, StatementFails, Fault, Lives
  <1>2. ASSUME Lost' \subseteq Lost, unlogged' = unlogged \/ unlogged' = unlogged + 1
        PROVE  LogInv'
    <2>1. Lost' \subseteq Lost \cup {} /\ {} \in SUBSET Worker /\ {w} \in SUBSET Worker
      BY <1>2
    <2>2. CASE unlogged' = unlogged
      <3>1. unlogged' = unlogged + Cardinality({})
        BY <1>1, <2>2
      <3> QED
        BY <1>1, <2>1, <3>1, LogFault
    <2>3. CASE unlogged' = unlogged + 1
      <3>1. unlogged' = unlogged + Cardinality({w})
        BY <1>1, <2>3
      <3> QED
        BY <1>1, <2>1, <3>1, LogFault
    <2> QED
      BY <1>2, <2>2, <2>3
  <1>3. CASE /\ work[w].why = "add" /\ work[w].at \in {"pin", "clear"}
             /\ Step(w, "count") /\ UNCHANGED unlogged
    <2>1. \A v \in Worker : v # w => work'[v] = work[v]
      BY <1>1, <1>3, Moves
    <2>2. ASSUME NEW v \in Worker, v # w, Loses(work[v])' PROVE Loses(work[v])
      BY <1>1, <2>1, <2>2 DEF Loses, Live
    <2>3. Lost' \subseteq Lost \cup {w} /\ {w} \in SUBSET Worker /\ {} \in SUBSET Worker
      BY <2>2 DEF Lost
    <2>4. unlogged' = unlogged + Cardinality({})
      BY <1>1, <1>3
    <2> QED
      BY <1>1, <2>3, <2>4, LogFault
  <1>4. CASE work[w].at = "signout" /\ work[w].why # "tool" /\ AfterSignOut(w)
    BY <1>1, <1>2, <1>4, AfterSignOutLog
  <1>5. CASE /\ \/ work[w].at = "off"
                \/ work[w].at = "resolve" /\ work[w].why = "approve"
             /\ Step(w, "audit") /\ UNCHANGED unlogged
    BY <1>1, <1>2, <1>5, LostStep
  <1>6. CASE Quit(w)
    <2>1. unlogged' = unlogged \/ unlogged' = unlogged + 1
      BY <1>1, <1>6 DEF Quit
    <2> QED
      BY <1>1, <1>2, <1>6, <2>1, LostFinish DEF Quit
  <1> QED
    BY <1>3, <1>4, <1>5, <1>6 DEF StatementFails

LEMMA LogNext ==
  ASSUME LogInv, TypeOK', [Next]_vars
  PROVE  LogInv'
  <1>1. OwnerInv' /\ ShapeInv' /\ TypeOK
    BY OwnerNext, ShapeNext DEF LogInv, ShapeInv
  <1>2. ASSUME NEW w \in Worker, NEW what, Opens(w, what), UNCHANGED <<unlogged, orphaned>>
        PROVE  LogInv'
    BY <1>1, <1>2, LostOpens, LogQuiet DEF Opens
  <1>3. ASSUME NEW b \in Browser, NEW i \in Id, NEW right \in BOOLEAN, BeginLogin(b, i, right)
        PROVE  LogInv'
    BY <1>1, <1>2, <1>3, Workers, LoginOpens DEF Opens, history
  <1>4. ASSUME NEW b \in Browser,
               \/ BeginSetup(b)
               \/ \E right \in BOOLEAN : BeginOwn(b, right)
               \/ \E i \in Id : BeginPIN(b, i) \/ BeginApprove(b, i) \/ BeginDismiss(b, i)
                                \/ BeginRemove(b, i)
               \/ \E i \in Id, r \in Role, on \in BOOLEAN : BeginUpdate(b, i, r, on)
               \/ \E n \in Name, r \in Role : BeginAdd(b, n, r)
        PROVE  LogInv'
    BY <1>1, <1>2, <1>4, Workers, PageOpens DEF Opens, history
  <1>5. ASSUME NEW b \in Browser,
               CreateSession(b) \/ Enter(b) \/ SetPINFor(b) \/ ReadAgain(b) \/ SignOut(b)
        PROVE  LogInv'
    BY <1>1, <1>5, Workers, SigningInLog, SettingLog, SignOutLog
  <1>6. ASSUME NEW b \in Browser,
               \/ Resolve(b) \/ CreateUser(b) \/ ReadRole(b) \/ CountOwners(b) \/ UpdateUser(b)
               \/ SwitchOff(b) \/ DeleteUser(b) \/ Audit(b)
        PROVE  LogInv'
    BY <1>1, <1>6, PeopleLog, CreateUserLog, DeleteUserLog
  <1>7. ASSUME NEW w \in Worker,
               RecordFailure(w) \/ Lock(w) \/ RecordSuccess(w) \/ SetupPIN(w)
        PROVE  LogInv'
    BY <1>1, <1>7, SigningInLog
  <1>8. ASSUME NEW w \in Worker, Cancel(w) \/ StatementFails(w) PROVE LogInv'
    BY <1>1, <1>8, AbandonLog, StatementFailsLog DEF Cancel, Fault
  <1>9. CASE Stop
    BY <1>1, <1>9, Workers, AbandonLog DEF Stop, Fault
  <1>10. CASE BeginTool
    BY <1>1, <1>2, <1>10, Workers, ToolOpens DEF Opens, history
  <1>11. CASE DeleteAllSessions
    BY <1>1, <1>11, SignOutLog
  <1>12. ASSUME UNCHANGED <<work, faults, history>>, Lives PROVE LogInv'
    <2>1. ASSUME NEW w \in Worker, Loses(work[w])' PROVE Loses(work[w])
      BY <1>12, <2>1 DEF Loses, Live, Lives
    <2> QED
      BY <1>1, <1>12, <2>1, LogQuiet DEF Lost, history
  <1>13. ASSUME NEW b \in Browser, Logout(b) PROVE LogInv'
    BY <1>12, <1>13 DEF Logout, Lives
  <1>14. ASSUME NEW i \in Id, Unlock(i) \/ AskReset(i) PROVE LogInv'
    <2>1. Lives
      BY <1>1, <1>14 DEF Unlock, AskReset, Lives, TypeOK, Account
    <2> QED
      BY <1>12, <1>14, <2>1 DEF Unlock, AskReset
  <1>15. CASE UNCHANGED vars
    BY <1>12, <1>15 DEF vars, Lives
  <1> QED
    BY <1>3, <1>4, <1>5, <1>6, <1>7, <1>8, <1>9, <1>10, <1>11, <1>13, <1>14, <1>15 DEF Next, Requests

LEMMA LogInit ==
  ASSUME Init
  PROVE  LogInv
  <1>1. \A w \in Worker : work[w].why = ""
    BY DEF Init, NoWork, Doing
  <1>2. Lost = {}
    BY <1>1 DEF Lost, Loses, Plain
  <1>3. Cardinality(Lost) = 0 /\ Cardinality(Worker) \in Nat
    BY <1>2, FS_EmptySet, Counts
  <1>4. unlogged = 0 /\ faults = 0 /\ orphaned = 0
    BY DEF Init
  <1> QED
    BY <1>3, <1>4, OwnerInit, ShapeInit DEF LogInv, Balance

\* Every change of the People and Account pages is in the activity log or under
\* way, but for those a fault cut short and those made by, or for, an account as
\* it was removed.
THEOREM EveryChangeIsLogged == Spec => []ChangesLogged
  <1>1. Spec => []TypeOK
    BY TypeCorrect
  <1>2. Init => LogInv
    BY LogInit
  <1>3. LogInv /\ TypeOK' /\ [Next]_vars => LogInv'
    BY LogNext
  <1>4. LogInv => ChangesLogged
    <2>1. ASSUME LogInv PROVE ChangesLogged
      <3>1. Lost \in SUBSET Worker
        BY DEF Lost
      <3>2. Cardinality(Lost) \in Nat /\ Cardinality(Worker) \in Nat
        BY <3>1, Counts
      <3>3. unlogged \in Nat /\ faults \in Nat /\ orphaned \in Nat
        BY <2>1 DEF LogInv, OwnerInv, TypeOK
      <3>4. PICK owed \in Nat : owed = faults * Cardinality(Worker)
        BY <3>2, <3>3
      <3> QED
        BY <2>1, <3>2, <3>3, <3>4 DEF LogInv, Balance, ChangesLogged
    <2> QED
      BY <2>1
  <1> QED
    BY <1>1, <1>2, <1>3, <1>4, PTL DEF Spec
=============================================================================

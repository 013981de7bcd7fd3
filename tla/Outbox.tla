------------------------------- MODULE Outbox -------------------------------
(***************************************************************************)
(* The messages a station sends its owner: the agent that composes the     *)
(* evening summary and the alerts and drains the outbox                    *)
(* (internal/messaging), the messages table (internal/storage) and the     *)
(* buttons of the dashboard's Messages page (internal/web).                *)
(*                                                                         *)
(* The agent's minute tick and any number of dashboard requests compose    *)
(* and drain side by side; there is no lock, and only one SQL statement or *)
(* one send is atomic.                                                     *)
(*                                                                         *)
(* Abstractions: the body of a message is left out; a kind is a number in  *)
(* the order compose takes the kinds, and which of them are due (the hour, *)
(* the alert switch, the figures) is an input of every tick; a dedup key   *)
(* is the kind and the day.                                                *)
(***************************************************************************)
EXTENDS Integers, Sequences, FiniteSets, FiniteSetsExt, SequencesExt

CONSTANTS
  Kind,          \* kinds of message sent at most once a day, as numbers
  Number,        \* phone numbers the owner may enter
  Unreachable,   \* ... and those no message ever reaches
  Worker,        \* goroutines: "tick" is the agent's, the others are requests
  MaxAttempts,   \* maxSendAttempts
  Batch,         \* messages one drain lists
  FaultKinds,    \* which of "stop", "cancel", "send" and "storage" may happen
  MaxFaults,     \* bound on the number of faults in a behaviour
  MaxDay,        \* bound on the days
  MaxTests       \* bound on the test messages

NoNumber == "none"
Test == 0        \* the kind of the owner's test message

ASSUME KindAssumption == Kind \subseteq Nat \ {Test} /\ IsFiniteSet(Kind)
ASSUME NumberAssumption == Unreachable \subseteq Number /\ NoNumber \notin Number
ASSUME WorkerAssumption == "tick" \in Worker /\ IsFiniteSet(Worker)
ASSUME LimitAssumption ==
  /\ MaxAttempts \in Nat \ {0} /\ Batch \in Nat \ {0}
  /\ FaultKinds \subseteq {"stop", "cancel", "send", "storage"}
  /\ MaxFaults \in Nat /\ MaxDay \in Nat /\ MaxTests \in Nat

VARIABLES
  enabled,    \* local_config messaging_enabled
  recipient,  \* local_config messaging_recipient
  messages,   \* the messages table; a message's id is its index
  ready,      \* is the channel paired and connected?
  today,      \* the day
  worker,     \* what each goroutine is doing
  reached,    \* history: how often each message reached a phone
  faults,     \* faults so far
  overlaps    \* history: drains begun while another one was sending

settings == <<enabled, recipient>>
history == <<reached, overlaps>>
vars == <<settings, messages, ready, today, worker, history, faults>>

Day == 0..MaxDay
Ids == 1..Len(messages)
Message ==
  [kind : Kind \cup {Test}, day : Day, to : Number,
   status : {"queued", "sent", "failed"}, attempts : Nat]

NoWork == [at |-> "idle", to |-> NoNumber, day |-> 0, todo |-> {}, pending |-> {}]
Idle(w) == worker[w] = NoWork
Work ==
  [at : {"idle", "save", "load", "compose", "test", "drain", "send", "sent", "tried"},
   to : Number \cup {NoNumber}, day : Day, todo : SUBSET Kind, pending : SUBSET Ids]

TypeOK ==
  /\ enabled \in BOOLEAN /\ recipient \in Number \cup {NoNumber}
  /\ messages \in Seq(Message)
  /\ \A i, j \in Ids :  \* UNIQUE dedup_key
       messages[i].kind = messages[j].kind /\ messages[i].day = messages[j].day
         => i = j \/ messages[i].kind = Test
  /\ ready \in BOOLEAN
  /\ today \in Day
  /\ worker \in [Worker -> Work]
  /\ reached \in Seq(Nat) /\ Len(reached) = Len(messages)
  /\ faults \in 0..MaxFaults /\ overlaps \in Nat

Init ==
  /\ enabled = FALSE /\ recipient = NoNumber
  /\ messages = <<>>
  /\ ready = FALSE
  /\ today = 0
  /\ worker = [w \in Worker |-> NoWork]
  /\ reached = <<>>
  /\ faults = 0 /\ overlaps = 0

Step(w, work) == worker' = [worker EXCEPT ![w] = work]
MayFault(kind) == kind \in FaultKinds /\ faults < MaxFaults

-----------------------------------------------------------------------------
(* The surroundings: the day, the connection, the owner's settings.        *)

Midnight ==
  /\ today < MaxDay
  /\ today' = today + 1
  /\ UNCHANGED <<settings, messages, ready, worker, history, faults>>

\* The phone is linked or unlinked, the connection comes and goes.
Channel ==
  /\ ready' = ~ready
  /\ UNCHANGED <<settings, messages, today, worker, history, faults>>

\* Settings.Save writes one local_config row after the other.
BeginSave(w, on, number) ==
  /\ w # "tick" /\ Idle(w)
  /\ on => number # NoNumber
  /\ <<on, number>> # settings
  /\ enabled' = on
  /\ Step(w, [NoWork EXCEPT !.at = "save", !.to = number])
  /\ UNCHANGED <<recipient, messages, ready, today, history, faults>>

SaveRecipient(w) ==
  /\ worker[w].at = "save"
  /\ recipient' = worker[w].to
  /\ Step(w, NoWork)
  /\ UNCHANGED <<enabled, messages, ready, today, history, faults>>

-----------------------------------------------------------------------------
(* Composing.                                                              *)

\* Once, by the tick or by "Send now": LoadSettings reads the switch first.
BeginOnce(w) ==
  /\ Idle(w)
  /\ enabled
  /\ Step(w, [NoWork EXCEPT !.at = "load"])
  /\ UNCHANGED <<settings, messages, ready, today, history, faults>>

\* ... and then the number; the figures say what is due.
LoadRecipient(w) ==
  /\ worker[w].at = "load"
  /\ IF recipient = NoNumber
     THEN Step(w, NoWork)
     ELSE \E due \in SUBSET Kind :
            Step(w, IF due = {} THEN [NoWork EXCEPT !.at = "drain"]
                    ELSE [NoWork EXCEPT !.at = "compose", !.to = recipient,
                                        !.day = today, !.todo = due])
  /\ UNCHANGED <<settings, messages, ready, today, history, faults>>

New(kind, day, to) ==
  [kind |-> kind, day |-> day, to |-> to, status |-> "queued", attempts |-> 0]

Known(kind, day) == \E id \in Ids : messages[id].kind = kind /\ messages[id].day = day

\* Mutant: QueueMessage inserts whatever the table holds.
QueueMessageAlways(kind, day, to) ==
  /\ messages' = Append(messages, New(kind, day, to))
  /\ reached' = Append(reached, 0)

\* INSERT OR IGNORE on the dedup key; a test's key is one of a kind.
QueueMessage(kind, day, to) ==
  IF kind # Test /\ Known(kind, day)
  THEN UNCHANGED <<messages, reached>>
  ELSE /\ messages' = Append(messages, New(kind, day, to))
       /\ reached' = Append(reached, 0)

\* compose takes the kinds that are due in order and only logs one it cannot
\* queue.
Compose(w) ==
  /\ worker[w].at = "compose"
  /\ LET kind == Min(worker[w].todo)
         rest == worker[w].todo \ {kind}
     IN /\ \/ QueueMessage(kind, worker[w].day, worker[w].to) /\ UNCHANGED faults
           \/ MayFault("storage") /\ faults' = faults + 1 /\ UNCHANGED <<messages, reached>>
        /\ Step(w, IF rest = {} THEN [NoWork EXCEPT !.at = "drain"]
                   ELSE [worker[w] EXCEPT !.todo = rest])
  /\ UNCHANGED <<settings, ready, today, overlaps>>

\* QueueTest, whether messages are switched on or not.
BeginTest(w) ==
  /\ w # "tick" /\ Idle(w)
  /\ recipient # NoNumber
  /\ Cardinality({id \in Ids : messages[id].kind = Test}) < MaxTests
  /\ Step(w, [NoWork EXCEPT !.at = "test", !.to = recipient, !.day = today])
  /\ UNCHANGED <<settings, messages, ready, today, history, faults>>

QueueTest(w) ==
  /\ worker[w].at = "test"
  /\ \/ /\ QueueMessage(Test, worker[w].day, worker[w].to)
        /\ Step(w, [NoWork EXCEPT !.at = "drain"])
        /\ UNCHANGED faults
     \/ /\ MayFault("storage") /\ faults' = faults + 1
        /\ Step(w, NoWork)
        /\ UNCHANGED <<messages, reached>>
  /\ UNCHANGED <<settings, ready, today, overlaps>>

-----------------------------------------------------------------------------
(* Draining.                                                               *)

\* Mutant: PendingMessages leaves out only what failed.
QueuedUnlessFailed == {id \in Ids : messages[id].status # "failed"}

Queued == {id \in Ids : messages[id].status = "queued"}
Draining(w) == worker[w].at \in {"send", "sent", "tried"}
Oldest(ids, n) == {id \in ids : Cardinality({j \in ids : j <= id}) <= n}

\* A channel that is not ready leaves everything queued; otherwise the drain
\* lists the oldest messages, and what it lists it sends.
ListPending(w) ==
  /\ worker[w].at = "drain"
  /\ LET pending == IF ready THEN Oldest(Queued, Batch) ELSE {}
     IN /\ Step(w, IF pending = {} THEN NoWork
                   ELSE [worker[w] EXCEPT !.at = "send", !.pending = pending])
        /\ overlaps' = IF pending # {} /\ \E v \in Worker : Draining(v)
                       THEN overlaps + 1 ELSE overlaps
  /\ UNCHANGED <<settings, messages, ready, today, reached, faults>>

Reaches(id) == reached' = [reached EXCEPT ![id] = @ + 1]

\* Mutant: an answer that does not come in time counts as sent.
SendAssumed(w) ==
  /\ worker[w].at = "send"
  /\ LET id == Min(worker[w].pending)
     IN \/ /\ messages[id].to \notin Unreachable
           /\ Reaches(id)
           /\ UNCHANGED faults
        \/ /\ messages[id].to \in Unreachable \/ ~ready
           /\ UNCHANGED <<reached, faults>>
        \/ /\ MayFault("send") /\ faults' = faults + 1
           /\ Reaches(id) \/ UNCHANGED reached
  /\ Step(w, [worker[w] EXCEPT !.at = "sent"])
  /\ UNCHANGED <<settings, messages, ready, today, overlaps>>

\* One send. It reconnects when it must; it fails when the number or the
\* connection does, and it may fail although the message got through.
Send(w) ==
  /\ worker[w].at = "send"
  /\ LET id == Min(worker[w].pending)
     IN \/ /\ messages[id].to \notin Unreachable
           /\ Reaches(id)
           /\ Step(w, [worker[w] EXCEPT !.at = "sent"])
           /\ UNCHANGED faults
        \/ /\ messages[id].to \in Unreachable \/ ~ready
           /\ Step(w, [worker[w] EXCEPT !.at = "tried"])
           /\ UNCHANGED <<reached, faults>>
        \/ /\ MayFault("send") /\ faults' = faults + 1
           /\ Reaches(id) \/ UNCHANGED reached
           /\ Step(w, [worker[w] EXCEPT !.at = "tried"])
  /\ UNCHANGED <<settings, messages, ready, today, overlaps>>

\* Mutant: a message is retried for ever.
AttemptedForEver(m) == [m EXCEPT !.attempts = IF @ < MaxAttempts THEN @ + 1 ELSE @]

\* MarkMessageSent and MarkMessageAttempt look at nothing but the id.
Sent(m) == [m EXCEPT !.status = "sent", !.attempts = @ + 1]
Attempted(m) ==
  [m EXCEPT !.status = IF m.attempts + 1 >= MaxAttempts THEN "failed" ELSE "queued",
            !.attempts = @ + 1]

\* Mutant: a message that did not go out is tried again by the same drain.
MarkTriesAgain(w) ==
  /\ worker[w].at \in {"sent", "tried"}
  /\ LET id == Min(worker[w].pending)
         rest == worker[w].pending \ IF worker[w].at = "sent" THEN {id} ELSE {}
     IN /\ \/ /\ messages' = [messages EXCEPT ![id] =
                                IF worker[w].at = "sent" THEN Sent(@) ELSE Attempted(@)]
              /\ UNCHANGED faults
           \/ MayFault("storage") /\ faults' = faults + 1 /\ UNCHANGED messages
        /\ Step(w, IF rest = {} THEN NoWork
                   ELSE [worker[w] EXCEPT !.at = "send", !.pending = rest])
  /\ UNCHANGED <<settings, ready, today, history>>

Mark(w) ==
  /\ worker[w].at \in {"sent", "tried"}
  /\ LET id == Min(worker[w].pending)
         rest == worker[w].pending \ {id}
     IN /\ \/ /\ messages' = [messages EXCEPT ![id] =
                                IF worker[w].at = "sent" THEN Sent(@) ELSE Attempted(@)]
              /\ UNCHANGED faults
           \/ MayFault("storage") /\ faults' = faults + 1 /\ UNCHANGED messages
        /\ Step(w, IF rest = {} THEN NoWork
                   ELSE [worker[w] EXCEPT !.at = "send", !.pending = rest])
  /\ UNCHANGED <<settings, ready, today, history>>

-----------------------------------------------------------------------------
(* The service stops or crashes; a browser closes its request, and every   *)
(* later statement of that request fails.                                  *)

Stop ==
  /\ MayFault("stop")
  /\ faults' = faults + 1
  /\ worker' = [w \in Worker |-> NoWork]
  /\ ready' = FALSE
  /\ UNCHANGED <<settings, messages, today, history>>

Cancel(w) ==
  /\ MayFault("cancel") /\ w # "tick" /\ ~Idle(w)
  /\ faults' = faults + 1
  /\ Step(w, NoWork)
  /\ UNCHANGED <<settings, messages, ready, today, history>>

Working(w) ==
  \/ SaveRecipient(w) \/ LoadRecipient(w) \/ Compose(w) \/ QueueTest(w)
  \/ ListPending(w) \/ Send(w) \/ Mark(w)

Next ==
  \/ Midnight \/ Channel \/ Stop
  \/ \E w \in Worker :
       \/ \E on \in BOOLEAN, number \in Number \cup {NoNumber} : BeginSave(w, on, number)
       \/ BeginOnce(w) \/ BeginTest(w)
       \/ Working(w)
       \/ Cancel(w)

Spec == Init /\ [][Next]_vars

\* The agent ticks every minute and a goroutine that has begun goes on.
FairSpec ==
  /\ Spec
  /\ WF_vars(BeginOnce("tick"))
  /\ \A w \in Worker : WF_vars(Working(w))

-----------------------------------------------------------------------------
(* What the outbox owes the owner.                                         *)

\* The Messages page shows as delivered only what reached a phone, whoever
\* sent it and whatever failed (Drain).
SentIsDelivered == \A id \in Ids : messages[id].status = "sent" => reached[id] > 0

\* No summary and no alert reaches the owner a second time on its day unless a
\* stop, a cancelled request or an error came between a send and its mark, or
\* two drains overlapped (QueueMessage, Drain).
CopiesOf(m) == {id \in Ids : messages[id].kind = m.kind /\ messages[id].day = m.day}
Alerts == {id \in Ids : messages[id].kind # Test}
RepeatsExplained ==
  \A id \in Alerts : CopiesOf(messages[id]) = {id} /\ reached[id] <= 1 + faults + overlaps

\* What the Messages page shows as sent or failed is settled: it is not sent
\* again and does not become something else, unless two drains overlapped
\* (MarkMessageSent and MarkMessageAttempt, which look at nothing but the id).
SettledIsFinal ==
  [][overlaps = 0 => \A id \in Ids \ Queued :
       messages'[id] = messages[id] /\ reached'[id] = reached[id]]_vars

\* README: "alerts, at most one of each a day".
AtMostOnceADay ==
  \A id \in Alerts : CopiesOf(messages[id]) = {id} /\ reached[id] <= 1

\* README: "it only ever writes to the one number you entered": a drain lists
\* nothing that is for another number.
OneNumber ==
  [][\A w \in Worker : worker[w].at = "drain" =>
       \A id \in worker'[w].pending : messages[id].to = recipient]_vars

\* README: "messages wait in the outbox and go out when it recovers - nothing
\* is lost": a message to a number that can be reached is not given up.
NothingLost ==
  \A id \in Ids : messages[id].status = "failed" => messages[id].to \in Unreachable

\* A queued message does not wait for ever behind one that cannot be delivered:
\* while the channel works and messages are switched on it is sent or given up
\* (Once, MarkMessageAttempt).
MaxIds == (MaxDay + 1) * Cardinality(Kind) + MaxTests
Running == enabled /\ recipient # NoNumber /\ ready
OutboxEmpties ==
  <>[]Running => \A id \in 1..MaxIds : id \in Queued ~> id \in Ids \ Queued
=============================================================================

-------------------------------- MODULE Relay --------------------------------
(***************************************************************************)
(* Questions asked from away: a WhatsApp/SMS webhook or the support        *)
(* console puts a question into the control plane's queue                  *)
(* (internal/cloudctl), the station polls for it, answers it from its own  *)
(* figures and posts the answer back (internal/relay), and records what it *)
(* answered in remote_questions (internal/storage).                        *)
(*                                                                         *)
(* A handler of the control plane that holds its mutex is one step; so is  *)
(* one HTTP request or one SQL statement of the station.  WaitForAnswer    *)
(* takes the pointer of a message under the mutex and reads the message    *)
(* without it: what such a read may return is Readable.                    *)
(*                                                                         *)
(* Abstractions: a message id is its number in the order of arrival, so    *)
(* that a list in that order is a set of ids; an answer is the question    *)
(* and the figures it was computed from; tokens, message texts and         *)
(* requests that are refused for their form are left out.                  *)
(***************************************************************************)
EXTENDS Integers, Sequences, FiniteSets, FiniteSetsExt

CONSTANTS
  Station,      \* stations registered with the control plane
  Number,       \* phone numbers
  Owners,       \* Owners[s]: the numbers registered to station s
  Caller,       \* requests at the control plane that are open at a time
  QueueCap,     \* questions the control plane keeps (500)
  Burst,        \* questions of one number in a window (webhookBurst)
  MaxPerPoll,   \* questions answered in one tick
  Switched,     \* bound: stations whose owner uses the switch; the others have it on
  FaultKinds,   \* which of the faults below may happen
  MaxAsked,     \* bound on the questions
  MaxFigures,   \* bound on the changes of the figures
  MaxFaults     \* bound on the faults

None == [station |-> "none"]      \* no answer yet
Torn == [station |-> "torn"]      \* an answer read while it was written
Support == "support"              \* the sender of a question of the console
NoStation == "none"

Faults == {"request lost", "response lost", "request delayed", "record",
           "stop", "cloud restart"}

ASSUME OwnersAssumption ==
  /\ Owners \in [Station -> SUBSET Number]
  /\ NoStation \notin Station /\ Support \notin Number
ASSUME LimitAssumption ==
  /\ QueueCap \in Nat \ {0} /\ Burst \in Nat /\ MaxPerPoll \in Nat \ {0}
  /\ FaultKinds \subseteq Faults
  /\ MaxAsked \in Nat /\ MaxFigures \in Nat /\ MaxFaults \in Nat

VARIABLES
  active,    \* cloud: the status of each station
  messages,  \* cloud: every question ever queued, with its current answer
  queue,     \* cloud: ids still kept (Server.order and Server.messages)
  recent,    \* cloud: the rate limiter's count of each number
  caller,    \* cloud: webhook and console requests that are open
  enabled,   \* station: the owner's switch
  figures,   \* station: what the figures are now
  agent,     \* station: where the relay agent is in Tick
  trail,     \* station: remote_questions
  late,      \* replies the station has given up and that still arrive
  faults,    \* faults so far
  shown      \* history: the answers somebody was shown, by question

cloud == <<active, messages, queue, recent, caller>>
station == <<enabled, figures, agent, trail>>
vars == <<cloud, station, late, faults, shown>>

Ids == 1..Len(messages)
Figures == 0..MaxFigures
Answer == [station : Station, id : Nat, figures : Figures]
Message == [station : Station, from : Number \cup {Support}, answer : Answer \cup {None}]

Idle == [at |-> "idle", from |-> Support, station |-> NoStation, id |-> 0, found |-> None]
CallerState ==
  [at : {"idle", "enqueue", "wait", "look", "encode"}, from : Number \cup {Support},
   station : Station \cup {NoStation}, id : {0} \cup Ids, found : Answer \cup {None}]
Resting == [at |-> "idle", todo |-> {}, answer |-> None]
AgentState ==
  [at : {"idle", "poll", "answer", "reply", "record"}, todo : SUBSET Ids, answer : Answer \cup {None}]

TypeOK ==
  /\ active \in [Station -> BOOLEAN] /\ enabled \in [Station -> BOOLEAN]
  /\ messages \in Seq(Message)
  /\ queue \subseteq Ids /\ Cardinality(queue) <= QueueCap
  /\ recent \in [Number -> 0..Burst]
  /\ caller \in [Caller -> CallerState]
  /\ figures \in Figures
  /\ agent \in [Station -> AgentState]
  /\ trail \in [Station -> SUBSET Answer]
  /\ \A s \in Station : \A a, b \in trail[s] : a.id = b.id => a = b  \* UNIQUE message_id
  /\ late \subseteq Answer
  /\ faults \in 0..MaxFaults
  /\ shown \in Seq(SUBSET (Answer \cup {Torn})) /\ Len(shown) = Len(messages)

Init ==
  /\ active = [s \in Station |-> TRUE]
  /\ messages = <<>> /\ queue = {} /\ shown = <<>>
  /\ recent = [n \in Number |-> 0]
  /\ caller = [c \in Caller |-> Idle]
  /\ enabled = [s \in Station |-> s \notin Switched]
  /\ figures = 0
  /\ agent = [s \in Station |-> Resting]
  /\ trail = [s \in Station |-> {}]
  /\ late = {}
  /\ faults = 0

Fault(kind) == kind \in FaultKinds /\ faults < MaxFaults /\ faults' = faults + 1
CallerTo(c, state) == caller' = [caller EXCEPT ![c] = state]
AgentTo(s, state) == agent' = [agent EXCEPT ![s] = state]

-----------------------------------------------------------------------------
(* Asking.                                                                 *)

\* stationForNumber: the only active station the number is registered to.
Registered(n) == {s \in Station : active[s] /\ n \in Owners[s]}

\* MaxAsked counts the questions that are about to be queued as well.
RoomToAsk ==
  Len(messages) + Cardinality({c \in Caller : caller[c].at = "enqueue"}) < MaxAsked

\* The webhook: the rate limit first, then the lookup of the sender's number.
\* The code goes on counting what it refuses; recent stops at Burst.  That a
\* full table of numbers refuses as well (ratelimit.go) changes nothing here.
Webhook(c, n) ==
  /\ caller[c] = Idle /\ RoomToAsk
  /\ recent' = [recent EXCEPT ![n] = IF @ < Burst THEN @ + 1 ELSE @]
  /\ \/ /\ recent[n] < Burst
        /\ \E s \in Station :
             /\ Registered(n) = {s}
             /\ CallerTo(c, [Idle EXCEPT !.at = "enqueue", !.from = n, !.station = s])
     \/ /\ recent[n] >= Burst \/ Cardinality(Registered(n)) # 1
        /\ UNCHANGED caller
  /\ UNCHANGED <<active, messages, queue, station, late, faults, shown>>

\* The limiter's window of a number is over.
WindowOver(n) ==
  /\ recent[n] > 0
  /\ recent' = [recent EXCEPT ![n] = 0]
  /\ UNCHANGED <<active, messages, queue, caller, station, late, faults, shown>>

\* Mutant: nothing is dropped when the queue is full.
PutUnbounded(s, from) ==
  LET order == queue \cup {Len(messages) + 1} IN
  /\ messages' = Append(messages, [station |-> s, from |-> from, answer |-> None])
  /\ queue' = order
  /\ shown' = Append(shown, {})

\* Mutant: when the queue is full the question that comes is dropped.
PutDropsNewest(s, from) ==
  LET order == queue \cup {Len(messages) + 1} IN
  /\ messages' = Append(messages, [station |-> s, from |-> from, answer |-> None])
  /\ queue' = IF Cardinality(order) > QueueCap THEN queue ELSE order
  /\ shown' = Append(shown, {})

Put(s, from) ==
  LET order == queue \cup {Len(messages) + 1} IN
  /\ messages' = Append(messages, [station |-> s, from |-> from, answer |-> None])
  /\ queue' = IF Cardinality(order) > QueueCap THEN order \ {Min(order)} ELSE order
  /\ shown' = Append(shown, {})

\* The webhook queues the question and waits.
Enqueue(c) ==
  /\ caller[c].at = "enqueue"
  /\ Put(caller[c].station, caller[c].from)
  /\ CallerTo(c, [caller[c] EXCEPT !.at = "wait", !.id = Len(messages) + 1])
  /\ UNCHANGED <<active, recent, station, late, faults>>

\* The console queues a question and waits for the answer, or prints the
\* message at once.
SupportAsks(c, s) ==
  /\ caller[c] = Idle /\ RoomToAsk
  /\ Put(s, Support)
  /\ \E at \in {"wait", "encode"} :
       CallerTo(c, [Idle EXCEPT !.at = at, !.station = s, !.id = Len(messages) + 1])
  /\ UNCHANGED <<active, recent, station, late, faults>>

-----------------------------------------------------------------------------
(* Being answered.                                                         *)

\* WaitForAnswer takes the pointer of the message.
Look(c) ==
  /\ caller[c].at = "wait" /\ caller[c].id \in queue
  /\ CallerTo(c, [caller[c] EXCEPT !.at = "look", !.found = messages[caller[c].id].answer])
  /\ UNCHANGED <<active, messages, queue, recent, station, late, faults, shown>>

\* The console reads one message: the pointer, then the encoding.
SupportReads(c, id) ==
  /\ caller[c] = Idle /\ id \in queue
  /\ CallerTo(c, [Idle EXCEPT !.at = "encode", !.station = messages[id].station,
                              !.id = id, !.found = messages[id].answer])
  /\ UNCHANGED <<active, messages, queue, recent, station, late, faults, shown>>

\* What an unlocked read returns that began when the answer was before: an
\* answer written meanwhile is seen, not seen, or seen in part.
Readable(id, before) ==
  IF messages[id].answer = before THEN {before} ELSE {before, messages[id].answer, Torn}

Read(c) ==
  /\ caller[c].at \in {"look", "encode"}
  /\ \E seen \in Readable(caller[c].id, caller[c].found) :
       IF seen = None
       THEN /\ CallerTo(c, IF caller[c].at = "encode" THEN Idle
                           ELSE [caller[c] EXCEPT !.at = "wait", !.found = None])
            /\ UNCHANGED shown
       ELSE /\ CallerTo(c, Idle)
            /\ shown' = [shown EXCEPT ![caller[c].id] = @ \cup {seen}]
  /\ UNCHANGED <<active, messages, queue, recent, station, late, faults>>

\* The wait is over: the webhook says the station is offline, the console
\* prints the message as it is.
Deadline(c) ==
  /\ caller[c].at = "wait"
  /\ IF caller[c].from = Support /\ caller[c].id \in queue
     THEN CallerTo(c, [caller[c] EXCEPT !.at = "encode",
                                        !.found = messages[caller[c].id].answer])
     ELSE CallerTo(c, Idle)
  /\ UNCHANGED <<active, messages, queue, recent, station, late, faults, shown>>

-----------------------------------------------------------------------------
(* The station: Agent.Tick.                                                *)

\* The first n of a list.
Oldest(ids, n) == {id \in ids : Cardinality({j \in ids : j <= id}) <= n}

\* Mutant: answered questions are listed again.
PendingAnswered(s) == Oldest({id \in queue : messages[id].station = s}, MaxPerPoll)

\* What handlePendingMessages lists, and Tick takes.
Pending(s) ==
  Oldest({id \in queue : messages[id].station = s /\ messages[id].answer = None}, MaxPerPoll)

NextQuestion(s, todo) ==
  AgentTo(s, IF todo = {} THEN Resting ELSE [Resting EXCEPT !.at = "answer", !.todo = todo])

\* The question the tick is at, and those after it.
Current(s) == Min(agent[s].todo)
Rest(s) == agent[s].todo \ {Current(s)}

\* The ticker fires, and the owner's switch is read.
Wake(s) ==
  /\ agent[s] = Resting /\ enabled[s]
  /\ AgentTo(s, [Resting EXCEPT !.at = "poll"])
  /\ UNCHANGED <<cloud, enabled, figures, trail, late, faults, shown>>

\* The control plane answers the GET: its list, or a refusal that ends the tick.
Poll(s) ==
  /\ agent[s].at = "poll"
  /\ IF active[s] THEN NextQuestion(s, Pending(s)) ELSE AgentTo(s, Resting)
  /\ UNCHANGED <<cloud, enabled, figures, trail, late, faults, shown>>

\* The GET or its response does not come through.
PollFails(s) ==
  /\ agent[s].at = "poll"
  /\ Fault("request lost")
  /\ AgentTo(s, Resting)
  /\ UNCHANGED <<cloud, enabled, figures, trail, late, shown>>

\* Mutant: the answer to the last question of the list is sent to the first.
AnswerQuestionMixed(s) ==
  /\ agent[s].at = "answer"
  /\ AgentTo(s, [agent[s] EXCEPT !.at = "reply",
                   !.answer = [station |-> s, id |-> Max(agent[s].todo), figures |-> figures]])
  /\ UNCHANGED <<cloud, enabled, figures, trail, late, faults, shown>>

AnswerQuestion(s) ==
  /\ agent[s].at = "answer"
  /\ AgentTo(s, [agent[s] EXCEPT !.at = "reply",
                   !.answer = [station |-> s, id |-> Current(s), figures |-> figures]])
  /\ UNCHANGED <<cloud, enabled, figures, trail, late, faults, shown>>

\* handleMessageReply takes a reply to a question it keeps, from its own station.
Accepts(s, id) == id \in queue /\ messages[id].station = s /\ active[s]
Store(id, answer) == messages' = [messages EXCEPT ![id].answer = answer]

\* The control plane answers the POST: 200, or an error that ends the tick.
Reply(s) ==
  LET id == Current(s) IN
  /\ agent[s].at = "reply"
  /\ IF Accepts(s, id)
     THEN /\ Store(id, agent[s].answer)
          /\ AgentTo(s, [agent[s] EXCEPT !.at = "record"])
     ELSE /\ AgentTo(s, Resting)
          /\ UNCHANGED messages
  /\ UNCHANGED <<active, queue, recent, caller, enabled, figures, trail, late, faults, shown>>

\* Mutant: the tick goes on with the next question.
ReplyFailsGoesOn(s) ==
  LET id == Current(s) IN
  /\ agent[s].at = "reply"
  /\ \/ /\ Fault("request lost")
        /\ UNCHANGED <<messages, late>>
     \/ /\ Fault("response lost") /\ Accepts(s, id)
        /\ Store(id, agent[s].answer)
        /\ UNCHANGED late
     \/ /\ Fault("request delayed")
        /\ late' = late \cup {agent[s].answer}
        /\ UNCHANGED messages
  /\ NextQuestion(s, Rest(s))
  /\ UNCHANGED <<active, queue, recent, caller, enabled, figures, trail, shown>>

\* The POST does not come through, or its response does not.
ReplyFails(s) ==
  LET id == Current(s) IN
  /\ agent[s].at = "reply"
  /\ \/ /\ Fault("request lost")
        /\ UNCHANGED <<messages, late>>
     \/ /\ Fault("response lost") /\ Accepts(s, id)
        /\ Store(id, agent[s].answer)
        /\ UNCHANGED late
     \/ /\ Fault("request delayed")
        /\ late' = late \cup {agent[s].answer}
        /\ UNCHANGED messages
  /\ AgentTo(s, Resting)
  /\ UNCHANGED <<active, queue, recent, caller, enabled, figures, trail, shown>>

\* A reply the station has given up reaches the control plane.
Arrive(answer) ==
  /\ late' = late \ {answer}
  /\ IF Accepts(answer.station, answer.id)
     THEN Store(answer.id, answer)
     ELSE UNCHANGED messages
  /\ UNCHANGED <<active, queue, recent, caller, station, faults, shown>>

\* Mutant: the answer is worked out again for the record.
RecordAgain(s) ==
  /\ agent[s].at = "record"
  /\ trail' = [trail EXCEPT ![s] = @ \cup {[agent[s].answer EXCEPT !.figures = figures]}]
  /\ NextQuestion(s, Rest(s))
  /\ UNCHANGED <<cloud, enabled, figures, late, faults, shown>>

\* RecordRemoteQuestion: INSERT OR IGNORE.
Record(s) ==
  /\ agent[s].at = "record"
  /\ trail' = [trail EXCEPT ![s] =
       IF \E a \in @ : a.id = agent[s].answer.id THEN @ ELSE @ \cup {agent[s].answer}]
  /\ NextQuestion(s, Rest(s))
  /\ UNCHANGED <<cloud, enabled, figures, late, faults, shown>>

\* The insert fails: Tick logs a warning and goes on.
RecordFails(s) ==
  /\ agent[s].at = "record"
  /\ Fault("record")
  /\ NextQuestion(s, Rest(s))
  /\ UNCHANGED <<cloud, enabled, figures, trail, late, shown>>

-----------------------------------------------------------------------------
(* The surroundings.                                                       *)

\* The owner's switch.
SetEnabled(s) ==
  /\ s \in Switched
  /\ enabled' = [enabled EXCEPT ![s] = ~@]
  /\ UNCHANGED <<cloud, figures, agent, trail, late, faults, shown>>

\* The administrator suspends a station or lets it in again.
SetStatus(s) ==
  /\ active' = [active EXCEPT ![s] = ~@]
  /\ UNCHANGED <<messages, queue, recent, caller, station, late, faults, shown>>

\* Sales come in.
FiguresChange ==
  /\ figures < MaxFigures
  /\ figures' = figures + 1
  /\ UNCHANGED <<cloud, enabled, agent, trail, late, faults, shown>>

\* The station's service stops in the middle of a tick.
Stop(s) ==
  /\ agent[s] # Resting
  /\ Fault("stop")
  /\ AgentTo(s, Resting)
  /\ UNCHANGED <<cloud, enabled, figures, trail, late, shown>>

\* The control plane keeps everything in memory; stations are registered anew.
CloudRestart ==
  /\ Fault("cloud restart")
  /\ active' = [s \in Station |-> TRUE]
  /\ queue' = {}
  /\ recent' = [n \in Number |-> 0]
  /\ caller' = [c \in Caller |-> Idle]
  /\ UNCHANGED <<messages, station, late, shown>>

-----------------------------------------------------------------------------
Tick(s) == Poll(s) \/ AnswerQuestion(s) \/ Reply(s) \/ Record(s)

Next ==
  \/ \E c \in Caller :
       \/ \E n \in Number : Webhook(c, n)
       \/ \E s \in Station : SupportAsks(c, s)
       \/ \E id \in Ids : SupportReads(c, id)
       \/ Enqueue(c) \/ Look(c) \/ Read(c) \/ Deadline(c)
  \/ \E n \in Number : WindowOver(n)
  \/ \E s \in Station :
       \/ Wake(s) \/ Tick(s)
       \/ PollFails(s) \/ ReplyFails(s) \/ RecordFails(s) \/ Stop(s)
       \/ SetEnabled(s) \/ SetStatus(s)
  \/ \E answer \in late : Arrive(answer)
  \/ FiguresChange
  \/ CloudRestart

Spec == Init /\ [][Next]_vars

\* The relay's ticker fires every 20 seconds, and a tick that began goes on:
\* every request of it has a timeout.
Fairness == \A s \in Station : WF_vars(Wake(s)) /\ WF_vars(Tick(s))
FairSpec == Spec /\ Fairness

-----------------------------------------------------------------------------
(* Properties.                                                             *)

\* Whoever is shown an answer is shown the answer to that very question,
\* computed by the station the question was for; and a question that came by
\* telephone was for a station the sender's number is registered to
\* (handleWhatsAppWebhook's comment, messages.go:199-215).
OwnAnswer ==
  \A id \in Ids :
    /\ messages[id].from # Support => messages[id].from \in Owners[messages[id].station]
    /\ \A a \in shown[id] \ {Torn} : a.station = messages[id].station /\ a.id = id

\* Answers somebody was shown that the station's record does not have, nor is
\* about to have.
Unlogged ==
  {a \in UNION {shown[id] \ {Torn} : id \in Ids} :
     /\ a \notin trail[a.station]
     /\ ~(agent[a.station].at = "record" /\ agent[a.station].answer = a)}

\* remote_questions shows "every question that was asked about their station
\* and what was answered" (migration 008): each answer it misses is the doing
\* of a fault of its own, whatever else was going on.
LogGapsExplained == Cardinality(Unlogged) <= faults

\* Questions to a station are answered in the order they came: Tick stops at
\* the first reply that fails (relay.go:133) and the next list begins with
\* that question again.
OldestFirst ==
  \A i, j \in queue :
    i < j /\ messages[i].station = messages[j].station /\ messages[j].answer # None
      => messages[i].answer # None

\* A question leaves the queue or is answered unless its station is switched
\* off or suspended, however many questions are in front of it and whatever
\* becomes of them: it never waits from some moment on for ever.
Waiting(id) == id \in Ids /\ id \in queue /\ messages[id].answer = None
Cut(id) == id \in Ids /\ ~(enabled[messages[id].station] /\ active[messages[id].station])
QuestionsAnswered == \A id \in 1..MaxAsked : []<>(~Waiting(id) \/ Cut(id))

\* Seen from outside, all of this is a mailbox of QueueCap questions
\* (messages.go:37-95 and 122-148): requests, ticks, faults and late replies
\* change nothing about it but when things happen.
Abstract == INSTANCE Mailbox WITH
  questions <- messages, kept <- queue, seen <- shown, Capacity <- QueueCap

ImplementsMailbox == Abstract!Spec

\* Without faults every answer shown is in the record (README.md:242 "Every
\* answered question is logged on the station").  A fault refutes it.
AnswersLogged == Unlogged = {}
=============================================================================

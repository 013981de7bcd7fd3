----------------------------- MODULE RelayProofs -----------------------------
(***************************************************************************)
(* Proofs about the questions asked from away, for any stations, numbers,  *)
(* open requests and limits, and any number of faults.                     *)
(***************************************************************************)
EXTENDS Relay, LeastMember, FiniteSetTheorems, TLAPS

-----------------------------------------------------------------------------
(* Type correctness.                                                       *)

\* What an open request and a tick have in hand for their step.
RequestInHand(request, ids) ==
  /\ request.at = "enqueue" =>
       /\ request.station \in Station /\ request.from \in Number
       /\ request.from \in Owners[request.station]
  /\ request.at \in {"wait", "look", "encode"} => request.id \in ids
TickInHand(tick) ==
  /\ tick.at \notin {"idle", "poll"} => tick.todo # {}
  /\ tick.at \in {"reply", "record"} => tick.answer \in Answer

TypeInv ==
  /\ TypeOK
  /\ \A c \in Caller : RequestInHand(caller[c], Ids)
  /\ \A s \in Station : TickInHand(agent[s])

\* The parts of the state, each with its type.
TableOK ==
  /\ messages \in Seq(Message)
  /\ queue \subseteq Ids /\ Cardinality(queue) <= QueueCap
  /\ shown \in Seq(SUBSET (Answer \cup {Torn})) /\ Len(shown) = Len(messages)
CallersOK ==
  caller \in [Caller -> CallerState] /\ \A c \in Caller : RequestInHand(caller[c], Ids)
AgentsOK ==
  agent \in [Station -> AgentState] /\ \A s \in Station : TickInHand(agent[s])
TrailOK ==
  /\ trail \in [Station -> SUBSET Answer]
  /\ \A s \in Station : \A a, b \in trail[s] : a.id = b.id => a = b
RestOK ==
  /\ active \in [Station -> BOOLEAN] /\ enabled \in [Station -> BOOLEAN]
  /\ recent \in [Number -> 0..Burst]
  /\ figures \in Figures /\ late \subseteq Answer /\ faults \in 0..MaxFaults

LEMMA Parts == TypeInv <=> TableOK /\ CallersOK /\ AgentsOK /\ TrailOK /\ RestOK
  BY DEF TypeInv, TypeOK, TableOK, CallersOK, AgentsOK, TrailOK, RestOK

LEMMA PartsNext == TypeInv' <=> TableOK' /\ CallersOK' /\ AgentsOK' /\ TrailOK' /\ RestOK'
  BY DEF TypeInv, TypeOK, TableOK, CallersOK, AgentsOK, TrailOK, RestOK

\* No answer is None, which stands for no station.
LEMMA NoneIsNoAnswer == ASSUME NEW a \in Answer PROVE a # None
  <1>1. a.station \in Station
    BY DEF Answer
  <1>2. None.station = NoStation
    BY DEF None, NoStation
  <1> QED
    BY <1>1, <1>2, OwnersAssumption

\* The ids of the messages, which only ever become more.
LEMMA IdsType ==
  ASSUME TableOK
  PROVE  /\ Len(messages) \in Nat /\ Ids \subseteq Nat /\ IsFiniteSet(Ids)
         /\ queue \subseteq Ids /\ IsFiniteSet(queue)
         /\ \A id \in Ids : /\ messages[id] \in Message
                            /\ messages[id].station \in Station
                            /\ messages[id].from \in Number \cup {Support}
                            /\ messages[id].answer \in Answer \cup {None}
                            /\ shown[id] \subseteq Answer \cup {Torn}
  <1>1. Len(messages) \in Nat /\ Ids \subseteq Nat /\ queue \subseteq Ids
    BY DEF TableOK, Ids
  <1>2. IsFiniteSet(Ids)
    BY <1>1, FS_Interval DEF Ids
  <1>3. IsFiniteSet(queue)
    BY <1>1, <1>2, FS_Subset
  <1>4. ASSUME NEW id \in Ids
        PROVE  messages[id] \in Message /\ shown[id] \subseteq Answer \cup {Torn}
    BY <1>1 DEF TableOK, Ids
  <1> QED
    BY <1>1, <1>2, <1>3, <1>4 DEF Message

\* More messages spoil nothing that is in hand.
LEMMA MoreIds ==
  ASSUME Ids \subseteq Ids', CallersOK, AgentsOK
  PROVE  /\ UNCHANGED caller => CallersOK'
         /\ UNCHANGED agent => AgentsOK'
  <1>1. CallerState \subseteq CallerState' /\ AgentState \subseteq AgentState'
    BY DEF CallerState, AgentState
  <1> QED
    BY <1>1 DEF CallersOK, AgentsOK, RequestInHand, TickInHand

LEMMA TypeInit == Init => TypeInv
  <1> SUFFICES ASSUME Init PROVE TypeInv
    OBVIOUS
  <1>1. TableOK
    <2>1. queue = {} /\ Len(messages) = 0 /\ Len(shown) = 0
      BY DEF Init
    <2>2. Cardinality(queue) = 0
      BY <2>1, FS_EmptySet
    <2> QED
      BY <2>1, <2>2, LimitAssumption DEF Init, TableOK
  <1>2. CallersOK
    BY DEF Init, CallersOK, CallerState, Idle, RequestInHand
  <1>3. AgentsOK
    BY DEF Init, AgentsOK, AgentState, Resting, TickInHand
  <1>4. TrailOK /\ RestOK
    BY LimitAssumption DEF Init, TrailOK, RestOK, Figures
  <1> QED
    BY <1>1, <1>2, <1>3, <1>4, Parts

\* A step of one request, or of one station's tick.
LEMMA CallerStep ==
  ASSUME CallersOK, Ids \subseteq Ids', NEW c \in Caller, NEW state, CallerTo(c, state),
         state \in CallerState', RequestInHand(state, Ids')
  PROVE  CallersOK' /\ \A d \in Caller : caller'[d] = IF d = c THEN state ELSE caller[d]
  <1>1. CallerState \subseteq CallerState'
    BY DEF CallerState
  <1>2. caller' = [caller EXCEPT ![c] = state] /\ caller \in [Caller -> CallerState]
    BY DEF CallerTo, CallersOK
  <1>3. \A d \in Caller : caller'[d] = IF d = c THEN state ELSE caller[d]
    BY <1>2
  <1>4. caller' \in [Caller -> CallerState']
    BY <1>1, <1>2
  <1>5. \A d \in Caller : RequestInHand(caller'[d], Ids')
    BY <1>3 DEF CallersOK, RequestInHand
  <1> QED
    BY <1>3, <1>4, <1>5 DEF CallersOK

LEMMA AgentStep ==
  ASSUME AgentsOK, Ids' = Ids, NEW s \in Station, NEW state, AgentTo(s, state),
         state \in AgentState, TickInHand(state)
  PROVE  AgentsOK' /\ \A t \in Station : agent'[t] = IF t = s THEN state ELSE agent[t]
  <1>1. AgentState = AgentState'
    BY DEF AgentState
  <1>2. agent' = [agent EXCEPT ![s] = state] /\ agent \in [Station -> AgentState]
    BY DEF AgentTo, AgentsOK
  <1>3. \A t \in Station : agent'[t] = IF t = s THEN state ELSE agent[t]
    BY <1>2
  <1> QED
    BY <1>1, <1>2, <1>3 DEF AgentsOK

LEMMA RestingType == Resting \in AgentState /\ TickInHand(Resting)
  BY DEF Resting, AgentState, TickInHand

LEMMA IdleType == Idle \in CallerState /\ RequestInHand(Idle, Ids)
  BY DEF Idle, CallerState, RequestInHand

\* The fields of a request and of a tick.
LEMMA CallerFields ==
  ASSUME CallersOK, NEW c \in Caller
  PROVE  /\ caller[c] \in CallerState
         /\ caller[c].from \in Number \cup {Support}
         /\ caller[c].station \in Station \cup {NoStation}
         /\ caller[c].id \in {0} \cup Ids
         /\ caller[c].found \in Answer \cup {None}
         /\ RequestInHand(caller[c], Ids)
  BY DEF CallersOK, CallerState

LEMMA AgentFields ==
  ASSUME AgentsOK, NEW s \in Station
  PROVE  /\ agent[s] \in AgentState
         /\ agent[s].todo \subseteq Ids
         /\ agent[s].answer \in Answer \cup {None}
         /\ TickInHand(agent[s])
  BY DEF AgentsOK, AgentState

\* The question a tick is at is the oldest of its list.
LEMMA CurrentIsOldest ==
  ASSUME TableOK, AgentsOK, NEW s \in Station, agent[s].todo # {}
  PROVE  /\ Current(s) \in agent[s].todo /\ Current(s) \in Ids
         /\ \A id \in agent[s].todo : Current(s) <= id
         /\ Rest(s) \subseteq agent[s].todo
  <1>1. agent[s].todo \in SUBSET Nat /\ agent[s].todo \subseteq Ids
    BY IdsType, AgentFields
  <1> QED
    BY <1>1, MinIsLeast DEF Current, Rest

\* The step to the next question.
LEMMA NextType ==
  ASSUME TableOK, AgentsOK, UNCHANGED messages, NEW s \in Station, NEW todo \in SUBSET Ids,
         NextQuestion(s, todo)
  PROVE  /\ AgentsOK'
         /\ \A t \in Station : t # s => agent'[t] = agent[t]
         /\ agent'[s].todo = todo /\ agent'[s].at \in {"idle", "answer"}
  <1>1. Ids' = Ids
    BY DEF Ids
  <1>2. CASE todo = {}
    <2>1. AgentTo(s, Resting)
      BY <1>2 DEF NextQuestion
    <2>2. AgentsOK' /\ \A t \in Station : agent'[t] = IF t = s THEN Resting ELSE agent[t]
      BY <1>1, <2>1, AgentStep, RestingType
    <2> QED
      BY <1>2, <2>2 DEF Resting
  <1>3. CASE todo # {}
    <2> DEFINE state == [Resting EXCEPT !.at = "answer", !.todo = todo]
    <2>1. AgentTo(s, state)
      BY <1>3 DEF NextQuestion
    <2>2. state \in AgentState /\ TickInHand(state) /\ state.todo = todo /\ state.at = "answer"
      BY <1>3 DEF Resting, AgentState, TickInHand
    <2> HIDE DEF state
    <2>3. AgentsOK' /\ \A t \in Station : agent'[t] = IF t = s THEN state ELSE agent[t]
      BY <1>1, <2>1, <2>2, AgentStep
    <2> QED
      BY <2>2, <2>3
  <1> QED
    BY <1>2, <1>3

\* A question is queued.
LEMMA PutType ==
  ASSUME TableOK, NEW s \in Station, NEW from \in Number \cup {Support}, Put(s, from)
  PROVE  /\ TableOK'
         /\ Ids' = Ids \cup {Len(messages) + 1}
         /\ \A id \in Ids : messages'[id] = messages[id] /\ shown'[id] = shown[id]
         /\ messages'[Len(messages) + 1] = [station |-> s, from |-> from, answer |-> None]
         /\ shown'[Len(messages) + 1] = {}
         /\ queue' \subseteq queue \cup {Len(messages) + 1}
  <1> DEFINE new == [station |-> s, from |-> from, answer |-> None]
             id == Len(messages) + 1
             order == queue \cup {id}
  <1>1. messages' = Append(messages, new) /\ shown' = Append(shown, {})
        /\ queue' = IF Cardinality(order) > QueueCap THEN order \ {Min(order)} ELSE order
    BY DEF Put
  <1>2. new \in Message
    BY DEF Message
  <1>3. /\ messages' \in Seq(Message) /\ Len(messages') = id
        /\ \A i \in Ids : messages'[i] = messages[i]
        /\ messages'[id] = new
    BY <1>1, <1>2 DEF TableOK, Ids
  <1>4. /\ shown' \in Seq(SUBSET (Answer \cup {Torn})) /\ Len(shown') = id
        /\ \A i \in Ids : shown'[i] = shown[i]
        /\ shown'[id] = {}
    BY <1>1 DEF TableOK, Ids
  <1>5. Ids' = Ids \cup {id} /\ id \in Nat
    BY <1>3, IdsType DEF Ids
  <1>6. order \in SUBSET Nat /\ order # {} /\ IsFiniteSet(order)
    BY <1>5, IdsType, FS_AddElement
  <1>7. Cardinality(order) <= Cardinality(queue) + 1
    <2>1. IsFiniteSet(queue) /\ Cardinality(queue) \in Nat
      BY IdsType, FS_CardinalityType
    <2>2. Cardinality(queue \cup {id}) = IF id \in queue THEN Cardinality(queue) ELSE Cardinality(queue) + 1
      BY <2>1, FS_AddElement
    <2> QED
      BY <2>1, <2>2
  <1>8. queue' \subseteq order /\ Cardinality(queue') <= QueueCap
    <2>1. CASE Cardinality(order) > QueueCap
      <3> HIDE DEF order
      <3>1. PICK m \in order : m = Min(order)
        BY <1>6, MinIsLeast
      <3>2. Cardinality(order \ {m}) = Cardinality(order) - 1
        BY <1>6, <3>1, FS_RemoveElement
      <3>3. Cardinality(queue) \in Nat /\ Cardinality(order) \in Nat
        BY <1>6, IdsType, FS_CardinalityType
      <3>4. queue' = order \ {m}
        BY <1>1, <2>1, <3>1
      <3> QED
        BY <1>7, <3>2, <3>3, <3>4, LimitAssumption DEF TableOK
    <2>2. CASE ~(Cardinality(order) > QueueCap)
      BY <1>1, <1>6, <2>2, FS_CardinalityType, LimitAssumption
    <2> QED
      BY <2>1, <2>2
  <1>9. order \subseteq Ids'
    BY <1>5 DEF TableOK
  <1> QED
    BY <1>3, <1>4, <1>5, <1>8, <1>9 DEF TableOK

\* A step of one request that leaves the table and the stations alone.
LEMMA RequestType ==
  ASSUME TypeInv, NEW c \in Caller, NEW state, CallerTo(c, state), state \in CallerState,
         RequestInHand(state, Ids), UNCHANGED <<active, messages, queue, station, late, faults, shown>>,
         recent' \in [Number -> 0..Burst]
  PROVE  TypeInv'
  <1>1. Ids' = Ids /\ CallerState' = CallerState
    BY DEF Ids, CallerState
  <1>2. CallersOK'
    BY <1>1, CallerStep, Parts
  <1>3. TableOK' /\ AgentsOK'
    BY <1>1, Parts DEF TableOK, AgentsOK, AgentState, station
  <1>4. TrailOK' /\ RestOK'
    BY Parts DEF TrailOK, RestOK, station
  <1> QED
    BY <1>2, <1>3, <1>4, PartsNext

LEMMA WebhookType ==
  ASSUME TypeInv, NEW c \in Caller, NEW n \in Number, Webhook(c, n)
  PROVE  TypeInv'
  <1>1. recent' \in [Number -> 0..Burst]
    <2>1. recent \in [Number -> 0..Burst] /\ Burst \in Nat
      BY LimitAssumption DEF TypeInv, TypeOK
    <2>2. (IF recent[n] < Burst THEN recent[n] + 1 ELSE recent[n]) \in 0..Burst
      BY <2>1
    <2>3. recent' = [recent EXCEPT ![n] = IF recent[n] < Burst THEN recent[n] + 1 ELSE recent[n]]
      BY DEF Webhook
    <2> QED
      BY <2>1, <2>2, <2>3
  <1>2. UNCHANGED <<active, messages, queue, station, late, faults, shown>>
    BY DEF Webhook
  <1>3. CASE UNCHANGED caller
    <2>1. TableOK' /\ CallersOK' /\ AgentsOK'
      BY <1>2, <1>3, Parts DEF TableOK, CallersOK, AgentsOK, AgentState, CallerState, Ids, station
    <2>2. TrailOK' /\ RestOK'
      BY <1>1, <1>2, Parts DEF TrailOK, RestOK, station
    <2> QED
      BY <2>1, <2>2, PartsNext
  <1>4. ASSUME NEW s \in Station, Registered(n) = {s},
               CallerTo(c, [Idle EXCEPT !.at = "enqueue", !.from = n, !.station = s])
        PROVE  TypeInv'
    <2> DEFINE state == [Idle EXCEPT !.at = "enqueue", !.from = n, !.station = s]
    <2>1. state \in CallerState
      BY DEF Idle, CallerState
    <2>2. RequestInHand(state, Ids)
      BY <1>4 DEF Idle, RequestInHand, Registered
    <2> QED
      BY <1>1, <1>2, <1>4, <2>1, <2>2, RequestType
  <1> QED
    BY <1>3, <1>4 DEF Webhook

\* A question is queued, by the webhook or by the console.
LEMMA AskType ==
  ASSUME TypeInv, NEW c \in Caller, NEW s \in Station, NEW from \in Number \cup {Support},
         Put(s, from), NEW state, CallerTo(c, state),
         state.at \in {"wait", "encode"}, state.id = Len(messages) + 1,
         state \in CallerState \/ state \in CallerState',
         UNCHANGED <<active, recent, station, late, faults>>
  PROVE  TypeInv'
  <1>1. TableOK' /\ Ids' = Ids \cup {Len(messages) + 1}
    BY PutType, Parts
  <1>2. state \in CallerState' /\ RequestInHand(state, Ids')
    BY <1>1 DEF CallerState, RequestInHand
  <1>3. CallersOK'
    BY <1>1, <1>2, CallerStep, Parts
  <1>4. AgentsOK' /\ TrailOK' /\ RestOK'
    BY <1>1, Parts DEF AgentsOK, AgentState, TrailOK, RestOK, station
  <1> QED
    BY <1>1, <1>3, <1>4, PartsNext

\* The ids a request may have after a question was queued.
LEMMA NewId ==
  ASSUME TypeInv, NEW s \in Station, NEW from \in Number \cup {Support}, Put(s, from)
  PROVE  Len(messages) + 1 \in Ids' /\ Ids \subseteq Ids'
  BY PutType, Parts

LEMMA EnqueueType == ASSUME TypeInv, NEW c \in Caller, Enqueue(c) PROVE TypeInv'
  <1>1. caller[c] \in CallerState /\ caller[c].station \in Station /\ caller[c].from \in Number
    BY CallerFields, Parts DEF Enqueue, RequestInHand
  <1>2. Put(caller[c].station, caller[c].from) /\ UNCHANGED <<active, recent, station, late, faults>>
    BY DEF Enqueue
  <1> DEFINE state == [caller[c] EXCEPT !.at = "wait", !.id = Len(messages) + 1]
  <1>3. CallerTo(c, state)
    BY DEF Enqueue
  <1>4. state \in CallerState' /\ state.at = "wait" /\ state.id = Len(messages) + 1
    BY <1>1, <1>2, NewId DEF CallerState
  <1> HIDE DEF state
  <1> QED
    BY <1>1, <1>2, <1>3, <1>4, AskType

LEMMA SupportAsksType ==
  ASSUME TypeInv, NEW c \in Caller, NEW s \in Station, SupportAsks(c, s)
  PROVE  TypeInv'
  <1>1. PICK at \in {"wait", "encode"} :
          CallerTo(c, [Idle EXCEPT !.at = at, !.station = s, !.id = Len(messages) + 1])
    BY DEF SupportAsks
  <1>2. Put(s, Support) /\ UNCHANGED <<active, recent, station, late, faults>>
    BY DEF SupportAsks
  <1> DEFINE state == [Idle EXCEPT !.at = at, !.station = s, !.id = Len(messages) + 1]
  <1>3. state \in CallerState' /\ state.at = at /\ state.id = Len(messages) + 1
    BY <1>2, NewId DEF CallerState, Idle
  <1>4. CallerTo(c, state)
    BY <1>1
  <1> HIDE DEF state
  <1> QED
    BY <1>2, <1>3, <1>4, AskType

\* The pointer to a message is taken.
LEMMA LookType ==
  ASSUME TypeInv, NEW c \in Caller, Look(c) \/ Deadline(c) \/ \E id \in Ids : SupportReads(c, id)
  PROVE  TypeInv'
  <1>1. /\ UNCHANGED <<active, messages, queue, station, late, faults, shown>>
        /\ recent' \in [Number -> 0..Burst]
    BY DEF Look, Deadline, SupportReads, TypeInv, TypeOK
  <1>2. PICK state : CallerTo(c, state) /\ state \in CallerState /\ RequestInHand(state, Ids)
    <2>1. CASE CallerTo(c, Idle)
      BY <2>1, IdleType
    <2>2. ASSUME NEW at \in {"look", "encode"}, caller[c].id \in Ids,
                 CallerTo(c, [caller[c] EXCEPT !.at = at, !.found = messages[caller[c].id].answer])
          PROVE  \E state : CallerTo(c, state) /\ state \in CallerState /\ RequestInHand(state, Ids)
      <3> DEFINE state == [caller[c] EXCEPT !.at = at, !.found = messages[caller[c].id].answer]
      <3>1. caller[c] \in CallerState /\ messages[caller[c].id].answer \in Answer \cup {None}
        BY <2>2, CallerFields, IdsType, Parts
      <3>2. state \in CallerState /\ RequestInHand(state, Ids)
        BY <2>2, <3>1 DEF CallerState, RequestInHand
      <3>3. CallerTo(c, state)
        BY <2>2
      <3> HIDE DEF state
      <3> QED
        BY <3>2, <3>3
    <2>3. caller[c].at = "wait" => caller[c].id \in Ids
      BY CallerFields, Parts DEF RequestInHand
    <2>4. CASE Look(c)
      BY <2>2, <2>3, <2>4 DEF Look
    <2>5. CASE Deadline(c)
      BY <2>1, <2>2, <2>3, <2>5 DEF Deadline
    <2>6. ASSUME NEW id \in Ids, SupportReads(c, id)
          PROVE  \E state : CallerTo(c, state) /\ state \in CallerState /\ RequestInHand(state, Ids)
      <3> DEFINE state == [Idle EXCEPT !.at = "encode", !.station = messages[id].station,
                             !.id = id, !.found = messages[id].answer]
      <3>1. messages[id].answer \in Answer \cup {None} /\ messages[id].station \in Station
        BY <2>6, IdsType, Parts
      <3>2. state \in CallerState /\ RequestInHand(state, Ids)
        BY <2>6, <3>1 DEF CallerState, RequestInHand, Idle
      <3>3. CallerTo(c, state)
        BY <2>6 DEF SupportReads
      <3> HIDE DEF state
      <3> QED
        BY <3>2, <3>3
    <2> QED
      BY <2>4, <2>5, <2>6
  <1> QED
    BY <1>1, <1>2, RequestType

\* What a read of a message may return.
LEMMA ReadableType ==
  ASSUME TableOK, NEW id \in Ids, NEW before \in Answer \cup {None}
  PROVE  Readable(id, before) \subseteq Answer \cup {None, Torn}
  BY IdsType DEF Readable

LEMMA ReadType == ASSUME TypeInv, NEW c \in Caller, Read(c) PROVE TypeInv'
  <1>1. /\ caller[c].id \in Ids /\ caller[c].found \in Answer \cup {None}
        /\ caller[c] \in CallerState
    BY CallerFields, Parts DEF Read, RequestInHand
  <1>2. PICK seen \in Readable(caller[c].id, caller[c].found) :
          IF seen = None
          THEN /\ CallerTo(c, IF caller[c].at = "encode" THEN Idle
                              ELSE [caller[c] EXCEPT !.at = "wait", !.found = None])
               /\ UNCHANGED shown
          ELSE /\ CallerTo(c, Idle)
               /\ shown' = [shown EXCEPT ![caller[c].id] = @ \cup {seen}]
    BY DEF Read
  <1>3. seen \in Answer \cup {None, Torn}
    BY <1>1, <1>2, ReadableType, Parts
  <1>4. UNCHANGED <<active, messages, queue, recent, station, late, faults>>
    BY DEF Read
  <1>5. CASE seen = None /\ caller[c].at # "encode"
    <2> DEFINE state == [caller[c] EXCEPT !.at = "wait", !.found = None]
    <2>1. CallerTo(c, state) /\ UNCHANGED shown
      BY <1>2, <1>5
    <2>2. state \in CallerState /\ RequestInHand(state, Ids)
      BY <1>1 DEF CallerState, RequestInHand
    <2> HIDE DEF state
    <2> QED
      BY <1>4, <2>1, <2>2, RequestType DEF TypeInv, TypeOK
  <1>6. CASE seen = None /\ caller[c].at = "encode"
    BY <1>2, <1>4, <1>6, IdleType, RequestType DEF TypeInv, TypeOK
  <1>7. CASE seen # None
    <2>1. CallerTo(c, Idle) /\ shown' = [shown EXCEPT ![caller[c].id] = @ \cup {seen}]
      BY <1>2, <1>7
    <2>2. Ids' = Ids /\ CallerState' = CallerState
      BY <1>4 DEF Ids, CallerState
    <2>3. CallersOK'
      BY <2>1, <2>2, IdleType, CallerStep, Parts
    <2>4. shown' \in Seq(SUBSET (Answer \cup {Torn})) /\ Len(shown') = Len(shown)
      <3>1. seen \in Answer \cup {Torn}
        BY <1>3, <1>7
      <3>2. /\ shown \in Seq(SUBSET (Answer \cup {Torn}))
            /\ caller[c].id \in 1..Len(shown)
        BY <1>1, Parts DEF TableOK, Ids
      <3>3. shown[caller[c].id] \cup {seen} \in SUBSET (Answer \cup {Torn})
        BY <3>1, <3>2
      <3> QED
        BY <2>1, <3>2, <3>3
    <2>5. TableOK' /\ AgentsOK' /\ TrailOK' /\ RestOK'
      BY <1>4, <2>2, <2>4, Parts DEF TableOK, AgentsOK, AgentState, TrailOK, RestOK, station
    <2> QED
      BY <2>3, <2>5, PartsNext
  <1> QED
    BY <1>5, <1>6, <1>7

-----------------------------------------------------------------------------
(* Type correctness of the station's tick.                                 *)

\* A step of one tick.
LEMMA TickStep ==
  ASSUME TypeInv, AgentsOK', Ids' = Ids,
         messages' \in Seq(Message), Len(messages') = Len(messages),
         UNCHANGED <<active, queue, recent, caller, enabled, figures, shown>>,
         late' \subseteq Answer, faults' \in 0..MaxFaults, TrailOK'
  PROVE  TypeInv'
  <1>1. TableOK' /\ CallersOK' /\ RestOK'
    BY Parts DEF TableOK, CallersOK, CallerState, RestOK
  <1> QED
    BY <1>1, PartsNext

\* A reply is stored, or is not.
LEMMA StoreType ==
  ASSUME TableOK, NEW id \in Ids, NEW answer \in Answer, Store(id, answer)
  PROVE  /\ messages' \in Seq(Message) /\ Len(messages') = Len(messages) /\ Ids' = Ids
         /\ \A i \in Ids : /\ messages'[i].station = messages[i].station
                           /\ messages'[i].from = messages[i].from
                           /\ messages'[i].answer = IF i = id THEN answer ELSE messages[i].answer
  <1>1. /\ messages' = [messages EXCEPT ![id].answer = answer]
        /\ messages \in Seq(Message) /\ id \in 1..Len(messages)
    BY DEF Store, TableOK, Ids
  <1>2. [messages[id] EXCEPT !.answer = answer] \in Message
    <2>1. messages[id] \in Message
      BY <1>1
    <2> QED
      BY <2>1 DEF Message
  <1>3. messages' \in Seq(Message) /\ Len(messages') = Len(messages)
    BY <1>1, <1>2
  <1>4. \A i \in Ids : messages'[i] = IF i = id THEN [messages[id] EXCEPT !.answer = answer] ELSE messages[i]
    BY <1>1 DEF Ids
  <1>5. ASSUME NEW i \in Ids
        PROVE  /\ messages'[i].station = messages[i].station
               /\ messages'[i].from = messages[i].from
               /\ messages'[i].answer = IF i = id THEN answer ELSE messages[i].answer
    <2>1. messages[i] \in Message /\ messages[id] \in Message
      BY IdsType
    <2>2. CASE i = id
      BY <1>4, <2>1, <2>2 DEF Message
    <2>3. CASE i # id
      BY <1>4, <2>3
    <2> QED
      BY <2>2, <2>3
  <1> QED
    BY <1>3, <1>5 DEF Ids

LEMMA FaultType == ASSUME TypeInv, NEW kind, Fault(kind) PROVE faults' \in 0..MaxFaults
  BY LimitAssumption DEF TypeInv, TypeOK, Fault

\* A step of a tick that is to rest, to reply or to record.
LEMMA TickTo ==
  ASSUME TypeInv, NEW s \in Station, Ids' = Ids,
         \/ AgentTo(s, Resting)
         \/ /\ agent[s].at = "reply"
            /\ AgentTo(s, [agent[s] EXCEPT !.at = "record"])
  PROVE  /\ AgentsOK'
         /\ \A t \in Station : t # s => agent'[t] = agent[t]
  <1>1. CASE AgentTo(s, Resting)
    BY <1>1, RestingType, AgentStep, Parts
  <1>2. CASE agent[s].at = "reply" /\ AgentTo(s, [agent[s] EXCEPT !.at = "record"])
    <2> DEFINE state == [agent[s] EXCEPT !.at = "record"]
    <2>1. AgentTo(s, state)
      BY <1>2
    <2>2. state \in AgentState /\ TickInHand(state)
      BY <1>2, AgentFields, Parts DEF AgentState, TickInHand
    <2> HIDE DEF state
    <2> QED
      BY <2>1, <2>2, AgentStep, Parts
  <1> QED
    BY <1>1, <1>2

\* A tick that begins: what it has in hand is the list it got, or nothing.
LEMMA Begins ==
  ASSUME TypeInv, NEW s \in Station, Wake(s) \/ Poll(s)
  PROVE  /\ AgentsOK'
         /\ \A t \in Station : t # s => agent'[t] = agent[t]
         /\ agent[s].at # "record" /\ agent'[s].at \in {"idle", "poll", "answer"}
         /\ agent'[s].todo \in {{}, Pending(s)} /\ agent'[s].todo \subseteq Ids
  <1>1. UNCHANGED messages /\ Ids' = Ids
    BY DEF Wake, Poll, cloud, Ids
  <1>2. CASE Wake(s)
    <2> DEFINE state == [Resting EXCEPT !.at = "poll"]
    <2>1. AgentTo(s, state) /\ agent[s].at = "idle"
      BY <1>2 DEF Wake, Resting
    <2>2. state \in AgentState /\ TickInHand(state) /\ state.todo = {} /\ state.at = "poll"
      BY DEF Resting, AgentState, TickInHand
    <2> HIDE DEF state
    <2>3. AgentsOK' /\ \A t \in Station : agent'[t] = IF t = s THEN state ELSE agent[t]
      BY <1>1, <2>1, <2>2, AgentStep, Parts
    <2> QED
      BY <2>1, <2>2, <2>3
  <1>3. CASE Poll(s)
    <2>1. CASE NextQuestion(s, Pending(s))
      <3>1. Pending(s) \in SUBSET Ids
        BY Parts DEF Pending, Oldest, TableOK
      <3> QED
        BY <1>1, <1>3, <2>1, <3>1, NextType, Parts DEF Poll
    <2>2. CASE AgentTo(s, Resting)
      <3>1. AgentsOK' /\ \A t \in Station : agent'[t] = IF t = s THEN Resting ELSE agent[t]
        BY <1>1, <2>2, AgentStep, RestingType, Parts
      <3> QED
        BY <1>3, <3>1 DEF Poll, Resting
    <2> QED
      BY <1>3, <2>1, <2>2 DEF Poll
  <1> QED
    BY <1>2, <1>3

LEMMA PollType == ASSUME TypeInv, NEW s \in Station, Wake(s) \/ Poll(s) PROVE TypeInv'
  <1>1. UNCHANGED <<active, messages, queue, recent, caller, enabled, figures, trail, late, faults, shown>>
    BY DEF Wake, Poll, cloud
  <1>2. AgentsOK' /\ Ids' = Ids
    BY <1>1, Begins DEF Ids
  <1>3. TrailOK'
    BY <1>1, Parts DEF TrailOK
  <1> QED
    BY <1>1, <1>2, <1>3, TickStep DEF TypeInv, TypeOK

\* The answer a tick works out.
LEMMA AnswerType ==
  ASSUME TypeInv, NEW s \in Station, AnswerQuestion(s)
  PROVE  /\ TypeInv'
         /\ \A t \in Station : t # s => agent'[t] = agent[t]
         /\ agent'[s].at = "reply" /\ agent'[s].todo = agent[s].todo
         /\ agent'[s].answer = [station |-> s, id |-> Current(s), figures |-> figures]
  <1> DEFINE answer == [station |-> s, id |-> Current(s), figures |-> figures]
             state == [agent[s] EXCEPT !.at = "reply", !.answer = answer]
  <1>1. /\ AgentTo(s, state) /\ Ids' = Ids
        /\ UNCHANGED <<active, messages, queue, recent, caller, enabled, figures, trail, late, faults, shown>>
    BY DEF AnswerQuestion, cloud, Ids
  <1>2. agent[s].todo # {}
    BY AgentFields, Parts DEF AnswerQuestion, TickInHand
  <1>3. answer \in Answer
    <2>1. Current(s) \in Nat
      BY <1>2, CurrentIsOldest, IdsType, Parts
    <2> QED
      BY <2>1, Parts DEF Answer, RestOK
  <1>4. /\ state \in AgentState /\ TickInHand(state)
        /\ state.at = "reply" /\ state.todo = agent[s].todo /\ state.answer = answer
    BY <1>2, <1>3, AgentFields, Parts DEF AgentState, TickInHand
  <1> HIDE DEF state, answer
  <1>5. AgentsOK' /\ \A t \in Station : agent'[t] = IF t = s THEN state ELSE agent[t]
    BY <1>1, <1>4, AgentStep, Parts
  <1>6. TrailOK'
    BY <1>1, Parts DEF TrailOK
  <1>7. TypeInv'
    BY <1>1, <1>5, <1>6, TickStep DEF TypeInv, TypeOK
  <1> QED
    BY <1>4, <1>5, <1>7 DEF answer

\* The reply: what it stores, and where the tick goes.
LEMMA ReplyType ==
  ASSUME TypeInv, NEW s \in Station, Reply(s) \/ ReplyFails(s)
  PROVE  TypeInv'
  <1>1. /\ agent[s].at = "reply" /\ agent[s].answer \in Answer /\ Current(s) \in Ids
        /\ UNCHANGED <<active, queue, recent, caller, enabled, figures, trail, shown>>
    BY AgentFields, CurrentIsOldest, Parts DEF Reply, ReplyFails, TickInHand
  <1>2. /\ messages' \in Seq(Message) /\ Len(messages') = Len(messages) /\ Ids' = Ids
    <2>1. CASE Store(Current(s), agent[s].answer)
      BY <1>1, <2>1, StoreType, Parts
    <2>2. CASE UNCHANGED messages
      BY <2>2, Parts DEF TableOK, Ids
    <2> QED
      BY <2>1, <2>2 DEF Reply, ReplyFails
  <1>3. AgentsOK'
    BY <1>2, TickTo DEF Reply, ReplyFails
  <1>4. late' \subseteq Answer /\ faults' \in 0..MaxFaults
    BY <1>1, FaultType, Parts DEF Reply, ReplyFails, RestOK
  <1>5. TrailOK'
    BY <1>1, Parts DEF TrailOK
  <1> QED
    BY <1>1, <1>2, <1>3, <1>4, <1>5, TickStep

\* The record: at most one answer to each question.
LEMMA RecordType ==
  ASSUME TypeInv, NEW s \in Station, Record(s) \/ RecordFails(s)
  PROVE  TypeInv'
  <1>1. agent[s].at = "record" /\ agent[s].answer \in Answer /\ agent[s].todo # {}
    BY AgentFields, Parts DEF Record, RecordFails, TickInHand
  <1>2. UNCHANGED <<active, messages, queue, recent, caller, enabled, figures, late, shown>>
    BY DEF Record, RecordFails, cloud
  <1>3. Rest(s) \in SUBSET Ids
    BY <1>1, CurrentIsOldest, AgentFields, Parts
  <1>4. AgentsOK' /\ Ids' = Ids
    BY <1>2, <1>3, NextType, Parts DEF Record, RecordFails, Ids
  <1>5. TrailOK'
    <2>1. CASE UNCHANGED trail
      BY <2>1, Parts DEF TrailOK
    <2>2. CASE trail' = [trail EXCEPT ![s] =
                 IF \E a \in @ : a.id = agent[s].answer.id THEN @ ELSE @ \cup {agent[s].answer}]
      <3>1. trail \in [Station -> SUBSET Answer]
            /\ \A t \in Station : \A a, b \in trail[t] : a.id = b.id => a = b
        BY Parts DEF TrailOK
      <3>2. \A t \in Station : trail'[t] = trail[t] \/
              (trail'[t] = trail[t] \cup {agent[s].answer}
                /\ \A a \in trail[t] : a.id # agent[s].answer.id)
        BY <2>2, <3>1
      <3>3. trail' \in [Station -> SUBSET Answer]
        BY <1>1, <2>2, <3>1
      <3>4. ASSUME NEW t \in Station, NEW a \in trail'[t], NEW b \in trail'[t], a.id = b.id
            PROVE  a = b
        <4>1. CASE trail'[t] = trail[t]
          BY <3>1, <3>4, <4>1
        <4>2. CASE trail'[t] = trail[t] \cup {agent[s].answer}
                   /\ \A x \in trail[t] : x.id # agent[s].answer.id
          BY <3>1, <3>4, <4>2
        <4> QED
          BY <3>2, <4>1, <4>2
      <3> QED
        BY <3>3, <3>4 DEF TrailOK
    <2> QED
      BY <2>1, <2>2 DEF Record, RecordFails
  <1>6. faults' \in 0..MaxFaults
    BY FaultType, Parts DEF Record, RecordFails, RestOK
  <1> QED
    BY <1>2, <1>4, <1>5, <1>6, TickStep, Parts DEF TableOK, RestOK

LEMMA StopType == ASSUME TypeInv, NEW s \in Station, Stop(s) \/ PollFails(s) PROVE TypeInv'
  <1>1. /\ AgentTo(s, Resting) /\ faults' \in 0..MaxFaults
        /\ UNCHANGED <<active, messages, queue, recent, caller, enabled, figures, trail, late, shown>>
    BY FaultType DEF Stop, PollFails, cloud
  <1>2. AgentsOK' /\ Ids' = Ids /\ TrailOK'
    BY <1>1, TickTo, Parts DEF Ids, TrailOK
  <1> QED
    BY <1>1, <1>2, TickStep, Parts DEF TableOK, RestOK

\* A reply arrives late.
LEMMA ArriveType == ASSUME TypeInv, NEW answer \in late, Arrive(answer) PROVE TypeInv'
  <1>1. /\ UNCHANGED <<active, queue, recent, caller, enabled, figures, agent, trail, faults, shown>>
        /\ late' \subseteq Answer /\ answer \in Answer
    BY Parts DEF Arrive, station, RestOK
  <1>2. messages' \in Seq(Message) /\ Len(messages') = Len(messages) /\ Ids' = Ids
    <2>1. CASE Accepts(answer.station, answer.id) /\ Store(answer.id, answer)
      <3>1. answer.id \in Ids
        BY <2>1, IdsType, Parts DEF Accepts
      <3> QED
        BY <1>1, <2>1, <3>1, StoreType, Parts
    <2>2. CASE UNCHANGED messages
      BY <2>2, Parts DEF TableOK, Ids
    <2> QED
      BY <2>1, <2>2 DEF Arrive
  <1>3. AgentsOK' /\ TrailOK' /\ faults' \in 0..MaxFaults
    BY <1>1, <1>2, Parts DEF AgentsOK, AgentState, TrailOK, RestOK
  <1> QED
    BY <1>1, <1>2, <1>3, TickStep

\* The surroundings.
LEMMA SurroundingsType ==
  ASSUME TypeInv,
         \/ FiguresChange \/ CloudRestart
         \/ \E s \in Station : SetEnabled(s) \/ SetStatus(s)
         \/ \E n \in Number : WindowOver(n)
  PROVE  TypeInv'
  <1>1. UNCHANGED <<messages, agent, trail, late, shown>>
    BY DEF FiguresChange, CloudRestart, SetEnabled, SetStatus, WindowOver, cloud, station
  <1>2. Ids' = Ids /\ CallerState' = CallerState
    BY <1>1 DEF Ids, CallerState
  <1>3. AgentsOK' /\ TrailOK'
    BY <1>1, <1>2, Parts DEF AgentsOK, AgentState, TrailOK
  <1>4. TableOK'
    <2>1. CASE UNCHANGED queue
      BY <1>1, <1>2, <2>1, Parts DEF TableOK
    <2>2. CASE queue' = {}
      BY <1>1, <1>2, <2>2, FS_EmptySet, LimitAssumption, Parts DEF TableOK
    <2> QED
      BY <2>1, <2>2 DEF FiguresChange, CloudRestart, SetEnabled, SetStatus, WindowOver, cloud
  <1>5. CallersOK'
    <2>1. CASE UNCHANGED caller
      BY <1>2, <2>1, Parts DEF CallersOK
    <2>2. CASE caller' = [c \in Caller |-> Idle]
      BY <1>2, <2>2, IdleType DEF CallersOK
    <2> QED
      BY <2>1, <2>2 DEF FiguresChange, CloudRestart, SetEnabled, SetStatus, WindowOver, cloud
  <1>6. RestOK'
    <2>1. RestOK /\ Burst \in Nat
      BY LimitAssumption, Parts
    <2>2. CASE FiguresChange
      BY <2>1, <2>2, LimitAssumption DEF FiguresChange, RestOK, Figures, cloud
    <2>3. CASE CloudRestart
      <3>1. faults' \in 0..MaxFaults
        BY <2>3, FaultType DEF CloudRestart
      <3>2. /\ active' = [s \in Station |-> TRUE] /\ recent' = [n \in Number |-> 0]
            /\ UNCHANGED <<enabled, figures, late>>
        BY <2>3 DEF CloudRestart, station
      <3>3. recent' \in [Number -> 0..Burst] /\ active' \in [Station -> BOOLEAN]
        BY <2>1, <3>2
      <3> QED
        BY <2>1, <3>1, <3>2, <3>3 DEF RestOK, Figures
    <2>4. ASSUME NEW s \in Station, SetEnabled(s) PROVE RestOK'
      BY <2>1, <2>4 DEF SetEnabled, RestOK, cloud
    <2>5. ASSUME NEW s \in Station, SetStatus(s) PROVE RestOK'
      BY <2>1, <2>5 DEF SetStatus, RestOK, station
    <2>6. ASSUME NEW n \in Number, WindowOver(n) PROVE RestOK'
      BY <2>1, <2>6 DEF WindowOver, RestOK, station
    <2> QED
      BY <2>2, <2>3, <2>4, <2>5, <2>6
  <1> QED
    BY <1>3, <1>4, <1>5, <1>6, PartsNext

LEMMA TypeStep == ASSUME TypeInv, [Next]_vars PROVE TypeInv'
  <1>1. CASE UNCHANGED vars
    <2>1. TableOK' /\ CallersOK' /\ AgentsOK' /\ TrailOK' /\ RestOK'
      BY <1>1, Parts DEF vars, cloud, station, TableOK, CallersOK, CallerState, AgentsOK, AgentState,
                         TrailOK, RestOK, Ids
    <2> QED
      BY <2>1, PartsNext
  <1>2. CASE Next
    BY <1>2, WebhookType, SupportAsksType, LookType, EnqueueType, ReadType, PollType, AnswerType,
       ReplyType, RecordType, StopType, ArriveType, SurroundingsType DEF Next, Tick
  <1> QED
    BY <1>1, <1>2

\* Type correctness of the queue, the requests and the ticks: the queue is
\* never longer than QueueCap, and the record has one answer to a question.
THEOREM TypeCorrect == Spec => []TypeOK
  <1>1. Init => TypeInv
    BY TypeInit
  <1>2. TypeInv /\ [Next]_vars => TypeInv'
    BY TypeStep
  <1>3. TypeInv => TypeOK
    BY DEF TypeInv
  <1> QED
    BY <1>1, <1>2, <1>3, PTL DEF Spec

-----------------------------------------------------------------------------
(* Nobody is shown another question's answer.                              *)

\* An answer to the question id, from the station the question is for.
Own(id, a) == a.id = id /\ a.station = messages[id].station

\* The messages, what the open requests have read, what the ticks have worked
\* out, and what was shown.
OwnMessages ==
  \A id \in Ids :
    /\ messages[id].from # Support => messages[id].from \in Owners[messages[id].station]
    /\ messages[id].answer # None => Own(id, messages[id].answer)
OwnRequests ==
  \A c \in Caller :
    caller[c].at \in {"look", "encode"} /\ caller[c].found # None
      => Own(caller[c].id, caller[c].found)
OwnTicks ==
  \A s \in Station :
    agent[s].at \in {"reply", "record"}
      => agent[s].answer.id = Current(s) /\ agent[s].answer.station = s
OwnShown == \A id \in Ids : \A a \in shown[id] \ {Torn} : Own(id, a)

OInv == TypeInv /\ OwnMessages /\ OwnRequests /\ OwnTicks /\ OwnShown

\* What no step does: forget a message, or change what it asks and of whom.
Kept ==
  /\ Ids \subseteq Ids'
  /\ \A id \in Ids : /\ messages'[id].station = messages[id].station
                     /\ messages'[id].from = messages[id].from

\* What is left alone stays right.
LEMMA OwnFrame ==
  ASSUME OInv, Kept
  PROVE  /\ UNCHANGED messages => OwnMessages'
         /\ UNCHANGED caller => OwnRequests'
         /\ UNCHANGED agent => OwnTicks'
         /\ UNCHANGED <<messages, shown>> => OwnShown'
  <1>1. UNCHANGED messages => OwnMessages'
    BY DEF OInv, OwnMessages, Own, Ids
  <1>2. UNCHANGED caller => OwnRequests'
    <2>1. \A c \in Caller : caller[c].at \in {"look", "encode"} => caller[c].id \in Ids
      BY DEF OInv, TypeInv, RequestInHand
    <2> QED
      BY <2>1 DEF OInv, OwnRequests, Own, Kept
  <1>3. UNCHANGED agent => OwnTicks'
    BY DEF OInv, OwnTicks, Current
  <1>4. UNCHANGED <<messages, shown>> => OwnShown'
    BY DEF OInv, OwnShown, Own, Ids
  <1> QED
    BY <1>1, <1>2, <1>3, <1>4

\* One element of a sequence is replaced.
LEMMA SeqExcept ==
  ASSUME NEW S, NEW q \in Seq(S), NEW i \in 1..Len(q), NEW v
  PROVE  \A j \in 1..Len(q) : [q EXCEPT ![i] = v][j] = IF j = i THEN v ELSE q[j]
  OBVIOUS

LEMMA KeptAlone == UNCHANGED messages => Kept
  BY DEF Kept, Ids

\* A request goes on to a state that has nothing, or something of its own.
LEMMA OwnRequestStep ==
  ASSUME OInv, Kept, CallersOK', NEW c \in Caller, NEW state, CallerTo(c, state),
         state.at \in {"look", "encode"} /\ state.found # None
           => state.id \in Ids /\ Own(state.id, state.found)
  PROVE  OwnRequests'
  <1>1. caller' = [caller EXCEPT ![c] = state] /\ caller \in [Caller -> CallerState]
    BY Parts DEF CallerTo, CallersOK, OInv
  <1>2. \A d \in Caller : caller'[d] = IF d = c THEN state ELSE caller[d]
    BY <1>1
  <1>3. \A d \in Caller : caller[d].at \in {"look", "encode"} => caller[d].id \in Ids
    BY DEF OInv, TypeInv, RequestInHand
  <1>4. ASSUME NEW d \in Caller, caller'[d].at \in {"look", "encode"}, caller'[d].found # None
        PROVE  /\ caller'[d].found.id = caller'[d].id
               /\ caller'[d].found.station = messages'[caller'[d].id].station
    <2>1. CASE d = c
      BY <1>2, <1>4, <2>1 DEF Own, Kept
    <2>2. CASE d # c
      BY <1>2, <1>3, <1>4, <2>2 DEF OInv, OwnRequests, Own, Kept
    <2> QED
      BY <2>1, <2>2
  <1> QED
    BY <1>4 DEF OwnRequests, Own

\* A question of a number that is registered to the station, or of the console.
LEMMA OwnPut ==
  ASSUME OInv, NEW s \in Station, NEW from \in Number \cup {Support}, Put(s, from),
         from # Support => from \in Owners[s]
  PROVE  Kept /\ OwnMessages' /\ OwnShown'
  <1> DEFINE new == Len(messages) + 1
  <1>1. /\ Ids' = Ids \cup {new}
        /\ \A id \in Ids : messages'[id] = messages[id] /\ shown'[id] = shown[id]
        /\ messages'[new] = [station |-> s, from |-> from, answer |-> None]
        /\ shown'[new] = {}
    BY PutType, Parts DEF OInv
  <1> HIDE DEF new
  <1>2. Kept
    BY <1>1 DEF Kept
  <1>3. OwnMessages'
    BY <1>1 DEF OInv, OwnMessages, Own
  <1>4. OwnShown'
    BY <1>1 DEF OInv, OwnShown, Own
  <1> QED
    BY <1>2, <1>3, <1>4

\* A reply is stored where it belongs.
LEMMA OwnStore ==
  ASSUME OInv, NEW answer \in Answer, answer.id \in Ids, Store(answer.id, answer),
         messages[answer.id].station = answer.station
  PROVE  Kept /\ OwnMessages' /\ (UNCHANGED shown => OwnShown')
  <1>1. /\ Ids' = Ids
        /\ \A i \in Ids : /\ messages'[i].station = messages[i].station
                          /\ messages'[i].from = messages[i].from
                          /\ messages'[i].answer = IF i = answer.id THEN answer ELSE messages[i].answer
    BY StoreType, Parts DEF OInv
  <1> QED
    BY <1>1 DEF OInv, Kept, OwnMessages, OwnShown, Own

\* Asking: the webhook asks the station of the sender's number.
LEMMA OwnAsking ==
  ASSUME OInv, TypeInv', NEW c \in Caller,
         \/ \E n \in Number : Webhook(c, n)
         \/ Enqueue(c)
         \/ \E s \in Station : SupportAsks(c, s)
  PROVE  OInv'
  <1>1. UNCHANGED agent
    BY DEF Webhook, Enqueue, SupportAsks, station
  <1>2. CASE \E n \in Number : Webhook(c, n)
    <2>1. UNCHANGED <<messages, shown>> /\ Kept
      BY <1>2, KeptAlone DEF Webhook
    <2>2. OwnRequests'
      <3>1. CASE UNCHANGED caller
        BY <2>1, <3>1, OwnFrame
      <3>2. ASSUME NEW n \in Number, NEW s \in Station,
                   CallerTo(c, [Idle EXCEPT !.at = "enqueue", !.from = n, !.station = s])
            PROVE  OwnRequests'
        <4> DEFINE state == [Idle EXCEPT !.at = "enqueue", !.from = n, !.station = s]
        <4>1. state.at = "enqueue"
          BY DEF Idle
        <4>2. CallerTo(c, state)
          BY <3>2
        <4> HIDE DEF state
        <4> QED
          BY <2>1, <4>1, <4>2, OwnRequestStep, PartsNext
      <3> QED
        BY <1>2, <3>1, <3>2 DEF Webhook
    <2> QED
      BY <1>1, <2>1, <2>2, OwnFrame DEF OInv
  <1>3. CASE Enqueue(c)
    <2>1. /\ caller[c].station \in Station /\ caller[c].from \in Number
          /\ caller[c].from \in Owners[caller[c].station]
          /\ Put(caller[c].station, caller[c].from)
      BY <1>3 DEF Enqueue, OInv, TypeInv, RequestInHand
    <2>2. Kept /\ OwnMessages' /\ OwnShown'
      BY <2>1, OwnPut
    <2> DEFINE state == [caller[c] EXCEPT !.at = "wait", !.id = Len(messages) + 1]
    <2>3. CallerTo(c, state) /\ state.at = "wait"
      BY <1>3, CallerFields, Parts DEF Enqueue, OInv, CallerState
    <2> HIDE DEF state
    <2>4. OwnRequests'
      BY <2>2, <2>3, OwnRequestStep, PartsNext
    <2> QED
      BY <1>1, <2>2, <2>4, OwnFrame DEF OInv
  <1>4. ASSUME NEW s \in Station, SupportAsks(c, s) PROVE OInv'
    <2>1. PICK at \in {"wait", "encode"} :
            CallerTo(c, [Idle EXCEPT !.at = at, !.station = s, !.id = Len(messages) + 1])
      BY <1>4 DEF SupportAsks
    <2>2. Kept /\ OwnMessages' /\ OwnShown'
      BY <1>4, OwnPut DEF SupportAsks
    <2> DEFINE state == [Idle EXCEPT !.at = at, !.station = s, !.id = Len(messages) + 1]
    <2>3. CallerTo(c, state) /\ state.found = None
      BY <2>1 DEF Idle
    <2> HIDE DEF state
    <2>4. OwnRequests'
      BY <2>2, <2>3, OwnRequestStep, PartsNext
    <2> QED
      BY <1>1, <2>2, <2>4, OwnFrame DEF OInv
  <1> QED
    BY <1>2, <1>3, <1>4

\* Taking a message: the answer found there belongs to it.
LEMMA OwnLooking ==
  ASSUME OInv, TypeInv', NEW c \in Caller,
         Look(c) \/ Deadline(c) \/ \E id \in Ids : SupportReads(c, id)
  PROVE  OInv'
  <1>1. UNCHANGED <<messages, shown, agent>> /\ Kept
    BY KeptAlone DEF Look, Deadline, SupportReads, station
  <1>2. \A id \in Ids : messages[id].answer # None => Own(id, messages[id].answer)
    BY DEF OInv, OwnMessages
  <1>3. OwnRequests'
    <2>1. caller[c] \in CallerState
      BY CallerFields, Parts DEF OInv
    <2>2. CASE Look(c)
      <3> DEFINE state == [caller[c] EXCEPT !.at = "look", !.found = messages[caller[c].id].answer]
      <3>1. caller[c].id \in Ids
        BY <2>2, IdsType, Parts DEF Look, OInv
      <3>2. CallerTo(c, state) /\ state.id \in Ids /\ state.found = messages[state.id].answer
        BY <2>1, <2>2, <3>1 DEF Look, CallerState
      <3> HIDE DEF state
      <3> QED
        BY <1>1, <1>2, <3>2, OwnRequestStep, PartsNext
    <2>3. CASE Deadline(c) /\ ~CallerTo(c, Idle)
      <3> DEFINE state == [caller[c] EXCEPT !.at = "encode", !.found = messages[caller[c].id].answer]
      <3>1. caller[c].id \in Ids
        BY <2>3, IdsType, Parts DEF Deadline, OInv
      <3>2. CallerTo(c, state) /\ state.id \in Ids /\ state.found = messages[state.id].answer
        BY <2>1, <2>3, <3>1 DEF Deadline, CallerState
      <3> HIDE DEF state
      <3> QED
        BY <1>1, <1>2, <3>2, OwnRequestStep, PartsNext
    <2>4. CASE CallerTo(c, Idle)
      <3>1. Idle.found = None
        BY DEF Idle
      <3> QED
        BY <1>1, <2>4, <3>1, OwnRequestStep, PartsNext
    <2>5. ASSUME NEW id \in Ids, SupportReads(c, id) PROVE OwnRequests'
      <3> DEFINE state == [Idle EXCEPT !.at = "encode", !.station = messages[id].station,
                                       !.id = id, !.found = messages[id].answer]
      <3>1. CallerTo(c, state) /\ state.id = id /\ state.found = messages[id].answer
        BY <2>5 DEF SupportReads, Idle
      <3> HIDE DEF state
      <3> QED
        BY <1>1, <1>2, <3>1, OwnRequestStep, PartsNext
    <2> QED
      BY <2>2, <2>3, <2>4, <2>5
  <1> QED
    BY <1>1, <1>3, OwnFrame DEF OInv

\* Reading it, torn or not: the answer before or the answer now.
LEMMA OwnReading ==
  ASSUME OInv, TypeInv', NEW c \in Caller, Read(c)
  PROVE  OInv'
  <1>1. /\ caller[c].id \in Ids /\ caller[c] \in CallerState
        /\ caller[c].found # None => Own(caller[c].id, caller[c].found)
        /\ UNCHANGED <<messages, agent>> /\ Kept
    BY CallerFields, KeptAlone, Parts DEF Read, OInv, RequestInHand, OwnRequests, station
  <1>2. PICK seen \in Readable(caller[c].id, caller[c].found) :
          IF seen = None
          THEN /\ CallerTo(c, IF caller[c].at = "encode" THEN Idle
                              ELSE [caller[c] EXCEPT !.at = "wait", !.found = None])
               /\ UNCHANGED shown
          ELSE /\ CallerTo(c, Idle)
               /\ shown' = [shown EXCEPT ![caller[c].id] = @ \cup {seen}]
    BY DEF Read
  <1>3. OwnRequests'
    <2> DEFINE again == [caller[c] EXCEPT !.at = "wait", !.found = None]
    <2>1. Idle.found = None /\ again.found = None
      BY <1>1 DEF Idle, CallerState
    <2>2. CallerTo(c, Idle) \/ CallerTo(c, again)
      BY <1>2
    <2> HIDE DEF again
    <2> QED
      BY <1>1, <2>1, <2>2, OwnRequestStep, PartsNext
  <1>4. OwnShown'
    <2>1. CASE UNCHANGED shown
      BY <1>1, <2>1, OwnFrame
    <2>2. CASE seen # None /\ shown' = [shown EXCEPT ![caller[c].id] = @ \cup {seen}]
      <3>1. seen = Torn \/ Own(caller[c].id, seen)
        BY <1>1, <1>2, <2>2 DEF Readable, OInv, OwnMessages
      <3>2. \A id \in Ids : shown'[id] = IF id = caller[c].id THEN shown[id] \cup {seen} ELSE shown[id]
        <4>1. shown \in Seq(SUBSET (Answer \cup {Torn})) /\ Ids = 1..Len(shown)
          BY Parts DEF OInv, TableOK, Ids
        <4> DEFINE i == caller[c].id
                   v == shown[i] \cup {seen}
        <4>2. shown' = [shown EXCEPT ![i] = v] /\ i \in 1..Len(shown)
          BY <1>1, <2>2, <4>1
        <4> HIDE DEF i, v
        <4>3. \A j \in 1..Len(shown) : shown'[j] = IF j = i THEN v ELSE shown[j]
          BY <4>1, <4>2, SeqExcept
        <4> QED
          BY <4>1, <4>3 DEF i, v
      <3>3. messages' = messages /\ Ids' = Ids
        BY <1>1 DEF Ids
      <3>4. ASSUME NEW id \in Ids, NEW a \in shown'[id], a # Torn
            PROVE  a.id = id /\ a.station = messages[id].station
        <4>1. CASE a \in shown[id]
          BY <3>4, <4>1 DEF OInv, OwnShown, Own
        <4>2. CASE a \notin shown[id]
          <5>1. id = caller[c].id /\ a = seen
            BY <3>2, <3>4, <4>2
          <5> QED
            BY <3>1, <3>4, <5>1 DEF Own
        <4> QED
          BY <4>1, <4>2
      <3> QED
        BY <3>3, <3>4 DEF OwnShown, Own
    <2> QED
      BY <1>2, <2>1, <2>2
  <1> QED
    BY <1>1, <1>3, <1>4, OwnFrame DEF OInv

\* A tick: the answer in hand is to its question, and goes to that question.
LEMMA OwnTicking ==
  ASSUME OInv, TypeInv', NEW s \in Station,
         \/ Wake(s) \/ Tick(s)
         \/ PollFails(s) \/ ReplyFails(s) \/ RecordFails(s) \/ Stop(s)
  PROVE  OInv'
  <1>1. UNCHANGED <<caller, shown>>
    BY DEF Wake, Poll, Tick, AnswerQuestion, Reply, Record, PollFails, ReplyFails, RecordFails, Stop,
           cloud
  <1>2. agent \in [Station -> AgentState]
    BY Parts DEF OInv, AgentsOK
  <1>3. CASE Wake(s) \/ Poll(s) \/ PollFails(s) \/ Record(s) \/ RecordFails(s) \/ Stop(s)
    <2>1. UNCHANGED messages /\ Kept
      BY <1>3, KeptAlone DEF Wake, Poll, PollFails, Record, RecordFails, Stop, cloud
    <2>2. OwnTicks'
      <3>1. PICK state : AgentTo(s, state) /\ state.at \in {"idle", "poll", "answer"}
        <4> DEFINE next(todo) == [Resting EXCEPT !.at = "answer", !.todo = todo]
               woken == [Resting EXCEPT !.at = "poll"]
        <4>1. Resting.at = "idle" /\ woken.at = "poll" /\ \A todo : next(todo).at = "answer"
          BY DEF Resting
        <4>2. AgentTo(s, Resting) \/ AgentTo(s, woken) \/ \E todo : AgentTo(s, next(todo))
          BY <1>3 DEF Wake, Poll, PollFails, Record, RecordFails, Stop, NextQuestion
        <4> HIDE DEF next, woken
        <4> QED
          BY <4>1, <4>2
      <3>2. \A t \in Station : agent'[t] = IF t = s THEN state ELSE agent[t]
        BY <1>2, <3>1 DEF AgentTo
      <3> QED
        BY <3>1, <3>2 DEF OInv, OwnTicks, Current
    <2> QED
      BY <1>1, <2>1, <2>2, OwnFrame DEF OInv
  <1>4. CASE AnswerQuestion(s)
    <2>1. UNCHANGED messages /\ Kept
      BY <1>4, KeptAlone DEF AnswerQuestion, cloud
    <2>2. OwnTicks'
      <3>1. /\ \A t \in Station : t # s => agent'[t] = agent[t]
            /\ agent'[s].todo = agent[s].todo
            /\ agent'[s].answer = [station |-> s, id |-> Current(s), figures |-> figures]
        BY <1>4, AnswerType DEF OInv
      <3> QED
        BY <3>1 DEF OInv, OwnTicks, Current
    <2> QED
      BY <1>1, <2>1, <2>2, OwnFrame DEF OInv
  <1>5. CASE Reply(s) \/ ReplyFails(s)
    <2>1. /\ agent[s].at = "reply" /\ agent[s].answer \in Answer
          /\ agent[s].answer.id = Current(s) /\ agent[s].answer.station = s
      BY <1>5, AgentFields, Parts DEF Reply, ReplyFails, OInv, OwnTicks, TickInHand
    <2>2. Kept /\ OwnMessages' /\ OwnShown'
      <3>1. CASE UNCHANGED messages
        BY <1>1, <3>1, KeptAlone, OwnFrame
      <3>2. CASE Accepts(s, Current(s)) /\ Store(Current(s), agent[s].answer)
        <4>1. Current(s) \in Ids /\ messages[Current(s)].station = s
          BY <3>2, IdsType, Parts DEF Accepts, OInv
        <4> QED
          BY <1>1, <2>1, <3>2, <4>1, OwnStore
      <3> QED
        BY <1>5, <3>1, <3>2 DEF Reply, ReplyFails
    <2>3. OwnTicks'
      <3> DEFINE stored == [agent[s] EXCEPT !.at = "record"]
      <3>1. AgentTo(s, Resting) \/ AgentTo(s, stored)
        BY <1>5 DEF Reply, ReplyFails
      <3>2. /\ Resting.at = "idle"
            /\ stored.todo = agent[s].todo /\ stored.answer = agent[s].answer
        BY <1>2 DEF Resting, AgentState
      <3>3. \/ \A t \in Station : agent'[t] = IF t = s THEN Resting ELSE agent[t]
            \/ \A t \in Station : agent'[t] = IF t = s THEN stored ELSE agent[t]
        BY <1>2, <3>1 DEF AgentTo
      <3> HIDE DEF stored
      <3> QED
        BY <2>1, <3>2, <3>3 DEF OInv, OwnTicks, Current
    <2> QED
      BY <1>1, <2>2, <2>3, OwnFrame DEF OInv
  <1> QED
    BY <1>3, <1>4, <1>5 DEF Tick

\* A reply that comes late is stored only with its own question.
LEMMA OwnArriving ==
  ASSUME OInv, TypeInv', NEW answer \in late, Arrive(answer)
  PROVE  OInv'
  <1>1. UNCHANGED <<caller, agent, shown>> /\ answer \in Answer
    BY Parts DEF Arrive, station, OInv, RestOK
  <1>2. Kept /\ OwnMessages' /\ OwnShown'
    <2>1. CASE UNCHANGED messages
      BY <1>1, <2>1, KeptAlone, OwnFrame
    <2>2. CASE Accepts(answer.station, answer.id) /\ Store(answer.id, answer)
      <3>1. answer.id \in Ids /\ messages[answer.id].station = answer.station
        BY <2>2, IdsType, Parts DEF Accepts, OInv
      <3> QED
        BY <1>1, <2>2, <3>1, OwnStore
    <2> QED
      BY <2>1, <2>2 DEF Arrive
  <1> QED
    BY <1>1, <1>2, OwnFrame DEF OInv

\* The surroundings change nothing of this; a restart of the control plane
\* ends every open request.
LEMMA OwnSurroundings ==
  ASSUME OInv, TypeInv',
         \/ FiguresChange \/ CloudRestart
         \/ \E s \in Station : SetEnabled(s) \/ SetStatus(s)
         \/ \E n \in Number : WindowOver(n)
  PROVE  OInv'
  <1>1. UNCHANGED <<messages, agent, shown>> /\ Kept
    BY KeptAlone DEF FiguresChange, CloudRestart, SetEnabled, SetStatus, WindowOver, cloud, station
  <1>2. OwnRequests'
    <2>1. CASE UNCHANGED caller
      BY <1>1, <2>1, OwnFrame
    <2>2. CASE caller' = [c \in Caller |-> Idle]
      <3>1. Idle.at = "idle"
        BY DEF Idle
      <3> QED
        BY <2>2, <3>1 DEF OwnRequests
    <2> QED
      BY <2>1, <2>2 DEF FiguresChange, CloudRestart, SetEnabled, SetStatus, WindowOver, cloud
  <1> QED
    BY <1>1, <1>2, OwnFrame DEF OInv

LEMMA OwnStep == ASSUME OInv, [Next]_vars PROVE OInv'
  <1>1. TypeInv'
    BY TypeStep DEF OInv
  <1>2. CASE UNCHANGED vars
    <2>1. UNCHANGED <<messages, caller, agent, shown>> /\ Kept
      BY <1>2, KeptAlone DEF vars, cloud, station
    <2> QED
      BY <1>1, <2>1, OwnFrame DEF OInv
  <1>3. CASE Next
    BY <1>1, <1>3, OwnAsking, OwnLooking, OwnReading, OwnTicking, OwnArriving, OwnSurroundings DEF Next
  <1> QED
    BY <1>2, <1>3

\* Whoever is shown an answer is shown the answer of the station the question
\* was for, to that very question, whatever is lost, late or torn; and a
\* telephone reaches only a station its number is registered to.
THEOREM AnswersAreOwn == Spec => []OwnAnswer
  <1>1. Init => OInv
    <2> SUFFICES ASSUME Init PROVE OInv
      OBVIOUS
    <2>1. TypeInv /\ Ids = {}
      BY TypeInit DEF Init, Ids
    <2> QED
      BY <2>1 DEF Init, OInv, OwnMessages, OwnRequests, OwnTicks, OwnShown, Idle, Resting
  <1>2. OInv /\ [Next]_vars => OInv'
    BY OwnStep
  <1>3. OInv => OwnAnswer
    BY DEF OInv, OwnMessages, OwnShown, Own, OwnAnswer
  <1> QED
    BY <1>1, <1>2, <1>3, PTL DEF Spec

-----------------------------------------------------------------------------
(* The questions to a station are answered in the order they came.         *)

\* The questions to the station that came before id and wait for an answer.
Ahead(s, id) ==
  {k \in queue : k < id /\ messages[k].station = s /\ messages[k].answer = None}

\* A tick's list leaves out no question to its station that is older than one
\* on it, and the question a tick records has its answer; an answer that is
\* still on its way finds nothing in front of its question.
OrderedTicks ==
  \A s \in Station :
    /\ \A id \in agent[s].todo : messages[id].station = s /\ Ahead(s, id) \subseteq agent[s].todo
    /\ agent[s].at = "record" => messages[Current(s)].answer # None
OrderedLate ==
  \A a \in late : a.id \in Ids /\ Ahead(messages[a.id].station, a.id) = {}

OldInv == OInv /\ OldestFirst /\ OrderedTicks /\ OrderedLate

\* What no step does: take an answer back, or put a question in front.
Grows ==
  /\ Kept
  /\ \A id \in Ids : messages[id].answer # None => messages'[id].answer # None
  /\ \A k \in queue' : k \in queue \/ k = Len(messages) + 1

LEMMA GrowsAlone == UNCHANGED messages /\ queue' \subseteq queue => Grows
  BY KeptAlone DEF Grows

LEMMA AheadShrinks ==
  ASSUME TypeInv, Grows, NEW s \in Station, NEW id \in Ids
  PROVE  Ahead(s, id)' \subseteq Ahead(s, id)
  <1>1. Len(messages) \in Nat /\ Ids = 1..Len(messages) /\ queue \subseteq Ids
    BY IdsType, Parts DEF Ids
  <1>2. ASSUME NEW k \in queue', k < id, messages'[k].station = s, messages'[k].answer = None
        PROVE  k \in Ahead(s, id)
    <2>1. k \in queue
      BY <1>1, <1>2 DEF Grows
    <2>2. k \in Ids
      BY <1>1, <2>1
    <2> QED
      BY <1>2, <2>1, <2>2 DEF Grows, Kept, Ahead
  <1> QED
    BY <1>2 DEF Ahead

\* What is left alone stays in order.
LEMMA OldFrame ==
  ASSUME OldInv, Grows
  PROVE  /\ UNCHANGED agent => OrderedTicks'
         /\ late' \subseteq late => OrderedLate'
         /\ UNCHANGED messages /\ queue' \subseteq queue => OldestFirst'
  <1>1. TypeInv /\ \A s \in Station : agent[s].todo \subseteq Ids
    BY AgentFields, Parts DEF OldInv, OInv
  <1>2. \A id \in Ids : messages[id].station \in Station
    BY IdsType, Parts DEF OldInv, OInv
  <1>3. ASSUME UNCHANGED agent PROVE OrderedTicks'
    <2>1. ASSUME NEW s \in Station, NEW id \in agent[s].todo
          PROVE  messages'[id].station = s /\ Ahead(s, id)' \subseteq agent[s].todo
      <3>1. messages[id].station = s /\ Ahead(s, id) \subseteq agent[s].todo /\ id \in Ids
        BY <1>1 DEF OldInv, OrderedTicks
      <3>2. Ahead(s, id)' \subseteq Ahead(s, id)
        BY <1>1, <3>1, AheadShrinks
      <3> QED
        BY <3>1, <3>2 DEF Grows, Kept
    <2>2. ASSUME NEW s \in Station, agent[s].at = "record"
          PROVE  messages'[Current(s)].answer # None
      <3>1. Current(s) \in Ids
        BY <2>2, AgentFields, CurrentIsOldest, Parts DEF OldInv, OInv, TickInHand
      <3> QED
        BY <2>2, <3>1 DEF OldInv, OrderedTicks, Grows
    <2> QED
      BY <1>3, <2>1, <2>2 DEF OrderedTicks, Current
  <1>4. ASSUME late' \subseteq late PROVE OrderedLate'
    <2>1. ASSUME NEW a \in late
          PROVE  a.id \in Ids' /\ Ahead(messages[a.id].station, a.id)' = {}
      <3>1. a.id \in Ids /\ Ahead(messages[a.id].station, a.id) = {}
        BY DEF OldInv, OrderedLate
      <3>2. PICK s \in Station : s = messages[a.id].station
        BY <1>2, <3>1
      <3>3. messages'[a.id].station = s /\ a.id \in Ids'
        BY <3>1, <3>2 DEF Grows, Kept
      <3>4. Ahead(s, a.id)' \subseteq Ahead(s, a.id)
        BY <1>1, <3>1, AheadShrinks
      <3> QED
        BY <3>1, <3>2, <3>3, <3>4 DEF Ahead
    <2> QED
      BY <1>4, <2>1 DEF OrderedLate
  <1>5. UNCHANGED messages /\ queue' \subseteq queue => OldestFirst'
    BY DEF OldInv, OldestFirst
  <1> QED
    BY <1>3, <1>4, <1>5

\* A new question comes last.
LEMMA OldPut ==
  ASSUME OldInv, NEW s \in Station, NEW from \in Number \cup {Support}, Put(s, from)
  PROVE  Grows /\ OldestFirst'
  <1> DEFINE new == Len(messages) + 1
  <1>1. /\ Ids' = Ids \cup {new}
        /\ \A id \in Ids : messages'[id] = messages[id]
        /\ messages'[new] = [station |-> s, from |-> from, answer |-> None]
        /\ queue' \subseteq queue \cup {new}
    BY PutType, Parts DEF OldInv, OInv
  <1>2. queue \subseteq Ids /\ Ids = 1..Len(messages) /\ Len(messages) \in Nat
    BY IdsType, Parts DEF OldInv, OInv, Ids
  <1>3. Grows
    BY <1>1, <1>2 DEF Grows, Kept
  <1>4. ASSUME NEW i \in queue', NEW j \in queue', i < j,
               messages'[i].station = messages'[j].station, messages'[j].answer # None
        PROVE  messages'[i].answer # None
    <2>1. j \in queue
      BY <1>1, <1>4
    <2>2. i \in queue
      BY <1>1, <1>2, <1>4, <2>1
    <2> QED
      BY <1>1, <1>2, <1>4, <2>1, <2>2 DEF OldInv, OldestFirst
  <1> QED
    BY <1>3, <1>4 DEF OldestFirst

\* An answer is stored when nothing in front of its question waits.
LEMMA OldStore ==
  ASSUME OldInv, NEW id \in queue, NEW answer \in Answer, Store(id, answer),
         Ahead(messages[id].station, id) = {}, UNCHANGED queue
  PROVE  Grows /\ OldestFirst' /\ messages'[id].answer # None
  <1>1. id \in Ids /\ queue \subseteq Ids
    BY IdsType, Parts DEF OldInv, OInv
  <1>2. /\ Ids' = Ids
        /\ \A i \in Ids : /\ messages'[i].station = messages[i].station
                          /\ messages'[i].from = messages[i].from
                          /\ messages'[i].answer = IF i = id THEN answer ELSE messages[i].answer
    BY <1>1, StoreType, Parts DEF OldInv, OInv
  <1>3. answer # None
    BY NoneIsNoAnswer
  <1>4. Grows /\ messages'[id].answer # None
    BY <1>1, <1>2, <1>3 DEF Grows, Kept
  <1>5. ASSUME NEW i \in queue, NEW j \in queue, i < j,
               messages'[i].station = messages'[j].station, messages'[j].answer # None
        PROVE  messages'[i].answer # None
    <2>1. messages[i].answer # None
      <3>1. CASE j = id
        BY <1>1, <1>2, <1>5, <3>1 DEF Ahead
      <3>2. CASE j # id
        BY <1>1, <1>2, <1>5, <3>2 DEF OldInv, OldestFirst
      <3> QED
        BY <3>1, <3>2
    <2> QED
      BY <1>1, <1>2, <1>3, <2>1
  <1> QED
    BY <1>4, <1>5 DEF OldestFirst

\* Nothing waits in front of the question a tick is at.
LEMMA CurrentIsNext ==
  ASSUME OldInv, NEW s \in Station, agent[s].todo # {}
  PROVE  /\ Current(s) \in Ids /\ messages[Current(s)].station = s
         /\ Ahead(s, Current(s)) = {}
  <1>1. /\ Current(s) \in agent[s].todo /\ Current(s) \in Ids
        /\ \A id \in agent[s].todo : Current(s) <= id
    BY CurrentIsOldest, Parts DEF OldInv, OInv
  <1>2. messages[Current(s)].station = s /\ Ahead(s, Current(s)) \subseteq agent[s].todo
    BY <1>1 DEF OldInv, OrderedTicks
  <1>3. Ids \subseteq Nat /\ queue \subseteq Ids
    BY IdsType, Parts DEF OldInv, OInv
  <1>4. ASSUME NEW k \in Ahead(s, Current(s)) PROVE FALSE
    <2>1. k < Current(s) /\ k \in Nat /\ Current(s) \in Nat
      BY <1>1, <1>3 DEF Ahead
    <2>2. Current(s) <= k
      BY <1>1, <1>2
    <2> QED
      BY <2>1, <2>2
  <1> QED
    BY <1>1, <1>2, <1>4

\* The first of a list have in front of them only what is on the list.
LEMMA OldestIsPrefix ==
  ASSUME NEW ids \in SUBSET Nat, IsFiniteSet(ids), NEW n \in Nat,
         NEW id \in Oldest(ids, n), NEW k \in ids, k < id
  PROVE  k \in Oldest(ids, n)
  <1> DEFINE upto(x) == {j \in ids : j <= x}
  <1>1. upto(k) \subseteq upto(id) /\ upto(id) \subseteq ids
    <2>1. id \in Nat /\ k \in Nat /\ \A j \in ids : j \in Nat
      BY DEF Oldest
    <2>2. \A j \in ids : j <= k => j <= id
      BY <2>1
    <2> QED
      BY <2>2
  <1>2. IsFiniteSet(upto(id))
    BY <1>1, FS_Subset
  <1>3. Cardinality(upto(k)) <= Cardinality(upto(id)) /\ IsFiniteSet(upto(k))
    BY <1>1, <1>2, FS_Subset
  <1>4. Cardinality(upto(k)) \in Nat /\ Cardinality(upto(id)) \in Nat
    BY <1>2, <1>3, FS_CardinalityType
  <1>5. Cardinality(upto(id)) <= n
    BY DEF Oldest
  <1>6. Cardinality(upto(k)) <= n
    BY <1>3, <1>4, <1>5
  <1> QED
    BY <1>6 DEF Oldest

\* The list a tick takes.
LEMMA OrderedPending ==
  ASSUME OldInv, NEW s \in Station, NEW id \in Pending(s)
  PROVE  messages[id].station = s /\ Ahead(s, id) \subseteq Pending(s)
  <1> DEFINE open == {k \in queue : messages[k].station = s /\ messages[k].answer = None}
  <1>1. open \in SUBSET Nat /\ IsFiniteSet(open) /\ MaxPerPoll \in Nat
    BY IdsType, FS_Subset, LimitAssumption, Parts DEF OldInv, OInv
  <1>2. Pending(s) = Oldest(open, MaxPerPoll)
    BY DEF Pending
  <1>3. id \in open
    BY DEF Pending, Oldest
  <1>4. ASSUME NEW k \in Ahead(s, id) PROVE k \in Pending(s)
    <2>1. k \in open /\ k < id
      BY DEF Ahead
    <2> HIDE DEF open
    <2> QED
      BY <1>1, <1>2, <2>1, OldestIsPrefix
  <1> QED
    BY <1>3, <1>4

\* A tick goes on with the rest of its list, or rests.
LEMMA OldNext ==
  ASSUME OldInv, Grows, NEW s \in Station, NEW todo \in SUBSET Ids,
         \A id \in todo : messages[id].station = s /\ Ahead(s, id)' \subseteq todo,
         agent'[s].todo = todo, agent'[s].at \in {"idle", "poll", "answer", "reply"},
         \A t \in Station : t # s => agent'[t] = agent[t]
  PROVE  OrderedTicks'
  <1>1. ASSUME NEW t \in Station, t # s
        PROVE  /\ \A id \in agent[t].todo :
                    messages'[id].station = t /\ Ahead(t, id)' \subseteq agent[t].todo
               /\ agent[t].at = "record" => messages'[Min(agent[t].todo)].answer # None
    <2>1. TypeInv /\ agent[t].todo \subseteq Ids
      BY AgentFields, Parts DEF OldInv, OInv
    <2>2. \A id \in agent[t].todo : Ahead(t, id)' \subseteq Ahead(t, id)
      BY <2>1, AheadShrinks
    <2>3. agent[t].at = "record" => Min(agent[t].todo) \in Ids
      BY AgentFields, CurrentIsOldest, Parts DEF OldInv, OInv, TickInHand, Current
    <2> QED
      BY <2>1, <2>2, <2>3 DEF OldInv, OrderedTicks, Grows, Kept, Current
  <1>2. \A id \in todo : messages'[id].station = s
    BY DEF Grows, Kept
  <1> QED
    BY <1>1, <1>2 DEF OrderedTicks, Current

\* One step per action of a tick.
LEMMA OldPoll == ASSUME OldInv, OInv', NEW s \in Station, Wake(s) \/ Poll(s) PROVE OldInv'
  <1>1. UNCHANGED <<messages, queue, late>> /\ Grows
    BY GrowsAlone DEF Wake, Poll, cloud
  <1> DEFINE todo == agent'[s].todo
  <1>2. todo \in SUBSET Ids /\ todo \in {{}, Pending(s)}
    BY Begins DEF OldInv, OInv
  <1>3. /\ agent'[s].at \in {"idle", "poll", "answer"}
        /\ \A t \in Station : t # s => agent'[t] = agent[t]
    BY Begins DEF OldInv, OInv
  <1>4. \A id \in todo : messages[id].station = s /\ Ahead(s, id)' \subseteq todo
    BY <1>1, <1>2, OrderedPending DEF Ahead
  <1>5. OrderedTicks'
    <2> HIDE DEF todo
    <2>1. agent'[s].todo = todo
      BY DEF todo
    <2> QED
      BY <1>1, <1>2, <1>3, <1>4, <2>1, OldNext
  <1> QED
    BY <1>1, <1>5, OldFrame DEF OldInv

LEMMA OldAnswer == ASSUME OldInv, OInv', NEW s \in Station, AnswerQuestion(s) PROVE OldInv'
  <1>1. UNCHANGED <<messages, queue, late>> /\ Grows
    BY GrowsAlone DEF AnswerQuestion, cloud
  <1>2. /\ agent'[s].todo = agent[s].todo /\ agent'[s].at = "reply"
        /\ \A t \in Station : t # s => agent'[t] = agent[t]
        /\ agent[s].todo \in SUBSET Ids
    BY AnswerType, AgentFields, Parts DEF OldInv, OInv
  <1>3. \A id \in agent[s].todo : messages[id].station = s /\ Ahead(s, id)' \subseteq agent[s].todo
    BY <1>1 DEF Ahead, OldInv, OrderedTicks
  <1>4. OrderedTicks'
    BY <1>1, <1>2, <1>3, OldNext
  <1> QED
    BY <1>1, <1>4, OldFrame DEF OldInv

\* The tick rests, and leaves nothing behind.
LEMMA OldRests ==
  ASSUME OldInv, Grows, NEW s \in Station, AgentTo(s, Resting)
  PROVE  OrderedTicks'
  <1>1. \A t \in Station : agent'[t] = IF t = s THEN Resting ELSE agent[t]
    BY Parts DEF AgentTo, AgentsOK, OldInv, OInv
  <1>2. Resting.todo = {} /\ Resting.at = "idle"
    BY DEF Resting
  <1> QED
    BY <1>1, <1>2, OldNext

LEMMA OldReply ==
  ASSUME OldInv, OInv', NEW s \in Station, Reply(s) \/ ReplyFails(s)
  PROVE  OldInv'
  <1> DEFINE id == Current(s)
  <1>1. /\ agent[s].at = "reply" /\ agent[s].answer \in Answer /\ agent[s].todo # {}
        /\ agent[s].answer.id = id /\ agent[s].answer.station = s
        /\ UNCHANGED queue
    BY AgentFields, Parts DEF Reply, ReplyFails, OldInv, OInv, OwnTicks, TickInHand
  <1>2. id \in Ids /\ messages[id].station = s /\ Ahead(s, id) = {}
    BY <1>1, CurrentIsNext
  <1> HIDE DEF id
  <1>3. \/ UNCHANGED messages /\ AgentTo(s, Resting)
        \/ id \in queue /\ Store(id, agent[s].answer)
    BY DEF Reply, ReplyFails, Accepts, id
  <1>4. /\ Grows /\ OldestFirst'
        /\ Store(id, agent[s].answer) /\ id \in queue => messages'[id].answer # None
    <2>1. CASE UNCHANGED messages /\ ~(id \in queue /\ Store(id, agent[s].answer))
      BY <1>1, <2>1, GrowsAlone, OldFrame
    <2>2. CASE id \in queue /\ Store(id, agent[s].answer)
      BY <1>1, <1>2, <2>2, OldStore
    <2> QED
      BY <1>3, <2>1, <2>2
  <1>5. OrderedLate'
    <2>1. CASE late' \subseteq late
      BY <1>4, <2>1, OldFrame
    <2>2. CASE late' = late \cup {agent[s].answer} /\ UNCHANGED messages
      BY <1>1, <1>2, <2>2 DEF OldInv, OrderedLate, Ahead, Ids
    <2> QED
      BY <2>1, <2>2 DEF Reply, ReplyFails
  <1>6. OrderedTicks'
    <2>1. CASE AgentTo(s, Resting)
      BY <1>4, <2>1, OldRests
    <2>2. CASE AgentTo(s, [agent[s] EXCEPT !.at = "record"]) /\ id \in queue /\ Store(id, agent[s].answer)
      <3> DEFINE state == [agent[s] EXCEPT !.at = "record"]
      <3>1. agent \in [Station -> AgentState]
        BY Parts DEF AgentsOK, OldInv, OInv
      <3>2. state.at = "record" /\ state.todo = agent[s].todo
        BY <3>1 DEF AgentState
      <3>3. \A t \in Station : agent'[t] = IF t = s THEN state ELSE agent[t]
        BY <2>2, <3>1 DEF AgentTo
      <3> HIDE DEF state
      <3>4. TypeInv /\ \A t \in Station : agent[t].todo \subseteq Ids
        BY AgentFields, Parts DEF OldInv, OInv
      <3>5. \A t \in Station : \A k \in agent[t].todo :
              messages'[k].station = t /\ Ahead(t, k)' \subseteq agent[t].todo
        <4>1. \A t \in Station : \A k \in agent[t].todo : Ahead(t, k)' \subseteq Ahead(t, k)
          BY <1>4, <3>4, AheadShrinks
        <4> QED
          BY <1>4, <3>4, <4>1 DEF OldInv, OrderedTicks, Grows, Kept
      <3>6. \A t \in Station : agent[t].at = "record" => Current(t) \in Ids
        BY AgentFields, CurrentIsOldest, Parts DEF OldInv, OInv, TickInHand
      <3>7. \A t \in Station : agent[t].at = "record" => messages'[Current(t)].answer # None
        BY <1>4, <3>6 DEF OldInv, OrderedTicks, Grows
      <3>8. messages'[Current(s)].answer # None
        BY <1>4, <2>2 DEF id
      <3> QED
        BY <3>2, <3>3, <3>5, <3>7, <3>8 DEF OrderedTicks, Current
    <2> QED
      BY <2>1, <2>2 DEF Reply, ReplyFails, Accepts, id
  <1> QED
    BY <1>4, <1>5, <1>6 DEF OldInv

\* The question that was recorded has its answer, so the next one is the
\* oldest that waits.
LEMMA OldRecord ==
  ASSUME OldInv, OInv', NEW s \in Station, Record(s) \/ RecordFails(s)
  PROVE  OldInv'
  <1>1. UNCHANGED <<messages, queue, late>> /\ Grows
    BY GrowsAlone DEF Record, RecordFails, cloud
  <1>2. agent[s].at = "record" /\ agent[s].todo # {}
    BY AgentFields, Parts DEF Record, RecordFails, TickInHand, OldInv, OInv
  <1>3. /\ Current(s) \in agent[s].todo /\ messages[Current(s)].answer # None
        /\ Rest(s) = agent[s].todo \ {Current(s)} /\ Rest(s) \in SUBSET Ids
    BY <1>2, CurrentIsOldest, AgentFields, Parts DEF OldInv, OInv, OrderedTicks, Rest
  <1>4. /\ agent'[s].todo = Rest(s) /\ agent'[s].at \in {"idle", "answer"}
        /\ \A t \in Station : t # s => agent'[t] = agent[t]
    BY <1>1, <1>3, NextType, Parts DEF Record, RecordFails, OldInv, OInv
  <1>5. ASSUME NEW id \in Rest(s)
        PROVE  messages[id].station = s /\ Ahead(s, id)' \subseteq Rest(s)
    <2>1. messages[id].station = s /\ Ahead(s, id) \subseteq agent[s].todo
      BY <1>3, <1>5 DEF OldInv, OrderedTicks
    <2>2. Current(s) \notin Ahead(s, id)
      BY <1>3 DEF Ahead
    <2>3. Ahead(s, id)' = Ahead(s, id)
      BY <1>1 DEF Ahead
    <2> QED
      BY <1>3, <2>1, <2>2, <2>3
  <1>6. OrderedTicks'
    BY <1>1, <1>3, <1>4, <1>5, OldNext
  <1> QED
    BY <1>1, <1>6, OldFrame DEF OldInv

LEMMA OldStop ==
  ASSUME OldInv, OInv', NEW s \in Station, Stop(s) \/ PollFails(s)
  PROVE  OldInv'
  <1>1. UNCHANGED <<messages, queue, late>> /\ Grows /\ AgentTo(s, Resting)
    BY GrowsAlone DEF Stop, PollFails, cloud
  <1> QED
    BY <1>1, OldRests, OldFrame DEF OldInv

LEMMA OldArrive == ASSUME OldInv, OInv', NEW answer \in late, Arrive(answer) PROVE OldInv'
  <1>1. /\ UNCHANGED <<queue, agent>> /\ late' \subseteq late /\ answer \in Answer
        /\ answer.id \in Ids /\ Ahead(messages[answer.id].station, answer.id) = {}
    BY Parts DEF Arrive, station, RestOK, OldInv, OInv, OrderedLate
  <1>2. Grows /\ OldestFirst'
    <2>1. CASE UNCHANGED messages
      BY <1>1, <2>1, GrowsAlone, OldFrame
    <2>2. CASE answer.id \in queue /\ Store(answer.id, answer)
      BY <1>1, <2>2, OldStore
    <2> QED
      BY <2>1, <2>2 DEF Arrive, Accepts
  <1> QED
    BY <1>1, <1>2, OldFrame DEF OldInv

\* A question is queued.
LEMMA OldAsking ==
  ASSUME OldInv, OInv', NEW c \in Caller, Enqueue(c) \/ \E s \in Station : SupportAsks(c, s)
  PROVE  OldInv'
  <1>1. PICK s \in Station, from \in Number \cup {Support} : Put(s, from)
    <2>1. CASE Enqueue(c)
      <3>1. caller[c].station \in Station /\ caller[c].from \in Number
        BY <2>1 DEF Enqueue, OldInv, OInv, TypeInv, RequestInHand
      <3> QED
        BY <2>1, <3>1 DEF Enqueue
    <2>2. CASE \E s \in Station : SupportAsks(c, s)
      BY <2>2 DEF SupportAsks
    <2> QED
      BY <2>1, <2>2
  <1>2. UNCHANGED <<agent, late>>
    BY DEF Enqueue, SupportAsks, station
  <1>3. Grows /\ OldestFirst'
    BY <1>1, OldPut
  <1> QED
    BY <1>2, <1>3, OldFrame DEF OldInv

\* The steps that change no message and no tick; a restart of the control
\* plane forgets the queue.
LEMMA OldAlone ==
  ASSUME OldInv, OInv', UNCHANGED <<messages, agent, late>>, queue' \subseteq queue
  PROVE  OldInv'
  BY GrowsAlone, OldFrame DEF OldInv

LEMMA OldStep == ASSUME OldInv, [Next]_vars PROVE OldInv'
  <1>1. OInv'
    BY OwnStep DEF OldInv
  <1>2. CASE UNCHANGED vars
    BY <1>1, <1>2, OldAlone DEF vars, cloud, station
  <1>3. ASSUME NEW c \in Caller,
               \/ \E n \in Number : Webhook(c, n)
               \/ \E id \in Ids : SupportReads(c, id)
               \/ Look(c) \/ Read(c) \/ Deadline(c)
        PROVE  OldInv'
    <2>1. UNCHANGED <<messages, agent, late, queue>>
      BY <1>3 DEF Webhook, SupportReads, Look, Read, Deadline, station
    <2> QED
      BY <1>1, <2>1, OldAlone
  <1>4. ASSUME \/ FiguresChange \/ CloudRestart
               \/ \E s \in Station : SetEnabled(s) \/ SetStatus(s)
               \/ \E n \in Number : WindowOver(n)
        PROVE  OldInv'
    <2>1. UNCHANGED <<messages, agent, late>> /\ queue' \subseteq queue
      BY <1>4 DEF FiguresChange, CloudRestart, SetEnabled, SetStatus, WindowOver, cloud, station
    <2> QED
      BY <1>1, <2>1, OldAlone
  <1>5. CASE Next
    BY <1>1, <1>3, <1>4, <1>5, OldAsking, OldPoll, OldAnswer, OldReply, OldRecord, OldStop, OldArrive
    DEF Next, Tick
  <1> QED
    BY <1>2, <1>5

\* The questions to a station are answered in the order they came, although
\* the queue drops its oldest, replies fail and arrive late, and the service
\* stops in the middle of its list.
THEOREM AnswersInOrder == Spec => []OldestFirst
  <1>1. Init => OldInv
    <2> SUFFICES ASSUME Init PROVE OldInv
      OBVIOUS
    <2>1. TypeInv /\ Ids = {}
      BY TypeInit DEF Init, Ids
    <2>2. OInv
      BY <2>1 DEF Init, OInv, OwnMessages, OwnRequests, OwnTicks, OwnShown, Idle, Resting
    <2> QED
      BY <2>2 DEF Init, OldInv, OldestFirst, OrderedTicks, OrderedLate, Resting
  <1>2. OldInv /\ [Next]_vars => OldInv'
    BY OldStep
  <1>3. OldInv => OldestFirst
    BY DEF OldInv
  <1> QED
    BY <1>1, <1>2, <1>3, PTL DEF Spec

-----------------------------------------------------------------------------
(* What the station's record misses, faults explain.                       *)

\* An answer that left the station: it is stored, on its way, in the hands of
\* an open request, or was shown.
Given(a) ==
  \/ a \in late
  \/ \E id \in Ids : messages[id].answer = a \/ a \in shown[id]
  \/ \E c \in Caller : caller[c].found = a

\* It is in the record of its station, or about to be.
Logged(a) ==
  \/ a \in trail[a.station]
  \/ agent[a.station].at = "record" /\ agent[a.station].answer = a

\* A question in the record has its answer, so no tick takes it up again.
Recorded ==
  \A s \in Station : \A a \in trail[s] :
    /\ a.id \in Ids /\ messages[a.id].answer # None
    /\ a.id \notin agent[s].todo

\* There are answers, no more than there were faults, and every other answer
\* that left a station is logged.
GapsAre(G) ==
  /\ IsFiniteSet(G) /\ Cardinality(G) <= faults
  /\ \A a \in Answer : Given(a) => Logged(a) \/ a \in G
Covered == \E G : GapsAre(G)

LogInv == OldInv /\ Recorded /\ Covered

\* A fault, or none; and x may be left out of the record only if there is one.
MayMiss(a, x) == a = x /\ faults' = faults + 1

LEMMA CoveredStep ==
  ASSUME LogInv, NEW x, faults' = faults \/ faults' = faults + 1,
         \A a \in Answer : Given(a)' => Given(a) \/ Logged(a)' \/ MayMiss(a, x),
         \A a \in Answer : Logged(a) => Logged(a)' \/ MayMiss(a, x)
  PROVE  Covered'
  <1>1. PICK G : GapsAre(G)
    BY DEF LogInv, Covered
  <1>2. faults \in Nat /\ Cardinality(G) \in Nat
    BY <1>1, Parts, FS_CardinalityType, LimitAssumption
    DEF GapsAre, LogInv, OldInv, OInv, RestOK
  <1>3. CASE faults' = faults
    <2>1. \A a : ~MayMiss(a, x)
      BY <1>2, <1>3 DEF MayMiss
    <2>2. \A a \in Answer : Given(a)' => Logged(a)' \/ a \in G
      BY <1>1, <2>1 DEF GapsAre
    <2> QED
      BY <1>1, <1>3, <2>2 DEF GapsAre, Covered
  <1>4. CASE faults' = faults + 1
    <2> DEFINE more == G \cup {x}
    <2>1. IsFiniteSet(more) /\ Cardinality(more) <= faults + 1
      <3>1. /\ IsFiniteSet(more)
            /\ Cardinality(more) = IF x \in G THEN Cardinality(G) ELSE Cardinality(G) + 1
        BY <1>1, FS_AddElement DEF GapsAre
      <3> QED
        BY <1>1, <1>2, <3>1 DEF GapsAre
    <2>2. \A a \in Answer : Given(a)' => Logged(a)' \/ a \in more
      BY <1>1 DEF GapsAre, MayMiss
    <2> HIDE DEF more
    <2>3. GapsAre(more)'
      BY <1>4, <2>1, <2>2 DEF GapsAre
    <2> QED
      BY <2>3 DEF Covered
  <1> QED
    BY <1>3, <1>4

\* What is recorded stays so as long as answers are kept and no tick takes an
\* answered question up.
LEMMA RecordedStep ==
  ASSUME LogInv, Grows, UNCHANGED trail,
         \A s \in Station : \A id \in agent'[s].todo :
           id \in agent[s].todo \/ id \notin Ids \/ messages[id].answer = None
  PROVE  Recorded'
  <1>1. ASSUME NEW s \in Station, NEW a \in trail'[s]
        PROVE  a.id \in Ids' /\ messages'[a.id].answer # None /\ a.id \notin agent'[s].todo
    <2>1. a \in trail[s]
      BY <1>1
    <2>2. a.id \in Ids /\ messages[a.id].answer # None /\ a.id \notin agent[s].todo
      BY <2>1 DEF LogInv, Recorded
    <2> QED
      BY <2>2 DEF Grows, Kept
  <1> QED
    BY <1>1 DEF Recorded

\* The steps of requests and of the surroundings: no tick goes on, and what a
\* request takes was given before.
LEMMA LogAlone ==
  ASSUME LogInv, OldInv', UNCHANGED <<messages, agent, trail, late>>, queue' \subseteq queue,
         faults' = faults \/ faults' = faults + 1,
         \A id \in Ids : \A a \in Answer \cap shown'[id] : Given(a),
         \A c \in Caller : caller'[c].found \in Answer => Given(caller'[c].found)
  PROVE  LogInv'
  <1>1. Grows
    BY GrowsAlone
  <1>2. Recorded'
    BY <1>1, RecordedStep
  <1>3. \A a \in Answer : Given(a)' => Given(a)
    BY DEF Given, Ids
  <1>4. \A a \in Answer : Logged(a) => Logged(a)'
    BY DEF Logged
  <1>5. Covered'
    BY <1>3, <1>4, CoveredStep
  <1> QED
    BY <1>2, <1>5 DEF LogInv

\* A request that finds nothing or something that was given.
LEMMA LogRequest ==
  ASSUME LogInv, OldInv', UNCHANGED <<messages, queue, agent, trail, late, faults, shown>>,
         NEW c \in Caller, NEW state, CallerTo(c, state),
         state.found \in Answer => Given(state.found)
  PROVE  LogInv'
  <1>1. caller \in [Caller -> CallerState]
    BY Parts DEF CallersOK, LogInv, OldInv, OInv
  <1>2. \A d \in Caller : caller'[d] = IF d = c THEN state ELSE caller[d]
    BY <1>1 DEF CallerTo
  <1>3. \A d \in Caller : caller'[d].found \in Answer => Given(caller'[d].found)
    BY <1>2 DEF Given
  <1>4. \A id \in Ids : \A a \in Answer \cap shown'[id] : Given(a)
    BY DEF Given
  <1> QED
    BY <1>3, <1>4, LogAlone

LEMMA IdleFindsNothing == Idle.found \notin Answer
  BY NoneIsNoAnswer DEF Idle

\* The steps of an open request.
LEMMA LogTaking ==
  ASSUME LogInv, OldInv', NEW c \in Caller,
         \/ \E n \in Number : Webhook(c, n)
         \/ Look(c) \/ Deadline(c)
         \/ \E id \in Ids : SupportReads(c, id)
  PROVE  LogInv'
  <1>1. UNCHANGED <<messages, queue, agent, trail, late, faults, shown>>
    BY DEF Webhook, Look, Deadline, SupportReads, station
  <1>2. /\ caller[c] \in CallerState
        /\ \A id \in queue : id \in Ids
    BY CallerFields, Parts DEF TableOK, LogInv, OldInv, OInv
  <1>3. \A id \in Ids : Given(messages[id].answer)
    BY DEF Given
  <1>4. CASE \E n \in Number : Webhook(c, n)
    <2>1. CASE UNCHANGED caller
      <3>1. \A d \in Caller : Given(caller'[d].found)
        BY <2>1 DEF Given
      <3>2. \A id \in Ids : \A a \in Answer \cap shown'[id] : Given(a)
        BY <1>1 DEF Given
      <3> QED
        BY <1>1, <3>1, <3>2, LogAlone
    <2>2. ASSUME NEW n \in Number, NEW s \in Station,
                 CallerTo(c, [Idle EXCEPT !.at = "enqueue", !.from = n, !.station = s])
          PROVE  LogInv'
      <3> DEFINE state == [Idle EXCEPT !.at = "enqueue", !.from = n, !.station = s]
      <3>1. CallerTo(c, state) /\ state.found = Idle.found
        BY <2>2 DEF Idle
      <3> HIDE DEF state
      <3> QED
        BY <1>1, <3>1, IdleFindsNothing, LogRequest
    <2> QED
      BY <1>4, <2>1, <2>2 DEF Webhook
  <1>5. CASE Look(c)
    <2> DEFINE state == [caller[c] EXCEPT !.at = "look", !.found = messages[caller[c].id].answer]
    <2>1. CallerTo(c, state) /\ state.found = messages[caller[c].id].answer /\ caller[c].id \in Ids
      BY <1>2, <1>5 DEF Look, CallerState
    <2> HIDE DEF state
    <2> QED
      BY <1>1, <1>3, <2>1, LogRequest
  <1>6. CASE Deadline(c)
    <2>1. CASE CallerTo(c, Idle)
      BY <1>1, <2>1, IdleFindsNothing, LogRequest
    <2>2. CASE ~CallerTo(c, Idle)
      <3> DEFINE state == [caller[c] EXCEPT !.at = "encode", !.found = messages[caller[c].id].answer]
      <3>1. CallerTo(c, state) /\ state.found = messages[caller[c].id].answer /\ caller[c].id \in Ids
        BY <1>2, <1>6, <2>2 DEF Deadline, CallerState
      <3> HIDE DEF state
      <3> QED
        BY <1>1, <1>3, <3>1, LogRequest
    <2> QED
      BY <2>1, <2>2
  <1>7. ASSUME NEW id \in Ids, SupportReads(c, id) PROVE LogInv'
    <2> DEFINE state == [Idle EXCEPT !.at = "encode", !.station = messages[id].station,
                                     !.id = id, !.found = messages[id].answer]
    <2>1. CallerTo(c, state) /\ state.found = messages[id].answer
      BY <1>7 DEF SupportReads, Idle
    <2> HIDE DEF state
    <2> QED
      BY <1>1, <1>3, <2>1, LogRequest
  <1> QED
    BY <1>4, <1>5, <1>6, <1>7

\* A request shows what it found, or what is there by now.
LEMMA LogReading == ASSUME LogInv, OldInv', NEW c \in Caller, Read(c) PROVE LogInv'
  <1>1. /\ caller[c].id \in Ids /\ caller[c] \in CallerState
        /\ UNCHANGED <<messages, queue, agent, trail, late, faults>>
    BY CallerFields, Parts DEF Read, LogInv, OldInv, OInv, RequestInHand, station
  <1>2. PICK seen \in Readable(caller[c].id, caller[c].found) :
          IF seen = None
          THEN /\ CallerTo(c, IF caller[c].at = "encode" THEN Idle
                              ELSE [caller[c] EXCEPT !.at = "wait", !.found = None])
               /\ UNCHANGED shown
          ELSE /\ CallerTo(c, Idle)
               /\ shown' = [shown EXCEPT ![caller[c].id] = @ \cup {seen}]
    BY DEF Read
  <1>3. seen = Torn \/ Given(seen)
    BY <1>1 DEF Readable, Given
  <1>4. Torn \notin Answer
    <2>1. Torn.station = "torn" /\ \A a \in Answer : DOMAIN a = {"station", "id", "figures"}
      BY DEF Torn, Answer
    <2>2. DOMAIN Torn = {"station"}
      BY DEF Torn
    <2> QED
      BY <2>1, <2>2
  <1>5. \A id \in Ids : \A a \in Answer \cap shown'[id] : Given(a)
    <2>1. \A id \in Ids : \A a \in shown[id] : Given(a)
      BY DEF Given
    <2>2. CASE UNCHANGED shown
      BY <2>1, <2>2
    <2>3. CASE shown' = [shown EXCEPT ![caller[c].id] = @ \cup {seen}]
      <3>1. shown \in Seq(SUBSET (Answer \cup {Torn})) /\ Ids = 1..Len(shown)
        BY Parts DEF LogInv, OldInv, OInv, TableOK, Ids
      <3> DEFINE i == caller[c].id
                 v == shown[i] \cup {seen}
      <3>2. shown' = [shown EXCEPT ![i] = v] /\ i \in 1..Len(shown)
        BY <1>1, <2>3, <3>1
      <3> HIDE DEF i, v
      <3>3. \A j \in Ids : shown'[j] = IF j = i THEN v ELSE shown[j]
        BY <3>1, <3>2, SeqExcept
      <3>4. i \in Ids
        BY <3>1, <3>2
      <3> QED
        BY <1>3, <1>4, <2>1, <3>3, <3>4 DEF v
    <2> QED
      BY <1>2, <2>2, <2>3
  <1>6. \A d \in Caller : caller'[d].found \in Answer => Given(caller'[d].found)
    <2> DEFINE again == [caller[c] EXCEPT !.at = "wait", !.found = None]
    <2>1. again.found \notin Answer
      BY <1>1, NoneIsNoAnswer DEF CallerState
    <2>2. CallerTo(c, Idle) \/ CallerTo(c, again)
      BY <1>2
    <2> HIDE DEF again
    <2>3. caller \in [Caller -> CallerState]
      BY Parts DEF CallersOK, LogInv, OldInv, OInv
    <2>4. \/ \A d \in Caller : caller'[d] = IF d = c THEN Idle ELSE caller[d]
          \/ \A d \in Caller : caller'[d] = IF d = c THEN again ELSE caller[d]
      BY <2>2, <2>3 DEF CallerTo
    <2>5. \A d \in Caller : Given(caller[d].found)
      BY DEF Given
    <2> QED
      BY <2>1, <2>4, <2>5, IdleFindsNothing
  <1> QED
    BY <1>1, <1>5, <1>6, LogAlone

\* A question is queued: it has no answer yet.
LEMMA LogAsking ==
  ASSUME LogInv, OldInv', NEW c \in Caller, Enqueue(c) \/ \E s \in Station : SupportAsks(c, s)
  PROVE  LogInv'
  <1>1. PICK s \in Station, from \in Number \cup {Support} : Put(s, from)
    <2>1. CASE Enqueue(c)
      <3>1. caller[c].station \in Station /\ caller[c].from \in Number
        BY <2>1 DEF Enqueue, LogInv, OldInv, OInv, TypeInv, RequestInHand
      <3> QED
        BY <2>1, <3>1 DEF Enqueue
    <2>2. CASE \E s \in Station : SupportAsks(c, s)
      BY <2>2 DEF SupportAsks
    <2> QED
      BY <2>1, <2>2
  <1>2. UNCHANGED <<agent, trail, late, faults>>
    BY DEF Enqueue, SupportAsks, station
  <1> DEFINE new == Len(messages) + 1
  <1>3. /\ Ids' = Ids \cup {new}
        /\ \A id \in Ids : messages'[id] = messages[id] /\ shown'[id] = shown[id]
        /\ messages'[new] = [station |-> s, from |-> from, answer |-> None]
        /\ shown'[new] = {}
    BY <1>1, PutType, Parts DEF LogInv, OldInv, OInv
  <1> HIDE DEF new
  <1>4. Grows
    BY <1>1, OldPut DEF LogInv
  <1>5. Recorded'
    BY <1>2, <1>4, RecordedStep
  <1>6. \A d \in Caller : caller'[d].found \in Answer => Given(caller'[d].found)
    <2>1. \A d \in Caller : Given(caller[d].found)
      BY DEF Given
    <2>2. caller \in [Caller -> CallerState] /\ caller[c] \in CallerState
      BY CallerFields, Parts DEF CallersOK, LogInv, OldInv, OInv
    <2>3. CASE Enqueue(c)
      <3> DEFINE state == [caller[c] EXCEPT !.at = "wait", !.id = Len(messages) + 1]
      <3>1. CallerTo(c, state) /\ state.found = caller[c].found
        BY <2>2, <2>3 DEF Enqueue, CallerState
      <3> HIDE DEF state
      <3>2. \A d \in Caller : caller'[d] = IF d = c THEN state ELSE caller[d]
        BY <2>2, <3>1 DEF CallerTo
      <3> QED
        BY <2>1, <3>1, <3>2
    <2>4. ASSUME NEW t \in Station, SupportAsks(c, t)
          PROVE  \A d \in Caller : caller'[d].found \in Answer => Given(caller'[d].found)
      <3>1. PICK at \in {"wait", "encode"} :
              CallerTo(c, [Idle EXCEPT !.at = at, !.station = t, !.id = Len(messages) + 1])
        BY <2>4 DEF SupportAsks
      <3> DEFINE state == [Idle EXCEPT !.at = at, !.station = t, !.id = Len(messages) + 1]
      <3>2. CallerTo(c, state) /\ state.found = Idle.found
        BY <3>1 DEF Idle
      <3> HIDE DEF state
      <3>3. \A d \in Caller : caller'[d] = IF d = c THEN state ELSE caller[d]
        BY <2>2, <3>2 DEF CallerTo
      <3> QED
        BY <2>1, <3>2, <3>3, IdleFindsNothing
    <2> QED
      BY <2>3, <2>4
  <1>7. ASSUME NEW a \in Answer, Given(a)' PROVE Given(a)
    <2>1. a # None
      BY NoneIsNoAnswer
    <2> QED
      BY <1>2, <1>3, <1>6, <1>7, <2>1 DEF Given
  <1>8. \A a \in Answer : Logged(a) => Logged(a)'
    BY <1>2 DEF Logged
  <1>9. Covered'
    BY <1>2, <1>7, <1>8, CoveredStep
  <1> QED
    BY <1>5, <1>9 DEF LogInv

\* One step per action of a tick.  Another station's answers stay logged.
LEMMA LogElsewhere ==
  ASSUME NEW s \in Station, NEW a, Logged(a), a.station # s, a.station \in Station,
         \A t \in Station : t # s => agent'[t] = agent[t] /\ trail'[t] = trail[t]
  PROVE  Logged(a)'
  BY DEF Logged

LEMMA LogWorking ==
  ASSUME LogInv, OldInv', NEW s \in Station, Wake(s) \/ Poll(s) \/ AnswerQuestion(s)
  PROVE  LogInv'
  <1>1. UNCHANGED <<messages, queue, caller, trail, late, faults, shown>> /\ Grows
    BY GrowsAlone DEF Wake, Poll, AnswerQuestion, cloud
  <1>2. /\ agent[s].at # "record"
        /\ \A t \in Station : t # s => agent'[t] = agent[t]
        /\ \A id \in agent'[s].todo :
             id \in agent[s].todo \/ id \notin Ids \/ messages[id].answer = None
    <2>1. CASE Wake(s) \/ Poll(s)
      <3>1. \A id \in Pending(s) : messages[id].answer = None
        BY DEF Pending, Oldest
      <3> QED
        BY <2>1, <3>1, Begins DEF LogInv, OldInv, OInv
    <2>2. CASE AnswerQuestion(s)
      BY <2>2, AnswerType DEF AnswerQuestion, LogInv, OldInv, OInv
    <2> QED
      BY <2>1, <2>2
  <1>3. Recorded'
    BY <1>1, <1>2, RecordedStep
  <1>4. \A a \in Answer : Given(a)' => Given(a)
    BY <1>1 DEF Given, Ids
  <1>5. \A a \in Answer : Logged(a) => Logged(a)'
    BY <1>1, <1>2 DEF Logged, Answer
  <1>6. Covered'
    BY <1>1, <1>4, <1>5, CoveredStep
  <1> QED
    BY <1>3, <1>6 DEF LogInv

\* The tick rests; what it was about to record is missed, by a fault.
LEMMA LogRests ==
  ASSUME LogInv, NEW s \in Station, AgentTo(s, Resting), UNCHANGED trail
  PROVE  /\ \A t \in Station : \A id \in agent'[t].todo : id \in agent[t].todo
         /\ \A a \in Answer :
              Logged(a) => Logged(a)' \/ (agent[s].at = "record" /\ a = agent[s].answer)
  <1>1. \A t \in Station : agent'[t] = IF t = s THEN Resting ELSE agent[t]
    BY Parts DEF AgentTo, AgentsOK, LogInv, OldInv, OInv
  <1>2. Resting.todo = {}
    BY DEF Resting
  <1> QED
    BY <1>1, <1>2 DEF Logged, Answer

\* The reply is stored and about to be recorded, or it is missed by a fault.
LEMMA LogReplying ==
  ASSUME LogInv, OldInv', NEW s \in Station, Reply(s) \/ ReplyFails(s)
  PROVE  LogInv'
  <1> DEFINE x == agent[s].answer
             id == Current(s)
  <1>1. /\ agent[s].at = "reply" /\ x \in Answer /\ x.id = id /\ x.station = s /\ id \in Ids
        /\ UNCHANGED <<queue, caller, trail, shown>>
        /\ agent \in [Station -> AgentState]
    BY AgentFields, CurrentIsOldest, Parts
    DEF Reply, ReplyFails, LogInv, OldInv, OInv, OwnTicks, TickInHand, AgentsOK
  <1> HIDE DEF x, id
  <1>2. \/ /\ UNCHANGED messages /\ late' \in {late, late \cup {x}}
        \/ /\ Store(id, x) /\ UNCHANGED late
    BY DEF Reply, ReplyFails, x, id
  <1>3. Ids' = Ids /\ \A i \in Ids : messages'[i].answer \in {messages[i].answer, x}
    <2>1. CASE UNCHANGED messages
      BY <2>1 DEF Ids
    <2>2. CASE Store(id, x)
      BY <1>1, <2>2, StoreType, Parts DEF LogInv, OldInv, OInv
    <2> QED
      BY <1>2, <2>1, <2>2
  <1>4. Grows
    <2>1. \A i \in Ids : messages'[i].station = messages[i].station /\ messages'[i].from = messages[i].from
      <3>1. CASE UNCHANGED messages
        BY <3>1
      <3>2. CASE Store(id, x)
        BY <1>1, <3>2, StoreType, Parts DEF LogInv, OldInv, OInv
      <3> QED
        BY <1>2, <3>1, <3>2
    <2>2. x # None
      BY <1>1, NoneIsNoAnswer
    <2> QED
      BY <1>1, <1>3, <2>1, <2>2 DEF Grows, Kept
  <1>5. \A a \in Answer : Given(a)' => Given(a) \/ a = x
    BY <1>1, <1>2, <1>3 DEF Given
  <1>6. CASE AgentTo(s, Resting)
    <2>1. /\ \A t \in Station : \A i \in agent'[t].todo : i \in agent[t].todo
          /\ \A a \in Answer : Logged(a) => Logged(a)'
      BY <1>1, <1>6, LogRests
    <2>2. Recorded'
      BY <1>1, <1>4, <2>1, RecordedStep
    <2>3. \/ faults' = faults + 1
          \/ UNCHANGED <<messages, late, faults>>
      <3>1. CASE ReplyFails(s)
        BY <3>1 DEF ReplyFails, Fault
      <3>2. CASE Reply(s) /\ Accepts(s, id)
        <4>1. AgentTo(s, [agent[s] EXCEPT !.at = "record"])
          BY <3>2 DEF Reply, id
        <4>2. [agent[s] EXCEPT !.at = "record"].at = "record"
          BY <1>1 DEF AgentState
        <4>3. Resting.at = "idle"
          BY DEF Resting
        <4> DEFINE recording == [agent[s] EXCEPT !.at = "record"]
        <4>4. recording.at = "record" /\ AgentTo(s, recording)
          BY <4>1, <4>2
        <4> HIDE DEF recording
        <4>5. agent'[s] = Resting /\ agent'[s] = recording
          BY <1>1, <1>6, <4>4 DEF AgentTo
        <4> QED
          BY <4>3, <4>4, <4>5
      <3>3. CASE Reply(s) /\ ~Accepts(s, id)
        BY <3>3 DEF Reply, id
      <3> QED
        BY <3>1, <3>2, <3>3
    <2>4. Covered'
      <3>1. CASE faults' = faults + 1
        BY <1>5, <2>1, <3>1, CoveredStep DEF MayMiss
      <3>2. CASE UNCHANGED <<messages, late, faults>>
        <4>1. \A a \in Answer : Given(a)' => Given(a)
          BY <1>1, <3>2 DEF Given, Ids
        <4> QED
          BY <2>1, <3>2, <4>1, CoveredStep
      <3> QED
        BY <2>3, <3>1, <3>2
    <2> QED
      BY <2>2, <2>4 DEF LogInv
  <1>7. CASE ~AgentTo(s, Resting)
    <2> DEFINE state == [agent[s] EXCEPT !.at = "record"]
    <2>1. AgentTo(s, state) /\ UNCHANGED faults
      BY <1>7 DEF Reply, ReplyFails
    <2>2. state.at = "record" /\ state.todo = agent[s].todo /\ state.answer = x
      BY <1>1 DEF AgentState, x
    <2> HIDE DEF state
    <2>3. \A t \in Station : agent'[t] = IF t = s THEN state ELSE agent[t]
      BY <1>1, <2>1 DEF AgentTo
    <2>4. Recorded'
      <3>1. \A t \in Station : agent'[t].todo = agent[t].todo
        BY <2>2, <2>3
      <3> QED
        BY <1>1, <1>4, <3>1, RecordedStep
    <2>5. \A a \in Answer : a = x => Logged(a)'
      <3>1. agent'[s].at = "record" /\ agent'[s].answer = x
        BY <2>2, <2>3
      <3> QED
        BY <1>1, <3>1 DEF Logged
    <2>6. \A a \in Answer : Logged(a) => Logged(a)'
      BY <1>1, <2>3 DEF Logged, Answer
    <2>7. Covered'
      BY <1>5, <2>1, <2>5, <2>6, CoveredStep
    <2> QED
      BY <2>4, <2>7 DEF LogInv
  <1> QED
    BY <1>6, <1>7

\* The answer is recorded: nothing is in its place, for the question is still
\* on the list.  Or the insert fails.
LEMMA LogRecording ==
  ASSUME LogInv, OldInv', NEW s \in Station, Record(s) \/ RecordFails(s)
  PROVE  LogInv'
  <1> DEFINE x == agent[s].answer
  <1>1. /\ agent[s].at = "record" /\ x \in Answer /\ x.station = s
        /\ x.id = Current(s) /\ Current(s) \in agent[s].todo /\ Current(s) \in Ids
        /\ messages[Current(s)].answer # None
        /\ Rest(s) = agent[s].todo \ {Current(s)} /\ Rest(s) \in SUBSET Ids
    BY AgentFields, CurrentIsOldest, Parts
    DEF Record, RecordFails, LogInv, OldInv, OInv, OwnTicks, OrderedTicks, TickInHand, Rest
  <1>2. UNCHANGED <<messages, queue, caller, late, shown>> /\ Grows
    BY GrowsAlone DEF Record, RecordFails, cloud
  <1>3. agent'[s].todo = Rest(s) /\ \A t \in Station : t # s => agent'[t] = agent[t]
    BY <1>1, <1>2, NextType, Parts DEF Record, RecordFails, LogInv, OldInv, OInv
  <1>4. \A a \in Answer : Given(a)' => Given(a)
    BY <1>2 DEF Given, Ids
  <1>5. CASE RecordFails(s)
    <2>1. UNCHANGED trail /\ faults' = faults + 1
      BY <1>5 DEF RecordFails, Fault
    <2>2. Recorded'
      BY <1>1, <1>2, <1>3, <2>1, RecordedStep
    <2>3. \A a \in Answer : Logged(a) => Logged(a)' \/ a = x
      BY <1>3, <2>1 DEF Logged, Answer, x
    <2>4. Covered'
      BY <1>4, <2>1, <2>3, CoveredStep DEF MayMiss
    <2> QED
      BY <2>2, <2>4 DEF LogInv
  <1>6. CASE Record(s)
    <2>1. \A a \in trail[s] : a.id # x.id
      BY <1>1 DEF LogInv, Recorded
    <2>2. \A t \in Station : trail'[t] = IF t = s THEN trail[s] \cup {x} ELSE trail[t]
      <3>1. trail \in [Station -> SUBSET Answer]
        BY Parts DEF TrailOK, LogInv, OldInv, OInv
      <3> QED
        BY <1>6, <2>1, <3>1 DEF Record, x
    <2> HIDE DEF x
    <2>3. Recorded'
      <3>1. ASSUME NEW t \in Station, NEW a \in trail'[t]
            PROVE  a.id \in Ids' /\ messages'[a.id].answer # None /\ a.id \notin agent'[t].todo
        <4>1. CASE a \in trail[t]
          BY <1>1, <1>2, <1>3, <4>1 DEF LogInv, Recorded, Ids
        <4>2. CASE a \notin trail[t]
          BY <1>1, <1>2, <1>3, <2>2, <3>1, <4>2 DEF Ids
        <4> QED
          BY <4>1, <4>2
      <3> QED
        BY <3>1 DEF Recorded
    <2>4. \A a \in Answer : Logged(a) => Logged(a)'
      <3>1. ASSUME NEW a \in Answer, Logged(a) PROVE Logged(a)'
        <4>1. a.station \in Station
          BY DEF Answer
        <4>2. CASE a.station # s
          BY <1>3, <2>2, <3>1, <4>1, <4>2, LogElsewhere
        <4>3. CASE a.station = s
          BY <2>2, <3>1, <4>3 DEF Logged, x
        <4> QED
          BY <4>2, <4>3
      <3> QED
        BY <3>1
    <2>5. Covered'
      <3>1. UNCHANGED faults
        BY <1>6 DEF Record
      <3> QED
        BY <1>4, <2>4, <3>1, CoveredStep
    <2> QED
      BY <2>3, <2>5 DEF LogInv
  <1> QED
    BY <1>5, <1>6

LEMMA LogStop ==
  ASSUME LogInv, OldInv', NEW s \in Station, Stop(s) \/ PollFails(s)
  PROVE  LogInv'
  <1>1. /\ UNCHANGED <<messages, queue, caller, trail, late, shown>> /\ Grows
        /\ AgentTo(s, Resting) /\ faults' = faults + 1
    BY GrowsAlone DEF Stop, PollFails, Fault, cloud
  <1>2. /\ \A t \in Station : \A id \in agent'[t].todo : id \in agent[t].todo
        /\ \A a \in Answer : Logged(a) => Logged(a)' \/ a = agent[s].answer
    BY <1>1, LogRests
  <1>3. Recorded'
    BY <1>1, <1>2, RecordedStep
  <1>4. \A a \in Answer : Given(a)' => Given(a)
    BY <1>1 DEF Given, Ids
  <1>5. Covered'
    BY <1>1, <1>2, <1>4, CoveredStep DEF MayMiss
  <1> QED
    BY <1>3, <1>5 DEF LogInv

\* A late reply was given when the station gave it up.
LEMMA LogArriving == ASSUME LogInv, OldInv', NEW answer \in late, Arrive(answer) PROVE LogInv'
  <1>1. /\ UNCHANGED <<queue, caller, agent, trail, faults, shown>>
        /\ late' \subseteq late /\ answer \in Answer /\ Given(answer)
    BY Parts DEF Arrive, station, RestOK, LogInv, OldInv, OInv, Given
  <1>2. Grows /\ Ids' = Ids /\ \A i \in Ids : messages'[i].answer \in {messages[i].answer, answer}
    <2>1. CASE UNCHANGED messages
      BY <1>1, <2>1, GrowsAlone DEF Ids
    <2>2. CASE Accepts(answer.station, answer.id) /\ Store(answer.id, answer)
      <3>1. answer.id \in Ids
        BY <2>2, IdsType, Parts DEF Accepts, LogInv, OldInv, OInv
      <3>2. /\ Ids' = Ids
            /\ \A i \in Ids : /\ messages'[i].station = messages[i].station
                              /\ messages'[i].from = messages[i].from
                              /\ messages'[i].answer = IF i = answer.id THEN answer ELSE messages[i].answer
        BY <1>1, <2>2, <3>1, StoreType, Parts DEF LogInv, OldInv, OInv
      <3> QED
        BY <1>1, <3>2, NoneIsNoAnswer DEF Grows, Kept
    <2> QED
      BY <2>1, <2>2 DEF Arrive
  <1>3. Recorded'
    BY <1>1, <1>2, RecordedStep
  <1>4. \A a \in Answer : Given(a)' => Given(a)
    BY <1>1, <1>2 DEF Given
  <1>5. \A a \in Answer : Logged(a) => Logged(a)'
    BY <1>1 DEF Logged
  <1>6. Covered'
    BY <1>1, <1>4, <1>5, CoveredStep
  <1> QED
    BY <1>3, <1>6 DEF LogInv

\* The surroundings give nothing; a restart of the control plane is a fault
\* and forgets the open requests.
LEMMA LogSurroundings ==
  ASSUME LogInv, OldInv',
         \/ UNCHANGED vars \/ FiguresChange \/ CloudRestart
         \/ \E s \in Station : SetEnabled(s) \/ SetStatus(s)
         \/ \E n \in Number : WindowOver(n)
  PROVE  LogInv'
  <1>1. /\ UNCHANGED <<messages, agent, trail, late, shown>> /\ queue' \subseteq queue
        /\ faults' = faults \/ faults' = faults + 1
    BY DEF vars, FiguresChange, CloudRestart, SetEnabled, SetStatus, WindowOver, cloud, station, Fault
  <1>2. \A c \in Caller : caller'[c].found \in Answer => Given(caller'[c].found)
    <2>1. CASE UNCHANGED caller
      BY <2>1 DEF Given
    <2>2. CASE caller' = [c \in Caller |-> Idle]
      BY <2>2, IdleFindsNothing
    <2> QED
      BY <2>1, <2>2 DEF vars, FiguresChange, CloudRestart, SetEnabled, SetStatus, WindowOver, cloud
  <1>3. \A id \in Ids : \A a \in Answer \cap shown'[id] : Given(a)
    BY <1>1 DEF Given
  <1> QED
    BY <1>1, <1>2, <1>3, LogAlone

LEMMA LogStep == ASSUME LogInv, [Next]_vars PROVE LogInv'
  <1>1. OldInv'
    BY OldStep DEF LogInv
  <1>2. CASE UNCHANGED vars
    BY <1>1, <1>2, LogSurroundings
  <1>3. CASE Next
    BY <1>1, <1>3, LogAsking, LogTaking, LogReading, LogWorking, LogReplying, LogRecording,
       LogStop, LogArriving, LogSurroundings
    DEF Next, Tick
  <1> QED
    BY <1>2, <1>3

\* Every answer somebody was shown and the station's record misses is the
\* doing of a fault of its own (remote_questions, migration 008), however the
\* queue drops, requests read and replies arrive.
THEOREM GapsAreFaults == Spec => []LogGapsExplained
  <1>1. Init => LogInv
    <2> SUFFICES ASSUME Init PROVE LogInv
      OBVIOUS
    <2>1. TypeInv /\ Ids = {}
      BY TypeInit DEF Init, Ids
    <2>2. OInv
      BY <2>1 DEF Init, OInv, OwnMessages, OwnRequests, OwnTicks, OwnShown, Idle, Resting
    <2>3. OldInv
      BY <2>2 DEF Init, OldInv, OldestFirst, OrderedTicks, OrderedLate, Resting
    <2>4. Recorded
      BY DEF Init, Recorded
    <2>5. \A a \in Answer : ~Given(a)
      BY <2>1, IdleFindsNothing DEF Init, Given
    <2>6. GapsAre({})
      BY <2>5, FS_EmptySet DEF Init, GapsAre
    <2> QED
      BY <2>3, <2>4, <2>6 DEF LogInv, Covered
  <1>2. LogInv /\ [Next]_vars => LogInv'
    BY LogStep
  <1>3. LogInv => LogGapsExplained
    <2> SUFFICES ASSUME LogInv PROVE Cardinality(Unlogged) <= faults
      BY DEF LogGapsExplained
    <2>1. PICK G : GapsAre(G)
      BY DEF LogInv, Covered
    <2>2. ASSUME NEW a \in Unlogged PROVE a \in G
      <3>1. PICK id \in Ids : a \in shown[id] \ {Torn}
        BY <2>2 DEF Unlogged
      <3>2. a \in Answer
        BY <3>1, IdsType, Parts DEF LogInv, OldInv, OInv
      <3>3. Given(a)
        BY <3>1 DEF Given
      <3>4. ~Logged(a)
        BY <2>2 DEF Unlogged, Logged
      <3> QED
        BY <2>1, <3>2, <3>3, <3>4 DEF GapsAre
    <2>3. Unlogged \subseteq G
      BY <2>2
    <2> HIDE DEF Unlogged
    <2>4. IsFiniteSet(G) /\ Cardinality(G) <= faults
      BY <2>1 DEF GapsAre
    <2>5. /\ Cardinality(Unlogged) \in Nat /\ Cardinality(G) \in Nat
          /\ Cardinality(Unlogged) <= Cardinality(G)
      BY <2>3, <2>4, FS_Subset, FS_CardinalityType
    <2>6. faults \in Nat
      BY Parts, LimitAssumption DEF LogInv, OldInv, OInv, RestOK
    <2> QED
      BY <2>4, <2>5, <2>6
  <1> QED
    BY <1>1, <1>2, <1>3, PTL DEF Spec
-----------------------------------------------------------------------------
(* Seen from outside the relay is a mailbox.                               *)

\* An answer that a request has seen is there for good: nothing takes the
\* answer to a question back, it is at most replaced.
FoundStays ==
  \A c \in Caller :
    caller[c].at \in {"look", "encode"} /\ caller[c].found # None
      => messages[caller[c].id].answer # None

MailInv == OldInv /\ FoundStays

\* What is left alone stays as it is; a request goes on to a state that has
\* found nothing, or what is there.
LEMMA FoundAlone ==
  ASSUME MailInv, Grows, UNCHANGED caller
  PROVE  FoundStays'
  <1>1. \A c \in Caller : caller[c].at \in {"look", "encode"} => caller[c].id \in Ids
    BY DEF MailInv, OldInv, OInv, TypeInv, RequestInHand
  <1> QED
    BY <1>1 DEF MailInv, FoundStays, Grows

LEMMA FoundStep ==
  ASSUME MailInv, Grows, NEW c \in Caller, NEW state, CallerTo(c, state),
         state.at \in {"look", "encode"} /\ state.found # None
           => state.id \in Ids /\ messages[state.id].answer # None
  PROVE  FoundStays'
  <1>1. caller' = [caller EXCEPT ![c] = state] /\ caller \in [Caller -> CallerState]
    BY Parts DEF CallerTo, CallersOK, MailInv, OldInv, OInv
  <1>2. \A d \in Caller : caller'[d] = IF d = c THEN state ELSE caller[d]
    BY <1>1
  <1>3. \A d \in Caller : caller[d].at \in {"look", "encode"} => caller[d].id \in Ids
    BY DEF MailInv, OldInv, OInv, TypeInv, RequestInHand
  <1>4. ASSUME NEW d \in Caller, caller'[d].at \in {"look", "encode"}, caller'[d].found # None
        PROVE  messages'[caller'[d].id].answer # None
    <2>1. CASE d = c
      BY <1>2, <1>4, <2>1 DEF Grows
    <2>2. CASE d # c
      BY <1>2, <1>3, <1>4, <2>2 DEF MailInv, FoundStays, Grows
    <2> QED
      BY <2>1, <2>2
  <1> QED
    BY <1>4 DEF FoundStays

\* The mailbox counts with an instance of FiniteSets of its own.
LEMMA SameCount == ASSUME NEW S PROVE Abstract!Cardinality(S) = Cardinality(S)
  BY Zenon DEF Abstract!Cardinality, Cardinality

\* Queueing a question is asking one.
LEMMA PutAsks ==
  ASSUME TypeInv, NEW s \in Station, NEW from \in Number \cup {Support}, Put(s, from),
         from # Support => from \in Owners[s]
  PROVE  Abstract!Next
  <1> DEFINE order == queue \cup {Len(messages) + 1}
  <1>1. /\ messages' = Append(messages, [station |-> s, from |-> from, answer |-> None])
        /\ shown' = Append(shown, {})
        /\ queue' = IF Cardinality(order) > QueueCap THEN order \ {Min(order)} ELSE order
    BY DEF Put
  <1>2. queue \subseteq Nat /\ IsFiniteSet(queue) /\ Len(messages) + 1 \in Nat
    BY IdsType, Parts
  <1>3. order \in SUBSET Nat /\ order # {} /\ Cardinality(order) \in Nat
    BY <1>2, FS_AddElement, FS_CardinalityType
  <1>4. \/ Cardinality(order) <= QueueCap /\ queue' = order
        \/ /\ Cardinality(order) > QueueCap
           /\ \E oldest \in order :
                queue' = order \ {oldest} /\ \A id \in queue' : oldest < id
    <2> HIDE DEF order
    <2>1. CASE Cardinality(order) > QueueCap
      <3>1. PICK oldest \in order : oldest = Min(order) /\ \A id \in order : oldest <= id
        BY <1>3, MinIsLeast
      <3>2. queue' = order \ {oldest}
        BY <1>1, <2>1, <3>1
      <3>3. \A id \in order : id \in Nat
        BY <1>3
      <3>4. \A id \in queue' : oldest < id
        BY <3>1, <3>2, <3>3
      <3> QED
        BY <2>1, <3>1, <3>2, <3>4
    <2>2. CASE ~(Cardinality(order) > QueueCap)
      BY <1>1, <1>3, <2>2, LimitAssumption
    <2> QED
      BY <2>1, <2>2
  <1>5. from \in Owners[s] \cup {Support}
    OBVIOUS
  <1>6. Abstract!Ask(s, from)
    <2>1. /\ messages' = Append(messages, [station |-> s, from |-> from, answer |-> None])
          /\ shown' = Append(shown, {})
      BY <1>1
    <2>2. Abstract!Cardinality(order) = Cardinality(order)
      BY SameCount
    <2> QED
      BY <1>4, <1>5, <2>1, <2>2 DEF Abstract!Ask
  <1> QED
    BY <1>6 DEF Abstract!Next

\* Storing a reply is answering, when nothing in front of it waits.
LEMMA StoreAnswers ==
  ASSUME OldInv, NEW answer \in Answer, answer.id \in queue, Store(answer.id, answer),
         messages[answer.id].station = answer.station,
         Ahead(answer.station, answer.id) = {}, UNCHANGED <<queue, shown>>
  PROVE  Abstract!Next
  <1> DEFINE id == answer.id
  <1>1. id \in 1..Len(messages)
    BY IdsType, Parts DEF OldInv, OInv, Ids
  <1>2. answer \in Abstract!AnswersTo(id)
    BY DEF Answer, Abstract!AnswersTo
  <1>3. \A older \in queue :
          older < id /\ messages[older].station = messages[id].station
            => Abstract!Answered(older)
    BY DEF Ahead, Abstract!Answered
  <1>4. messages' = [messages EXCEPT ![id].answer = answer]
    BY DEF Store
  <1>5. Abstract!Answer(id, answer)
    BY <1>2, <1>3, <1>4 DEF Abstract!Answer
  <1> QED
    BY <1>1, <1>2, <1>5 DEF Abstract!Next

Outside == <<messages, queue, shown>>

\* Asking.
LEMMA MailAsking ==
  ASSUME MailInv, NEW c \in Caller,
         \/ \E n \in Number : Webhook(c, n)
         \/ Enqueue(c)
         \/ \E s \in Station : SupportAsks(c, s)
  PROVE  [Abstract!Next]_Outside /\ FoundStays'
  <1>0. OldInv /\ TypeInv
    BY DEF MailInv, OldInv, OInv
  <1>1. CASE \E n \in Number : Webhook(c, n)
    <2>1. UNCHANGED Outside /\ Grows
      BY <1>1, GrowsAlone DEF Webhook, Outside
    <2>2. CASE UNCHANGED caller
      BY <2>1, <2>2, FoundAlone
    <2>3. ASSUME NEW n \in Number, NEW s \in Station,
                 CallerTo(c, [Idle EXCEPT !.at = "enqueue", !.from = n, !.station = s])
          PROVE  FoundStays'
      <3> DEFINE state == [Idle EXCEPT !.at = "enqueue", !.from = n, !.station = s]
      <3>1. state.at = "enqueue" /\ CallerTo(c, state)
        BY <2>3 DEF Idle
      <3> HIDE DEF state
      <3> QED
        BY <2>1, <3>1, FoundStep
    <2>4. FoundStays'
      BY <1>1, <2>2, <2>3 DEF Webhook
    <2> QED
      BY <2>1, <2>4
  <1>2. CASE Enqueue(c)
    <2>1. /\ caller[c].station \in Station /\ caller[c].from \in Number
          /\ caller[c].from \in Owners[caller[c].station]
          /\ caller[c] \in CallerState
      BY <1>0, <1>2, CallerFields, Parts DEF Enqueue, RequestInHand
    <2>2. Put(caller[c].station, caller[c].from)
      BY <1>2 DEF Enqueue
    <2>3. Grows
      BY <1>0, <2>1, <2>2, OldPut
    <2>4. Abstract!Next
      BY <1>0, <2>1, <2>2, PutAsks
    <2> DEFINE state == [caller[c] EXCEPT !.at = "wait", !.id = Len(messages) + 1]
    <2>5. CallerTo(c, state) /\ state.at = "wait"
      BY <1>2, <2>1 DEF Enqueue, CallerState
    <2> HIDE DEF state
    <2>6. FoundStays'
      BY <2>3, <2>5, FoundStep
    <2> QED
      BY <2>4, <2>6
  <1>3. ASSUME NEW s \in Station, SupportAsks(c, s)
        PROVE  Abstract!Next /\ FoundStays'
    <2>1. Put(s, Support)
      BY <1>3 DEF SupportAsks
    <2>2. Grows
      BY <1>0, <2>1, OldPut
    <2>3. Abstract!Next
      BY <1>0, <2>1, PutAsks
    <2>4. PICK at \in {"wait", "encode"} :
            CallerTo(c, [Idle EXCEPT !.at = at, !.station = s, !.id = Len(messages) + 1])
      BY <1>3 DEF SupportAsks
    <2> DEFINE state == [Idle EXCEPT !.at = at, !.station = s, !.id = Len(messages) + 1]
    <2>5. CallerTo(c, state) /\ state.found = None
      BY <2>4 DEF Idle
    <2> HIDE DEF state
    <2>6. FoundStays'
      BY <2>2, <2>5, FoundStep
    <2> QED
      BY <2>3, <2>6
  <1> QED
    BY <1>1, <1>2, <1>3

\* Taking the pointer to a message shows nothing yet.
LEMMA MailLooking ==
  ASSUME MailInv, NEW c \in Caller,
         Look(c) \/ Deadline(c) \/ \E id \in Ids : SupportReads(c, id)
  PROVE  UNCHANGED Outside /\ FoundStays'
  <1>0. TypeInv
    BY DEF MailInv, OldInv, OInv
  <1>1. UNCHANGED Outside /\ Grows
    BY GrowsAlone DEF Look, Deadline, SupportReads, Outside
  <1>2. CASE CallerTo(c, Idle)
    <2>1. Idle.found = None
      BY DEF Idle
    <2> QED
      BY <1>1, <1>2, <2>1, FoundStep
  <1>3. ASSUME NEW at \in {"look", "encode"}, caller[c].id \in queue,
               CallerTo(c, [caller[c] EXCEPT !.at = at, !.found = messages[caller[c].id].answer])
        PROVE  FoundStays'
    <2> DEFINE state == [caller[c] EXCEPT !.at = at, !.found = messages[caller[c].id].answer]
    <2>1. caller[c] \in CallerState /\ caller[c].id \in Ids
      BY <1>0, <1>3, CallerFields, IdsType, Parts
    <2>2. CallerTo(c, state) /\ state.id \in Ids /\ state.found = messages[state.id].answer
      BY <1>3, <2>1 DEF CallerState
    <2> HIDE DEF state
    <2> QED
      BY <1>1, <2>2, FoundStep
  <1>4. ASSUME NEW id \in Ids, SupportReads(c, id) PROVE FoundStays'
    <2> DEFINE state == [Idle EXCEPT !.at = "encode", !.station = messages[id].station,
                                     !.id = id, !.found = messages[id].answer]
    <2>1. CallerTo(c, state) /\ state.id = id /\ state.found = messages[id].answer
      BY <1>4 DEF SupportReads, Idle
    <2> HIDE DEF state
    <2> QED
      BY <1>1, <2>1, FoundStep
  <1>5. FoundStays'
    BY <1>2, <1>3, <1>4 DEF Look, Deadline
  <1> QED
    BY <1>1, <1>5

\* What a read returns is an answer to that question, or half of one.
LEMMA MailReading ==
  ASSUME MailInv, NEW c \in Caller, Read(c)
  PROVE  [Abstract!Next]_Outside /\ FoundStays'
  <1> DEFINE id == caller[c].id
             before == caller[c].found
  <1>0. OInv /\ TypeInv
    BY DEF MailInv, OldInv, OInv
  <1>1. /\ id \in Ids /\ caller[c] \in CallerState
        /\ before \in Answer \cup {None} /\ caller[c].at \in {"look", "encode"}
    BY <1>0, CallerFields, Parts DEF Read, RequestInHand
  <1>2. UNCHANGED <<messages, queue>> /\ Grows
    BY GrowsAlone DEF Read
  <1>3. PICK answer \in Readable(id, before) :
          IF answer = None
          THEN /\ CallerTo(c, IF caller[c].at = "encode" THEN Idle
                              ELSE [caller[c] EXCEPT !.at = "wait", !.found = None])
               /\ UNCHANGED shown
          ELSE /\ CallerTo(c, Idle)
               /\ shown' = [shown EXCEPT ![id] = @ \cup {answer}]
    BY DEF Read
  <1>4. Idle.found = None
    BY DEF Idle
  <1>5. CASE answer = None
    <2> DEFINE back == IF caller[c].at = "encode" THEN Idle
                       ELSE [caller[c] EXCEPT !.at = "wait", !.found = None]
    <2>1. CallerTo(c, back) /\ UNCHANGED shown
      BY <1>3, <1>5
    <2>2. back.found = None
      BY <1>1, <1>4 DEF CallerState
    <2> HIDE DEF back
    <2>3. FoundStays'
      BY <1>2, <2>1, <2>2, FoundStep
    <2> QED
      BY <1>2, <2>1, <2>3 DEF Outside
  <1>6. CASE answer # None
    <2>1. CallerTo(c, Idle) /\ shown' = [shown EXCEPT ![id] = @ \cup {answer}]
      BY <1>3, <1>6
    <2>2. FoundStays'
      BY <1>2, <1>4, <2>1, FoundStep
    <2>3. before # None => messages[id].answer # None /\ Own(id, before)
      BY <1>0, <1>1 DEF MailInv, FoundStays, OInv, OwnRequests
    <2>4. messages[id].answer # None => Own(id, messages[id].answer)
      BY <1>0, <1>1 DEF OInv, OwnMessages
    <2>5. answer \in {before, messages[id].answer, Torn} /\ (answer = before \/ before # messages[id].answer)
      BY <1>3 DEF Readable
    <2>6. messages[id].answer # None
      BY <1>6, <2>3, <2>5
    <2>7. answer = Torn \/ (answer \in Answer /\ Own(id, answer))
      BY <1>0, <1>1, <1>6, <2>3, <2>4, <2>5, <2>6, IdsType, Parts
    <2>8. answer \in Abstract!AnswersTo(id) \cup {Torn}
      BY <2>7 DEF Own, Answer, Abstract!AnswersTo
    <2>9. Abstract!Show(id, answer)
      BY <1>2, <2>1, <2>6, <2>8 DEF Abstract!Show, Abstract!Answered
    <2> QED
      BY <1>1, <2>2, <2>8, <2>9 DEF Abstract!Next, Ids
  <1> QED
    BY <1>5, <1>6

\* The replies, in time or late; the other steps of a tick are not seen.
LEMMA MailTicking ==
  ASSUME MailInv, NEW s \in Station, Reply(s) \/ ReplyFails(s)
  PROVE  [Abstract!Next]_Outside /\ FoundStays'
  <1>0. OldInv
    BY DEF MailInv
  <1>1. /\ agent[s].answer \in Answer /\ agent[s].todo # {}
        /\ agent[s].answer.id = Current(s) /\ agent[s].answer.station = s
        /\ UNCHANGED <<queue, shown, caller>>
    BY AgentFields, Parts DEF Reply, ReplyFails, MailInv, OldInv, OInv, OwnTicks, TickInHand
  <1>2. messages[Current(s)].station = s /\ Ahead(s, Current(s)) = {}
    BY <1>0, <1>1, CurrentIsNext
  <1>3. CASE UNCHANGED messages
    BY <1>1, <1>3, GrowsAlone, FoundAlone DEF Outside
  <1>4. CASE Current(s) \in queue /\ Store(Current(s), agent[s].answer)
    <2> DEFINE answer == agent[s].answer
    <2>1. /\ answer \in Answer /\ answer.id \in queue /\ Store(answer.id, answer)
          /\ messages[answer.id].station = answer.station
          /\ Ahead(answer.station, answer.id) = {}
      BY <1>1, <1>2, <1>4
    <2> HIDE DEF answer
    <2>2. Abstract!Next /\ Grows
      BY <1>0, <1>1, <2>1, StoreAnswers, OldStore
    <2> QED
      BY <1>1, <2>2, FoundAlone
  <1> QED
    BY <1>3, <1>4 DEF Reply, ReplyFails, Accepts

LEMMA MailArriving ==
  ASSUME MailInv, NEW answer \in late, Arrive(answer)
  PROVE  [Abstract!Next]_Outside /\ FoundStays'
  <1>0. OldInv
    BY DEF MailInv
  <1>1. /\ UNCHANGED <<queue, shown, caller>> /\ answer \in Answer
        /\ Ahead(messages[answer.id].station, answer.id) = {}
    BY Parts DEF Arrive, RestOK, MailInv, OldInv, OInv, OrderedLate
  <1>2. CASE UNCHANGED messages
    BY <1>1, <1>2, GrowsAlone, FoundAlone DEF Outside
  <1>3. CASE Accepts(answer.station, answer.id) /\ Store(answer.id, answer)
    <2>1. answer.id \in queue /\ messages[answer.id].station = answer.station
      BY <1>3 DEF Accepts
    <2>2. Abstract!Next /\ Grows
      BY <1>0, <1>1, <1>3, <2>1, StoreAnswers, OldStore
    <2> QED
      BY <1>1, <2>2, FoundAlone
  <1> QED
    BY <1>2, <1>3 DEF Arrive

\* Everything else is not seen, or forgets what was kept.
LEMMA MailElsewhere ==
  ASSUME MailInv,
         \/ FiguresChange \/ CloudRestart
         \/ \E n \in Number : WindowOver(n)
         \/ \E s \in Station :
              \/ Wake(s) \/ Poll(s) \/ AnswerQuestion(s) \/ Record(s)
              \/ PollFails(s) \/ RecordFails(s) \/ Stop(s)
              \/ SetEnabled(s) \/ SetStatus(s)
  PROVE  [Abstract!Next]_Outside /\ FoundStays'
  <1>1. CASE CloudRestart
    <2>1. UNCHANGED <<messages, shown>> /\ queue' = {} /\ caller' = [c \in Caller |-> Idle]
      BY <1>1 DEF CloudRestart
    <2>2. FoundStays'
      BY <2>1 DEF FoundStays, Idle
    <2> QED
      BY <2>1, <2>2 DEF Abstract!Next, Abstract!Forget
  <1>2. CASE ~CloudRestart
    <2>1. UNCHANGED <<messages, queue, shown, caller>>
      BY <1>2 DEF FiguresChange, WindowOver, Wake, Poll, PollFails, AnswerQuestion, Record, RecordFails, Stop,
                  SetEnabled, SetStatus, cloud, station
    <2> QED
      BY <2>1, GrowsAlone, FoundAlone DEF Outside
  <1> QED
    BY <1>1, <1>2

LEMMA MailStep == ASSUME MailInv, [Next]_vars PROVE [Abstract!Next]_Outside /\ MailInv'
  <1>1. OldInv'
    BY OldStep DEF MailInv
  <1>2. CASE UNCHANGED vars
    <2>1. UNCHANGED <<messages, queue, shown, caller>>
      BY <1>2 DEF vars, cloud
    <2> QED
      BY <1>1, <2>1, GrowsAlone, FoundAlone DEF MailInv, Outside
  <1>3. CASE Next
    <2>1. [Abstract!Next]_Outside /\ FoundStays'
      BY <1>3, MailAsking, MailLooking, MailReading, MailTicking, MailArriving, MailElsewhere
      DEF Next, Tick
    <2> QED
      BY <1>1, <2>1 DEF MailInv
  <1> QED
    BY <1>2, <1>3

\* The control plane's queue, its unlocked reads, the stations' ticks, lost
\* and late replies and restarts together are a mailbox: a question is dropped
\* only for QueueCap newer ones or with all the others, it is answered by its
\* own station and never before an older one to it, an answer is replaced but
\* never taken back, and nothing is shown of a question that has none.
THEOREM RelayImplementsMailbox == Spec => ImplementsMailbox
  <1>1. Init => MailInv /\ Abstract!Init
    <2> SUFFICES ASSUME Init PROVE MailInv /\ Abstract!Init
      OBVIOUS
    <2>1. OldInv
      <3>1. TypeInv /\ Ids = {}
        BY TypeInit DEF Init, Ids
      <3>2. OInv
        BY <3>1 DEF Init, OInv, OwnMessages, OwnRequests, OwnTicks, OwnShown, Idle, Resting
      <3> QED
        BY <3>2 DEF Init, OldInv, OldestFirst, OrderedTicks, OrderedLate, Resting
    <2>2. FoundStays
      BY DEF Init, FoundStays, Idle
    <2> QED
      BY <2>1, <2>2 DEF Init, MailInv, Abstract!Init
  <1>2. MailInv /\ [Next]_vars => MailInv' /\ [Abstract!Next]_<<messages, queue, shown>>
    BY MailStep DEF Outside
  <1> QED
    BY <1>1, <1>2, PTL DEF Spec, ImplementsMailbox, Abstract!Spec
=============================================================================

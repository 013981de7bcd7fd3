---------------------------- MODULE OutboxProofs ----------------------------
(***************************************************************************)
(* Proofs about Outbox, for any kinds, numbers and limits, any number of   *)
(* requests beside the tick, and any number of faults.                     *)
(***************************************************************************)
EXTENDS Outbox, LeastMember, FiniteSetTheorems, TLAPS

-----------------------------------------------------------------------------
(* Type correctness.                                                       *)

\* What a goroutine has in hand for its step: TypeOK alone does not say that a
\* message to queue has a number, or that there is a kind to compose.
InHand(work) ==
  /\ work.at = "compose" => work.todo # {}
  /\ work.at \in {"compose", "test"} => work.to \in Number
  /\ work.at \in {"send", "sent", "tried"} <=> work.pending # {}

TypeInv == TypeOK /\ \A w \in Worker : InHand(worker[w])

\* What TypeOK says of the goroutines' work, field by field.
LEMMA WorkFields ==
  ASSUME TypeOK, NEW w \in Worker
  PROVE  /\ worker[w] \in Work
         /\ worker[w].to \in Number \cup {NoNumber}
         /\ worker[w].day \in Day
         /\ worker[w].todo \subseteq Kind
         /\ worker[w].pending \subseteq Ids
  BY DEF TypeOK, Work

LEMMA NoWorkType == NoWork \in Work /\ InHand(NoWork)
  BY LimitAssumption DEF NoWork, Work, InHand, Day

\* A step of one goroutine leaves the others with what they have in hand.
LEMMA StepType ==
  ASSUME TypeInv, Ids \subseteq Ids', NEW w \in Worker,
         NEW work \in Work', InHand(work), Step(w, work)
  PROVE  worker' \in [Worker -> Work'] /\ \A v \in Worker : InHand(worker'[v])
  <1>1. worker' = [worker EXCEPT ![w] = work]
    BY DEF Step
  <1>2. worker \in [Worker -> Work]
    BY DEF TypeInv, TypeOK
  <1>3. Work \subseteq Work'
    BY DEF Work
  <1>4. \A v \in Worker : worker'[v] = IF v = w THEN work ELSE worker[v]
    BY <1>1, <1>2
  <1>5. worker' \in [Worker -> Work']
    BY <1>1, <1>2, <1>3
  <1> QED
    BY <1>4, <1>5 DEF TypeInv

\* The part of TypeOK that is about the table and the history.
TableOK ==
  /\ messages \in Seq(Message)
  /\ \A i, j \in Ids :
       messages[i].kind = messages[j].kind /\ messages[i].day = messages[j].day
         => i = j \/ messages[i].kind = Test
  /\ reached \in Seq(Nat) /\ Len(reached) = Len(messages)

\* Queueing keeps the dedup key unique.
LEMMA QueueType ==
  ASSUME TypeInv, NEW kind \in Kind \cup {Test}, NEW day \in Day, NEW to \in Number,
         QueueMessage(kind, day, to)
  PROVE  TableOK' /\ Ids \subseteq Ids'
  <1>1. CASE UNCHANGED <<messages, reached>>
    BY <1>1 DEF TypeInv, TypeOK, TableOK, Ids
  <1>2. CASE /\ ~(kind # Test /\ Known(kind, day))
             /\ messages' = Append(messages, New(kind, day, to))
             /\ reached' = Append(reached, 0)
    <2>1. TableOK
      BY DEF TypeInv, TypeOK, TableOK
    <2>2. New(kind, day, to) \in Message
      BY DEF New, Message
    <2>3. /\ messages' \in Seq(Message) /\ Len(messages') = Len(messages) + 1
          /\ \A i \in Ids : messages'[i] = messages[i]
          /\ messages'[Len(messages) + 1] = New(kind, day, to)
      BY <1>2, <2>1, <2>2 DEF TableOK, Ids
    <2>4. reached' \in Seq(Nat) /\ Len(reached') = Len(messages')
      BY <1>2, <2>1, <2>3 DEF TableOK
    <2>5. Ids' = Ids \cup {Len(messages) + 1} /\ Len(messages) \in Nat
      BY <2>1, <2>3 DEF Ids, TableOK
    <2>6. ASSUME NEW i \in Ids', NEW j \in Ids',
                 messages'[i].kind = messages'[j].kind,
                 messages'[i].day = messages'[j].day,
                 messages'[i].kind # Test
          PROVE  i = j
      <3>1. \A id \in Ids : ~(messages[id].kind = kind /\ messages[id].day = day)
              \/ kind = Test
        BY <1>2 DEF Known
      <3>2. New(kind, day, to).kind = kind /\ New(kind, day, to).day = day
        BY DEF New
      <3>3. CASE i \in Ids /\ j \in Ids
        BY <2>1, <2>3, <2>6, <3>3 DEF TableOK
      <3>4. CASE i \in Ids /\ j = Len(messages) + 1
        BY <2>3, <2>6, <3>1, <3>2, <3>4
      <3>5. CASE i = Len(messages) + 1 /\ j \in Ids
        BY <2>3, <2>6, <3>1, <3>2, <3>5
      <3>6. CASE i = Len(messages) + 1 /\ j = Len(messages) + 1
        BY <3>6
      <3> QED
        BY <2>5, <2>6, <3>3, <3>4, <3>5, <3>6
    <2> QED
      BY <2>3, <2>4, <2>5, <2>6 DEF TableOK
  <1> QED
    BY <1>1, <1>2 DEF QueueMessage


LEMMA TypeInvInit == Init => TypeInv
  <1> SUFFICES ASSUME Init PROVE TypeInv
    OBVIOUS
  <1>1. TableOK
    BY DEF Init, TableOK, Ids
  <1>2. worker \in [Worker -> Work] /\ \A w \in Worker : InHand(worker[w])
    BY NoWorkType DEF Init
  <1>3. today \in Day /\ faults \in 0..MaxFaults
    BY LimitAssumption DEF Init, Day
  <1>4. enabled \in BOOLEAN /\ recipient \in Number \cup {NoNumber} /\ ready \in BOOLEAN
        /\ overlaps \in Nat
    BY DEF Init
  <1> QED
    BY <1>1, <1>2, <1>3, <1>4 DEF TypeInv, TypeOK, TableOK

\* A step that leaves the table alone.
LEMMA QuietType ==
  ASSUME TypeInv, NEW w \in Worker, NEW work \in Work, InHand(work), Step(w, work),
         UNCHANGED <<messages, reached, ready, today>>,
         enabled' \in BOOLEAN, recipient' \in Number \cup {NoNumber},
         faults' \in 0..MaxFaults, overlaps' \in Nat
  PROVE  TypeInv'
  <1>1. Ids' = Ids /\ Work' = Work /\ (TableOK <=> TableOK')
    BY DEF Ids, Work, TableOK
  <1> QED
    BY <1>1, StepType DEF TypeInv, TypeOK, TableOK

\* A step that changes the table.
LEMMA TableType ==
  ASSUME TypeInv, NEW w \in Worker, TableOK', Ids \subseteq Ids',
         NEW work \in Work, InHand(work), Step(w, work),
         UNCHANGED <<enabled, recipient, ready, today>>,
         faults' \in 0..MaxFaults, overlaps' \in Nat
  PROVE  TypeInv'
  <1>1. work \in Work'
    BY DEF Work
  <1> QED
    BY <1>1, StepType DEF TypeInv, TypeOK, TableOK

LEMMA FaultType == ASSUME TypeInv, NEW kind, MayFault(kind)
                   PROVE  faults + 1 \in 0..MaxFaults
  BY LimitAssumption DEF TypeInv, TypeOK, MayFault

LEMMA LeastPending ==
  ASSUME TypeInv, NEW w \in Worker, worker[w].pending # {}
  PROVE  Min(worker[w].pending) \in worker[w].pending /\ Min(worker[w].pending) \in Ids
  <1>1. worker[w].pending \subseteq Ids /\ Ids \subseteq Nat
    BY WorkFields DEF Ids, TypeInv
  <1> QED
    BY <1>1, MinIsMember

LEMMA SaveType ==
  ASSUME TypeInv, NEW w \in Worker, NEW on \in BOOLEAN, NEW number \in Number \cup {NoNumber},
         BeginSave(w, on, number)
  PROVE  TypeInv'
  <1> DEFINE work == [NoWork EXCEPT !.at = "save", !.to = number]
  <1>1. work \in Work /\ InHand(work)
    <2>1. 0 \in Day
      BY LimitAssumption DEF Day
    <2> QED
      BY <2>1 DEF Work, NoWork, InHand
  <1> QED
    BY <1>1, QuietType DEF BeginSave, TypeInv, TypeOK, history

LEMMA SaveRecipientType ==
  ASSUME TypeInv, NEW w \in Worker, SaveRecipient(w)
  PROVE  TypeInv'
  <1>1. recipient' \in Number \cup {NoNumber}
    BY WorkFields DEF SaveRecipient, TypeInv
  <1> QED
    BY <1>1, NoWorkType, QuietType DEF SaveRecipient, TypeInv, TypeOK, history

LEMMA BeginOnceType ==
  ASSUME TypeInv, NEW w \in Worker, BeginOnce(w)
  PROVE  TypeInv'
  <1> DEFINE work == [NoWork EXCEPT !.at = "load"]
  <1>1. work \in Work /\ InHand(work)
    BY LimitAssumption DEF Work, NoWork, InHand, Day
  <1> QED
    BY <1>1, QuietType DEF BeginOnce, TypeInv, TypeOK, history, settings

LEMMA DrainWorkType ==
  /\ [NoWork EXCEPT !.at = "drain"] \in Work
  /\ InHand([NoWork EXCEPT !.at = "drain"])
  BY LimitAssumption DEF Work, NoWork, InHand, Day

LEMMA LoadRecipientType ==
  ASSUME TypeInv, NEW w \in Worker, LoadRecipient(w)
  PROVE  TypeInv'
  <1>1. UNCHANGED <<enabled, recipient, messages, reached, ready, today, overlaps, faults>>
    BY DEF LoadRecipient, settings, history
  <1>2. CASE Step(w, NoWork)
    BY <1>1, <1>2, NoWorkType, QuietType DEF TypeInv, TypeOK
  <1>3. CASE recipient # NoNumber /\ Step(w, [NoWork EXCEPT !.at = "drain"])
    BY <1>1, <1>3, DrainWorkType, QuietType DEF TypeInv, TypeOK
  <1>4. ASSUME NEW due \in SUBSET Kind, recipient # NoNumber, due # {},
               Step(w, [NoWork EXCEPT !.at = "compose", !.to = recipient,
                                      !.day = today, !.todo = due])
        PROVE  TypeInv'
    <2> DEFINE work == [NoWork EXCEPT !.at = "compose", !.to = recipient,
                                      !.day = today, !.todo = due]
    <2>1. recipient \in Number /\ today \in Day
      BY <1>4 DEF TypeInv, TypeOK
    <2>2. work \in Work /\ InHand(work)
      BY <1>4, <2>1 DEF Work, NoWork, InHand
    <2> QED
      BY <1>1, <1>4, <2>2, QuietType DEF TypeInv, TypeOK
  <1> QED
    BY <1>2, <1>3, <1>4 DEF LoadRecipient

LEMMA ComposeType ==
  ASSUME TypeInv, NEW w \in Worker, Compose(w)
  PROVE  TypeInv'
  <1> DEFINE kind == Min(worker[w].todo)
             rest == worker[w].todo \ {kind}
             more == [worker[w] EXCEPT !.todo = rest]
  <1>1. worker[w].at = "compose" /\ worker[w].todo # {} /\ worker[w].to \in Number
        /\ worker[w].todo \subseteq Kind /\ worker[w].day \in Day
        /\ worker[w] \in Work /\ InHand(worker[w])
    BY WorkFields DEF Compose, TypeInv, InHand
  <1>2. kind \in Kind
    BY <1>1, KindAssumption, MinIsMember
  <1>3. TableOK' /\ Ids \subseteq Ids' /\ faults' \in 0..MaxFaults
    <2>1. CASE QueueMessage(kind, worker[w].day, worker[w].to) /\ UNCHANGED faults
      BY <1>1, <1>2, <2>1, QueueType DEF TypeInv, TypeOK
    <2>2. CASE MayFault("storage") /\ faults' = faults + 1 /\ UNCHANGED <<messages, reached>>
      BY <2>2, FaultType DEF TypeInv, TypeOK, TableOK, Ids
    <2> QED
      BY <2>1, <2>2 DEF Compose
  <1>4. rest # {} => more \in Work /\ InHand(more)
    BY <1>1 DEF Work, InHand
  <1>5. CASE rest = {} /\ Step(w, [NoWork EXCEPT !.at = "drain"])
    BY <1>3, <1>5, DrainWorkType, TableType DEF Compose, settings, TypeInv, TypeOK
  <1>6. CASE rest # {} /\ Step(w, more)
    BY <1>3, <1>4, <1>6, TableType DEF Compose, settings, TypeInv, TypeOK
  <1> QED
    BY <1>5, <1>6 DEF Compose

LEMMA TestType ==
  ASSUME TypeInv, NEW w \in Worker, BeginTest(w) \/ QueueTest(w)
  PROVE  TypeInv'
  <1>1. CASE BeginTest(w)
    <2> DEFINE work == [NoWork EXCEPT !.at = "test", !.to = recipient, !.day = today]
    <2>1. recipient \in Number /\ today \in Day
      BY <1>1 DEF BeginTest, TypeInv, TypeOK
    <2>2. work \in Work /\ InHand(work)
      BY <2>1 DEF Work, NoWork, InHand
    <2> QED
      BY <1>1, <2>2, QuietType DEF BeginTest, TypeInv, TypeOK, history, settings
  <1>2. CASE QueueTest(w)
    <2>1. worker[w].to \in Number /\ worker[w].day \in Day
      BY <1>2, WorkFields DEF QueueTest, TypeInv, InHand
    <2>2. CASE /\ QueueMessage(Test, worker[w].day, worker[w].to)
               /\ Step(w, [NoWork EXCEPT !.at = "drain"])
               /\ UNCHANGED faults
      <3>1. TableOK' /\ Ids \subseteq Ids'
        BY <2>1, <2>2, QueueType
      <3> QED
        BY <1>2, <2>2, <3>1, DrainWorkType, TableType
           DEF QueueTest, settings, TypeInv, TypeOK
    <2>3. CASE /\ MayFault("storage") /\ faults' = faults + 1
               /\ Step(w, NoWork)
               /\ UNCHANGED <<messages, reached>>
      BY <1>2, <2>3, FaultType, NoWorkType, QuietType
         DEF QueueTest, settings, TypeInv, TypeOK
    <2> QED
      BY <1>2, <2>2, <2>3 DEF QueueTest
  <1> QED
    BY <1>1, <1>2

LEMMA ListPendingType ==
  ASSUME TypeInv, NEW w \in Worker, ListPending(w)
  PROVE  TypeInv'
  <1> DEFINE pending == IF ready THEN Oldest(Queued, Batch) ELSE {}
             work == [worker[w] EXCEPT !.at = "send", !.pending = pending]
  <1>1. pending \subseteq Ids
    BY DEF Oldest, Queued
  <1>2. worker[w] \in Work
    BY WorkFields DEF TypeInv
  <1>3. pending # {} => work \in Work /\ InHand(work)
    BY <1>1, <1>2 DEF Work, InHand
  <1>4. UNCHANGED <<enabled, recipient, messages, reached, ready, today, faults>>
    BY DEF ListPending, settings
  <1>5. overlaps' \in Nat
    BY DEF ListPending, TypeInv, TypeOK
  <1>6. CASE pending = {} /\ Step(w, NoWork)
    BY <1>4, <1>5, <1>6, NoWorkType, QuietType DEF TypeInv, TypeOK
  <1>7. CASE pending # {} /\ Step(w, work)
    BY <1>3, <1>4, <1>5, <1>7, QuietType DEF TypeInv, TypeOK
  <1> QED
    BY <1>6, <1>7 DEF ListPending


LEMMA SendType ==
  ASSUME TypeInv, NEW w \in Worker, Send(w)
  PROVE  TypeInv'
  <1>1. worker[w] \in Work /\ worker[w].pending # {}
    BY WorkFields DEF Send, TypeInv, InHand
  <1>2. PICK at \in {"sent", "tried"} : Step(w, [worker[w] EXCEPT !.at = at])
    BY DEF Send
  <1> DEFINE work == [worker[w] EXCEPT !.at = at]
  <1>3. work \in Work /\ InHand(work)
    BY <1>1 DEF Work, InHand
  <1>4. faults' \in 0..MaxFaults
    BY FaultType DEF Send, TypeInv, TypeOK
  <1>5. reached' \in Seq(Nat) /\ Len(reached') = Len(reached)
    <2> DEFINE id == Min(worker[w].pending)
    <2>1. id \in Ids
      BY <1>1, LeastPending
    <2>2. CASE UNCHANGED reached
      BY <2>2 DEF TypeInv, TypeOK
    <2>3. CASE reached' = [reached EXCEPT ![id] = reached[id] + 1]
      <3>1. reached \in Seq(Nat) /\ id \in 1..Len(reached)
        BY <2>1 DEF TypeInv, TypeOK, Ids
      <3>2. reached[id] + 1 \in Nat
        BY <3>1
      <3> QED
        BY <2>3, <3>1, <3>2
    <2> QED
      BY <2>2, <2>3 DEF Send, Reaches
  <1>6. TableOK' /\ Ids' = Ids
    BY <1>5 DEF Send, TypeInv, TypeOK, TableOK, Ids
  <1> QED
    BY <1>2, <1>3, <1>4, <1>6, TableType DEF Send, settings, TypeInv, TypeOK

\* Marking a message keeps what it is.
LEMMA MarkedMessage ==
  ASSUME NEW m \in Message
  PROVE  /\ Sent(m) \in Message /\ Attempted(m) \in Message
         /\ Sent(m).kind = m.kind /\ Sent(m).day = m.day
         /\ Attempted(m).kind = m.kind /\ Attempted(m).day = m.day
  <1>1. m.attempts + 1 \in Nat
    BY DEF Message
  <1>2. Sent(m) = [m EXCEPT !.status = "sent", !.attempts = m.attempts + 1]
    BY DEF Sent, Message
  <1>3. PICK status \in {"failed", "queued"} :
          Attempted(m) = [m EXCEPT !.status = status, !.attempts = m.attempts + 1]
    BY DEF Attempted, Message
  <1> QED
    BY <1>1, <1>2, <1>3 DEF Message

LEMMA MarkType ==
  ASSUME TypeInv, NEW w \in Worker, Mark(w)
  PROVE  TypeInv'
  <1> DEFINE id == Min(worker[w].pending)
             rest == worker[w].pending \ {id}
             work == [worker[w] EXCEPT !.at = "send", !.pending = rest]
  <1>1. worker[w] \in Work /\ rest \subseteq Ids
    BY WorkFields DEF Mark, TypeInv
  <1>2. rest # {} => work \in Work /\ InHand(work)
    BY <1>1 DEF Work, InHand
  <1>3. faults' \in 0..MaxFaults
    BY FaultType DEF Mark, TypeInv, TypeOK
  <1>4. /\ messages' \in Seq(Message) /\ Len(messages') = Len(messages)
        /\ \A i \in Ids : messages'[i].kind = messages[i].kind
                          /\ messages'[i].day = messages[i].day
    <2>1. \A i \in Ids : messages[i] \in Message
      BY DEF TypeInv, TypeOK, Ids
    <2>2. id \in Ids
      BY LeastPending DEF Mark, TypeInv, InHand
    <2> DEFINE Marked(m) == /\ messages' = [messages EXCEPT ![id] = m]
                            /\ m \in Message
                            /\ m.kind = messages[id].kind /\ m.day = messages[id].day
    <2>3. CASE UNCHANGED messages
      BY <2>3 DEF TypeInv, TypeOK
    <2>4. ASSUME NEW m, Marked(m)
          PROVE  /\ messages' \in Seq(Message) /\ Len(messages') = Len(messages)
                 /\ \A i \in Ids : messages'[i].kind = messages[i].kind
                                   /\ messages'[i].day = messages[i].day
      BY <2>2, <2>4 DEF TypeInv, TypeOK, Ids
    <2>5. UNCHANGED messages \/ Marked(Sent(messages[id])) \/ Marked(Attempted(messages[id]))
      <3>1. messages[id] \in Message
        BY <2>1, <2>2
      <3>2. \/ UNCHANGED messages
            \/ messages' = [messages EXCEPT ![id] = Sent(messages[id])]
            \/ messages' = [messages EXCEPT ![id] = Attempted(messages[id])]
        BY DEF Mark
      <3> QED
        BY <3>1, <3>2, MarkedMessage
    <2> QED
      BY <2>3, <2>4, <2>5
  <1>5. TableOK' /\ Ids' = Ids
    BY <1>4 DEF Mark, history, TypeInv, TypeOK, TableOK, Ids
  <1>6. UNCHANGED <<enabled, recipient, ready, today, overlaps>>
    BY DEF Mark, settings, history
  <1>7. CASE rest = {} /\ Step(w, NoWork)
    BY <1>3, <1>5, <1>6, <1>7, NoWorkType, TableType DEF TypeInv, TypeOK
  <1>8. CASE rest # {} /\ Step(w, work)
    BY <1>2, <1>3, <1>5, <1>6, <1>8, TableType DEF TypeInv, TypeOK
  <1> QED
    BY <1>7, <1>8 DEF Mark

LEMMA SurroundingsType ==
  ASSUME TypeInv, Midnight \/ Channel \/ Stop \/ UNCHANGED vars
  PROVE  TypeInv'
  <1>1. UNCHANGED <<enabled, recipient, messages, reached, overlaps>>
    BY DEF Midnight, Channel, Stop, settings, history, vars
  <1>2. Ids' = Ids /\ Work' = Work
    BY <1>1 DEF Ids, Work
  <1>3. worker' \in [Worker -> Work] /\ \A w \in Worker : InHand(worker'[w])
    BY NoWorkType DEF Midnight, Channel, Stop, vars, TypeInv, TypeOK
  <1>4. today' \in Day
    BY LimitAssumption DEF Midnight, Channel, Stop, vars, TypeInv, TypeOK, Day
  <1>5. ready' \in BOOLEAN
    BY DEF Midnight, Channel, Stop, vars, TypeInv, TypeOK
  <1>6. faults' \in 0..MaxFaults
    BY FaultType DEF Midnight, Channel, Stop, vars, TypeInv, TypeOK
  <1> QED
    BY <1>1, <1>2, <1>3, <1>4, <1>5, <1>6 DEF TypeInv, TypeOK

LEMMA CancelType ==
  ASSUME TypeInv, NEW w \in Worker, Cancel(w)
  PROVE  TypeInv'
  BY FaultType, NoWorkType, QuietType DEF Cancel, settings, history, TypeInv, TypeOK

LEMMA TypeInvInductive == TypeInv /\ [Next]_vars => TypeInv'
  <1> SUFFICES ASSUME TypeInv, [Next]_vars PROVE TypeInv'
    OBVIOUS
  <1>1. CASE Midnight \/ Channel \/ Stop \/ UNCHANGED vars
    BY <1>1, SurroundingsType
  <1>2. ASSUME NEW w \in Worker, NEW on \in BOOLEAN,
               NEW number \in Number \cup {NoNumber}, BeginSave(w, on, number)
        PROVE  TypeInv'
    BY <1>2, SaveType
  <1>3. ASSUME NEW w \in Worker, BeginOnce(w) PROVE TypeInv'
    BY <1>3, BeginOnceType
  <1>4. ASSUME NEW w \in Worker, BeginTest(w) PROVE TypeInv'
    BY <1>4, TestType
  <1>5. ASSUME NEW w \in Worker, Working(w) PROVE TypeInv'
    BY <1>5, SaveRecipientType, LoadRecipientType, ComposeType, TestType, ListPendingType,
       SendType, MarkType DEF Working
  <1>6. ASSUME NEW w \in Worker, Cancel(w) PROVE TypeInv'
    BY <1>6, CancelType
  <1> QED
    BY <1>1, <1>2, <1>3, <1>4, <1>5, <1>6 DEF Next

\* The outbox keeps its types, and no kind is queued twice for a day, whatever
\* runs beside the tick and whatever fails.
THEOREM TypeCorrect == Spec => []TypeOK
  <1>1. TypeInv => TypeOK
    BY DEF TypeInv
  <1> QED
    BY <1>1, TypeInvInit, TypeInvInductive, PTL DEF Spec

-----------------------------------------------------------------------------
(* What the page shows as delivered has reached a phone.                   *)

\* A goroutine that is about to mark a message as sent has seen it go out.
DeliveredInv ==
  /\ SentIsDelivered
  /\ \A w \in Worker : worker[w].at = "sent" => reached[Min(worker[w].pending)] > 0

LEMMA LeastPendingNext ==
  ASSUME TypeInv', NEW w \in Worker, worker'[w].pending # {}
  PROVE  Min(worker'[w].pending) \in Ids'
  <1>1. worker'[w].pending \subseteq Ids' /\ Ids' \subseteq Nat
    BY DEF TypeInv, TypeOK, Work, Ids
  <1> QED
    BY <1>1, MinIsMember

\* A step that marks nothing and after which the goroutine has nothing to mark.
LEMMA QuietDelivered ==
  ASSUME TypeInv, TypeInv', DeliveredInv, NEW w \in Worker, NEW work,
         Step(w, work), work.at # "sent",
         \A id \in Ids : reached'[id] >= reached[id]
                         /\ (messages'[id].status = "sent" => messages[id].status = "sent"),
         \A id \in Ids' \ Ids : messages'[id].status # "sent"
  PROVE  DeliveredInv'
  <1>1. SentIsDelivered'
    <2> SUFFICES ASSUME NEW id \in Ids', messages'[id].status = "sent"
                 PROVE  reached'[id] > 0
      BY DEF SentIsDelivered
    <2>1. id \in Ids /\ messages[id].status = "sent"
      OBVIOUS
    <2>2. reached[id] > 0 /\ reached[id] \in Nat
      BY <2>1 DEF DeliveredInv, SentIsDelivered, TypeInv, TypeOK, Ids
    <2>3. reached'[id] \in Nat
      BY DEF TypeInv, TypeOK, Ids
    <2> QED
      BY <2>1, <2>2, <2>3
  <1>2. ASSUME NEW v \in Worker, worker'[v].at = "sent"
        PROVE  reached'[Min(worker'[v].pending)] > 0
    <2>1. worker[v] = worker'[v] /\ v # w
      BY <1>2 DEF Step, TypeInv, TypeOK
    <2> DEFINE id == Min(worker[v].pending)
    <2>2. id \in Ids
      BY <1>2, <2>1, LeastPending DEF TypeInv, InHand
    <2>3. reached[id] > 0 /\ reached[id] \in Nat
      BY <1>2, <2>1, <2>2 DEF DeliveredInv, TypeInv, TypeOK, Ids
    <2>4. id \in Ids'
      BY <1>2, <2>1, WorkFields, <2>2, LeastPendingNext DEF TypeInv, InHand
    <2>5. reached'[id] \in Nat
      BY <2>4 DEF TypeInv, TypeOK, Ids
    <2> QED
      BY <2>1, <2>2, <2>3, <2>5
  <1> QED
    BY <1>1, <1>2 DEF DeliveredInv

\* Queueing only adds a message that is queued and has reached nobody.
LEMMA QueueAdds ==
  ASSUME TypeInv, NEW kind, NEW day, NEW to,
         QueueMessage(kind, day, to) \/ UNCHANGED <<messages, reached>>
  PROVE  /\ Ids \subseteq Ids'
         /\ \A id \in Ids : messages'[id] = messages[id] /\ reached'[id] = reached[id]
         /\ \A id \in Ids' \ Ids : messages'[id].status = "queued" /\ reached'[id] = 0
  <1>1. CASE UNCHANGED <<messages, reached>>
    BY <1>1 DEF Ids
  <1>2. CASE /\ messages' = Append(messages, New(kind, day, to))
             /\ reached' = Append(reached, 0)
    <2>1. messages \in Seq(Message) /\ reached \in Seq(Nat) /\ Len(reached) = Len(messages)
      BY DEF TypeInv, TypeOK
    <2>2. Len(messages') = Len(messages) + 1 /\ Len(messages) \in Nat
      BY <1>2, <2>1
    <2>3. Ids' = Ids \cup {Len(messages) + 1}
      BY <2>2 DEF Ids
    <2>4. /\ \A id \in Ids : messages'[id] = messages[id] /\ reached'[id] = reached[id]
          /\ messages'[Len(messages) + 1] = New(kind, day, to)
          /\ reached'[Len(messages) + 1] = 0
      BY <1>2, <2>1 DEF Ids
    <2> QED
      BY <2>3, <2>4 DEF New
  <1> QED
    BY <1>1, <1>2 DEF QueueMessage

\* The steps before a drain: settings, composing, a test. They mark nothing and
\* the goroutine holds no listed message before or after.
LEMMA BeforeDrain ==
  ASSUME TypeInv, NEW w \in Worker,
         \/ \E on \in BOOLEAN, number \in Number \cup {NoNumber} : BeginSave(w, on, number)
         \/ SaveRecipient(w) \/ BeginOnce(w) \/ LoadRecipient(w) \/ Compose(w)
         \/ BeginTest(w) \/ QueueTest(w)
  PROVE  /\ \E work : /\ Step(w, work)
                      /\ work.pending = {} /\ work.at \notin {"send", "sent", "tried"}
         /\ worker[w].pending = {}
         /\ faults' \in {faults, faults + 1} /\ overlaps' = overlaps
         /\ \E kind, day, to : QueueMessage(kind, day, to) \/ UNCHANGED <<messages, reached>>
  <1>1. worker[w].pending = {}
    <2>1. CASE worker[w] = NoWork
      BY <2>1 DEF NoWork
    <2>2. CASE worker[w].at \in {"save", "load", "compose", "test"}
      BY <2>2 DEF TypeInv, InHand
    <2> QED
      BY <2>1, <2>2 DEF BeginSave, SaveRecipient, BeginOnce, LoadRecipient, Compose,
                        BeginTest, QueueTest, Idle
  <1>2. faults' \in {faults, faults + 1} /\ overlaps' = overlaps
    BY DEF BeginSave, SaveRecipient, BeginOnce, LoadRecipient, Compose,
           BeginTest, QueueTest, history
  <1>3. \E kind, day, to : QueueMessage(kind, day, to) \/ UNCHANGED <<messages, reached>>
    BY DEF BeginSave, SaveRecipient, BeginOnce, LoadRecipient, Compose,
           BeginTest, QueueTest, history
  <1> DEFINE Before(work) == work.pending = {} /\ work.at \notin {"send", "sent", "tried"}
  <1>4. /\ Before(NoWork)
        /\ Before([NoWork EXCEPT !.at = "drain"])
        /\ Before([NoWork EXCEPT !.at = "load"])
        /\ \A to : Before([NoWork EXCEPT !.at = "save", !.to = to])
        /\ \A to, day : Before([NoWork EXCEPT !.at = "test", !.to = to, !.day = day])
        /\ \A to, day, due : Before([NoWork EXCEPT !.at = "compose", !.to = to,
                                                   !.day = day, !.todo = due])
    BY DEF NoWork
  <1>5. worker[w].at = "compose" => \A rest : Before([worker[w] EXCEPT !.todo = rest])
    BY <1>1, WorkFields DEF TypeInv, Work
  <1>6. \E work : Step(w, work) /\ Before(work)
    <2>1. CASE \E on \in BOOLEAN, number \in Number \cup {NoNumber} : BeginSave(w, on, number)
      BY <1>4, <2>1 DEF BeginSave
    <2>2. CASE SaveRecipient(w) \/ BeginOnce(w) \/ BeginTest(w) \/ QueueTest(w)
      BY <1>4, <2>2 DEF SaveRecipient, BeginOnce, BeginTest, QueueTest
    <2>3. CASE LoadRecipient(w)
      BY <1>4, <2>3 DEF LoadRecipient
    <2>4. CASE Compose(w)
      BY <1>4, <1>5, <2>4 DEF Compose
    <2> QED
      BY <2>1, <2>2, <2>3, <2>4
  <1> QED
    BY <1>1, <1>2, <1>3, <1>6

\* One send, seen from the table: the message it is about, and what it counts.
LEMMA SendCounts ==
  ASSUME TypeInv, NEW w \in Worker, Send(w)
  PROVE  LET id == Min(worker[w].pending)
         IN /\ id \in worker[w].pending /\ id \in Ids
            /\ UNCHANGED <<messages, overlaps>>
            /\ \A i \in Ids \ {id} : reached'[i] = reached[i]
            /\ \/ /\ Step(w, [worker[w] EXCEPT !.at = "sent"])
                  /\ reached'[id] = reached[id] + 1 /\ faults' = faults
               \/ /\ Step(w, [worker[w] EXCEPT !.at = "tried"])
                  /\ reached'[id] = reached[id] /\ faults' = faults
               \/ /\ Step(w, [worker[w] EXCEPT !.at = "tried"])
                  /\ reached'[id] \in {reached[id], reached[id] + 1}
                  /\ faults' = faults + 1
  <1> DEFINE id == Min(worker[w].pending)
  <1>1. id \in worker[w].pending /\ id \in Ids
    BY LeastPending DEF Send, TypeInv, InHand
  <1>2. UNCHANGED <<messages, overlaps>>
    BY DEF Send
  <1>3. Reaches(id) => /\ reached'[id] = reached[id] + 1
                       /\ \A i \in Ids \ {id} : reached'[i] = reached[i]
    BY <1>1 DEF Reaches, TypeInv, TypeOK, Ids
  <1> QED
    BY <1>1, <1>2, <1>3 DEF Send

LEMMA DeliveredInductive ==
  TypeInv /\ TypeInv' /\ DeliveredInv /\ [Next]_vars => DeliveredInv'
  <1> SUFFICES ASSUME TypeInv, TypeInv', DeliveredInv, [Next]_vars PROVE DeliveredInv'
    OBVIOUS
  <1>t. \A id \in Ids : reached[id] \in Nat
    BY DEF TypeInv, TypeOK, Ids
  <1>1. CASE Midnight \/ Channel \/ UNCHANGED vars
    BY <1>1 DEF Midnight, Channel, history, vars, DeliveredInv, SentIsDelivered, Ids
  <1>2. CASE Stop
    <2>1. UNCHANGED <<messages, reached>> /\ \A w \in Worker : worker'[w].at = "idle"
      BY <1>2 DEF Stop, history, NoWork
    <2> QED
      BY <2>1 DEF DeliveredInv, SentIsDelivered, Ids
  <1>3. ASSUME NEW w \in Worker,
               \/ \E on \in BOOLEAN, number \in Number \cup {NoNumber} :
                    BeginSave(w, on, number)
               \/ SaveRecipient(w) \/ BeginOnce(w) \/ LoadRecipient(w) \/ Compose(w)
               \/ BeginTest(w) \/ QueueTest(w)
        PROVE  DeliveredInv'
    <2>1. PICK work : Step(w, work) /\ work.at # "sent"
      BY <1>3, BeforeDrain
    <2>2. PICK kind, day, to : QueueMessage(kind, day, to) \/ UNCHANGED <<messages, reached>>
      BY <1>3, BeforeDrain
    <2>3. /\ \A id \in Ids : messages'[id] = messages[id] /\ reached'[id] = reached[id]
          /\ \A id \in Ids' \ Ids : messages'[id].status = "queued"
      BY <2>2, QueueAdds
    <2> QED
      BY <1>t, <2>1, <2>3, QuietDelivered
  <1>4. ASSUME NEW w \in Worker, ListPending(w) \/ Cancel(w)
        PROVE  DeliveredInv'
    <2>1. UNCHANGED <<messages, reached>>
      BY <1>4 DEF ListPending, Cancel, history
    <2>2. \E work : Step(w, work) /\ work.at # "sent"
      <3>1. NoWork.at # "sent"
        BY DEF NoWork
      <3>2. \A pending : [worker[w] EXCEPT !.at = "send", !.pending = pending].at # "sent"
        BY WorkFields DEF TypeInv, Work
      <3> QED
        BY <1>4, <3>1, <3>2 DEF ListPending, Cancel
    <2> QED
      BY <1>t, <2>1, <2>2, QuietDelivered DEF Ids
  <1>5. ASSUME NEW w \in Worker, Send(w) PROVE DeliveredInv'
    <2> DEFINE id == Min(worker[w].pending)
    <2>1. CASE Step(w, [worker[w] EXCEPT !.at = "tried"])
      <3>1. [worker[w] EXCEPT !.at = "tried"].at # "sent"
        BY WorkFields DEF TypeInv, Work
      <3>2. /\ UNCHANGED messages
            /\ \A i \in Ids \ {id} : reached'[i] = reached[i]
            /\ id \in Ids /\ reached'[id] \in {reached[id], reached[id] + 1}
        BY <1>5, SendCounts
      <3>3. ASSUME NEW i \in Ids PROVE reached'[i] >= reached[i]
        <4>1. reached[i] \in Nat
          BY <1>t
        <4>2. reached'[i] \in {reached[i], reached[i] + 1}
          BY <3>2
        <4> QED
          BY <4>1, <4>2
      <3>4. Ids' = Ids /\ \A i \in Ids : messages'[i].status = messages[i].status
        BY <3>2 DEF Ids
      <3> QED
        BY <2>1, <3>1, <3>3, <3>4, QuietDelivered
    <2>2. CASE /\ Step(w, [worker[w] EXCEPT !.at = "sent"])
               /\ reached'[id] = reached[id] + 1
      <3>1. id \in Ids /\ UNCHANGED messages /\ Ids' = Ids
            /\ \A i \in Ids \ {id} : reached'[i] = reached[i]
        BY <1>5, SendCounts DEF Ids
      <3>2. SentIsDelivered'
        BY <1>t, <2>2, <3>1 DEF DeliveredInv, SentIsDelivered
      <3>3. ASSUME NEW v \in Worker, worker'[v].at = "sent"
            PROVE  reached'[Min(worker'[v].pending)] > 0
        <4>1. worker'[v].pending = worker[v].pending
          BY <2>2, WorkFields DEF Step, TypeInv, TypeOK, Work
        <4>2. CASE Min(worker[v].pending) = id
          BY <1>t, <2>2, <3>1, <4>1, <4>2
        <4>3. CASE Min(worker[v].pending) # id
          <5>1. v # w /\ worker[v].at = "sent"
            BY <2>2, <3>3, <4>3 DEF Step, TypeInv, TypeOK
          <5>2. Min(worker[v].pending) \in Ids
            BY <5>1, LeastPending DEF TypeInv, InHand
          <5> QED
            BY <3>1, <4>1, <4>3, <5>1, <5>2 DEF DeliveredInv
        <4> QED
          BY <4>2, <4>3
      <3> QED
        BY <3>2, <3>3 DEF DeliveredInv
    <2> QED
      BY <1>5, <2>1, <2>2, SendCounts
  <1>6. ASSUME NEW w \in Worker, Mark(w) PROVE DeliveredInv'
    <2> DEFINE id == Min(worker[w].pending)
               rest == worker[w].pending \ {id}
    <2>1. id \in Ids /\ UNCHANGED reached /\ Len(messages') = Len(messages)
      BY <1>6, LeastPending DEF Mark, history, TypeInv, TypeOK, InHand
    <2>2. \E work : Step(w, work) /\ work.at # "sent"
      <3>1. NoWork.at # "sent"
        BY DEF NoWork
      <3>2. [worker[w] EXCEPT !.at = "send", !.pending = rest].at # "sent"
        BY WorkFields DEF TypeInv, Work
      <3> QED
        BY <1>6, <3>1, <3>2 DEF Mark
    <2>3. \A i \in Ids \ {id} : messages'[i] = messages[i]
      BY <1>6, <2>1 DEF Mark, TypeInv, TypeOK, Ids
    <2>4. ASSUME messages'[id].status = "sent", messages[id].status # "sent"
          PROVE  worker[w].at = "sent" /\ reached[id] > 0
      <3>1. messages[id] \in Message
        BY <2>1 DEF TypeInv, TypeOK, Ids
      <3>2. Attempted(messages[id]).status # "sent"
        BY <3>1 DEF Attempted, Message
      <3>3. worker[w].at = "sent"
        BY <1>6, <2>1, <2>4, <3>2 DEF Mark, TypeInv, TypeOK, Ids
      <3> QED
        BY <3>3 DEF DeliveredInv
    <2>5. SentIsDelivered'
      BY <2>1, <2>3, <2>4 DEF DeliveredInv, SentIsDelivered, Ids
    <2>6. ASSUME NEW v \in Worker, worker'[v].at = "sent"
          PROVE  reached'[Min(worker'[v].pending)] > 0
      BY <2>1, <2>2, <2>6 DEF Step, DeliveredInv, TypeInv, TypeOK
    <2> QED
      BY <2>5, <2>6 DEF DeliveredInv
  <1> QED
    BY <1>1, <1>2, <1>3, <1>4, <1>5, <1>6 DEF Next, Working

\* The page never claims a delivery that did not happen.
THEOREM ShowsWhatWasDelivered == Spec => []SentIsDelivered
  <1>1. Init => TypeInv /\ DeliveredInv
    BY TypeInvInit DEF Init, DeliveredInv, SentIsDelivered, Ids, NoWork
  <1>2. TypeInv /\ DeliveredInv /\ [Next]_vars => TypeInv' /\ DeliveredInv'
    BY TypeInvInductive, DeliveredInductive
  <1>3. DeliveredInv => SentIsDelivered
    BY DEF DeliveredInv
  <1> QED
    BY <1>1, <1>2, <1>3, PTL DEF Spec

-----------------------------------------------------------------------------
(* Every repetition has a cause.                                           *)

\* The goroutine is still going to send the message; it failed to and has not
\* recorded that yet.
ToSend(work, id) == id \in work.pending /\ (work.at = "send" \/ id # Min(work.pending))
Failing(work, id) == work.at = "tried" /\ id \in work.pending /\ id = Min(work.pending)

Ahead(id) == {w \in Worker : ToSend(worker[w], id)}
Spent(id) == reached[id] + Cardinality(Ahead(id))
Causes == faults + overlaps

\* What was delivered and what is still going to be: a failed attempt, and a
\* queued message in nobody's hands, leave room for one more.
Bounded(id) ==
  /\ Spent(id) <= 1 + Causes
  /\ (\E w \in Worker : Failing(worker[w], id)) => Spent(id) <= Causes
  /\ id \in Queued /\ (\A w \in Worker : id \notin worker[w].pending) => Spent(id) <= Causes
RepeatInv == \A id \in Ids : Bounded(id)

\* A step of one goroutine adds or removes at most that goroutine.
LEMMA AheadStep ==
  ASSUME TypeInv, NEW w \in Worker, NEW work, Step(w, work), NEW id
  PROVE  /\ Cardinality(Ahead(id)) \in Nat /\ Cardinality(Ahead(id)') \in Nat
         /\ (ToSend(work, id) <=> ToSend(worker[w], id))
              => Cardinality(Ahead(id)') = Cardinality(Ahead(id))
         /\ ToSend(worker[w], id) /\ ~ToSend(work, id)
              => Cardinality(Ahead(id)') = Cardinality(Ahead(id)) - 1
         /\ ~ToSend(worker[w], id) /\ ToSend(work, id)
              => Cardinality(Ahead(id)') = Cardinality(Ahead(id)) + 1
  <1> DEFINE A == Ahead(id)
             B == {v \in Worker : ToSend(worker'[v], id)}
  <1>1. Ahead(id)' = B
    BY DEF Ahead
  <1>2. IsFiniteSet(A) /\ IsFiniteSet(B)
    BY WorkerAssumption, FS_Subset DEF Ahead
  <1>3. Cardinality(A) \in Nat /\ Cardinality(B) \in Nat
    BY <1>2, FS_CardinalityType
  <1>4. worker'[w] = work /\ \A v \in Worker \ {w} : worker'[v] = worker[v]
    BY DEF Step, TypeInv, TypeOK
  <1>5. ASSUME ToSend(work, id) <=> ToSend(worker[w], id) PROVE B = A
    BY <1>4, <1>5 DEF Ahead
  <1>6. ASSUME ToSend(worker[w], id), ~ToSend(work, id)
        PROVE  Cardinality(B) = Cardinality(A) - 1
    <2>1. w \in A /\ B = A \ {w}
      BY <1>4, <1>6 DEF Ahead
    <2> QED
      BY <1>2, <2>1, FS_RemoveElement
  <1>7. ASSUME ~ToSend(worker[w], id), ToSend(work, id)
        PROVE  Cardinality(B) = Cardinality(A) + 1
    <2>1. w \notin A /\ B = A \cup {w}
      BY <1>4, <1>7 DEF Ahead
    <2> QED
      BY <1>2, <2>1, FS_AddElement
  <1> QED
    BY <1>1, <1>3, <1>5, <1>6, <1>7

\* The numbers the bound is about.
LEMMA Counts ==
  ASSUME TypeInv
  PROVE  /\ Causes \in Nat
         /\ \A id \in Ids : reached[id] \in Nat /\ Cardinality(Ahead(id)) \in Nat
  <1>1. \A id : IsFiniteSet(Ahead(id))
    BY WorkerAssumption, FS_Subset DEF Ahead
  <1>2. \A id : Cardinality(Ahead(id)) \in Nat
    BY <1>1, FS_CardinalityType
  <1>3. faults \in Nat /\ overlaps \in Nat
    BY LimitAssumption DEF TypeInv, TypeOK
  <1> QED
    BY <1>2, <1>3 DEF Causes, TypeInv, TypeOK, Ids

\* Nothing sent is within any bound.
LEMMA Room == ASSUME NEW c \in Nat PROVE 0 <= 1 + c
  OBVIOUS

\* A step with nothing listed before or after changes no message's count.
LEMMA QuietRepeat ==
  ASSUME TypeInv, TypeInv', RepeatInv, NEW w \in Worker, NEW work, Step(w, work),
         worker[w].pending = {}, work.pending = {},
         faults' \in {faults, faults + 1}, overlaps' = overlaps, Ids \subseteq Ids',
         \A id \in Ids : messages'[id] = messages[id] /\ reached'[id] = reached[id],
         \A id \in Ids' \ Ids : reached'[id] = 0
  PROVE  RepeatInv'
  <1>1. worker'[w] = work /\ \A v \in Worker \ {w} : worker'[v] = worker[v]
    BY DEF Step, TypeInv, TypeOK
  <1>2. Causes \in Nat /\ Causes' \in Nat /\ Causes' >= Causes
    <2>1. faults \in Nat /\ overlaps \in Nat
      BY LimitAssumption DEF TypeInv, TypeOK
    <2>2. faults' = faults \/ faults' = faults + 1
      OBVIOUS
    <2>3. CASE faults' = faults
      BY <2>1, <2>3 DEF Causes
    <2>4. CASE faults' = faults + 1
      BY <2>1, <2>4 DEF Causes
    <2> QED
      BY <2>2, <2>3, <2>4
  <1>3. \A id : ~ToSend(worker[w], id) /\ ~ToSend(work, id)
    BY DEF ToSend
  <1>4. \A id : ~Failing(worker'[w], id)
    BY <1>1 DEF Failing
  <1>5. ASSUME NEW id \in Ids PROVE Bounded(id)'
    <2>1. Cardinality(Ahead(id)') = Cardinality(Ahead(id))
      BY <1>3, AheadStep
    <2>2. Spent(id)' = Spent(id) /\ Spent(id) \in Nat
      BY <2>1, Counts DEF Spent
    <2>3. \A v \in Worker : Failing(worker'[v], id) => Failing(worker[v], id)
      BY <1>1, <1>4
    <2>4. \A v \in Worker : id \in worker[v].pending => id \in worker'[v].pending
      BY <1>1
    <2>5. id \in Queued' => id \in Queued
      BY DEF Queued
    <2>6. Bounded(id)
      BY DEF RepeatInv
    <2> QED
      BY <1>2, <2>2, <2>3, <2>4, <2>5, <2>6 DEF Bounded
  <1>6. ASSUME NEW id \in Ids' \ Ids PROVE Bounded(id)'
    <2>1. \A v \in Worker : id \notin worker'[v].pending
      BY <1>1, WorkFields DEF TypeInv
    <2>2. Ahead(id)' = {}
      BY <2>1 DEF Ahead, ToSend
    <2>3. Spent(id)' = 0
      BY <2>2, FS_EmptySet DEF Spent
    <2>4. Spent(id)' <= Causes'
      BY <1>2, <2>3
    <2>5. Spent(id)' <= 1 + Causes'
      BY <1>2, <2>3, Room
    <2> QED
      BY <2>4, <2>5 DEF Bounded
  <1> QED
    BY <1>5, <1>6 DEF RepeatInv

\* A stop or a cancelled request: what was listed is dropped, and that counts.
LEMMA DropRepeat ==
  ASSUME TypeInv, TypeInv', RepeatInv, UNCHANGED <<messages, reached, overlaps>>,
         faults' = faults + 1,
         \A w \in Worker : worker'[w] \in {worker[w], NoWork}
  PROVE  RepeatInv'
  <1> SUFFICES ASSUME NEW id \in Ids PROVE Bounded(id)'
    BY DEF RepeatInv, Ids
  <1>1. Ahead(id)' \subseteq Ahead(id)
    BY DEF Ahead, ToSend, NoWork
  <1>2. IsFiniteSet(Ahead(id))
    BY WorkerAssumption, FS_Subset DEF Ahead
  <1>3. Cardinality(Ahead(id)') <= Cardinality(Ahead(id)) /\ Cardinality(Ahead(id)') \in Nat
    BY <1>1, <1>2, FS_Subset, FS_CardinalityType
  <1>4. Causes' = Causes + 1 /\ Causes \in Nat
    BY Counts, LimitAssumption DEF Causes, TypeInv, TypeOK
  <1>5. Spent(id)' <= Spent(id) /\ Spent(id) \in Nat /\ Spent(id)' \in Nat
    BY <1>3, Counts DEF Spent
  <1>6. Spent(id) <= 1 + Causes
    BY DEF RepeatInv, Bounded
  <1> QED
    BY <1>4, <1>5, <1>6 DEF Bounded

\* A drain begins: alone it finds only messages with room for one more send, and
\* beside another one it counts as a cause.
LEMMA ListRepeat ==
  ASSUME TypeInv, TypeInv', RepeatInv, NEW w \in Worker, ListPending(w)
  PROVE  RepeatInv'
  <1> DEFINE pending == IF ready THEN Oldest(Queued, Batch) ELSE {}
             work == IF pending = {} THEN NoWork
                     ELSE [worker[w] EXCEPT !.at = "send", !.pending = pending]
             beside == pending # {} /\ \E v \in Worker : Draining(v)
  <1>1. /\ Step(w, work) /\ UNCHANGED <<messages, reached, faults>>
        /\ overlaps' = IF beside THEN overlaps + 1 ELSE overlaps
    BY DEF ListPending, settings
  <1>2. pending \subseteq Queued
    BY DEF Oldest
  <1>3. work.pending = pending /\ (pending # {} => work.at = "send") /\ work.at # "tried"
    BY WorkFields DEF NoWork, TypeInv, Work
  <1>4. worker[w].pending = {}
    BY DEF ListPending, TypeInv, InHand
  <1>5. worker'[w] = work /\ \A v \in Worker \ {w} : worker'[v] = worker[v]
    BY <1>1 DEF Step, TypeInv, TypeOK
  <1> SUFFICES ASSUME NEW id \in Ids PROVE Bounded(id)'
    BY <1>1 DEF RepeatInv, Ids
  <1>6. Bounded(id)
    BY DEF RepeatInv
  <1>7. ASSUME NEW v \in Worker, Failing(worker'[v], id) PROVE Failing(worker[v], id)
    <2>1. v # w
      BY <1>3, <1>5, <1>7 DEF Failing
    <2> QED
      BY <1>5, <1>7, <2>1
  <1>8. Causes \in Nat /\ Spent(id) \in Nat
    BY Counts DEF Spent
  <1>9. ~ToSend(worker[w], id) /\ (ToSend(work, id) <=> id \in pending)
    BY <1>3, <1>4 DEF ToSend
  <1>10. CASE id \notin pending
    <2>1. Cardinality(Ahead(id)') = Cardinality(Ahead(id))
      BY <1>1, <1>9, <1>10, AheadStep
    <2>2. Spent(id)' = Spent(id)
      BY <1>1, <2>1 DEF Spent
    <2>3. Causes' \in {Causes, Causes + 1}
      BY <1>1 DEF Causes, TypeInv, TypeOK
    <2>4. \A v \in Worker : id \in worker[v].pending <=> id \in worker'[v].pending
      BY <1>3, <1>4, <1>5, <1>10
    <2>5. Queued' = Queued
      BY <1>1 DEF Queued, Ids
    <2> QED
      BY <1>6, <1>7, <1>8, <2>2, <2>3, <2>4, <2>5 DEF Bounded
  <1>11. CASE id \in pending
    <2>1. Cardinality(Ahead(id)') = Cardinality(Ahead(id)) + 1
      BY <1>1, <1>9, <1>11, AheadStep
    <2>2. Spent(id)' = Spent(id) + 1
      BY <1>1, <2>1, Counts DEF Spent
    <2>3. id \in worker'[w].pending
      BY <1>3, <1>5, <1>11
    <2>4. CASE beside
      <3>1. Causes' = Causes + 1
        BY <1>1, <2>4 DEF Causes, TypeInv, TypeOK
      <3> QED
        BY <1>6, <1>7, <1>8, <2>2, <2>3, <3>1 DEF Bounded
    <2>5. CASE ~beside
      <3>1. \A v \in Worker : worker[v].pending = {}
        BY <1>11, <2>5 DEF Draining, TypeInv, InHand
      <3>2. Spent(id) <= Causes
        BY <1>2, <1>6, <1>11, <3>1 DEF Bounded
      <3>3. Causes' = Causes
        BY <1>1, <2>5 DEF Causes
      <3>4. \A v \in Worker : ~Failing(worker'[v], id)
        BY <1>7, <3>1 DEF Failing
      <3> QED
        BY <1>8, <2>2, <2>3, <3>2, <3>3, <3>4 DEF Bounded
    <2> QED
      BY <2>4, <2>5
  <1> QED
    BY <1>10, <1>11

\* One send takes the goroutine off the list of those ahead; a failure leaves
\* room, a delivery that looks like a failure is a cause.
LEMMA SendRepeat ==
  ASSUME TypeInv, TypeInv', RepeatInv, NEW w \in Worker, Send(w)
  PROVE  RepeatInv'
  <1> DEFINE least == Min(worker[w].pending)
  <1>1. /\ least \in worker[w].pending /\ least \in Ids
        /\ UNCHANGED <<messages, overlaps>>
        /\ \A i \in Ids \ {least} : reached'[i] = reached[i]
    BY SendCounts
  <1>2. PICK at \in {"sent", "tried"} :
          /\ Step(w, [worker[w] EXCEPT !.at = at])
          /\ \/ at = "sent" /\ reached'[least] = reached[least] + 1 /\ faults' = faults
             \/ at = "tried" /\ reached'[least] = reached[least] /\ faults' = faults
             \/ /\ at = "tried" /\ faults' = faults + 1
                /\ reached'[least] \in {reached[least], reached[least] + 1}
    BY SendCounts
  <1> DEFINE work == [worker[w] EXCEPT !.at = at]
  <1>3. work.at = at /\ work.pending = worker[w].pending /\ worker[w].at = "send"
    BY WorkFields DEF Send, TypeInv, Work
  <1>4. worker'[w] = work /\ \A v \in Worker \ {w} : worker'[v] = worker[v]
    BY <1>2 DEF Step, TypeInv, TypeOK
  <1>5. Queued' = Queued
    BY <1>1 DEF Queued, Ids
  <1>6. \A v \in Worker : worker'[v].pending = worker[v].pending
    BY <1>3, <1>4
  <1>7. faults \in Nat /\ overlaps \in Nat
    BY LimitAssumption DEF TypeInv, TypeOK
  <1>8. Causes \in Nat /\ Causes' \in {Causes, Causes + 1}
        /\ (faults' = faults => Causes' = Causes)
        /\ (faults' = faults + 1 => Causes' = Causes + 1)
    BY <1>1, <1>2, <1>7 DEF Causes
  <1> SUFFICES ASSUME NEW id \in Ids PROVE Bounded(id)'
    BY <1>1 DEF RepeatInv, Ids
  <1>9. Bounded(id)
    BY DEF RepeatInv
  <1>10. Spent(id) \in Nat /\ reached[id] \in Nat /\ Cardinality(Ahead(id)) \in Nat
    BY Counts DEF Spent
  <1>11. CASE id # least
    <2>1. ToSend(work, id) <=> ToSend(worker[w], id)
      BY <1>3, <1>11 DEF ToSend
    <2>2. Spent(id)' = Spent(id)
      BY <1>1, <1>2, <1>11, <2>1, AheadStep DEF Spent
    <2>3. \A v \in Worker : Failing(worker'[v], id) => Failing(worker[v], id)
      BY <1>3, <1>4, <1>11 DEF Failing
    <2> QED
      BY <1>5, <1>6, <1>8, <1>9, <1>10, <2>2, <2>3 DEF Bounded
  <1>12. CASE id = least
    <2>1. ToSend(worker[w], id) /\ ~ToSend(work, id)
      BY <1>1, <1>3, <1>12 DEF ToSend
    <2>2. Cardinality(Ahead(id)') = Cardinality(Ahead(id)) - 1
      BY <1>2, <2>1, AheadStep
    <2>3. id \in worker'[w].pending
      BY <1>1, <1>6, <1>12
    <2>4. CASE at = "sent" /\ reached'[id] = reached[id] + 1 /\ faults' = faults
      <3>1. Spent(id)' = Spent(id)
        BY <1>10, <2>2, <2>4 DEF Spent
      <3>2. \A v \in Worker : Failing(worker'[v], id) => Failing(worker[v], id)
        BY <1>3, <1>4, <2>4 DEF Failing
      <3> QED
        BY <1>8, <1>9, <2>3, <2>4, <3>1, <3>2 DEF Bounded
    <2>5. CASE reached'[id] = reached[id] /\ faults' = faults
      <3>1. Spent(id)' = Spent(id) - 1
        BY <1>10, <2>2, <2>5 DEF Spent
      <3> QED
        BY <1>8, <1>9, <1>10, <2>5, <3>1 DEF Bounded
    <2>6. CASE faults' = faults + 1 /\ reached'[id] \in {reached[id], reached[id] + 1}
      <3>1. Spent(id)' \in {Spent(id), Spent(id) - 1}
        BY <1>10, <2>2, <2>6 DEF Spent
      <3> QED
        BY <1>8, <1>9, <1>10, <2>6, <3>1 DEF Bounded
    <2> QED
      BY <1>2, <1>12, <2>4, <2>5, <2>6
  <1> QED
    BY <1>11, <1>12

\* A mark gives the message out of hand: it is not queued any more, or a failed
\* attempt left room, or the mark was lost, which is a cause.
LEMMA MarkRepeat ==
  ASSUME TypeInv, TypeInv', RepeatInv, NEW w \in Worker, Mark(w)
  PROVE  RepeatInv'
  <1> DEFINE least == Min(worker[w].pending)
             rest == worker[w].pending \ {least}
             work == IF rest = {} THEN NoWork
                     ELSE [worker[w] EXCEPT !.at = "send", !.pending = rest]
  <1>1. least \in worker[w].pending /\ least \in Ids
    BY LeastPending DEF Mark, TypeInv, InHand
  <1>2. /\ Step(w, work) /\ UNCHANGED <<reached, overlaps>>
        /\ worker[w].at \in {"sent", "tried"}
    BY DEF Mark, history
  <1>3. work.pending = rest /\ work.at \in {"idle", "send"}
    BY WorkFields DEF NoWork, TypeInv, Work
  <1>4. worker'[w] = work /\ \A v \in Worker \ {w} : worker'[v] = worker[v]
    BY <1>2 DEF Step, TypeInv, TypeOK
  <1>5. Ids' = Ids /\ \A i \in Ids \ {least} : messages'[i] = messages[i]
    BY <1>1 DEF Mark, Ids, TypeInv, TypeOK
  <1>6. faults \in Nat /\ overlaps \in Nat
    BY LimitAssumption DEF TypeInv, TypeOK
  <1>7. /\ faults' = faults \/ faults' = faults + 1
        /\ faults' = faults => Causes' = Causes
        /\ faults' = faults + 1 => Causes' = Causes + 1
        /\ Causes \in Nat
    BY <1>2, <1>6 DEF Mark, Causes
  <1> SUFFICES ASSUME NEW id \in Ids PROVE Bounded(id)'
    BY <1>5 DEF RepeatInv
  <1>8. Bounded(id) /\ Spent(id) \in Nat
    BY Counts DEF RepeatInv, Spent
  <1>9. Spent(id)' = Spent(id)
    <2>1. ToSend(work, id) <=> ToSend(worker[w], id)
      <3>1. ToSend(worker[w], id) <=> id \in rest
        BY <1>2 DEF ToSend
      <3>2. id \in rest => work.at = "send"
        BY WorkFields DEF TypeInv, Work
      <3>3. ToSend(work, id) <=> id \in rest
        BY <1>3, <3>2 DEF ToSend
      <3> QED
        BY <3>1, <3>3
    <2> QED
      BY <1>2, <2>1, AheadStep DEF Spent
  <1>10. ASSUME NEW v \in Worker, Failing(worker'[v], id) PROVE Failing(worker[v], id)
    <2>1. v # w
      BY <1>3, <1>4, <1>10 DEF Failing
    <2> QED
      BY <1>4, <1>10, <2>1
  <1>11. /\ Spent(id)' <= 1 + Causes'
         /\ (\E v \in Worker : Failing(worker'[v], id)) => Spent(id)' <= Causes'
    BY <1>7, <1>8, <1>9, <1>10 DEF Bounded
  <1>12. ASSUME id \in Queued', \A v \in Worker : id \notin worker'[v].pending
         PROVE  Spent(id)' <= Causes'
    <2>1. CASE id # least
      <3>1. id \in Queued
        BY <1>5, <1>12, <2>1 DEF Queued
      <3>2. \A v \in Worker : id \notin worker[v].pending
        BY <1>3, <1>4, <1>12, <2>1
      <3> QED
        BY <1>7, <1>8, <1>9, <3>1, <3>2 DEF Bounded
    <2>2. CASE id = least /\ worker[w].at = "tried"
      <3>1. Failing(worker[w], id)
        BY <1>1, <2>2 DEF Failing
      <3> QED
        BY <1>7, <1>8, <1>9, <3>1 DEF Bounded
    <2>3. CASE id = least /\ worker[w].at = "sent"
      <3>1. faults' = faults + 1
        <4>1. SUFFICES ASSUME messages' = [messages EXCEPT ![least] = Sent(messages[least])]
                       PROVE  FALSE
          BY <1>7, <2>3 DEF Mark
        <4>2. messages \in Seq(Message) /\ messages[least] \in Message
          BY <1>1 DEF TypeInv, TypeOK, Ids
        <4>3. Sent(messages[least]).status = "sent"
          BY <4>2 DEF Sent, Message
        <4>4. messages'[least].status = "sent"
          BY <1>1, <4>1, <4>2, <4>3 DEF Ids
        <4> QED
          BY <1>12, <2>3, <4>4 DEF Queued
      <3> QED
        BY <1>7, <1>8, <1>9, <3>1 DEF Bounded
    <2> QED
      BY <1>2, <2>1, <2>2, <2>3
  <1> QED
    BY <1>11, <1>12 DEF Bounded

LEMMA RepeatInductive == TypeInv /\ TypeInv' /\ RepeatInv /\ [Next]_vars => RepeatInv'
  <1> SUFFICES ASSUME TypeInv, TypeInv', RepeatInv, [Next]_vars PROVE RepeatInv'
    OBVIOUS
  <1>1. CASE Midnight \/ Channel \/ UNCHANGED vars
    <2>1. UNCHANGED <<messages, worker, reached, faults, overlaps>>
      BY <1>1 DEF Midnight, Channel, history, vars
    <2> QED
      BY <2>1 DEF RepeatInv, Bounded, Spent, Ahead, Causes, Queued, Ids
  <1>2. CASE Stop
    BY <1>2, DropRepeat DEF Stop, history
  <1>3. ASSUME NEW w \in Worker, Cancel(w) PROVE RepeatInv'
    <2>1. \A v \in Worker : worker'[v] \in {worker[v], NoWork}
      BY <1>3 DEF Cancel, Step, TypeInv, TypeOK
    <2> QED
      BY <1>3, <2>1, DropRepeat DEF Cancel, history
  <1>4. ASSUME NEW w \in Worker,
               \/ \E on \in BOOLEAN, number \in Number \cup {NoNumber} :
                    BeginSave(w, on, number)
               \/ SaveRecipient(w) \/ BeginOnce(w) \/ LoadRecipient(w) \/ Compose(w)
               \/ BeginTest(w) \/ QueueTest(w)
        PROVE  RepeatInv'
    <2>1. PICK work : Step(w, work) /\ work.pending = {}
      BY <1>4, BeforeDrain
    <2>2. worker[w].pending = {} /\ faults' \in {faults, faults + 1} /\ overlaps' = overlaps
      BY <1>4, BeforeDrain
    <2>3. PICK kind, day, to : QueueMessage(kind, day, to) \/ UNCHANGED <<messages, reached>>
      BY <1>4, BeforeDrain
    <2>4. /\ Ids \subseteq Ids'
          /\ \A id \in Ids : messages'[id] = messages[id] /\ reached'[id] = reached[id]
          /\ \A id \in Ids' \ Ids : reached'[id] = 0
      BY <2>3, QueueAdds
    <2> QED
      BY <2>1, <2>2, <2>4, QuietRepeat
  <1>5. ASSUME NEW w \in Worker, ListPending(w) \/ Send(w) \/ Mark(w) PROVE RepeatInv'
    BY <1>5, ListRepeat, SendRepeat, MarkRepeat
  <1> QED
    BY <1>1, <1>2, <1>3, <1>4, <1>5 DEF Next, Working

\* An alert or a summary is in the outbox once for its day, and it reaches the
\* owner again only as often as there were faults and overlapping drains: for any
\* number of requests beside the tick.  No schedule repeats a message without one.
THEOREM RepeatsHaveCauses == Spec => []RepeatsExplained
  <1>1. Init => TypeInv /\ RepeatInv
    BY TypeInvInit DEF Init, RepeatInv, Ids
  <1>2. TypeInv /\ RepeatInv /\ [Next]_vars => TypeInv' /\ RepeatInv'
    BY TypeInvInductive, RepeatInductive
  <1>3. TypeInv /\ RepeatInv => RepeatsExplained
    <2> SUFFICES ASSUME TypeInv, RepeatInv, NEW id \in Alerts
                 PROVE  /\ CopiesOf(messages[id]) = {id}
                        /\ reached[id] <= 1 + faults + overlaps
      BY DEF RepeatsExplained
    <2>1. id \in Ids /\ messages[id].kind # Test
      BY DEF Alerts
    <2>2. CopiesOf(messages[id]) = {id}
      BY <2>1 DEF CopiesOf, TypeInv, TypeOK
    <2>3. Spent(id) <= 1 + Causes
      BY <2>1 DEF RepeatInv, Bounded
    <2>4. faults \in Nat /\ overlaps \in Nat
      BY LimitAssumption DEF TypeInv, TypeOK
    <2> QED
      BY <2>1, <2>2, <2>3, <2>4, Counts DEF Spent, Causes
  <1> QED
    BY <1>1, <1>2, <1>3, PTL DEF Spec
-----------------------------------------------------------------------------
(* What is settled stays settled.                                          *)

\* As long as no two drains overlapped, one goroutine at most holds messages,
\* and every message it holds is still queued.
AloneInv ==
  overlaps = 0 => \A w \in Worker :
    /\ worker[w].pending \subseteq Queued
    /\ worker[w].pending # {} => \A v \in Worker \ {w} : worker[v].pending = {}

\* What a step leaves alone.
Settled ==
  overlaps = 0 => \A id \in Ids \ Queued :
    messages'[id] = messages[id] /\ reached'[id] = reached[id]

\* A step after which every goroutine holds what it held, or nothing.
LEMMA AloneKept ==
  ASSUME TypeInv, AloneInv, Ids \subseteq Ids',
         \A id \in Ids : messages'[id] = messages[id],
         \A w \in Worker : worker'[w].pending \in {worker[w].pending, {}},
         overlaps' = 0 => overlaps = 0
  PROVE  AloneInv'
  <1>1. Queued \subseteq Queued'
    BY DEF Queued
  <1> QED
    BY <1>1 DEF AloneInv

LEMMA ListAlone == ASSUME TypeInv, AloneInv, NEW w \in Worker, ListPending(w)
                   PROVE  AloneInv' /\ Settled
  <1> DEFINE pending == IF ready THEN Oldest(Queued, Batch) ELSE {}
  <1>1. UNCHANGED <<messages, reached>> /\ Ids' = Ids /\ Queued' = Queued
    BY DEF ListPending, Ids, Queued
  <1>2. pending \subseteq Queued
    BY DEF Oldest
  <1>3. Step(w, IF pending = {} THEN NoWork
                ELSE [worker[w] EXCEPT !.at = "send", !.pending = pending])
    BY DEF ListPending
  <1>4. \A v \in Worker : Draining(v) <=> worker[v].pending # {}
    BY DEF TypeInv, InHand, Draining
  <1>5. overlaps' = IF pending # {} /\ \E v \in Worker : Draining(v) THEN overlaps + 1 ELSE overlaps
    BY DEF ListPending
  <1> HIDE DEF pending
  <1>6. worker[w] \in Work /\ worker \in [Worker -> Work] /\ overlaps \in Nat
    BY DEF TypeInv, TypeOK
  <1>7. \A v \in Worker : worker'[v].pending = IF v = w THEN pending ELSE worker[v].pending
    BY <1>3, <1>6 DEF Step, NoWork, Work
  <1>8. AloneInv'
    <2>1. CASE pending = {}
      BY <1>1, <1>5, <1>7, <2>1, AloneKept
    <2>2. CASE pending # {} /\ overlaps' = 0
      <3>1. \A v \in Worker : worker[v].pending = {}
        BY <1>4, <1>5, <1>6, <2>2
      <3> QED
        BY <1>1, <1>2, <1>7, <3>1 DEF AloneInv
    <2> QED
      BY <2>1, <2>2 DEF AloneInv
  <1> QED
    BY <1>1, <1>8 DEF Settled

LEMMA SendAlone == ASSUME TypeInv, AloneInv, NEW w \in Worker, Send(w)
                   PROVE  AloneInv' /\ Settled
  <1> DEFINE id == Min(worker[w].pending)
  <1>1. /\ id \in worker[w].pending
        /\ UNCHANGED <<messages, overlaps>>
        /\ \A i \in Ids \ {id} : reached'[i] = reached[i]
        /\ \E at \in {"sent", "tried"} : Step(w, [worker[w] EXCEPT !.at = at])
    BY SendCounts
  <1>2. Ids' = Ids /\ worker \in [Worker -> Work] /\ worker[w] \in Work
    BY <1>1 DEF Ids, TypeInv, TypeOK
  <1>3. \A v \in Worker : worker'[v].pending = worker[v].pending
    BY <1>1, <1>2 DEF Step, Work
  <1>4. AloneInv'
    BY <1>1, <1>2, <1>3, AloneKept
  <1> HIDE DEF id
  <1>5. Settled
    BY <1>1 DEF Settled, AloneInv
  <1> QED
    BY <1>4, <1>5

LEMMA MarkAlone == ASSUME TypeInv, AloneInv, NEW w \in Worker, Mark(w)
                   PROVE  AloneInv' /\ Settled
  <1> DEFINE id == Min(worker[w].pending)
             rest == worker[w].pending \ {id}
  <1>1. id \in worker[w].pending /\ id \in Ids
    BY LeastPending DEF Mark, TypeInv, InHand
  <1>2. UNCHANGED <<reached, overlaps>>
    BY DEF Mark, history
  <1>3. Ids' = Ids /\ \A i \in Ids \ {id} : messages'[i] = messages[i]
    <2>1. messages \in Seq(Message)
      BY DEF TypeInv, TypeOK
    <2>2. UNCHANGED messages \/ \E m : messages' = [messages EXCEPT ![id] = m]
      BY DEF Mark
    <2> QED
      BY <1>1, <2>1, <2>2 DEF Ids
  <1>4. Step(w, IF rest = {} THEN NoWork ELSE [worker[w] EXCEPT !.at = "send", !.pending = rest])
    BY DEF Mark
  <1>5. worker \in [Worker -> Work] /\ worker[w] \in Work
    BY DEF TypeInv, TypeOK
  <1> HIDE DEF id, rest
  <1>6. \A v \in Worker : worker'[v].pending = IF v = w THEN rest ELSE worker[v].pending
    BY <1>4, <1>5 DEF Step, NoWork, Work
  <1>7. ASSUME overlaps' = 0
        PROVE  \A v \in Worker :
                 /\ worker'[v].pending \subseteq Queued'
                 /\ worker'[v].pending # {} => \A u \in Worker \ {v} : worker'[u].pending = {}
    <2>1. worker[w].pending \subseteq Queued /\ \A v \in Worker \ {w} : worker[v].pending = {}
      BY <1>1, <1>2, <1>7 DEF AloneInv
    <2>2. rest \subseteq Queued \ {id}
      BY <2>1 DEF rest
    <2>3. rest \subseteq Queued'
      BY <1>3, <2>2 DEF Queued
    <2> QED
      BY <1>6, <2>1, <2>3
  <1>8. AloneInv'
    BY <1>7 DEF AloneInv
  <1>9. Settled
    BY <1>1, <1>2, <1>3 DEF Settled, AloneInv
  <1> QED
    BY <1>8, <1>9

LEMMA AloneInductive ==
  ASSUME TypeInv, TypeInv', AloneInv, [Next]_vars
  PROVE  AloneInv' /\ Settled
  <1>1. CASE Midnight \/ Channel \/ UNCHANGED vars
    <2>1. UNCHANGED <<messages, reached, worker, overlaps>>
      BY <1>1 DEF Midnight, Channel, history, vars
    <2> QED
      BY <2>1 DEF AloneInv, Settled, Queued, Ids
  <1>2. CASE Stop \/ \E w \in Worker : Cancel(w)
    <2>1. UNCHANGED <<messages, reached, overlaps>> /\ Ids' = Ids
      BY <1>2 DEF Stop, Cancel, history, Ids
    <2>2. \A w \in Worker : worker'[w] \in {worker[w], NoWork}
      BY <1>2 DEF Stop, Cancel, Step, TypeInv, TypeOK
    <2>3. NoWork.pending = {}
      BY DEF NoWork
    <2>4. \A w \in Worker : worker'[w].pending \in {worker[w].pending, {}}
      BY <2>2, <2>3
    <2> QED
      BY <2>1, <2>4, AloneKept DEF Settled
  <1>3. ASSUME NEW w \in Worker,
               \/ \E on \in BOOLEAN, number \in Number \cup {NoNumber} :
                    BeginSave(w, on, number)
               \/ SaveRecipient(w) \/ BeginOnce(w) \/ LoadRecipient(w) \/ Compose(w)
               \/ BeginTest(w) \/ QueueTest(w)
        PROVE  AloneInv' /\ Settled
    <2>1. PICK work : Step(w, work) /\ work.pending = {}
      BY <1>3, BeforeDrain
    <2>2. PICK kind, day, to : QueueMessage(kind, day, to) \/ UNCHANGED <<messages, reached>>
      BY <1>3, BeforeDrain
    <2>3. /\ Ids \subseteq Ids'
          /\ \A id \in Ids : messages'[id] = messages[id] /\ reached'[id] = reached[id]
      BY <2>2, QueueAdds
    <2>4. overlaps' = overlaps
      BY <1>3, BeforeDrain
    <2>5. \A v \in Worker : worker'[v].pending \in {worker[v].pending, {}}
      BY <2>1 DEF Step, TypeInv, TypeOK
    <2> QED
      BY <2>3, <2>4, <2>5, AloneKept DEF Settled
  <1>4. CASE Next
    BY <1>1, <1>2, <1>3, <1>4, ListAlone, SendAlone, MarkAlone DEF Next, Working
  <1> QED
    BY <1>1, <1>4

\* Whatever else runs, stops, is cancelled or fails: a message that the page
\* shows as sent or failed stays that and is not sent again, until two drains
\* have overlapped.  Then one of them may still try, and mark, what the other
\* has settled.
THEOREM SettledStays == Spec => SettledIsFinal
  <1>1. Init => TypeInv /\ AloneInv
    BY TypeInvInit DEF Init, AloneInv, NoWork
  <1>2. TypeInv /\ AloneInv /\ [Next]_vars => TypeInv' /\ AloneInv' /\ Settled
    BY TypeInvInductive, AloneInductive
  <1>3. Settled => [overlaps = 0 => \A id \in Ids \ Queued :
                      messages'[id] = messages[id] /\ reached'[id] = reached[id]]_vars
    BY DEF Settled
  <1> QED
    BY <1>1, <1>2, <1>3, PTL DEF Spec, SettledIsFinal
=============================================================================

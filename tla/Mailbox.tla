------------------------------ MODULE Mailbox ------------------------------
(***************************************************************************)
(* What the control plane and the stations together promise to somebody    *)
(* who asks from away, without requests, ticks or polling: a question goes *)
(* to one station, answers to it come from that station and in the order   *)
(* of its questions, and nothing is shown before there is an answer.       *)
(***************************************************************************)
EXTENDS Integers, Sequences, FiniteSets

CONSTANTS
  Station, Number, Owners,
  Support,      \* the sender of a question of the console
  Figures,      \* the figures an answer may be computed from
  Capacity,     \* questions kept at a time
  None, Torn    \* no answer, and a half-written one

VARIABLES questions, kept, seen

Init == questions = <<>> /\ kept = {} /\ seen = <<>>

\* The answers a question may get: its station's, to that very question.
AnswersTo(id) == [station : {questions[id].station}, id : {id}, figures : Figures]

Answered(id) == questions[id].answer # None

\* A new question comes last; only when there are too many is the oldest dropped.
Ask(s, from) ==
  LET all == kept \cup {Len(questions) + 1} IN
  /\ from \in Owners[s] \cup {Support}
  /\ questions' = Append(questions, [station |-> s, from |-> from, answer |-> None])
  /\ \/ Cardinality(all) <= Capacity /\ kept' = all
     \/ /\ Cardinality(all) > Capacity
        /\ \E oldest \in all : kept' = all \ {oldest} /\ \A id \in kept' : oldest < id
  /\ seen' = Append(seen, {})

\* Perhaps not for the first time, but never past an older question that waits.
Answer(id, answer) ==
  /\ id \in kept /\ answer \in AnswersTo(id)
  /\ \A older \in kept :
       older < id /\ questions[older].station = questions[id].station => Answered(older)
  /\ questions' = [questions EXCEPT ![id].answer = answer]
  /\ UNCHANGED <<kept, seen>>

Show(id, answer) ==
  /\ Answered(id) /\ answer \in AnswersTo(id) \cup {Torn}
  /\ seen' = [seen EXCEPT ![id] = @ \cup {answer}]
  /\ UNCHANGED <<questions, kept>>

Forget == kept' = {} /\ UNCHANGED <<questions, seen>>

Next ==
  \/ \E s \in Station, from \in Number \cup {Support} : Ask(s, from)
  \/ \E id \in 1..Len(questions) :
       \/ \E answer \in AnswersTo(id) : Answer(id, answer)
       \/ \E answer \in AnswersTo(id) \cup {Torn} : Show(id, answer)
  \/ Forget

Spec == Init /\ [][Next]_<<questions, kept, seen>>
=============================================================================

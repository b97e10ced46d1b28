--------------------------- MODULE TaskQueueProofs ---------------------------
(***************************************************************************)
(* Proofs about TaskQueue for any set of tasks, any number of allowed      *)
(* failures and any number of faults.                                      *)
(*                                                                         *)
(* The queue is only ever looked at through the set of copies the broker   *)
(* has (Copies): handing a delivery out, requeueing it, losing the channel *)
(* and killing the worker leave that set as it is, and the three lemmas on *)
(* sequences below are all the safety proofs need to know about the order. *)
(*                                                                         *)
(* How often a task is executed depends on how many copies there are, and  *)
(* that is counted in the second half: each position of the queue carries  *)
(* marks for what its message may still cause, and the marks, with what is *)
(* handed out and what is in hand, never outnumber the publication and the *)
(* faults so far.                                                          *)
(***************************************************************************)
EXTENDS TaskQueue, FiniteSetTheorems, TLAPS

\* The worker is in the middle of a delivery: the broker still has a copy of
\* its task and, as long as the channel is open, holds that very delivery.
DeliveryInv ==
  /\ ~connected => unacked = NoMsg
  /\ pc \in Busy => /\ delivery \in Message
                    /\ AtBroker(delivery.task)
                    /\ connected => unacked = delivery

\* Before it acknowledges a delivery the worker has put a copy of it into the
\* queue, or the task met a final outcome.
AckInv ==
  pc = "ack" /\ connected =>
    \/ Settled(delivery.task)
    \/ \E m \in Range(queue) : m.task = delivery.task

\* Nothing is known of a task the broker never stored.
SentInv == \A t \in Tasks : AtBroker(t) \/ Settled(t) => sent[t] = "stored"

\* The retry header never counts a failure that did not happen.
HeaderInv ==
  /\ \A m \in Copies : m.retry <= failures[m.task]
  /\ pc \in Busy => delivery.retry <= failures[delivery.task]
  /\ pc \in {"toDLQ", "republish"} => delivery.retry < failures[delivery.task]
  /\ pc = "toDLQ" => delivery.retry >= MaxConsecutiveFailures - 1
  /\ pc = "republish" => delivery.retry < MaxConsecutiveFailures - 1

IInv == /\ TypeOK /\ DeliveryInv /\ AckInv /\ SentInv /\ HeaderInv
        /\ NoTaskLost /\ DeadLetterIsEarned

-----------------------------------------------------------------------------
(* Sequences as sets of copies.                                            *)

LEMMA RangeOfAppend ==
  ASSUME NEW S, NEW q \in Seq(S), NEW e \in S
  PROVE  Range(Append(q, e)) = Range(q) \cup {e}
<1>1. DOMAIN Append(q, e) = DOMAIN q \cup {Len(q) + 1}
  OBVIOUS
<1>2. \A i \in DOMAIN q : Append(q, e)[i] = q[i]
  OBVIOUS
<1>3. Append(q, e)[Len(q) + 1] = e
  OBVIOUS
<1> QED BY <1>1, <1>2, <1>3 DEF Range

LEMMA RangeOfHeadTail ==
  ASSUME NEW S, NEW q \in Seq(S), q # <<>>
  PROVE  /\ Head(q) \in S /\ Tail(q) \in Seq(S)
         /\ Range(q) = {Head(q)} \cup Range(Tail(q))
<1>1. Len(q) \in Nat \ {0} /\ DOMAIN q = 1..Len(q)
  OBVIOUS
<1>2. DOMAIN Tail(q) = 1..(Len(q) - 1) /\ \A i \in DOMAIN Tail(q) : Tail(q)[i] = q[i + 1]
  BY <1>1
<1>3. Range(q) \subseteq {Head(q)} \cup Range(Tail(q))
  <2> SUFFICES ASSUME NEW i \in DOMAIN q
               PROVE  q[i] \in {Head(q)} \cup Range(Tail(q))
    BY DEF Range
  <2>1. CASE i = 1
    BY <2>1
  <2>2. CASE i # 1
    <3>1. i - 1 \in DOMAIN Tail(q)
      BY <1>1, <1>2, <2>2
    <3>2. Tail(q)[i - 1] = q[i]
      BY <1>1, <1>2, <3>1
    <3> QED BY <3>1, <3>2 DEF Range
  <2> QED BY <2>1, <2>2
<1>4. {Head(q)} \cup Range(Tail(q)) \subseteq Range(q)
  <2>1. Head(q) = q[1] /\ 1 \in DOMAIN q
    BY <1>1
  <2>2. \A i \in DOMAIN Tail(q) : i + 1 \in DOMAIN q
    BY <1>1, <1>2
  <2> QED BY <1>2, <2>1, <2>2 DEF Range
<1> QED BY <1>1, <1>3, <1>4

LEMMA RangeOfCons ==
  ASSUME NEW S, NEW q \in Seq(S), NEW e \in S
  PROVE  /\ <<e>> \o q \in Seq(S)
         /\ Range(<<e>> \o q) = {e} \cup Range(q)
<1> DEFINE c == <<e>> \o q
<1>1. c \in Seq(S) /\ Len(c) = Len(q) + 1 /\ Len(q) \in Nat
  OBVIOUS
<1>2. c[1] = e
  OBVIOUS
<1>3. \A i \in 1..Len(q) : c[i + 1] = q[i]
  OBVIOUS
<1>4. DOMAIN c = 1..(Len(q) + 1) /\ DOMAIN q = 1..Len(q)
  BY <1>1
<1> HIDE DEF c
<1>5. Range(c) \subseteq {e} \cup Range(q)
  <2> SUFFICES ASSUME NEW i \in DOMAIN c
               PROVE  c[i] \in {e} \cup Range(q)
    BY DEF Range
  <2>1. CASE i = 1
    BY <1>2, <2>1
  <2>2. CASE i # 1
    <3>1. i - 1 \in 1..Len(q)
      BY <1>1, <1>4, <2>2
    <3>2. c[i] = q[i - 1]
      BY <1>3, <1>4, <3>1
    <3> QED BY <1>4, <3>1, <3>2 DEF Range
  <2> QED BY <2>1, <2>2
<1>6. {e} \cup Range(q) \subseteq Range(c)
  <2>1. 1 \in DOMAIN c /\ \A i \in DOMAIN q : i + 1 \in DOMAIN c
    BY <1>1, <1>4
  <2> QED BY <1>2, <1>3, <1>4, <2>1 DEF Range
<1> QED BY <1>1, <1>5, <1>6 DEF c

-----------------------------------------------------------------------------
(* Type correctness.                                                       *)

LEMMA NoMsgIsNoMessage == NoMsg \notin Message
BY ConstantsAssumption DEF Message

\* Requeueing gives a queue of the same copies.
LEMMA RequeuedCopies ==
  ASSUME TypeOK
  PROVE  Requeued \in Seq(Message) /\ Range(Requeued) = Copies
<1>1. CASE unacked = NoMsg
  BY <1>1 DEF TypeOK, Requeued, Copies
<1>2. CASE unacked # NoMsg
  <2>1. unacked \in Message /\ queue \in Seq(Message)
    BY <1>2 DEF TypeOK
  <2> QED BY <1>2, <2>1, RangeOfCons DEF Requeued, Copies
<1> QED BY <1>1, <1>2

LEMMA InitTypeOK == Init => TypeOK
<1> SUFFICES ASSUME Init PROVE TypeOK
  OBVIOUS
<1>1. connected \in BOOLEAN /\ stopping \in BOOLEAN
  BY Zenon DEF Init
<1>2. queue \in Seq(Message)
  BY DEF Init
<1> QED BY <1>1, <1>2 DEF Init, TypeOK, Busy

LEMMA NextTypeOK ==
  ASSUME TypeOK, pc \in Busy => delivery \in Message,
         pc = "republish" => delivery.retry < MaxConsecutiveFailures - 1,
         [Next]_vars
  PROVE  TypeOK'
<1> USE DEF TypeOK
<1>1. CASE UNCHANGED vars
  BY <1>1 DEF vars
<1>2. ASSUME NEW t \in Tasks, PublishTask(t)
      PROVE  TypeOK'
  <2>1. [task |-> t, retry |-> 0] \in Message
    BY ConstantsAssumption DEF Message
  <2> QED BY <1>2, <2>1 DEF PublishTask
<1>3. ASSUME NEW t \in Tasks, PublishTaskFails(t)
      PROVE  TypeOK'
  BY <1>3 DEF PublishTaskFails, Fault
<1>4. CASE Deliver
  BY <1>4, RangeOfHeadTail DEF Deliver
<1>5. CASE ConnectionLost
  <2>1. Requeued \in Seq(Message)
    BY RequeuedCopies
  <2>2. connected' \in BOOLEAN
    BY <1>5, Zenon DEF ConnectionLost
  <2> QED BY <1>5, <2>1, <2>2 DEF ConnectionLost, Fault
<1>6. CASE Signal
  BY <1>6 DEF Signal, Fault
<1>7. CASE Crash
  <2>1. Requeued \in Seq(Message)
    BY RequeuedCopies
  <2>2. connected' \in BOOLEAN
    BY <1>7, Zenon DEF Crash, Gone
  <2> QED BY <1>7, <2>1, <2>2 DEF Crash, Gone, Fault
<1>8. CASE Start
  BY <1>8 DEF Start
<1>9. CASE Take
  BY <1>9 DEF Take, Busy
<1>10. CASE HandleSucceeds
  <2>1. delivery.task \in Tasks
    BY <1>10 DEF HandleSucceeds, Busy, Message
  <2> QED BY <1>10, <2>1 DEF HandleSucceeds, Busy
<1>11. CASE HandleFails
  <2>1. delivery.task \in Tasks
    BY <1>11 DEF HandleFails, Busy, Message
  <2> QED BY <1>11, <2>1 DEF HandleFails, AfterFailure, Busy
<1>12. CASE Republish
  <2>1. delivery \in Message /\ delivery.retry < MaxConsecutiveFailures - 1
    BY <1>12 DEF Republish, Busy
  <2>2. Retried(delivery) \in Message
    BY <2>1, ConstantsAssumption DEF Message, Retried
  <2> QED BY <1>12, <2>2 DEF Republish, Busy
<1>13. CASE PublishToDLQ
  <2>1. delivery.task \in Tasks
    BY <1>13 DEF PublishToDLQ, Busy, Message
  <2> QED BY <1>13, <2>1 DEF PublishToDLQ, Busy
<1>14. CASE PublishError
  BY <1>14 DEF PublishError, Fault, Busy
<1>15. CASE Ack
  BY <1>15 DEF Ack, Finished
<1>16. CASE NackRequeue
  BY <1>16, RequeuedCopies DEF NackRequeue, Finished
<1>17. CASE NackReject
  <2>1. delivery.task \in Tasks
    BY <1>17 DEF NackReject, Busy, Message
  <2> QED BY <1>17, <2>1 DEF NackReject, Finished
<1>18. CASE Exit
  BY <1>18, RequeuedCopies DEF Exit, Gone
<1> QED
  BY <1>1, <1>2, <1>3, <1>4, <1>5, <1>6, <1>7, <1>8, <1>9, <1>10, <1>11, <1>12,
     <1>13, <1>14, <1>15, <1>16, <1>17, <1>18 DEF Next, WorkerStep

-----------------------------------------------------------------------------
(* What the actions do to the copies of the broker.                        *)

LEMMA CopiesKept ==
  ASSUME TypeOK, Deliver \/ ConnectionLost \/ Gone \/ NackRequeue
  PROVE  Copies' = Copies
<1>1. CASE Deliver
  <2>1. queue # <<>> /\ queue \in Seq(Message) /\ unacked = NoMsg
    BY <1>1 DEF Deliver, TypeOK
  <2>2. Head(queue) # NoMsg /\ Range(queue) = {Head(queue)} \cup Range(Tail(queue))
    BY <2>1, RangeOfHeadTail, NoMsgIsNoMessage
  <2>3. Copies = Range(queue)
    BY <2>1 DEF Copies
  <2>4. Copies' = Range(Tail(queue)) \cup {Head(queue)}
    BY <1>1, <2>2 DEF Deliver, Copies
  <2> QED BY <2>2, <2>3, <2>4
<1>2. CASE ConnectionLost \/ Gone \/ NackRequeue
  BY <1>2, RequeuedCopies DEF ConnectionLost, Gone, NackRequeue, Copies
<1> QED BY <1>1, <1>2

LEMMA CopiesAdded ==
  ASSUME TypeOK, NEW m \in Message, queue' = Append(queue, m),
         UNCHANGED unacked
  PROVE  /\ Copies' = Copies \cup {m}
         /\ Range(queue)' = Range(queue) \cup {m}
<1>1. Range(queue') = Range(queue) \cup {m}
  BY RangeOfAppend DEF TypeOK
<1> QED BY <1>1 DEF Copies

LEMMA CopyRemoved ==
  ASSUME UNCHANGED queue, unacked' = NoMsg
  PROVE  /\ Copies' = Range(queue)
         /\ Copies = Copies' \cup (IF unacked = NoMsg THEN {} ELSE {unacked})
BY DEF Copies

LEMMA CopiesAreMessages ==
  ASSUME TypeOK
  PROVE  Copies \subseteq Message
BY DEF TypeOK, Copies, Range

-----------------------------------------------------------------------------
(* The inductive invariant.                                                *)

LEMMA InitIInv == Init => IInv
<1> SUFFICES ASSUME Init PROVE IInv
  OBVIOUS
<1>1. TypeOK
  BY InitTypeOK
<1>2. Copies = {}
  BY DEF Init, Copies, Range
<1>3. DeliveryInv /\ AckInv
  BY DEF Init, DeliveryInv, AckInv, Busy
<1>4. SentInv /\ NoTaskLost
  BY <1>2 DEF Init, SentInv, NoTaskLost, AtBroker, Settled
<1>5. HeaderInv /\ DeadLetterIsEarned
  BY <1>2 DEF Init, HeaderInv, DeadLetterIsEarned, Busy
<1> QED BY <1>1, <1>3, <1>4, <1>5 DEF IInv

\* The part of the invariant each step has to restore.
Rest == DeliveryInv /\ AckInv /\ SentInv /\ HeaderInv
          /\ NoTaskLost /\ DeadLetterIsEarned

LEMMA NextIInv ==
  ASSUME IInv, [Next]_vars
  PROVE  IInv'
<1>0. TypeOK' /\ TypeOK /\ Copies \subseteq Message
  BY NextTypeOK, CopiesAreMessages DEF IInv, DeliveryInv, HeaderInv
<1> USE DEF IInv, Rest, DeliveryInv, AckInv, SentInv, HeaderInv, NoTaskLost,
            DeadLetterIsEarned, AtBroker, Settled, Busy
<1>1. CASE UNCHANGED vars
  <2>1. Copies' = Copies /\ Range(queue)' = Range(queue)
    BY <1>1 DEF vars, Copies
  <2> QED BY <1>0, <1>1, <2>1 DEF vars, TypeOK
<1>2. ASSUME NEW t \in Tasks, PublishTask(t)
      PROVE  Rest'
  <2>1. Copies' = Copies \cup {[task |-> t, retry |-> 0]}
    BY <1>0, <1>2, CopiesAdded, ConstantsAssumption DEF PublishTask, Message
  <2>2. Range(queue)' = Range(queue) \cup {[task |-> t, retry |-> 0]}
    BY <1>0, <1>2, CopiesAdded, ConstantsAssumption DEF PublishTask, Message
  <2> QED BY <1>0, <1>2, <2>1, <2>2 DEF PublishTask, TypeOK
<1>3. ASSUME NEW t \in Tasks, PublishTaskFails(t)
      PROVE  Rest'
  BY <1>0, <1>3 DEF PublishTaskFails, TypeOK, Copies
<1>4. CASE Deliver
  BY <1>0, <1>4, CopiesKept, NoMsgIsNoMessage DEF Deliver, TypeOK
<1>5. CASE ConnectionLost
  BY <1>0, <1>5, CopiesKept DEF ConnectionLost, TypeOK
<1>6. CASE Signal
  BY <1>0, <1>6 DEF Signal, TypeOK, Copies
<1>7. CASE Gone
  BY <1>0, <1>7, CopiesKept DEF Gone, TypeOK
<1>8. CASE Start
  BY <1>0, <1>8 DEF Start, TypeOK, Copies
<1>9. CASE Take
  BY <1>0, <1>9, NoMsgIsNoMessage DEF Take, TypeOK, Copies
<1>10. CASE HandleSucceeds
  BY <1>0, <1>10 DEF HandleSucceeds, TypeOK, Copies
<1>11. CASE HandleFails
  <2>1. delivery \in Message /\ delivery.task \in Tasks /\ delivery.retry \in Nat
    BY <1>11 DEF HandleFails, Message
  <2>2. Copies' = Copies /\ Range(queue)' = Range(queue)
    BY <1>11 DEF HandleFails, Copies
  <2>3. \A t \in Tasks : /\ failures[t] \in Nat /\ failures'[t] \in Nat
                         /\ failures[t] <= failures'[t]
    BY <1>11, <2>1 DEF HandleFails, TypeOK
  <2>4. /\ failures'[delivery.task] = failures[delivery.task] + 1
        /\ delivery' = delivery
    BY <1>11, <2>1 DEF HandleFails, TypeOK
  <2>5. DeliveryInv' /\ AckInv' /\ SentInv' /\ NoTaskLost'
    BY <1>0, <1>11, <2>1, <2>2 DEF HandleFails, AfterFailure, TypeOK
  <2>6. \A m \in Copies' : m.retry <= failures'[m.task]
    <3> SUFFICES ASSUME NEW m \in Copies PROVE m.retry <= failures'[m.task]
      BY <2>2
    <3>1. m.task \in Tasks /\ m.retry \in Nat /\ m.retry <= failures[m.task]
      BY <1>0 DEF Message
    <3> QED BY <2>3, <3>1
  <2>7. delivery.retry < failures'[delivery.task]
    BY <1>11, <2>1, <2>3, <2>4 DEF HandleFails
  <2>8. /\ pc' = "toDLQ" => delivery.retry >= MaxConsecutiveFailures - 1
        /\ pc' = "republish" => delivery.retry < MaxConsecutiveFailures - 1
    BY <1>11, <2>1, ConstantsAssumption DEF HandleFails, AfterFailure
  <2>9. HeaderInv'
    BY <2>1, <2>3, <2>4, <2>6, <2>7, <2>8
  <2>10. DeadLetterIsEarned'
    <3> SUFFICES ASSUME NEW t \in dlq
                 PROVE  failures'[t] >= MaxConsecutiveFailures
      BY <1>11 DEF HandleFails
    <3>1. t \in Tasks /\ failures[t] >= MaxConsecutiveFailures
      BY DEF TypeOK
    <3> QED BY <2>3, <3>1, ConstantsAssumption
  <2> QED BY <1>0, <2>5, <2>9, <2>10
<1>12. CASE Republish
  <2>1. Retried(delivery) \in Message
    BY <1>0, <1>12, ConstantsAssumption DEF Republish, Retried, Message
  <2>2. Copies' = Copies \cup {Retried(delivery)}
    BY <1>0, <1>12, <2>1, CopiesAdded DEF Republish
  <2>3. Range(queue)' = Range(queue) \cup {Retried(delivery)}
    BY <1>0, <1>12, <2>1, CopiesAdded DEF Republish
  <2> QED BY <1>0, <1>12, <2>1, <2>2, <2>3 DEF Republish, Retried, TypeOK, Message
<1>13. CASE PublishToDLQ
  <2>1. delivery \in Message /\ delivery.task \in Tasks /\ delivery.retry \in Nat
    BY <1>13 DEF PublishToDLQ, Message
  <2>2. Copies' = Copies /\ Range(queue)' = Range(queue)
    BY <1>13 DEF PublishToDLQ, Copies
  <2>3. failures[delivery.task] >= MaxConsecutiveFailures
    <3>1. /\ failures[delivery.task] \in Nat
          /\ delivery.retry < failures[delivery.task]
          /\ delivery.retry >= MaxConsecutiveFailures - 1
      BY <1>13, <2>1 DEF PublishToDLQ, TypeOK
    <3> QED BY <2>1, <3>1, ConstantsAssumption
  <2>4. DeliveryInv' /\ AckInv' /\ NoTaskLost' /\ HeaderInv'
    BY <1>0, <1>13, <2>1, <2>2 DEF PublishToDLQ, TypeOK
  <2>5. SentInv'
    BY <1>13, <2>1, <2>2 DEF PublishToDLQ
  <2>6. DeadLetterIsEarned'
    BY <1>13, <2>3 DEF PublishToDLQ
  <2> QED BY <1>0, <2>4, <2>5, <2>6
<1>14. CASE PublishError
  BY <1>0, <1>14 DEF PublishError, TypeOK, Copies
<1>15. CASE Ack
  BY <1>0, <1>15, CopyRemoved DEF Ack, Finished, TypeOK
<1>16. CASE NackRequeue
  BY <1>0, <1>16, CopiesKept DEF NackRequeue, Finished, TypeOK
<1>17. CASE NackReject
  BY <1>0, <1>17, CopyRemoved DEF NackReject, Finished, TypeOK
<1> QED
  BY <1>0, <1>1, <1>2, <1>3, <1>4, <1>5, <1>6, <1>7, <1>8, <1>9, <1>10, <1>11,
     <1>12, <1>13, <1>14, <1>15, <1>16, <1>17
  DEF Next, WorkerStep, Crash, Exit

\* The inductive invariant holds in every reachable state.
THEOREM Invariance == Spec => []IInv
<1>1. IInv /\ [Next]_vars => IInv'
  BY NextIInv
<1> QED BY InitIInv, <1>1, PTL DEF Spec

\* Type correctness of the queue and the worker.
THEOREM TypeCorrect == Spec => []TypeOK
BY Invariance, PTL DEF IInv

\* finalizeDelivery and the broker never lose a task that was stored.
THEOREM NoTaskIsEverLost == Spec => []NoTaskLost
BY Invariance, PTL DEF IInv

\* Only MaxConsecutiveFailures failures put a task into the dead-letter queue.
THEOREM DeadLettersAreEarned == Spec => []DeadLetterIsEarned
BY Invariance, PTL DEF IInv

-----------------------------------------------------------------------------
(* The queue implements the safety part of AtLeastOnce.                    *)

LEMMA SettledHasOutcome ==
  ASSUME TypeOK, NEW t \in Tasks
  PROVE  Settled(t) <=> OutcomesOf(t) # {}
BY DEF Settled, OutcomesOf, TypeOK

LEMMA InitRefines == Init => Promise!Init
<1> SUFFICES ASSUME Init PROVE Promise!Init
  OBVIOUS
<1>1. Copies = {}
  BY DEF Init, Copies, Range
<1>2. OpenTasks = {}
  BY <1>1 DEF OpenTasks, AtBroker
<1>3. \A t \in Tasks : OutcomesOf(t) = {}
  BY DEF Init, OutcomesOf
<1> QED BY <1>2, <1>3 DEF Promise!Init

\* What a step that leaves the copies and the outcomes alone is to the promise.
LEMMA StepIsStutter ==
  ASSUME Copies' = Copies, UNCHANGED <<successes, dlq, dropped>>
  PROVE  UNCHANGED Promise!vars
<1>1. OpenTasks' = OpenTasks
  BY DEF OpenTasks, AtBroker
<1>2. \A t \in Tasks : OutcomesOf(t)' = OutcomesOf(t)
  BY DEF OutcomesOf
<1> QED BY <1>1, <1>2 DEF Promise!vars

\* A step that adds one outcome to an open task is a Settle of the promise.
LEMMA StepIsSettle ==
  ASSUME NEW t \in OpenTasks, NEW o \in {"succeeded", "dead", "rejected"},
         OpenTasks' = OpenTasks \/ OpenTasks' = OpenTasks \ {t},
         OutcomesOf(t)' = OutcomesOf(t) \cup {o},
         \A u \in Tasks \ {t} : OutcomesOf(u)' = OutcomesOf(u)
  PROVE  Promise!Next
<1>1. t \in Tasks
  BY DEF OpenTasks
<1>2. [u \in Tasks |-> OutcomesOf(u)]'
        = [[u \in Tasks |-> OutcomesOf(u)] EXCEPT ![t] = @ \cup {o}]
  BY <1>1
<1>3. Promise!Settle(t, o) \/ Promise!SettleAndClose(t, o)
  BY <1>2 DEF Promise!Settle, Promise!SettleAndClose
<1> QED BY <1>1, <1>3 DEF Promise!Next

\* A step that takes a delivery away at its acknowledgement.
LEMMA StepIsClose ==
  ASSUME IInv, IInv', UNCHANGED <<queue, successes, dlq, dropped>>,
         unacked' = NoMsg, pc = "ack"
  PROVE  [Promise!Next]_(Promise!vars)
<1>1. TypeOK /\ TypeOK' /\ delivery \in Message /\ delivery.task \in Tasks
  BY DEF IInv, DeliveryInv, Busy, Message
<1> PICK t \in Tasks : t = delivery.task
  BY <1>1
<1>2. CASE Copies' = Copies
  BY <1>2, StepIsStutter
<1>3. CASE Copies' # Copies
  <2>1. unacked = delivery /\ connected
    BY <1>3, CopyRemoved DEF IInv, DeliveryInv, Busy
  <2>2. Copies = Copies' \cup {delivery} /\ Copies' = Range(queue)
    BY <1>1, <2>1, CopyRemoved, NoMsgIsNoMessage
  <2>3. CASE AtBroker(t)'
    <3>1. OpenTasks' = OpenTasks
      BY <2>2, <2>3 DEF OpenTasks, AtBroker
    <3>2. \A u \in Tasks : OutcomesOf(u)' = OutcomesOf(u)
      BY DEF OutcomesOf
    <3> QED BY <3>1, <3>2 DEF Promise!vars
  <2>4. CASE ~AtBroker(t)'
    <3>1. OpenTasks' = OpenTasks \ {t} /\ t \in OpenTasks
      BY <1>1, <2>2, <2>4 DEF OpenTasks, AtBroker
    <3>2. Settled(t)
      BY <2>1, <2>2, <2>4 DEF IInv, AckInv, AtBroker
    <3>3. OutcomesOf(t) # {}
      BY <1>1, <3>2, SettledHasOutcome
    <3>4. \A u \in Tasks : OutcomesOf(u)' = OutcomesOf(u)
      BY DEF OutcomesOf
    <3>5. Promise!Close(t)
      BY <1>1, <3>1, <3>3, <3>4 DEF Promise!Close
    <3> QED BY <1>1, <3>5 DEF Promise!Next
  <2> QED BY <2>3, <2>4
<1> QED BY <1>2, <1>3

LEMMA NextRefines ==
  ASSUME IInv, IInv', [Next]_vars
  PROVE  [Promise!Next]_(Promise!vars)
<1>0. TypeOK /\ TypeOK' /\ DeliveryInv /\ SentInv
  BY DEF IInv
<1> DEFINE Goal == [Promise!Next]_(Promise!vars)
<1>1. CASE UNCHANGED vars
  BY <1>1, StepIsStutter DEF vars, Copies
<1>2. ASSUME NEW t \in Tasks, PublishTask(t)
      PROVE  Goal
  <2>1. Copies' = Copies \cup {[task |-> t, retry |-> 0]}
    BY <1>0, <1>2, CopiesAdded, ConstantsAssumption DEF PublishTask, Message
  <2>2. ~AtBroker(t) /\ ~Settled(t)
    BY <1>0, <1>2 DEF PublishTask, SentInv
  <2>3. OpenTasks' = OpenTasks \cup {t} /\ t \notin OpenTasks
    <3>1. [task |-> t, retry |-> 0].task = t
      OBVIOUS
    <3>2. \A u \in Tasks : AtBroker(u)' <=> AtBroker(u) \/ u = t
      BY <2>1, <3>1 DEF AtBroker
    <3> QED BY <2>2, <3>2 DEF OpenTasks
  <2>4. OutcomesOf(t) = {}
    BY <1>0, <2>2, SettledHasOutcome
  <2>5. \A u \in Tasks : OutcomesOf(u)' = OutcomesOf(u)
    BY <1>2 DEF OutcomesOf, PublishTask
  <2>6. Promise!Accept(t)
    BY <2>3, <2>4, <2>5 DEF Promise!Accept
  <2> QED BY <2>6 DEF Promise!Next
<1>3. ASSUME NEW t \in Tasks, PublishTaskFails(t)
      PROVE  Goal
  BY <1>3, StepIsStutter DEF PublishTaskFails, Copies
<1>4. CASE Deliver
  BY <1>0, <1>4, CopiesKept, StepIsStutter DEF Deliver
<1>5. CASE ConnectionLost
  BY <1>0, <1>5, CopiesKept, StepIsStutter DEF ConnectionLost
<1>6. CASE Signal \/ Start \/ Take \/ HandleFails \/ PublishError
  BY <1>6, StepIsStutter DEF Signal, Start, Take, HandleFails, PublishError, Copies
<1>7. CASE Gone
  BY <1>0, <1>7, CopiesKept, StepIsStutter DEF Gone
<1>8. CASE HandleSucceeds
  <2>0. delivery.task \in Tasks
    BY <1>0, <1>8 DEF HandleSucceeds, DeliveryInv, Busy, Message
  <2> PICK t \in Tasks : t = delivery.task
    BY <2>0
  <2>1. t \in OpenTasks
    BY <1>0, <1>8 DEF HandleSucceeds, DeliveryInv, OpenTasks, Busy, Message
  <2>2. OpenTasks' = OpenTasks
    BY <1>8 DEF HandleSucceeds, OpenTasks, AtBroker, Copies
  <2>3. /\ successes'[t] > 0
        /\ \A u \in Tasks \ {t} : successes'[u] = successes[u]
    BY <1>0, <1>8, <2>1 DEF HandleSucceeds, TypeOK
  <2>4. OutcomesOf(t)' = OutcomesOf(t) \cup {"succeeded"}
    BY <1>8, <2>3 DEF HandleSucceeds, OutcomesOf
  <2>5. \A u \in Tasks \ {t} : OutcomesOf(u)' = OutcomesOf(u)
    BY <1>8, <2>3 DEF HandleSucceeds, OutcomesOf
  <2> QED BY <2>1, <2>2, <2>4, <2>5, StepIsSettle
<1>9. CASE Republish
  <2>1. Retried(delivery) \in Message
    BY <1>9, ConstantsAssumption
    DEF Republish, Retried, Message, IInv, DeliveryInv, HeaderInv, Busy
  <2>2. Copies' = Copies \cup {Retried(delivery)}
    BY <1>0, <1>9, <2>1, CopiesAdded DEF Republish
  <2>3. AtBroker(delivery.task)
    BY <1>0, <1>9 DEF Republish, DeliveryInv, Busy
  <2>4. OpenTasks' = OpenTasks
    <3>1. Retried(delivery).task = delivery.task
      BY DEF Retried
    <3>2. \A u \in Tasks : AtBroker(u)' <=> AtBroker(u)
      BY <2>2, <2>3, <3>1 DEF AtBroker
    <3> QED BY <3>2 DEF OpenTasks
  <2>5. \A u \in Tasks : OutcomesOf(u)' = OutcomesOf(u)
    BY <1>9 DEF OutcomesOf, Republish
  <2> QED BY <2>4, <2>5 DEF Promise!vars
<1>10. CASE PublishToDLQ
  <2>0. delivery.task \in Tasks
    BY <1>0, <1>10 DEF PublishToDLQ, DeliveryInv, Busy, Message
  <2> PICK t \in Tasks : t = delivery.task
    BY <2>0
  <2>1. t \in OpenTasks
    BY <1>0, <1>10 DEF PublishToDLQ, DeliveryInv, OpenTasks, Busy, Message
  <2>2. OpenTasks' = OpenTasks
    BY <1>10 DEF PublishToDLQ, OpenTasks, AtBroker, Copies
  <2>3. /\ OutcomesOf(t)' = OutcomesOf(t) \cup {"dead"}
        /\ \A u \in Tasks \ {t} : OutcomesOf(u)' = OutcomesOf(u)
    BY <1>10 DEF PublishToDLQ, OutcomesOf
  <2> QED BY <2>1, <2>2, <2>3, StepIsSettle
<1>11. CASE Ack
  BY <1>11, StepIsClose DEF Ack, Finished
<1>12. CASE NackRequeue
  BY <1>0, <1>12, CopiesKept, StepIsStutter DEF NackRequeue, Finished
<1>13. CASE NackReject /\ ~connected
  <2>1. Copies' = Copies
    BY <1>0, <1>13 DEF NackReject, DeliveryInv, Copies
  <2> QED BY <1>13, <2>1, StepIsStutter DEF NackReject, Finished
<1>14. CASE NackReject /\ connected
  <2>0. delivery.task \in Tasks
    BY <1>0, <1>14 DEF NackReject, DeliveryInv, Busy, Message
  <2> PICK t \in Tasks : t = delivery.task
    BY <2>0
  <2>1. t \in OpenTasks /\ unacked = delivery
    BY <1>0, <1>14 DEF NackReject, DeliveryInv, OpenTasks, Busy, Message
  <2>2. Copies = Copies' \cup {delivery}
    BY <1>0, <1>14, <2>1, CopyRemoved, NoMsgIsNoMessage
    DEF NackReject, DeliveryInv, Busy
  <2>3. OpenTasks' = OpenTasks \/ OpenTasks' = OpenTasks \ {t}
    BY <2>2 DEF OpenTasks, AtBroker
  <2>4. /\ OutcomesOf(t)' = OutcomesOf(t) \cup {"rejected"}
        /\ \A u \in Tasks \ {t} : OutcomesOf(u)' = OutcomesOf(u)
    BY <1>14 DEF NackReject, Finished, OutcomesOf
  <2> QED BY <2>1, <2>3, <2>4, StepIsSettle
<1> QED
  BY <1>1, <1>2, <1>3, <1>4, <1>5, <1>6, <1>7, <1>8, <1>9, <1>10, <1>11, <1>12,
     <1>13, <1>14
  DEF Next, WorkerStep, Crash, Exit

\* The task queue implements at-least-once delivery: a task leaves the broker
\* only after a final outcome, and outcomes only come to tasks that were stored.
THEOREM ImplementsSafePromise == Spec => Promise!Safe
<1>1. Init => Promise!Init
  BY InitRefines
<1>2. IInv /\ IInv' /\ [Next]_vars => [Promise!Next]_(Promise!vars)
  BY NextRefines
<1> QED BY <1>1, <1>2, Invariance, PTL DEF Spec, Promise!Safe
------------------------------------------------------------------------------
(* How much is left to do: the marks of a queue are what its messages may  *)
(* still cause, w[m] being those of the message m, numbered from 1.        *)

Marks(q, w) == {x \in (DOMAIN q) \X (1..MaxConsecutiveFailures) : x[2] \in w[q[x[1]]]}

\* One execution that succeeds ...
Work(t)  == [m \in Message |-> IF m.task = t THEN {1} ELSE {}]
\* ... and as many that fail as the header leaves.
Tries(t) == [m \in Message |-> IF m.task = t THEN (m.retry + 1)..MaxConsecutiveFailures
                               ELSE {}]

\* What waits at the broker, in the queue or handed out and not yet taken.
Waiting(w) ==
  Cardinality(Marks(queue, w))
    + (IF pc \notin Busy /\ unacked # NoMsg THEN Cardinality(w[unacked]) ELSE 0)

\* What the delivery in hand may still lead to, unless a fault does.
HandWork(t) ==
  IF /\ pc \in {"handling", "republish"} \/ (pc = "requeue" /\ connected)
     /\ delivery.task = t
  THEN 1 ELSE 0
HandTries(t) ==
  IF delivery = NoMsg \/ delivery.task # t THEN 0
  ELSE IF pc = "handling" \/ (pc = "requeue" /\ connected)
  THEN MaxConsecutiveFailures - delivery.retry
  ELSE IF pc = "republish"
  THEN MaxConsecutiveFailures - delivery.retry - 1
  ELSE 0

Quota(t) == (IF sent[t] = "stored" THEN 1 ELSE 0) + faults

RepetitionInv ==
  \A t \in Tasks : successes[t] + Waiting(Work(t)) + HandWork(t) <= Quota(t)

RetryInv ==
  \A t \in Tasks :
    failures[t] + Waiting(Tries(t)) + HandTries(t) <= MaxConsecutiveFailures * Quota(t)


------------------------------------------------------------------------------
(* Counting the marks of a queue.                                          *)

Weights == [Message -> SUBSET (1..MaxConsecutiveFailures)]

LEMMA FiniteWeights ==
  ASSUME NEW w \in Weights, NEW m \in Message
  PROVE  IsFiniteSet(w[m]) /\ Cardinality(w[m]) \in Nat
<1>1. IsFiniteSet(1..MaxConsecutiveFailures) /\ w[m] \in SUBSET (1..MaxConsecutiveFailures)
  BY FS_Interval, ConstantsAssumption DEF Weights
<1> QED BY <1>1, FS_Subset, FS_CardinalityType

LEMMA FiniteMarks ==
  ASSUME NEW q \in Seq(Message), NEW w \in Weights
  PROVE  IsFiniteSet(Marks(q, w)) /\ Cardinality(Marks(q, w)) \in Nat
<1>1. Len(q) \in Nat /\ DOMAIN q = 1..Len(q)
  OBVIOUS
<1>2. IsFiniteSet(1..Len(q)) /\ IsFiniteSet(1..MaxConsecutiveFailures)
  BY <1>1, FS_Interval, ConstantsAssumption
<1>3. IsFiniteSet((1..Len(q)) \X (1..MaxConsecutiveFailures))
  BY <1>2, FS_Product
<1>4. Marks(q, w) \in SUBSET ((1..Len(q)) \X (1..MaxConsecutiveFailures))
  BY <1>1 DEF Marks
<1> QED BY <1>3, <1>4, FS_Subset, FS_CardinalityType

\* The marks of one message at its place.
LEMMA MarksOfOne ==
  ASSUME NEW w \in Weights, NEW m \in Message, NEW n \in Nat
  PROVE  /\ IsFiniteSet({n} \X w[m])
         /\ Cardinality({n} \X w[m]) = Cardinality(w[m])
<1>1. IsFiniteSet({n}) /\ Cardinality({n}) = 1
  BY FS_Singleton
<1>2. Cardinality({n} \X w[m]) = 1 * Cardinality(w[m]) /\ IsFiniteSet({n} \X w[m])
  BY <1>1, FiniteWeights, FS_Product
<1> QED BY <1>2, FiniteWeights

LEMMA MarksOfAppend ==
  ASSUME NEW q \in Seq(Message), NEW m \in Message, NEW w \in Weights
  PROVE  Cardinality(Marks(Append(q, m), w)) = Cardinality(Marks(q, w)) + Cardinality(w[m])
<1> DEFINE n == Len(q) + 1
           new == {n} \X w[m]
<1>1. /\ Len(q) \in Nat /\ DOMAIN q = 1..Len(q)
      /\ Append(q, m) \in Seq(Message) /\ DOMAIN Append(q, m) = 1..n
      /\ \A i \in 1..Len(q) : Append(q, m)[i] = q[i]
      /\ Append(q, m)[n] = m
  OBVIOUS
<1>2. w[m] \subseteq 1..MaxConsecutiveFailures
  BY DEF Weights
<1>3. Marks(Append(q, m), w) = Marks(q, w) \cup new
  <2>1. ASSUME NEW x \in Marks(Append(q, m), w) PROVE x \in Marks(q, w) \cup new
    <3>1. PICK i \in 1..n, k \in 1..MaxConsecutiveFailures :
            x = <<i, k>> /\ k \in w[Append(q, m)[i]]
      BY <1>1, <2>1 DEF Marks
    <3>2. CASE i = n
      BY <1>1, <3>1, <3>2
    <3>3. CASE i # n
      <4>1. i \in 1..Len(q)
        BY <1>1, <3>3
      <4> QED BY <1>1, <3>1, <4>1 DEF Marks
    <3> QED BY <3>2, <3>3
  <2>2. ASSUME NEW x \in Marks(q, w) PROVE x \in Marks(Append(q, m), w)
    <3>1. PICK i \in 1..Len(q), k \in 1..MaxConsecutiveFailures :
            x = <<i, k>> /\ k \in w[q[i]]
      BY <1>1, <2>2 DEF Marks
    <3>2. i \in 1..n
      BY <1>1
    <3> QED BY <1>1, <3>1, <3>2 DEF Marks
  <2>3. ASSUME NEW k \in w[m] PROVE <<n, k>> \in Marks(Append(q, m), w)
    <3>1. n \in 1..n
      BY <1>1
    <3> QED BY <1>1, <1>2, <2>3, <3>1 DEF Marks
  <2> QED BY <2>1, <2>2, <2>3
<1>4. Marks(q, w) \cap new = {}
  <2>1. n \notin DOMAIN q
    BY <1>1
  <2> QED BY <2>1 DEF Marks
<1>5. n \in Nat
  BY <1>1
<1> HIDE DEF n
<1>6. IsFiniteSet(new) /\ Cardinality(new) = Cardinality(w[m])
  BY <1>5, MarksOfOne
<1> HIDE DEF new
<1>7. /\ IsFiniteSet(Marks(q, w)) /\ Cardinality(Marks(q, w)) \in Nat
      /\ Cardinality(w[m]) \in Nat /\ Cardinality({}) = 0
  BY FiniteMarks, FiniteWeights, FS_EmptySet
<1>8. Cardinality(Marks(q, w) \cup new)
        = Cardinality(Marks(q, w)) + Cardinality(new) - Cardinality(Marks(q, w) \cap new)
  BY <1>6, <1>7, FS_Union
<1>9. Cardinality(Marks(q, w) \cap new) = 0
  BY <1>4, <1>7
<1> QED BY <1>3, <1>6, <1>7, <1>8, <1>9

LEMMA MarksOfCons ==
  ASSUME NEW q \in Seq(Message), NEW m \in Message, NEW w \in Weights
  PROVE  Cardinality(Marks(<<m>> \o q, w)) = Cardinality(Marks(q, w)) + Cardinality(w[m])
<1> DEFINE c == <<m>> \o q
           old == {x \in Marks(c, w) : x[1] # 1}
           new == {1} \X w[m]
           f == [x \in Marks(q, w) |-> <<x[1] + 1, x[2]>>]
<1>1. /\ Len(q) \in Nat /\ DOMAIN q = 1..Len(q)
      /\ c \in Seq(Message) /\ DOMAIN c = 1..(Len(q) + 1)
      /\ c[1] = m
      /\ \A i \in 1..Len(q) : c[i + 1] = q[i]
  OBVIOUS
<1>2. w[m] \subseteq 1..MaxConsecutiveFailures
  BY DEF Weights
<1> HIDE DEF c
<1>3. Marks(c, w) = old \cup new
  <2>1. ASSUME NEW x \in Marks(c, w), x[1] = 1 PROVE x \in new
    <3>1. x = <<1, x[2]>> /\ x[2] \in w[m]
      BY <1>1, <2>1 DEF Marks
    <3> QED BY <3>1
  <2>2. ASSUME NEW k \in w[m] PROVE <<1, k>> \in Marks(c, w)
    <3>1. 1 \in DOMAIN c
      BY <1>1
    <3> QED BY <1>1, <1>2, <2>2, <3>1 DEF Marks
  <2> QED BY <2>1, <2>2
<1>4. old \cap new = {}
  OBVIOUS
<1>5. ASSUME NEW x \in Marks(q, w)
      PROVE  f[x] \in old
  <2>1. PICK i \in 1..Len(q), k \in 1..MaxConsecutiveFailures : x = <<i, k>> /\ k \in w[q[i]]
    BY <1>1, <1>5 DEF Marks
  <2>2. i + 1 \in DOMAIN c /\ i + 1 # 1 /\ c[i + 1] = q[i]
    BY <1>1
  <2>3. f[x] = <<i + 1, k>>
    BY <2>1
  <2> QED BY <2>1, <2>2, <2>3 DEF Marks
<1>6. ASSUME NEW x \in Marks(q, w), NEW y \in Marks(q, w), f[x] = f[y]
      PROVE  x = y
  <2>1. PICK i \in 1..Len(q), k \in 1..MaxConsecutiveFailures : x = <<i, k>>
    BY <1>1 DEF Marks
  <2>2. PICK j \in 1..Len(q), l \in 1..MaxConsecutiveFailures : y = <<j, l>>
    BY <1>1 DEF Marks
  <2>3. i + 1 = j + 1 /\ k = l
    BY <1>6, <2>1, <2>2
  <2> QED BY <2>1, <2>2, <2>3
<1>7. ASSUME NEW y \in old
      PROVE  \E x \in Marks(q, w) : f[x] = y
  <2>1. PICK i \in 1..(Len(q) + 1), k \in 1..MaxConsecutiveFailures :
          y = <<i, k>> /\ k \in w[c[i]] /\ i # 1
    BY <1>1 DEF Marks
  <2>2. PICK j \in 1..Len(q) : i = j + 1
    <3>1. i - 1 \in 1..Len(q) /\ i = (i - 1) + 1
      BY <1>1, <2>1
    <3> QED BY <3>1
  <2>3. <<j, k>> \in Marks(q, w)
    BY <1>1, <2>1, <2>2 DEF Marks
  <2>4. f[<<j, k>>] = y
    BY <2>1, <2>2, <2>3
  <2> QED BY <2>3, <2>4
<1>8. f \in Bijection(Marks(q, w), old)
  <2>1. f \in [Marks(q, w) -> old]
    BY <1>5
  <2>2. DOMAIN f = Marks(q, w)
    OBVIOUS
  <2> HIDE DEF f, old
  <2> QED BY <1>6, <1>7, <2>1, <2>2 DEF Bijection, Injection, Surjection, IsInjective
<1> HIDE DEF f, old
<1>9. /\ IsFiniteSet(Marks(q, w)) /\ Cardinality(Marks(q, w)) \in Nat
      /\ Cardinality(w[m]) \in Nat /\ Cardinality({}) = 0
  BY FiniteMarks, FiniteWeights, FS_EmptySet
<1>10. IsFiniteSet(old) /\ Cardinality(old) = Cardinality(Marks(q, w))
  BY <1>8, <1>9, FS_Bijection DEF ExistsBijection
<1>11. IsFiniteSet(new) /\ Cardinality(new) = Cardinality(w[m])
  BY MarksOfOne
<1> HIDE DEF new
<1>12. Cardinality(old \cup new)
        = Cardinality(old) + Cardinality(new) - Cardinality(old \cap new)
  BY <1>10, <1>11, FS_Union
<1>13. Cardinality(old \cap new) = 0
  BY <1>4, <1>9
<1>14. Cardinality(Marks(c, w)) = Cardinality(Marks(q, w)) + Cardinality(w[m])
  BY <1>3, <1>9, <1>10, <1>11, <1>12, <1>13
<1> QED BY <1>14 DEF c

LEMMA MarksOfTail ==
  ASSUME NEW q \in Seq(Message), q # <<>>, NEW w \in Weights
  PROVE  Cardinality(Marks(q, w)) = Cardinality(Marks(Tail(q), w)) + Cardinality(w[Head(q)])
<1>1. Head(q) \in Message /\ Tail(q) \in Seq(Message)
  BY RangeOfHeadTail
<1>2. q = <<Head(q)>> \o Tail(q)
  OBVIOUS
<1> QED BY <1>1, <1>2, MarksOfCons


------------------------------------------------------------------------------
(* What the steps do to what waits.                                        *)

Out(w) == IF unacked = NoMsg THEN 0 ELSE Cardinality(w[unacked])

LEMMA WaitingParts ==
  ASSUME TypeOK, NEW w \in Weights
  PROVE  /\ Cardinality(Marks(queue, w)) \in Nat /\ Out(w) \in Nat
         /\ Waiting(w) = Cardinality(Marks(queue, w)) + (IF pc \in Busy THEN 0 ELSE Out(w))
         /\ Waiting(w) \in Nat
<1>1. Cardinality(Marks(queue, w)) \in Nat
  BY FiniteMarks DEF TypeOK
<1>2. Out(w) \in Nat
  BY FiniteWeights DEF TypeOK, Out
<1>3. Waiting(w) = Cardinality(Marks(queue, w)) + (IF pc \in Busy THEN 0 ELSE Out(w))
  BY DEF Waiting, Out
<1> QED BY <1>1, <1>2, <1>3

LEMMA WaitsAlike ==
  ASSUME NEW w, UNCHANGED <<queue, unacked>>, pc' \in Busy <=> pc \in Busy
  PROVE  Waiting(w)' = Waiting(w)
BY DEF Waiting, Busy

LEMMA OneMoreWaits ==
  ASSUME TypeOK, TypeOK', NEW w \in Weights, NEW m \in Message,
         queue' = Append(queue, m), UNCHANGED unacked, pc' \in Busy <=> pc \in Busy
  PROVE  Waiting(w)' = Waiting(w) + Cardinality(w[m])
<1>1. Cardinality(Marks(queue', w)) = Cardinality(Marks(queue, w)) + Cardinality(w[m])
  BY MarksOfAppend DEF TypeOK
<1>2. Waiting(w)' = Cardinality(Marks(queue', w)) + (IF pc \in Busy THEN 0 ELSE Out(w))
  BY DEF Waiting, Out, Busy
<1>3. Cardinality(w[m]) \in Nat
  BY FiniteWeights
<1> QED BY <1>1, <1>2, <1>3, WaitingParts

LEMMA DeliveredWaits ==
  ASSUME TypeOK, DeliveryInv, NEW w \in Weights, Deliver
  PROVE  Waiting(w)' = Waiting(w)
<1>1. /\ pc \notin Busy /\ unacked = NoMsg /\ queue \in Seq(Message) /\ queue # <<>>
      /\ queue' = Tail(queue) /\ unacked' = Head(queue) /\ pc' = pc
  BY NoMsgIsNoMessage DEF Deliver, DeliveryInv, TypeOK
<1>2. Head(queue) \in Message
  BY <1>1, RangeOfHeadTail
<1>3. Cardinality(Marks(queue, w)) = Cardinality(Marks(queue', w)) + Cardinality(w[unacked'])
  BY <1>1, MarksOfTail
<1>4. Waiting(w)' = Cardinality(Marks(queue', w)) + Cardinality(w[unacked'])
  BY <1>1, <1>2, NoMsgIsNoMessage DEF Waiting, Busy
<1>5. Waiting(w) = Cardinality(Marks(queue, w))
  BY <1>1, WaitingParts DEF Out
<1> QED BY <1>3, <1>4, <1>5

LEMMA TakenWaits ==
  ASSUME TypeOK, NEW w \in Weights, Take
  PROVE  /\ Waiting(w) = Waiting(w)' + Cardinality(w[delivery'])
         /\ Waiting(w)' \in Nat
<1>1. /\ pc \notin Busy /\ pc' \in Busy /\ unacked \in Message /\ unacked # NoMsg
      /\ delivery' = unacked /\ UNCHANGED <<queue, unacked>>
  BY DEF Take, TypeOK, Busy
<1>2. Waiting(w)' = Cardinality(Marks(queue, w)) + 0
  BY <1>1 DEF Waiting, Busy
<1>3. Waiting(w) = Cardinality(Marks(queue, w)) + Cardinality(w[delivery'])
  BY <1>1, WaitingParts DEF Out
<1> QED BY <1>2, <1>3, WaitingParts

LEMMA RequeuedWaits ==
  ASSUME TypeOK, NEW w \in Weights, queue' = Requeued, unacked' = NoMsg
  PROVE  Waiting(w)' = Waiting(w) + (IF pc \in Busy THEN Out(w) ELSE 0)
<1>1. Cardinality(Marks(Requeued, w)) = Cardinality(Marks(queue, w)) + Out(w)
  <2>1. CASE unacked = NoMsg
    BY <2>1, WaitingParts DEF Requeued, Out
  <2>2. CASE unacked # NoMsg
    BY <2>2, MarksOfCons DEF Requeued, Out, TypeOK
  <2> QED BY <2>1, <2>2
<1>2. Waiting(w)' = Cardinality(Marks(Requeued, w)) + 0
  BY DEF Waiting, Busy
<1> QED BY <1>1, <1>2, WaitingParts

LEMMA SettledWaits ==
  ASSUME TypeOK, NEW w \in Weights, pc \in Busy, queue' = queue, unacked' = NoMsg
  PROVE  Waiting(w)' = Waiting(w)
<1>1. Waiting(w)' = Cardinality(Marks(queue, w)) + 0
  BY DEF Waiting, Busy
<1> QED BY <1>1, WaitingParts

LEMMA WorkOf ==
  ASSUME NEW t
  PROVE  /\ Work(t) \in Weights
         /\ \A m \in Message : Cardinality(Work(t)[m]) = IF m.task = t THEN 1 ELSE 0
<1>1. 1 \in 1..MaxConsecutiveFailures
  BY ConstantsAssumption
<1>2. Work(t) \in Weights
  BY <1>1 DEF Work, Weights
<1>3. ASSUME NEW m \in Message PROVE Cardinality(Work(t)[m]) = IF m.task = t THEN 1 ELSE 0
  BY FS_Singleton, FS_EmptySet DEF Work
<1> QED BY <1>2, <1>3

LEMMA TriesOf ==
  ASSUME NEW t
  PROVE  /\ Tries(t) \in Weights
         /\ \A m \in Message :
              Cardinality(Tries(t)[m]) = IF m.task = t THEN MaxConsecutiveFailures - m.retry ELSE 0
<1>1. \A m \in Message : m.retry \in Nat /\ m.retry <= MaxConsecutiveFailures - 1
  BY ConstantsAssumption DEF Message
<1>2. Tries(t) \in Weights
  <2>1. \A m \in Message : (m.retry + 1)..MaxConsecutiveFailures \subseteq 1..MaxConsecutiveFailures
    BY <1>1
  <2> QED BY <2>1 DEF Tries, Weights
<1>3. ASSUME NEW m \in Message
      PROVE  Cardinality(Tries(t)[m]) = IF m.task = t THEN MaxConsecutiveFailures - m.retry ELSE 0
  <2>1. CASE m.task = t
    <3>1. PICK a \in Int, b \in Int : a = m.retry + 1 /\ b = MaxConsecutiveFailures /\ a <= b
      BY <1>1, ConstantsAssumption
    <3>2. Tries(t)[m] = a..b
      BY <2>1, <3>1 DEF Tries
    <3>3. Cardinality(a..b) = b - a + 1
      BY <3>1, FS_Interval
    <3> QED BY <1>1, <2>1, <3>1, <3>2, <3>3
  <2>2. CASE m.task # t
    BY <2>2, FS_EmptySet DEF Tries
  <2> QED BY <2>1, <2>2
<1> QED BY <1>2, <1>3


\* What an execution may still do is bounded for each task by what was stored
\* of it and by the faults.
LEMMA RepetitionKept ==
  ASSUME IInv, IInv', [Next]_vars, RepetitionInv
  PROVE  RepetitionInv'
<1> USE DEF TypeOK
<1>0. TypeOK /\ TypeOK' /\ DeliveryInv
  BY DEF IInv
<1> SUFFICES ASSUME NEW t \in Tasks
             PROVE  successes'[t] + Waiting(Work(t))' + HandWork(t)' <= Quota(t)'
    BY DEF RepetitionInv
<1> PICK w : w = Work(t)
  OBVIOUS
<1>1. w \in Weights /\ \A m \in Message : Cardinality(w[m]) = IF m.task = t THEN 1 ELSE 0
  BY WorkOf
<1>2. /\ successes[t] + Waiting(w) + HandWork(t) <= Quota(t)
      /\ successes[t] \in Nat /\ Waiting(w) \in Nat
      /\ HandWork(t) \in {0, 1} /\ HandWork(t)' \in {0, 1}
      /\ Quota(t) \in Nat
  <2>1. successes[t] + Waiting(w) + HandWork(t) <= Quota(t)
    BY DEF RepetitionInv
  <2>2. successes[t] \in Nat /\ Quota(t) \in Nat
    BY <1>0 DEF Quota
  <2>3. HandWork(t) \in {0, 1} /\ HandWork(t)' \in {0, 1}
    BY DEF HandWork
  <2> QED BY <1>0, <1>1, <2>1, <2>2, <2>3, WaitingParts
<1>3. Out(w) \in {0, 1}
  BY <1>0, <1>1 DEF Out
<1> SUFFICES successes'[t] + Waiting(w)' + HandWork(t)' <= Quota(t)'
    BY <1>2
\* A fault allows for one more.
<1>4. ASSUME Fault, sent'[t] = "stored" <=> sent[t] = "stored" PROVE Quota(t)' = Quota(t) + 1
  BY <1>0, <1>4 DEF Quota, Fault
<1>5. ASSUME UNCHANGED <<faults, sent>> PROVE Quota(t)' = Quota(t)
  BY <1>5 DEF Quota
<1>6. ASSUME UNCHANGED <<pc, delivery, connected>> PROVE HandWork(t)' = HandWork(t)
  BY <1>6 DEF HandWork
<1>7. ASSUME pc' \notin {"handling", "republish", "requeue"} PROVE HandWork(t)' = 0
  BY <1>7 DEF HandWork
<1>8. CASE UNCHANGED vars
  <2>1. Waiting(w)' = Waiting(w) /\ HandWork(t)' = HandWork(t) /\ Quota(t)' = Quota(t)
    BY <1>5, <1>6, <1>8, WaitsAlike DEF vars
  <2> QED BY <1>2, <1>8, <2>1 DEF vars
<1>9. ASSUME NEW u \in Tasks, PublishTask(u)
      PROVE  successes'[t] + Waiting(w)' + HandWork(t)' <= Quota(t)'
  <2>1. PICK m \in Message : m = [task |-> u, retry |-> 0]
    <3>1. [task |-> u, retry |-> 0] \in Message
      BY ConstantsAssumption DEF Message
    <3> QED BY <3>1
  <2>2. Waiting(w)' = Waiting(w) + Cardinality(w[m])
    BY <1>0, <1>1, <1>9, <2>1, OneMoreWaits DEF PublishTask
  <2>3. HandWork(t)' = HandWork(t) /\ successes' = successes
    BY <1>6, <1>9 DEF PublishTask
  <2>4. CASE u = t
    <3>1. Quota(t)' = Quota(t) + 1
      BY <1>0, <1>9, <2>4 DEF PublishTask, Quota
    <3> QED BY <1>1, <1>2, <2>1, <2>2, <2>3, <2>4, <3>1
  <2>5. CASE u # t
    <3>1. Quota(t)' = Quota(t)
      BY <1>0, <1>9, <2>5 DEF PublishTask, Quota
    <3> QED BY <1>1, <1>2, <2>1, <2>2, <2>3, <2>5, <3>1
  <2> QED BY <2>4, <2>5
<1>10. CASE Signal \/ \E u \in Tasks : PublishTaskFails(u)
  <2>1. /\ Fault /\ UNCHANGED <<queue, unacked, pc, delivery, connected, successes>>
        /\ sent'[t] = "stored" <=> sent[t] = "stored"
    BY <1>0, <1>10 DEF Signal, PublishTaskFails
  <2>2. Waiting(w)' = Waiting(w) /\ HandWork(t)' = HandWork(t) /\ Quota(t)' = Quota(t) + 1
    BY <1>4, <1>6, <2>1, WaitsAlike
  <2> QED BY <1>2, <2>1, <2>2
<1>11. CASE Deliver
  <2>1. UNCHANGED <<pc, delivery, connected, successes, faults, sent>>
    BY <1>11 DEF Deliver
  <2>2. Waiting(w)' = Waiting(w) /\ HandWork(t)' = HandWork(t) /\ Quota(t)' = Quota(t)
    BY <1>0, <1>1, <1>5, <1>6, <1>11, <2>1, DeliveredWaits
  <2> QED BY <1>2, <2>1, <2>2
<1>12. CASE ConnectionLost \/ Crash
  <2>1. /\ Fault /\ queue' = Requeued /\ unacked' = NoMsg /\ UNCHANGED <<sent, successes>>
        /\ connected' = FALSE /\ (UNCHANGED <<pc, delivery>> \/ pc' = "down")
    BY <1>12 DEF ConnectionLost, Crash, Gone
  <2>2. Waiting(w)' = Waiting(w) \/ Waiting(w)' = Waiting(w) + 1
    BY <1>0, <1>1, <1>2, <1>3, <2>1, RequeuedWaits
  <2>3. HandWork(t)' <= HandWork(t)
    BY <1>2, <2>1 DEF HandWork
  <2>4. Quota(t)' = Quota(t) + 1
    BY <1>4, <2>1
  <2> QED BY <1>2, <2>1, <2>2, <2>3, <2>4
<1>13. CASE Exit
  <2>1. /\ queue' = Requeued /\ unacked' = NoMsg /\ UNCHANGED <<sent, successes, faults>>
        /\ pc \notin Busy /\ pc' = "down"
    BY <1>13 DEF Exit, Gone, Busy
  <2>2. Waiting(w)' = Waiting(w)
    BY <1>0, <1>1, <1>2, <2>1, RequeuedWaits
  <2>3. HandWork(t)' = 0 /\ Quota(t)' = Quota(t)
    BY <1>5, <1>7, <2>1
  <2> QED BY <1>2, <2>1, <2>2, <2>3
<1>14. CASE Start
  <2>1. UNCHANGED <<queue, unacked, sent, successes, faults>> /\ pc = "down" /\ pc' = "idle"
    BY <1>14 DEF Start
  <2>2. Waiting(w)' = Waiting(w) /\ HandWork(t)' = 0 /\ Quota(t)' = Quota(t)
    BY <1>5, <1>7, <2>1, WaitsAlike DEF Busy
  <2> QED BY <1>2, <2>1, <2>2
<1>15. CASE Take
  <2>1. /\ UNCHANGED <<sent, successes, faults>> /\ pc' = "handling"
        /\ delivery' \in Message
    BY <1>0, <1>15 DEF Take
  <2>2. Waiting(w) = Waiting(w)' + Cardinality(w[delivery']) /\ Waiting(w)' \in Nat
    BY <1>0, <1>1, <1>15, TakenWaits
  <2>3. HandWork(t)' = Cardinality(w[delivery'])
    BY <1>1, <2>1 DEF HandWork
  <2>4. Quota(t)' = Quota(t)
    BY <1>5, <2>1
  <2> QED BY <1>2, <2>1, <2>2, <2>3, <2>4
<1>16. CASE HandleSucceeds
  <2>1. /\ UNCHANGED <<queue, unacked, sent, faults>> /\ pc = "handling" /\ pc' = "ack"
        /\ successes'[t] = IF delivery.task = t THEN successes[t] + 1 ELSE successes[t]
    BY <1>0, <1>16 DEF HandleSucceeds
  <2>2. Waiting(w)' = Waiting(w) /\ HandWork(t)' = 0 /\ Quota(t)' = Quota(t)
    BY <1>5, <1>7, <2>1, WaitsAlike DEF Busy
  <2>3. HandWork(t) = IF delivery.task = t THEN 1 ELSE 0
    BY <2>1 DEF HandWork
  <2> QED BY <1>2, <2>1, <2>2, <2>3
<1>17. CASE HandleFails \/ PublishToDLQ
  <2>1. /\ UNCHANGED <<queue, unacked, sent, faults, successes, delivery, connected>>
        /\ pc \in Busy /\ pc' \in Busy
        /\ pc = "handling" \/ pc' = "ack"
    BY <1>17 DEF HandleFails, PublishToDLQ, AfterFailure, Busy
  <2>2. Waiting(w)' = Waiting(w) /\ Quota(t)' = Quota(t)
    BY <1>5, <2>1, WaitsAlike
  <2>3. HandWork(t)' <= HandWork(t)
    BY <1>2, <2>1 DEF HandWork
  <2> QED BY <1>2, <2>1, <2>2, <2>3
<1>18. CASE Republish
  <2>1. /\ UNCHANGED <<unacked, sent, faults, successes>> /\ pc = "republish" /\ pc' = "ack"
        /\ queue' = Append(queue, Retried(delivery)) /\ connected /\ delivery \in Message
        /\ delivery.retry < MaxConsecutiveFailures - 1
    BY <1>18 DEF Republish, IInv, DeliveryInv, HeaderInv, Busy
  <2>2. PICK m \in Message : m = Retried(delivery) /\ m.task = delivery.task
    BY <2>1, ConstantsAssumption DEF Message, Retried
  <2>3. Waiting(w)' = Waiting(w) + Cardinality(w[m])
    BY <1>0, <1>1, <2>1, <2>2, OneMoreWaits DEF Busy
  <2>4. HandWork(t) = Cardinality(w[m]) /\ HandWork(t)' = 0 /\ Quota(t)' = Quota(t)
    BY <1>1, <1>5, <1>7, <2>1, <2>2 DEF HandWork
  <2> QED BY <1>2, <2>1, <2>3, <2>4
<1>19. CASE PublishError
  <2>1. /\ UNCHANGED <<queue, unacked, sent, successes, connected>> /\ pc' = "requeue"
        /\ pc \in {"republish", "toDLQ"} /\ IF connected THEN Fault ELSE UNCHANGED faults
    BY <1>19 DEF PublishError
  <2>2. Waiting(w)' = Waiting(w)
    BY <2>1, WaitsAlike DEF Busy
  <2>3. CASE connected
    BY <1>2, <1>4, <2>1, <2>2, <2>3
  <2>4. CASE ~connected
    <3>1. HandWork(t)' = 0 /\ Quota(t)' = Quota(t)
      BY <1>5, <2>1, <2>4 DEF HandWork
    <3> QED BY <1>2, <2>1, <2>2, <3>1
  <2> QED BY <2>3, <2>4
<1>20. CASE Ack \/ NackReject
  <2>1. /\ UNCHANGED <<queue, sent, successes, faults>> /\ unacked' = NoMsg
        /\ pc \in Busy /\ pc' = "idle"
    BY <1>20 DEF Ack, NackReject, Finished, Busy
  <2>2. Waiting(w)' = Waiting(w) /\ HandWork(t)' = 0 /\ Quota(t)' = Quota(t)
    BY <1>0, <1>1, <1>5, <1>7, <2>1, SettledWaits
  <2> QED BY <1>2, <2>1, <2>2
<1>21. CASE NackRequeue
  <2>1. /\ UNCHANGED <<sent, successes, faults>> /\ queue' = Requeued /\ unacked' = NoMsg
        /\ pc = "requeue" /\ pc' = "idle"
    BY <1>21 DEF NackRequeue, Finished
  <2>2. Waiting(w)' = Waiting(w) + Out(w)
    BY <1>0, <1>1, <2>1, RequeuedWaits DEF Busy
  <2>3. HandWork(t) = Out(w)
    <3>1. CASE connected
      <4>1. unacked = delivery /\ delivery \in Message /\ unacked # NoMsg
        BY <1>0, <2>1, <3>1, NoMsgIsNoMessage DEF DeliveryInv, Busy
      <4> QED BY <1>1, <2>1, <3>1, <4>1 DEF HandWork, Out
    <3>2. CASE ~connected
      BY <1>0, <2>1, <3>2 DEF HandWork, Out, DeliveryInv
    <3> QED BY <3>1, <3>2
  <2>4. HandWork(t)' = 0 /\ Quota(t)' = Quota(t)
    BY <1>5, <1>7, <2>1
  <2> QED BY <1>2, <2>1, <2>2, <2>3, <2>4
<1> QED BY <1>8, <1>9, <1>10, <1>11, <1>12, <1>13, <1>14, <1>15, <1>16, <1>17, <1>18,
           <1>19, <1>20, <1>21 DEF Next, WorkerStep


\* So is what a task may still fail, a copy for each and the limit for each copy.
LEMMA RetryKept ==
  ASSUME IInv, IInv', [Next]_vars, RetryInv
  PROVE  RetryInv'
<1> USE DEF TypeOK
<1>0. TypeOK /\ TypeOK' /\ DeliveryInv
  BY DEF IInv
<1> PICK max \in Nat : max = MaxConsecutiveFailures /\ max >= 1
  BY ConstantsAssumption
<1> SUFFICES ASSUME NEW t \in Tasks
             PROVE  failures'[t] + Waiting(Tries(t))' + HandTries(t)' <= max * Quota(t)'
    BY DEF RetryInv
<1> PICK w : w = Tries(t)
  OBVIOUS
<1>1. w \in Weights /\ \A m \in Message : Cardinality(w[m]) = IF m.task = t THEN max - m.retry ELSE 0
  BY TriesOf
<1>2. \A m \in Message : m.retry \in Nat /\ m.retry <= max - 1
  BY ConstantsAssumption DEF Message
<1>3. /\ pc \in Busy => delivery \in Message
      /\ pc = "republish" => delivery.retry < max - 1
      /\ pc' \in Busy => delivery' \in Message
      /\ pc' = "republish" => delivery'.retry < max - 1
  BY DEF IInv, DeliveryInv, HeaderInv
<1>4. /\ failures[t] + Waiting(w) + HandTries(t) <= max * Quota(t)
      /\ failures[t] \in Nat /\ Waiting(w) \in Nat
      /\ HandTries(t) \in Nat /\ HandTries(t)' \in Nat
      /\ max * Quota(t) \in Nat
  <2>1. failures[t] + Waiting(w) + HandTries(t) <= max * Quota(t)
    BY DEF RetryInv
  <2>2. failures[t] \in Nat /\ Quota(t) \in Nat
    BY <1>0 DEF Quota
  <2>3. max * Quota(t) \in Nat
    BY <2>2
  <2>4. HandTries(t) \in Nat
    BY <1>2, <1>3 DEF HandTries, Busy
  <2>5. HandTries(t)' \in Nat
    BY <1>2, <1>3 DEF HandTries, Busy
  <2> QED BY <1>0, <1>1, <2>1, <2>2, <2>3, <2>4, <2>5, WaitingParts
<1>5. Out(w) \in Nat /\ Out(w) <= max
  <2>1. CASE unacked = NoMsg
    BY <2>1 DEF Out
  <2>2. CASE unacked # NoMsg
    <3>1. PICK m \in Message : m = unacked
      BY <1>0, <2>2
    <3>2. Out(w) = Cardinality(w[m])
      BY <2>2, <3>1 DEF Out
    <3>3. Cardinality(w[m]) = 0 \/ Cardinality(w[m]) = max - m.retry
      BY <1>1
    <3>4. m.retry \in Nat /\ m.retry <= max - 1
      BY <1>2
    <3> QED BY <3>2, <3>3, <3>4
  <2> QED BY <2>1, <2>2
<1> SUFFICES failures'[t] + Waiting(w)' + HandTries(t)' <= max * Quota(t)'
    BY <1>4
\* A fault, and a message that is stored, allow for as many as the limit.
<1>6. Quota(t)' = Quota(t) + 1 => max * Quota(t)' = max * Quota(t) + max
  <2>1. Quota(t) \in Nat
    BY <1>0 DEF Quota
  <2> QED BY <2>1
<1>7. ASSUME Fault, sent'[t] = "stored" <=> sent[t] = "stored"
      PROVE  max * Quota(t)' = max * Quota(t) + max
  BY <1>0, <1>6, <1>7 DEF Quota, Fault
<1>8. ASSUME UNCHANGED <<faults, sent>> PROVE Quota(t)' = Quota(t)
  BY <1>8 DEF Quota
<1>9. ASSUME UNCHANGED <<pc, delivery, connected>> PROVE HandTries(t)' = HandTries(t)
  BY <1>9 DEF HandTries
<1>10. ASSUME pc' \notin {"handling", "republish", "requeue"} PROVE HandTries(t)' = 0
  BY <1>10 DEF HandTries
\* While the worker is at it, what is in hand is a message.
<1>11. ASSUME pc \in Busy
       PROVE  HandTries(t) = IF delivery.task # t THEN 0
                             ELSE IF pc = "handling" \/ (pc = "requeue" /\ connected)
                             THEN max - delivery.retry
                             ELSE IF pc = "republish" THEN max - delivery.retry - 1 ELSE 0
  BY <1>3, <1>11, NoMsgIsNoMessage DEF HandTries
<1>12. CASE UNCHANGED vars
  <2>1. Waiting(w)' = Waiting(w) /\ HandTries(t)' = HandTries(t) /\ Quota(t)' = Quota(t)
    BY <1>8, <1>9, <1>12, WaitsAlike DEF vars
  <2> QED BY <1>4, <1>12, <2>1 DEF vars
<1>13. ASSUME NEW u \in Tasks, PublishTask(u)
       PROVE  failures'[t] + Waiting(w)' + HandTries(t)' <= max * Quota(t)'
  <2>1. PICK m \in Message : m = [task |-> u, retry |-> 0]
    <3>1. [task |-> u, retry |-> 0] \in Message
      BY ConstantsAssumption DEF Message
    <3> QED BY <3>1
  <2>2. Waiting(w)' = Waiting(w) + Cardinality(w[m])
    BY <1>0, <1>1, <1>13, <2>1, OneMoreWaits DEF PublishTask
  <2>3. HandTries(t)' = HandTries(t) /\ failures' = failures
    BY <1>9, <1>13 DEF PublishTask
  <2>4. CASE u = t
    <3>1. Quota(t)' = Quota(t) + 1
      BY <1>0, <1>13, <2>4 DEF PublishTask, Quota
    <3>2. Cardinality(w[m]) = max
      BY <1>1, <2>1, <2>4
    <3> QED BY <1>4, <1>6, <2>2, <2>3, <3>1, <3>2
  <2>5. CASE u # t
    <3>1. Quota(t)' = Quota(t)
      BY <1>0, <1>13, <2>5 DEF PublishTask, Quota
    <3>2. Cardinality(w[m]) = 0
      BY <1>1, <2>1, <2>5
    <3> QED BY <1>4, <2>2, <2>3, <3>1, <3>2
  <2> QED BY <2>4, <2>5
<1>14. CASE Signal \/ \E u \in Tasks : PublishTaskFails(u)
  <2>1. /\ Fault /\ UNCHANGED <<queue, unacked, pc, delivery, connected, failures>>
        /\ sent'[t] = "stored" <=> sent[t] = "stored"
    BY <1>0, <1>14 DEF Signal, PublishTaskFails
  <2>2. Waiting(w)' = Waiting(w) /\ HandTries(t)' = HandTries(t)
    BY <1>9, <2>1, WaitsAlike
  <2>3. max * Quota(t)' = max * Quota(t) + max
    BY <1>7, <2>1
  <2> QED BY <1>4, <2>1, <2>2, <2>3
<1>15. CASE Deliver
  <2>1. UNCHANGED <<pc, delivery, connected, failures, faults, sent>>
    BY <1>15 DEF Deliver
  <2>2. Waiting(w)' = Waiting(w) /\ HandTries(t)' = HandTries(t) /\ Quota(t)' = Quota(t)
    BY <1>0, <1>1, <1>8, <1>9, <1>15, <2>1, DeliveredWaits
  <2> QED BY <1>4, <2>1, <2>2
<1>16. CASE ConnectionLost \/ Crash
  <2>1. /\ Fault /\ queue' = Requeued /\ unacked' = NoMsg /\ UNCHANGED <<sent, failures>>
        /\ connected' = FALSE /\ (UNCHANGED <<pc, delivery>> \/ pc' = "down")
    BY <1>16 DEF ConnectionLost, Crash, Gone
  <2>2. Waiting(w)' = Waiting(w) \/ Waiting(w)' = Waiting(w) + Out(w)
    BY <1>0, <1>1, <1>4, <2>1, RequeuedWaits
  <2>3. HandTries(t)' = HandTries(t) \/ HandTries(t)' = 0
    BY <2>1 DEF HandTries
  <2>4. max * Quota(t)' = max * Quota(t) + max
    BY <1>7, <2>1
  <2> QED BY <1>4, <1>5, <2>1, <2>2, <2>3, <2>4
<1>17. CASE Exit
  <2>1. /\ queue' = Requeued /\ unacked' = NoMsg /\ UNCHANGED <<sent, failures, faults>>
        /\ pc \notin Busy /\ pc' = "down"
    BY <1>17 DEF Exit, Gone, Busy
  <2>2. Waiting(w)' = Waiting(w)
    BY <1>0, <1>1, <1>4, <2>1, RequeuedWaits
  <2>3. HandTries(t)' = 0 /\ Quota(t)' = Quota(t)
    BY <1>8, <1>10, <2>1
  <2> QED BY <1>4, <2>1, <2>2, <2>3
<1>18. CASE Start
  <2>1. UNCHANGED <<queue, unacked, sent, failures, faults>> /\ pc = "down" /\ pc' = "idle"
    BY <1>18 DEF Start
  <2>2. Waiting(w)' = Waiting(w) /\ HandTries(t)' = 0 /\ Quota(t)' = Quota(t)
    BY <1>8, <1>10, <2>1, WaitsAlike DEF Busy
  <2> QED BY <1>4, <2>1, <2>2
<1>19. CASE Take
  <2>1. /\ UNCHANGED <<sent, failures, faults>> /\ pc' = "handling"
        /\ delivery' \in Message /\ delivery' # NoMsg
    BY <1>0, <1>19, NoMsgIsNoMessage DEF Take
  <2>2. Waiting(w) = Waiting(w)' + Cardinality(w[delivery']) /\ Waiting(w)' \in Nat
    BY <1>0, <1>1, <1>19, TakenWaits
  <2>3. HandTries(t)' = Cardinality(w[delivery'])
    BY <1>1, <2>1 DEF HandTries
  <2>4. Quota(t)' = Quota(t)
    BY <1>8, <2>1
  <2> QED BY <1>4, <2>1, <2>2, <2>3, <2>4
<1>20. CASE HandleFails
  <2>1. /\ UNCHANGED <<queue, unacked, sent, faults, delivery>> /\ pc = "handling"
        /\ pc' \in {"toDLQ", "reject", "republish"}
        /\ failures'[t] = IF delivery.task = t THEN failures[t] + 1 ELSE failures[t]
    BY <1>0, <1>20 DEF HandleFails, AfterFailure
  <2>2. Waiting(w)' = Waiting(w) /\ Quota(t)' = Quota(t)
    BY <1>8, <2>1, WaitsAlike DEF Busy
  <2>3. HandTries(t) = IF delivery.task = t THEN max - delivery.retry ELSE 0
    BY <1>11, <2>1 DEF Busy
  <2>4. /\ HandTries(t)' = 0 \/ HandTries(t)' = max - delivery.retry - 1
        /\ delivery.task # t => HandTries(t)' = 0
    BY <2>1 DEF HandTries
  <2>5. delivery.retry \in Nat /\ delivery.retry <= max - 1
    BY <1>2, <1>3, <2>1 DEF Busy
  <2> QED BY <1>4, <2>1, <2>2, <2>3, <2>4, <2>5
<1>21. CASE HandleSucceeds \/ PublishToDLQ
  <2>1. /\ UNCHANGED <<queue, unacked, sent, faults, failures>>
        /\ pc \in Busy /\ pc' = "ack"
    BY <1>21 DEF HandleSucceeds, PublishToDLQ, Busy
  <2>2. Waiting(w)' = Waiting(w) /\ HandTries(t)' = 0 /\ Quota(t)' = Quota(t)
    BY <1>8, <1>10, <2>1, WaitsAlike DEF Busy
  <2> QED BY <1>4, <2>1, <2>2
<1>22. CASE Republish
  <2>1. /\ UNCHANGED <<unacked, sent, faults, failures>> /\ pc = "republish" /\ pc' = "ack"
        /\ queue' = Append(queue, Retried(delivery)) /\ delivery \in Message
        /\ delivery.retry < max - 1
    BY <1>3, <1>22 DEF Republish, Busy
  <2>2. PICK m \in Message : m = Retried(delivery) /\ m.task = delivery.task
                             /\ m.retry = delivery.retry + 1
    BY <2>1, ConstantsAssumption DEF Message, Retried
  <2>3. Waiting(w)' = Waiting(w) + Cardinality(w[m])
    BY <1>0, <1>1, <2>1, <2>2, OneMoreWaits DEF Busy
  <2>4. HandTries(t) = IF delivery.task = t THEN max - delivery.retry - 1 ELSE 0
    BY <1>11, <2>1 DEF Busy
  <2>5. HandTries(t) = Cardinality(w[m])
    BY <1>1, <1>2, <2>1, <2>2, <2>4
  <2>6. HandTries(t)' = 0 /\ Quota(t)' = Quota(t)
    BY <1>8, <1>10, <2>1
  <2> QED BY <1>4, <2>1, <2>3, <2>5, <2>6
<1>23. CASE PublishError
  <2>1. /\ UNCHANGED <<queue, unacked, sent, failures, connected, delivery>> /\ pc' = "requeue"
        /\ pc \in {"republish", "toDLQ"} /\ IF connected THEN Fault ELSE UNCHANGED faults
    BY <1>23 DEF PublishError
  <2>2. Waiting(w)' = Waiting(w)
    BY <2>1, WaitsAlike DEF Busy
  <2>3. CASE connected
    <3>1. max * Quota(t)' = max * Quota(t) + max
      BY <1>7, <2>1, <2>3
    <3>2. delivery.retry \in Nat /\ delivery.retry <= max - 1
      BY <1>2, <1>3, <2>1 DEF Busy
    <3>3. HandTries(t)' = 0 \/ HandTries(t)' = max - delivery.retry
      BY <2>1 DEF HandTries
    <3> QED BY <1>4, <2>1, <2>2, <3>1, <3>2, <3>3
  <2>4. CASE ~connected
    <3>1. HandTries(t)' = 0 /\ Quota(t)' = Quota(t)
      BY <1>8, <2>1, <2>4 DEF HandTries
    <3> QED BY <1>4, <2>1, <2>2, <3>1
  <2> QED BY <2>3, <2>4
<1>24. CASE Ack \/ NackReject
  <2>1. /\ UNCHANGED <<queue, sent, failures, faults>> /\ unacked' = NoMsg
        /\ pc \in Busy /\ pc' = "idle"
    BY <1>24 DEF Ack, NackReject, Finished, Busy
  <2>2. Waiting(w)' = Waiting(w) /\ HandTries(t)' = 0 /\ Quota(t)' = Quota(t)
    BY <1>0, <1>1, <1>8, <1>10, <2>1, SettledWaits
  <2> QED BY <1>4, <2>1, <2>2
<1>25. CASE NackRequeue
  <2>1. /\ UNCHANGED <<sent, failures, faults>> /\ queue' = Requeued /\ unacked' = NoMsg
        /\ pc = "requeue" /\ pc' = "idle"
    BY <1>25 DEF NackRequeue, Finished
  <2>2. Waiting(w)' = Waiting(w) + Out(w)
    BY <1>0, <1>1, <2>1, RequeuedWaits DEF Busy
  <2>3. HandTries(t) = Out(w)
    <3>1. CASE connected
      <4>1. unacked = delivery /\ delivery \in Message /\ unacked # NoMsg
        BY <1>0, <2>1, <3>1, NoMsgIsNoMessage DEF DeliveryInv, Busy
      <4>2. HandTries(t) = IF delivery.task # t THEN 0 ELSE max - delivery.retry
        BY <1>11, <2>1, <3>1 DEF Busy
      <4>3. Out(w) = Cardinality(w[delivery])
        BY <4>1 DEF Out
      <4> QED BY <1>1, <4>1, <4>2, <4>3
    <3>2. CASE ~connected
      <4>1. Out(w) = 0
        BY <1>0, <3>2 DEF Out, DeliveryInv
      <4> QED BY <1>11, <2>1, <3>2, <4>1 DEF Busy
    <3> QED BY <3>1, <3>2
  <2>4. HandTries(t)' = 0 /\ Quota(t)' = Quota(t)
    BY <1>8, <1>10, <2>1
  <2> QED BY <1>4, <2>1, <2>2, <2>3, <2>4
<1> QED BY <1>12, <1>13, <1>14, <1>15, <1>16, <1>17, <1>18, <1>19, <1>20, <1>21, <1>22,
           <1>23, <1>24, <1>25 DEF Next, WorkerStep

\* Both budgets are inductive in this form, beside the invariant above.
THEOREM BudgetInvariance == Spec => [](IInv /\ RepetitionInv /\ RetryInv)
<1>1. Init => RepetitionInv /\ RetryInv
  <2> SUFFICES ASSUME Init, NEW t \in Tasks
               PROVE  /\ successes[t] + Waiting(Work(t)) + HandWork(t) <= Quota(t)
                      /\ failures[t] + Waiting(Tries(t)) + HandTries(t)
                           <= MaxConsecutiveFailures * Quota(t)
      BY DEF RepetitionInv, RetryInv
  <2>1. \A w : Waiting(w) = 0
    <3>1. \A w : Marks(queue, w) = {}
      BY DEF Init, Marks
    <3>2. unacked = NoMsg
      BY DEF Init
    <3>3. Cardinality({}) = 0
      BY FS_EmptySet
    <3>4. ASSUME NEW w PROVE Waiting(w) = 0
      <4>1. Cardinality(Marks(queue, w)) = 0
        BY <3>1, <3>3
      <4> QED BY <3>2, <4>1 DEF Waiting
    <3> QED BY <3>4
  <2>2. HandWork(t) = 0 /\ HandTries(t) = 0 /\ successes[t] = 0 /\ failures[t] = 0
    BY DEF Init, HandWork, HandTries
  <2>3. Quota(t) = 0
    BY DEF Init, Quota
  <2> QED BY <2>1, <2>2, <2>3, ConstantsAssumption
<1>2. IInv /\ IInv' /\ RepetitionInv /\ RetryInv /\ [Next]_vars => RepetitionInv' /\ RetryInv'
  BY RepetitionKept, RetryKept
<1> QED BY <1>1, <1>2, Invariance, PTL DEF Spec

\* A handler completes a task once, and once more for each fault at most.
THEOREM WorkIsRepeatedForFaults == Spec => []RepetitionBudget
<1>1. IInv /\ RepetitionInv => RepetitionBudget
  <2> SUFFICES ASSUME IInv, RepetitionInv, NEW t \in Tasks PROVE successes[t] <= 1 + faults
      BY DEF RepetitionBudget
  <2>1. Waiting(Work(t)) \in Nat /\ HandWork(t) \in {0, 1}
    BY WorkOf, WaitingParts DEF IInv, HandWork
  <2>2. successes[t] \in Nat /\ faults \in Nat
    BY DEF IInv, TypeOK
  <2>3. successes[t] + Waiting(Work(t)) + HandWork(t) <= Quota(t)
    BY DEF RepetitionInv
  <2>4. Quota(t) \in Nat /\ Quota(t) <= 1 + faults
    BY <2>2 DEF Quota
  <2> QED BY <2>1, <2>2, <2>3, <2>4
<1> QED BY <1>1, BudgetInvariance, PTL

\* A handler fails at most as often as the limit says on one task, and as often
\* again for each fault: the retry header is never reset and copies are made of
\* what is acknowledged only.
THEOREM RetriesAreBounded == Spec => []RetryBudget
<1>1. IInv /\ RetryInv => RetryBudget
  <2> SUFFICES ASSUME IInv, RetryInv, NEW t \in Tasks
               PROVE  failures[t] <= MaxConsecutiveFailures * (1 + faults)
      BY DEF RetryBudget
  <2>1. Waiting(Tries(t)) \in Nat
    BY TriesOf, WaitingParts DEF IInv
  <2>2. failures[t] \in Nat /\ faults \in Nat
    BY DEF IInv, TypeOK
  <2>3. HandTries(t) \in Nat
    <3>1. \A m \in Message : m.retry \in Nat /\ m.retry <= MaxConsecutiveFailures - 1
      BY ConstantsAssumption DEF Message
    <3>2. /\ pc \in Busy => delivery \in Message
          /\ pc = "republish" => delivery.retry < MaxConsecutiveFailures - 1
      BY DEF IInv, DeliveryInv, HeaderInv
    <3> QED BY <3>1, <3>2, ConstantsAssumption DEF HandTries, Busy
  <2>4. failures[t] <= MaxConsecutiveFailures * Quota(t)
    <3>1. failures[t] + Waiting(Tries(t)) + HandTries(t) <= MaxConsecutiveFailures * Quota(t)
      BY DEF RetryInv
    <3>2. MaxConsecutiveFailures * Quota(t) \in Nat
      BY <2>2, ConstantsAssumption DEF Quota
    <3> QED BY <2>1, <2>2, <2>3, <3>1, <3>2
  <2>5. PICK n \in Nat, x \in Nat : n = MaxConsecutiveFailures /\ x = Quota(t)
    BY <2>2, ConstantsAssumption DEF Quota
  <2>6. x <= 1 + faults
    BY <2>2, <2>5 DEF Quota
  <2>7. n * x <= n * (1 + faults)
    BY <2>2, <2>5, <2>6
  <2> QED BY <2>2, <2>4, <2>5, <2>7
<1> QED BY <1>1, BudgetInvariance, PTL
==============================================================================

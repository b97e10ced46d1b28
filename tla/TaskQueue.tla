------------------------------ MODULE TaskQueue ------------------------------
(***************************************************************************)
(* The task queue between the API server and the worker:                   *)
(* internal/queue/rabbitmq.go (publishing) and internal/worker/worker.go   *)
(* (Run, processDelivery, finalizeDelivery), against a broker that keeps   *)
(* what it stored and requeues what was not acknowledged when a channel    *)
(* goes away.                                                              *)
(*                                                                         *)
(* The worker settles a failed delivery in two frames on one channel, the  *)
(* publication of a copy and the acknowledgement of the original; every    *)
(* gap between two frames is a state in which the connection may be lost,  *)
(* the worker may be killed or the publication may be refused.  What a     *)
(* handler does to the rest of the system is InstanceLifecycle's business: *)
(* here it succeeds or fails.                                              *)
(***************************************************************************)
EXTENDS Naturals, Sequences, Functions

CONSTANTS
  Tasks,                   \* the task messages ever published
  Malformed,               \* those whose body json.Unmarshal refuses
  MaxConsecutiveFailures,  \* queue.MaxConsecutiveFailures
  MaxFaults,               \* bound on lost connections, kills, refusals, signals
  NoMsg                    \* no delivery

ASSUME ConstantsAssumption ==
  /\ Malformed \subseteq Tasks
  /\ MaxConsecutiveFailures \in Nat \ {0}
  /\ MaxFaults \in Nat
  /\ NoMsg \notin [task : Tasks, retry : 0..(MaxConsecutiveFailures - 1)]

VARIABLES
  sent,        \* sent[t]: what became of the publication of t by the API
  queue,       \* instance.tasks, in delivery order
  unacked,     \* the delivery the broker holds for the worker (prefetch 1)
  dlq,         \* tasks with a letter in tasks.dlq
  dropped,     \* tasks whose message was rejected without requeue
  connected,   \* the worker's channel is open
  pc,          \* where the worker is
  delivery,    \* the delivery the worker is processing
  stopping,    \* the worker received SIGINT or SIGTERM
  failures,    \* failures[t]: times the handler of t returned an error
  successes,   \* successes[t]: times the handler of t returned nil
  faults       \* faults so far

vars == <<sent, queue, unacked, dlq, dropped, connected, pc, delivery,
          stopping, failures, successes, faults>>

Message == [task : Tasks, retry : 0..(MaxConsecutiveFailures - 1)]
Busy    == {"handling", "toDLQ", "republish", "requeue", "reject", "ack"}

TypeOK ==
  /\ sent \in [Tasks -> {"unsent", "stored", "refused", "vanished"}]
  /\ queue \in Seq(Message)
  /\ unacked \in Message \cup {NoMsg}
  /\ dlq \subseteq Tasks
  /\ dropped \subseteq Tasks
  /\ connected \in BOOLEAN
  /\ pc \in Busy \cup {"down", "idle"}
  /\ delivery \in Message \cup {NoMsg}
  /\ stopping \in BOOLEAN
  /\ failures \in [Tasks -> Nat]
  /\ successes \in [Tasks -> Nat]
  /\ faults \in Nat

Init ==
  /\ sent = [t \in Tasks |-> "unsent"]
  /\ queue = <<>>
  /\ unacked = NoMsg
  /\ dlq = {} /\ dropped = {}
  /\ connected = FALSE
  /\ pc = "down"
  /\ delivery = NoMsg
  /\ stopping = FALSE
  /\ failures = [t \in Tasks |-> 0]
  /\ successes = [t \in Tasks |-> 0]
  /\ faults = 0

Fault == faults < MaxFaults /\ faults' = faults + 1

-----------------------------------------------------------------------------
(* The API server publishes, on a connection of its own and without        *)
(* publisher confirms.                                                     *)

\* PublishTask returns nil and the broker has the message.
PublishTask(t) ==
  /\ sent[t] = "unsent"
  /\ sent' = [sent EXCEPT ![t] = "stored"]
  /\ queue' = Append(queue, [task |-> t, retry |-> 0])
  /\ UNCHANGED <<unacked, dlq, dropped, connected, pc, delivery, stopping,
                 failures, successes, faults>>

\* PublishTask returns an error ("refused"), or returns nil and the message
\* goes down with the connection ("vanished"): nobody waits for a confirm.
PublishTaskFails(t) ==
  /\ sent[t] = "unsent"
  /\ Fault
  /\ \E fate \in {"refused", "vanished"} : sent' = [sent EXCEPT ![t] = fate]
  /\ UNCHANGED <<queue, unacked, dlq, dropped, connected, pc, delivery,
                 stopping, failures, successes>>

-----------------------------------------------------------------------------
(* The broker.                                                             *)

\* With Qos(1), the broker hands out one delivery at a time.
Deliver ==
  /\ connected /\ unacked = NoMsg /\ queue # <<>>
  /\ unacked' = Head(queue)
  /\ queue' = Tail(queue)
  /\ UNCHANGED <<sent, dlq, dropped, connected, pc, delivery, stopping,
                 failures, successes, faults>>

\* A delivery that was not acknowledged goes back where it came from.
Requeued == IF unacked = NoMsg THEN queue ELSE <<unacked>> \o queue

ConnectionLost ==
  /\ connected
  /\ Fault
  /\ connected' = FALSE
  /\ queue' = Requeued
  /\ unacked' = NoMsg
  /\ UNCHANGED <<sent, dlq, dropped, pc, delivery, stopping, failures,
                 successes>>

-----------------------------------------------------------------------------
(* The worker.                                                             *)

\* Run: the process starts, opens a channel and consumes.
Start ==
  /\ pc = "down"
  /\ pc' = "idle"
  /\ connected' = TRUE
  /\ stopping' = FALSE
  /\ UNCHANGED <<sent, queue, unacked, dlq, dropped, delivery, failures,
                 successes, faults>>

\* Run takes a delivery; while it is told to stop it may still take one.
Take ==
  /\ pc = "idle" /\ connected /\ unacked # NoMsg
  /\ delivery' = unacked
  /\ pc' = "handling"
  /\ UNCHANGED <<sent, queue, unacked, dlq, dropped, connected, stopping,
                 failures, successes, faults>>

\* Mutant: success settled by Nack(requeue) instead of Ack.
MutHandleSucceeds ==
  /\ pc = "handling" /\ delivery.task \notin Malformed
  /\ successes' = [successes EXCEPT ![delivery.task] = @ + 1]
  /\ pc' = "requeue"
  /\ UNCHANGED <<sent, queue, unacked, dlq, dropped, connected, delivery,
                 stopping, failures, faults>>

\* safeHandleMessage returns nil.
HandleSucceeds ==
  /\ pc = "handling" /\ delivery.task \notin Malformed
  /\ successes' = [successes EXCEPT ![delivery.task] = @ + 1]
  /\ pc' = "ack"
  /\ UNCHANGED <<sent, queue, unacked, dlq, dropped, connected, delivery,
                 stopping, failures, faults>>

\* Mutants: the last retry one too late, one too early.
MutAfterFailureLate(d) ==
  IF d.retry >= MaxConsecutiveFailures THEN "toDLQ"
  ELSE IF d.task \in Malformed THEN "reject" ELSE "republish"
MutAfterFailureEarly(d) ==
  IF d.retry >= MaxConsecutiveFailures - 2 THEN "toDLQ"
  ELSE IF d.task \in Malformed THEN "reject" ELSE "republish"

\* What finalizeDelivery does with a failed delivery.
AfterFailure(d) ==
  IF d.retry >= MaxConsecutiveFailures - 1 THEN "toDLQ"
  ELSE IF d.task \in Malformed THEN "reject" ELSE "republish"

\* safeHandleMessage returns an error, or panics.
HandleFails ==
  /\ pc = "handling"
  /\ failures' = [failures EXCEPT ![delivery.task] = @ + 1]
  /\ pc' = AfterFailure(delivery)
  /\ UNCHANGED <<sent, queue, unacked, dlq, dropped, connected, delivery,
                 stopping, successes, faults>>

\* The copy of a failed delivery, its retry header one higher.
Retried(d) == [task |-> d.task, retry |-> d.retry + 1]

\* Mutants: the header is not raised; the copy goes to a queue nobody reads.
MutRepublishSame ==
  /\ pc = "republish" /\ connected
  /\ queue' = Append(queue, delivery)
  /\ pc' = "ack"
  /\ UNCHANGED <<sent, unacked, dlq, dropped, connected, delivery, stopping,
                 failures, successes, faults>>
MutRepublishNowhere ==
  /\ pc = "republish" /\ connected
  /\ pc' = "ack"
  /\ UNCHANGED <<sent, queue, unacked, dlq, dropped, connected, delivery,
                 stopping, failures, successes, faults>>

\* The copy goes to the tail of the queue, behind the tasks waiting there.
Republish ==
  /\ pc = "republish" /\ connected
  /\ queue' = Append(queue, Retried(delivery))
  /\ pc' = "ack"
  /\ UNCHANGED <<sent, unacked, dlq, dropped, connected, delivery, stopping,
                 failures, successes, faults>>

PublishToDLQ ==
  /\ pc = "toDLQ" /\ connected
  /\ dlq' = dlq \cup {delivery.task}
  /\ pc' = "ack"
  /\ UNCHANGED <<sent, queue, unacked, dropped, connected, delivery, stopping,
                 failures, successes, faults>>

\* Mutant: no return after the failed publication, the original is acked.
MutPublishError ==
  /\ pc \in {"republish", "toDLQ"}
  /\ IF connected THEN Fault ELSE UNCHANGED faults
  /\ pc' = "ack"
  /\ UNCHANGED <<sent, queue, unacked, dlq, dropped, connected, delivery,
                 stopping, failures, successes>>

\* The publication of the copy or of the letter returns an error.
PublishError ==
  /\ pc \in {"republish", "toDLQ"}
  /\ IF connected THEN Fault ELSE UNCHANGED faults
  /\ pc' = "requeue"
  /\ UNCHANGED <<sent, queue, unacked, dlq, dropped, connected, delivery,
                 stopping, failures, successes>>

\* The worker is done with its delivery; without a channel it settles nothing.
Finished ==
  /\ pc' = "idle"
  /\ delivery' = NoMsg
  /\ UNCHANGED <<sent, connected, stopping, failures, successes, faults>>

Ack ==
  /\ pc = "ack"
  /\ unacked' = NoMsg
  /\ Finished
  /\ UNCHANGED <<queue, dlq, dropped>>

\* Nack(requeue = true): the message keeps its retry header.
NackRequeue ==
  /\ pc = "requeue"
  /\ queue' = Requeued
  /\ unacked' = NoMsg
  /\ Finished
  /\ UNCHANGED <<dlq, dropped>>

\* Nack(requeue = false): no copy is kept anywhere.
NackReject ==
  /\ pc = "reject"
  /\ unacked' = NoMsg
  /\ dropped' = IF connected THEN dropped \cup {delivery.task} ELSE dropped
  /\ Finished
  /\ UNCHANGED <<queue, dlq>>

\* SIGINT or SIGTERM cancels the context of Run.
Signal ==
  /\ pc # "down" /\ ~stopping
  /\ Fault
  /\ stopping' = TRUE
  /\ UNCHANGED <<sent, queue, unacked, dlq, dropped, connected, pc, delivery,
                 failures, successes>>

\* The process is gone: its channel with it, and the broker requeues.
Gone ==
  /\ pc' = "down"
  /\ delivery' = NoMsg
  /\ connected' = FALSE
  /\ queue' = Requeued
  /\ unacked' = NoMsg
  /\ UNCHANGED <<sent, dlq, dropped, stopping, failures, successes>>

\* Mutant: Run does not notice that the channel of deliveries is closed.
MutExit ==
  /\ pc = "idle" /\ stopping
  /\ Gone
  /\ UNCHANGED faults

\* Run returns between two deliveries, when told to stop or when the channel
\* of deliveries is closed.
Exit ==
  /\ pc = "idle" /\ (stopping \/ ~connected)
  /\ Gone
  /\ UNCHANGED faults

\* The process dies anywhere.
Crash ==
  /\ pc # "down"
  /\ Fault
  /\ Gone

WorkerStep ==
  \/ Start \/ Take \/ HandleSucceeds \/ HandleFails \/ Republish
  \/ PublishToDLQ \/ PublishError \/ Ack \/ NackRequeue \/ NackReject \/ Exit

Next ==
  \/ \E t \in Tasks : PublishTask(t) \/ PublishTaskFails(t)
  \/ Deliver \/ ConnectionLost \/ Signal \/ Crash
  \/ WorkerStep

\* The broker delivers, the worker runs and, when it is down, is started
\* again; nothing makes the API publish or a fault happen.
Fairness == WF_vars(Deliver) /\ WF_vars(WorkerStep)

Spec == Init /\ [][Next]_vars /\ Fairness

-----------------------------------------------------------------------------
(* What the queue promises.                                                *)

\* The copies the broker has, waiting or handed out.
Copies      == Range(queue) \cup (IF unacked = NoMsg THEN {} ELSE {unacked})
AtBroker(t) == \E m \in Copies : m.task = t

Settled(t) == successes[t] > 0 \/ t \in dlq \/ t \in dropped

\* No task is lost: once the broker stored a task, at every moment (between
\* the publication of a retry copy and the acknowledgement of the original,
\* after a kill, after a lost connection) the broker has a copy of it or it
\* met a final outcome (finalizeDelivery: copy first, acknowledge after).
NoTaskLost == \A t \in Tasks : sent[t] = "stored" => AtBroker(t) \/ Settled(t)

\* A task is dead-lettered only after its handler failed
\* MaxConsecutiveFailures times (rabbitmq.go:14), however often its message
\* was redelivered, copied or requeued on the way.
DeadLetterIsEarned ==
  \A t \in dlq : failures[t] >= MaxConsecutiveFailures

\* Retries are bounded: without a fault a handler fails at most
\* MaxConsecutiveFailures times on a task, and every fault (which may leave a
\* second copy behind, or a failure the header does not count) allows at most
\* that many more.
RetryBudget ==
  \A t \in Tasks : failures[t] <= MaxConsecutiveFailures * (1 + faults)

\* Work is repeated only because of faults: a handler completes a task once,
\* and once more for each fault at most.
RepetitionBudget == \A t \in Tasks : successes[t] <= 1 + faults

\* Refinement: the broker and the worker implement at-least-once delivery;
\* a task is open while the broker has a copy of it.
OpenTasks == {t \in Tasks : AtBroker(t)}
OutcomesOf(t) == (IF successes[t] > 0 THEN {"succeeded"} ELSE {})
                   \cup (IF t \in dlq THEN {"dead"} ELSE {})
                   \cup (IF t \in dropped THEN {"rejected"} ELSE {})

Promise == INSTANCE AtLeastOnce WITH
  Outcomes <- {"succeeded", "dead", "rejected"},
  open     <- OpenTasks,
  outcome  <- [t \in Tasks |-> OutcomesOf(t)]

\* Every step of the queue is a step of the promise, and every task the broker
\* stored is closed in the end: no message circulates for ever, even if its
\* handler fails each time.
ImplementsAtLeastOnce == Promise!Spec

\* A task whose message never reaches the queue, or is dead, does not stop the
\* others: in the end the queue is empty and the worker is idle.
QueueDrains == <>[](queue = <<>> /\ unacked = NoMsg /\ pc = "idle")
==============================================================================

----------------------------- MODULE AtLeastOnce -----------------------------
(***************************************************************************)
(* What the task queue promises to the code that publishes to it, without  *)
(* queues, acknowledgements, retries or connections: a task the broker has *)
(* stored stays open until something final has happened to it, at least    *)
(* once, and every open task is closed in the end.  A task may meet more   *)
(* than one final outcome (delivered twice, it can succeed and be dead-    *)
(* lettered): this is why the handlers have to tolerate repetition.        *)
(***************************************************************************)
CONSTANTS Tasks, Outcomes

VARIABLES
  open,     \* tasks the system still owes an outcome, or may handle again
  outcome   \* outcome[t]: the final outcomes task t has met

vars == <<open, outcome>>

Init == /\ open = {}
        /\ outcome = [t \in Tasks |-> {}]

\* The broker stores a new task.
Accept(t) == /\ t \notin open /\ outcome[t] = {}
             /\ open' = open \cup {t}
             /\ UNCHANGED outcome

\* Something final happens to an open task.
Settle(t, o) == /\ t \in open
                /\ outcome' = [outcome EXCEPT ![t] = @ \cup {o}]
                /\ UNCHANGED open

\* The last copy of a task goes away, only after an outcome.
Close(t) == /\ t \in open /\ outcome[t] # {}
            /\ open' = open \ {t}
            /\ UNCHANGED outcome

\* A task without a future leaves in one step (its message is rejected).
SettleAndClose(t, o) == /\ t \in open
                        /\ outcome' = [outcome EXCEPT ![t] = @ \cup {o}]
                        /\ open' = open \ {t}

Next == \E t \in Tasks :
          \/ Accept(t)
          \/ Close(t)
          \/ \E o \in Outcomes : Settle(t, o) \/ SettleAndClose(t, o)

\* Every task the system owes an outcome gets it and is closed.
EveryTaskCloses == \A t \in Tasks : (t \in open) ~> (t \notin open)

Safe == Init /\ [][Next]_vars
Spec == Safe /\ EveryTaskCloses
==============================================================================

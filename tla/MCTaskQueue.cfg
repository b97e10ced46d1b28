\* Two readable tasks and an unreadable one, two faults.
SPECIFICATION Spec
CONSTANTS
  t1 = t1
  t2 = t2
  bad = bad
  NoMsg = NoMsg
  Tasks <- MCTasks
  Malformed <- MCMalformed
  MaxConsecutiveFailures = 3
  MaxFaults = 2
INVARIANTS
  TypeOK
  NoTaskLost
  DeadLetterIsEarned
  RetryBudget
  RepetitionBudget
PROPERTIES
  ImplementsAtLeastOnce
  QueueDrains
\* With nothing to deliver the worker waits: QueueDrains says that this is the
\* only place where the system stops.
CHECK_DEADLOCK FALSE

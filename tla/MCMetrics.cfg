\* Two instances, a failed call or a death of the worker.
SPECIFICATION Spec
CONSTANTS
  i1 = i1
  i2 = i2
  Nothing = Nothing
  Instances <- TwoInstances
  Interval = 1
  MaxPass = 1
  MaxAge = 2
  MaxFaults = 1
INVARIANTS
  TypeOK
  GaugesWerePolled
PROPERTIES
  NoPercentageAcrossAGap
  StoppedIsForgotten
  RunningIsServed

\* One destroy task and one fault.
SPECIFICATION Spec
CONSTANTS
  i1 = i1
  s1 = s1
  c1 = c1
  c2 = c2
  Instances <- MCInstances
  Snapshots <- MCSnapshots
  Clients <- OneClient
  Provisioned <- MCInstances
  Requests <- DestroyRequests
  MaxConsecutiveFailures = 3
  MaxTasks = 1
  MaxFaults = 1
  MaxSweeps = 0
PROPERTIES
  DestroyStaysSucceeded

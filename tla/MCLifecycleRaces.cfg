\* A running instance that two clients stop, destroy, snapshot and revert at the
\* same time.
SPECIFICATION Spec
CONSTANTS
  i1 = i1
  s1 = s1
  c1 = c1
  c2 = c2
  Instances <- MCInstances
  Snapshots <- MCSnapshots
  Clients <- MCClients
  Provisioned <- MCInstances
  Requests <- RaceRequests
  MaxConsecutiveFailures = 2
  MaxTasks = 2
  MaxFaults = 1
  MaxSweeps = 0
INVARIANTS
  
  
  AvailableMeansTaken
PROPERTIES
  
  SyncConverges

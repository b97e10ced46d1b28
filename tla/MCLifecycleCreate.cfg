\* An instance that is created, started, stopped, rebooted, snapshotted and
\* destroyed by one client.
SPECIFICATION Spec
CONSTANTS
  i1 = i1
  s1 = s1
  c1 = c1
  c2 = c2
  Instances <- MCInstances
  Snapshots <- MCSnapshots
  Clients <- OneClient
  Provisioned <- NoInstance
  Requests <- CreateRequests
  MaxConsecutiveFailures = 3
  MaxTasks = 2
  MaxFaults = 1
  MaxSweeps = 1
INVARIANTS
  TypeOK
  
  
  

  

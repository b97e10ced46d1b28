\* One snapshot task, no fault but what libvirt answers.
SPECIFICATION Spec
CONSTANTS
  i1 = i1
  s1 = s1
  c1 = c1
  c2 = c2
  Instances <- MCInstances
  Snapshots <- MCSnapshots
  Clients <- OneClient
  Provisioned <- MCInstances
  Requests <- SnapshotRequests
  MaxConsecutiveFailures = 3
  MaxTasks = 1
  MaxFaults = 0
  MaxSweeps = 0
INVARIANTS
  SnapshotRetriesRunLocked

\* Attach, detach, create, delete, stop and destroy side by side, with a fault.
SPECIFICATION Spec
CONSTANTS
  v1 = v1
  v2 = v2
  i1 = i1
  i2 = i2
  c1 = c1
  c2 = c2
  None = None
  Volumes <- TwoVolumes
  Instances <- TwoInstances
  MaxTarget = 1
  Attachers <- TwoClients
  Detachers <- OneClient
  Owners <- OtherClient
  Present <- OneVolume
  Stoppable <- OneInstance
  Destroyable <- OneInstance
  MaxRetries = 2
  MaxFaults = 1
INVARIANTS
  TypeOK
  
  
  

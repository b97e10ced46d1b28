\* Two instances that follow one another at the same private address.
SPECIFICATION Spec
CONSTANTS
  f1 = f1
  i1 = i1
  i2 = i2
  p1 = p1
  a1 = a1
  None = None
  Ips <- OneIp
  Instances <- TwoInstances
  Running <- OneInstance
  Projects <- OneProject
  Addresses <- OneAddress
  ProjectOf <- AllInOneProject
  AddrOf <- SameAddress
  MaxRequests = 3
  MaxRetries = 1
  MaxFaults = 1
INVARIANTS
  TypeOK
  RulesHaveRows
  BindingsAreWhole
  AtMostTwoCopies
PROPERTIES
  AssociationsAreServed

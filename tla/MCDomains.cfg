\* Two instances of any two names, calls that fail, kills and a lost lookup.
SPECIFICATION Spec
CONSTANTS
  i1 = i1
  i2 = i2
  None = None
  Instances <- TwoInstances
  Names <- SomeNames
  Safe <- SafeCharacters
  MaxName = 3
  Default <- DefaultName
  MaxFaults = 3
  MaxLost = 1
SYMMETRY InstanceSymmetry
INVARIANTS
  TypeOK
  
  GoneLeavesNothing
  NamesAreSafe
PROPERTIES
  OnlyItsOwnDomain
CHECK_DEADLOCK FALSE

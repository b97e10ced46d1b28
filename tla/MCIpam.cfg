\* Three clients and instances, networks of any configuration, one of before the migration.
SPECIFICATION Spec
CONSTANTS
  p1 = p1
  p2 = p2
  i1 = i1
  i2 = i2
  i3 = i3
  c1 = c1
  c2 = c2
  c3 = c3
  None = None
  LegacyConfig <- OldConfig
  Projects <- TwoProjects
  Instances <- ThreeInstances
  Clients <- ThreeClients
  Width = 4
  MinBits = 1
  Configs <- AllConfigs
  Legacy <- OneProject
  MaskInText = FALSE
SYMMETRY ClientSymmetry
INVARIANTS
  TypeOK
  TablesAgree
  NoDoubleClaim
  PoolIsExact

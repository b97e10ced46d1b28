\* The text of an address as PostgreSQL writes it.
SPECIFICATION Spec
CONSTANTS
  p1 = p1
  p2 = p2
  i1 = i1
  i2 = i2
  i3 = i3
  c1 = c1
  c2 = c2
  c3 = c3
  None = None
  LegacyConfig <- OldConfig
  Projects <- OneProject
  Instances <- OneInstance
  Clients <- OneClient
  Width = 4
  MinBits = 1
  Configs <- TwoConfigs
  Legacy <- NoProject
  MaskInText = TRUE
PROPERTIES
  ClaimReservesTheNextFree

SPECIFICATION Spec
CONSTANTS
  a = a
  b1 = b1
  b2 = b2
  configA = configA
  configB = configB
  Cl = {a, b1}
  Config <- MCConfig
  None = None
  Field = {f1}
  Replacing = TRUE
  MaxRemoves = 0
  MaxFaults = 0
INVARIANT NameStaysRegistered
CHECK_DEADLOCK FALSE

SPECIFICATION MapFairSpec
CONSTANTS
  a = a
  b1 = b1
  b2 = b2
  configA = configA
  configB = configB
  Cl = {a, b1, b2}
  Config <- MCConfig
  None = None
  Field = {f1}
  Replacing = TRUE
  Direct = {a, b1}
  ChannelSize = 1
  MaxRemoves = 1
  MaxFaults = 1
  MaxChanges = 2
INVARIANTS OnlyStoredIsLive 
PROPERTIES DeadClusterIsRemoved FollowsFile AddedIsTried
CHECK_DEADLOCK FALSE

SPECIFICATION FairSpec
CONSTANTS
  a = a
  b = b
  e1 = e1
  e2 = e2
  e3 = e3
  s = s
  configA = configA
  configB = configB
  Engagement = {e1, e2, e3}
  Cl = {a, b}
  Of <- MCOf
  Config <- MCConfig
  Source = {s}
  Unwanted <- MCUnwanted
  None = None
  MaxCalls = 1
  MaxWatches = 1
  MaxErrors = 1
INVARIANTS EngagedIsWatched OneLiveHandler NewestStays StoredIsWatched NewestIsStored
PROPERTY HandlersGo
CHECK_DEADLOCK FALSE

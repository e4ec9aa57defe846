SPECIFICATION CleanupSpec
CONSTANTS
  p1 = p1
  p2 = p2
  c1 = c1
  c2 = c2
  f1 = f1
  f2 = f2
  Peer = {p1, p2}
  Active = {p1}
  Cluster = {c2}
  View = {{p1, p2}}
  Late = {0}
  Ctx = {x1, x2}
  Removable = {x1}
  Run = Run
  Background = Background
  Fence = {f1, f2}
  FenceOf <- MCFenceOf
  Score <- MCScore
  Nobody = Nobody
  NoWork = NoWork
  Replace = TRUE
  MaxTokens = 2
  MaxRuns = 1
  MaxFlips = 1
  MaxFaults = 1
  AwareFails = TRUE
INVARIANTS TypeOK NewestStaysEngaged StartedIsTheOnlyWork NoForgottenFence 
PROPERTY RemovedStops

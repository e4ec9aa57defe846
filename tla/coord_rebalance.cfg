SPECIFICATION FairSpec
CONSTANTS
  p1 = p1
  p2 = p2
  c1 = c1
  c2 = c2
  f1 = f1
  f2 = f2
  Peer = {p1, p2}
  Active = {p1, p2}
  Cluster = {c1}
  View = {{p1, p2}}
  Late = {1}
  Ctx = {x1}
  Removable = {}
  Run = Run
  Background = Background
  Fence = {f1}
  FenceOf <- MCFenceOf
  Score <- MCScore
  Nobody = Nobody
  NoWork = NoWork
  Replace = FALSE
  MaxTokens = 1
  MaxRuns = 2
  MaxFlips = 2
  MaxFaults = 0
  AwareFails = FALSE
PROPERTIES Rebalanced

SPECIFICATION ContractSpec
CONSTANTS
  p1 = p1  p2 = p2  g1 = g1  g2 = g2  l1 = l1  l2 = l2  l3 = l3  r1 = r1
  Guard = {g1, g2}
  Loop = {l1, l2, l3}
  Releaser = {r1}
  On <- MCOn
  Peer = {p1, p2}
  IdOf <- MCIdOf
  Nobody = Nobody
  NoLoop = NoLoop
  LeaseDuration = 1
  Second = 1
  MaxClock = 2
  MaxFaults = 1
SYMMETRY LoopSymmetry
INVARIANTS TypeOK   NoOrphanedHold
PROPERTY ImplementsFence
CHECK_DEADLOCK FALSE

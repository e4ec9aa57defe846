SPECIFICATION FairSpec
CONSTANTS
  Peer = {p1, p2, p3}
  Active = {p1, p2}
  Nobody = Nobody
  NoPeer = NoPeer
  Ttl = 2
  Width = 2
  Weights = {0, 3}
  ReleaseOnCancel = TRUE
  MaxFaults = 1
  MaxStops = 1
INVARIANTS TypeOK ExactlyOneOwner
PROPERTIES LivePeerNotDropped SnapshotsConverge LeastDisruption

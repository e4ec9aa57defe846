-------------------------------- MODULE HRW --------------------------------
(***************************************************************************)
(* Rendezvous hashing (pkg/manager/coordinator/sharded/sharder/hrw.go) for *)
(* one cluster: h[p] is hash64(clusterID + "|" + p), w[p] the configured   *)
(* PeerInfo.Weight, peers the snapshot in the order a Go map yields it.    *)
(***************************************************************************)
EXTENDS Naturals, Sequences

CONSTANTS
  NoPeer,   \* the ID of the zero PeerInfo
  Width     \* the width of the unsigned score, 64 in the code

\* The hash times the weight, with 0 read as 1, in unsigned arithmetic.
Score(h, w, p) == (h[p] * (IF w[p] = 0 THEN 1 ELSE w[p])) % 2^Width

\* The loop over the peers, and two mutations: the first of equals wins, which leaves
\* nobody when all scores are 0; the best score so far is not kept.
BestStrict(h, w, peers) ==
  LET best[n \in 0 .. Len(peers)] ==
        IF n = 0 THEN [score |-> 0, id |-> NoPeer]
        ELSE IF Score(h, w, peers[n]) > best[n - 1].score
             THEN [score |-> Score(h, w, peers[n]), id |-> peers[n]] ELSE best[n - 1]
  IN best[Len(peers)].id

BestForgets(h, w, peers) ==
  LET best[n \in 0 .. Len(peers)] ==
        IF n = 0 THEN [score |-> 0, id |-> NoPeer]
        ELSE IF Score(h, w, peers[n]) >= best[n - 1].score
             THEN [score |-> 0, id |-> peers[n]] ELSE best[n - 1]
  IN best[Len(peers)].id

Best(h, w, peers) ==
  LET best[n \in 0 .. Len(peers)] ==
        IF n = 0 THEN [score |-> 0, id |-> NoPeer]
        ELSE IF Score(h, w, peers[n]) >= best[n - 1].score
             THEN [score |-> Score(h, w, peers[n]), id |-> peers[n]] ELSE best[n - 1]
  IN best[Len(peers)].id

\* An empty snapshot makes everybody owner.
ShouldOwn(h, w, peers, self) == peers = <<>> \/ Best(h, w, peers) = self
=============================================================================

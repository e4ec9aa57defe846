----------------------- MODULE MCShardedCoordinator -----------------------
(* Small instances of ShardedCoordinator. *)
EXTENDS ShardedCoordinator

CONSTANTS p1, p2, c1, c2, f1, f2

\* One Lease per cluster, and one Lease for all (PerClusterLease = false).
MCFenceOf == [c \in Cluster |-> IF c = c1 \/ f2 \notin Fence THEN f1 ELSE f2]

\* p1 owns c1 and p2 owns c2 when both are members.
MCScore == [c \in Cluster |-> [p \in Peer |-> IF (c = c1) = (p = p1) THEN 2 ELSE 1]]
=============================================================================

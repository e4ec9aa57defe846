--------------------------- MODULE MCLeaseGuard ---------------------------
(***************************************************************************)
(* Two peers and one Lease.  Peer p1's guard has two renew loops, so that  *)
(* a cancelled loop can overlap with its successor, and an outside caller  *)
(* of Release; peer p2 is the contender, with one loop.  The peers run the *)
(* same code, so what p1 can suffer here p2 can too.                       *)
(***************************************************************************)
EXTENDS LeaseGuard, TLC

CONSTANTS p1, p2, g1, g2, l1, l2, l3, r1

MCIdOf == g1 :> p1 @@ g2 :> p2
MCOn == [t \in Thread |-> IF t \in {g2, l3} THEN g2 ELSE g1]
LoopSymmetry == Permutations({l1, l2})
=============================================================================

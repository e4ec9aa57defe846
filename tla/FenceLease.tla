---------------------------- MODULE FenceLease ----------------------------
(***************************************************************************)
(* What a fence Lease promises, independent of how a leaseGuard reads and  *)
(* writes it.  The Lease names at most one holder.  A peer becomes holder  *)
(* only of a Lease that is free, its own, or expired; a holder is removed  *)
(* without a successor only by a clear; time never runs backwards.         *)
(*                                                                         *)
(* coordinator.go relies on exactly this when it "uses the fence to        *)
(* guarantee single-writer semantics" (coordinator.go:96-97).              *)
(***************************************************************************)
EXTENDS Naturals

CONSTANTS
  Peer,      \* holder identities
  Nobody,    \* the empty HolderIdentity
  Validity   \* how long a renewal keeps the Lease valid

VARIABLES
  clock,     \* real time, as the API server's clients read it
  lease      \* [created, holder, renew]: the Lease object

vars == <<clock, lease>>

NoLease == [created |-> FALSE, holder |-> Nobody, renew |-> 0]

\* expired (leaseguard.go:201-206): strictly after RenewTime + duration.
Expired(l, t) == t > l.renew + Validity

Init ==
  /\ clock = 0
  /\ lease = NoLease

\* Peer p is written as holder with a renew time that is not in the future.
Take(p) ==
  /\ \/ lease.holder \in {Nobody, p}
     \/ Expired(lease, clock)
  /\ \E t \in 0..clock : lease' = [created |-> TRUE, holder |-> p, renew |-> t]
  /\ UNCHANGED clock

\* The holder's identity is cleared; the times stay.
Clear ==
  /\ lease.holder # Nobody
  /\ lease' = [lease EXCEPT !.holder = Nobody]
  /\ UNCHANGED clock

Tick ==
  /\ clock' = clock + 1
  /\ UNCHANGED lease

Next == Clear \/ Tick \/ \E p \in Peer : Take(p)

Spec == Init /\ [][Next]_vars
=============================================================================

----------------------------- MODULE Membership -----------------------------
(***************************************************************************)
(* The peer registry and the sharder together: what HRW makes of the       *)
(* snapshots that the registries really store while peers come and go.     *)
(***************************************************************************)
EXTENDS PeerRegistry, SequencesExt

CONSTANTS
  NoPeer, Width,  \* see HRW
  Weights         \* the weights peers are configured with

\* The second conjunct follows from the first; the provers have no exponentiation.
ASSUME HRWAssumption ==
  /\ Width \in Nat /\ 2^Width \in Nat \ {0}
  /\ Weights \subseteq Nat /\ NoPeer \notin Peer /\ IsFiniteSet(Peer)

INSTANCE HRW

Hashes == [Peer -> 0 .. 2^Width - 1]
Weighting == [Peer -> Weights]

\* Every order in which a map with the keys S may be ranged over.
Orders(S) == SetToSeqs(S)

Owners(h, w, o) == {p \in Peer : ShouldOwn(h, w, o, p)}

Distinct(h, w) == \A p, q \in Peer : Score(h, w, p) = Score(h, w, q) => p = q

OneOwner(S) ==
  \A h \in Hashes, w \in Weighting : \A o \in Orders(S) :
    S # {} => \E p \in S : Owners(h, w, o) = {p}

Steady(S, T) ==
  \A h \in Hashes, w \in Weighting :
    Distinct(h, w) /\ S # {} /\ T # {} =>
      LET old == UNION {Owners(h, w, o) : o \in Orders(S)}
          new == UNION {Owners(h, w, o) : o \in Orders(T)}
      IN \A p \in old, q \in new : p = q \/ p \in S \ T \/ q \in T \ S

\* These depend on the snapshots alone; as images they are computed once.
OneOwnerSets == {S : S \in {T \in SUBSET Peer : OneOwner(T)}}
SteadyMoves == {m : m \in {n \in (SUBSET Peer) \X (SUBSET Peer) : Steady(n[1], n[2])}}

-----------------------------------------------------------------------------
\* Properties.

\* On every snapshot a peer stores, whatever the hashes, weights, overflows, ties and
\* the order it is ranged over, exactly one peer owns the cluster and it is a member
\* (registry.go:131-139, hrw.go:64-77).
ExactlyOneOwner == \A p \in Peer : snapshot[p] \in OneOwnerSets

\* Without ties the order does not matter, and a refresh moves the cluster only to a
\* newcomer of the snapshot or off a peer that left it, also when a refresh brings
\* several joins and leaves at once: peers whose snapshots differ disagree on few
\* clusters (registry.go:244-296, hrw.go:25-28,45).
LeastDisruption == [][\A p \in Peer : <<snapshot[p], snapshot'[p]>> \in SteadyMoves]_vars
=============================================================================

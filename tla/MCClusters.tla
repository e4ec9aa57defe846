----------------------------- MODULE MCClusters -----------------------------
(* Small instances of Clusters: b1 and b2 have the same configuration. *)
EXTENDS Clusters

CONSTANTS a, b1, b2, configA, configB

MCConfig == [cl \in Cl |-> IF cl = a THEN configA ELSE configB]
=============================================================================

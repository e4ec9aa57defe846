--------------------------- MODULE MCMapProviders ---------------------------
(* Small instances of MapProviders: b1 and b2 have the same configuration. *)
EXTENDS MapProviders

CONSTANTS a, b1, b2, configA, configB

MCConfig == [cl \in Cl |-> IF cl = a THEN configA ELSE configB]
=============================================================================

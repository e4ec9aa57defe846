-------------------------- MODULE MCEngagements --------------------------
(* A small instance of Engagements: a is engaged twice, b once, and they have *)
(* different configurations; the source does not want b.                       *)
EXTENDS Engagements

CONSTANTS a, b, e1, e2, e3, configA, configB, s

MCOf == [e \in Engagement |-> IF e = e3 THEN b ELSE a]
MCConfig == [cl \in Cl |-> IF cl = a THEN configA ELSE configB]
MCUnwanted == {<<s, b>>}
==========================================================================

-------------------------- MODULE MCMultiProvider --------------------------
(* Small instances of MultiProvider. *)
EXTENDS MultiProvider

CONSTANTS p1, p2, p3
=============================================================================

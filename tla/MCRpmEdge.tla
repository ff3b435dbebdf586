------------------------------ MODULE MCRpmEdge ------------------------------
(* RpmEdge with a two-bit capture counter and a ring of three slots.         *)
EXTENDS RpmEdge
=============================================================================

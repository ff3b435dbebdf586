------------------------------ MODULE MCRpmRing ------------------------------
(* RpmRing with rings of four slots, two speeds, and a window larger than the *)
(* history.                                                                  *)
EXTENDS RpmRing
=============================================================================

---------------------------- MODULE MCRpmAverager ----------------------------
(* RpmAverager with rings of four slots, whose window may be made smaller.  *)
EXTENDS RpmAverager
=============================================================================

------------------------------- MODULE MCRpmCap -------------------------------
(* RpmCap with a two-bit capture counter and fifos and history of one sample.*)
EXTENDS RpmCap
=============================================================================

---------------------------- MODULE MCControlTask ----------------------------
(* ControlTask with requests on both sides of the edge between the two bands *)
(* and one just below the range.                                             *)
EXTENDS ControlTask

Frequencies == {9, 152, 153, 10000}
Duties      == {0, 50}
Requests    == {[freq |-> 152, duty |-> 50], [freq |-> 153, duty |-> 0], [freq |-> 9, duty |-> 50]}
=============================================================================

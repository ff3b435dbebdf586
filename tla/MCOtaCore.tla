------------------------------ MODULE MCOtaCore ------------------------------
(* OtaCore with small images: a polite host when anything may fail, and a  *)
(* host that sends frames at will.                                         *)
EXTENDS OtaCore

BothTasks == {Http, Cdc}
BothHosts == {[polite |-> TRUE,  fails |-> {"begin", "write", "end", "boot"}],
              [polite |-> FALSE, fails |-> {"write", "end", "boot"}]}
=============================================================================

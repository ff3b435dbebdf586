----------------------------- MODULE MCPsuDriver -----------------------------
(* PsuDriver with one supply of a model that is not of the default scale,  *)
(* or with two supplies of different models on the bus.                    *)
EXTENDS PsuDriver, TLC
OneSupply   == 1 :> 2 @@ 2 :> 0
TwoSupplies == 1 :> 1 @@ 2 :> 2
(* The status byte of a refusal stands where the voltage and the output do. *)
OneRefusal  == {[v |-> 1, i |-> 0, on |-> TRUE]}
Scales      == 0 :> 10 @@ 1 :> 10 @@ 2 :> 1
=============================================================================

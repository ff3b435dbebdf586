--------------------------- MODULE MCProvisioning ---------------------------
(* Provisioning and the announcer with a network of two addresses: the     *)
(* portal without announcements, announcements without the portal, and a   *)
(* board that announces itself while it is being provisioned.              *)
EXTENDS Provisioning
Plan(p, s, d, b, on, ips) ==
  [posts |-> p, sets |-> s, drops |-> d, boots |-> b, on |-> on, ips |-> ips]
CONSTANTS i1, i2
ThreePlans == {Plan(2, 0, 1, 1, FALSE, {i1}), Plan(0, 1, 2, 1, TRUE, {i1, i2}),
               Plan(1, 0, 1, 0, TRUE, {i1})}
=============================================================================

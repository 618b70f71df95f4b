---------------------------- MODULE MCSapConfirm ----------------------------
(* The configurations of the bridge that the runs look at.                 *)
EXTENDS SapConfirm

ModesAsked == {[zewm |-> TRUE, auto |-> FALSE, naming |-> "asked"],
               [zewm |-> FALSE, auto |-> FALSE, naming |-> "asked"],
               [zewm |-> FALSE, auto |-> TRUE, naming |-> "asked"]}
ModesPlan == {[zewm |-> TRUE, auto |-> FALSE, naming |-> "plan"]}

=============================================================================

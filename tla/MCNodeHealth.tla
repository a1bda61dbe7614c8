---------------------------- MODULE MCNodeHealth ----------------------------
(* One node with room for two configurations.                              *)
EXTENDS NodeHealth
TwoSlots == [n \in Nodes |-> 2]
=============================================================================

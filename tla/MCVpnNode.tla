----------------------------- MODULE MCVpnNode -----------------------------
(* TLC instances of VpnNode.                                               *)
EXTENDS VpnNode
=============================================================================

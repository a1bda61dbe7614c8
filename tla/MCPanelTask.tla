---------------------------- MODULE MCPanelTask ----------------------------
(* TLC instances of PanelTask.                                             *)
EXTENDS PanelTask
=============================================================================

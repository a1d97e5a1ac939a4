---------------------------- MODULE MCPanelHealth ----------------------------
(* PanelHealth on a small instance.  (No symmetry: liveness is checked.) *)
EXTENDS PanelHealth
=============================================================================

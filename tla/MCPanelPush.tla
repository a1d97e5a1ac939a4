----------------------------- MODULE MCPanelPush -----------------------------
(* PanelPush on a small instance with the limits of the code. *)
EXTENDS PanelPush, TLC

Symmetry == Permutations(Pushes)
=============================================================================

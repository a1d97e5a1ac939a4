------------------------------ MODULE MCPushSync ------------------------------
(* PushSync with two pushes that may overlap, to the second of two panels. *)
EXTENDS PushSync, TLC

Symmetry == Permutations(Pushes)
=============================================================================

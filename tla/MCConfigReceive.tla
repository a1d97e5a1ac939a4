--------------------------- MODULE MCConfigReceive ---------------------------
(* ConfigReceiveHistory on small instances. *)
EXTENDS ConfigReceiveHistory, TLC

Config(v, b) == [version |-> v, body |-> b]

\* Three versions, and two payloads that carry the same one.
ReusedVersion == {Config(1, "a"), Config(2, "b"), Config(2, "c")}

Symmetry == Permutations(Handlers) \cup Permutations(Admins)
=============================================================================

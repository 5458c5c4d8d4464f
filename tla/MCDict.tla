------------------------------- MODULE MCDict --------------------------------
(***************************************************************************)
(* Instances of Dict for TLC: keys that share the first list, one that is  *)
(* alone in the last, and an empty list between them.                      *)
(***************************************************************************)
EXTENDS Dict, TLC

CONSTANTS K1, K2, K3, K4

HashOf   == [k \in Keys |-> IF k = K4 THEN 2 ELSE 0]
Symmetry == Permutations(Nodes)
==============================================================================

---------------------------- MODULE MCMaterialOrder ----------------------------
(* Instances of MaterialOrder for TLC. *)
EXTENDS MaterialOrder, TLC

\* Requests are alike.
Symmetry == Permutations(Workers)
==============================================================================

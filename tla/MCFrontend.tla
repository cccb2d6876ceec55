----------------------------- MODULE MCFrontend -----------------------------
(* Frontend for TLC. *)
EXTENDS Frontend, TLC

Symmetry == Permutations(Pods)
=============================================================================

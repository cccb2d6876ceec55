--------------------------- MODULE MCMasterSession ---------------------------
(* MasterSession for TLC. *)
EXTENDS MasterSession, TLC

Symmetry == Permutations(Conns) \cup Permutations(Timers)
            \cup Permutations(Sessions)
==============================================================================

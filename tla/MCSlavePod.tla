----------------------------- MODULE MCSlavePod -----------------------------
(* SlavePod for TLC: the generator returns one of its extreme values. *)
EXTENDS SlavePod

MCIntn(n) == {0, n - 1}
=============================================================================

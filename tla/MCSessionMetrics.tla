-------------------------- MODULE MCSessionMetrics --------------------------
(* SessionMetrics for TLC. *)
EXTENDS SessionMetrics, TLC
=============================================================================

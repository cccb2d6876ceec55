------------------------------ MODULE MCBackend ------------------------------
(* Backend for TLC. *)
EXTENDS Backend, TLC
=============================================================================

------------------------------ MODULE MCTrace ------------------------------
(* Instances of Trace for TLC. *)
EXTENDS Trace
=============================================================================

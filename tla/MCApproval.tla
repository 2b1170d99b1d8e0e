----------------------------- MODULE MCApproval -----------------------------
(* Instances of Approval for TLC. *)
EXTENDS Approval

CONSTANTS w1, w2, r1, r2
=============================================================================

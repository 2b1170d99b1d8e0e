------------------------------ MODULE MCTurns ------------------------------
(* Instances of Turns for TLC. *)
EXTENDS Turns

CONSTANTS locate, write, rest

ReconOf == {locate}
CheckableOf == {write}
\* A plan that begins by looking for something.
Planned == {<<locate, write>>}
\* The model repeats finished work, or has nothing to add.
Revised == {<<write, rest>>, <<>>}
PerMode == [m \in Modes |-> IF m = "complex" THEN 2 ELSE IF m = "standard" THEN 1 ELSE 0]
=============================================================================

---------------------------- MODULE MCToolGates ----------------------------
(* Instances of ToolGates for TLC. *)
EXTENDS ToolGates, TLC

CONSTANTS inside, outside

Check(flag, semantic) == [flag |-> flag, semantic |-> semantic]

\* An acceptance check, and a regression check that is judged.
UsualPlan == <<Check("accepted", FALSE), Check("targeted", TRUE)>>
Usual == {[plan |-> UsualPlan, mayStay |-> FALSE, mode |-> "fast"]}
UsualResolutions ==
    (UsualPlan :> {<<"resolved", "resolved">>, <<"target_unresolved", "resolved">>,
                   <<"resolved", "target_unresolved">>})
\* All requirements have the category "regression".
RegressionPlan == <<Check("targeted", FALSE)>>
OnlyRegression ==
    {[plan |-> RegressionPlan, mayStay |-> s, mode |-> m] : s \in BOOLEAN, m \in Modes}
AnyResolution == (RegressionPlan :> {<<s>> : s \in Statuses})

PerMode(f, s, c) ==
    [m \in Modes |-> IF m = "fast" THEN f ELSE IF m = "standard" THEN s ELSE c]
Rising == PerMode(2, 3, 3)
Lowest == PerMode(1, 1, 1)
Growing == PerMode(2, 2, 2)
=============================================================================

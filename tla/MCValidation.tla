---------------------------- MODULE MCValidation ----------------------------
(* Instances of Validation for TLC. *)
EXTENDS Validation

CONSTANTS code, manifest, test

Check(semantic, target) ==
    [purpose |-> "acceptance", semantic |-> semantic, full |-> FALSE,
     target |-> target]

\* A check of its own tool with a file for its target, or a semantic one.
TypedOrSemantic == {<<Check(FALSE, code)>>, <<Check(TRUE, None)>>}
TestOrSemantic == {<<Check(FALSE, test)>>, <<Check(TRUE, None)>>}
Untargeted == {<<Check(FALSE, None)>>}

\* What a manifest offers whatever tests there are; a manifest whose command
\* comes with the first test file; one of that kind or a framework's name only.
Alone(kinds) == [alone : kinds, python : {FALSE}]
Completed == [alone : {"none"}, python : {TRUE}]
Either == Alone({"nameOnly"}) \cup Completed
Silent == Alone({"none"})
Loud == Alone({"runnable"})

PerMode(f, s, c) ==
    [m \in Modes |-> IF m = "fast" THEN f ELSE IF m = "standard" THEN s ELSE c]
Short == PerMode(1, 2, 2)
Rising == PerMode(1, 2, 4)
=============================================================================

------------------------------ MODULE MCMemory ------------------------------
(* Instances of Memory for TLC. *)
EXTENDS Memory, TLC

CONSTANTS a, p1, p2, t1, t2

Of(tool, path, outcome, risky) ==
    [tool |-> tool, path |-> path, outcome |-> outcome, risky |-> risky]

\* A flagged edit, a check of it, tests that cannot start and tests that fail,
\* a search; an installation that cannot be verified.
Checked == {Of("edit", a, "ok", TRUE), Of("web", a, "ok", FALSE),
            Of("tests", None, "error", FALSE), Of("tests", None, "failed", FALSE),
            Of("search", None, "ok", FALSE)}
Plain == {Of("edit", a, "ok", FALSE), Of("tests", None, "failed", FALSE),
          Of("install", None, "unverified", FALSE)}
Alike == Permutations({p1, p2}) \cup Permutations({t1, t2})
=============================================================================

--------------------------- MODULE MCCheckpoints ---------------------------
(* Instances of Checkpoints for TLC: two spellings p1, p2 of two files, or  *)
(* of one (the aliased instance); texts x and y, and cr, the CRLF form of x. *)
EXTENDS Checkpoints, TLC

CONSTANTS f1, f2, p1, p2, x, y, cr

OneFile == p1 :> f1
OwnPaths == p1 :> f1 @@ p2 :> f2
Aliased == p1 :> f1 @@ p2 :> f1
PlainText == x :> x @@ y :> y
Universal == x :> x @@ y :> y @@ cr :> x
=============================================================================

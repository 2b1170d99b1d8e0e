----------------------------- MODULE MCSession -----------------------------
(* Instances of Session for TLC. *)
EXTENDS Session

CONSTANTS agent, r1

FlaggedEdit == [level |-> "caution", rule |-> r1, reads |-> FALSE]
PlainEdit == [level |-> "safe", rule |-> "none", reads |-> FALSE]

Edits == {FlaggedEdit, PlainEdit}
PlainEdits == {PlainEdit}
=============================================================================

------------------------- MODULE CheckpointsProofs -------------------------
(***************************************************************************)
(* Type correctness and the main safety invariants of Checkpoints, for any *)
(* files, paths, texts and limits.                                         *)
(*                                                                         *)
(* IInv says what each step between a check and its write may rely on.     *)
(* ChainInv adds what an undo rests on: the live checkpoints of a file     *)
(* lead, each from its after-state to its before-state, from the text on   *)
(* disk back to the text before the first edit.                            *)
(***************************************************************************)
EXTENDS Checkpoints, FiniteSetTheorems, TLAPS

\* Reading a stored content gives something a snapshot can hold.
LEMMA TextOfType == \A v \in Stored : TextOf(v) \in Stored
  BY TextAssumption DEF Stored, TextOf

\* Only an existing file has a text.
LEMMA TextOfFile == \A v \in Stored : v # Absent => TextOf(v) \in Raw
  BY TextAssumption DEF Stored, TextOf

\* No locals are set between two operations.
LEMMA UnsetType == Unset \in [Paths -> Stored \cup {None}]
  BY DEF Unset

\* What capture, seal and mark_rolled_back make are checkpoints.
LEMMA SealedType ==
  ASSUME NEW c \in Checkpoint, NEW t \in Raw, new \in Raw
  PROVE  Sealed(c, t) \in Checkpoint
  BY DEF Checkpoint, Sealed

LEMMA RolledBackType == \A c \in Checkpoint : RolledBack(c) \in Checkpoint
  BY DEF Checkpoint, RolledBack

\* capture stores a well-formed, unsealed checkpoint.
LEMMA SnapshotType ==
  ASSUME TypeOK, NEW p \in Paths PROVE Snapshot(p) \in Checkpoint
  BY TextOfType, PathAssumption DEF TypeOK, Snapshot, Checkpoint, At

\* The initial state has its type.
LEMMA InitType == Init => TypeOK
  <1> SUFFICES ASSUME Init PROVE TypeOK
    OBVIOUS
  <1>1. expected \in [Paths -> Stored \cup {None}]
    BY UnsetType DEF Init
  <1>2. QED
    BY <1>1 DEF Init, TypeOK, EditSteps, RestoreSteps

\* The file of the checkpoint at hand is a file of the workspace.
LEMMA TargetType ==
  TypeOK /\ pc \in EditSteps \cup RestoreSteps => Target \in Files
  BY PathAssumption DEF TypeOK, Target, Checkpoint

\* Every step of the agent and of the user keeps the type.
LEMMA NextType == TypeOK /\ [Next]_vars => TypeOK'
  <1> SUFFICES ASSUME TypeOK, [Next]_vars PROVE TypeOK'
    OBVIOUS
  <1> USE UnsetType, TargetType
      DEF TypeOK, manager, bounds, history, locals, EditSteps, RestoreSteps
  <1>1. ASSUME NEW p \in Paths, Capture(p) PROVE TypeOK'
    BY <1>1, SnapshotType DEF Capture, Trim, HistoryTrimmed
  <1>2. ASSUME AbandonEdit PROVE TypeOK'
    BY <1>2 DEF AbandonEdit, EndOperation, Discard
  <1>3. ASSUME PassConflictCheck PROVE TypeOK'
    BY <1>3 DEF PassConflictCheck
  <1>4. ASSUME ToolRead PROVE TypeOK'
    BY <1>4 DEF ToolRead
  <1>5. ASSUME ToolWrite PROVE TypeOK'
    BY <1>5 DEF ToolWrite, Stored
  <1>6. ASSUME ToolWriteFault PROVE TypeOK'
    BY <1>6 DEF ToolWriteFault, EndOperation, Discard, Stored
  <1>7. ASSUME VerifyFails PROVE TypeOK'
    BY <1>7 DEF VerifyFails, EndOperation, Discard
  <1>8. ASSUME VerifyPasses PROVE TypeOK'
    BY <1>8 DEF VerifyPasses
  <1>9. ASSUME SealCheckpoint PROVE TypeOK'
    <2>1. cp \in Checkpoint /\ new \in Raw /\ disk[Target] \in Stored
      BY <1>9 DEF SealCheckpoint
    <2>2. TextOf(disk[Target]) \in Raw
      BY <1>9, <2>1, TextOfFile DEF SealCheckpoint
    <2>3. checkpoints' \subseteq Checkpoint
      BY <1>9, <2>1, <2>2, SealedType DEF SealCheckpoint
    <2>4. QED
      BY <1>9, <2>3 DEF SealCheckpoint
  <1>10. ASSUME SealFails PROVE TypeOK'
    BY <1>10 DEF SealFails, Discard
  <1>11. ASSUME RecordEdit PROVE TypeOK'
    BY <1>11 DEF RecordEdit, EndOperation
  <1>12. ASSUME CancelAfterEdit PROVE TypeOK'
    BY <1>12 DEF CancelAfterEdit, EndOperation
  <1>13. ASSUME GuardRefuses PROVE TypeOK'
    BY <1>13 DEF GuardRefuses, FailRestore, Finish, EndOperation
  <1>14. ASSUME GuardPasses PROVE TypeOK'
    BY <1>14 DEF GuardPasses
  <1>15. ASSUME RestoreBefore PROVE TypeOK'
    BY <1>15 DEF RestoreBefore, RestoreLoses, Checkpoint
  <1>16. ASSUME RestoreFault PROVE TypeOK'
    BY <1>16
       DEF RestoreFault, RestoreLoses, FailRestore, Finish, EndOperation,
           Stored
  <1>17. ASSUME ConfirmFails PROVE TypeOK'
    BY <1>17 DEF ConfirmFails, FailRestore, Finish, EndOperation
  <1>18. ASSUME ConfirmRollback PROVE TypeOK'
    BY <1>18, RolledBackType
       DEF ConfirmRollback, MarkRolledBack, Finish, EndOperation
  <1>19. ASSUME ConfirmUndo PROVE TypeOK'
    <2>1. checkpoints' \subseteq Checkpoint
      BY <1>19, RolledBackType DEF ConfirmUndo, MarkRolledBack
    <2>2. restored \cup {cp.path} \subseteq Paths
      BY <1>19 DEF ConfirmUndo, Checkpoint
    <2>3. QED
      BY <1>19, <2>1, <2>2 DEF ConfirmUndo, Advance, Finish, EndOperation
  <1>20. ASSUME PreflightRefuses PROVE TypeOK'
    BY <1>20 DEF PreflightRefuses, Finish, EndOperation
  <1>21. ASSUME PreflightPasses PROVE TypeOK'
    BY <1>21 DEF PreflightPasses, Checkpoint
  <1>22. ASSUME BeginRestores PROVE TypeOK'
    BY <1>22 DEF BeginRestores, Advance, Finish, EndOperation, Live
  <1>23. ASSUME StartRollback PROVE TypeOK'
    BY <1>23 DEF StartRollback, Live
  <1>24. ASSUME EndTask PROVE TypeOK'
    BY <1>24 DEF EndTask
  <1>25. ASSUME UndoTrimmed PROVE TypeOK'
    BY <1>25 DEF UndoTrimmed
  <1>26. ASSUME StartUndo PROVE TypeOK'
    BY <1>26 DEF StartUndo, Live
  <1>27. ASSUME BeginTask PROVE TypeOK'
    BY <1>27 DEF BeginTask
  <1>28. ASSUME NoticeExternalChange PROVE TypeOK'
    BY <1>28 DEF NoticeExternalChange
  <1>29. ASSUME NEW f \in Files, UserWrite(f) PROVE TypeOK'
    BY <1>29 DEF UserWrite
  <1>30. CASE UNCHANGED vars
    BY <1>30 DEF vars
  <1>31. QED
    BY <1>1, <1>2, <1>3, <1>4, <1>5, <1>6, <1>7, <1>8, <1>9, <1>10, <1>11,
       <1>12, <1>13, <1>14, <1>15, <1>16, <1>17, <1>18, <1>19, <1>20, <1>21,
       <1>22, <1>23, <1>24, <1>25, <1>26, <1>27, <1>28, <1>29, <1>30
       DEF Next, EditStep, RestoreStep

\* Type correctness of the checkpoint manager, executor and rollback engine.
THEOREM TypeCorrect == Spec => []TypeOK
  BY InitType, NextType, PTL DEF Spec

-----------------------------------------------------------------------------

\* seal fills in the after-state and leaves the identity of the checkpoint.
LEMMA SealedFields ==
  ASSUME NEW c \in Checkpoint, NEW t \in Raw
  PROVE  /\ Sealed(c, t).id = c.id /\ Sealed(c, t).path = c.path
         /\ Sealed(c, t).revision = c.revision
         /\ Sealed(c, t).sealed = TRUE
         /\ Sealed(c, t).after = t /\ Sealed(c, t).wrote = new
  BY DEF Checkpoint, Sealed

\* mark_rolled_back changes one flag.
LEMMA RolledBackFields ==
  ASSUME NEW c \in Checkpoint
  PROVE  LET d == RolledBack(c) IN
         /\ d.id = c.id /\ d.path = c.path /\ d.revision = c.revision
         /\ d.sealed = c.sealed /\ d.after = c.after /\ d.wrote = c.wrote
  BY DEF Checkpoint, RolledBack

\* A capture is numbered after every earlier one.
LEMMA SnapshotFields ==
  ASSUME NEW p \in Paths
  PROVE  LET d == Snapshot(p) IN
         /\ d.id = counter + 1 /\ d.path = p /\ d.revision = revision + 1
         /\ ~d.sealed
  BY DEF Snapshot

\* The inductive invariant holds of a fresh task.
LEMMA InitInv == Init => IInv
  BY InitType
     DEF Init, IInv, NoLeftoverCheckpoint, InEdit, InRestore, Numbered,
     Truthful, CheckStillHolds, LossOnlyInWindow, RevisionNamesOneEdit,
     EditSteps, RestoreSteps

\* The inductive invariant is kept by every step: of the edit, of the
\* rollback and undo, and of a foreign writer at any moment.
LEMMA NextInv == IInv /\ [Next]_vars => IInv'
  <1> SUFFICES ASSUME IInv, [Next]_vars PROVE IInv'
    OBVIOUS
  <1>0. TypeOK /\ TypeOK'
    BY NextType DEF IInv
  <1> USE <1>0
      DEF IInv, NoLeftoverCheckpoint, InEdit, InRestore, Numbered, Truthful,
          CheckStillHolds, LossOnlyInWindow, RevisionNamesOneEdit,
          manager, bounds, history, locals, EditSteps, RestoreSteps
  <1>1. ASSUME NEW p \in Paths, Capture(p) PROVE IInv'
    BY <1>1, SnapshotFields, SnapshotType
       DEF TypeOK, Capture, Trim, HistoryTrimmed, Checkpoint
  <1>2. ASSUME AbandonEdit PROVE IInv'
    BY <1>2 DEF TypeOK, Checkpoint, Target, AbandonEdit, EndOperation, Discard
  <1>3. ASSUME PassConflictCheck PROVE IInv'
    BY <1>3 DEF TypeOK, Checkpoint, Target, PassConflictCheck
  <1>4. ASSUME ToolRead PROVE IInv'
    BY <1>4 DEF TypeOK, Checkpoint, Target, ToolRead
  <1>5. ASSUME ToolWrite PROVE IInv'
    BY <1>5 DEF TypeOK, Checkpoint, Target, ToolWrite
  <1>6. ASSUME ToolWriteFault PROVE IInv'
    BY <1>6
       DEF TypeOK, Checkpoint, Target, ToolWriteFault, EndOperation,
           Discard
  <1>7. ASSUME VerifyFails PROVE IInv'
    BY <1>7 DEF TypeOK, Checkpoint, Target, VerifyFails, EndOperation, Discard
  <1>8. ASSUME VerifyPasses PROVE IInv'
    BY <1>8 DEF TypeOK, Checkpoint, Target, VerifyPasses
  <1>9. ASSUME SealCheckpoint PROVE IInv'
    <2> DEFINE t == TextOf(disk[Target])
    <2>1. cp \in Checkpoint /\ new \in Raw /\ t \in Raw
      BY <1>9, TargetType, TextOfFile DEF TypeOK, SealCheckpoint
    <2>2. /\ Sealed(cp, t).id = cp.id /\ Sealed(cp, t).path = cp.path
          /\ Sealed(cp, t).revision = cp.revision /\ Sealed(cp, t).sealed
          /\ Sealed(cp, t).after = t /\ Sealed(cp, t).wrote = new
      BY <2>1, SealedFields
    <2>3. checkpoints' = (checkpoints \ {cp}) \cup {Sealed(cp, t)}
      BY <1>9 DEF SealCheckpoint
    <2> HIDE DEF t
    <2>4. FileOf[cp.path] \notin raced => t = new
      BY <1>9 DEF SealCheckpoint, t, Target
    <2>5. Truthful' /\ NoLeftoverCheckpoint'
      BY <1>9, <2>1, <2>2, <2>3, <2>4 DEF SealCheckpoint
    <2>6. Numbered' /\ RevisionNamesOneEdit' /\ InEdit'
      BY <1>9, <2>1, <2>2, <2>3 DEF TypeOK, Checkpoint, SealCheckpoint
    <2>7. InRestore' /\ CheckStillHolds' /\ LossOnlyInWindow'
      BY <1>9 DEF SealCheckpoint
    <2>8. QED
      BY <2>5, <2>6, <2>7
  <1>10. ASSUME SealFails PROVE IInv'
    BY <1>10 DEF TypeOK, Checkpoint, Target, SealFails, Discard
  <1>11. ASSUME RecordEdit PROVE IInv'
    BY <1>11 DEF TypeOK, Checkpoint, Target, RecordEdit, EndOperation
  <1>12. ASSUME CancelAfterEdit PROVE IInv'
    BY <1>12 DEF TypeOK, Checkpoint, Target, CancelAfterEdit, EndOperation
  <1>13. ASSUME GuardRefuses PROVE IInv'
    BY <1>13
       DEF TypeOK, Checkpoint, Target, GuardRefuses, FailRestore, Finish,
           EndOperation
  <1>14. ASSUME GuardPasses PROVE IInv'
    BY <1>14 DEF TypeOK, Checkpoint, Target, GuardPasses, MatchesAfter, At
  <1>15. ASSUME RestoreBefore PROVE IInv'
    BY <1>15 DEF TypeOK, Checkpoint, Target, RestoreBefore, RestoreLoses
  <1>16. ASSUME RestoreFault PROVE IInv'
    BY <1>16
       DEF TypeOK, Checkpoint, Target, RestoreFault, RestoreLoses,
           FailRestore, Finish, EndOperation
  <1>17. ASSUME ConfirmFails PROVE IInv'
    BY <1>17
       DEF TypeOK, Checkpoint, Target, ConfirmFails, FailRestore, Finish,
           EndOperation
  <1>18. ASSUME ConfirmRollback PROVE IInv'
    BY <1>18, RolledBackFields
       DEF TypeOK, Checkpoint, Target, ConfirmRollback, MarkRolledBack,
           Finish, EndOperation
  <1>19. ASSUME ConfirmUndo PROVE IInv'
    BY <1>19, RolledBackFields
       DEF TypeOK, Checkpoint, Target, ConfirmUndo, MarkRolledBack,
           Advance, Finish, EndOperation
  <1>20. ASSUME PreflightRefuses PROVE IInv'
    BY <1>20
       DEF TypeOK, Checkpoint, Target, PreflightRefuses, Finish,
           EndOperation
  <1>21. ASSUME PreflightPasses PROVE IInv'
    BY <1>21 DEF TypeOK, Checkpoint, Target, PreflightPasses
  <1>22. ASSUME BeginRestores PROVE IInv'
    <2>1. Live \subseteq checkpoints
      BY DEF Live
    <2>2. QED
      BY <1>22, <2>1
         DEF TypeOK, Checkpoint, Target, BeginRestores, Advance, Finish,
             EndOperation
  <1>23. ASSUME StartRollback PROVE IInv'
    BY <1>23 DEF TypeOK, Checkpoint, Target, StartRollback, Live
  <1>24. ASSUME EndTask PROVE IInv'
    BY <1>24 DEF TypeOK, Checkpoint, Target, EndTask
  <1>25. ASSUME UndoTrimmed PROVE IInv'
    BY <1>25 DEF TypeOK, Checkpoint, Target, UndoTrimmed
  <1>26. ASSUME StartUndo PROVE IInv'
    BY <1>26 DEF TypeOK, Checkpoint, Target, StartUndo, Live
  <1>27. ASSUME BeginTask PROVE IInv'
    BY <1>27 DEF TypeOK, Checkpoint, Target, BeginTask
  <1>28. ASSUME NoticeExternalChange PROVE IInv'
    BY <1>28 DEF TypeOK, Checkpoint, Target, NoticeExternalChange
  <1>29. ASSUME NEW f \in Files, UserWrite(f) PROVE IInv'
    BY <1>29 DEF TypeOK, Checkpoint, Target, UserWrite, Exposed
  <1>30. CASE UNCHANGED vars
    BY <1>30 DEF vars, Target
  <1>31. QED
    BY <1>1, <1>2, <1>3, <1>4, <1>5, <1>6, <1>7, <1>8, <1>9, <1>10, <1>11,
       <1>12, <1>13, <1>14, <1>15, <1>16, <1>17, <1>18, <1>19, <1>20, <1>21,
       <1>22, <1>23, <1>24, <1>25, <1>26, <1>27, <1>28, <1>29, <1>30
       DEF Next, EditStep, RestoreStep

\* No unsealed checkpoint of a failed or refused edit survives it, so that
\* none can be mistaken for a rollback candidate.
THEOREM NoLeftover == Spec => []NoLeftoverCheckpoint
  <1>1. IInv => NoLeftoverCheckpoint
    BY DEF IInv
  <1>2. QED
    BY <1>1, InitInv, NextInv, PTL DEF Spec

\* Edits, rollbacks and undo destroy text of the user's only when the user
\* writes between the conflict check (or the stale guard) and the write it
\* protects, whatever the files, aliases, limits and interleavings are.
THEOREM LossConfined == Spec => []LossOnlyInWindow
  <1>1. IInv => LossOnlyInWindow
    BY DEF IInv
  <1>2. QED
    BY <1>1, InitInv, NextInv, PTL DEF Spec

\* Later edits of a task carry later revisions, so that the coordinator's
\* latest_for_revision names the edit whose validation regressed.
THEOREM RevisionsDistinct == Spec => []RevisionNamesOneEdit
  <1>1. IInv => RevisionNamesOneEdit
    BY DEF IInv
  <1>2. QED
    BY <1>1, InitInv, NextInv, PTL DEF Spec

-----------------------------------------------------------------------------
(***************************************************************************)
(* The chain of edits.  The live checkpoints of a file, in the order of    *)
(* their numbers, lead from the text before the agent's first edit to the  *)
(* text of the file: each after-state is the next before-state.  Undo, its *)
(* dry run and automatic rollback rely on it; no test states it.           *)
(***************************************************************************)

\* The newest checkpoint of S leaves t; the oldest one found t.
NewestAfter(S, t) == \A c \in S : (\A d \in S : d.id <= c.id) => c.after = t
OldestBefore(S, t) == \A c \in S : (\A d \in S : c.id <= d.id) => c.before = t

\* S leads, edit by edit, to t; and it starts at b.
Linked(S, t) ==
    /\ NewestAfter(S, t)
    /\ \A c, d \in S :
           c.id < d.id /\ (\A e \in S : e.id <= c.id \/ d.id <= e.id)
               => c.after = d.before
Rooted(S, t, b) == OldestBefore(S, b) /\ (S = {} => t = b)

LiveOf(f) == {c \in Live : FileOf[c.path] = f}

\* The text the chain of f leads to: the file's, except while an edit or a
\* restore has the file in hand.
Held(f) ==
    IF pc \in {"read", "write", "verify", "seal"} /\ f = Target THEN cp.before
    ELSE IF pc = "confirm" /\ f = Target THEN cp.after
    ELSE TextOf(disk[f])

\* No file was edited under two spellings of its path: the dry run of undo
\* follows the path arguments, not the files.
OneSpelling ==
    \A c, d \in checkpoints : FileOf[c.path] = FileOf[d.path] => c.path = d.path

\* Nobody else wrote f, and every edit of it kept its checkpoint; or a dry
\* run has just followed its chain.
Clean(f) == ~trimmed /\ f \notin touched \cup unprotected
Probed == kind = "undo" /\ ~disturbed /\ OneSpelling
Trusted(f) == Clean(f) \/ (Probed /\ pc \in RestoreSteps)

\* The checkpoints themselves.
Shape ==
    /\ IsFiniteSet(checkpoints)
    /\ \A c, d \in checkpoints : c.id = d.id => c = d
    /\ \A c \in checkpoints : TextOf(c.before) = c.before
    /\ pc \in EditSteps => TextOf(cp.before) = cp.before /\ ~cp.rolledBack
    /\ pc \in EditSteps \ {"record"} /\ ~trimmed => cp \in checkpoints

\* Who is doing what, and what a result says of the task.
Phases ==
    /\ pc = "idle" <=> kind = "none"
    /\ kind # "undo" => expected = Unset
    /\ pc \in EditSteps <=> kind = "edit"
    /\ pc = "preflight" => kind = "undo"
    /\ kind = "rollback" => running
    /\ kind = "undo" => ~running /\ ~trimmed
    /\ outcome \in {"undone", "refused", "partial"} => pc = "idle" /\ ~running
    /\ outcome = "undone" => ~trimmed /\ Live = {}

\* Rollback and undo work from the newest live edit down.
Order ==
    /\ pc \in RestoreSteps => IsNewest(cp, Live)
    /\ kind = "undo" /\ pc \in RestoreSteps => todo = Live \ {cp}
    /\ pc = "preflight" =>
          todo \subseteq Live /\ \A c \in Live \ todo, d \in todo : d.id < c.id

ChainedAt(f) ==
    /\ Trusted(f) => Linked(LiveOf(f), Held(f))
    /\ Clean(f) => Rooted(LiveOf(f), Held(f), TextOf(base[f]))
Chained == \A f \in Files : ChainedAt(f)

\* What an edit is about to overwrite, and what a restore has written.
Windows ==
    /\ pc \in {"read", "write"} /\ Clean(Target) =>
          TextOf(disk[Target]) = cp.before
    /\ pc = "confirm" /\ Trusted(Target) => TextOf(disk[Target]) = cp.before

\* The dry run expects of a path what its oldest edit seen so far found,
\* and the edits seen so far lead to the text on disk.
Seen(p) == {c \in Live \ todo : c.path = p}
Probe ==
    pc = "preflight" =>
        /\ \A p \in Paths :
              IF Seen(p) = {} THEN expected[p] = None
              ELSE \E o \in Seen(p) : /\ \A d \in Seen(p) : o.id <= d.id
                                     /\ expected[p] = o.before
        /\ Probed => \A p \in Paths : Linked(Seen(p), TextOf(At(p)))

\* Why an undo was refused or broke off.
Results ==
    /\ outcome = "refused" /\ OneSpelling =>
          trimmed \/ touched # {} \/ unprotected # {}
    /\ outcome = "partial" /\ OneSpelling => disturbed

\* Whatever lies newest in a chain goes back to what lies below it.
LEMMA DropNewest ==
  ASSUME NEW S \in SUBSET Checkpoint, NEW c \in S, NEW t, IsNewest(c, S),
         \A d \in S : d.id = c.id => d = c,
         Linked(S, t)
  PROVE  Linked(S \ {c}, c.before)
  <1>1. c.after = t
    BY DEF Linked, NewestAfter, IsNewest
  <1>2. \A d \in S \ {c} : d.id < c.id
    BY DEF IsNewest, Checkpoint
  <1>3. NewestAfter(S \ {c}, c.before)
    <2> SUFFICES ASSUME NEW d \in S \ {c}, \A e \in S \ {c} : e.id <= d.id
                 PROVE  d.after = c.before
      BY DEF NewestAfter
    <2>1. \A e \in S : e.id <= d.id \/ c.id <= e.id
      BY DEF Checkpoint
    <2>2. QED
      BY <1>2, <2>1 DEF Linked
  <1>4. ASSUME NEW a \in S \ {c}, NEW d \in S \ {c}, a.id < d.id,
               \A e \in S \ {c} : e.id <= a.id \/ d.id <= e.id
        PROVE  a.after = d.before
    <2>1. \A e \in S : e.id <= a.id \/ d.id <= e.id
      BY <1>2, <1>4 DEF Checkpoint
    <2>2. QED
      BY <1>4, <2>1 DEF Linked
  <1>5. QED
    BY <1>3, <1>4 DEF Linked

\* The bottom of a chain stays where it is when its top goes.
LEMMA DropNewestRooted ==
  ASSUME NEW S \in SUBSET Checkpoint, NEW c \in S, NEW t, NEW b,
         IsNewest(c, S), Rooted(S, t, b)
  PROVE  Rooted(S \ {c}, c.before, b)
  <1>1. OldestBefore(S \ {c}, b)
    <2> SUFFICES ASSUME NEW d \in S \ {c}, \A e \in S \ {c} : d.id <= e.id
                 PROVE  d.before = b
      BY DEF OldestBefore
    <2>1. \A e \in S : d.id <= e.id
      BY DEF IsNewest
    <2>2. QED
      BY <2>1 DEF Rooted, OldestBefore
  <1>2. S \ {c} = {} => c.before = b
    <2>1. SUFFICES ASSUME S \ {c} = {} PROVE c.before = b
      OBVIOUS
    <2>2. \A e \in S : e = c
      BY <2>1
    <2>3. \A e \in S : c.id <= e.id
      BY <2>2 DEF Checkpoint
    <2>4. QED
      BY <2>3 DEF Rooted, OldestBefore
  <1>3. QED
    BY <1>1, <1>2 DEF Rooted

\* A new edit on top of a chain starts from the text the chain ends in.
LEMMA AddNewest ==
  ASSUME NEW S \in SUBSET Checkpoint, NEW c \in Checkpoint, NEW t,
         \A d \in S : d.id < c.id, c.before = t, Linked(S, t)
  PROVE  Linked(S \cup {c}, c.after)
  <1>1. NewestAfter(S \cup {c}, c.after)
    BY DEF NewestAfter, Checkpoint
  <1>2. ASSUME NEW a \in S \cup {c}, NEW d \in S \cup {c}, a.id < d.id,
               \A e \in S \cup {c} : e.id <= a.id \/ d.id <= e.id
        PROVE  a.after = d.before
    <2>1. a \in S
      BY <1>2 DEF Checkpoint
    <2>2. CASE d \in S
      BY <1>2, <2>1, <2>2 DEF Linked
    <2>3. CASE d = c
      <3>1. \A e \in S : e.id <= a.id
        BY <1>2, <2>3 DEF Checkpoint
      <3>2. QED
        BY <2>1, <2>3, <3>1 DEF Linked, NewestAfter
    <2>4. QED
      BY <2>2, <2>3
  <1>3. QED
    BY <1>1, <1>2 DEF Linked

\* The bottom of a chain stays where it is when an edit goes on top.
LEMMA AddNewestRooted ==
  ASSUME NEW S \in SUBSET Checkpoint, NEW c \in Checkpoint, NEW t, NEW b,
         NEW u, \A d \in S : d.id < c.id, c.before = t, Rooted(S, t, b)
  PROVE  Rooted(S \cup {c}, u, b)
  <1>1. OldestBefore(S \cup {c}, b)
    <2> SUFFICES ASSUME NEW d \in S \cup {c}, \A e \in S \cup {c} : d.id <= e.id
                 PROVE  d.before = b
      BY DEF OldestBefore
    <2>1. CASE d = c
      <3>1. S = {}
        BY <2>1 DEF Checkpoint
      <3>2. QED
        BY <2>1, <3>1 DEF Rooted
    <2>2. CASE d \in S
      BY <2>2 DEF Rooted, OldestBefore
    <2>3. QED
      BY <2>1, <2>2
  <1>2. QED
    BY <1>1 DEF Rooted

\* The dry run extends a chain at its bottom.
LEMMA AddOldest ==
  ASSUME NEW S \in SUBSET Checkpoint, NEW c \in Checkpoint, NEW t,
         \A d \in S : c.id < d.id,
         S = {} => c.after = t,
         S # {} => OldestBefore(S, c.after),
         Linked(S, t)
  PROVE  Linked(S \cup {c}, t)
  <1>1. NewestAfter(S \cup {c}, t)
    <2> SUFFICES ASSUME NEW d \in S \cup {c}, \A e \in S \cup {c} : e.id <= d.id
                 PROVE  d.after = t
      BY DEF NewestAfter
    <2>1. CASE d = c
      <3>1. S = {}
        BY <2>1 DEF Checkpoint
      <3>2. QED
        BY <2>1, <3>1
    <2>2. CASE d \in S
      BY <2>2 DEF Linked, NewestAfter
    <2>3. QED
      BY <2>1, <2>2
  <1>2. ASSUME NEW a \in S \cup {c}, NEW d \in S \cup {c}, a.id < d.id,
               \A e \in S \cup {c} : e.id <= a.id \/ d.id <= e.id
        PROVE  a.after = d.before
    <2>1. d \in S
      BY <1>2 DEF Checkpoint
    <2>2. CASE a \in S
      BY <1>2, <2>1, <2>2 DEF Linked
    <2>3. CASE a = c
      <3>1. \A e \in S : d.id <= e.id
        BY <1>2, <2>3 DEF Checkpoint
      <3>2. QED
        BY <2>1, <2>3, <3>1 DEF OldestBefore
    <2>4. QED
      BY <2>2, <2>3
  <1>3. QED
    BY <1>1, <1>2 DEF Linked

\* What the chain of edits rests on, besides IInv.
Bookkeeping == Shape /\ Phases /\ Order

\* Filling a checkpoint in touches neither its before-state nor its place.
LEMMA SealedRest ==
  ASSUME NEW c \in Checkpoint, NEW t \in Raw
  PROVE  /\ Sealed(c, t).before = c.before
         /\ Sealed(c, t).rolledBack = c.rolledBack
  BY DEF Checkpoint, Sealed

\* mark_rolled_back leaves the before-state.
LEMMA RolledBackRest ==
  ASSUME NEW c \in Checkpoint
  PROVE  RolledBack(c).before = c.before /\ RolledBack(c).rolledBack
  BY DEF Checkpoint, RolledBack

\* A snapshot holds decoded text.
LEMMA SnapshotRest ==
  ASSUME TypeOK, NEW p \in Paths
  PROVE  /\ Snapshot(p).before = TextOf(At(p))
         /\ TextOf(Snapshot(p).before) = Snapshot(p).before
         /\ ~Snapshot(p).rolledBack
  BY TextAssumption, PathAssumption DEF TypeOK, Snapshot, At, TextOf, Stored

\* A seal adds the edit at hand to the live ones.
LEMMA LiveSealed ==
  ASSUME IInv, Bookkeeping, SealCheckpoint
  PROVE  Live' = Live \cup {Sealed(cp, TextOf(disk[Target]))}
  <1> DEFINE t == TextOf(disk[Target])
  <1>1. cp \in Checkpoint /\ t \in Raw /\ pc \in EditSteps
    BY TargetType, TextOfFile DEF SealCheckpoint, IInv, TypeOK, EditSteps
  <1>2. Sealed(cp, t).sealed /\ ~Sealed(cp, t).rolledBack /\ ~cp.sealed
    BY <1>1, SealedFields, SealedRest DEF IInv, InEdit, Bookkeeping, Shape
  <1>3. checkpoints' = (checkpoints \ {cp}) \cup {Sealed(cp, t)}
    BY DEF SealCheckpoint
  <1> HIDE DEF t
  <1>4. Live' = Live \cup {Sealed(cp, t)}
    BY <1>2, <1>3 DEF Live
  <1>5. QED
    BY <1>4 DEF t

\* A confirmed rollback takes the edit at hand away.
LEMMA LiveRolledBack ==
  ASSUME IInv, MarkRolledBack, pc = "confirm"
  PROVE  Live' = Live \ {cp}
  <1>1. RolledBack(cp).rolledBack
    BY RolledBackRest DEF IInv, TypeOK, RestoreSteps
  <1>2. QED
    BY <1>1 DEF MarkRolledBack, Live

\* While the history is not cut, a capture only adds.
LEMMA CaptureAdds ==
  ASSUME IsFiniteSet(checkpoints), NEW p \in Paths, Capture(p), ~trimmed'
  PROVE  checkpoints' = checkpoints \cup {Snapshot(p)}
  <1>1. Cardinality(checkpoints \cup {Snapshot(p)}) \in Nat
    BY FS_AddElement, FS_CardinalityType
  <1>2. ~(Cardinality(checkpoints \cup {Snapshot(p)}) > MaxCheckpoints)
    BY DEF Capture, HistoryTrimmed
  <1>3. Cardinality(checkpoints \cup {Snapshot(p)}) <= MaxCheckpoints
    BY <1>1, <1>2, LimitAssumption
  <1>4. QED
    BY <1>3 DEF Capture, Trim

\* No other step changes which edits are live.
LEMMA LiveKept ==
  ASSUME IInv, Bookkeeping, [Next]_vars, ~trimmed',
         ~SealCheckpoint, ~ConfirmRollback, ~ConfirmUndo, ~BeginTask
  PROVE  Live' = Live
  <1>1. ASSUME NEW p \in Paths, Capture(p) PROVE Live' = Live
    <2>1. checkpoints' = checkpoints \cup {Snapshot(p)}
      BY <1>1, CaptureAdds DEF Bookkeeping, Shape
    <2>2. QED
      BY <2>1, SnapshotFields DEF Live
  <1>2. ASSUME AbandonEdit \/ ToolWriteFault \/ VerifyFails \/ SealFails
        PROVE  Live' = Live
    <2>1. checkpoints' = checkpoints \ {cp} /\ ~cp.sealed
      BY <1>2 DEF AbandonEdit, ToolWriteFault, VerifyFails, SealFails, Discard,
                  IInv, InEdit, EditSteps
    <2>2. QED
      BY <2>1 DEF Live
  <1>3. ASSUME checkpoints' = checkpoints PROVE Live' = Live
    BY <1>3 DEF Live
  <1>4. ASSUME EditStep PROVE Live' = Live
    BY <1>2, <1>3, <1>4
       DEF EditStep, PassConflictCheck, ToolRead, ToolWrite, VerifyPasses,
           RecordEdit, CancelAfterEdit, manager
  <1>5. ASSUME RestoreStep PROVE checkpoints' = checkpoints
    BY <1>5
       DEF RestoreStep, GuardRefuses, GuardPasses, RestoreBefore, RestoreFault,
           ConfirmFails, PreflightRefuses, PreflightPasses, BeginRestores,
           manager
  <1>6. ASSUME StartRollback \/ EndTask \/ UndoTrimmed \/ StartUndo
               \/ NoticeExternalChange \/ (\E f \in Files : UserWrite(f))
        PROVE  checkpoints' = checkpoints
    BY <1>6
       DEF StartRollback, EndTask, UndoTrimmed, StartUndo,
           NoticeExternalChange, UserWrite, manager
  <1>7. CASE UNCHANGED vars
    BY <1>3, <1>7 DEF vars
  <1>8. QED
    BY <1>1, <1>3, <1>4, <1>5, <1>6, <1>7 DEF Next

\* Who is doing what, and what a result says of the task.
LEMMA PhasesKept ==
  ASSUME IInv, Bookkeeping, [Next]_vars
  PROVE  Phases'
  <1> USE DEF Phases, EditSteps, RestoreSteps, manager, bounds, history, locals
  <1>0. Phases /\ InEdit /\ Order
    BY DEF Bookkeeping, IInv
  <1>1. ASSUME NEW p \in Paths, Capture(p) PROVE Phases'
    BY <1>0, <1>1 DEF Capture
  <1>2. ASSUME EditStep PROVE Phases'
    BY <1>0, <1>2
       DEF EditStep, AbandonEdit, PassConflictCheck, ToolRead, ToolWrite,
           ToolWriteFault, VerifyFails, VerifyPasses, SealCheckpoint, SealFails,
           RecordEdit, CancelAfterEdit, EndOperation
  <1>3. ASSUME GuardRefuses \/ GuardPasses \/ RestoreBefore \/ RestoreFault
               \/ ConfirmFails \/ ConfirmRollback
        PROVE  Phases'
    BY <1>0, <1>3
       DEF GuardRefuses, GuardPasses, RestoreBefore, RestoreFault,
           ConfirmFails, ConfirmRollback, FailRestore, Finish, EndOperation
  <1>4. ASSUME ConfirmUndo PROVE Phases'
    <2>1. Live' = todo
      BY <1>0, <1>4, LiveRolledBack DEF ConfirmUndo, Order
    <2>2. QED
      BY <1>0, <1>4, <2>1 DEF ConfirmUndo, Advance, Finish, EndOperation
  <1>5. ASSUME PreflightRefuses \/ PreflightPasses PROVE Phases'
    BY <1>0, <1>5 DEF PreflightRefuses, PreflightPasses, Finish, EndOperation
  <1>6. ASSUME BeginRestores PROVE Phases'
    <2>1. Live' = Live
      BY <1>6 DEF BeginRestores, Live
    <2>2. QED
      BY <1>0, <1>6, <2>1 DEF BeginRestores, Advance, Finish, EndOperation
  <1>7. ASSUME StartRollback \/ StartUndo \/ BeginTask PROVE Phases'
    BY <1>0, <1>7 DEF StartRollback, StartUndo, BeginTask
  <1>8. ASSUME EndTask \/ UndoTrimmed \/ NoticeExternalChange
               \/ (\E f \in Files : UserWrite(f)) \/ UNCHANGED vars
        PROVE  Phases'
    <2>1. Live' = Live
      BY <1>8 DEF EndTask, UndoTrimmed, NoticeExternalChange, UserWrite, vars,
                  Live
    <2>2. QED
      BY <1>0, <1>8, <2>1
         DEF EndTask, UndoTrimmed, NoticeExternalChange, UserWrite, vars
  <1>9. QED
    BY <1>1, <1>2, <1>3, <1>4, <1>5, <1>6, <1>7, <1>8 DEF Next, RestoreStep

\* Checkpoints have distinct numbers and readable before-states, and the
\* one of an edit is in the list as long as nothing is cut.
LEMMA ShapeKept ==
  ASSUME IInv, Bookkeeping, [Next]_vars
  PROVE  Shape'
  <1> USE DEF Shape, EditSteps, RestoreSteps, manager, bounds, history, locals
  <1>0. Shape /\ InEdit /\ Numbered /\ TypeOK /\ Phases /\ InRestore
    BY DEF Bookkeeping, IInv
  <1>1. ASSUME NEW p \in Paths, Capture(p) PROVE Shape'
    <2>1. checkpoints' \subseteq checkpoints \cup {Snapshot(p)}
      BY <1>1 DEF Capture, Trim
    <2>2. IsFiniteSet(checkpoints')
      BY <1>0, <2>1, FS_AddElement, FS_Subset
    <2>3. \A c, d \in checkpoints' : c.id = d.id => c = d
      BY <1>0, <2>1, SnapshotFields DEF TypeOK, Checkpoint, Numbered
    <2>4. ~trimmed' => Snapshot(p) \in checkpoints'
      BY <1>0, <1>1, CaptureAdds
    <2>5. QED
      BY <1>0, <1>1, <2>1, <2>2, <2>3, <2>4, SnapshotRest DEF Capture
  <1>2. ASSUME AbandonEdit \/ ToolWriteFault \/ VerifyFails \/ SealFails
        PROVE  Shape'
    <2>1. checkpoints' = checkpoints \ {cp} /\ IsFiniteSet(checkpoints \ {cp})
      BY <1>0, <1>2, FS_RemoveElement
         DEF AbandonEdit, ToolWriteFault, VerifyFails, SealFails, Discard
    <2>2. QED
      BY <1>0, <1>2, <2>1
         DEF AbandonEdit, ToolWriteFault, VerifyFails, SealFails, EndOperation
  <1>3. ASSUME PassConflictCheck \/ ToolRead \/ ToolWrite \/ VerifyPasses
               \/ RecordEdit \/ CancelAfterEdit
        PROVE  Shape'
    BY <1>0, <1>3
       DEF PassConflictCheck, ToolRead, ToolWrite, VerifyPasses, RecordEdit,
           CancelAfterEdit, EndOperation
  <1>4. ASSUME SealCheckpoint PROVE Shape'
    <2> DEFINE s == Sealed(cp, TextOf(disk[Target]))
    <2>1. cp \in Checkpoint /\ TextOf(disk[Target]) \in Raw
      BY <1>0, <1>4, TargetType, TextOfFile DEF SealCheckpoint, TypeOK
    <2>2. s.id = cp.id /\ s.before = cp.before
      BY <2>1, SealedFields, SealedRest
    <2>3. checkpoints' = (checkpoints \ {cp}) \cup {s}
      BY <1>4 DEF SealCheckpoint
    <2>4. IsFiniteSet(checkpoints')
      BY <1>0, <2>3, FS_AddElement, FS_RemoveElement
    <2> HIDE DEF s
    <2>5. \A c \in checkpoints \ {cp} : c.id < cp.id
      BY <1>0, <1>4 DEF SealCheckpoint, InEdit
    <2>6. QED
      BY <1>0, <1>4, <2>1, <2>2, <2>3, <2>4, <2>5
         DEF SealCheckpoint, TypeOK, Checkpoint
  <1>5. ASSUME ConfirmRollback \/ ConfirmUndo PROVE Shape'
    <2>1. cp \in checkpoints /\ cp \in Checkpoint /\ pc = "confirm"
      BY <1>0, <1>5 DEF ConfirmRollback, ConfirmUndo, InRestore, TypeOK
    <2>2. RolledBack(cp).id = cp.id /\ RolledBack(cp).before = cp.before
      BY <2>1, RolledBackFields, RolledBackRest
    <2>3. checkpoints' = (checkpoints \ {cp}) \cup {RolledBack(cp)}
      BY <1>5 DEF ConfirmRollback, ConfirmUndo, MarkRolledBack
    <2>4. IsFiniteSet(checkpoints')
      BY <1>0, <2>3, FS_AddElement, FS_RemoveElement
    <2>5. pc' \notin EditSteps
      BY <1>5 DEF ConfirmRollback, ConfirmUndo, Advance, Finish, EndOperation
    <2>6. QED
      BY <1>0, <2>1, <2>2, <2>3, <2>4, <2>5
  <1>6. ASSUME BeginTask PROVE Shape'
    BY <1>0, <1>6, FS_EmptySet DEF BeginTask
  <1>7. ASSUME RestoreStep, ~ConfirmRollback, ~ConfirmUndo PROVE Shape'
    BY <1>0, <1>7
       DEF RestoreStep, GuardRefuses, GuardPasses, RestoreBefore, RestoreFault,
           ConfirmFails, PreflightRefuses, PreflightPasses, BeginRestores,
           FailRestore, Advance, Finish, EndOperation
  <1>8. ASSUME StartRollback \/ EndTask \/ UndoTrimmed \/ StartUndo
               \/ NoticeExternalChange \/ (\E f \in Files : UserWrite(f))
               \/ UNCHANGED vars
        PROVE  Shape'
    BY <1>0, <1>8
       DEF StartRollback, EndTask, UndoTrimmed, StartUndo,
           NoticeExternalChange, UserWrite, vars
  <1>9. QED
    BY <1>1, <1>2, <1>3, <1>4, <1>5, <1>6, <1>7, <1>8 DEF Next, EditStep

\* Rollback and undo go through the live edits from the newest down.
LEMMA OrderKept ==
  ASSUME IInv, Bookkeeping, [Next]_vars
  PROVE  Order'
  <1> USE DEF Order, EditSteps, RestoreSteps, manager, bounds, history, locals
  <1>0. Order /\ Phases /\ Shape /\ Numbered /\ RevisionNamesOneEdit
        /\ TypeOK /\ Live \subseteq checkpoints
    BY DEF Bookkeeping, IInv, Live
  <1>1. ASSUME pc' \notin RestoreSteps \cup {"preflight"} PROVE Order'
    BY <1>1, NextInv DEF IInv, InRestore
  <1>2. ASSUME Live' = Live, cp' = cp, kind' = kind, todo' = todo,
               pc \in RestoreSteps, pc' \in RestoreSteps
        PROVE  Order'
    BY <1>0, <1>2 DEF IsNewest
  <1>3. ASSUME StartRollback PROVE Order'
    <2>1. \A d \in checkpoints : d.id <= cp'.id
      BY <1>0, <1>3
         DEF StartRollback, Live, IsNewest, TypeOK, Checkpoint, Numbered,
             RevisionNamesOneEdit, Phases
    <2>2. Live' = Live /\ cp' \in Live
      BY <1>3 DEF StartRollback, Live
    <2>3. QED
      BY <1>0, <1>3, <2>1, <2>2 DEF StartRollback, IsNewest
  <1>4. ASSUME StartUndo PROVE Order'
    <2>1. Live' = Live
      BY <1>4 DEF StartUndo, Live
    <2>2. QED
      BY <1>4, <2>1 DEF StartUndo
  <1>5. ASSUME PreflightPasses PROVE Order'
    <2>1. Live' = Live
      BY <1>5 DEF PreflightPasses, Live
    <2>2. PICK c \in todo : IsNewest(c, todo) /\ todo' = todo \ {c}
      BY <1>5 DEF PreflightPasses
    <2>3. \A d \in todo \ {c} : d.id < c.id
      BY <1>0, <1>5, <2>2 DEF PreflightPasses, IsNewest, Shape, TypeOK,
                              Checkpoint
    <2>4. QED
      BY <1>0, <1>5, <2>1, <2>2, <2>3 DEF PreflightPasses
  <1>6. ASSUME BeginRestores PROVE Order'
    <2>1. Live' = Live
      BY <1>6 DEF BeginRestores, Live
    <2>2. QED
      BY <1>6, <2>1 DEF BeginRestores, Advance, Finish, EndOperation
  <1>7. ASSUME ConfirmUndo PROVE Order'
    <2>1. Live' = todo
      BY <1>0, <1>7, LiveRolledBack DEF ConfirmUndo, Order
    <2>2. QED
      BY <1>7, <2>1 DEF ConfirmUndo, Advance, Finish, EndOperation
  <1>8. ASSUME GuardPasses \/ RestoreBefore PROVE Order'
    <2>1. Live' = Live
      BY <1>8 DEF GuardPasses, RestoreBefore, Live
    <2>2. QED
      BY <1>2, <1>8, <2>1 DEF GuardPasses, RestoreBefore
  <1>9. ASSUME GuardRefuses \/ RestoreFault \/ ConfirmFails
               \/ ConfirmRollback \/ PreflightRefuses
        PROVE  Order'
    BY <1>1, <1>9
       DEF GuardRefuses, RestoreFault, ConfirmFails, ConfirmRollback,
           PreflightRefuses, FailRestore, Finish, EndOperation
  <1>10. ASSUME NEW p \in Paths, Capture(p) PROVE Order'
    BY <1>1, <1>10 DEF Capture
  <1>11. ASSUME EditStep PROVE Order'
    BY <1>1, <1>11
       DEF EditStep, AbandonEdit, PassConflictCheck, ToolRead, ToolWrite,
           ToolWriteFault, VerifyFails, VerifyPasses, SealCheckpoint, SealFails,
           RecordEdit, CancelAfterEdit, EndOperation
  <1>12. ASSUME EndTask \/ UndoTrimmed \/ NoticeExternalChange \/ BeginTask
         PROVE  Order'
    BY <1>1, <1>12 DEF EndTask, UndoTrimmed, NoticeExternalChange, BeginTask
  <1>13. ASSUME (\E f \in Files : UserWrite(f)) \/ UNCHANGED vars
         PROVE  Order'
    <2>1. Live' = Live
      BY <1>13 DEF UserWrite, vars, Live
    <2>2. QED
      BY <1>0, <1>13, <2>1 DEF UserWrite, vars, IsNewest
  <1>14. QED
    BY <1>3, <1>4, <1>5, <1>6, <1>7, <1>8, <1>9, <1>10, <1>11, <1>12, <1>13
       DEF Next, RestoreStep

\* All three together.
LEMMA BookkeepingKept ==
  ASSUME IInv, Bookkeeping, [Next]_vars
  PROVE  Bookkeeping'
  BY PhasesKept, ShapeKept, OrderKept DEF Bookkeeping

\* Files only become suspect while a task lasts.
LEMMA CleanKept ==
  ASSUME [Next]_vars, ~BeginTask, NEW f \in Files, Clean(f)'
  PROVE  Clean(f)
  <1> USE DEF Clean, manager, bounds, history
  <1>1. ASSUME NEW p \in Paths, Capture(p) PROVE Clean(f)
    BY <1>1 DEF Capture, HistoryTrimmed
  <1>2. ASSUME EditStep PROVE Clean(f)
    BY <1>2
       DEF EditStep, AbandonEdit, PassConflictCheck, ToolRead, ToolWrite,
           ToolWriteFault, VerifyFails, VerifyPasses, SealCheckpoint, SealFails,
           RecordEdit, CancelAfterEdit
  <1>3. ASSUME RestoreStep PROVE Clean(f)
    BY <1>3
       DEF RestoreStep, GuardRefuses, GuardPasses, RestoreBefore, RestoreFault,
           ConfirmFails, ConfirmRollback, ConfirmUndo, PreflightRefuses,
           PreflightPasses, BeginRestores
  <1>4. ASSUME StartRollback \/ EndTask \/ UndoTrimmed \/ StartUndo
               \/ NoticeExternalChange \/ (\E g \in Files : UserWrite(g))
               \/ UNCHANGED vars
        PROVE  Clean(f)
    BY <1>4
       DEF StartRollback, EndTask, UndoTrimmed, StartUndo,
           NoticeExternalChange, UserWrite, vars
  <1>5. QED
    BY <1>1, <1>2, <1>3, <1>4 DEF Next

\* An undo renames nothing.
LEMMA SpellingKept ==
  ASSUME IInv, Bookkeeping, [Next]_vars, pc \in RestoreSteps \cup {"preflight"},
         OneSpelling'
  PROVE  OneSpelling
  <1>1. CASE checkpoints' = checkpoints
    BY <1>1 DEF OneSpelling
  <1>2. CASE ConfirmRollback \/ ConfirmUndo
    <2>1. cp \in Checkpoint /\ cp \in checkpoints
      BY <1>2 DEF ConfirmRollback, ConfirmUndo, IInv, InRestore, TypeOK,
                  RestoreSteps
    <2>2. checkpoints' = (checkpoints \ {cp}) \cup {RolledBack(cp)}
          /\ RolledBack(cp).path = cp.path
      BY <1>2, <2>1, RolledBackFields
         DEF ConfirmRollback, ConfirmUndo, MarkRolledBack
    <2> HIDE DEF RolledBack
    <2>3. QED
      BY <2>1, <2>2 DEF OneSpelling
  <1>3. ASSUME RestoreStep PROVE OneSpelling
    BY <1>1, <1>2, <1>3
       DEF RestoreStep, GuardRefuses, GuardPasses, RestoreBefore, RestoreFault,
           ConfirmFails, PreflightRefuses, PreflightPasses, BeginRestores,
           manager
  <1>4. ASSUME (\E g \in Files : UserWrite(g)) \/ UNCHANGED vars
        PROVE  OneSpelling
    BY <1>1, <1>4 DEF UserWrite, vars, manager
  <1>5. QED
    BY <1>3, <1>4
       DEF Next, Capture, EditStep, AbandonEdit, PassConflictCheck, ToolRead,
           ToolWrite, ToolWriteFault, VerifyFails, VerifyPasses,
           SealCheckpoint, SealFails, RecordEdit, CancelAfterEdit,
           StartRollback, EndTask, UndoTrimmed, StartUndo, BeginTask,
           NoticeExternalChange, RestoreSteps

\* What is trusted in the middle of an undo was so a step before.
LEMMA ProbedKept ==
  ASSUME IInv, Bookkeeping, [Next]_vars, Probed', ~StartUndo
  PROVE  Probed /\ pc \in RestoreSteps \cup {"preflight"}
  <1> USE DEF locals, history, RestoreSteps
  <1>1. kind = "undo" /\ ~disturbed /\ pc \in RestoreSteps \cup {"preflight"}
    <2>1. ASSUME EditStep PROVE FALSE
      BY <2>1
         DEF EditStep, AbandonEdit, PassConflictCheck, ToolRead,
             ToolWrite, ToolWriteFault, VerifyFails, VerifyPasses,
             SealCheckpoint, SealFails, RecordEdit, CancelAfterEdit,
             EndOperation, Probed, Bookkeeping, Phases, EditSteps
    <2>2. ASSUME RestoreStep PROVE kind = "undo" /\ ~disturbed
      BY <2>2
         DEF RestoreStep, GuardRefuses, GuardPasses, RestoreBefore,
             RestoreFault, ConfirmFails, ConfirmRollback, ConfirmUndo,
             PreflightRefuses, PreflightPasses, BeginRestores, FailRestore,
             Advance, Finish, EndOperation, Probed, Bookkeeping, Phases
    <2>3. ASSUME (\E p \in Paths : Capture(p)) \/ StartRollback \/ EndTask
                 \/ UndoTrimmed \/ BeginTask \/ NoticeExternalChange
          PROVE  FALSE
      BY <2>3
         DEF Capture, StartRollback, EndTask, UndoTrimmed, BeginTask,
             NoticeExternalChange, Probed, Bookkeeping, Phases
    <2>4. ASSUME (\E g \in Files : UserWrite(g)) \/ UNCHANGED vars
          PROVE  kind = "undo" /\ ~disturbed
      BY <2>4 DEF UserWrite, vars, Probed
    <2>5. kind = "undo" /\ ~disturbed
      BY <2>1, <2>2, <2>3, <2>4 DEF Next
    <2>6. pc \in RestoreSteps \cup {"preflight"}
      BY <2>5 DEF Bookkeeping, Phases, IInv, TypeOK, EditSteps
    <2>7. QED
      BY <2>5, <2>6
  <1>2. OneSpelling
    BY <1>1, SpellingKept DEF Probed
  <1>3. QED
    BY <1>1, <1>2 DEF Probed

\* A file comes to be trusted only at the start of a task or of the restores.
LEMMA TrustedKept ==
  ASSUME IInv, Bookkeeping, [Next]_vars, ~BeginTask, ~BeginRestores,
         NEW f \in Files, Trusted(f)'
  PROVE  Trusted(f)
  <1>1. CASE Clean(f)'
    BY <1>1, CleanKept DEF Trusted
  <1>2. CASE Probed' /\ pc' \in RestoreSteps
    <2>1. ~StartUndo
      BY <1>2 DEF StartUndo, RestoreSteps
    <2>2. Probed /\ pc \in RestoreSteps \cup {"preflight"}
      BY <1>2, <2>1, ProbedKept
    <2>3. pc # "preflight"
      BY <1>2
         DEF RestoreSteps, EditSteps, Next, Capture, EditStep, AbandonEdit,
             PassConflictCheck, ToolRead, ToolWrite, ToolWriteFault,
             VerifyFails, VerifyPasses, SealCheckpoint, SealFails, RecordEdit,
             CancelAfterEdit, RestoreStep, GuardRefuses, GuardPasses,
             RestoreBefore, RestoreFault, ConfirmFails, ConfirmRollback,
             ConfirmUndo, PreflightRefuses, PreflightPasses, Finish,
             EndOperation, StartRollback, EndTask, UndoTrimmed, StartUndo,
             NoticeExternalChange, UserWrite, vars
    <2>4. QED
      BY <2>2, <2>3 DEF Trusted
  <1>3. QED
    BY <1>1, <1>2 DEF Trusted

\* A chain stays as it is while neither its edits nor its end change.
LEMMA ChainRests ==
  ASSUME IInv, Bookkeeping, Chained, [Next]_vars, ~BeginTask, ~BeginRestores,
         NEW f \in Files,
         Trusted(f)' => /\ LiveOf(f)' = LiveOf(f)
                        /\ Held(f)' = Held(f) /\ base'[f] = base[f]
  PROVE  ChainedAt(f)'
  <1> SUFFICES ASSUME Trusted(f)' PROVE ChainedAt(f)'
    BY DEF ChainedAt, Trusted
  <1>1. ChainedAt(f) /\ Trusted(f)
    BY TrustedKept DEF Chained
  <1>2. LiveOf(f)' = LiveOf(f) /\ Held(f)' = Held(f)
    OBVIOUS
  <1>3. Linked(LiveOf(f), Held(f))'
    BY <1>1, <1>2 DEF ChainedAt, Linked, NewestAfter
  <1>4. Clean(f)' => Rooted(LiveOf(f), Held(f), TextOf(base[f]))'
    <2>1. Clean(f)' => Clean(f)
      BY CleanKept
    <2>2. base'[f] = base[f]
      OBVIOUS
    <2>3. QED
      BY <1>1, <1>2, <2>1, <2>2 DEF ChainedAt, Rooted, OldestBefore, TextOf
  <1>5. QED
    BY <1>3, <1>4 DEF ChainedAt

\* Where no operation holds the text, the chain ends in the file's text.
LEMMA HeldText ==
  ASSUME pc \notin {"read", "write", "verify", "seal", "confirm"}
  PROVE  \A f \in Files : Held(f) = TextOf(disk[f])
  BY DEF Held

\* The steps of an edit keep every chain, and a seal extends one.
LEMMA EditChained ==
  ASSUME IInv, Bookkeeping, Chained, Windows, [Next]_vars, EditStep
  PROVE  Chained'
  <1> SUFFICES ASSUME NEW f \in Files PROVE ChainedAt(f)'
    BY DEF Chained
  <1> USE DEF manager, bounds, history, locals, EditSteps
  <1>0. cp \in Checkpoint /\ Target \in Files /\ disk \in [Files -> Stored]
        /\ pc \in EditSteps /\ kind = "edit" /\ pc \notin RestoreSteps
    BY TargetType
       DEF EditStep, AbandonEdit, PassConflictCheck, ToolRead, ToolWrite,
           ToolWriteFault, VerifyFails, VerifyPasses, SealCheckpoint, SealFails,
           RecordEdit, CancelAfterEdit, IInv, TypeOK, Bookkeeping, Phases,
           RestoreSteps
  <1>1. ~BeginTask /\ ~BeginRestores /\ ~ConfirmRollback /\ ~ConfirmUndo
    BY <1>0 DEF BeginTask, BeginRestores, ConfirmRollback, ConfirmUndo
  <1>2. Trusted(f)' => Clean(f)' /\ Clean(f) /\ ~trimmed'
    <2>1. kind' # "undo"
      BY <1>0
         DEF EditStep, AbandonEdit, PassConflictCheck, ToolRead, ToolWrite,
             ToolWriteFault, VerifyFails, VerifyPasses, SealCheckpoint,
             SealFails, RecordEdit, CancelAfterEdit, EndOperation
    <2>2. Trusted(f)' => Clean(f)'
      BY <2>1 DEF Trusted, Probed
    <2>3. QED
      BY <1>0, <1>1, <2>2, CleanKept DEF Clean
  <1>3. Trusted(f)' /\ ~SealCheckpoint => LiveOf(f)' = LiveOf(f)
    BY <1>1, <1>2, LiveKept DEF LiveOf
  <1>4. base'[f] = base[f]
    BY DEF EditStep, AbandonEdit, PassConflictCheck, ToolRead, ToolWrite,
           ToolWriteFault, VerifyFails, VerifyPasses, SealCheckpoint, SealFails,
           RecordEdit, CancelAfterEdit
  <1>5. ASSUME ~SealCheckpoint, Trusted(f)' => Held(f)' = Held(f)
        PROVE  ChainedAt(f)'
    BY <1>1, <1>3, <1>4, <1>5, ChainRests
  <1>6. CASE AbandonEdit
    <2>1. Held(f)' = TextOf(disk[f]) /\ ~SealCheckpoint
      BY <1>6 DEF AbandonEdit, EndOperation, Held, TextOf, SealCheckpoint
    <2>2. Trusted(f)' => Held(f) = TextOf(disk[f])
      BY <1>2, <1>6 DEF AbandonEdit, Held, Windows
    <2>3. QED
      BY <1>5, <2>1, <2>2
  <1>7. CASE PassConflictCheck
    BY <1>5, <1>7
       DEF PassConflictCheck, Held, Target, TextOf, SealCheckpoint
  <1>8. CASE ToolRead \/ VerifyPasses
    BY <1>5, <1>8
       DEF ToolRead, VerifyPasses, Held, Target, TextOf, SealCheckpoint
  <1>9. CASE ToolWrite
    BY <1>0, <1>5, <1>9
       DEF ToolWrite, Held, Target, TextOf, SealCheckpoint
  <1>10. CASE ToolWriteFault \/ VerifyFails \/ SealFails
    <2>1. Trusted(f)' => f # Target
      BY <1>2, <1>10 DEF ToolWriteFault, VerifyFails, SealFails, Clean
    <2>2. f # Target => Held(f) = TextOf(disk[f]) /\ disk'[f] = disk[f]
      BY <1>0, <1>10
         DEF ToolWriteFault, VerifyFails, SealFails, Held, RestoreSteps
    <2>3. f # Target => Held(f)' = TextOf(disk'[f])
      BY <1>10
         DEF ToolWriteFault, VerifyFails, SealFails, EndOperation, Held, TextOf
    <2>4. ~SealCheckpoint
      BY <1>10
         DEF ToolWriteFault, VerifyFails, SealFails, SealCheckpoint
    <2>5. QED
      BY <1>5, <2>1, <2>2, <2>3, <2>4
  <1>11. CASE RecordEdit \/ CancelAfterEdit
    BY <1>5, <1>11
       DEF RecordEdit, CancelAfterEdit, EndOperation, Held, TextOf,
           SealCheckpoint
  <1>12. CASE SealCheckpoint
    <2> DEFINE t == TextOf(disk[Target])
               s == Sealed(cp, t)
    <2>1. t \in Raw /\ s \in Checkpoint
      BY <1>0, <1>12, TextOfFile, SealedType DEF SealCheckpoint, IInv, TypeOK
    <2>2. /\ s.id = cp.id /\ s.path = cp.path /\ s.after = t
          /\ s.before = cp.before
      BY <1>0, <2>1, SealedFields, SealedRest
    <2>3. Live' = Live \cup {s}
      BY <1>12, LiveSealed
    <2>4. Held(f)' = TextOf(disk[f])
      BY <1>12 DEF SealCheckpoint, Held, TextOf
    <2>5. ChainedAt(f)
      BY DEF Chained
    <2> HIDE DEF s
    <2>6. CASE f # Target
      <3>1. LiveOf(f)' = LiveOf(f)
        BY <2>2, <2>3, <2>6 DEF LiveOf, Target
      <3>2. Held(f) = TextOf(disk[f])
        BY <1>12, <2>6 DEF SealCheckpoint, Held
      <3>3. QED
        BY <1>1, <1>4, <2>4, <3>1, <3>2, ChainRests
    <2>7. CASE f = Target /\ Trusted(f)'
      <3>1. LiveOf(f)' = LiveOf(f) \cup {s}
        BY <2>2, <2>3, <2>7 DEF LiveOf, Target
      <3>2. LiveOf(f) \in SUBSET Checkpoint
        BY DEF LiveOf, Live, IInv, TypeOK
      <3>3. \A d \in LiveOf(f) : d.id < s.id
        BY <1>12, <2>2 DEF LiveOf, Live, SealCheckpoint, IInv, InEdit
      <3>4. Held(f) = s.before /\ Held(f)' = s.after
        BY <1>12, <2>2, <2>4, <2>7 DEF SealCheckpoint, Held
      <3>5. Linked(LiveOf(f), Held(f))
            /\ Rooted(LiveOf(f), Held(f), TextOf(base[f]))
        BY <1>2, <2>5, <2>7 DEF ChainedAt, Trusted
      <3>6. Linked(LiveOf(f) \cup {s}, s.after)
        BY <2>1, <3>2, <3>3, <3>4, <3>5, AddNewest
      <3>7. Rooted(LiveOf(f) \cup {s}, s.after, TextOf(base[f]))
        BY <2>1, <3>2, <3>3, <3>4, <3>5, AddNewestRooted
      <3>8. Linked(LiveOf(f), Held(f))'
        BY <3>1, <3>4, <3>6 DEF Linked, NewestAfter
      <3>9. Rooted(LiveOf(f), Held(f), TextOf(base[f]))'
        BY <1>4, <3>1, <3>4, <3>7 DEF Rooted, OldestBefore, TextOf
      <3>10. QED
        BY <3>8, <3>9 DEF ChainedAt
    <2>8. QED
      BY <2>6, <2>7 DEF ChainedAt, Trusted
  <1>13. QED
    BY <1>6, <1>7, <1>8, <1>9, <1>10, <1>11, <1>12 DEF EditStep

\* The steps of a rollback and of an undo keep every chain, and a confirmed
\* one shortens it by its newest edit.
LEMMA RestoreChained ==
  ASSUME IInv, Bookkeeping, Chained, Windows, Probe, [Next]_vars, RestoreStep
  PROVE  Chained'
  <1> SUFFICES ASSUME NEW f \in Files PROVE ChainedAt(f)'
    BY DEF Chained
  <1> USE DEF manager, bounds, history, locals, RestoreSteps
  <1>0. disk \in [Files -> Stored] /\ pc \in RestoreSteps \cup {"preflight"}
        /\ (pc \in RestoreSteps => cp \in Checkpoint /\ cp \in Live
                                   /\ IsNewest(cp, Live) /\ cp \in checkpoints)
    BY DEF RestoreStep, GuardRefuses, GuardPasses, RestoreBefore,
           RestoreFault, ConfirmFails, ConfirmRollback, ConfirmUndo,
           PreflightRefuses, PreflightPasses, BeginRestores, IInv, TypeOK,
           Bookkeeping, Order, IsNewest, InRestore
  <1>1. ~BeginTask /\ ~SealCheckpoint
    BY <1>0 DEF BeginTask, SealCheckpoint
  <1>2. ChainedAt(f) /\ base'[f] = base[f] /\ checkpoints \subseteq Checkpoint
    BY DEF Chained, RestoreStep, GuardRefuses, GuardPasses, RestoreBefore,
           RestoreFault, ConfirmFails, ConfirmRollback, ConfirmUndo,
           PreflightRefuses, PreflightPasses, BeginRestores, IInv, TypeOK
  <1>3. ASSUME ~BeginRestores, Live' = Live, Trusted(f)' => Held(f)' = Held(f)
        PROVE  ChainedAt(f)'
    BY <1>1, <1>2, <1>3, ChainRests DEF LiveOf
  <1>4. ASSUME checkpoints' = checkpoints PROVE Live' = Live
    BY <1>4 DEF Live
  <1>5. CASE GuardPasses \/ PreflightPasses
    BY <1>3, <1>4, <1>5
       DEF GuardPasses, PreflightPasses, BeginRestores, Held, TextOf
  <1>6. CASE GuardRefuses \/ PreflightRefuses
    BY <1>3, <1>4, <1>6
       DEF GuardRefuses, PreflightRefuses, FailRestore, Finish, EndOperation,
           BeginRestores, Held, TextOf
  <1>7. CASE ConfirmFails
    <2>1. ~BeginRestores /\ Live' = Live
      BY <1>4, <1>7 DEF ConfirmFails, BeginRestores
    <2>2. Trusted(f)' => f # Target
      BY <1>1, <1>7, <2>1, TrustedKept DEF ConfirmFails, Windows
    <2>3. /\ Held(f)' = TextOf(disk[f])
          /\ f # Target => Held(f) = TextOf(disk[f])
      BY <1>7
         DEF ConfirmFails, FailRestore, Finish, EndOperation, Held, TextOf
    <2>4. QED
      BY <1>3, <2>1, <2>2, <2>3
  <1>8. CASE RestoreBefore
    <2>1. ~BeginRestores /\ Live' = Live
      BY <1>4, <1>8 DEF RestoreBefore, BeginRestores
    <2>2. Trusted(f)' => Trusted(f)
      BY <1>1, <2>1, TrustedKept
    <2>3. Trusted(f) /\ f = Target => TextOf(disk[f]) = cp.after
      BY <1>0, <1>2, <1>8
         DEF RestoreBefore, ChainedAt, Linked, NewestAfter, LiveOf, Target,
             IsNewest, Held
    <2>4. Held(f) = TextOf(disk[f])
      BY <1>8 DEF RestoreBefore, Held
    <2>5. f = Target => Held(f)' = cp.after
      BY <1>8 DEF RestoreBefore, Held, Target
    <2>6. f # Target => Held(f)' = TextOf(disk[f])
      BY <1>0, <1>8 DEF RestoreBefore, Held, Target, TextOf
    <2>7. QED
      BY <1>3, <2>1, <2>2, <2>3, <2>4, <2>5, <2>6
  <1>9. CASE RestoreFault
    <2>1. ~BeginRestores /\ Live' = Live
      BY <1>4, <1>9 DEF RestoreFault, BeginRestores
    <2>2. Trusted(f)' => f # Target
      BY <1>9 DEF RestoreFault, Trusted, Clean, Probed
    <2>3. f # Target => Held(f)' = TextOf(disk[f])
      BY <1>0, <1>9
         DEF RestoreFault, FailRestore, Finish, EndOperation, Held, TextOf,
             Target
    <2>4. Held(f) = TextOf(disk[f])
      BY <1>9 DEF RestoreFault, Held
    <2>5. QED
      BY <1>3, <2>1, <2>2, <2>3, <2>4
  <1>10. CASE ConfirmRollback \/ ConfirmUndo
    <2>1. Live' = Live \ {cp} /\ pc = "confirm"
      BY <1>10, LiveRolledBack DEF ConfirmRollback, ConfirmUndo
    <2>2. ~BeginRestores
      BY <2>1 DEF BeginRestores
    <2>3. Held(f)' = TextOf(disk[f]) /\ TextOf(disk[Target]) = cp.before
      BY <1>10
         DEF ConfirmRollback, ConfirmUndo, Advance, Finish, EndOperation,
             Held, TextOf
    <2>4. CASE f # Target
      <3>1. LiveOf(f)' = LiveOf(f)
        BY <2>1, <2>4 DEF LiveOf, Target
      <3>2. Held(f) = TextOf(disk[f])
        BY <2>1, <2>4 DEF Held
      <3>3. QED
        BY <1>1, <1>2, <2>2, <2>3, <3>1, <3>2, ChainRests
    <2>5. CASE f = Target /\ Trusted(f)'
      <3>1. LiveOf(f)' = LiveOf(f) \ {cp}
        BY <2>1 DEF LiveOf
      <3>2. LiveOf(f) \in SUBSET Checkpoint /\ cp \in LiveOf(f)
            /\ IsNewest(cp, LiveOf(f))
            /\ \A d \in LiveOf(f) : d.id = cp.id => d = cp
        BY <1>0, <1>2, <2>1, <2>5
           DEF LiveOf, Live, IsNewest, Target, Bookkeeping, Shape
      <3>3. Trusted(f) /\ (Clean(f)' => Clean(f))
        BY <1>1, <2>2, <2>5, TrustedKept, CleanKept
      <3>4. Linked(LiveOf(f) \ {cp}, cp.before)
        BY <1>2, <3>2, <3>3, DropNewest DEF ChainedAt
      <3>5. Clean(f) => Rooted(LiveOf(f) \ {cp}, cp.before, TextOf(base[f]))
        BY <1>2, <3>2, DropNewestRooted DEF ChainedAt
      <3>6. Linked(LiveOf(f), Held(f))'
        BY <2>3, <2>5, <3>1, <3>4 DEF Linked, NewestAfter
      <3>7. Clean(f) => Rooted(LiveOf(f), Held(f), TextOf(base[f]))'
        BY <1>2, <2>3, <2>5, <3>1, <3>5 DEF Rooted, OldestBefore, TextOf
      <3>8. QED
        BY <3>3, <3>6, <3>7 DEF ChainedAt
    <2>6. QED
      BY <2>4, <2>5 DEF ChainedAt, Trusted
  <1>11. CASE BeginRestores
    <2>1. Live' = Live /\ LiveOf(f)' = LiveOf(f)
      BY <1>4, <1>11 DEF BeginRestores, LiveOf, Live
    <2>2. Held(f)' = TextOf(disk[f]) /\ Held(f) = TextOf(disk[f])
      BY <1>11 DEF BeginRestores, Advance, Finish, EndOperation, Held, TextOf
    <2>3. Clean(f)' => Clean(f)
      BY <1>1, CleanKept
    <2>4. ASSUME Probed', LiveOf(f) # {}
          PROVE  Linked(LiveOf(f), TextOf(disk[f]))
      <3>1. ~StartUndo
        BY <1>0 DEF StartUndo
      <3>2. Probed
        BY <2>4, <3>1, ProbedKept
      <3>3. PICK c \in LiveOf(f) : TRUE
        BY <2>4
      <3>4. c.path \in Paths /\ FileOf[c.path] = f /\ Live \ todo = Live
        BY <1>2, <1>11 DEF LiveOf, Live, Checkpoint, BeginRestores
      <3>5. LiveOf(f) = Seen(c.path)
        BY <3>2, <3>3, <3>4 DEF LiveOf, Seen, Probed, OneSpelling, Live
      <3>6. Linked(Seen(c.path), TextOf(At(c.path)))
        BY <1>11, <3>2, <3>4 DEF Probe, BeginRestores
      <3>7. QED
        BY <3>4, <3>5, <3>6 DEF At
    <2>5. LiveOf(f) = {} => Linked(LiveOf(f), TextOf(disk[f]))
      BY DEF Linked, NewestAfter
    <2>6. Clean(f) => Linked(LiveOf(f), TextOf(disk[f]))
      BY <1>2, <2>2 DEF ChainedAt, Trusted
    <2>7. Trusted(f)' => Linked(LiveOf(f), TextOf(disk[f]))
      BY <2>3, <2>4, <2>5, <2>6 DEF Trusted
    <2>8. Trusted(f)' => Linked(LiveOf(f), Held(f))'
      BY <2>1, <2>2, <2>7 DEF Linked, NewestAfter
    <2>9. Clean(f)' => Rooted(LiveOf(f), Held(f), TextOf(base[f]))'
      BY <1>2, <2>1, <2>2, <2>3 DEF ChainedAt, Rooted, OldestBefore, TextOf
    <2>10. QED
      BY <2>8, <2>9 DEF ChainedAt
  <1>12. QED
    BY <1>5, <1>6, <1>7, <1>8, <1>9, <1>10, <1>11 DEF RestoreStep

\* The user's writes make a file suspect, or move its base along.
LEMMA UserChained ==
  ASSUME IInv, Bookkeeping, Chained, [Next]_vars, NEW g \in Files, UserWrite(g)
  PROVE  Chained'
  <1> SUFFICES ASSUME NEW f \in Files PROVE ChainedAt(f)'
    BY DEF Chained
  <1> USE DEF manager, locals, EditSteps, RestoreSteps
  <1>1. Live' = Live /\ LiveOf(f)' = LiveOf(f)
    BY DEF UserWrite, Live, LiveOf
  <1>2. ~BeginTask /\ ~BeginRestores
    BY DEF UserWrite, BeginTask, BeginRestores, bounds
  <1>3. CASE f # g
    <2>1. disk'[f] = disk[f] /\ base'[f] = base[f]
      BY <1>3 DEF UserWrite, IInv, TypeOK
    <2>2. Held(f)' = Held(f)
      BY <2>1 DEF UserWrite, Held, Target, TextOf
    <2>3. QED
      BY <1>1, <1>2, <2>1, <2>2, ChainRests
  <1>4. CASE f = g
    <2>1. SUFFICES ASSUME Trusted(f)' PROVE ChainedAt(f)'
      BY DEF ChainedAt, Trusted
    <2>2. ~AgentHasEdited(f)
      BY <1>4, <2>1 DEF UserWrite, Trusted, Probed, Clean
    <2>3. disk'[f] = base'[f]
      BY <1>4, <2>2 DEF UserWrite, IInv, TypeOK
    <2>4. LiveOf(f) = {}
      BY <2>2 DEF AgentHasEdited, LiveOf, Live
    <2>5. /\ ~trimmed
          /\ \A c \in checkpoints :
                FileOf[c.path] = f => ~c.sealed /\ pc = "check"
      BY <2>2 DEF AgentHasEdited
    <2>6. pc \in {"read", "write", "verify", "seal", "confirm"}
             => cp \in checkpoints
      BY <2>5 DEF Bookkeeping, Shape, IInv, InRestore
    <2>7. Held(f)' = TextOf(base[f])'
      <3>1. pc \in {"read", "write", "verify", "seal", "confirm"} => f # Target
        BY <2>5, <2>6 DEF Target
      <3>2. pc' = pc /\ Target' = Target
        BY DEF UserWrite, Target
      <3>3. Held(f)' = TextOf(disk[f])'
        BY <3>1, <3>2 DEF Held
      <3>4. QED
        BY <2>3, <3>3 DEF TextOf
    <2>8. Linked(LiveOf(f), Held(f))'
      BY <1>1, <2>4 DEF Linked, NewestAfter
    <2>9. Rooted(LiveOf(f), Held(f), TextOf(base[f]))'
      BY <1>1, <2>4, <2>7 DEF Rooted, OldestBefore
    <2>10. QED
      BY <2>8, <2>9 DEF ChainedAt
  <1>5. QED
    BY <1>3, <1>4

\* Every step keeps the chains.
LEMMA ChainedKept ==
  ASSUME IInv, Bookkeeping, Chained, Windows, Probe, [Next]_vars
  PROVE  Chained'
  <1> USE DEF manager, bounds, history, locals
  <1>1. ASSUME EditStep PROVE Chained'
    BY <1>1, EditChained
  <1>2. ASSUME RestoreStep PROVE Chained'
    BY <1>2, RestoreChained
  <1>3. ASSUME NEW g \in Files, UserWrite(g) PROVE Chained'
    BY <1>3, UserChained
  <1>4. ASSUME BeginTask PROVE Chained'
    <2> SUFFICES ASSUME NEW f \in Files PROVE ChainedAt(f)'
      BY DEF Chained
    <2>1. LiveOf(f)' = {}
      BY <1>4 DEF BeginTask, LiveOf, Live
    <2>2. Held(f)' = TextOf(base[f])'
      BY <1>4 DEF BeginTask, Held, TextOf
    <2>3. QED
      BY <2>1, <2>2 DEF ChainedAt, Linked, Rooted, NewestAfter, OldestBefore
  <1>5. ASSUME (\E p \in Paths : Capture(p)) \/ StartRollback \/ EndTask
               \/ UndoTrimmed \/ StartUndo \/ NoticeExternalChange
        PROVE  Chained'
    <2> SUFFICES ASSUME NEW f \in Files PROVE ChainedAt(f)'
      BY DEF Chained
    <2>1. ~BeginTask /\ ~BeginRestores /\ ~SealCheckpoint /\ ~ConfirmRollback
          /\ ~ConfirmUndo
      BY <1>5
         DEF Capture, StartRollback, EndTask, UndoTrimmed, StartUndo,
             NoticeExternalChange, BeginTask, BeginRestores, SealCheckpoint,
             ConfirmRollback, ConfirmUndo, Bookkeeping, Phases
    <2>2. disk' = disk /\ base' = base
      BY <1>5 DEF Capture, StartRollback, EndTask, UndoTrimmed, StartUndo,
                  NoticeExternalChange
    <2>3. Held(f)' = TextOf(disk[f]) /\ Held(f) = TextOf(disk[f])
      BY <1>5 DEF Capture, StartRollback, EndTask, UndoTrimmed, StartUndo,
                  NoticeExternalChange, Held, TextOf
    <2>4. Trusted(f)' => LiveOf(f)' = LiveOf(f)
      <3>1. CASE ~trimmed'
        BY <2>1, <3>1, LiveKept DEF LiveOf
      <3>2. CASE trimmed'
        <4>1. Trusted(f)' => Trusted(f) /\ Probed'
          BY <2>1, <3>2, TrustedKept DEF Trusted, Clean
        <4>2. ~Probed'
          BY <1>5, <3>2, PhasesKept DEF Probed, Phases
        <4>3. QED
          BY <4>1, <4>2
      <3>3. QED
        BY <3>1, <3>2
    <2>5. QED
      BY <2>1, <2>2, <2>3, <2>4, ChainRests
  <1>6. CASE UNCHANGED vars
    <2> SUFFICES ASSUME NEW f \in Files PROVE ChainedAt(f)'
      BY DEF Chained
    <2>1. ChainedAt(f)
      BY DEF Chained
    <2>2. Live' = Live /\ LiveOf(f)' = LiveOf(f) /\ Held(f)' = Held(f)
      BY <1>6 DEF vars, LiveOf, Live, Held, Target, TextOf
    <2>3. Trusted(f)' = Trusted(f) /\ Clean(f)' = Clean(f) /\ base'[f] = base[f]
      BY <1>6 DEF vars, Trusted, Clean, Probed, OneSpelling
    <2>4. QED
      BY <2>1, <2>2, <2>3
         DEF ChainedAt, Linked, Rooted, NewestAfter, OldestBefore, TextOf
  <1>7. QED
    BY <1>1, <1>2, <1>3, <1>4, <1>5, <1>6 DEF Next

\* Between the conflict check and the write, and after a restore, a file
\* nobody else wrote holds the before-state of the edit at hand.
LEMMA WindowsKept ==
  ASSUME IInv, Bookkeeping, Windows, [Next]_vars
  PROVE  Windows'
  <1> USE DEF Windows, manager, bounds, history, locals, EditSteps, RestoreSteps
  <1>0. Windows /\ TypeOK
    BY DEF IInv
  <1>1. SUFFICES ASSUME pc' \in {"read", "write", "confirm"} PROVE Windows'
    OBVIOUS
  <1>2. ASSUME pc' = pc \/ (pc = "read" /\ pc' = "write"), cp' = cp,
               disk'[Target] = disk[Target], Target \in Files
        PROVE  Windows'
    <2>1. ~BeginTask /\ ~BeginRestores
      BY <1>1, <1>2 DEF BeginTask, BeginRestores
    <2>2. Target' = Target
      BY <1>2 DEF Target
    <2>3. /\ Clean(Target)' => Clean(Target)
          /\ Trusted(Target)' => Trusted(Target)
      <3>1. PICK g \in Files : g = Target
        BY <1>2
      <3>2. (Clean(g)' => Clean(g)) /\ (Trusted(g)' => Trusted(g))
        BY <2>1, CleanKept, TrustedKept
      <3>3. QED
        BY <2>2, <3>1, <3>2 DEF Clean, Trusted
    <2>4. QED
      BY <1>0, <1>1, <1>2, <2>2, <2>3 DEF TextOf
  <1>3. ASSUME PassConflictCheck PROVE Windows'
    BY <1>3 DEF PassConflictCheck, Target, TextOf
  <1>4. ASSUME ToolRead PROVE Windows'
    BY <1>0, <1>2, <1>4, TargetType DEF ToolRead
  <1>5. ASSUME RestoreBefore PROVE Windows'
    <2>1. cp \in checkpoints /\ Target \in Files /\ disk \in [Files -> Stored]
      BY <1>0, <1>5, TargetType DEF RestoreBefore, IInv, InRestore, TypeOK
    <2>2. TextOf(cp.before) = cp.before
      BY <2>1 DEF Bookkeeping, Shape
    <2>3. QED
      BY <1>5, <2>1, <2>2 DEF RestoreBefore, Target, TextOf
  <1>6. ASSUME NEW g \in Files, UserWrite(g) PROVE Windows'
    <2>1. cp' = cp /\ pc' = pc /\ Target \in Files
      BY <1>0, <1>1, <1>6, TargetType DEF UserWrite
    <2>2. CASE g # Target
      BY <1>0, <1>2, <1>6, <2>1, <2>2 DEF UserWrite, TypeOK
    <2>3. CASE g = Target
      <3>1. ~trimmed => cp \in checkpoints /\ pc # "check"
        BY <1>1, <2>1 DEF Bookkeeping, Shape, IInv, InRestore
      <3>2. AgentHasEdited(g)
        BY <2>3, <3>1 DEF AgentHasEdited, Target
      <3>3. g \in touched' /\ disturbed' /\ Target' = g
        BY <1>6, <2>1, <2>3, <3>2 DEF UserWrite, Target
      <3>4. ~Clean(Target)' /\ ~Trusted(Target)'
        BY <3>3 DEF Clean, Trusted, Probed
      <3>5. QED
        BY <3>4
    <2>4. QED
      BY <2>2, <2>3
  <1>7. CASE UNCHANGED vars
    BY <1>0, <1>1, <1>2, <1>7, TargetType DEF vars
  <1>8. ASSUME (EditStep /\ ~PassConflictCheck /\ ~ToolRead)
               \/ (RestoreStep /\ ~RestoreBefore)
        PROVE  FALSE
    BY <1>1, <1>8
       DEF EditStep, AbandonEdit, ToolWrite,
           ToolWriteFault, VerifyFails, VerifyPasses, SealCheckpoint, SealFails,
           RecordEdit, CancelAfterEdit, RestoreStep, GuardRefuses, GuardPasses,
           RestoreFault, ConfirmFails, ConfirmRollback, ConfirmUndo,
           PreflightRefuses, PreflightPasses, BeginRestores, FailRestore,
           Advance, Finish, EndOperation
  <1>9. ASSUME (\E p \in Paths : Capture(p)) \/ StartRollback \/ EndTask
               \/ UndoTrimmed \/ StartUndo \/ BeginTask \/ NoticeExternalChange
        PROVE  FALSE
    BY <1>1, <1>9
       DEF Capture, StartRollback, EndTask, UndoTrimmed, StartUndo, BeginTask,
           NoticeExternalChange
  <1>10. QED
    BY <1>3, <1>4, <1>5, <1>6, <1>7, <1>8, <1>9 DEF Next

\* The dry run has seen, path by path, a chain that ends on disk.
LEMMA ProbeKept ==
  ASSUME IInv, Bookkeeping, Probe, [Next]_vars
  PROVE  Probe'
  <1> USE DEF manager, bounds, history, locals, EditSteps, RestoreSteps
  <1>0. SUFFICES ASSUME pc' = "preflight" PROVE Probe'
    BY DEF Probe
  <1>1. CASE StartUndo
    <2>1. Live' \ todo' = {} /\ expected' = expected
      BY <1>1 DEF StartUndo, Live
    <2>2. \A p \in Paths : Seen(p)' = {}
      BY <2>1 DEF Seen
    <2>3. expected = Unset
      BY <1>1 DEF StartUndo, Bookkeeping, Phases
    <2>4. \A p \in Paths : expected'[p] = None
      BY <2>1, <2>3 DEF Unset
    <2>5. \A p \in Paths : Linked(Seen(p), TextOf(At(p)))'
      BY <2>2 DEF Linked, NewestAfter
    <2>6. QED
      BY <2>2, <2>4, <2>5 DEF Probe
  <1>2. CASE PreflightPasses
    <2>1. PICK c \in todo :
             /\ IsNewest(c, todo) /\ ChainHolds(c) /\ todo' = todo \ {c}
             /\ expected' = [expected EXCEPT ![c.path] = c.before]
      BY <1>2 DEF PreflightPasses
    <2>2. Live' = Live /\ pc = "preflight" /\ disk' = disk
      BY <1>2 DEF PreflightPasses, Live
    <2>3. /\ c \in Checkpoint /\ c \in Live /\ c.path \in Paths
          /\ c.before \in Stored /\ Live \subseteq Checkpoint
          /\ expected \in [Paths -> Stored \cup {None}]
          /\ \A d \in Live \ todo : c.id < d.id
      BY <2>1, <2>2 DEF Bookkeeping, Order, IInv, TypeOK, Checkpoint, Live
    <2>4. \A p \in Paths : Seen(p)' = IF p = c.path THEN Seen(p) \cup {c}
                                      ELSE Seen(p)
      BY <2>1, <2>2, <2>3 DEF Seen
    <2>5. \A p \in Paths : Seen(p) \in SUBSET Checkpoint
                           /\ \A d \in Seen(p) : c.id < d.id
      BY <2>3 DEF Seen
    <2>6. /\ \A d \in checkpoints : d.before # None
          /\ \A p \in Paths : Seen(p) \subseteq checkpoints
      BY TextAssumption DEF Stored, IInv, TypeOK, Checkpoint, Seen, Live
    <2>7. ASSUME NEW p \in Paths
          PROVE  (IF Seen(p) = {} THEN expected[p] = None
                  ELSE \E o \in Seen(p) : /\ \A d \in Seen(p) : o.id <= d.id
                                         /\ expected[p] = o.before)'
      <3>1. CASE p # c.path
        <4>1. Seen(p)' = Seen(p) /\ expected'[p] = expected[p]
          BY <2>1, <2>3, <2>4, <3>1
        <4>2. QED
          BY <2>2, <4>1 DEF Probe
      <3>2. CASE p = c.path
        <4>1. Seen(p)' = Seen(p) \cup {c} /\ expected'[p] = c.before
          BY <2>1, <2>3, <2>4, <3>2
        <4>2. \A d \in Seen(p) \cup {c} : c.id <= d.id
          BY <2>3, <2>5 DEF Checkpoint
        <4>3. QED
          BY <4>1, <4>2
      <3>3. QED
        BY <3>1, <3>2
    <2>8. ASSUME Probed', NEW p \in Paths
          PROVE  Linked(Seen(p), TextOf(At(p)))'
      <3>1. ~StartUndo
        BY <2>2 DEF StartUndo
      <3>2. Probed
        BY <2>8, <3>1, ProbedKept
      <3>3. Linked(Seen(p), TextOf(At(p)))
        BY <2>2, <3>2 DEF Probe
      <3>4. TextOf(At(p))' = TextOf(At(p))
        BY <2>2 DEF At, TextOf
      <3>5. CASE p # c.path
        <4>1. Seen(p)' = Seen(p)
          BY <2>4, <3>5
        <4>2. QED
          BY <3>3, <3>4, <4>1 DEF Linked, NewestAfter
      <3>6. CASE p = c.path
        <4>1. Seen(p)' = Seen(p) \cup {c}
          BY <2>4, <3>6
        <4>2. Seen(p) = {} => c.after = TextOf(At(p))
          BY <2>1, <2>2, <3>6 DEF Probe, ChainHolds, MatchesAfter
        <4>3. Seen(p) # {} => OldestBefore(Seen(p), c.after)
          BY <2>1, <2>2, <2>3, <2>5, <2>6, <3>6
             DEF Probe, ChainHolds, OldestBefore, Bookkeeping, Shape, Checkpoint
        <4>4. Linked(Seen(p) \cup {c}, TextOf(At(p)))
          BY <2>3, <2>5, <3>3, <4>2, <4>3, AddOldest
        <4>5. QED
          BY <3>4, <4>1, <4>4 DEF Linked, NewestAfter
      <3>7. QED
        BY <3>5, <3>6
    <2>9. QED
      BY <2>7, <2>8 DEF Probe
  <1>3. CASE \E g \in Files : UserWrite(g)
    <2>1. Live' = Live /\ todo' = todo /\ expected' = expected
          /\ pc = "preflight" /\ ~Probed'
      BY <1>0, <1>3 DEF UserWrite, Live, Probed
    <2>2. \A p \in Paths : Seen(p)' = Seen(p)
      BY <2>1 DEF Seen
    <2>3. QED
      BY <2>1, <2>2 DEF Probe
  <1>4. CASE UNCHANGED vars
    <2>1. Live' = Live /\ todo' = todo /\ expected' = expected
          /\ pc = "preflight" /\ disk' = disk /\ (Probed' => Probed)
      BY <1>0, <1>4 DEF vars, Live, Probed, OneSpelling
    <2>2. \A p \in Paths : Seen(p)' = Seen(p) /\ TextOf(At(p))' = TextOf(At(p))
      BY <2>1 DEF Seen, At, TextOf
    <2>3. QED
      BY <2>1, <2>2 DEF Probe, Linked, NewestAfter
  <1>5. ASSUME EditStep \/ (RestoreStep /\ ~PreflightPasses)
        PROVE  FALSE
    BY <1>0, <1>5
       DEF EditStep, AbandonEdit, PassConflictCheck, ToolRead, ToolWrite,
           ToolWriteFault, VerifyFails, VerifyPasses, SealCheckpoint, SealFails,
           RecordEdit, CancelAfterEdit, RestoreStep, GuardRefuses, GuardPasses,
           RestoreBefore, RestoreFault, ConfirmFails, ConfirmRollback,
           ConfirmUndo, PreflightRefuses, BeginRestores, FailRestore,
           Advance, Finish, EndOperation
  <1>6. ASSUME (\E p \in Paths : Capture(p)) \/ StartRollback \/ EndTask
               \/ UndoTrimmed \/ BeginTask \/ NoticeExternalChange
        PROVE  FALSE
    BY <1>0, <1>6
       DEF Capture, StartRollback, EndTask, UndoTrimmed, BeginTask,
           NoticeExternalChange
  <1>7. QED
    BY <1>1, <1>2, <1>3, <1>4, <1>5, <1>6 DEF Next

\* A dry run that finds a broken chain tells of a suspect file.
LEMMA RefusalHasReason ==
  ASSUME IInv, Bookkeeping, Chained, Probe, PreflightRefuses, OneSpelling
  PROVE  touched # {} \/ unprotected # {}
  <1> SUFFICES ASSUME touched = {}, unprotected = {} PROVE FALSE
    OBVIOUS
  <1>1. PICK c \in todo : IsNewest(c, todo) /\ ~ChainHolds(c)
    BY DEF PreflightRefuses
  <1> DEFINE p == c.path
             f == FileOf[c.path]
  <1>2. /\ pc = "preflight" /\ ~trimmed /\ Live \subseteq checkpoints
        /\ Live \subseteq Checkpoint /\ c \in Live /\ c \in Checkpoint
        /\ p \in Paths /\ f \in Files
        /\ \A d \in Live \ todo : c.id < d.id
    BY <1>1, PathAssumption
       DEF PreflightRefuses, Bookkeeping, Order, Phases, IInv, TypeOK,
           Checkpoint, Live
  <1>3. Linked(LiveOf(f), TextOf(disk[f])) /\ c \in LiveOf(f)
    BY <1>2 DEF Chained, ChainedAt, Trusted, Clean, Held, LiveOf
  <1>4. \A d \in LiveOf(f) : d \in Seen(p) \/ d.id <= c.id
    BY <1>1, <1>2 DEF LiveOf, Seen, OneSpelling, IsNewest
  <1>5. CASE Seen(p) = {}
    <2>1. c.after = TextOf(disk[f])
      BY <1>3, <1>4, <1>5 DEF Linked, NewestAfter
    <2>2. QED
      BY <1>1, <1>2, <1>5, <2>1 DEF Probe, ChainHolds, MatchesAfter, At
  <1>6. CASE Seen(p) # {}
    <2>1. PICK o \in Seen(p) : /\ \A d \in Seen(p) : o.id <= d.id
                               /\ expected[p] = o.before
      BY <1>2, <1>6 DEF Probe
    <2>2. o \in LiveOf(f) /\ c.id < o.id /\ o \in Checkpoint
      BY <1>2, <2>1 DEF Seen, LiveOf
    <2>3. \A e \in LiveOf(f) : e.id <= c.id \/ o.id <= e.id
      BY <1>4, <2>1
    <2>4. c.after = o.before
      BY <1>3, <2>2, <2>3 DEF Linked
    <2>5. o.before # None
      BY <2>2, TextAssumption DEF Checkpoint, Stored
    <2>6. QED
      BY <1>1, <2>1, <2>4, <2>5 DEF ChainHolds
  <1>7. QED
    BY <1>5, <1>6

\* While an undo restores undisturbed, the file still holds what the edit
\* at hand left there, or what its restore has just put back.
LEMMA RestoreCannotFail ==
  ASSUME IInv, Bookkeeping, Chained, Windows, OneSpelling, kind = "undo",
         GuardRefuses \/ ConfirmFails
  PROVE  disturbed
  <1> SUFFICES ASSUME ~disturbed PROVE FALSE
    OBVIOUS
  <1>1. /\ Target \in Files /\ Trusted(Target) /\ IsNewest(cp, Live)
        /\ pc \in {"guard", "confirm"}
    BY TargetType
       DEF GuardRefuses, ConfirmFails, IInv, Bookkeeping, Order, Trusted,
           Probed, RestoreSteps
  <1>2. CASE GuardRefuses
    <2>1. Linked(LiveOf(Target), TextOf(disk[Target])) /\ cp \in LiveOf(Target)
      BY <1>1, <1>2 DEF GuardRefuses, Chained, ChainedAt, Held, LiveOf, Target,
                        IsNewest
    <2>2. cp.after = TextOf(disk[Target])
      BY <1>1, <2>1 DEF Linked, NewestAfter, LiveOf, IsNewest
    <2>3. QED
      BY <1>2, <2>2 DEF GuardRefuses, MatchesAfter, At, Target
  <1>3. CASE ConfirmFails
    BY <1>1, <1>3 DEF ConfirmFails, Windows
  <1>4. QED
    BY <1>2, <1>3

\* What rollback and undo report stays true until the next task.
LEMMA ResultsKept ==
  ASSUME IInv, Bookkeeping, Chained, Windows, Probe, Results, [Next]_vars
  PROVE  Results'
  <1> USE DEF manager, bounds, history, locals
  <1>1. SUFFICES ASSUME outcome' \in {"refused", "partial"}, OneSpelling'
                 PROVE  Results'
    BY DEF Results
  <1>2. CASE PreflightRefuses
    <2>1. OneSpelling /\ touched' = touched /\ unprotected' = unprotected
      BY <1>1, <1>2, SpellingKept DEF PreflightRefuses
    <2>2. touched # {} \/ unprotected # {}
      BY <1>2, <2>1, RefusalHasReason
    <2>3. outcome' = "refused"
      BY <1>2 DEF PreflightRefuses, Finish
    <2>4. QED
      BY <2>1, <2>2, <2>3 DEF Results
  <1>3. CASE GuardRefuses \/ ConfirmFails
    <2>1. OneSpelling /\ disturbed' = disturbed /\ kind = "undo"
          /\ outcome' = "partial"
      BY <1>1, <1>3, SpellingKept
         DEF GuardRefuses, ConfirmFails, FailRestore, Finish, RestoreSteps
    <2>2. disturbed
      BY <1>3, <2>1, RestoreCannotFail
    <2>3. QED
      BY <2>1, <2>2 DEF Results
  <1>4. CASE RestoreFault
    BY <1>1, <1>4 DEF RestoreFault, FailRestore, Finish, Results
  <1>5. CASE UndoTrimmed
    BY <1>5 DEF UndoTrimmed, Results
  <1>6. CASE (\E g \in Files : UserWrite(g)) \/ UNCHANGED vars \/ EndTask
             \/ NoticeExternalChange
    <2>1. /\ outcome' = outcome /\ checkpoints' = checkpoints
          /\ trimmed' = trimmed /\ unprotected' = unprotected
          /\ touched \subseteq touched' /\ (disturbed => disturbed')
      BY <1>6 DEF UserWrite, vars, EndTask, NoticeExternalChange
    <2>2. QED
      BY <2>1 DEF Results, OneSpelling
  <1>7. ASSUME EditStep PROVE FALSE
    BY <1>1, <1>7
       DEF EditStep, AbandonEdit, PassConflictCheck, ToolRead, ToolWrite,
           ToolWriteFault, VerifyFails, VerifyPasses, SealCheckpoint, SealFails,
           RecordEdit, CancelAfterEdit, EndOperation, Bookkeeping, Phases,
           EditSteps
  <1>8. ASSUME GuardPasses \/ RestoreBefore \/ ConfirmRollback \/ ConfirmUndo
               \/ PreflightPasses \/ BeginRestores
        PROVE  FALSE
    BY <1>1, <1>8
       DEF GuardPasses, RestoreBefore, ConfirmRollback, ConfirmUndo,
           PreflightPasses, BeginRestores, Advance, Finish, EndOperation,
           Bookkeeping, Phases
  <1>9. ASSUME (\E p \in Paths : Capture(p)) \/ StartRollback \/ StartUndo
               \/ BeginTask
        PROVE  FALSE
    BY <1>1, <1>9 DEF Capture, StartRollback, StartUndo, BeginTask
  <1>10. QED
    BY <1>2, <1>3, <1>4, <1>5, <1>6, <1>7, <1>8, <1>9 DEF Next, RestoreStep

\* The whole inductive invariant of the chains.
ChainInv == IInv /\ Bookkeeping /\ Chained /\ Windows /\ Probe /\ Results

\* A fresh task has no chains.
LEMMA InitChain == Init => ChainInv
  <1> SUFFICES ASSUME Init PROVE ChainInv
    OBVIOUS
  <1> USE DEF Init
  <1>1. Live = {} /\ IInv
    BY InitInv DEF Live
  <1>2. Shape /\ Phases /\ Order
    BY <1>1, FS_EmptySet
       DEF Shape, Phases, Order, EditSteps, RestoreSteps
  <1>3. Chained
    BY <1>1
       DEF Chained, ChainedAt, LiveOf, Linked, Rooted, NewestAfter,
           OldestBefore, Held
  <1>4. Windows /\ Probe /\ Results
    BY DEF Windows, Probe, Results
  <1>5. QED
    BY <1>1, <1>2, <1>3, <1>4 DEF ChainInv, Bookkeeping

\* Every step of the agent and of the user keeps all of it.
LEMMA NextChain == ChainInv /\ [Next]_vars => ChainInv'
  BY NextInv, BookkeepingKept, ChainedKept, WindowsKept, ProbeKept,
     ResultsKept
     DEF ChainInv

\* An undo that reports success has brought back every file that nobody else
\* wrote and every edit of which kept its checkpoint, for any files, path
\* spellings, texts and limits: Agent.undo_task and its rollbacks.
THEOREM UndoRestores == Spec => []UndoneMeansRestored
  <1>1. ChainInv => UndoneMeansRestored
    <2> SUFFICES ASSUME ChainInv, outcome = "undone",
                        NEW f \in Files \ (touched \cup unprotected)
                 PROVE  TextOf(disk[f]) = TextOf(base[f])
      BY DEF UndoneMeansRestored
    <2>1. Clean(f) /\ LiveOf(f) = {} /\ pc = "idle"
      BY DEF ChainInv, Bookkeeping, Phases, Clean, LiveOf
    <2>2. QED
      BY <2>1 DEF ChainInv, Chained, ChainedAt, Rooted, Held
  <1>2. QED
    BY <1>1, InitChain, NextChain, PTL DEF Spec

\* The dry run of undo_task is as strict as the rollbacks it precedes: with
\* no foreign write and no fault meanwhile, an undo restores all or nothing,
\* as long as no file was edited under two spellings of its path.
THEOREM UndoIsAtomic == Spec => [](OneSpelling => UndoIsAtomicUndisturbed)
  <1>1. ChainInv => (OneSpelling => UndoIsAtomicUndisturbed)
    BY DEF ChainInv, Results, UndoIsAtomicUndisturbed
  <1>2. QED
    BY <1>1, InitChain, NextChain, PTL DEF Spec

\* The dry run refuses only for lost history, a foreign write or an edit
\* without a checkpoint, as long as no file was edited under two spellings.
THEOREM RefusalHasGrounds == Spec => [](OneSpelling => RefusalIsJustified)
  <1>1. ChainInv => (OneSpelling => RefusalIsJustified)
    BY DEF ChainInv, Results, RefusalIsJustified
  <1>2. QED
    BY <1>1, InitChain, NextChain, PTL DEF Spec
=============================================================================

---------------------------- MODULE Checkpoints ----------------------------
(***************************************************************************)
(* The edit checkpoints of one agent: CheckpointManager (an in-memory list *)
(* of before-states), CheckpointToolExecutor (which wraps every edit tool  *)
(* in capture / conflict check / physical edit / seal) and RollbackEngine  *)
(* (automatic rollback of the last edit, and undo of a whole task).        *)
(*                                                                         *)
(* The agent is one sequential thread; the user and the IDE write the same *)
(* files between any two of its file-system calls.                         *)
(*                                                                         *)
(* A file holds raw bytes.  read_text decodes them with universal newlines *)
(* and hashes are taken of the decoded text, while write_text writes its   *)
(* text as it stands: Decode is the first conversion, the second is the    *)
(* identity (POSIX).  A hash is represented by the text it is taken of.    *)
(***************************************************************************)
EXTENDS Integers, FiniteSets

CONSTANTS
    Files,          \* physical files of the workspace
    Paths,          \* path arguments the model may spell
    FileOf,         \* resolve_workspace_path
    Raw,            \* file contents
    Decode,         \* read_text: universal newlines
    Absent,         \* "no such file", also a snapshot with existed = False
    None,           \* no value yet (after_sha256 of an unsealed checkpoint)
    MaxCheckpoints, \* max_checkpoints
    MaxEdits,       \* bound: captures per task
    MaxUserWrites,  \* bound: writes of the user
    MaxFaults       \* bound: file-system calls that raise half way

ASSUME PathAssumption == FileOf \in [Paths -> Files]
ASSUME TextAssumption == /\ Decode \in [Raw -> Raw]
                         /\ \A r \in Raw : Decode[Decode[r]] = Decode[r]
                         /\ Absent \notin Raw /\ None \notin Raw \cup {Absent}
ASSUME LimitAssumption == MaxCheckpoints \in Nat \ {0}

VARIABLES
    disk,        \* what each file holds
    checkpoints, \* CheckpointManager._checkpoints, ordered by their ids
    counter,     \* CheckpointManager._counter
    trimmed,     \* CheckpointManager.history_trimmed
    revision,    \* the ledger's edit revision
    running,     \* the agent is inside run_agent_loop
    pc,          \* the next file-system step of the agent's thread
    kind,        \* the operation in progress, and its locals:
    cp,          \*   the checkpoint at hand
    new,         \*   the text the edit tool will write
    todo,        \*   the checkpoints undo_task has yet to visit
    expected,    \*   its map from paths to the state it will leave there
    restored,    \*   the paths it has restored
    outcome,     \* what the last rollback or undo_task returned
    userWrites, faults

manager == <<checkpoints, counter, trimmed>>
locals == <<kind, cp, new, todo, expected, restored>>
bounds == <<userWrites, faults>>

(***************************************************************************)
(* History variables: read by the properties, never by an action's guard.  *)
(***************************************************************************)
VARIABLES
    base,        \* each file as it stood before the agent's first edit of it
    touched,     \* files the user wrote after that
    unprotected, \* files the agent changed without keeping a checkpoint
    raced,       \* files the user wrote between a check and its write
    lost,        \* files where text of the user's was overwritten
    disturbed    \* something hit the workspace since undo_task began

history == <<base, touched, unprotected, raced, lost, disturbed>>
vars == <<disk, checkpoints, counter, trimmed, revision, running, pc, kind,
          cp, new, todo, expected, restored, outcome, userWrites, faults, base,
          touched, unprotected, raced, lost, disturbed>>

Stored == Raw \cup {Absent}
TextOf(v) == IF v = Absent THEN Absent ELSE Decode[v]

\* wrote is history: the text the edit tool itself put into the file.
Checkpoint ==
    [id : Nat, path : Paths, revision : Nat, before : Stored,
     after : Raw \cup {None}, sealed : BOOLEAN, rolledBack : BOOLEAN,
     wrote : Raw \cup {None}]

EditSteps == {"check", "read", "write", "verify", "seal", "record"}
RestoreSteps == {"guard", "restore", "confirm"}

Unset == [p \in Paths |-> None]

Live == {c \in checkpoints : c.sealed /\ ~c.rolledBack}
IsNewest(c, S) == c \in S /\ \A d \in S : d.id <= c.id
Oldest(S) == CHOOSE c \in S : \A d \in S : c.id <= d.id
At(p) == disk[FileOf[p]]
Target == FileOf[cp.path]

Init ==
    /\ disk \in [Files -> Stored]
    /\ checkpoints = {} /\ counter = 0 /\ trimmed = FALSE
    /\ revision = 0 /\ running = TRUE /\ pc = "idle"
    /\ kind = "none" /\ cp = None /\ new = None
    /\ todo = {} /\ expected = Unset /\ restored = {}
    /\ outcome = "none" /\ userWrites = 0 /\ faults = 0
    /\ base = disk /\ touched = {} /\ unprotected = {}
    /\ raced = {} /\ lost = {} /\ disturbed = FALSE

-----------------------------------------------------------------------------
(***************************************************************************)
(* CheckpointToolExecutor.execute_prepared around one edit tool.           *)
(***************************************************************************)

\* Mutant: the history is cut without a trace.
MutHistoryTrimmed(S) == trimmed

\* _trim_history: one capture can overflow the list by one.
HistoryTrimmed(S) == trimmed \/ Cardinality(S) > MaxCheckpoints
Trim(S) == IF Cardinality(S) <= MaxCheckpoints THEN S ELSE S \ {Oldest(S)}

Snapshot(p) ==
    [id |-> counter + 1, path |-> p, revision |-> revision + 1,
     before |-> TextOf(At(p)), after |-> None, sealed |-> FALSE,
     rolledBack |-> FALSE, wrote |-> None]

Capture(p) ==
    /\ running /\ pc = "idle" /\ counter < MaxEdits
    /\ counter' = counter + 1
    /\ checkpoints' = Trim(checkpoints \cup {Snapshot(p)})
    /\ trimmed' = HistoryTrimmed(checkpoints \cup {Snapshot(p)})
    /\ kind' = "edit" /\ cp' = Snapshot(p)
    /\ pc' = "check" /\ outcome' = "none"
    /\ UNCHANGED <<disk, revision, running, new, todo, expected, restored,
                   bounds, history>>

EndOperation ==
    /\ pc' = "idle" /\ kind' = "none" /\ cp' = None /\ new' = None
    /\ todo' = {} /\ expected' = Unset /\ restored' = {}

\* Mutant: a failed edit keeps its checkpoint.
MutDiscard == UNCHANGED checkpoints

Discard == checkpoints' = checkpoints \ {cp}

\* The executor gave up before the tool wrote anything: the conflict check
\* found another text than the snapshot's, or the tool refused its input.
AbandonEdit ==
    /\ \/ pc = "check" /\ TextOf(disk[Target]) # cp.before
       \/ pc = "read"
    /\ Discard /\ EndOperation
    /\ UNCHANGED <<disk, counter, trimmed, revision, running, outcome,
                   bounds, history>>

\* Mutant: the text on disk is not compared with the snapshot's.
MutPassConflictCheck ==
    /\ pc = "check" /\ pc' = "read"
    /\ UNCHANGED <<disk, manager, revision, running, locals, outcome, bounds,
                   history>>

PassConflictCheck ==
    /\ pc = "check" /\ TextOf(disk[Target]) = cp.before
    /\ pc' = "read"
    /\ UNCHANGED <<disk, manager, revision, running, locals, outcome, bounds,
                   history>>

\* The tool reads the file again and computes a text that differs from it.
ToolRead ==
    /\ pc = "read"
    /\ new' \in Raw \ {TextOf(disk[Target])}
    /\ pc' = "write"
    /\ UNCHANGED <<disk, manager, revision, running, kind, cp, todo, expected,
                   restored, outcome, bounds, history>>

\* An overwritten text is the user's unless the snapshot still holds it.
ToolWrite ==
    /\ pc = "write"
    /\ disk' = [disk EXCEPT ![Target] = new]
    /\ lost' = IF TextOf(disk[Target]) = cp.before
               THEN lost ELSE lost \cup {Target}
    /\ pc' = "verify"
    /\ UNCHANGED <<manager, revision, running, locals, outcome, bounds, base,
                   touched, unprotected, raced, disturbed>>

\* write_text raises after it truncated the file: the tool fails and the
\* executor discards the checkpoint as for any failed edit.
ToolWriteFault ==
    /\ pc = "write" /\ faults < MaxFaults
    /\ \E v \in Raw : disk' = [disk EXCEPT ![Target] = v]
    /\ faults' = faults + 1
    /\ lost' = IF TextOf(disk[Target]) = cp.before
               THEN lost ELSE lost \cup {Target}
    /\ unprotected' = unprotected \cup {Target}
    /\ Discard /\ EndOperation
    /\ UNCHANGED <<counter, trimmed, revision, running, outcome, userWrites,
                   base, touched, raced, disturbed>>

\* verify_after_write compares the decoded file with the text it wrote.
VerifyFails ==
    /\ pc = "verify" /\ TextOf(disk[Target]) # new
    /\ Discard /\ EndOperation
    /\ unprotected' = unprotected \cup {Target}
    /\ UNCHANGED <<disk, counter, trimmed, revision, running, outcome,
                   bounds, base, touched, raced, lost, disturbed>>

VerifyPasses ==
    /\ pc = "verify" /\ TextOf(disk[Target]) = new
    /\ pc' = "seal"
    /\ UNCHANGED <<disk, manager, revision, running, locals, outcome, bounds,
                   history>>

Sealed(c, t) == [c EXCEPT !.after = t, !.sealed = TRUE, !.wrote = new]

\* Mutant: seal does not ask whether the file is still there.
MutSealCheckpoint ==
    /\ pc = "seal"
    /\ checkpoints' = (checkpoints \ {cp}) \cup {Sealed(cp, TextOf(disk[Target]))}
    /\ pc' = "record"
    /\ UNCHANGED <<disk, counter, trimmed, revision, running, locals, outcome,
                   bounds, history>>

SealCheckpoint ==
    /\ pc = "seal" /\ disk[Target] # Absent
    /\ checkpoints' = (checkpoints \ {cp}) \cup {Sealed(cp, TextOf(disk[Target]))}
    /\ pc' = "record"
    /\ UNCHANGED <<disk, counter, trimmed, revision, running, locals, outcome,
                   bounds, history>>

\* seal raises: the edit still counts as successful (safety_degraded).
SealFails ==
    /\ pc = "seal" /\ disk[Target] = Absent
    /\ Discard /\ pc' = "record"
    /\ unprotected' = unprotected \cup {Target}
    /\ UNCHANGED <<disk, counter, trimmed, revision, running, locals, outcome,
                   bounds, base, touched, raced, lost, disturbed>>

\* Mutant: the edit is not recorded in the ledger.
MutRecordEdit ==
    /\ pc = "record" /\ EndOperation
    /\ UNCHANGED <<disk, manager, revision, running, outcome, bounds, history>>

\* EditResultHandler records the new revision.
RecordEdit ==
    /\ pc = "record" /\ revision' = revision + 1 /\ EndOperation
    /\ UNCHANGED <<disk, manager, running, outcome, bounds, history>>

\* The cancellable tool executor raises after the tool returned, so that
\* record_edit is never reached.
CancelAfterEdit ==
    /\ pc = "record" /\ running' = FALSE /\ EndOperation
    /\ UNCHANGED <<disk, manager, revision, outcome, bounds, history>>

-----------------------------------------------------------------------------
(***************************************************************************)
(* RollbackEngine.rollback, called by the RollbackCoordinator for the edit *)
(* of the current revision, and by undo_task for each live checkpoint.     *)
(***************************************************************************)

Finish(result) == EndOperation /\ outcome' = result

StartRollback ==
    /\ running /\ pc = "idle"
    /\ \E c \in Live :
           /\ IsNewest(c, {d \in checkpoints : d.revision = revision})
           /\ cp' = c
    /\ kind' = "rollback" /\ pc' = "guard" /\ outcome' = "none"
    /\ UNCHANGED <<disk, manager, revision, running, new, todo, expected,
                   restored, bounds, history>>

\* A failing rollback ends undo_task; Agent.undo_task records a revision
\* only when some path had been restored before.
FailRestore ==
    /\ Finish(IF kind = "undo" THEN "partial" ELSE "failed")
    /\ revision' = IF restored = {} THEN revision ELSE revision + 1

MatchesAfter(c) == TextOf(At(c.path)) = c.after

GuardRefuses ==
    /\ pc = "guard" /\ ~MatchesAfter(cp) /\ FailRestore
    /\ UNCHANGED <<disk, manager, running, bounds, history>>

GuardPasses ==
    /\ pc = "guard" /\ MatchesAfter(cp) /\ pc' = "restore"
    /\ UNCHANGED <<disk, manager, revision, running, locals, outcome, bounds,
                   history>>

\* The text a restore overwrites is the user's unless the tool wrote it.
RestoreLoses == IF TextOf(disk[Target]) = cp.wrote
                THEN lost ELSE lost \cup {Target}

\* _restore_existing_file writes the decoded text, _restore_missing_file
\* unlinks.
RestoreBefore ==
    /\ pc = "restore"
    /\ disk' = [disk EXCEPT ![Target] = cp.before]
    /\ lost' = RestoreLoses
    /\ pc' = "confirm"
    /\ UNCHANGED <<manager, revision, running, locals, outcome, bounds, base,
                   touched, unprotected, raced, disturbed>>

RestoreFault ==
    /\ pc = "restore" /\ faults < MaxFaults /\ cp.before # Absent
    /\ \E v \in Raw : disk' = [disk EXCEPT ![Target] = v]
    /\ faults' = faults + 1 /\ lost' = RestoreLoses /\ disturbed' = TRUE
    /\ FailRestore
    /\ unprotected' = unprotected \cup {Target}
    /\ UNCHANGED <<manager, running, userWrites, base, touched, raced>>

ConfirmFails ==
    /\ pc = "confirm" /\ TextOf(disk[Target]) # cp.before /\ FailRestore
    /\ UNCHANGED <<disk, manager, running, bounds, history>>

RolledBack(c) == [c EXCEPT !.rolledBack = TRUE]
MarkRolledBack == checkpoints' = (checkpoints \ {cp}) \cup {RolledBack(cp)}

\* The coordinator records a new monotone revision.
ConfirmRollback ==
    /\ pc = "confirm" /\ kind = "rollback"
    /\ TextOf(disk[Target]) = cp.before
    /\ MarkRolledBack /\ Finish("rolled_back") /\ revision' = revision + 1
    /\ UNCHANGED <<disk, counter, trimmed, running, bounds, history>>

-----------------------------------------------------------------------------
(***************************************************************************)
(* RollbackEngine.undo_task: a dry run over the live checkpoints, newest   *)
(* first, then the rollbacks in the same order.  The dry run follows each  *)
(* path argument, not each file.                                           *)
(***************************************************************************)

EndTask ==
    /\ running /\ pc = "idle" /\ running' = FALSE
    /\ UNCHANGED <<disk, manager, revision, pc, locals, outcome, bounds, history>>

UndoTrimmed ==
    /\ ~running /\ pc = "idle" /\ trimmed /\ outcome' = "refused"
    /\ UNCHANGED <<disk, manager, revision, running, pc, locals, bounds, history>>

StartUndo ==
    /\ ~running /\ pc = "idle" /\ ~trimmed
    /\ kind' = "undo" /\ todo' = Live
    /\ pc' = "preflight" /\ outcome' = "none" /\ disturbed' = FALSE
    /\ UNCHANGED <<disk, manager, revision, running, cp, new, expected,
                   restored, bounds, base, touched, unprotected, raced, lost>>

\* Mutants: only the newest edit of a path is checked; every edit of a path
\* is compared with the disk.
MutChainNewestOnly(c) == expected[c.path] = None => MatchesAfter(c)
MutChainDiskOnly(c) == MatchesAfter(c)

\* First sight of a path compares with the disk, later ones with the state
\* the previous (newer) checkpoint of that path will restore.
ChainHolds(c) == IF expected[c.path] = None THEN MatchesAfter(c)
                 ELSE expected[c.path] = c.after

PreflightRefuses ==
    /\ pc = "preflight"
    /\ \E c \in todo : IsNewest(c, todo) /\ ~ChainHolds(c)
    /\ Finish("refused")
    /\ UNCHANGED <<disk, manager, revision, running, bounds, history>>

\* Mutant: the loop over the checkpoints does not advance.
MutPreflightPasses ==
    /\ pc = "preflight"
    /\ \E c \in todo :
           /\ IsNewest(c, todo) /\ ChainHolds(c)
           /\ expected' = [expected EXCEPT ![c.path] = c.before]
    /\ UNCHANGED <<disk, manager, revision, running, pc, kind, cp, new, todo,
                   restored, outcome, bounds, history>>

PreflightPasses ==
    /\ pc = "preflight"
    /\ \E c \in todo :
           /\ IsNewest(c, todo) /\ ChainHolds(c)
           /\ todo' = todo \ {c}
           /\ expected' = [expected EXCEPT ![c.path] = c.before]
    /\ UNCHANGED <<disk, manager, revision, running, pc, kind, cp, new,
                   restored, outcome, bounds, history>>

\* The next checkpoint to restore, or the result of the whole undo.
Advance(rest, done) ==
    \/ /\ \E c \in rest :
              /\ IsNewest(c, rest) /\ cp' = c /\ todo' = rest \ {c}
       /\ restored' = done /\ pc' = "guard"
       /\ UNCHANGED <<kind, new, expected, revision, outcome>>
    \/ /\ rest = {} /\ Finish("undone")
       /\ revision' = IF done = {} THEN revision ELSE revision + 1

BeginRestores ==
    /\ pc = "preflight" /\ todo = {} /\ Advance(Live, {})
    /\ UNCHANGED <<disk, manager, running, bounds, history>>

ConfirmUndo ==
    /\ pc = "confirm" /\ kind = "undo"
    /\ TextOf(disk[Target]) = cp.before
    /\ MarkRolledBack /\ Advance(todo, restored \cup {cp.path})
    /\ UNCHANGED <<disk, counter, trimmed, running, bounds, history>>

-----------------------------------------------------------------------------
\* RunInitializer resets the manager and the ledger.
BeginTask ==
    /\ ~running /\ pc = "idle" /\ running' = TRUE
    /\ checkpoints' = {} /\ counter' = 0 /\ trimmed' = FALSE
    /\ revision' = 0 /\ outcome' = "none"
    /\ base' = disk /\ touched' = {} /\ unprotected' = {}
    /\ raced' = {} /\ lost' = {} /\ disturbed' = FALSE
    /\ UNCHANGED <<disk, pc, locals, bounds>>

\* refresh_workspace_facts notices an external change between two turns.
NoticeExternalChange ==
    /\ running /\ pc = "idle" /\ userWrites > 0 /\ revision < 2 * MaxEdits
    /\ revision' = revision + 1
    /\ UNCHANGED <<disk, manager, running, pc, locals, outcome, bounds, history>>

\* f lies between the check that protects it and the write it protects.
Exposed(f) == /\ pc \in {"read", "write", "seal", "restore"} /\ f = Target

AgentHasEdited(f) ==
    \/ trimmed \/ f \in unprotected
    \/ \E c \in checkpoints : FileOf[c.path] = f /\ (c.sealed \/ pc # "check")

\* The user, an IDE or another program writes or deletes a file.
UserWrite(f) ==
    /\ userWrites < MaxUserWrites /\ userWrites' = userWrites + 1
    /\ \E v \in Stored \ {disk[f]} :
           /\ disk' = [disk EXCEPT ![f] = v]
           /\ base' = IF AgentHasEdited(f) THEN base
                      ELSE [base EXCEPT ![f] = v]
    /\ touched' = IF AgentHasEdited(f) THEN touched \cup {f} ELSE touched
    /\ raced' = IF Exposed(f) THEN raced \cup {f} ELSE raced
    /\ disturbed' = TRUE
    /\ UNCHANGED <<manager, revision, running, pc, locals, outcome, faults,
                   unprotected, lost>>

EditStep ==
    \/ AbandonEdit \/ PassConflictCheck \/ ToolRead \/ ToolWrite
    \/ ToolWriteFault \/ VerifyFails \/ VerifyPasses \/ SealCheckpoint
    \/ SealFails \/ RecordEdit \/ CancelAfterEdit

RestoreStep ==
    \/ GuardRefuses \/ GuardPasses \/ RestoreBefore \/ RestoreFault
    \/ ConfirmFails \/ ConfirmRollback \/ ConfirmUndo
    \/ PreflightRefuses \/ PreflightPasses \/ BeginRestores

Next ==
    \/ \E p \in Paths : Capture(p)
    \/ EditStep \/ RestoreStep
    \/ StartRollback \/ EndTask \/ UndoTrimmed \/ StartUndo \/ BeginTask
    \/ NoticeExternalChange
    \/ \E f \in Files : UserWrite(f)

Spec == Init /\ [][Next]_vars

\* The agent's thread keeps running once it has begun an operation.
FairSpec == Spec /\ WF_vars(EditStep \/ RestoreStep)

-----------------------------------------------------------------------------
(***************************************************************************)
(* Properties.                                                             *)
(***************************************************************************)

\* Type invariant.  An operation holds a checkpoint exactly while one of its
\* steps names it, and an edit holds a text from the tool's read on.
TypeOK ==
    /\ disk \in [Files -> Stored] /\ base \in [Files -> Stored]
    /\ checkpoints \subseteq Checkpoint
    /\ counter \in Nat /\ revision \in Nat /\ userWrites \in Nat
    /\ faults \in Nat
    /\ trimmed \in BOOLEAN /\ running \in BOOLEAN /\ disturbed \in BOOLEAN
    /\ pc \in {"idle", "preflight"} \cup EditSteps \cup RestoreSteps
    /\ kind \in {"none", "edit", "rollback", "undo"}
    /\ cp \in Checkpoint \cup {None} /\ new \in Raw \cup {None}
    /\ todo \subseteq Checkpoint /\ restored \subseteq Paths
    /\ expected \in [Paths -> Stored \cup {None}]
    /\ outcome \in {"none", "rolled_back", "failed", "refused", "partial",
                    "undone"}
    /\ touched \subseteq Files /\ unprotected \subseteq Files
    /\ raced \subseteq Files /\ lost \subseteq Files
    /\ pc \in EditSteps \cup RestoreSteps => cp \in Checkpoint
    /\ pc \in {"write", "verify", "seal", "record"} => new \in Raw

\* "An unsealed checkpoint must never later be mistaken for a valid rollback
\* candidate": outside the steps between capture and seal, no checkpoint of
\* a failed, refused or half-protected edit is left behind.
NoLeftoverCheckpoint ==
    pc \notin EditSteps => \A c \in checkpoints : c.sealed

\* The conflict check and the stale-rollback guard protect the user's text:
\* nothing the agent writes, restores or deletes destroys text it has not
\* written or kept itself, unless the user wrote between the check and the
\* write it protects (the files in raced), however edits, failures,
\* rollbacks and undo follow each other.
LossOnlyInWindow == lost \subseteq raced

\* A task undo that reports success has brought back the text of every file
\* as it stood before the agent's first edit, if nobody else wrote the file
\* since and every change of the agent's kept its checkpoint.
UndoneMeansRestored ==
    outcome = "undone" =>
        \A f \in Files \ (touched \cup unprotected) :
            TextOf(disk[f]) = TextOf(base[f])

\* The dry run of undo_task is as strict as the rollbacks that follow it:
\* with no foreign write or fault meanwhile, an undo that starts to restore
\* restores everything.
UndoIsAtomicUndisturbed == outcome = "partial" => disturbed

\* undo_task refuses only for a reason: lost history, a write it did not
\* make, or an edit of its own that left no checkpoint.
RefusalIsJustified ==
    outcome = "refused" => trimmed \/ touched # {} \/ unprotected # {}

\* A revision names one edit: the edits a task records have increasing
\* revisions, so that latest_for_revision finds the very edit whose
\* validation got worse.
RevisionNamesOneEdit ==
    \A c, d \in checkpoints : c.id < d.id => c.revision < d.revision

\* The inductive invariant behind the three invariants above: what each
\* step of an operation may rely on.
InEdit ==
    pc \in EditSteps =>
        /\ running /\ cp.id = counter /\ cp.revision = revision + 1
        /\ ~cp.sealed
        /\ IF pc = "record" THEN \A c \in checkpoints : c.sealed
           ELSE \A c \in checkpoints \ {cp} :
                    c.sealed /\ c.id < counter /\ c.revision <= revision

InRestore ==
    /\ pc \in RestoreSteps =>
          cp \in checkpoints /\ todo \subseteq checkpoints \ {cp}
    /\ pc \notin RestoreSteps \cup {"preflight"} => todo = {}

Numbered ==
    /\ \A c \in checkpoints : c.id <= counter /\ c.revision <= revision + 1
    /\ running /\ pc \notin EditSteps =>
          \A c \in checkpoints : c.revision <= revision

\* The after-state of a sealed checkpoint is what its edit wrote.
Truthful ==
    \A c \in checkpoints :
        c.sealed /\ FileOf[c.path] \notin raced => c.after = c.wrote

\* Between a check and its write the file holds what the check has seen.
CheckStillHolds ==
    pc \in {"read", "write", "seal", "restore"} /\ Target \notin raced =>
        TextOf(disk[Target]) = CASE pc = "seal" -> new
                                 [] pc = "restore" -> cp.after
                                 [] OTHER -> cp.before

IInv ==
    /\ TypeOK /\ NoLeftoverCheckpoint /\ InEdit /\ InRestore /\ Numbered
    /\ Truthful /\ CheckStillHolds /\ LossOnlyInWindow /\ RevisionNamesOneEdit

\* Every edit, rollback and undo comes to an end while the agent's thread
\* runs, whatever the user writes meanwhile.
OperationsEnd == pc # "idle" ~> pc = "idle"

\* Claims of the repository that the code does not keep.

\* docs/ui.md: Reject "safely undoes the Agent edits of the current task".
\* verify_after_write reports an edit as failed whose text cannot be read
\* back, the executor discards its checkpoint, and undo passes it over.
UndoCoversEveryEdit == outcome = "undone" => unprotected \subseteq touched
=============================================================================

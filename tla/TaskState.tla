----------------------------- MODULE TaskState -----------------------------
(***************************************************************************)
(* The reducer of runtime events (task_state.py) and the work unit it      *)
(* keeps, as operators on a record: the state that prompts, gates, reports *)
(* and the trace read.  A field that only one of those shows is left out.  *)
(***************************************************************************)
EXTENDS Integers

CONSTANTS
    EditBudget, \* WorkUnit.edit_budget
    None        \* no work unit, no revision

ASSUME BudgetPositive == EditBudget \in Nat \ {0}

Phases == {"inspecting", "acting", "validating", "fixing", "finalizing",
           "done", "blocked"}
TaskOutcomes == {"incomplete", "blocked", "edited_and_validated", "already_satisfied"}

-----------------------------------------------------------------------------
(***************************************************************************)
(* WorkUnit                                                                *)
(***************************************************************************)

WorkUnit == [edits : Nat,
             status : {"open", "ready", "validating", "completed", "failed"}]
ASSUME NoneIsNothing == None \notin Nat \cup BOOLEAN \cup WorkUnit

Closed(unit) == unit.status \in {"completed", "failed"}
MutMilestoneDue(unit) == unit.status = "ready" \/ unit.edits > EditBudget

MilestoneDue(unit) == unit.status = "ready" \/ unit.edits >= EditBudget
\* As the gates ask it of the state: an open unit whose milestone is due.
EditsHeld(task) ==
    task.unit # None /\ ~Closed(task.unit) /\ MilestoneDue(task.unit)

RecordEdit(unit) ==
    LET edits == unit.edits + 1
    IN  [edits |-> edits, status |-> IF edits >= EditBudget THEN "ready" ELSE "open"]

ResolveMilestone(unit, passed, all) ==
    [unit EXCEPT !.status = CASE all -> "completed"
                              [] ~all /\ ~passed -> "failed"
                              [] OTHER -> "ready"]

-----------------------------------------------------------------------------
(***************************************************************************)
(* reduce_task_state, one operator for each event that changes the record  *)
(***************************************************************************)

Flags == [accepted : BOOLEAN, targeted : BOOLEAN, full : BOOLEAN]
NoFlags == [accepted |-> FALSE, targeted |-> FALSE, full |-> FALSE]

TaskStarted(flags) ==
    [phase |-> "inspecting", outcome |-> "incomplete", revision |-> 0,
     hasEdit |-> FALSE, flags |-> flags, evidence |-> None, unit |-> None]

\* What every new revision does to the record.
AtRevision(task, revision) ==
    [task EXCEPT !.revision = revision, !.flags = NoFlags, !.evidence = None]
FailUnit(task) == IF task.unit = None THEN None ELSE [task.unit EXCEPT !.status = "failed"]

EditApplied(task, revision) ==
    LET unit == IF task.unit = None \/ Closed(task.unit)
                THEN [edits |-> 0, status |-> "open"] ELSE task.unit
    IN  [AtRevision(task, revision) EXCEPT
            !.unit = RecordEdit(unit), !.hasEdit = TRUE, !.phase = "validating"]

WorkspaceChanged(task, revision) ==
    [AtRevision(task, revision) EXCEPT
        !.unit = FailUnit(task), !.phase = "inspecting"]

MutRollbackApplied(task, revision) ==
    [task EXCEPT !.revision = revision, !.evidence = None,
        !.unit = FailUnit(task), !.phase = "validating"]

RollbackApplied(task, revision) ==
    [AtRevision(task, revision) EXCEPT
        !.unit = FailUnit(task), !.phase = "validating"]

\* `milestones`: None, or whether every required check of the unit is proven.
ValidationObserved(task, outcome, flags, revision, milestones) ==
    LET unit == IF task.unit = None \/ Closed(task.unit) THEN task.unit
                ELSE IF milestones \in BOOLEAN
                THEN ResolveMilestone(task.unit, outcome = "passed", milestones)
                ELSE [task.unit EXCEPT !.status = "validating"]
    IN  [task EXCEPT
            !.unit = unit, !.flags = flags, !.evidence = revision,
            !.phase = IF outcome = "failed" THEN "fixing" ELSE "validating"]

RecoveryStarted(task) == [task EXCEPT !.phase = "fixing"]

PhaseChanged(task, phase) ==
    IF task.phase \in {"done", "blocked"} THEN task ELSE [task EXCEPT !.phase = phase]

\* record_task_outcome: TASK_BLOCKED or TASK_COMPLETED.
MutTaskEnded(task, outcome) == [task EXCEPT !.outcome = outcome, !.phase = outcome]

TaskEnded(task, outcome) ==
    [task EXCEPT !.outcome = outcome,
                 !.phase = IF outcome = "blocked" THEN "blocked" ELSE "done"]

-----------------------------------------------------------------------------
(***************************************************************************)
(* TaskState.invariant_violations, for a task that may edit: what          *)
(* TaskRuntime.apply refuses, raising an error and keeping the old state   *)
(***************************************************************************)

Refused(task) ==
    \/ /\ task.phase = "done" /\ task.outcome = "edited_and_validated"
       /\ ~task.flags.accepted
    \/ task.evidence # None /\ task.evidence # task.revision

TaskType ==
    [phase : Phases, outcome : TaskOutcomes, revision : Nat, hasEdit : BOOLEAN,
     flags : Flags, evidence : Nat \cup {None}, unit : WorkUnit \cup {None}]
=============================================================================

----------------------------- MODULE ToolGates -----------------------------
(***************************************************************************)
(* One task that may edit, as the loop drives it: which tool call of the   *)
(* model each gate lets through (work unit, bound validator, edit retry,   *)
(* finalization, action pressure), and how the calls, the runs of the      *)
(* harness and changes by other programs move the state that the gates     *)
(* read and the record that TaskRuntime keeps of it.                       *)
(*                                                                         *)
(* The ledger is abstracted to a verdict for each check of the plan (the   *)
(* module Validation has its evidence); a required check is known by its   *)
(* place in the plan.                                                      *)
(***************************************************************************)
EXTENDS TaskState, Sequences, FiniteSets

CONSTANTS
    Paths,         \* files a call may name,
    Scope,         \* and those that the task and its checks name
    InitialTasks,  \* records of plan, mayStay and mode
    Resolutions,   \* for a plan, what the resolver may say of its checks
    Configured,    \* configured_max_steps
    Ceiling,       \* max_steps of each mode's policy,
    Threshold,     \* its finalization_threshold,
    Patience,      \* and its max_no_progress_steps
    Margin,        \* remaining steps at which a mode is escalated,
    ManyFiles,     \* and edited files at which FAST is
    InspectLimit,  \* inspections in a row while inspecting
    MaxCalls,      \* bound: calls of one model reply
    MaxEdits,      \* bound: edits applied
    MaxForeign     \* bound: changes by other programs

VARIABLES
    task,          \* TaskRuntime.state
    \* ValidationLedger: the revision, and of each check what its evidence at
    \* this revision comes to, and that its target was unresolved
    ledger, bound, \* bound: what the resolver says of each check
    control,       \* ActionController
    retry,         \* EditRetryPolicy.pending
    final,         \* FinalizationController
    blocker,       \* concrete_blockers is not empty
    undoable,      \* the checkpoint of this revision's edit can be rolled back
    touched,       \* agent_touched_files
    pc, step, mode, left, \* left: calls of the reply not yet run
    plan, mayStay  \* fixed: the required checks; no_edit_if_already_satisfied

\* History: read by properties and bounds only.
VARIABLES
    spree,  \* edits since the work unit was last closed
    probes, \* of each check, inspections let through to resolve it
    edits, foreign

facts == <<task, ledger, bound>>
gates == <<control, retry, final>>
loop == <<pc, step, mode, left>>
work == <<undoable, touched>>
fixed == <<plan, mayStay>>
history == <<spree, probes, edits, foreign>>
vars == <<facts, gates, blocker, loop, work, fixed, history>>

Modes == {"fast", "standard", "complex"}
Raised == [fast |-> "standard", standard |-> "complex"]
Statuses == {"resolved", "target_unresolved", "capability_missing"}
\* Of the evidence for a check: inconclusive runs up to the two that are
\* enough, whether one passed or failed, and what the newest came to.
Verdicts == [blanks : 0..2, good : BOOLEAN, bad : BOOLEAN,
             last : {"none", "blank", "decisive"}]
NoVerdict == [blanks |-> 0, good |-> FALSE, bad |-> FALSE, last |-> "none"]
Purposes == {"accepted", "targeted", "full"}

ASSUME TasksTyped ==
    InitialTasks \subseteq [plan : Seq([flag : Purposes, semantic : BOOLEAN]),
                           mayStay : BOOLEAN, mode : Modes]
ASSUME ResolutionsTyped ==
    \A t \in InitialTasks : Resolutions[t.plan] \subseteq [DOMAIN t.plan -> Statuses]
ASSUME StepsPositive ==
    {Configured, InspectLimit, MaxCalls, ManyFiles} \subseteq Nat \ {0}
ASSUME PolicyPerMode ==
    {Ceiling, Threshold, Patience} \subseteq [Modes -> Nat]
ASSUME ScopeOfPaths == Scope \subseteq Paths

Least(a, b) == IF a <= b THEN a ELSE b
Most == CHOOSE n \in {Patience[m] : m \in Modes} \cup {InspectLimit} :
            \A k \in {Patience[m] : m \in Modes} \cup {InspectLimit} : k <= n
\* A counter of the controller, as far as a limit is compared with it.
More(n) == Least(n + 1, Most)

-----------------------------------------------------------------------------
(***************************************************************************)
(* ValidationLedger                                                        *)
(***************************************************************************)

\* Two decisive runs that disagree are unstable, and prove nothing.
Proven(verdict) == verdict.good /\ ~verdict.bad
Open(l) == {c \in DOMAIN plan : ~Proven(l.verdict[c])}
\* next_required_check: the first in plan order.
NextCheck(l) == IF Open(l) = {} THEN None
                ELSE CHOOSE c \in Open(l) : \A d \in Open(l) : c <= d

\* acceptance_passed, targeted_passed, full_passed: none of an empty list.
FlagsOf(l) ==
    LET passed(flag) ==
            LET checks == {c \in DOMAIN plan : plan[c].flag = flag}
            IN  checks # {} /\ checks \cap Open(l) = {}
    IN  [accepted |-> passed("accepted"), targeted |-> passed("targeted"),
         full |-> passed("full")]

\* record_edit: evidence of an earlier revision counts for nothing.
NextRevision(owned) ==
    [revision |-> ledger.revision + 1, hasEdit |-> ledger.hasEdit \/ owned,
     verdict |-> [c \in DOMAIN plan |-> NoVerdict], unresolved |-> {}]

Judged(v, outcome) ==
    IF outcome = "inconclusive"
    THEN [v EXCEPT !.blanks = Least(@ + 1, 2), !.last = "blank"]
    ELSE [v EXCEPT !.good = @ \/ outcome = "passed", !.bad = @ \/ outcome = "failed",
                   !.last = "decisive"]
Recorded(c, outcome) == [ledger EXCEPT !.verdict[c] = Judged(@, outcome)]

\* TaskCompletionPolicy.evaluate returns READY; the plan already has the
\* regression check that the policy of the mode wants.
Ready(l) == plan # <<>> /\ Open(l) = {} /\ (l.hasEdit \/ mayStay)

-----------------------------------------------------------------------------
(***************************************************************************)
(* apply_runtime_event: a refused event leaves the state as it was, and    *)
(* its error ends the run; else the loop goes on at `to`                   *)
(***************************************************************************)

Emit(next, to) ==
    IF Refused(next) THEN task' = task /\ pc' = "raised"
    ELSE task' = next /\ pc' = to

End(outcome) ==
    /\ Emit(TaskEnded(task, outcome), "over")
    /\ UNCHANGED <<ledger, bound, gates, blocker, step, mode, left, work, fixed, history>>

\* completion_handler.check_after_batch and the other ways to finish.
Success(l) == IF l.hasEdit THEN "edited_and_validated" ELSE "already_satisfied"

\* What every new revision makes of the resolutions and of the histories.
Rebound ==
    /\ bound' \in Resolutions[plan]
    /\ probes' = [c \in DOMAIN plan |-> 0]

Unclosed(next) == next.unit # None /\ ~Closed(next.unit)

-----------------------------------------------------------------------------
(***************************************************************************)
(* The start of a task                                                     *)
(***************************************************************************)

Init ==
    /\ \E t \in InitialTasks : plan = t.plan /\ mayStay = t.mayStay /\ mode = t.mode
    /\ task = TaskStarted(NoFlags)
    /\ ledger = [revision |-> 0, hasEdit |-> FALSE,
                 verdict |-> [c \in DOMAIN plan |-> NoVerdict], unresolved |-> {}]
    /\ bound \in Resolutions[plan]
    /\ control = [phase |-> "inspecting", check |-> None, status |-> "none",
                  required |-> FALSE, looks |-> 0, idle |-> 0, probes |-> 0]
    /\ retry = None /\ final = [active |-> FALSE, proof |-> FALSE]
    /\ blocker = FALSE /\ undoable = FALSE /\ touched = {}
    /\ pc = "harness" /\ step = 0 /\ left = 0
    /\ spree = 0 /\ probes = [c \in DOMAIN plan |-> 0] /\ edits = 0 /\ foreign = 0

\* refresh_workspace_facts, before a call and after a command, finds a change
\* that the agent did not make.
NoticeChange ==
    /\ pc = "batch" /\ left > 0
    /\ foreign < MaxForeign /\ foreign' = foreign + 1
    /\ ledger' = NextRevision(FALSE) /\ Rebound
    /\ Emit(WorkspaceChanged(task, ledger'.revision), "batch")
    /\ spree' = 0 /\ undoable' = FALSE
    /\ UNCHANGED <<gates, blocker, step, mode, left, touched, fixed, edits>>

-----------------------------------------------------------------------------
(***************************************************************************)
(* execute_resolved_validations: the executor runs what it can             *)
(***************************************************************************)

\* What the executor does for the next check without a run.
Declined ==
    LET c == NextCheck(ledger)
        verdict == ledger.verdict[c]
        undecided == verdict.last = "blank" /\ verdict.blanks = 2
        missing == bound[c] = "capability_missing"
        again == c \in ledger.unresolved
    IN  CASE c = None -> "skipped"
          [] c # None /\ verdict.last = "decisive" -> "skipped"
          [] c # None /\ verdict.last # "decisive" ->
               CASE undecided \/ missing ->
                      IF plan[c].semantic THEN "skipped" ELSE "blocked"
                 [] ~undecided /\ bound[c] = "resolved" -> "runs"
                 [] OTHER -> IF again THEN "blocked" ELSE "unresolved"

\* A blocked check stops the task, unless it has just begun.
Stops == Declined = "blocked" /\ (ledger.hasEdit \/ step > 0)

HarnessRest ==
    /\ pc = "harness" /\ ~Ready(ledger) /\ Declined # "runs" /\ ~Stops
    /\ pc' = "prepare"
    /\ ledger' = IF Declined # "unresolved" THEN ledger
                 ELSE [ledger EXCEPT !.unresolved = @ \cup {NextCheck(ledger)}]
    /\ UNCHANGED <<task, bound, gates, blocker, step, mode, left, work, fixed, history>>

HarnessBlocked == pc = "harness" /\ Stops /\ End("blocked")

HarnessDone == pc = "harness" /\ Ready(ledger) /\ End(Success(ledger))

\* ValidationExecutor.execute and _emit.  A crash is seen as inconclusive;
\* after it, as after any run but a proof, the model gets its turn.
HarnessRun(outcome) ==
    /\ pc = "harness" /\ Declined = "runs"
    /\ LET c == NextCheck(ledger)
       IN  /\ ledger' = Recorded(c, outcome)
           /\ Emit(ValidationObserved(task, outcome, FlagsOf(ledger'),
                                      ledger.revision, None),
                   IF Proven(ledger'.verdict[c]) THEN "harness" ELSE "prepare")
    /\ UNCHANGED <<bound, gates, blocker, step, mode, left, work, fixed, history>>

\* The refresh after the run finds that the workspace changed: no evidence,
\* and the event is for the new revision.
HarnessDisturbed ==
    /\ pc = "harness" /\ Declined = "runs"
    /\ foreign < MaxForeign /\ foreign' = foreign + 1
    /\ ledger' = NextRevision(FALSE) /\ Rebound
    /\ Emit(ValidationObserved(WorkspaceChanged(task, ledger'.revision),
                               "inconclusive", FlagsOf(ledger'), ledger'.revision, None),
            "prepare")
    /\ spree' = 0 /\ undoable' = FALSE
    /\ UNCHANGED <<gates, blocker, step, mode, left, touched, fixed, edits>>

-----------------------------------------------------------------------------
(***************************************************************************)
(* _prepare_turn and the tool schemas of the turn                          *)
(***************************************************************************)

TaskMax(m) == Least(Configured, Ceiling[m])
Escalates ==
    \/ mode = "fast" /\ Cardinality(touched) >= ManyFiles
    \/ /\ TaskMax(mode) - step <= Margin /\ mode # "complex"
       /\ ~FlagsOf(ledger).accepted
ModeNow == IF Escalates THEN Raised[mode] ELSE mode

\* Low on steps for the first time.
Finalizes(remaining) ==
    /\ ~final.active /\ remaining < TaskMax(ModeNow)
    /\ remaining <= Threshold[ModeNow]

\* update_context: another obligation has its own probes.
Updated(c, status) ==
    [control EXCEPT
        !.check = c, !.status = status, !.phase = task'.phase,
        !.probes = IF c = control.check /\ status = control.status THEN @ ELSE 0]

Prepare ==
    /\ pc = "prepare" /\ mode' = ModeNow
    /\ LET remaining == TaskMax(ModeNow) - step
           c == NextCheck(ledger)
           status == IF c = None THEN "none" ELSE bound[c]
       IN  IF remaining <= 0
           THEN Emit(TaskEnded(task, "incomplete"), "over") /\ UNCHANGED gates
           ELSE /\ IF Finalizes(remaining)
                   THEN /\ Emit(PhaseChanged(task, "finalizing"), "chat")
                        /\ final' = [active |-> TRUE,
                                     proof |-> status = "target_unresolved"]
                   ELSE pc' = "chat" /\ UNCHANGED <<task, final>>
                /\ control' = Updated(c, status) /\ UNCHANGED retry
    /\ UNCHANGED <<ledger, bound, blocker, step, left, work, fixed, history>>

-----------------------------------------------------------------------------
(***************************************************************************)
(* The gates, in the order of resolve_tool_restriction                     *)
(***************************************************************************)

Inspections == {"read", "look", "symbol"}
Edits == {"edit", "replace"} \* replace: replace_symbol
\* check: the exact call the harness is bound to; own: a command the model
\* chose for a proof; diagnose: a command that claims none.
Plain == {"look", "symbol", "check", "own", "diagnose"}
Calls == [tool : {"read"} \cup Edits, path : Paths]
         \cup [tool : Plain, path : {None}]

NeedsRead == retry # None /\ retry.kind = "stale" /\ ~retry.read
Probing == control.phase \in {"validating", "finalizing"}
Unresolved == Probing /\ control.status = "target_unresolved"

MilestoneGate(k) == k.tool \in Edits /\ EditsHeld(task)
TargetGate(k) == k.tool = "own" /\ control.status = "resolved"

RetryGate(k) ==
    /\ retry # None
    /\ ~ CASE retry.kind = "symbol" /\ ~retry.read -> k.tool = "symbol"
           [] retry.kind = "symbol" /\ retry.read -> k.tool = "replace"
           [] retry.kind = "stale" /\ ~retry.read ->
                k.tool = "read" /\ k.path = retry.path
           [] OTHER -> k.tool \in Edits /\ k.path = retry.path

FinalGate(k) == k.tool \in Inspections /\ final.active /\ ~final.proof

\* _inspection_limit.
Limit == CASE control.phase = "inspecting" -> InspectLimit
           [] control.phase \in {"acting", "fixing"} -> 1
           [] OTHER -> IF Unresolved THEN 1 ELSE 0

\* ExecutableToolPolicy.resolve, for inspections.
Inspectable(k) ==
    CASE NeedsRead -> k.tool = "read"
      [] ~NeedsRead /\ control.required ->
           k.tool = "read" /\ control.phase = "fixing" /\ control.looks < 1
      [] ~NeedsRead /\ ~control.required /\ Probing ->
           Unresolved /\ control.probes < 1
      [] OTHER ->
           /\ control.phase = "fixing" => k.tool = "read"
           /\ control.looks < Limit

\* An unresolved check asks only for its own grant.
PolicyGate(k) == k.tool \in Inspections /\ ~Unresolved /\ ~Inspectable(k)
MutProbeGate(k) ==
    /\ k.tool \in Inspections /\ Probing
    /\ ~Unresolved \/ k.path \notin Scope \cup {None}

ProbeGate(k) ==
    /\ k.tool \in Inspections /\ Probing
    /\ ~Unresolved \/ control.probes >= 1 \/ k.path \notin Scope \cup {None}
PathGate(k) ==
    \/ k.tool \in Edits /\ k.path \notin Scope
    \/ k.tool = "read" /\ control.phase = "fixing" /\ k.path \notin Scope
ActionGate(k) == PolicyGate(k) \/ ProbeGate(k) \/ PathGate(k)

Restricted(k) == MilestoneGate(k) \/ TargetGate(k) \/ RetryGate(k)
                 \/ FinalGate(k) \/ ActionGate(k)
ByAction(k) == ~MilestoneGate(k) /\ ~TargetGate(k) /\ ~RetryGate(k)
               /\ ~FinalGate(k) /\ ActionGate(k)

\* _activate, by a refused inspection.
Activates(k) ==
    /\ ByAction(k) /\ k.tool \in Inspections
    /\ \/ PolicyGate(k) /\ control.phase \in {"inspecting", "acting"}
       \/ Unresolved /\ control.probes >= 1

-----------------------------------------------------------------------------
(***************************************************************************)
(* The batch: each call observed by the controller, the batch left early   *)
(* when a gate, an edit recovery or a validation says so                   *)
(***************************************************************************)

\* observe_action.
Seen(c, k, advanced) ==
    IF advanced THEN [c EXCEPT !.looks = 0, !.idle = 0, !.required = FALSE]
    ELSE [c EXCEPT !.idle = More(@),
                   !.looks = IF k.tool \in Inspections THEN More(@) ELSE 0]

\* The next step of run_agent_loop, when the configured steps allow one, or
\* the next call of the batch.
Turn == IF step + 1 < Configured THEN "harness" ELSE "spent"
NextTurn == step' = step + 1 /\ left' = 0
Stay == left' = left - 1 /\ UNCHANGED step

Running(k) == /\ pc = "batch" /\ left > 0 /\ k \in Calls
              /\ k.tool = "check" => control.status = "resolved"

Restrict(k) ==
    /\ Running(k) /\ Restricted(k)
    /\ control' = Seen([control EXCEPT !.required = @ \/ Activates(k)], k, FALSE)
    /\ Emit(IF ByAction(k) THEN PhaseChanged(task, "acting") ELSE task, Turn)
    /\ NextTurn
    /\ UNCHANGED <<ledger, bound, retry, final, blocker, mode, work, fixed, history>>

\* An inspection.  The one that a retry waits for ends the batch.
Inspect(k, found) ==
    /\ Running(k) /\ k.tool \in Inspections /\ ~Restricted(k)
    /\ control' =
         Seen([control EXCEPT !.probes = IF Unresolved THEN @ + 1 ELSE @], k, FALSE)
    /\ probes' = IF ~Unresolved THEN probes
                 ELSE [probes EXCEPT ![control.check] = @ + 1]
    /\ IF retry # None /\ found
       THEN /\ retry' = [retry EXCEPT !.read = TRUE]
            /\ Emit(RecoveryStarted(task), Turn) /\ NextTurn
       ELSE Stay /\ UNCHANGED <<task, pc, retry>>
    /\ UNCHANGED <<ledger, bound, final, blocker, mode, work, fixed,
                   spree, edits, foreign>>

\* EditResultHandler.apply.  An edit that completes steps of the agent's plan
\* ends the batch.  Every proof is gone, so the task is not ready yet.
EditApplies(k, completed) ==
    /\ Running(k) /\ k.tool \in Edits /\ ~Restricted(k) /\ edits < MaxEdits
    /\ ledger' = NextRevision(TRUE) /\ Rebound
    /\ Emit(EditApplied(task, ledger'.revision), IF completed THEN Turn ELSE "batch")
    /\ IF completed THEN NextTurn ELSE Stay
    /\ retry' = None /\ control' = Seen(control, k, TRUE)
    /\ undoable' = TRUE /\ touched' = touched \cup {k.path}
    /\ edits' = edits + 1 /\ spree' = spree + 1
    /\ UNCHANGED <<final, blocker, mode, fixed, foreign>>

\* What EditRetryPolicy.observe leaves pending after a failed edit.
Pending(kind, path, read) == [kind |-> kind, path |-> path, read |-> read]
\* A preview of the whole file makes the read unnecessary, for patch_file and
\* write_file.
Authoritative(k, preview) == preview /\ k.tool = "edit"
AfterFailure(k, failure, preview) ==
    CASE failure = "stale" ->
           IF retry # None THEN None
           ELSE Pending("stale", k.path, Authoritative(k, preview))
      [] failure = "symbol" -> Pending("symbol", k.path, FALSE)
      [] failure = "refused" -> retry
      [] OTHER -> None

\* A stale or ambiguous text, a missing symbol, and a refused or empty edit
\* start a recovery; any other failure is an observation of the batch.
EditFails(k, failure, preview) ==
    /\ Running(k) /\ k.tool \in Edits /\ ~Restricted(k)
    /\ failure = "symbol" => k.tool = "replace"
    /\ retry' = AfterFailure(k, failure, preview)
    /\ blocker' \in {blocker, blocker \/ failure = "refused"}
    /\ control' = Seen(control, k, FALSE)
    /\ IF failure = "other" THEN Stay /\ Emit(PhaseChanged(task, "acting"), "batch")
       ELSE NextTurn /\ Emit(RecoveryStarted(task), Turn)
    /\ UNCHANGED <<ledger, bound, final, mode, work, fixed, history>>

\* The ledger, and the record, after a run with evidence for the bound check
\* or for none.
AfterRun(k, outcome) ==
    IF k.tool = "check" THEN Recorded(control.check, outcome) ELSE ledger
Observed(k, outcome, l) ==
    ValidationObserved(task, outcome, FlagsOf(l), ledger.revision,
        IF k.tool = "check" /\ task.unit # None THEN Open(l) = {} ELSE None)

\* ValidationResultHandler.apply.  ProgressTracker's signal and the
\* orchestrator's decision are free; a rollback that fails is a restart.
Validate(k, outcome, advanced, decision) ==
    /\ Running(k) /\ k.tool \in {"check", "own"} /\ ~Restricted(k)
    /\ ledger' = AfterRun(k, outcome)
    /\ control' = Seen(control, k, advanced)
    /\ LET observed == Observed(k, outcome, ledger')
       IN  /\ spree' = IF Unclosed(observed) THEN spree ELSE 0
           /\ CASE Ready(ledger') ->
                     /\ Emit(TaskEnded(observed, Success(ledger')), "over")
                     /\ UNCHANGED <<step, left>>
                [] ~Ready(ledger') /\ decision = "stop" ->
                     /\ \E result \in {"blocked", "incomplete"} :
                          Emit(TaskEnded(observed, result), "over")
                     /\ UNCHANGED <<step, left>>
                [] OTHER ->
                     IF decision = "restart" THEN Emit(observed, Turn) /\ NextTurn
                     ELSE Emit(observed, "batch") /\ Stay
    /\ UNCHANGED <<bound, retry, final, blocker, mode, work, fixed,
                   probes, edits, foreign>>

\* RollbackCoordinator.coordinate, in the same handler: a failed run that is
\* a regression from an earlier revision undoes the edit of this one, which
\* makes a revision of its own.  Whether it compares, and the judge, are free.
RollBack(k) ==
    /\ Running(k) /\ k.tool \in {"check", "own"} /\ ~Restricted(k)
    /\ undoable /\ undoable' = FALSE
    /\ k.tool = "check" => ~ledger.verdict[control.check].good \* else unstable
    /\ ledger' = NextRevision(TRUE) /\ Rebound
    /\ LET undone == RollbackApplied(Observed(k, "failed", AfterRun(k, "failed")),
                                     ledger'.revision)
       IN  /\ Emit(undone, Turn)
           /\ spree' = IF Unclosed(undone) THEN spree ELSE 0
    \* automatic_rollback and the call: neither advances.
    /\ control' = Seen(Seen(control, k, FALSE), k, FALSE)
    /\ retry' = None /\ NextTurn
    /\ UNCHANGED <<final, blocker, mode, touched, fixed, edits, foreign>>

\* A command that claims no proof, or a validation without evidence.
Command(k) ==
    /\ Running(k) /\ k.tool \in {"diagnose", "own", "check"} /\ ~Restricted(k)
    /\ control' = Seen(control, k, FALSE) /\ Stay
    /\ UNCHANGED <<facts, pc, retry, final, blocker, mode, work, fixed, history>>

\* update_pressure, at the end of a batch that no call cut short.
Pressed ==
    \/ control.looks >= Limit
    \/ control.idle >= Patience[mode]

EndBatch ==
    /\ pc = "batch" /\ left = 0
    /\ IF Pressed /\ ~control.required
       THEN /\ control' = [control EXCEPT !.required = TRUE]
            /\ Emit(PhaseChanged(task, "acting"), Turn)
       ELSE pc' = Turn /\ UNCHANGED <<control, task>>
    /\ NextTurn
    /\ UNCHANGED <<ledger, bound, retry, final, blocker, mode, work, fixed, history>>

-----------------------------------------------------------------------------
(***************************************************************************)
(* The model's replies and the end of the steps                            *)
(***************************************************************************)

ReplyCalls(n) ==
    /\ pc = "chat" /\ n \in 1..MaxCalls
    /\ pc' = "batch" /\ left' = n
    /\ UNCHANGED <<facts, gates, blocker, step, mode, work, fixed, history>>

\* A text: a blocker it may name, another turn under pressure, or the end.
ReplyText ==
    /\ pc = "chat" /\ TaskMax(mode) - step > 1
    /\ control' = [control EXCEPT !.required = TRUE]
    /\ NextTurn /\ pc' = Turn
    /\ UNCHANGED <<facts, retry, final, blocker, mode, work, fixed, history>>
ReplyBlocked == pc = "chat" /\ blocker /\ End("blocked")
LastText == pc = "chat" /\ TaskMax(mode) - step <= 1 /\ End("incomplete")

\* handle_budget_exhausted: a completed task is still one.
Exhausted ==
    /\ pc = "spent"
    /\ End(IF Ready(ledger) THEN Success(ledger) ELSE "incomplete")

\* The run has returned, or an error has ended it.
Over == pc \in {"over", "raised"} /\ UNCHANGED vars

Next ==
    \/ NoticeChange \/ HarnessRest \/ HarnessBlocked \/ HarnessDone
    \/ HarnessDisturbed \/ Prepare \/ EndBatch
    \/ ReplyText \/ ReplyBlocked \/ LastText \/ Exhausted \/ Over
    \/ \E outcome \in {"passed", "failed", "inconclusive"} : HarnessRun(outcome)
    \/ \E n \in 1..MaxCalls : ReplyCalls(n)
    \/ \E k \in Calls : Restrict(k) \/ RollBack(k) \/ Command(k)
    \/ \E k \in Calls, found \in BOOLEAN : Inspect(k, found)
    \/ \E k \in Calls, completed \in BOOLEAN : EditApplies(k, completed)
    \/ \E k \in Calls, failure \in {"stale", "symbol", "refused", "other"},
          preview \in BOOLEAN : EditFails(k, failure, preview)
    \/ \E k \in Calls, outcome \in {"passed", "failed", "inconclusive"},
          advanced \in BOOLEAN, decision \in {"go", "restart", "stop"} :
         Validate(k, outcome, advanced, decision)

Spec == Init /\ [][Next]_vars

-----------------------------------------------------------------------------
(***************************************************************************)
(* Properties                                                              *)
(***************************************************************************)

\* Every variable has its type: one invariant for the state that the loop,
\* its gates and the reducer keep.
TypeOK ==
    /\ task \in TaskType
    /\ plan \in {t.plan : t \in InitialTasks} /\ mayStay \in BOOLEAN /\ blocker \in BOOLEAN
    /\ undoable \in BOOLEAN /\ touched \subseteq Paths
    /\ ledger \in [revision : Nat, hasEdit : BOOLEAN,
                   verdict : [DOMAIN plan -> Verdicts], unresolved : SUBSET DOMAIN plan]
    /\ bound \in [DOMAIN plan -> Statuses]
    /\ control \in [phase : Phases, check : DOMAIN plan \cup {None},
                    status : Statuses \cup {"none"}, required : BOOLEAN,
                    looks : Nat, idle : Nat, probes : Nat]
    /\ retry \in [kind : {"stale", "symbol"}, path : Paths, read : BOOLEAN] \cup {None}
    /\ final \in [active : BOOLEAN, proof : BOOLEAN]
    /\ pc \in {"harness", "prepare", "chat", "batch", "spent", "over", "raised"}
    /\ step \in Nat /\ mode \in Modes /\ left \in Nat
    /\ spree \in Nat /\ probes \in [DOMAIN plan -> Nat]
    /\ edits \in Nat /\ foreign \in Nat

\* The record that prompts, gates and reports read says of the revision, of
\* edits and of each kind of proof what the ledger says, whoever moved the
\* ledger: an edit, a rollback, a run or another program; and no event of a
\* task with an acceptance check is refused.
StateFollowsLedger ==
    /\ pc # "raised" => /\ task.revision = ledger.revision
                        /\ task.hasEdit = ledger.hasEdit
                        /\ task.flags = FlagsOf(ledger)
    /\ (\E c \in DOMAIN plan : plan[c].flag = "accepted") => pc # "raised"

\* "Bounded edit unit": however validations of the harness and of the model
\* come between, no more than edit_budget edits are applied until a
\* milestone, a rollback or another program's change closes the unit.
UnitBounded == spree <= EditBudget

\* "A model cannot turn unresolved binding into open-ended reconnaissance": at
\* one revision each check is given two inspections at most to resolve it, one
\* of its own, and one in the batch that made the revision, which is granted on
\* what the turn began with.
ProbesBounded == \A c \in DOMAIN plan : probes[c] <= 2

\* record_task_outcome keeps "the central state and exported metrics
\* consistent on every exit": the reducer takes every outcome reported.
CompletionIsRecorded == pc # "raised"

\* "Stale-edit recovery must be able to refresh even under action_required /
\* finalization recon lockdown": the read it asks for is let through.
RefreshIsPossible ==
    pc = "batch" /\ left > 0 /\ NeedsRead =>
        ~Restricted([tool |-> "read", path |-> retry.path])
=============================================================================

# MiniCodex in TLA+

MiniCodex is a coding agent: one Python process in which a worker thread lets a
language model call tools on a workspace, a host (HTTP server or console) starts,
stops, approves and reviews its tasks, and the user and other programs write the
same files. This directory holds TLA+ modules translated from its source
(`src/minicodex`), the TLC configurations that check them on small instances, and
theorems that TLAPS checks for every value of the constants.

To check: `tlc -config <Run>.cfg MC<Module>.tla`, `tlapm <Module>Proofs.tla`.
`PROJECT.json` maps every definition that models code to its source lines, names
the runs, their properties and, for each property, a mutated definition under
which it fails.

## 1. Inventory

Paths are relative to `src/minicodex`.

| Component | State | Operations | What makes it hard, what makes it correct |
|---|---|---|---|
| Edit checkpoints (`agent/editing/checkpoint.py`, `checkpoint_executor.py`) | list of checkpoints, counter, `history_trimmed` | capture, conflict check, physical edit, seal, discard, trim, reset | other programs write between any two file-system calls; edits fail half way. No foreign text is destroyed; no half-made checkpoint is ever restored |
| Rollback and undo (`rollback.py`, `rollback_coordinator.py`, `Agent.undo_task`) | none of its own; the checkpoint list, the files, the revision | rollback of the last edit, undo of a task (dry run, then rollbacks) | the dry run and the rollbacks are separate passes. A reported undo is an undo; an undo that began completes |
| Edit tools (`tools/editing`, `edit_verifier.py`) | none | read, compute, write, verify | text decoding is not the inverse of writing |
| Edit failures and retries (`edit_failure.py`, `edit_retry.py`, `edit_strategy.py`, `edit_intent.py`) | the pending recovery, its target, whether it was read again | observe, record, reset, gate | after a failed edit exactly one read and one replacement are due, while other gates forbid both |
| Approval (`agent/safety/approval.py`) | the pending request, its choice, grants of the task | intervene, resolve, cancel_pending, begin_task | a condition variable between worker and HTTP threads; deadline, stop and answer race |
| Safety executor, permission modes (`safety_executor.py`, `safety.py`) | mode | execute_prepared | three gates in order; nothing runs that the mode or the person forbade |
| Task runtime (`agent/runtime/async_runtime.py`, `execution_control.py`) | worker thread, status, result, done event, token, trace stream | start, worker, cancel, boundaries, stream | cancellation is cooperative; status has two writers; the stream's last drain races with the worker |
| Web controller (`ui/server.py`) | current task, published result, review, terminal | start_task, watch, poll, finalize, cancel, resolve, accept, reject, file browser | watcher and polls of several tasks race; done and published are two moments |
| Terminal (`ui/terminal.py`) | child process, descriptor, output ring, generation | start, write, resize, stop, reader thread | descriptor used outside the lock |
| Validation ledger (`agent/validation/ledger.py`, `evidence.py`, `contracts.py`) | edit revision, plan of checks, evidence, observations | record_edit, record, proof | proof only from the current revision, only of the text that revision stands for, and only if no run contradicts it |
| Validation execution (`executor.py`, `pipeline.py`, resolvers) | blocked checks, attempts | resolve, execute, observe | the workspace may change during a check; retries are bounded by two counters that share the runs |
| Completion policy (`completion_policy.py`, `decision_policy.py`, `regression_policy.py`, `completion_handler.py`) | none of its own | evaluate, choose the next check, materialize regression checks | asked at five places of the loop; a task is complete only on proof of every required check, and what the policy asks for must be in the plan |
| Agent loop (`agent.py`, `agent/orchestration/loop.py`, `runtime/task_control.py`) | step, mode, budget, prepared check | turns, batches, escalation, finalization, completion | several ways to continue, a budget that grows with the mode; all of them must run out |
| Tool batches and messages (`tool_event_adapter.py`, `tool_batch*.py`, `message_protocol.py`) | message history | answer every call of a model message, stop early, restart the turn | a dozen ways out of a batch; each must answer the remaining calls, or the next request is refused |
| Task state (`agent/task_state.py`) | phase, revision, edits, proof flags, work unit | a reducer over events, which refuses a state that violates its invariants | a second copy of what ledger and loop know, moved by events on five paths; a refused event ends the run |
| Plans (`agent/planning`, `plan_orchestrator.py`) | steps, attempts, status | first and late plan, progress by criteria, attempts, rest, replan | attempts are counted for the step the turn began with, which may be done or replaced since; finished work must not come back |
| Managed processes (`managed_process.py`) | services | start, readiness, stop | the process may die at any time |
| Workspace session (`agent/context/workspace_session.py`) | fingerprints, dirty paths, count of unlooked refreshes, project profile | refresh, invalidate | external changes are sampled, not seen; the profile decides which regression check is asked for |
| Action pressure (`progress/action_controller.py`, `executable_tool_policy.py`, `finalization.py`) | looks in a row, idle calls, probes, action required | gate each call, observe it, press at the end of a batch | five gates in an order; a limit that is kept on the controller about a check of the ledger |
| Progress and recovery (`progress/progress.py`, `progress/recovery.py`, `validation/semantic_judge.py`, `regression_policy.py`) | series of comparable validations, stalls, level, repairs | compare, warn, replan, roll back, stop | results are comparable only for one key and one text |
| Memory (`agent/memory`) | working memory, summary, a store of tasks in one file | record, invalidate, save, load, retrieve | facts go stale at every revision, also at the one that a validator's own run begins; two processes write one file |
| Trace (`observability/trace_runtime.py`, `trace.py`, `AsyncAgentTask.stream`) | a bounded list of events, a cursor | begin, end, drain | calls that raise or are cancelled; a list that is cut and cleared under the cursor of another thread |
| Routing, models, command line, front end, evaluation | records, text | | heuristics, text and I/O: see section 8 |

**Interactions.** The worker runs the loop. The loop asks the model, then sends
each tool call through CancellableToolExecutor (the token), SafetyToolExecutor (the
mode and the approval) and CheckpointToolExecutor (capture and seal) to the tool.
A successful edit bumps the ledger's revision. Validators produce evidence for that
revision, the completion policy reads it, and a worse result may roll the edit
back. The host thread shares with the worker the token, the done event, the status
field and the approval coordinator. The controller publishes a done task once,
opens a review if it left sealed checkpoints, and undoes them on reject. The user's
shell and editor share only the files.

PROJECT.json `hazards` lists, line by line, what is hard to test in all this and
which property is aimed at it.

## 2. Modules

| Module | Models | Composition |
|---|---|---|
| `Checkpoints` | checkpoints, edit tools, rollback, task undo, against the writes of other programs | stands alone; the ledger appears as its revision counter |
| `Permits` | what a person who is asked for permission may rely on: the abstract specification of `Approval` | stands alone |
| `Approval` | safety executor, approval coordinator, token, modes | instantiates `Permits` as `Person`, which it implements |
| `Session` | one worker and the controller: start, run, stop, publish, review, terminal | instantiates `Approval` as `A`: an approval wait is a step of the worker |
| `Validation` | workspace session, ledger, executor, completion policy and agent loop of one task | stands alone; an edit appears as its write and its recording, whose inner steps are `Checkpoints` |
| `TaskState` | the reducer of runtime events and the work unit, as operators on a record | no state of its own |
| `ToolGates` | the gates before every tool call, action pressure, finalization, edit retry, and what every call does to ledger and task state | extends `TaskState`; the ledger appears as a verdict for each check, whose evidence is `Validation` |
| `Lists` | the filter by which the program drops elements of a list | no state of its own |
| `Turns` | the message history, the plan, progress, recovery and regressions, over the turns and batches of a task | extends `Lists`; which calls are refused is `ToolGates` |
| `Memory` | working memory and summary of a task, the store that several processes share | extends `Lists` |
| `Trace` | the trace recorder, the traced calls of the worker, the stream that reads them | stands alone; the worker of `Session`, seen by its events |
| `...Proofs` | theorems about `Checkpoints`, `Approval`, `Session`, `Validation`, `ToolGates`, `Turns`, `Memory`, `Trace` | extend the module they are about; `SessionProofs` instantiates `ApprovalProofs` |
| `MC...` | constants and symmetry for TLC | extend the module they instantiate |

### Checkpoints

The agent is one sequential thread, so `pc` names the next file-system step of the
operation in progress and `kind` the operation; between any two steps `UserWrite`
may change or delete a file. One action is one critical file-system call with the
bookkeeping that follows it: `Capture`, `PassConflictCheck`, `ToolRead`,
`ToolWrite`, `VerifyPasses`, `SealCheckpoint`, `RecordEdit` are the successful
edit, `AbandonEdit`, `ToolWriteFault`, `VerifyFails`, `SealFails`,
`CancelAfterEdit` its other ends. `StartRollback` (coordinator) and `StartUndo`
(reject) share `GuardPasses`, `RestoreBefore`, `ConfirmRollback`/`ConfirmUndo`.

A file holds raw bytes. `Decode` is universal-newline reading; writing is raw; a
hash is represented by the decoded text it is taken of. `FileOf` is path
resolution, so that two spellings may name one file. The history variables
(`base`, `touched`, `unprotected`, `raced`, `lost`, `disturbed`) are read by
properties only.

### Approval

One action is one critical section of the coordinator's condition variable. A
recorded answer (`Resolve`, `CancelPending`) and the waking of the worker
(`WakeAnswered`) are two sections: everything interesting happens between them. The
deadline is an action that may be taken at any time (`WakeTimedOut`). The worker
takes the lock again at most 0.1 s after each change, hence the fairness `Wakes`.

`Permits` knows nothing of locks, tokens, request numbers or deadlines. Under the
refinement mapping the question it speaks of is the call of the waiting worker
(`CallsAt("waiting")`), the calls that run are those of the workers at "running", the
word is `choice`, which outlives neither the answer nor the question, and the standing
grants are `allowedRules`. A stop is somebody saying "reject"; a deadline is a refusal
of a question nobody answered; the cancellation boundaries are stutters. A call that
was granted once leaves nothing behind by which a second call could run.

### Session

`step` is where the worker is; each cancellation boundary is an action that either
goes on or ends in "cancelled". `status` has two writers, the worker and
`StopStatus`. `done` and `published` are set by different threads. Watchers and
polls carry the task they saw (`watching`, `polls`) and may be arbitrarily late. The
controller's lock is held from `Stop` to `StopStatus` (`stopping`), because
`cancel_task` calls into the task while holding it; other controller operations are
single actions.

### Validation

The loop is one thread too. `pc` names its place: `validate`, `running`, `ran` are
`execute_resolved_validations` (`StartRun`, `EndRun` and `ObserveRun` with the ways
not to run: `AwaitRepair`, `GiveUp`, `CapabilityMissing`, `TargetUnresolved`);
`ready`, `context`, `chat` are the turn (`PrepareTurn`, `BuildContext`, the model's
`TextReply` or `ToolReply`); `batch`, `call`, `edited`, `checking`, `checked`,
`settled` are one call (`BeginCall`, then `OtherCall`, `Edit` and `RecordEdit`,
`FailEdit`, or `StartCheck`, `EndRun`, `ObserveCheck`, `SettleCheck` or `Rollback`).
`Complete` is `check_after_batch` at the five places that call it.

`text` numbers the contents of the workspace and every write makes a new one; `unseen`
holds the files whose change the session's fingerprint does not show yet. `Refresh` is
`WorkspaceSession.refresh(periodic=True)`: dirty paths only, or a walk at every
`Interval`-th call, or nothing; a change found by a walk is an external revision.
`offer` is what the manifest names by itself, `tests` the test files there are, `known`
those among the paths of the session, and `profile` the test command made of both
(`ProfileOf`). `ProfileAfter` keeps what the code distinguishes: a walk that finds any
change makes the profile anew, while of dirty paths only the manifest does, so that the
first test file of an edit is known and the profile still without a command.
`ForeignWrite` may fall between any two steps, also into a validator's run, which is
where a generator that the validator starts would write.

A check is its place in the plan, evidence is (check, revision, outcome, whether the
target is a test the agent wrote) with the text the run saw at its start and end,
which only properties read. Replies of the model, outcomes of validators and what a
test mapping finds are free choices. `unnoticed`, `bodies`, `edits` and `foreign` are
history and bounds.

### TaskState and ToolGates

`TaskState` has one operator for each event that changes what a gate or a report
reads; `Refused` is what `TaskRuntime.apply` raises an error for. `ToolGates` sends
the events through `Emit`, so that a refused one leaves the record alone and ends the
run (`pc = "raised"`), as the exception does.

`pc` is the place in the loop: `harness` (`HarnessRun` and the ways not to run),
`prepare` (mode, finalization, the check the controller is told of), `chat`, `batch`
with `left` calls to go, `spent`, `over`. `Restricted` is `resolve_tool_restriction`:
`MilestoneGate` (work unit), `TargetGate` (bound validator), `RetryGate`, `FinalGate`,
`ActionGate`, in that order, because only a refusal by the last one activates pressure.
A call that passes is `Inspect`, `EditApplies` (which ends the batch when it completes
steps of the plan), `EditFails`, `Validate`, `RollBack` or `Command`; `NoticeChange` is
the refresh that finds a foreign change. `RollBack` is a validation whose failure makes
the coordinator undo the edit of the present revision: the failed run moves ledger and
record (`AfterRun`, `Observed`), then the rollback makes a revision of its own in the
ledger and sends ROLLBACK_APPLIED, which fails the unit; the pending retry is dropped
and the turn ends. `undoable` says that there is such an edit, `touched` which files
were edited, by which FAST is escalated. `control`, `retry` and `final` are the three
controllers; `control` keeps what the turn began with, which is how it can be stale. A
call is its kind and the file it names; what the resolver, the validator and the
progress tracker say, which failed run counts as a regression and what the judge says of
it, is free. `spree` and `probes` are history.

### Turns

`pending` and `broken` are `validate_tool_message_protocol` folded over the messages:
the calls not yet answered, and a message out of place. `CloseBatch` answers the rest
of the batch and validates, `Continue` answers one call, `Say` appends any other
message; each way a call can end is an action (`CallFails` to `CallReplanned`) that
takes one of them. `plan` has the open steps and the finished ones; `current` is the
step the turn began with. `BeginTurn` to `BeginStopped` are `begin_turn` and the
levels of recovery. A run of a validation is `v \in Runs`: its key, its result and what
it comes to against the last one of that key (`Trend`); what `ValidationOrchestrator`
makes of it is one action per outcome. What criteria say of a step, what the model
plans and what the judge thinks is free.

### Memory

Each process has the memory of its task and a view of the store. `CallTool`, `CallEdit`,
`NoticeChange`, `RollBack` are the paths on which facts are recorded and dropped, in the
order of `tool_event_adapter.py` and `tool_result_handlers.py`: a call that may run
programs is its run, the refresh after it, which may begin a revision (`After`), and the
recording of its result under the revision of then. `born` keeps both revisions of a
fact, that of the run and that of the recording. `save` is `OpenTmp`, `FinishWrite`,
`Replace` (or `SaveFails`), because its temporary name is the same for all processes;
`fd` is which file an open descriptor refers to, which a rename does not change. `Leave`
is the end of a process at any moment, a kill included.

### Trace

The worker is a stack of traced calls (`frames`). A wrapper writes an event when its
call begins and others when it ends; `todo` holds those not yet written. `Emit` and
`Trim` are the two statements of `TraceRecorder.emit` between which the other thread
may read. The listener is `Poll`, `CheckDone`, `FinalDrain` with a cursor into the
list. Cancellation is looked at outside the wrappers (`Check`, `Refuse`), and `Handled`
is any caller that catches what its call raised. `said` and `spoken` are history.

## 3. Runs

| Run | Shows |
|---|---|
| `checkpoints_history` | one file under one name, three edits with a history of two, rollbacks and undo, a foreign write and a fault anywhere, CRLF text: no half-made checkpoint is left (`NoLeftoverCheckpoint`), text is lost only between a check and its write (`LossOnlyInWindow`), a reported undo is one (`UndoneMeansRestored`), revisions are distinct (`RevisionNamesOneEdit`), the dry run of undo is as strict as the rollbacks (`UndoIsAtomicUndisturbed`), undo refuses only with a reason (`RefusalIsJustified`), every operation ends (`OperationsEnd`) |
| `approval_requests` | two workers, three modes, two tasks, two requests with two answers each: a waiting worker owns the pending request (`NobodyStranded`), what runs is permitted, by an answer to that very request where one is needed (`GrantedOnlyByAnswer`, `RunsOnlyIfPermitted`), an answer counts for one call or for the rule until the task ends (`KeepsPermits`, the refinement), `StopWakes` without any deadline, `EveryRequestCloses` with it |
| `session_tasks` | two tasks of two turns and three tool calls, one approval, all races of watchers, polls, stops, reviews and the shell: `PublishedOnce`, `ShowsCurrentTask`, `ShellExcludesAgent`, `DecisionIsFinal`, `TasksSettle`; after a stop at most one more tool body starts (`StopBoundsTools`) |
| `validation_text` | two turns of one call, one edit and one foreign write of a manifest or a test file, any mode, any test runtime: what counts as proof saw the present text as far as the revision tells (`ProofsArePresent`), success is reported only on it (`SuccessIsEarned`), an edit leaves the regression check its mode asks for, also if it adds the command itself, unless a first test file came after the profile was made (`EditsAreCovered`) |
| `validation_budget` | four turns with escalations, crashes and inconclusive runs: a check is run at most three times at one revision (`HarnessRunsBounded`), the task ends (`TaskEnds`) |
| `gates_task` | three turns of two calls of any kind, three edits, rollbacks, one foreign change, every outcome: the reducer's record agrees with the ledger and no event is refused (`StateFollowsLedger`), a work unit does not outgrow its budget (`UnitBounded`), a check that cannot be resolved gets two looks at most at a revision (`ProbesBounded`) |
| `turns_task` | three turns of two calls, a plan of two steps, every way a call can end: the history sent is always closed (`ProtocolKept`), no turn begins on a step without attempts (`StalledStepHandled`), finished work stays finished and is not asked for again (`WorkIsKept`) |
| `memory_tasks` | two processes and two tasks on one store, kills and failed saves anywhere: facts are of this task, and no revision began since a validation was recorded, nor while it ran but the one it is recorded under (`MemoryIsFresh`), what was saved is found again unless saves overlap (`StoreKeepsTasks`) |
| `trace_stream` | three nested calls that return, raise or are cancelled, a late undo, a reused recorder: the stream yields events in order and once, and all of them when there was room (`StreamFaithful`), the trace is nested and closed (`StartsAreClosed`) |

`session_review_gap`, `gates_recorded` and `validation_regression` end in a counterexample;
they are the findings of section 6.

### Bounds

| Bound | What it caps | Why it is enough |
|---|---|---|
| `MaxEdits` of `Checkpoints` | captures of a task | three edits overflow a history of two, and give a chain with a middle |
| `MaxCheckpoints` | the real limit of the code, made small | it must be reached |
| `MaxUserWrites`, `MaxFaults` | foreign writes, failing calls | each property names a file hurt by one of them; a second only repeats it |
| `2 * MaxEdits` on the revision | noticed external changes | they only add to a counter |
| `MaxRequests`, `MaxAnswers` | requests and answers to each | two: an answer for an old request, and an answer after an answer |
| `MaxTasks` | tasks | two: a late thread of the old one and a current one |
| `Files` of `Checkpoints` | one file under one name | checkpoints of different files meet only in the list, its trimming and the order of an undo, and a chain of three on one file has all three; the theorems have any files and spellings |
| `Rules` of `Approval` | standing grants | one: `NothingRunsUnpermitted` is proved for any number |
| `Configured`, `Ceiling` | turns (20, and 8/12/24, in the code) | two turns for what one edit and one foreign write can do; four, with ceilings 1, 2, 4, so that both escalations happen and each can run the budget out |
| `Interval` | refreshes between two walks (8) | two: one that looks and one that does not |
| `Patience` | inconclusive runs, crashes (2) | the real value; `HarnessRunsBounded` needs both counters to be exhausted |
| `ManyFiles` | touched files that escalate FAST (3) | one in `validation_text` and in the instances of `ToolGates`, so that the first edit escalates; in the others of `Validation` only the low budget escalates; the theorems have any number |
| `MaxEdits`, `MaxForeign` of `Validation` | edits and foreign writes | one of each before, inside and after any run; the theorems have any number |
| `Offers`, `TestFiles` of `Validation` | what a manifest may offer, test files | a framework whose command is not known, and a Python manifest that a test file completes, so that writes of either file make and unmake the command; one test file, which may come and go |
| `Docs` | files that are no product code | none in the instances: a task that touches only documents needs no regression, which makes `Covered` true; the theorems have any set |
| `MaxTurns`, `MaxCalls`, `ToolCalls` | loop iterations and kinds of calls | one call that needs approval, one that does not; three calls for `StopBoundsTools` so that "one more" could be exceeded by two; one request in `session_tasks`, by either task: what several requests do to each other is `approval_requests` |
| `Configured`, `MaxCalls` of `ToolGates` and `Turns` | turns and calls | three turns of two calls: what a call leaves is seen by a later call of the batch, by the next turn and by the last one, in which finalization is active |
| `MaxEdits`, `EditBudget`, `MaxForeign` of `ToolGates` | edits, edits of a unit, foreign changes | three edits in units of two: one unit is closed and another begun, by a milestone or after a rollback; one foreign change, which fails a unit |
| `InitialTasks`, `Resolutions` | plans and what the resolver says | an acceptance check and a judged regression check, each unresolved in turn: every branch of the executor. `gates_recorded` has a plan of regressions only; the theorems have any plan |
| `Paths` of `ToolGates` | `inside` and `outside` | the gates ask of a path only whether the task names it, and whether it is the pending one |
| `Ceiling`, `Threshold`, `Patience`, `Margin` | the limits of the modes, made small | each is reached within three turns, escalation and finalization included |
| `Names`, `FirstPlans`, `Revisions` | steps of plans | a step that looks, one with criteria, one that a new plan adds; the new plan repeats finished work or is empty |
| `MaxAttempts`, `StallLimit`, `MaxRepairs`, `MaxJudged`, `UnstableRuns` | limits of `Turns` (5, 2, 2, 3 and 6 in the code) | 2, 1, 2, 2 and 3: each is reached within six calls |
| `MaxFailed` | failures a run reports | two: more, fewer and as many as before |
| `MaxTasks`, `MaxCalls`, `MaxRecords` of `Memory` | tasks, results, records kept | two tasks in one or two processes; three results put a fact before, at and after a revision; one record, so that the second task pushes the first out |
| `MaxEntries`, `MaxItems`, `MaxFacts`, `Limit` | the real limits, made small | two entries: a third fact pushes one out |
| `MaxEvents`, `MaxStale`, `MaxCalls` of `Trace` | the recorder's limit, old events, calls | ten: three calls that end normally just fit, others and a late undo do not; two stale events, so that the new list is shorter than the cursor; three calls nest |

### Deadlock

`Approval`, `Session`, `Memory` and `Trace` runs turn the deadlock check off: with the
bounds used up, everything answered or the stream closed, there rightly is nothing
left to do. In the first two the liveness properties take its place. The others check
it (a task that has ended is a step of its own there, `Done` or `Over`).

Most runs explore between 0.4 and 2.6 million distinct states, `validation_text` more. `memory_tasks` uses
the symmetry of processes and of prompts, which no liveness property depends on.

## 4. Fairness

- `Checkpoints`: weak fairness of `EditStep \/ RestoreStep`. The agent's thread is
  running and none of its steps waits for anybody; no fairness of users or of
  starting an operation is assumed.
- `Approval`: `Wakes`, weak fairness of a worker's waking on an answer or a token:
  `Condition.wait` returns at least every 0.1 s. `Deadline` is a premise of
  `EveryRequestCloses` only, so that `StopWakes` holds without it.
- `Session`: the worker's thread, the watcher's thread and the straight-line code of
  `cancel_task`. No user action and no poll is fair. Model requests and tool bodies
  are assumed to return (they carry timeouts of their own, outside the model).
- `Validation`: weak fairness of `Executor \/ Turn \/ Call`, the loop's thread. Which
  disjunct it takes is never fair: the model may reply with text for ever, and
  validators may fail for ever.
- `ToolGates`, `Turns`, `Memory`, `Trace`: none. Their properties are safety; that a
  task ends is `TaskEnds` of `Validation` and `TasksSettle` of `Session`.

## 5. Proofs

TLAPS checks, for every value of the constants that satisfies the `ASSUME`s:

- `CheckpointsProofs`: `TypeCorrect`, `NoLeftover`, `LossConfined`,
  `RevisionsDistinct`. `LossOnlyInWindow` is not inductive: a write destroys text
  when the file no longer holds what the check saw, so `IInv` says for each step
  between a check and its write what the file holds unless it was raced
  (`CheckStillHolds`), that the after-state of a sealed checkpoint is what its edit
  wrote unless it was raced (`Truthful`), that a restore works on a live checkpoint of
  the list (`InRestore`), and that an edit in progress owns the newest id and the
  next revision (`InEdit`, `Numbered`), from which distinct revisions follow too.
  Then `UndoRestores`, `UndoIsAtomic` and `RefusalHasGrounds`, for any number of files,
  edits and trimmed lists. `ChainInv` follows the checkpoints of each file from the
  newest down: the text on disk is the after-state of the newest live one, and each
  before-state is the after-state of the next (`Linked`), down to the text before the
  first edit (`Rooted`), as long as nobody else wrote the file and every edit of it kept
  its checkpoint (`Clean`). `Held` says what stands for the disk while an edit or a
  restore has the file in hand; `Probe` says what the dry run has followed so far, and
  that from then on the chains may be trusted although the file is not clean. The last
  two theorems have the hypothesis that no two live spellings name one file
  (`OneSpelling`): the dry run follows path arguments, and without it both are false
  (section 6). `UndoRestores` needs no such hypothesis.
- `ApprovalProofs`: `TypeCorrect`, `NobodyIsStranded`, `GrantNeedsAnswer`,
  `GrantsAreTaskScoped`, `NothingRunsUnpermitted`. They are one inductive invariant
  together with `ChoiceIsLastAnswer` (what the worker will find is what was last
  recorded), `FreshIds` and `FlaggedCallsAsk`. On top of it `PermitsAreKept`: every step
  is a step of `Permits` or a stutter, one lemma per action. It says more than the
  invariants, which speak of states: that an answer is used up by the call it was
  given to is about two steps (`MutStandingGrant` keeps every invariant of the run and
  breaks it).
- `SessionProofs`: first the refinement, `SessionImplementsApproval`: every step of a
  session is a step of `Approval` with one worker or leaves its state alone, one lemma
  per action. Through it `NothingRunsUnpermitted` becomes a theorem about sessions
  (`SessionRunsOnlyPermitted`), and so does `Permits`, which a whole session keeps by both
  refinements (`SessionKeepsPermits`). Then `TypeCorrect`, `MessagesArePublishedOnce`,
  `TheCurrentTaskIsShown`, `ShellAndAgentAlternate`, `StopIsBounded` and
  `DecisionsAreFinal` from an `IInv` that relates the worker's step to status, result
  and `done` (`Finishing`), what is shown to the task started last (`Showing`), and the
  body that starts after a stop to the step it is the last of (`Stopping`).
- `ValidationProofs`: `TypeCorrect`, `ProofsPresent`, `SuccessEarned`, `EditsCovered`,
  for any files, plans, ceilings, intervals and any number of edits and foreign
  writes. `ProofsArePresent` speaks of the checks that count as proven; what is
  inductive is `EvidenceIsPresent`, about all evidence and about the run in progress:
  no evidence is of a later revision (so a new revision starts with none), and while
  the revision stands for the text, its evidence and the run in progress saw that
  text. The step that matters is `Observe`: the run counts only if the refresh
  before it left the revision alone, and `unnoticed` is then still what it was.
  `SuccessIsEarned` is the same for the state in which the task ended
  (`OutcomeIsEarned` adds that nothing moves after the end). `EditsAreCovered` needs
  `ProfileIsPresent`: unless a change of the manifest is unseen, the profile is what the
  manifest offers with the test files that the session counted when it made it, which
  the refresh inside `RecordEdit` re-establishes before the checks are chosen. That
  these are the test files of now is a hypothesis of the property: the code does not
  see to it (`validation_regression`).
  `RunsBounded` is the last theorem. Nothing in the code counts the runs of a check:
  the executor counts inconclusive evidence, the loop counts crashes, and each stops at
  two. `RunsInv` charges every run at the present revision to one of the two counts, to
  the decisive evidence that makes the executor wait for a repair, or to the run that
  has ended and is not observed yet (`Accounted`). A run starts only while the first
  count is below its limit (`RunIsDue`), which leaves room for three runs. A crash that
  does not block leaves the second count below its limit, except before the first turn
  of a task without edits, where it is the first (`NoEarlyCrash`); that is where
  `Patience >= 2` is needed. `SuccessIsEarned` and the rest do without.
- `ToolGatesProofs`: `GatesTyped`, `RecordFollowsLedger`, `WorkUnitsAreBounded`,
  `ProbesAreBounded`, for any plans, resolutions, budgets and calls. The record follows
  the ledger because each event takes its revision and its flags from the ledger that
  the same step moved; the part that needs an invariant is that an event is refused only
  for a plan without an acceptance check (`RecordInv`). A rollback needs one fact more:
  the event leaves `hasEdit` of the record alone, which agrees with the ledger because
  what is undone is an edit that both know of (`UndoInv`). For the unit, the edits
  counted by history are at most those the unit counts, as long as it is open
  (`UnitInv`). For the looks, `ProbeInv` says that a check that has had its look is
  given another only if the first was on a grant from before the revision, and that a
  second look leaves it the check that is due, with its grant used up, until another
  revision.
- `TurnsProofs`: `HistoriesAreClosed`. Between batches nothing is pending; in a batch
  exactly the calls from `index` on are, whichever way the earlier ones were answered
  (`HistoryInv`). For any number of calls and any plan. `StalledStepsHandled` and
  `DoneWorkIsKept` rest on `PlanInv`: while a task runs its plan has open steps only,
  failures are charged to the first of them or to none, and before the model answers no
  step has used up its attempts. The case that needs it is the failure that is charged
  to a step which was finished or replanned within the same batch: the next turn looks
  only at the first step. `TurnsTyped` adds the types of evidence and loop
  (`EvidenceInv`, `LoopInv`).
- `MemoryProofs`: `FactsAreFresh`, `SavedTasksAreKept`, for any processes, tasks, tools,
  paths and limits. `FactsInv` says that every fact was noted in this task, with the
  revision of then or with none, and that no revision came after a validation was
  recorded, which ran at that revision or at the one before: a result that carries no
  revision is the case that the property leaves open and that every revision must drop.
  For the store, `StoreInv` holds whatever processes overwrite of each other's: all
  lists of records are in the order of their tasks, so that the record that goes when
  the list is full is never that of a later task. With it `SaveInv` says, as long as no
  save overlapped another, that one process saves at a time, has the latest text and
  owns the temporary file, and that file and latest views cover what was saved;
  `RememberedFacts` carries that over a save, trimming included.
- `TraceProofs`: `StreamIsFaithful`, `TracesAreNested`, for any limit, any stale events
  and any number of calls. `Shapes` reduces the actions to a few shapes by what they
  write and whether they open or close a call. `OrderInv` and `CompleteInv` say what
  the list, the cursor and what was heard have to do with each other while the list
  has room; `NestInv` says that what was written is a sequence of closed calls between
  the starts of the open ones, in the order of `frames` (`Well`, `Opened`, `Closed`).

The assumptions are the named `ASSUME`s of the modules: positive bounds, a limit of at
least two for repeated runs, path resolution and decoding are functions and decoding
twice changes no more, the values for a missing file or text are no texts, the modes,
plans and runtimes are among those the code knows, and no worker has the name that
stands for nobody.

Two things in these proofs are there because of the prover. It has no definition of
`SelectSeq`, so `Lists` has a filter of its own, `Kept`, as a recursive function. And it
cannot instantiate an induction theorem that takes an operator, so what holds of every
prefix of a list, or of every list of records, is proved from a least counterexample
(`LeastOf`, `Upwards`), with a set in the place of the property; both modules that
filter lists carry these lemmas.

Model-checked only: liveness (`OperationsEnd`, `StopWakes`, `EveryRequestCloses`,
`TasksSettle`, `TaskEnds`), which needs fairness and ENABLED. Every other property of
the runs that pass is stated by a theorem.

## 6. Where the program and its documentation disagree

Three runs end in a counterexample:

- `session_review_gap` (`ReviewBlocksNextTask`): a task started between done and
  publication skips the review of the previous one.
- `gates_recorded` (`CompletionIsRecorded`): if all requirements of a task are
  regressions, its plan has no acceptance check; the completion policy finds it
  complete, and the reducer refuses the event that says so. The metrics are final by
  then, and the run ends by an exception.
- `validation_regression` (`RegressionIsPlanned`): an edit creates the first test file of
  a Python project, by which `_profile` would know pytest; the refresh after the edit
  makes the profile anew only for manifests (`workspace_session.py:168`), so the plan
  gets no regression check, although "Regression discovery must observe the just-written
  manifest/source revision" (`tool_result_handlers.py:23`) and
  `materialize_regression_checks` "keeps the completion policy and the executable
  validation plan aligned" (`agent.py:511`). The property fails in a second way, which
  TLC shows with `Files = {code, manifest}`, `TestFiles = {}` and `Offers <- Loud`: the
  regression check is chosen by the mode at the edit, an escalation afterwards makes the
  policy ask for a full one, and the plan has nothing left to run.

The next are definitions of the modules that no run lists; adding one to the
`INVARIANTS` of its module's configuration gives the counterexample.

| Definition | What happens |
|---|---|
| `Checkpoints.UndoCoversEveryEdit` | CRLF text reaches the disk, is reported as a failed edit, and undo passes it over |
| `Checkpoints.RefusalIsJustified`, with two names of one file | two spellings of one file make undo refuse although nobody else wrote it |
| `Approval.StopRejectsPending` | an answer after a stop, before the worker wakes, grants the request |
| `Validation.ChangedRunsProveNothing` | a run during which another program wrote a file proves its check, because the refresh behind it walks the workspace only at every eighth call, or looks at dirty paths alone |
| `ToolGates.RefreshIsPossible` | the read that a stale edit must be followed by is let through by its own gate and by the policy, whose comment says it "must be able to refresh even under action_required / finalization recon lockdown" (`executable_tool_policy.py:203`), and refused by finalization (`finalization.py:36`); each refusal restarts the turn |
| `Memory.ValidationsAreCurrent` | a validator during whose run the workspace changed is remembered under the new revision (`tool_event_adapter.py:59`, `166`), although by the comment there such observations "cannot prove the revision they changed mid-check" (`tool_event_adapter.py:55`); the ledger discards the run, the memory tells it to the model as one of the present revision. `MemoryIsFresh` therefore allows the revision before the recording, and no earlier one |
| `Memory.FailuresForgotten`, with results of `Plain` | the sentence of a failing test run stays in the summary after the next edit: none of the markers of `working_summary.py:104` is in it |

Visible in the modules, without a definition of their own:

- A foreign write between a check and the write it protects is overwritten, which
  `LossOnlyInWindow` confines to that window (README.en.md:127 promises that a foreign
  change is never overwritten); a CRLF file is restored with LF line ends (`Snapshot`
  keeps `TextOf`, `RestoreBefore` writes it).
- A second decision for a request replaces the first until the worker wakes (`Resolve`
  has no guard on `choice`); a stop that overlaps the end of a task leaves its status
  at "cancelling" (`StopStatus` after `SetDone`).
- The bound of `ProbesBounded` is two, not one: in the batch that made a revision the
  controller still grants what it was told at the start of the turn.
- Symbol recovery puts the task into the phase `fixing`, in which the gates forbid the
  search it waits for (`Inspectable`); a missing symbol may be followed by another
  one for ever (`AfterFailure`), where a stale text gets one replacement.
- A work unit stays due after the harness has validated it, if other checks are open
  (`ResolveMilestone`); finalization stays active when an escalation has raised the
  budget (`Prepare`); of the events after the end of a task the reducer ignores only
  PHASE_CHANGED.
- `RegressionRecoveryPolicy.repair_attempts` is not reset by a rollback
  (`CallRollsBack`), so that the next regression is rolled back at once.
- A reply with repeated call ids is executed before the protocol error is raised
  (`ReplyCalls` with `bad`).
- The facts of an edit are forgotten by the edit itself: the result is recorded first,
  and `EditResultHandler.apply` then drops what is known of the path (`CallEdit`).
  A change by another program is noticed without dropping what is known of its file
  (`NoticeChange`).
- Two processes write the store under one temporary name and none reads it again before
  it saves: overlapping saves may lose records or leave a text nobody can read
  (`overwritten` in `StoreKeepsTasks` sets them apart).
- When the recorder is full its list does not grow, and a cursor at its length sees no
  event any more (`StreamFaithful` claims completeness only with room). The stream of a
  reused agent first yields what is left of the task before.
- A cancellation that replan runs into is caught there, so that the end of the call is
  recorded (`ReplanReturns`); one that is seen after `run` returned leaves a trace that
  says finished and a status that says cancelled (`RunReturns`, `Check`).

## 7. Plan

What is left, in this order:

1. Refinements: an atomic edit-and-undo specification that `Checkpoints` implements
   while nobody disturbs it; the ledger of `ToolGates` as an abstraction of the one of
   `Validation`; `Trace` as what `Session`'s worker writes.
2. `Terminal`: descriptor, generation, reader thread and stop; no byte reaches the
   descriptor of another child after its number was used again.
3. `FileBrowser`: save with a digest, against the agent and other programs, with the
   exclusion that `Session` proves about the agent.
4. The rules of the safety policy as a decision table over classes of commands and
   paths, and the life cycle of managed processes.

## 8. What is not modelled

- Text processing: safety rules on commands and paths, parsing of test output,
  target resolution, symbol and repository maps, redaction, compaction, the
  classification of edit failures. Their results are free choices in the modules that
  use them.
- Wording, and the tools offered to the model: it may reply with any call in
  `ToolGates` and `Turns`, also one that was not offered.
- Control models: routing, planning and the semantic judge are answers of an external
  service; what they may answer is an initial state or a free choice.
- Operating-system work: the sandbox, subprocesses, managed processes, the terminal's
  descriptor, git and its parsing, the dependency resolver, the HTTP plumbing, the
  browser front end (its bundle is generated), the clients of the models, the console.
- Metrics, summaries and the export of a trace, which only append.
- Between `Checkpoints` and `Validation`: the first has the inner steps of an edit and
  only the revision counter of the ledger, the second the ledger and only the outside
  of an edit. An edit's `Edit` and `RecordEdit` in `Validation` are `ToolWrite` to
  `SealCheckpoint` and `RecordEdit` in `Checkpoints`. `ToolGates` and `Turns` look at the
  same loop for different state; what one leaves free is the subject of the other.
- A file change that keeps size and modification time, and files beyond the session's
  limit of 1500: the fingerprint cannot show them, which only adds to what
  `ChangedRunsProveNothing` shows.
- The evaluation harness: an offline script over finished runs.

PROJECT.json `components` gives the reason for each part, and `hazards` names, for
each hazard without a property, why none covers it.

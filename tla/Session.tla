------------------------------ MODULE Session ------------------------------
(***************************************************************************)
(* One session of the local web workbench: MiniCodexUIController, the      *)
(* AsyncAgentRunner and AsyncAgentTask it starts for every prompt, and the *)
(* ApprovalCoordinator (module Approval) the task's tool calls pass.       *)
(*                                                                         *)
(* Threads: the task's worker; a watcher per task, which waits for it and  *)
(* publishes its result; and the HTTP threads that start, stop, poll,      *)
(* accept and reject.  The controller's methods run under its lock, with   *)
(* three exceptions: resolve_approval and stop_terminal do not take it,    *)
(* and state() looks at the task before it does.  The worker takes no lock *)
(* of the controller.  Each task has an agent, and checkpoints, of its own.*)
(***************************************************************************)
EXTENDS Integers, Sequences, FiniteSets

CONSTANTS
    Agent,       \* the worker thread, as Approval sees it
    Rules, Modes,
    ToolCalls,   \* bound: the calls the model may make
    MaxTurns,    \* configured_max_steps: model calls of one task
    MaxCalls,    \* bound: tool calls of one task
    MaxTasks, MaxRequests, MaxAnswers

VARIABLES mode, task, cancelled, pc, call, pending, choice, allowedRules,
          asked, ruleOf, taskOf, askedBy, answers, verdict

A == INSTANCE Approval WITH Workers <- {Agent}

VARIABLES
    \* the current AsyncAgentTask and its worker
    step,      \* where the worker stands
    turns, calls,
    ending,    \* how the worker is about to end the task
    status,    \* AsyncAgentTask._status
    results,   \* AsyncAgentTask._result of every task
    done,      \* AsyncAgentTask._done
    sealed,    \* its agent has sealed checkpoints that are not rolled back
    \* MiniCodexUIController
    published, \* _result
    review,    \* _review_status
    terminal,  \* WorkspaceTerminal._running
    stopping,  \* how far cancel_task has come; it holds the lock until "no"
    watching,  \* tasks whose watcher has not returned
    polls      \* tasks a state() call found done and unpublished

\* History: read by properties only.
VARIABLES
    messages,  \* final answers shown for each task
    dropped,   \* tasks replaced before their edits were accepted or rejected
    lateTools  \* tool bodies the current task started after it was stopped

approval == <<mode, task, cancelled, pc, call, pending, choice, allowedRules,
              asked, ruleOf, taskOf, askedBy, answers, verdict>>
worker == <<step, turns, calls, ending, results, done, sealed>>
controller == <<published, review, terminal, stopping, watching, polls>>
history == <<messages, dropped, lateTools>>
vars == <<approval, worker, status, controller, history>>

ASSUME AgentAssumption == Agent # "none"
ASSUME OfferedAssumption ==
    /\ Modes \subseteq {"auto", "review", "read_only"}
    /\ ToolCalls \subseteq A!Calls
ASSUME BoundsAssumption ==
    /\ MaxTasks \in Nat \ {0}
    /\ {MaxTurns, MaxCalls, MaxRequests, MaxAnswers} \subseteq Nat

Tasks == 1..MaxTasks
Final == {"completed", "failed", "cancelled"}

\* The session just after its first start_task.
Init ==
    /\ A!Init
    /\ step = "starting" /\ turns = 0 /\ calls = 0 /\ ending = "none"
    /\ status = "pending" /\ done = FALSE /\ sealed = FALSE
    /\ results = [t \in Tasks |-> "none"]
    /\ published = "none" /\ review = "running" /\ terminal = FALSE
    /\ stopping = "no" /\ watching = {1} /\ polls = {}
    /\ messages = [t \in Tasks |-> 0] /\ dropped = {} /\ lateTools = 0

-----------------------------------------------------------------------------
(***************************************************************************)
(* AsyncAgentTask._worker                                                  *)
(***************************************************************************)

\* _set_status(RUNNING), whatever the status is by now.
WorkerStarts ==
    /\ step = "starting" /\ step' = "begun"
    /\ status' = "running"
    /\ UNCHANGED <<approval, turns, calls, ending, results, done, sealed,
                   controller, history>>

Goto(s) == step' = s /\ UNCHANGED ending
End(how) == step' = "ending" /\ ending' = how

\* raise_if_cancelled at a boundary the worker passes on its way to s.
Boundary(s) == IF cancelled THEN End("cancelled") ELSE Goto(s)

BeginRun ==
    /\ step = "begun" /\ Boundary("working")
    /\ UNCHANGED <<approval, turns, calls, results, done, sealed, status,
                   controller, history>>

\* CancellableLLMClient.chat: a check on either side of the request.  Where a
\* caller catches ExecutionCancelled (task_router, requirements_extractor,
\* semantic_judge) the worker goes on to its next boundary, which is the same.
CallModel ==
    /\ step = "working" /\ turns < MaxTurns
    /\ turns' = turns + 1 /\ Boundary("model")
    /\ UNCHANGED <<approval, calls, results, done, sealed, status, controller,
                   history>>

ModelReturns ==
    /\ step = "model" /\ Boundary("acting")
    /\ UNCHANGED <<approval, turns, calls, results, done, sealed, status,
                   controller, history>>

\* The response is worked off: more calls of the same batch, or the next turn.
NextTurn ==
    /\ step = "acting" /\ Goto("working")
    /\ UNCHANGED <<approval, turns, calls, results, done, sealed, status,
                   controller, history>>

\* Mutant: the boundaries around tools are not installed.
MutToolBoundary(s) == Goto(s)
ToolBoundary(s) == Boundary(s)

\* CancellableToolExecutor.execute_prepared, first check, and Safety's gate.
CallTool(c) ==
    /\ step = "acting" /\ calls < MaxCalls
    /\ ToolBoundary("tool")
    /\ IF step' = "tool" THEN A!Invoke(Agent, c) /\ calls' = calls + 1
                         ELSE UNCHANGED <<approval, calls>>
    /\ lateTools' = IF cancelled /\ pc'[Agent] = "running"
                      THEN lateTools + 1 ELSE lateTools
    /\ UNCHANGED <<turns, results, done, sealed, status, controller, messages,
                   dropped>>

\* Inside the call: the approval hook.
AwaitApproval ==
    /\ step = "tool"
    /\ A!Intervene(Agent) \/ A!HookFails(Agent)
    /\ lateTools' = IF cancelled /\ pc'[Agent] = "running"
                      THEN lateTools + 1 ELSE lateTools
    /\ UNCHANGED <<worker, status, controller, messages, dropped>>

\* The tool's body, which may be an edit that leaves a sealed checkpoint, and
\* the second check.
ToolReturns ==
    /\ step = "tool" /\ A!Return(Agent)
    /\ \/ sealed' = sealed
       \/ sealed' = TRUE /\ pc[Agent] = "running" /\ ~call[Agent].reads
    /\ ToolBoundary("acting")
    /\ UNCHANGED <<turns, calls, results, done, status, controller, history>>

\* agent.run returns its answer, having finished or run out of turns ...
RunReturns ==
    /\ step \in {"working", "acting"} /\ Goto("returned")
    /\ UNCHANGED <<approval, turns, calls, results, done, sealed, status,
                   controller, history>>

\* ... or raises.
RunFails ==
    /\ step \in {"model", "working", "acting"} /\ End("failed")
    /\ UNCHANGED <<approval, turns, calls, results, done, sealed, status,
                   controller, history>>

LastCheck ==
    /\ step = "returned"
    /\ End(IF cancelled THEN "cancelled" ELSE "completed")
    /\ UNCHANGED <<approval, turns, calls, results, done, sealed, status,
                   controller, history>>

SetFinalStatus ==
    /\ step = "ending" /\ Goto("storing")
    /\ status' = ending
    /\ UNCHANGED <<approval, turns, calls, results, done, sealed, controller,
                   history>>

\* Mutant: the result takes its status from the field that Stop writes too.
MutStoreResult ==
    /\ step = "storing" /\ Goto("closing")
    /\ results' = [results EXCEPT ![task] = status]
    /\ UNCHANGED <<approval, turns, calls, done, sealed, status, controller,
                   history>>

StoreResult ==
    /\ step = "storing" /\ Goto("closing")
    /\ results' = [results EXCEPT ![task] = ending]
    /\ UNCHANGED <<approval, turns, calls, done, sealed, status, controller,
                   history>>

\* Mutant: done is set on the way out of a task that did not fail.
MutSetDone ==
    /\ step = "closing" /\ Goto("over")
    /\ done' = (ending # "failed")
    /\ UNCHANGED <<approval, turns, calls, results, sealed, status, controller,
                   history>>

\* The finally block: _restore_runtime, _done.set().
SetDone ==
    /\ step = "closing" /\ Goto("over")
    /\ done' = TRUE
    /\ UNCHANGED <<approval, turns, calls, results, sealed, status, controller,
                   history>>

Work ==
    \/ WorkerStarts \/ BeginRun \/ CallModel \/ ModelReturns \/ NextTurn
    \/ \E c \in ToolCalls : CallTool(c)
    \/ AwaitApproval \/ ToolReturns \/ RunReturns \/ RunFails \/ LastCheck
    \/ SetFinalStatus \/ StoreResult \/ SetDone

-----------------------------------------------------------------------------
(***************************************************************************)
(* MiniCodexUIController                                                   *)
(***************************************************************************)

LockFree == stopping = "no"

\* start_task: the guards, begin_task, a new agent, runner.start, the watcher.
StartTask(m) ==
    /\ LockFree /\ ~terminal /\ done /\ review # "pending"
    /\ A!BeginTask(m)
    /\ step' = "starting" /\ turns' = 0 /\ calls' = 0 /\ ending' = "none"
    /\ status' = "pending" /\ done' = FALSE /\ sealed' = FALSE
    /\ published' = "none" /\ review' = "running"
    /\ watching' = watching \cup {task + 1}
    /\ dropped' = IF sealed /\ review = "running" THEN dropped \cup {task} ELSE dropped
    /\ lateTools' = 0
    /\ UNCHANGED <<results, terminal, stopping, polls, messages>>

\* Mutants: a result is published again, or for whatever task is current.
MutUnpublished(t) == task = t
MutSameTask(t) == published = "none"

\* _finalize_task
Unpublished(t) == task = t /\ published = "none"
Publish(t) ==
    IF Unpublished(t)
    THEN /\ published' = results[t]
         /\ review' = IF sealed THEN "pending" ELSE "not_required"
         /\ messages' = [messages EXCEPT ![t] = @ + 1]
    ELSE UNCHANGED <<published, review, messages>>

\* _watch_task
WatcherReturns(t) ==
    /\ LockFree /\ t \in watching
    /\ t < task \/ done
    /\ watching' = watching \ {t}
    /\ Publish(t)
    /\ UNCHANGED <<approval, worker, status, terminal, stopping, polls, dropped,
                   lateTools>>

\* state(), before it takes the lock, and after.
Poll ==
    /\ done /\ published = "none" /\ task \notin polls
    /\ polls' = polls \cup {task}
    /\ UNCHANGED <<approval, worker, status, published, review, terminal,
                   stopping, watching, history>>

PollPublishes(t) ==
    /\ LockFree /\ t \in polls
    /\ polls' = polls \ {t}
    /\ Publish(t)
    /\ UNCHANGED <<approval, worker, status, terminal, stopping, watching,
                   dropped, lateTools>>

\* cancel_task, which calls cancel_pending, ...
Stop ==
    /\ LockFree /\ ~done /\ stopping' = "rejected"
    /\ \/ A!CancelPending
       \/ (pending = 0 \/ choice # "none") /\ UNCHANGED approval
    /\ UNCHANGED <<worker, status, published, review, terminal, watching, polls,
                   history>>

\* ... and AsyncAgentTask.cancel: the done test, the token, the status.
StopTask ==
    /\ stopping = "rejected"
    /\ stopping' = IF done THEN "no" ELSE "undone"
    /\ UNCHANGED <<approval, worker, status, published, review, terminal,
                   watching, polls, history>>

StopToken ==
    /\ stopping = "undone"
    /\ \/ A!CancelToken /\ stopping' = "requested"
       \/ cancelled /\ stopping' = "no" /\ UNCHANGED approval
    /\ UNCHANGED <<worker, status, published, review, terminal, watching, polls,
                   history>>

StopStatus ==
    /\ stopping = "requested" /\ stopping' = "no"
    /\ status' = "cancelling"
    /\ UNCHANGED <<approval, worker, published, review, terminal, watching,
                   polls, history>>

\* resolve_approval
ResolveApproval(q, c) ==
    /\ A!Resolve(q, c)
    /\ UNCHANGED <<worker, status, controller, history>>

\* _require_pending_review
MayReview == LockFree /\ done /\ review = "pending"

Accept ==
    /\ MayReview /\ review' = "accepted"
    /\ UNCHANGED <<approval, worker, status, published, terminal, stopping,
                   watching, polls, history>>

\* undo_task succeeds; when it fails, the review stays pending.
Reject ==
    /\ MayReview /\ review' = "rejected" /\ sealed' = FALSE
    /\ UNCHANGED <<approval, step, turns, calls, ending, results, done, status,
                   published, terminal, stopping, watching, polls, history>>

\* Mutant: only a change set under review keeps the terminal closed.
MutIdleWorkspace == review # "pending"

\* _require_idle_workspace
IdleWorkspace == done /\ review # "pending"

StartTerminal ==
    /\ LockFree /\ IdleWorkspace /\ ~terminal /\ terminal' = TRUE
    /\ UNCHANGED <<approval, worker, status, published, review, stopping,
                   watching, polls, history>>

\* stop_terminal, or the shell exits.
TerminalEnds ==
    /\ terminal /\ terminal' = FALSE
    /\ UNCHANGED <<approval, worker, status, published, review, stopping,
                   watching, polls, history>>

Host ==
    \/ \E m \in Modes : StartTask(m)
    \/ \E t \in Tasks : WatcherReturns(t) \/ PollPublishes(t)
    \/ Poll
    \/ Stop \/ StopTask \/ StopToken \/ StopStatus
    \/ \E q \in 1..asked, c \in A!Choices : ResolveApproval(q, c)
    \/ Accept \/ Reject \/ StartTerminal \/ TerminalEnds

Next == Work \/ Host

Spec == Init /\ [][Next]_vars

\* The worker is a thread whose model requests and tools return and whose
\* approval waits have a deadline; the watcher is a thread; cancel_task is
\* straight-line code.  No user ever has to do anything.
Fairness ==
    /\ WF_vars(Work)
    /\ \A t \in Tasks : WF_vars(WatcherReturns(t))
    /\ WF_vars(StopTask) /\ WF_vars(StopToken) /\ WF_vars(StopStatus)
FairSpec == Spec /\ Fairness
-----------------------------------------------------------------------------
(***************************************************************************)
(* Properties                                                              *)
(***************************************************************************)

\* The variables stay in their types.
TypeOK ==
    /\ A!TypeOK
    /\ step \in {"starting", "begun", "working", "model", "acting", "tool",
                 "returned", "ending", "storing", "closing", "over"}
    /\ turns \in 0..MaxTurns /\ calls \in 0..MaxCalls
    /\ ending \in Final \cup {"none"}
    /\ status \in Final \cup {"pending", "running", "cancelling"}
    /\ results \in [Tasks -> Final \cup {"none"}]
    /\ done \in BOOLEAN /\ sealed \in BOOLEAN /\ terminal \in BOOLEAN
    /\ published \in Final \cup {"none"}
    /\ review \in {"running", "pending", "not_required", "accepted", "rejected"}
    /\ stopping \in {"no", "rejected", "undone", "requested"}
    /\ watching \subseteq Tasks /\ polls \subseteq Tasks /\ dropped \subseteq Tasks
    /\ messages \in [Tasks -> Nat] /\ lateTools \in Nat

\* "Publish one terminal result exactly once, even across poll/watcher races":
\* the watcher and any number of polls add one final message to a task.
PublishedOnce == \A t \in Tasks : messages[t] <= 1

\* What the controller shows is the current task's: while it runs there is no
\* result and the review says so, whichever older task's watcher or poll is
\* late; what is published is that task's own result, and its status says the
\* same unless it was stopped; and no approval request outlives its task, so
\* begin_task never finds one.
ShowsCurrentTask ==
    /\ ~done => (published = "none" /\ review = "running")
    /\ published # "none" => (published = results[task] /\ review # "running")
    /\ done /\ ~cancelled => status = results[task]
    /\ pending # 0 => (~done /\ taskOf[pending] = task)

\* A decision of the user's is final: nothing reopens the review of a task that
\* was accepted or rejected.
DecisionIsFinal ==
    [][(review \in {"accepted", "rejected"} /\ task' = task) =>
           (review' = review)]_vars

\* The user's shell and an agent are never both at work in the workspace.
ShellExcludesAgent == terminal => step = "over"

\* "A Stop control that ... prevent[s] subsequent model steps and tool calls"
\* (docs/releases/v0.3.0.md:12): after the token is set, at most one more tool
\* body starts, the one whose call had passed its boundary.
StopBoundsTools == lateTools <= 1

\* Every task comes to an end and is published, or has been replaced, though
\* nobody answers an approval, presses stop or polls.
TasksSettle == \A t \in Tasks : (task = t) ~> (task > t \/ (done /\ review # "running"))

-----------------------------------------------------------------------------
(***************************************************************************)
(* What the documentation says of the program, and the code does not do.   *)
(***************************************************************************)

\* A task that left sealed checkpoints "enters pending review, which blocks the
\* next task" (docs/ui.md:48): no task's edits are passed over undecided.
ReviewBlocksNextTask == dropped = {}
=============================================================================

------------------------------- MODULE Turns -------------------------------
(***************************************************************************)
(* The conversation of one task and the plan it works along: how a batch   *)
(* of tool calls is answered on every way out of it, what the outcome of a *)
(* call does to the plan, and how a failed validation leads to a warning,  *)
(* a new plan, a rollback or the end of the task.                          *)
(*                                                                         *)
(* Which calls are refused is the subject of the module ToolGates; here    *)
(* any call may be.  A step of the plan is known by its description; what  *)
(* its criteria say of the workspace is free.                              *)
(***************************************************************************)
EXTENDS Lists, FiniteSets

CONSTANTS
    Names,         \* descriptions of steps,
    Recon,         \* those that only locate or check something,
    Checkable,     \* and those with criteria that a machine can decide
    FirstPlans,    \* what the planner's model may answer,
    Revisions,     \* and the replanner's, as sequences of descriptions
    MaxReplans,    \* of each mode's policy
    Keys,          \* validation keys: "check" is the required one
    MaxAttempts, StallLimit, MaxRepairs, MaxJudged, UnstableRuns,
    FirstModes,    \* modes that a task may be routed to
    Configured,    \* configured_max_steps
    Threshold,     \* finalization_threshold
    MaxCalls,      \* bound: calls of a reply
    MaxEdits,      \* bound: edits applied
    MaxFailed,     \* bound: failures a run reports
    None

VARIABLES
    \* validate_tool_message_protocol, folded over the messages: the calls of
    \* the last batch not yet answered; a message out of place.
    pending, broken,
    plan, current,  \* active_plan; id of the step that the turn works on
    replans, level, \* replan_count; RecoveryController.level
    ledger,         \* revision, has_edit, evidence for the check at it
    live,           \* revisions whose checkpoint is not rolled back
    series, stalls, \* ProgressController
    judged, repairs,\* SemanticRegressionJudge; RegressionRecoveryPolicy
    mode, step, pc, index, calls

\* History: the provider's last reply repeated a call id or left one out.
VARIABLE malformed

messages == <<pending, broken>>
planning == <<plan, current, replans, level>>
evidence == <<ledger, live, series, stalls, judged, repairs>>
loop == <<mode, step, pc, index, calls>>
vars == <<messages, planning, evidence, loop, malformed>>

Modes == {"fast", "standard", "complex"}
NextMode == [fast |-> "standard", standard |-> "complex"]
Results == 0..MaxFailed \cup {None} \* how many failures; None: inconclusive
Trends == {"unknown", "passed", "still", "improved", "unchanged", "changed",
           "regressed_ids", "regressed"}

ASSUME NamesOf == Recon \subseteq Names /\ Checkable \subseteq Names
ASSUME AnswersOf == FirstPlans \cup Revisions \subseteq Seq(Names)
ASSUME LimitsPositive ==
    {MaxAttempts, StallLimit, MaxRepairs, UnstableRuns, Configured,
     Threshold, MaxCalls, MaxFailed} \subseteq Nat \ {0}
ASSUME PolicyPerMode == FirstModes \subseteq Modes /\ MaxReplans \in [Modes -> Nat]
ASSUME RequiredKey == "check" \in Keys

Least(a, b) == IF a <= b THEN a ELSE b

-----------------------------------------------------------------------------
(***************************************************************************)
(* AgentPlan                                                               *)
(***************************************************************************)

Statuses == {"pending", "in_progress", "completed", "superseded"}
PlanStep == [id : Nat, name : Names, status : Statuses, attempts : Nat]

Unfinished(s) == s.status \in {"pending", "in_progress"}
HasOpen(p) == \E i \in DOMAIN p.steps : Unfinished(p.steps[i])
\* get_current_step: the first unfinished step.
OpenAt(p) == CHOOSE i \in DOMAIN p.steps :
                Unfinished(p.steps[i]) /\ \A j \in 1..(i - 1) : ~Unfinished(p.steps[j])
CurrentId(p) == IF p # None /\ HasOpen(p) THEN p.steps[OpenAt(p)].id ELSE None

\* start_current_step.
Started(p) ==
    IF p = None \/ ~HasOpen(p) THEN p
    ELSE [p EXCEPT !.steps[OpenAt(p)].status = "in_progress"]

\* record_attempt_failure, of the step that the turn began with: it may have
\* been completed since.
Charged(s) == IF s.id = current THEN [s EXCEPT !.attempts = Least(@ + 1, MaxAttempts)] ELSE s
Failed(p) ==
    IF p = None THEN None
    ELSE [steps |-> [i \in DOMAIN p.steps |-> Charged(p.steps[i])],
          done |-> [i \in DOMAIN p.done |-> Charged(p.done[i])]]

\* complete_current_step, for the first n steps.
Completed(p, n) ==
    IF n = 0 THEN p
    ELSE [steps |-> SubSeq(p.steps, n + 1, Len(p.steps)),
          done |-> p.done \o [i \in 1..n |-> [p.steps[i] EXCEPT !.status = "completed"]]]

\* evaluate_step: what the criteria of a step say of files, of texts and of
\* the latest static-web evidence is free; without criteria, or with one that
\* nobody can decide, the step is not completed this way.
Decidable(s) == s.name \in Checkable
Completable(s) == Unfinished(s) /\ Decidable(s)

\* reconcile_progress: how many steps in a row their criteria may complete.
Provable(p) ==
    IF p = None THEN {0}
    ELSE {n \in 0..Len(p.steps) : \A i \in 1..n : Completable(p.steps[i])}

\* supersede_remaining.
Superseded(p) ==
    IF p = None THEN None
    ELSE [p EXCEPT !.steps = [i \in DOMAIN @ |->
            IF Unfinished(@[i]) THEN [@[i] EXCEPT !.status = "superseded"] ELSE @[i]]]

\* from_payload; a plan's steps are numbered on from `last`.
NewStep(id, name) == [id |-> id, name |-> name, status |-> "pending", attempts |-> 0]
NewSteps(last, names) == [i \in DOMAIN names |-> NewStep(last + i, names[i])]

FirstPlan(names) == [steps |-> NewSteps(0, names), done |-> <<>>]

\* Replanner.replan: completed work does not come back, and ids go on.
OverNames(p) == {p.done[i].name : i \in DOMAIN p.done}
Fresh(p, names) == Kept(names, Names \ OverNames(p))
LastId(p) ==
    LET ids == {p.steps[i].id : i \in DOMAIN p.steps} \cup {p.done[i].id : i \in DOMAIN p.done}
    IN  IF ids = {} THEN 0 ELSE CHOOSE n \in ids : \A m \in ids : m <= n

MutReplanned(p, names) == [steps |-> NewSteps(LastId(p), names), done |-> p.done]

Replanned(p, names) ==
    [steps |-> NewSteps(LastId(p), Fresh(p, names)), done |-> p.done]

\* replan_task goes through; the new plan is the model's choice.
MayReplan(p) == p # None /\ mode \in Modes /\ replans < MaxReplans[mode]

-----------------------------------------------------------------------------
(***************************************************************************)
(* ValidationLedger, for the required check at the current revision, and   *)
(* ProgressController                                                      *)
(***************************************************************************)

NoEvidence == [good |-> FALSE, bad |-> FALSE, runs |-> 0]
Recorded(l, result) ==
    [l EXCEPT !.proof = [good |-> @.good \/ result = 0,
                         bad |-> @.bad \/ result \notin {0, None},
                         runs |-> Least(@.runs + 1, UnstableRuns)]]
Unstable(l) == l.proof.good /\ l.proof.bad
Proven(l) == l.proof.good /\ ~l.proof.bad
\* TaskCompletionPolicy.evaluate: READY.
Ready(l) == Proven(l) /\ l.hasEdit

AtRevision(l, owned) ==
    [revision |-> l.revision + 1, hasEdit |-> l.hasEdit \/ owned, proof |-> NoEvidence]

NoSeries == [key \in Keys |-> None]

\* track_validation: what a run comes to against the last of its key.  As
\* many failures as before may be others than before.
Trend(s, key, failed) ==
    LET last == s[key]
    IN  CASE failed = None -> {"unknown"}
          [] failed # None /\ last = None -> IF failed = 0 THEN {"passed"} ELSE {"unknown"}
          [] OTHER ->
               CASE failed = 0 -> IF last.failed = 0 THEN {"still"} ELSE {"passed"}
                 [] failed # 0 /\ failed < last.failed -> {"improved"}
                 [] failed # 0 /\ failed = last.failed ->
                      {"unchanged", "changed", "regressed_ids"}
                 [] OTHER -> {"regressed"}

MutTracked(s, key, failed) ==
    [s EXCEPT ![key] = [failed |-> failed, revision |-> ledger.revision]]

Tracked(s, key, failed) ==
    IF failed = None THEN s
    ELSE [s EXCEPT ![key] = [failed |-> failed, revision |-> ledger.revision]]

\* validation_no_progress_count after the run.
StallsAfter(n, failed, trend) ==
    CASE trend \in {"unchanged", "regressed"} -> Least(n + 1, StallLimit)
      [] failed = None \/ trend \in {"changed", "regressed_ids"} -> n
      [] OTHER -> 0

-----------------------------------------------------------------------------
(***************************************************************************)
(* Init, and what ends a turn                                              *)
(***************************************************************************)

Init ==
    /\ pending = {} /\ broken = FALSE
    /\ plan \in {None} \cup {FirstPlan(names) : names \in FirstPlans}
    /\ current = None /\ replans = 0 /\ level = 0
    /\ ledger = [revision |-> 0, hasEdit |-> FALSE, proof |-> NoEvidence]
    /\ live = {} /\ series = NoSeries /\ stalls = 0 /\ judged = 0 /\ repairs = 0
    /\ mode \in FirstModes /\ step = 0 /\ pc = "harness" /\ index = 0 /\ calls = 0
    /\ malformed = FALSE

Turn == IF step + 1 < Configured THEN "harness" ELSE "spent"
Say == broken' = (broken \/ pending # {}) /\ UNCHANGED pending

\* reconcile_progress completed n steps: recovery and progress start anew.
Advance(n, s, k, l) ==
    /\ series' = IF n > 0 THEN NoSeries ELSE s
    /\ stalls' = IF n > 0 THEN 0 ELSE k
    /\ level' = IF n > 0 THEN 0 ELSE l

\* check_completion_after_batch, and the other ways to look at completion.
Reconciled(p, n, l) ==
    IF Ready(l) THEN Superseded(Completed(p, n)) ELSE Completed(p, n)

-----------------------------------------------------------------------------
(***************************************************************************)
(* The harness, the preparation of a turn and the model                    *)
(***************************************************************************)

\* execute_resolved_validations runs the check, unless this revision already
\* has decisive evidence or two runs without.
HarnessRun(result, n) ==
    /\ pc = "harness" /\ ~ledger.proof.good /\ ~ledger.proof.bad /\ ledger.proof.runs < 2
    /\ n \in Provable(plan)
    /\ ledger' = Recorded(ledger, result)
    /\ plan' = Reconciled(Started(Completed(plan, n)), 0, ledger')
    /\ Advance(n, series, stalls, level)
    /\ IF result = 0 THEN UNCHANGED messages ELSE Say
    /\ pc' = IF Ready(ledger') THEN "over" ELSE "prepare"
    /\ UNCHANGED <<current, replans, live, judged, repairs, mode, step, index, calls, malformed>>

\* It has nothing to run; a check it can never run ends the task.
HarnessIdle(n) ==
    /\ pc = "harness" /\ n \in Provable(plan)
    /\ plan' = Reconciled(plan, n, ledger) /\ Advance(n, series, stalls, level)
    /\ pc' = IF Ready(ledger) THEN "over" ELSE "prepare"
    /\ UNCHANGED <<messages, current, replans, ledger, live, judged, repairs,
                   mode, step, index, calls, malformed>>

HarnessBlocked ==
    /\ pc = "harness" /\ (ledger.hasEdit \/ step > 0) /\ ~Proven(ledger)
    /\ pc' = "over"
    /\ UNCHANGED <<messages, planning, evidence, mode, step, index, calls, malformed>>

\* Runtime scope raises the mode; work of several files gets a late plan.
Prepare(m, p) ==
    /\ pc = "prepare"
    /\ m = mode \/ (mode # "complex" /\ m = NextMode[mode])
    /\ p = plan \/ (plan = None /\ p \in {FirstPlan(names) : names \in FirstPlans})
    /\ mode' = m /\ plan' = p /\ pc' = "begin"
    /\ UNCHANGED <<messages, current, replans, level, evidence, step, index, calls, malformed>>

\* PlanOrchestrator.begin_turn.
Exhausts(p) == p # None /\ HasOpen(p) /\ p.steps[OpenAt(p)].attempts >= MaxAttempts
MustKeepEditing == ledger.revision = 0 /\ ~Proven(ledger)
MutRested(p) == p

Rested(p) == IF p = None \/ ~HasOpen(p) THEN p ELSE [p EXCEPT !.steps[OpenAt(p)].attempts = 0]

\* A step that only looks for something is closed by the harness.
IsRecon(s) == s.name \in Recon
Skipped(p) ==
    LET at == OpenAt(p)
        s == p.steps[at]
    IN  IF ~IsRecon(s) THEN p
        ELSE Started([steps |-> SubSeq(p.steps, 1, at - 1)
                                \o SubSeq(p.steps, at + 1, Len(p.steps)),
                      done |-> Append(p.done, [s EXCEPT !.status = "superseded"])])

Begin(p) == plan' = Started(p) /\ current' = CurrentId(p) /\ pc' = "final"

BeginTurn ==
    /\ pc = "begin" /\ ~Exhausts(plan) /\ Begin(plan)
    /\ UNCHANGED <<messages, replans, level, evidence, mode, step, index, calls, malformed>>

BeginEdit ==
    /\ pc = "begin" /\ Exhausts(plan) /\ MustKeepEditing
    /\ Begin(Rested(Skipped(plan))) /\ Say
    /\ UNCHANGED <<replans, level, evidence, mode, step, index, calls, malformed>>

\* RecoveryController.recover: a warning, a new plan, the end.
BeginWarned ==
    /\ pc = "begin" /\ Exhausts(plan) /\ ~MustKeepEditing /\ level = 0
    /\ level' = 1 /\ Begin(Rested(plan)) /\ Say
    /\ UNCHANGED <<replans, evidence, mode, step, index, calls, malformed>>

BeginReplanned(names) ==
    /\ pc = "begin" /\ Exhausts(plan) /\ ~MustKeepEditing /\ level = 1 /\ MayReplan(plan)
    /\ level' = 2 /\ replans' = replans + 1 /\ Begin(Replanned(plan, names)) /\ Say
    /\ series' = NoSeries /\ stalls' = 0
    /\ UNCHANGED <<ledger, live, judged, repairs, mode, step, index, calls, malformed>>

\* No new plan (none allowed, or the replanner failed), or no level left.
BeginStopped ==
    /\ pc = "begin" /\ Exhausts(plan) /\ ~MustKeepEditing /\ level >= 1
    /\ level' = Least(level + 1, 3) /\ pc' = "over" /\ Say
    /\ UNCHANGED <<plan, current, replans, evidence, mode, step, index, calls, malformed>>

\* On entering finalization the plan is reconciled.
Finalizes == LET first == IF Configured > Threshold THEN Configured - Threshold ELSE 1
             IN  step = first
Finalize(n) ==
    /\ pc = "final" /\ pc' = "chat"
    /\ n \in IF Finalizes THEN Provable(plan) ELSE {0}
    /\ plan' = Started(Completed(plan, n))
    /\ current' = IF Finalizes THEN CurrentId(plan') ELSE current
    /\ Advance(n, series, stalls, level)
    /\ UNCHANGED <<messages, replans, ledger, live, judged, repairs, mode, step,
                   index, calls, malformed>>

\* _chat_with_heartbeat validates the messages it sends.
Refused == pc = "chat" /\ (broken \/ pending # {})
ReplyRefused ==
    /\ Refused /\ pc' = "error"
    /\ UNCHANGED <<messages, planning, evidence, mode, step, index, calls, malformed>>

\* The provider's ids may be empty or repeated.
ReplyCalls(k, bad) ==
    /\ pc = "chat" /\ ~Refused
    /\ pending' = 1..k /\ broken' = bad /\ malformed' = bad
    /\ pc' = "batch" /\ index' = 1 /\ calls' = k
    /\ UNCHANGED <<planning, evidence, mode, step>>

\* A text without calls: the task is done, blocked, or urged on.
ReplyText(n, blocks) ==
    /\ pc = "chat" /\ ~Refused /\ n \in Provable(plan)
    /\ plan' = Reconciled(plan, n, ledger) /\ Advance(n, series, stalls, level)
    /\ IF Ready(ledger) \/ blocks \/ step + 1 >= Configured
       THEN pc' = "over" /\ UNCHANGED <<messages, step>>
       ELSE pc' = Turn /\ step' = step + 1 /\ Say
    /\ UNCHANGED <<current, replans, ledger, live, judged, repairs, mode, index, calls, malformed>>

-----------------------------------------------------------------------------
(***************************************************************************)
(* The batch: what a call comes to, and which of the rest still run        *)
(***************************************************************************)

Calling == pc = "batch" /\ index <= calls
Answered == pending \ {index}

\* Answer this call and go on to the next.
Continue ==
    /\ pending' = Answered /\ index' = index + 1
    /\ UNCHANGED <<broken, step, pc>>

\* close_tool_batch_before_control_transition: answer the rest, then check.
MutCloseBatch(to) ==
    /\ pending' = Answered
    /\ pc' = IF broken THEN "error" ELSE to
    /\ step' = IF to = "over" THEN step ELSE step + 1
    /\ UNCHANGED <<broken, index>>

CloseBatch(to) ==
    /\ pending' = Answered \ (index..calls)
    /\ pc' = IF broken \/ pending' # {} THEN "error" ELSE to
    /\ step' = IF to = "over" THEN step ELSE step + 1
    /\ UNCHANGED <<broken, index>>

\* The call could not be prepared, was a duplicate, or failed.
CallFails ==
    /\ Calling /\ plan' = Failed(plan) /\ Continue
    /\ UNCHANGED <<current, replans, level, evidence, mode, calls, malformed>>

CallObserves ==
    /\ Calling /\ Continue
    /\ UNCHANGED <<planning, evidence, mode, calls, malformed>>

\* A gate refuses it, or the edit starts a bounded recovery.
CallRestarts ==
    /\ Calling /\ plan' = Failed(plan) /\ CloseBatch(Turn)
    /\ UNCHANGED <<current, replans, level, evidence, mode, calls, malformed>>

\* The inspection that an edit recovery waits for.
CallRecovers ==
    /\ Calling /\ CloseBatch(Turn)
    /\ UNCHANGED <<planning, evidence, mode, calls, malformed>>

\* The task is not allowed to edit.
CallForbidden ==
    /\ Calling /\ plan' = Failed(plan) /\ CloseBatch("over")
    /\ UNCHANGED <<current, replans, level, evidence, mode, calls, malformed>>

\* EditResultHandler.apply, then check_completion.
CallEdits(n) ==
    /\ Calling /\ ledger.revision < MaxEdits
    /\ n \in Provable(plan)
    /\ ledger' = AtRevision(ledger, TRUE)
    /\ live' = live \cup {ledger'.revision}
    /\ plan' = Started(Completed(plan, n)) /\ Advance(n, series, stalls, level)
    /\ IF n > 0 THEN CloseBatch(Turn) ELSE Continue
    /\ UNCHANGED <<current, replans, judged, repairs, mode, calls, malformed>>

\* refresh_workspace_facts found another program's change.
CallFindsChange ==
    /\ Calling /\ ledger.revision < MaxEdits
    /\ ledger' = AtRevision(ledger, FALSE)
    /\ UNCHANGED <<messages, planning, live, series, stalls, judged, repairs, loop, malformed>>

\* The replan tool: when no plan comes of it, its result says so.
CallReplans(names, n) ==
    /\ Calling /\ MayReplan(plan)
    /\ LET next == Replanned(plan, names)
       IN  /\ n \in Provable(next)
           /\ plan' = Reconciled(next, n, ledger)
    /\ replans' = replans + 1 /\ Advance(n, NoSeries, 0, level)
    /\ CloseBatch(IF Ready(ledger) THEN "over" ELSE Turn)
    /\ UNCHANGED <<current, ledger, live, judged, repairs, mode, calls, malformed>>

-----------------------------------------------------------------------------
(***************************************************************************)
(* A validation that the model ran: ValidationResultHandler.apply and      *)
(* ValidationOrchestrator.apply                                            *)
(***************************************************************************)

\* A run, what it comes to, and how many steps its evidence completes.
Runs ==
    IF ~Calling THEN {} ELSE
    UNION {{[key |-> key, result |-> result, n |-> n, trend |-> trend] :
              trend \in Trend(IF n > 0 THEN NoSeries ELSE series, key, result)} :
           key \in Keys, result \in Results, n \in Provable(plan)}

\* The evidence, and the progress of plan and series before it is judged.
After(v) == IF v.key = "check" THEN Recorded(ledger, v.result) ELSE ledger
SeriesFor(v) == IF v.n > 0 THEN NoSeries ELSE series
LevelFor(v) == IF v.n > 0 THEN 0 ELSE level
StallsFor(v) == StallsAfter(IF v.n > 0 THEN 0 ELSE stalls, v.result, v.trend)
Reconciling(v) == plan' = Reconciled(Started(Completed(plan, v.n)), 0, After(v))

Comparable(v) ==
    /\ Calling /\ (v.key = "check" => ~Unstable(After(v)))
Tracking(v) ==
    /\ series' = Tracked(SeriesFor(v), v.key, v.result)
    /\ stalls' = StallsFor(v)

Regressed(v) ==
    /\ v.trend \in {"regressed", "regressed_ids"}
    /\ ledger.revision > SeriesFor(v)[v.key].revision
\* As often as judge and control budget allow, the judge may say so.
Judgeable == judged < MaxJudged
\* check_completion comes before what was decided.
To(l) == IF Ready(l) THEN "over" ELSE Turn

\* Contradictory evidence is run again, up to a limit.
CallUnstable(v) ==
    /\ Calling /\ v.key = "check" /\ Unstable(After(v))
    /\ Reconciling(v) /\ ledger' = After(v) /\ Advance(v.n, series, stalls, level)
    /\ CloseBatch(IF ledger'.proof.runs >= UnstableRuns THEN "over" ELSE Turn)
    /\ UNCHANGED <<current, replans, live, judged, repairs, mode, calls, malformed>>

\* A regression across revisions that is expected, or that nobody can judge.
CallDoubts(v) ==
    /\ Comparable(v) /\ Regressed(v)
    /\ Reconciling(v) /\ ledger' = After(v) /\ Tracking(v) /\ level' = LevelFor(v)
    /\ judged' = IF Judgeable THEN judged + 1 ELSE judged
    /\ CloseBatch(To(ledger'))
    /\ UNCHANGED <<current, replans, live, repairs, mode, calls, malformed>>

\* A true one: RegressionRecoveryPolicy has repairs come first.
CallRepairs(v) ==
    /\ Comparable(v) /\ Regressed(v) /\ Judgeable /\ repairs + 1 < MaxRepairs
    /\ Reconciling(v) /\ ledger' = After(v) /\ Tracking(v) /\ level' = LevelFor(v)
    /\ judged' = judged + 1 /\ repairs' = repairs + 1
    /\ CloseBatch(To(ledger'))
    /\ UNCHANGED <<current, replans, live, mode, calls, malformed>>

\* RollbackCoordinator.coordinate: the edit of this revision is undone.
Revertible == repairs + 1 >= MaxRepairs /\ ledger.revision \in live
CallRollsBack(v) ==
    /\ Comparable(v) /\ Regressed(v) /\ Judgeable /\ Revertible
    /\ plan' = Started(Completed(plan, v.n))
    /\ ledger' = AtRevision(ledger, TRUE) /\ live' = live \ {ledger.revision}
    /\ series' = NoSeries /\ stalls' = 0 /\ level' = 0
    /\ judged' = judged + 1 /\ repairs' = Least(repairs + 1, MaxRepairs)
    /\ CloseBatch(Turn)
    /\ UNCHANGED <<current, replans, mode, calls, malformed>>

CallRollbackFails(v) ==
    /\ Comparable(v) /\ Regressed(v) /\ Judgeable /\ Revertible
    /\ Reconciling(v) /\ ledger' = After(v) /\ Tracking(v) /\ level' = LevelFor(v)
    /\ judged' = judged + 1 /\ repairs' = Least(repairs + 1, MaxRepairs)
    /\ CloseBatch(To(ledger'))
    /\ UNCHANGED <<current, replans, live, mode, calls, malformed>>

\* No regression, or a true one without a checkpoint to go back to: what
\* validation_transition makes of it.  Real progress quiets the recovery.
Unreverted(v) ==
    \/ ~Regressed(v)
    \/ Judgeable /\ repairs + 1 >= MaxRepairs /\ ledger.revision \notin live
Ordinary(v) ==
    /\ Comparable(v) /\ Unreverted(v) /\ ledger' = After(v) /\ Tracking(v)
    /\ IF Regressed(v)
       THEN judged' = judged + 1 /\ repairs' = Least(repairs + 1, MaxRepairs)
       ELSE UNCHANGED <<judged, repairs>>
LevelNow(v) == IF v.trend \in {"passed", "improved"} THEN 0 ELSE LevelFor(v)
Stalled(v) == v.trend \in {"unchanged", "regressed"} /\ StallsFor(v) >= StallLimit
Asks(v) == v.result = None \/ (v.result = 0 /\ ~Proven(After(v)))

CallGoesOn(v) ==
    /\ Ordinary(v) /\ (Asks(v) \/ Stalled(v) => Ready(After(v)))
    /\ Reconciling(v) /\ level' = LevelNow(v)
    /\ IF Ready(ledger') \/ v.n > 0 THEN CloseBatch(To(ledger')) ELSE Continue
    /\ UNCHANGED <<current, replans, live, mode, calls, malformed>>

\* More proof is wanted.
CallAsks(v) ==
    /\ Ordinary(v) /\ ~Ready(After(v)) /\ Asks(v)
    /\ Reconciling(v) /\ level' = LevelNow(v) /\ CloseBatch(Turn)
    /\ UNCHANGED <<current, replans, live, mode, calls, malformed>>

\* The same failures again and again: recovery, as at the start of a turn.
Stalling(v) == Ordinary(v) /\ ~Ready(After(v)) /\ ~Asks(v) /\ Stalled(v)
CallWarned(v) ==
    /\ Stalling(v) /\ mode # "fast" /\ LevelNow(v) = 0
    /\ Reconciling(v) /\ level' = 1 /\ CloseBatch(Turn)
    /\ UNCHANGED <<current, replans, live, mode, calls, malformed>>

CallStops(v) ==
    /\ Stalling(v) /\ (mode = "fast" \/ LevelNow(v) >= 1)
    /\ Reconciling(v) /\ level' = IF mode = "fast" THEN LevelNow(v) ELSE Least(LevelNow(v) + 1, 3)
    /\ CloseBatch("over")
    /\ UNCHANGED <<current, replans, live, mode, calls, malformed>>

CallReplanned(v, names) ==
    /\ Comparable(v) /\ ~Regressed(v) /\ ~Ready(After(v)) /\ ~Asks(v) /\ Stalled(v)
    /\ v.n = 0 /\ mode # "fast" /\ level = 1 /\ MayReplan(plan)
    /\ ledger' = After(v) /\ plan' = Replanned(plan, names) /\ replans' = replans + 1
    /\ series' = NoSeries /\ stalls' = 0 /\ level' = 2 /\ CloseBatch(Turn)
    /\ UNCHANGED <<current, live, judged, repairs, mode, calls, malformed>>

-----------------------------------------------------------------------------
(***************************************************************************)
(* The end of a batch, of the steps, of the task                           *)
(***************************************************************************)

\* check_after_batch, then action pressure, which may speak.
EndBatch(n, pressed) ==
    /\ pc = "batch" /\ index > calls /\ n \in Provable(plan)
    /\ plan' = Reconciled(plan, n, ledger) /\ Advance(n, series, stalls, level)
    /\ pc' = To(ledger) /\ step' = IF Ready(ledger) THEN step ELSE step + 1
    /\ IF pressed /\ ~Ready(ledger) THEN Say ELSE UNCHANGED messages
    /\ UNCHANGED <<current, replans, ledger, live, judged, repairs, mode, index, calls, malformed>>

Exhausted(n) ==
    /\ pc = "spent" /\ pc' = "over" /\ n \in Provable(plan)
    /\ plan' = Reconciled(plan, n, ledger) /\ Advance(n, series, stalls, level)
    /\ UNCHANGED <<messages, current, replans, ledger, live, judged, repairs,
                   mode, step, index, calls, malformed>>

Over == pc \in {"over", "error"} /\ UNCHANGED vars

Counts == 0..Cardinality(Names)
Plans == {None, plan} \cup {FirstPlan(names) : names \in FirstPlans}

Next ==
    \/ \E result \in Results, n \in Counts : HarnessRun(result, n)
    \/ \E n \in Counts : HarnessIdle(n)
    \/ HarnessBlocked
    \/ \E m \in Modes, p \in Plans : Prepare(m, p)
    \/ BeginTurn \/ BeginEdit \/ BeginWarned \/ BeginStopped
    \/ \E names \in Revisions : BeginReplanned(names)
    \/ \E n \in Counts : Finalize(n)
    \/ ReplyRefused
    \/ \E k \in 1..MaxCalls, bad \in BOOLEAN : ReplyCalls(k, bad)
    \/ \E n \in Counts, blocks \in BOOLEAN : ReplyText(n, blocks)
    \/ CallFails \/ CallObserves \/ CallRestarts \/ CallRecovers \/ CallForbidden
    \/ \E n \in Counts : CallEdits(n)
    \/ CallFindsChange
    \/ \E names \in Revisions, n \in Counts : CallReplans(names, n)
    \/ \E v \in Runs : CallUnstable(v)
    \/ \E v \in Runs : CallDoubts(v)
    \/ \E v \in Runs : CallRepairs(v)
    \/ \E v \in Runs : CallRollsBack(v)
    \/ \E v \in Runs : CallRollbackFails(v)
    \/ \E v \in Runs : CallGoesOn(v)
    \/ \E v \in Runs : CallAsks(v)
    \/ \E v \in Runs : CallWarned(v)
    \/ \E v \in Runs : CallStops(v)
    \/ \E v \in Runs, names \in Revisions : CallReplanned(v, names)
    \/ \E n \in Counts, pressed \in BOOLEAN : EndBatch(n, pressed)
    \/ \E n \in Counts : Exhausted(n)
    \/ Over

Spec == Init /\ [][Next]_vars

-----------------------------------------------------------------------------
(***************************************************************************)
(* Properties                                                              *)
(***************************************************************************)

\* Every variable has its type: the invariant of the message history, the
\* plan and the progress that agent and orchestrators keep.
TypeOK ==
    /\ pending \subseteq 1..MaxCalls /\ broken \in BOOLEAN
    /\ plan = None \/ plan \in [steps : Seq(PlanStep), done : Seq(PlanStep)]
    /\ current \in Nat \cup {None} /\ replans \in Nat /\ level \in 0..3
    /\ ledger \in [revision : Nat, hasEdit : BOOLEAN,
                   proof : [good : BOOLEAN, bad : BOOLEAN, runs : Nat]]
    /\ live \subseteq 1..ledger.revision
    /\ series \in [Keys -> [failed : Nat, revision : Nat] \cup {None}]
    /\ stalls \in Nat /\ judged \in Nat /\ repairs \in Nat
    /\ mode \in Modes /\ step \in Nat /\ index \in Nat /\ calls \in Nat
    /\ pc \in {"harness", "prepare", "begin", "final", "chat", "batch", "spent",
               "over", "error"}
    /\ malformed \in BOOLEAN

\* "Every assistant tool-call batch is closed in place": whatever ends a
\* batch, no history that the task sends or extends is refused, unless the
\* provider itself repeated or left out a call id.
ProtocolKept == pc = "error" => malformed

\* However failures are counted in a batch, a step that has used up its
\* attempts gets no other turn: it is rested, replaced or ends the task.
StalledStepHandled ==
    pc = "chat" /\ plan # None =>
        \A i \in DOMAIN plan.steps :
            Unfinished(plan.steps[i]) => plan.steps[i].attempts < MaxAttempts

\* "Prevent Completed Work From Returning": work that is done keeps its place
\* and its status through reconciliations, recoveries and new plans, and a
\* new plan does not ask for it again.
DoneWorkStays ==
    plan # None =>
        /\ \A i \in DOMAIN plan.done :
             /\ i \in DOMAIN plan'.done
             /\ \A f \in {"id", "name", "status"} : plan'.done[i][f] = plan.done[i][f]
        /\ replans' # replans =>
             \A i \in DOMAIN plan'.steps, j \in DOMAIN plan.done :
                plan'.steps[i].name # plan.done[j].name
WorkIsKept == [][DoneWorkStays]_vars
=============================================================================

----------------------------- MODULE Validation -----------------------------
(***************************************************************************)
(* How a task is proved: the workspace session that samples changes of the *)
(* files, the ledger of edit revisions and evidence, the executor that     *)
(* runs required checks without the model, the completion policy, and the  *)
(* agent loop that drives them, for one task that modifies the workspace.  *)
(*                                                                         *)
(* The loop is one thread.  Between any two of its steps another program,  *)
(* or the process a validator started, may write a file (ForeignWrite).    *)
(* `text` numbers the contents of the workspace: every write makes a new   *)
(* one.  A check is known by its place in the plan.                        *)
(***************************************************************************)
EXTENDS Integers, Sequences, FiniteSets

CONSTANTS
    Files,        \* the files of the workspace,
    Manifest,     \* the one that names the test command,
    Docs,         \* those that are no product code (README, docs/),
    TestFiles,    \* and those whose path contains test_
    None,         \* no file, or no check
    InitialPlans, \* the acceptance checks a request may lead to
    Offers,       \* what Manifest may offer
    Interval,     \* external_check_interval
    Ceiling,      \* max_steps of each mode's policy
    Configured,   \* configured_max_steps
    ManyFiles,    \* touched files at which FAST becomes STANDARD
    Patience,     \* the number of inconclusive or crashed runs that blocks
    MaxCalls,     \* bound: tool calls of one model reply
    MaxEdits,     \* bound: edits of the task
    MaxForeign    \* bound: foreign writes

VARIABLES
    \* the workspace
    text, offer, tests,     \* what Manifest offers; the test files there are
    \* WorkspaceSession: files whose change its fingerprint does not show
    \* yet, the test files it shows, _dirty_paths, _unchanged_checks, profile
    unseen, known, dirty, ticks, profile,
    \* ValidationLedger
    revision, hasEdit, plan, evidence, observed,
    \* the loop, its policy and its prepared check
    pc, step, mode, calls, prepared,
    run,      \* the validator run in progress or just ended
    touched,  \* agent_touched_files
    undoable, \* files with a live checkpoint of the current revision
    mayStay,  \* no_edit_if_already_satisfied
    outcome

\* History: read by properties and bounds only.
VARIABLES
    unnoticed, \* the text has changed since the revision last did
    bodies,    \* runs the executor made, numbered for each check and revision
    edits, foreign

workspace == <<text, offer, tests>>
session == <<unseen, known, dirty, ticks, profile>>
ledger == <<revision, hasEdit, plan, evidence, observed>>
loop == <<pc, step, mode, calls, prepared, run, touched, undoable, mayStay, outcome>>
history == <<unnoticed, bodies, edits, foreign>>
vars == <<workspace, session, ledger, loop, history>>

Modes == {"fast", "standard", "complex"}
\* nameOnly: a test framework is known but no command that runs it.
Runtimes == {"none", "runnable", "nameOnly"}
Next1 == [m \in Modes |-> IF m = "fast" THEN "standard" ELSE "complex"]
Outcomes == {"passed", "failed", "inconclusive"}
\* What a run comes to: evidence, a crash, timeout or missing tool, or a
\* refusal (by safety policy, mode, person) that counts as no attempt.
Results == Outcomes \cup {"crashed", "denied"}
Success == {"edited_and_validated", "already_satisfied"}

ValidationCheck ==
    [purpose: {"acceptance", "regression"}, semantic: BOOLEAN,
     full: BOOLEAN, target: Files \cup {None}]
Evidence ==
    [check : Nat, revision : Nat, outcome : Outcomes, own : BOOLEAN,
     from : Nat, to : Nat]
Observation ==
    [check : Nat, revision : Nat, status : {"crashed", "target_unresolved"}]
Idle == [check |-> 0, from |-> 0, to |-> 0, result |-> "denied"]

ASSUME Positive ==
    {Interval, Configured, Patience, MaxCalls} \subseteq Nat \ {0}
\* Both limits are two: what fails once is tried again.
ASSUME Retried == Patience >= 2
ASSUME Ceilings == Ceiling \in [Modes -> Nat]
ASSUME Plans == InitialPlans \subseteq Seq(ValidationCheck)
\* python: Manifest is a Python one, which any test file leads to pytest.
ASSUME KnownOffers == Offers \subseteq [alone : Runtimes, python : BOOLEAN]
ASSUME TestsAreFiles == TestFiles \subseteq Files \ {Manifest}

Min2(a, b) == IF a <= b THEN a ELSE b
\* task_max_steps
Budget == Min2(Configured, Ceiling[mode])

-----------------------------------------------------------------------------
(***************************************************************************)
(* ValidationLedger                                                        *)
(***************************************************************************)

\* Mutant: evidence of an earlier revision counts.
MutCurrent(c) == {i \in DOMAIN evidence : evidence[i].check = c}

Current(c) == {i \in DOMAIN evidence : /\ evidence[i].revision = revision
                                       /\ evidence[i].check = c}
Decisive(c) == {i \in Current(c) : evidence[i].outcome # "inconclusive"}
Newest(S, i) == i \in S /\ \A j \in S : j <= i

\* Mutant: the latest run decides, though another failed at this revision.
MutProven(c) ==
    \E i \in Decisive(c) : /\ Newest(Decisive(c), i) /\ ~evidence[i].own
                           /\ evidence[i].outcome = "passed"

\* proof(): the revision of a check is always the ledger's, and evidence
\* bound to a check has its purpose, strength and requirements; what is
\* left of the tests are the outcomes and whether the test is the agent's.
Proven(c) ==
    /\ \A i \in Decisive(c) : evidence[i].outcome = "passed"
    /\ \E i \in Decisive(c) : Newest(Decisive(c), i) /\ ~evidence[i].own

Missing == {c \in DOMAIN plan : ~Proven(c)}
\* next_required_check: the first in plan order.
NextCheck(c) == c \in Missing /\ \A d \in Missing : c <= d

Observations(c, status) ==
    Cardinality({i \in DOMAIN observed :
        observed[i] = [check |-> c, revision |-> revision, status |-> status]})
Inconclusives(c) ==
    Cardinality({i \in Current(c) : evidence[i].outcome = "inconclusive"})

-----------------------------------------------------------------------------
(***************************************************************************)
(* RegressionPolicy and TaskCompletionPolicy                               *)
(***************************************************************************)

\* current_regression_requirement, once something was touched.
Requirement(m, t, p) ==
    IF t \subseteq Docs \/ p = "none" THEN "not_applicable"
    ELSE IF m = "complex" THEN "required" ELSE "relevant_only"

Regressions(checks) == {c \in DOMAIN checks : checks[c].purpose = "regression"}

\* The regression check that the requirement asks for is in the plan.
Covered(requirement, checks) ==
    CASE requirement = "required" -> \E c \in Regressions(checks) : checks[c].full
      [] requirement = "relevant_only" -> Regressions(checks) # {}
      [] OTHER -> TRUE

\* TaskCompletionPolicy.evaluate returns READY.
Ready ==
    /\ Missing = {} /\ plan # <<>> /\ (hasEdit \/ mayStay)
    /\ hasEdit => Covered(Requirement(mode, touched, profile.runtime), plan)

\* materialize_regression_checks: the plans it may leave.  A relevant-only
\* task prefers a test that is mapped to the changed source.
Materialized(m, t, p) ==
    LET requirement == Requirement(m, t, p)
        check(full, target) ==
            [purpose |-> "regression", semantic |-> FALSE,
             full |-> full, target |-> target]
        suite == IF p = "runnable" THEN {None} ELSE {}
        contracts == IF requirement = "required" THEN suite
                     ELSE (Files \ Docs) \cup suite
    IN  IF Covered(requirement, plan) THEN {plan}
        ELSE {Append(plan, check(requirement = "required", target)) :
                target \in contracts}
             \cup (IF p = "runnable" THEN {} ELSE {plan})

-----------------------------------------------------------------------------
(***************************************************************************)
(* WorkspaceSession.refresh(periodic=True) in refresh_workspace_facts      *)
(***************************************************************************)

\* Dirty paths are looked at instead of everything, never besides.
Looked == CASE dirty # {} -> dirty
            [] dirty = {} /\ ticks + 1 >= Interval -> Files
            [] OTHER -> {}
\* The walk found a change and no path was dirty: an external revision.
Noticed == dirty = {} /\ Looked \cap unseen # {}

\* Mutants: a walk does not start the count again, or reads no manifest.
MutTicked == IF dirty # {} THEN ticks ELSE ticks + 1
MutProfileAfter(looked, walk) == profile

Ticked == IF dirty # {} THEN ticks ELSE (ticks + 1) % Interval
\* _profile: a test framework and the command that runs it.
Offered(o, found) == IF o.python /\ found # {} THEN "runnable" ELSE o.alone
Runtime == Offered(offer, tests)
ProfileOf(found) == [runtime |-> Offered(offer, found), tests |-> found]

\* After looking at these files: a walk that finds any change makes the
\* profile anew; of dirty paths only Manifest does.
KnownAfter(looked) == (known \ looked) \cup (tests \cap looked)
ProfileAfter(looked, walk) ==
    IF Manifest \in looked \cap unseen \/ (walk /\ looked \cap unseen # {})
    THEN ProfileOf(KnownAfter(looked)) ELSE profile

Refresh ==
    /\ dirty' = {} /\ ticks' = Ticked
    /\ unseen' = unseen \ Looked /\ known' = KnownAfter(Looked)
    /\ profile' = ProfileAfter(Looked, dirty = {})
    /\ revision' = IF Noticed THEN revision + 1 ELSE revision
    /\ undoable' = IF Noticed THEN {} ELSE undoable
    /\ unnoticed' = (unnoticed /\ ~Noticed)

-----------------------------------------------------------------------------
(***************************************************************************)
(* The start of a task                                                     *)
(***************************************************************************)

Init ==
    /\ text = 0 /\ offer \in Offers /\ tests \in SUBSET TestFiles
    /\ unseen = {} /\ known = tests /\ dirty = {} /\ ticks = 0 /\ profile = ProfileOf(tests)
    /\ revision = 0 /\ hasEdit = FALSE /\ plan \in InitialPlans
    /\ evidence = <<>> /\ observed = <<>>
    /\ pc = "validate" /\ step = 0 /\ mode \in Modes /\ calls = 0
    /\ prepared = 0 /\ run = Idle /\ touched = {} /\ undoable = {}
    /\ mayStay \in BOOLEAN /\ outcome = "none"
    /\ unnoticed = FALSE /\ bodies = {} /\ edits = 0 /\ foreign = 0

Write(f) ==
    /\ text' = text + 1 /\ unseen' = unseen \cup {f}
    /\ IF f = Manifest THEN offer' \in Offers ELSE UNCHANGED offer
    /\ IF f \in TestFiles THEN tests' \in {tests \cup {f}, tests \ {f}} ELSE UNCHANGED tests

\* Another program, or what a validator started, writes a file.
ForeignWrite(f) ==
    /\ pc # "done" /\ foreign < MaxForeign
    /\ Write(f) /\ unnoticed' = TRUE /\ foreign' = foreign + 1
    /\ UNCHANGED <<known, dirty, ticks, profile, ledger, loop, bodies, edits>>

-----------------------------------------------------------------------------
(***************************************************************************)
(* ValidationExecutor.execute for the next required check                  *)
(***************************************************************************)

\* The newest evidence for the check at this revision.
Prior(c, outcomes) ==
    \E i \in Current(c) : Newest(Current(c), i) /\ evidence[i].outcome \in outcomes

\* Nothing is unproven.
NothingToRun ==
    /\ pc = "validate" /\ Missing = {}
    /\ pc' = "ready"
    /\ UNCHANGED <<workspace, session, ledger, step, mode, calls, prepared, run,
                   touched, undoable, mayStay, outcome, history>>

\* The executor returns without a run, and the loop of runs stops:
\* blocked stops the task, unless it has just begun and edited nothing.
Decline(blocks) ==
    /\ pc' = IF blocks /\ (hasEdit \/ step > 0) THEN "blocked" ELSE "ready"
    /\ UNCHANGED <<workspace, session, revision, hasEdit, plan, evidence, step, mode,
                   calls, prepared, run, touched, undoable, mayStay, outcome, history>>

\* Other evidence than an inconclusive one waits for a repair.
AwaitRepair(c) ==
    /\ pc = "validate" /\ NextCheck(c)
    /\ Prior(c, {"passed", "failed"})
    /\ Decline(FALSE) /\ UNCHANGED observed

\* Mutant: one run too many.
MutUndecidable(c) == Inconclusives(c) > Patience

Undecidable(c) == Inconclusives(c) >= Patience

\* A semantic check is not blocked by it, only left alone.
GiveUp(c) ==
    /\ pc = "validate" /\ NextCheck(c)
    /\ Prior(c, {"inconclusive"}) /\ Undecidable(c)
    /\ Decline(~plan[c].semantic) /\ UNCHANGED observed

\* The next run is due.
Due(c) ==
    /\ pc = "validate" /\ NextCheck(c)
    /\ ~Prior(c, {"passed", "failed"})
    /\ Prior(c, {"inconclusive"}) => ~Undecidable(c)

\* No tool has the capability.
CapabilityMissing(c) ==
    /\ Due(c) /\ Decline(~plan[c].semantic) /\ UNCHANGED observed

\* The target does not exist; the second time blocks.
TargetUnresolved(c) ==
    /\ Due(c)
    /\ LET again == Observations(c, "target_unresolved") >= 1
       IN  /\ Decline(again)
           /\ observed' = IF again THEN observed
                          ELSE Append(observed, [check |-> c, revision |-> revision,
                                                 status |-> "target_unresolved"])

RunsHere(c) == Cardinality({b \in bodies : b.check = c /\ b.revision = revision})

StartRun(c) ==
    /\ Due(c)
    /\ pc' = "running"
    /\ run' = [check |-> c, from |-> text, to |-> text, result |-> "denied"]
    /\ UNCHANGED <<workspace, session, ledger, step, mode, calls, prepared, touched,
                   undoable, mayStay, outcome, history>>

\* The validator returns, to the executor or to the model's batch.
EndRun(result) ==
    /\ pc \in {"running", "checking"}
    /\ pc' = IF pc = "running" THEN "ran" ELSE "checked"
    /\ run' = [run EXCEPT !.to = text, !.result = result]
    /\ bodies' = IF pc = "running" /\ result # "denied"
                 THEN bodies \cup {[check |-> run.check, revision |-> revision,
                                    nth |-> 1 + RunsHere(run.check)]}
                 ELSE bodies
    /\ UNCHANGED <<workspace, session, ledger, step, mode, calls, prepared, touched,
                   undoable, mayStay, outcome, unnoticed, edits, foreign>>

\* ValidationPipeline.observe and ValidationLedger.record, after a refresh
\* that may have changed the revision: a changed workspace is no evidence.
\* What belongs to no check is never read and not kept; of the observations
\* only crashes (timeouts, missing tools) and unresolved targets are.
Observe(own) ==
    LET counts == run.check # 0 /\ run.result \in Outcomes /\ revision' = revision
    IN  /\ evidence' = IF ~counts THEN evidence
                       ELSE Append(evidence,
                              [check |-> run.check, revision |-> revision,
                               outcome |-> run.result, own |-> own,
                               from |-> run.from, to |-> run.to])
        /\ observed' = IF run.check = 0 \/ run.result # "crashed" THEN observed
                       ELSE Append(observed, [check |-> run.check, revision |-> revision',
                                              status |-> "crashed"])

\* The executor goes on with the next check while each is proven.
ObserveRun ==
    /\ pc = "ran" /\ Refresh /\ Observe(FALSE) /\ run' = Idle
    /\ \E c \in {run.check} :
         pc' = CASE /\ evidence' = evidence /\ (hasEdit \/ step > 0)
                    /\ Observations(c, "crashed")' >= Patience -> "blocked"
                 [] Proven(c)' -> "validate"
                 [] OTHER -> "ready"
    /\ UNCHANGED <<workspace, hasEdit, plan, step, mode, calls, prepared, touched,
                   mayStay, outcome, bodies, edits, foreign>>

-----------------------------------------------------------------------------
(***************************************************************************)
(* run_agent_loop                                                          *)
(***************************************************************************)

End(result) ==
    /\ pc' = "done" /\ outcome' = result
    /\ UNCHANGED <<workspace, session, ledger, step, mode, calls, prepared, run,
                   touched, undoable, mayStay, history>>

\* handle_control_stop for a blocked check; it asks no completion policy.
StopBlocked == pc = "blocked" /\ End("blocked")

\* check_after_batch and its siblings: before a turn, after a call that
\* advanced the task, after the batch, on a text reply, at the last step.
Complete ==
    /\ \/ pc \in {"ready", "settled", "exhausted", "chat"}
       \/ pc = "batch" /\ calls = 0
    /\ Ready
    /\ End(IF hasEdit THEN "edited_and_validated" ELSE "already_satisfied")

\* Stops that others decide: a plan that cannot be recovered, validation
\* that stalls or stays unstable, an edit the task forbids.
ControlStop ==
    /\ pc = "call" \/ (pc \in {"ready", "settled"} /\ ~Ready)
    /\ \E result \in {"blocked", "incomplete"} : End(result)

Exhaust == pc = "exhausted" /\ ~Ready /\ End("incomplete")

AcceptancePassed ==
    LET acceptance == DOMAIN plan \ Regressions(plan)
    IN  acceptance # {} /\ acceptance \cap Missing = {}

\* _prepare_turn: escalate once if due, then give up or prepare a check.
PrepareTurn ==
    /\ pc = "ready" /\ ~Ready
    /\ LET due == \/ mode = "fast" /\ Cardinality(touched) >= ManyFiles
                  \/ mode # "complex" /\ Budget - step <= 2 /\ ~AcceptancePassed
       IN  mode' = IF due THEN Next1[mode] ELSE mode
    /\ IF Min2(Configured, Ceiling[mode']) <= step
       THEN pc' = "exhausted" /\ UNCHANGED prepared
       ELSE pc' = "context" /\ prepared' \in {0} \cup {c \in Missing : NextCheck(c)}
    /\ UNCHANGED <<workspace, session, ledger, step, calls, run, touched, undoable,
                   mayStay, outcome, history>>

\* ContextBuilder.build, before the model is asked.
BuildContext ==
    /\ pc = "context" /\ pc' = "chat" /\ Refresh
    /\ UNCHANGED <<workspace, hasEdit, plan, evidence, observed, step, mode, calls,
                   prepared, run, touched, mayStay, outcome, bodies, edits,
                   foreign>>

\* Mutant: a text reply uses no turn up.
MutNextStep == IF pc = "chat" THEN step ELSE step + 1

\* range(configured_max_steps)
NextStep == step + 1

\* prepared is set anew before it is read.
NextTurn ==
    /\ step' = NextStep /\ prepared' = 0
    /\ pc' = IF NextStep >= Configured THEN "exhausted" ELSE "validate"
    /\ UNCHANGED <<workspace, session, ledger, mode, calls, run, touched, undoable,
                   mayStay, outcome, history>>

\* handle_text_response of a task that is not ready.
TextReply ==
    /\ pc = "chat" /\ ~Ready
    /\ \/ step > 0 /\ End("blocked")  \* if a call left a concrete blocker
       \/ Budget - step - 1 > 0 /\ NextTurn
       \/ Budget - step - 1 <= 0 /\ End("incomplete")

ToolReply ==
    /\ pc = "chat" /\ pc' = "batch" /\ calls' \in 1..MaxCalls
    /\ UNCHANGED <<workspace, session, ledger, step, mode, prepared, run, touched,
                   undoable, mayStay, outcome, history>>

\* A batch that restarts the loop does so before the check after it.
EndBatch == pc = "batch" /\ calls = 0 /\ NextTurn

-----------------------------------------------------------------------------
(***************************************************************************)
(* One call of a batch: ToolCallRunner.run and ToolEventAdapter.process    *)
(***************************************************************************)

BeginCall ==
    /\ pc = "batch" /\ calls > 0 /\ pc' = "call" /\ calls' = calls - 1 /\ Refresh
    /\ UNCHANGED <<workspace, hasEdit, plan, evidence, observed, step, mode, prepared,
                   run, touched, mayStay, outcome, bodies, edits, foreign>>

\* The batch goes on, or the call closed it.
EndCall == pc' = "batch" /\ calls' \in {0, calls}

\* A call that writes no file and proves nothing; a command refreshes again.
OtherCall ==
    /\ pc = "call" /\ EndCall
    /\ Refresh \/ UNCHANGED <<session, revision, undoable, unnoticed>>
    /\ UNCHANGED <<workspace, hasEdit, plan, evidence, observed, step, mode, prepared,
                   run, touched, mayStay, outcome, bodies, edits, foreign>>

\* An edit writes a file or creates it.
WriteEdit(f) == Write(f) /\ (f \in TestFiles => f \in tests')

\* The tool has written and the checkpoint is sealed.
Edit(f) ==
    /\ pc = "call" /\ edits < MaxEdits /\ WriteEdit(f)
    /\ edits' = edits + 1 /\ unnoticed' = TRUE
    /\ pc' = "edited" /\ touched' = touched \cup {f} /\ undoable' = {f}
    /\ UNCHANGED <<known, dirty, ticks, profile, ledger, step, mode, calls, prepared, run,
                   mayStay, outcome, bodies, foreign>>

\* An edit that fails after its write is not recorded, its path not dirty.
FailEdit(f) ==
    /\ pc = "call" /\ edits < MaxEdits /\ WriteEdit(f)
    /\ edits' = edits + 1 /\ unnoticed' = TRUE /\ EndCall
    /\ UNCHANGED <<known, dirty, ticks, profile, ledger, step, mode, prepared, run, touched,
                   undoable, mayStay, outcome, bodies, foreign>>

\* EditResultHandler.apply: record, invalidate, refresh, materialize.
RecordEdit ==
    /\ pc = "edited" /\ EndCall
    /\ revision' = revision + 1 /\ hasEdit' = TRUE /\ unnoticed' = FALSE
    /\ LET looked == dirty \cup undoable
       IN  /\ dirty' = {} /\ unseen' = unseen \ looked /\ known' = KnownAfter(looked)
           /\ profile' = ProfileAfter(looked, FALSE)
    /\ plan' \in Materialized(mode, touched, profile'.runtime)
    /\ UNCHANGED <<workspace, ticks, evidence, observed, step, mode, prepared, run,
                   touched, undoable, mayStay, outcome, bodies, edits, foreign>>

\* The model runs the prepared validator, or one of its own (check 0).
StartCheck ==
    /\ pc = "call" /\ pc' = "checking"
    /\ run' = [check |-> prepared, from |-> text, to |-> text, result |-> "denied"]
    /\ UNCHANGED <<workspace, session, ledger, step, mode, calls, prepared, touched,
                   undoable, mayStay, outcome, history>>

\* Semantic validators are not followed by a refresh.  A test file that the
\* agent edited proves nothing in a run of the model's.
ObserveCheck ==
    /\ pc = "checked" /\ pc' = "settled"
    /\ LET semantic == IF run.check = 0 THEN BOOLEAN ELSE {plan[run.check].semantic}
           target == IF run.check = 0 THEN None ELSE plan[run.check].target
       IN  /\ \/ FALSE \in semantic /\ Refresh
              \/ TRUE \in semantic /\ UNCHANGED <<session, revision, undoable, unnoticed>>
           /\ \E own \in BOOLEAN : (own => target \in touched) /\ Observe(own)
    /\ UNCHANGED <<workspace, hasEdit, plan, step, mode, calls, prepared, run, touched,
                   mayStay, outcome, bodies, edits, foreign>>

SettleCheck ==
    /\ pc = "settled" /\ ~Ready /\ EndCall /\ run' = Idle
    /\ UNCHANGED <<workspace, session, ledger, step, mode, prepared, touched, undoable,
                   mayStay, outcome, history>>

\* RollbackCoordinator.coordinate on a failure that is a regression: a new
\* revision, whose file is dirty until the next refresh.
Rollback(f) ==
    /\ pc = "settled" /\ ~Ready /\ run.result = "failed" /\ f \in undoable
    /\ Write(f) /\ dirty' = dirty \cup {f}
    /\ revision' = revision + 1 /\ undoable' = {} /\ unnoticed' = FALSE
    /\ pc' = "batch" /\ calls' = 0 /\ run' = Idle
    /\ UNCHANGED <<known, ticks, profile, hasEdit, plan, evidence, observed, step, mode,
                   prepared, touched, mayStay, outcome, bodies, edits, foreign>>

-----------------------------------------------------------------------------

Executor ==
    \/ NothingToRun \/ ObserveRun
    \/ \E c \in DOMAIN plan : \/ AwaitRepair(c) \/ GiveUp(c) \/ CapabilityMissing(c)
                              \/ TargetUnresolved(c) \/ StartRun(c)
    \/ \E result \in Results : EndRun(result)

Turn ==
    \/ StopBlocked \/ Complete \/ ControlStop \/ Exhaust
    \/ PrepareTurn \/ BuildContext \/ TextReply \/ ToolReply \/ EndBatch

Call ==
    \/ BeginCall \/ OtherCall \/ RecordEdit \/ StartCheck \/ ObserveCheck \/ SettleCheck
    \/ \E f \in Files : Edit(f) \/ FailEdit(f) \/ Rollback(f)

Done == pc = "done" /\ UNCHANGED vars

Next == Executor \/ Turn \/ Call \/ (\E f \in Files : ForeignWrite(f)) \/ Done

Spec == Init /\ [][Next]_vars
\* The loop's thread runs on; nothing else is fair.
FairSpec == Spec /\ WF_vars(Executor \/ Turn \/ Call)

-----------------------------------------------------------------------------
(***************************************************************************)
(* Properties                                                              *)
(***************************************************************************)

\* Every variable holds values of its kind.
TypeOK ==
    /\ text \in Nat /\ offer \in Offers /\ tests \subseteq TestFiles
    /\ known \subseteq TestFiles /\ profile \in [runtime : Runtimes, tests : SUBSET TestFiles]
    /\ unseen \subseteq Files /\ dirty \subseteq Files /\ ticks \in 0..(Interval - 1)
    /\ revision \in Nat /\ hasEdit \in BOOLEAN /\ plan \in Seq(ValidationCheck)
    /\ evidence \in Seq(Evidence) /\ observed \in Seq(Observation)
    /\ pc \in {"validate", "running", "ran", "blocked", "ready", "context", "chat",
               "batch", "call", "edited", "checking", "checked", "settled",
               "exhausted", "done"}
    /\ step \in Nat /\ mode \in Modes /\ calls \in 0..MaxCalls
    /\ prepared \in 0..Len(plan)
    /\ run \in [check : 0..Len(plan), from : Nat, to : Nat, result : Results]
    /\ touched \subseteq Files /\ undoable \subseteq Files
    /\ mayStay \in BOOLEAN
    /\ outcome \in Success \cup {"none", "blocked", "incomplete"}
    /\ unnoticed \in BOOLEAN /\ edits \in Nat /\ foreign \in Nat
    /\ bodies \subseteq [check : Nat, revision : Nat, nth : Nat] /\ IsFiniteSet(bodies)

\* While the revision stands for the text (nothing was written since it
\* last changed), a proven check was proved by runs that saw the present
\* text from their start to their end.  The revision changes at a refresh,
\* which may fall into a run, and an old revision's evidence is kept.
ProofsArePresent ==
    ~unnoticed =>
        \A c \in DOMAIN plan : Proven(c) =>
            \A i \in Decisive(c) : evidence[i].from = text /\ evidence[i].to = text

\* What makes it inductive: no evidence is of a later revision, current
\* evidence and the run in progress have seen the present text only.
Watched == {"running", "ran", "checking", "checked"}
EvidenceIsPresent ==
    /\ \A i \in DOMAIN evidence : evidence[i].revision <= revision
    /\ ~unnoticed => \A i \in DOMAIN evidence :
         evidence[i].revision = revision => evidence[i].from = text /\ evidence[i].to = text
    /\ ~unnoticed /\ pc \in Watched =>
         run.from = text /\ (pc \in {"ran", "checked"} => run.to = text)

\* A run that passed and counts; what it saw is known only of the text that
\* the revision stands for.
Earning(e) ==
    /\ e.outcome = "passed" /\ ~e.own
    /\ ~unnoticed => e.from = text /\ e.to = text
Earned ==
    /\ plan # <<>>
    /\ \A c \in DOMAIN plan : \E i \in Current(c) : Earning(evidence[i])
    /\ \A c \in DOMAIN plan : \A i \in Current(c) : evidence[i].outcome # "failed"
    /\ hasEdit => Covered(Requirement(mode, touched, profile.runtime), plan)

\* A task that is reported as done had every check of its plan pass at its
\* last revision in a run that counts, none of them also fail there, and, if
\* it was edited, the regression check its mode asks for among them.  The
\* completion policy reads this at five places of the loop.
SuccessIsEarned ==
    outcome \in Success => Earned /\ (outcome = "edited_and_validated" <=> hasEdit)

\* The executor runs the validator of a check at most three times at one
\* revision, in whatever order crashes, inconclusive results and runs of
\* the model's come: two bounds of two share the runs.
HarnessRunsBounded ==
    \A b \in bodies : b.nth <= 2 * Patience - 1

\* What the session offers as a test command is what Manifest offers with
\* the test files that the session counted, once its last change has been
\* looked at.
ProfileIsPresent == Manifest \notin unseen => profile.runtime = Offered(offer, profile.tests)

\* A recorded edit leaves a plan with the regression check that its mode
\* asks for, also if the edit itself added the command that runs it: unless
\* a first test file came after the session made its profile.
EditsAreCovered ==
    [][pc = "edited" /\ pc' = "batch" /\ Runtime = "runnable" /\ Manifest \notin unseen'
         /\ (tests # {} => profile'.tests # {})
         => Covered(Requirement(mode, touched, Runtime), plan')]_vars

\* The task ends, whatever the model replies and other programs write.
TaskEnds == <>(pc = "done")

\* Violated: a run during which the workspace changed proves nothing.
ChangedRunsProveNothing ==
    \A c \in DOMAIN plan : Proven(c) =>
        \A i \in Decisive(c) : evidence[i].from = evidence[i].to

\* "This keeps the completion policy and the executable validation plan
\* aligned instead of treating an omitted check as proof": when nothing is
\* left to run in an edited task, and the session has seen every change, the
\* plan has the regression check that the mode of now asks for.
\* Violated when the mode rose after the edit, or a first test file came.
RegressionIsPlanned ==
    pc = "validate" /\ Missing = {} /\ hasEdit /\ unseen = {}
        => Covered(Requirement(mode, touched, Runtime), plan)

=============================================================================

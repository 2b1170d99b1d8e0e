------------------------------ MODULE Approval ------------------------------
(***************************************************************************)
(* Human approval of one agent's tool calls: SafetyToolExecutor, which     *)
(* every call passes, and ApprovalCoordinator, where a CAUTION call of a   *)
(* Review-mode task waits for a person.                                    *)
(*                                                                         *)
(* The agent's workers call intervene; the host's HTTP threads call        *)
(* resolve, cancel_pending and, between two tasks, begin_task.  All of     *)
(* them hold the coordinator's lock while they run, and a waiting worker   *)
(* gives it up inside Condition.wait: after an answer has been recorded,   *)
(* other threads may take the lock before the worker it was meant for.     *)
(*                                                                         *)
(* A call is abstracted to what the gates tell apart: the level and the    *)
(* rule of the policy's decision, and whether the registry lists the tool  *)
(* as read-only.  The audit list and the texts of requests are left out.   *)
(***************************************************************************)
EXTENDS Integers, Sequences

CONSTANTS
    Workers,     \* threads of the agent that execute tool calls
    Rules,       \* rules under which the policy flags a call as CAUTION
    Modes,       \* permission modes the host offers
    MaxRequests, \* bound: approval requests
    MaxTasks,    \* bound: tasks
    MaxAnswers   \* bound: answers recorded for one request

ASSUME ModesAssumption == Modes \subseteq {"auto", "review", "read_only"}
ASSUME WorkersAssumption == "none" \notin Workers
ASSUME BoundsAssumption ==
    /\ MaxRequests \in Nat /\ MaxTasks \in Nat \ {0} /\ MaxAnswers \in Nat

VARIABLES
    mode,         \* SafetyToolExecutor.permission_mode of the current task
    task,         \* the current task
    cancelled,    \* its cancellation token
    pc,           \* where each worker's current call stands
    call,         \* that call
    pending,      \* ApprovalCoordinator._pending: its request id, or 0
    choice,       \* ApprovalCoordinator._choice
    allowedRules  \* ApprovalCoordinator._allowed_rules

(***************************************************************************)
(* History variables, by request id.  Guards read only asked, to choose a  *)
(* fresh id (uuid4), and the length of answers, to bound it.               *)
(***************************************************************************)
VARIABLES
    asked,    \* number of requests made
    ruleOf,   \* the rule a request was made under
    taskOf,   \* the task that made it
    askedBy,  \* the worker that made it
    answers,  \* what the host was told had been recorded for it, in order
    verdict   \* what the worker was told

coordinator == <<pending, choice, allowedRules>>
history == <<asked, ruleOf, taskOf, askedBy, answers, verdict>>
vars == <<mode, task, cancelled, pc, call, pending, choice, allowedRules,
          asked, ruleOf, taskOf, askedBy, answers, verdict>>

Requests == 1..MaxRequests
Choices == {"allow_once", "allow_task", "reject"}
Allowing == {"allow_once", "allow_task"}

\* SafetyDecision: only a CAUTION decision has a rule that a grant could name.
\* A call the policy fails to assess is refused like one it blocks.
Calls == [level : {"safe"}, rule : {"none"}, reads : BOOLEAN]
           \cup [level : {"caution"}, rule : Rules, reads : BOOLEAN]
           \cup [level : {"blocked"}, rule : {"none"}, reads : {FALSE}]
NoCall == [level |-> "safe", rule |-> "none", reads |-> TRUE]

Init ==
    /\ mode \in Modes /\ task = 1 /\ cancelled = FALSE
    /\ pc = [w \in Workers |-> "idle"] /\ call = [w \in Workers |-> NoCall]
    /\ pending = 0 /\ choice = "none" /\ allowedRules = {}
    /\ asked = 0
    /\ ruleOf = [q \in Requests |-> "none"]
    /\ taskOf = [q \in Requests |-> 0]
    /\ askedBy = [q \in Requests |-> "none"]
    /\ answers = [q \in Requests |-> <<>>]
    /\ verdict = [q \in Requests |-> "open"]

-----------------------------------------------------------------------------
(***************************************************************************)
(* SafetyToolExecutor.execute_prepared                                     *)
(***************************************************************************)

\* Mutant: only calls that need no approval are held to the mode.
MutAllowedInMode(c) == mode # "read_only" \/ c.reads \/ c.level = "caution"

\* tool_allowed_in_mode
AllowedInMode(c) == mode # "read_only" \/ c.reads

\* A blocked call also runs the intervention hook, which returns at once and
\* changes nothing for a decision that is not allowed.
Gate(c) ==
    IF c.level = "blocked" \/ ~AllowedInMode(c) THEN "refused"
    ELSE IF c.level = "caution" /\ mode = "review" THEN "asking"
    ELSE "running"

Invoke(w, c) ==
    /\ pc[w] = "idle"
    /\ call' = [call EXCEPT ![w] = c]
    /\ pc' = [pc EXCEPT ![w] = Gate(c)]
    /\ UNCHANGED <<mode, task, cancelled, coordinator, history>>

\* The hook raised: not approved.
HookFails(w) ==
    /\ pc[w] = "asking"
    /\ pc' = [pc EXCEPT ![w] = "refused"]
    /\ UNCHANGED <<mode, task, cancelled, call, coordinator, history>>

Return(w) ==
    /\ pc[w] \in {"running", "refused"}
    /\ pc' = [pc EXCEPT ![w] = "idle"]
    /\ call' = [call EXCEPT ![w] = NoCall]
    /\ UNCHANGED <<mode, task, cancelled, coordinator, history>>

-----------------------------------------------------------------------------
(***************************************************************************)
(* ApprovalCoordinator.intervene: one critical section up to the first     *)
(* wait, and one each time the worker wakes.                               *)
(***************************************************************************)

\* Mutant: what was allowed once is taken for allowed, until another request.
MutStandingGrant(w) ==
    /\ pc[w] = "asking"
    /\ \/ call[w].rule \in allowedRules
       \/ \E q \in Requests :
            /\ verdict[q] = "granted" /\ askedBy[q] = w /\ taskOf[q] = task
            /\ ruleOf[q] = call[w].rule /\ \A r \in Requests : askedBy[r] = w => r <= q
    /\ pc' = [pc EXCEPT ![w] = "running"]
    /\ UNCHANGED <<mode, task, cancelled, call, coordinator, history>>

StandingGrant(w) ==
    /\ pc[w] = "asking" /\ call[w].rule \in allowedRules
    /\ pc' = [pc EXCEPT ![w] = "running"]
    /\ UNCHANGED <<mode, task, cancelled, call, coordinator, history>>

\* Tool execution is sequential today; fail closed if it is not.
Busy(w) ==
    /\ pc[w] = "asking" /\ call[w].rule \notin allowedRules /\ pending # 0
    /\ pc' = [pc EXCEPT ![w] = "refused"]
    /\ UNCHANGED <<mode, task, cancelled, call, coordinator, history>>

\* Mutant: a new request replaces the pending one.
MutMayAsk(w) ==
    /\ pc[w] = "asking" /\ call[w].rule \notin allowedRules
    /\ asked < MaxRequests

MayAsk(w) ==
    /\ pc[w] = "asking" /\ call[w].rule \notin allowedRules
    /\ pending = 0 /\ asked < MaxRequests

Record(w, v) ==
    /\ asked' = asked + 1
    /\ ruleOf' = [ruleOf EXCEPT ![asked + 1] = call[w].rule]
    /\ taskOf' = [taskOf EXCEPT ![asked + 1] = task]
    /\ askedBy' = [askedBy EXCEPT ![asked + 1] = w]
    /\ verdict' = [verdict EXCEPT ![asked + 1] = v]
    /\ UNCHANGED answers

Ask(w) ==
    /\ MayAsk(w) /\ ~cancelled
    /\ pending' = asked + 1 /\ choice' = "none"
    /\ pc' = [pc EXCEPT ![w] = "waiting"]
    /\ Record(w, "open")
    /\ UNCHANGED <<mode, task, cancelled, call, allowedRules>>

\* The loop tests the token before its first wait, so the lock is never given
\* up: the request opens and closes in one step.
AskCancelled(w) ==
    /\ MayAsk(w) /\ cancelled
    /\ choice' = "none"
    /\ pc' = [pc EXCEPT ![w] = "refused"]
    /\ Record(w, "denied")
    /\ UNCHANGED <<mode, task, cancelled, call, pending, allowedRules>>

\* Mutants: the loop never looks at the token, or at the deadline.
MutWakeCancelled(w) == FALSE
MutWakeTimedOut(w) == FALSE

Close(w, c) ==
    /\ verdict' = [verdict EXCEPT
                     ![pending] = IF c \in Allowing THEN "granted" ELSE "denied"]
    /\ pc' = [pc EXCEPT ![w] = IF c \in Allowing THEN "running" ELSE "refused"]
    /\ allowedRules' = IF c = "allow_task"
                         THEN allowedRules \cup {call[w].rule} ELSE allowedRules
    /\ pending' = 0 /\ choice' = "none"
    /\ UNCHANGED <<mode, task, cancelled, call, asked, ruleOf, taskOf, askedBy,
                   answers>>

WakeAnswered(w) ==
    pc[w] = "waiting" /\ choice # "none" /\ Close(w, choice)

WakeCancelled(w) ==
    pc[w] = "waiting" /\ choice = "none" /\ cancelled /\ Close(w, "reject")

\* timeout_seconds after the request, whenever that is.
WakeTimedOut(w) ==
    pc[w] = "waiting" /\ choice = "none" /\ ~cancelled /\ Close(w, "reject")

-----------------------------------------------------------------------------
(***************************************************************************)
(* The host: resolve, cancel_pending, CancellationToken.cancel, begin_task *)
(***************************************************************************)

Answer(q, a) ==
    /\ Len(answers[q]) < MaxAnswers
    /\ answers' = [answers EXCEPT ![q] = Append(@, a)]

\* Mutant: any decision is taken for the request at hand.
MutIsPending(q) == pending # 0

\* resolve: ValueError unless q is the request that is pending.
IsPending(q) == pending # 0 /\ q = pending

Resolve(q, c) ==
    /\ IsPending(q)
    /\ choice' = c
    /\ Answer(q, c)
    /\ UNCHANGED <<mode, task, cancelled, pc, call, pending, allowedRules, asked,
                   ruleOf, taskOf, askedBy, verdict>>

\* Mutant: the source of the resolution is stored for the choice.
MutCancelPending ==
    /\ pending # 0 /\ choice = "none"
    /\ choice' = "cancelled"
    /\ Answer(pending, "stop")
    /\ UNCHANGED <<mode, task, cancelled, pc, call, pending, allowedRules, asked,
                   ruleOf, taskOf, askedBy, verdict>>

CancelPending ==
    /\ pending # 0 /\ choice = "none"
    /\ choice' = "reject"
    /\ Answer(pending, "stop")
    /\ UNCHANGED <<mode, task, cancelled, pc, call, pending, allowedRules, asked,
                   ruleOf, taskOf, askedBy, verdict>>

CancelToken ==
    /\ ~cancelled /\ cancelled' = TRUE
    /\ UNCHANGED <<mode, task, pc, call, coordinator, history>>

\* The host starts a task once the previous one is done; begin_task itself
\* raises while a request is pending.
BeginTask(m) ==
    /\ task < MaxTasks /\ pending = 0
    /\ \A w \in Workers : pc[w] = "idle"
    /\ task' = task + 1 /\ cancelled' = FALSE /\ mode' = m
    /\ choice' = "none" /\ allowedRules' = {}
    /\ UNCHANGED <<pc, call, pending, history>>

-----------------------------------------------------------------------------
Intervene(w) ==
    \/ StandingGrant(w) \/ Busy(w) \/ Ask(w) \/ AskCancelled(w)
    \/ WakeAnswered(w) \/ WakeCancelled(w) \/ WakeTimedOut(w)

Next ==
    \/ \E w \in Workers, c \in Calls : Invoke(w, c)
    \/ \E w \in Workers : HookFails(w) \/ Return(w) \/ Intervene(w)
    \/ \E q \in 1..asked, c \in Choices : Resolve(q, c)
    \/ CancelPending \/ CancelToken
    \/ \E m \in Modes : BeginTask(m)

Spec == Init /\ [][Next]_vars

\* Condition.wait returns at every notify_all, and every tenth of a second:
\* a waiting worker sees an answer and its task's token sooner or later.
Wakes == \A w \in Workers : WF_vars(WakeAnswered(w) \/ WakeCancelled(w))
FairSpec == Spec /\ Wakes

\* A worker whose wait nothing else ends reaches its deadline.
Deadline == \A w \in Workers : WF_vars(WakeTimedOut(w))

-----------------------------------------------------------------------------
(***************************************************************************)
(* Properties                                                              *)
(***************************************************************************)

\* The variables stay in their types.
TypeOK ==
    /\ mode \in Modes /\ task \in 1..MaxTasks /\ cancelled \in BOOLEAN
    /\ pc \in [Workers -> {"idle", "asking", "waiting", "running", "refused"}]
    /\ call \in [Workers -> Calls]
    /\ pending \in 0..MaxRequests /\ choice \in Choices \cup {"none"}
    /\ allowedRules \subseteq Rules
    /\ asked \in 0..MaxRequests
    /\ ruleOf \in [Requests -> Rules \cup {"none"}]
    /\ taskOf \in [Requests -> 0..MaxTasks]
    /\ askedBy \in [Requests -> Workers \cup {"none"}]
    /\ answers \in [Requests -> Seq(Choices \cup {"stop"})]
    /\ verdict \in [Requests -> {"open", "granted", "denied"}]

\* A waiting worker waits for the pending request, which is the last one made
\* and undecided: nobody replaces it, so no worker is left waiting for an
\* answer that can no longer be given.
NobodyStranded ==
    /\ \A w \in Workers : pc[w] = "waiting" => pending # 0 /\ askedBy[pending] = w
    /\ pending # 0 => /\ pending = asked /\ verdict[pending] = "open"
                     /\ \E w \in Workers : pc[w] = "waiting"
    /\ pending = 0 => choice = "none"

LastAnswer(q) == IF answers[q] = <<>> THEN "none" ELSE answers[q][Len(answers[q])]

\* A request is granted only on an answer a person gave to that very request:
\* not on one meant for an earlier request, not because the wait timed out or
\* the task was stopped; and if several answers were recorded, on the last.
GrantedOnlyByAnswer ==
    \A q \in Requests : verdict[q] = "granted" => LastAnswer(q) \in Allowing

\* A standing grant comes from a person who allowed that rule for this task:
\* the grants of earlier tasks are gone.
GrantsDieWithTask ==
    \A r \in allowedRules : \E q \in Requests :
        /\ taskOf[q] = task /\ ruleOf[q] = r
        /\ verdict[q] = "granted" /\ LastAnswer(q) = "allow_task"

\* What is allowed to run: a read-only task runs only read-only tools, and a
\* flagged call of a reviewed task runs on a grant of its own worker's last
\* request, under its rule and in its task, or on a standing grant.
RunsOnlyIfPermitted ==
    \A w \in Workers : pc[w] = "running" =>
        /\ call[w].level \in {"safe", "caution"}
        /\ mode = "read_only" => call[w].reads
        /\ mode = "review" /\ call[w].level = "caution" =>
             \/ call[w].rule \in allowedRules
             \/ \E q \in Requests :
                  /\ askedBy[q] = w /\ taskOf[q] = task /\ ruleOf[q] = call[w].rule
                  /\ verdict[q] = "granted"
                  /\ \A r \in Requests : askedBy[r] = w => r <= q

\* For the person the coordinator is Permits, whatever threads, stops and
\* deadlines do: in particular no answer counts for a second call, and none
\* for a call that waited for another answer.
CallsAt(place) ==
    {[worker |-> w, call |-> call[w]] : w \in {v \in Workers : pc[v] = place}}
Person == INSTANCE Permits WITH
    standing <- allowedRules, word <- choice,
    question <- CallsAt("waiting"), running <- CallsAt("running")
KeepsPermits == Person!Spec

(***************************************************************************)
(* What makes those five inductive.                                        *)
(***************************************************************************)

\* The choice the worker will find is the last answer recorded.
ChoiceIsLastAnswer ==
    pending # 0 /\ choice \in Allowing => LastAnswer(pending) = choice

\* Ids not yet used belong to nobody and are undecided.
FreshIds ==
    \A q \in Requests : q > asked => askedBy[q] = "none" /\ verdict[q] = "open"

\* Only flagged calls of a reviewed task get as far as the hook, and a request
\* carries the rule of its worker's call and the task it was made in.
Asking ==
    \A w \in Workers :
        /\ pc[w] \in {"asking", "waiting"} =>
               mode = "review" /\ call[w].level = "caution"
        /\ pc[w] = "waiting" =>
               ruleOf[pending] = call[w].rule /\ taskOf[pending] = task

IInv == /\ TypeOK /\ NobodyStranded /\ GrantedOnlyByAnswer /\ GrantsDieWithTask
        /\ RunsOnlyIfPermitted /\ ChoiceIsLastAnswer /\ FreshIds /\ Asking

\* "Cancellation wakes the waiting thread" (docs/architecture.en.md:63): a stop
\* ends every wait, even if no deadline ever passes.
StopWakes == cancelled ~> (pending = 0 \/ ~cancelled)

\* As soon as deadlines pass, every request is decided, whatever the host does
\* or fails to do.
EveryRequestCloses == Deadline => \A q \in Requests : (pending = q) ~> (pending # q)

-----------------------------------------------------------------------------
(***************************************************************************)
(* What the documentation says of the program, and the code does not do.   *)
(***************************************************************************)

\* "Stop rejects the pending approval before ending the task"
\* (docs/human-in-the-loop.en.md:41).
StopRejectsPending ==
    \A q \in Requests :
        (\E i \in 1..Len(answers[q]) : answers[q][i] = "stop") =>
            verdict[q] # "granted"
=============================================================================

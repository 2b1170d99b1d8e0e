--------------------------- MODULE SessionProofs ---------------------------
(***************************************************************************)
(* For any number of tasks, turns, tool calls and requests, and whatever   *)
(* the host's threads do: one session uses the approval coordinator as the *)
(* module Approval says it is used, so that what ApprovalProofs proves     *)
(* holds in it; and what the controller shows, publishes and keeps apart   *)
(* is right whichever thread is late.                                      *)
(***************************************************************************)
EXTENDS Session, TLAPS

P == INSTANCE ApprovalProofs WITH Workers <- {Agent}

USE DEF approval, worker, controller, history, Tasks, Final

\* The assumptions of the module Approval, for the session's one worker.
LEMMA ApprovalAssumptions ==
    /\ Modes \subseteq {"auto", "review", "read_only"} /\ "none" \notin {Agent}
    /\ MaxRequests \in Nat /\ MaxTasks \in Nat \ {0} /\ MaxAnswers \in Nat
BY AgentAssumption, OfferedAssumption, BoundsAssumption

-----------------------------------------------------------------------------
(***************************************************************************)
(* The session implements Approval                                         *)
(***************************************************************************)

USE DEF A!coordinator, P!coordinator, A!history, P!history

LEMMA CallsGate ==
    ASSUME NEW c \in ToolCalls, A!Invoke(Agent, c)
    PROVE  P!Next
<1>1. c \in P!Calls
  BY OfferedAssumption DEF A!Calls, P!Calls
<1>2. P!Invoke(Agent, c)
  BY DEF A!Invoke, P!Invoke, A!Gate, P!Gate, A!AllowedInMode, P!AllowedInMode
<1> QED BY <1>1, <1>2 DEF P!Next

LEMMA CallsHook ==
    ASSUME A!Intervene(Agent) \/ A!HookFails(Agent)
    PROVE  P!Next
<1>1. CASE A!HookFails(Agent)
  BY <1>1 DEF A!HookFails, P!HookFails, P!Next
<1>2. CASE A!StandingGrant(Agent) \/ A!Busy(Agent)
  BY <1>2 DEF A!StandingGrant, P!StandingGrant, A!Busy, P!Busy, P!Intervene, P!Next
<1>3. CASE A!Ask(Agent) \/ A!AskCancelled(Agent)
  BY <1>3 DEF A!Ask, P!Ask, A!AskCancelled, P!AskCancelled, A!MayAsk, P!MayAsk,
       A!Record, P!Record, P!Intervene, P!Next
<1>4. ASSUME NEW c, A!Close(Agent, c) PROVE P!Close(Agent, c)
  BY <1>4 DEF A!Close, P!Close, A!Allowing, P!Allowing
<1>5. CASE A!WakeAnswered(Agent) \/ A!WakeCancelled(Agent) \/ A!WakeTimedOut(Agent)
  BY <1>4, <1>5 DEF A!WakeAnswered, P!WakeAnswered, A!WakeCancelled, P!WakeCancelled,
       A!WakeTimedOut, P!WakeTimedOut, P!Intervene, P!Next
<1> QED BY <1>1, <1>2, <1>3, <1>5 DEF A!Intervene

LEMMA CallsReturn == A!Return(Agent) => P!Next
BY DEF A!Return, P!Return, P!Next, A!NoCall, P!NoCall

LEMMA HostAnswers ==
    ASSUME A!CancelPending \/ A!CancelToken
           \/ \E q \in 1..asked, c \in A!Choices : A!Resolve(q, c)
    PROVE  P!Next
BY DEF A!CancelPending, P!CancelPending, A!CancelToken, P!CancelToken, A!Resolve,
     P!Resolve, A!Choices, P!Choices, A!Answer, P!Answer, A!IsPending, P!IsPending, P!Next

LEMMA HostBegins ==
    ASSUME NEW m \in Modes, A!BeginTask(m)
    PROVE  P!Next
BY DEF A!BeginTask, P!BeginTask, P!Next

LEMMA ApprovalStep == [Next]_vars => [P!Next]_P!vars
<1> SUFFICES ASSUME [Next]_vars PROVE [P!Next]_P!vars
  OBVIOUS
<1>1. ASSUME NEW c \in ToolCalls, CallTool(c) PROVE [P!Next]_P!vars
  BY <1>1, CallsGate DEF CallTool, P!vars
<1>2. CASE AwaitApproval
  BY <1>2, CallsHook DEF AwaitApproval
<1>3. CASE ToolReturns
  BY <1>3, CallsReturn DEF ToolReturns
<1>4. CASE \E m \in Modes : StartTask(m)
  BY <1>4, HostBegins DEF StartTask
<1>5. CASE Stop \/ StopToken
  BY <1>5, HostAnswers DEF Stop, StopToken, P!vars
<1>6. ASSUME NEW q \in 1..asked, NEW c \in A!Choices, ResolveApproval(q, c)
      PROVE  [P!Next]_P!vars
  BY <1>6, HostAnswers DEF ResolveApproval
<1>7. ASSUME \/ WorkerStarts \/ BeginRun \/ CallModel \/ ModelReturns \/ NextTurn
             \/ RunReturns \/ RunFails \/ LastCheck \/ SetFinalStatus \/ StoreResult
             \/ SetDone \/ Poll \/ StopTask \/ StopStatus \/ Accept \/ Reject
             \/ StartTerminal \/ TerminalEnds
             \/ \E t \in Tasks : WatcherReturns(t) \/ PollPublishes(t)
             \/ UNCHANGED vars
      PROVE  UNCHANGED approval
  BY <1>7 DEF WorkerStarts, BeginRun, CallModel, ModelReturns, NextTurn, RunReturns,
       RunFails, LastCheck, SetFinalStatus, StoreResult, SetDone, Poll, StopTask,
       StopStatus, Accept, Reject, StartTerminal, TerminalEnds, WatcherReturns,
       PollPublishes, vars
<1>8. UNCHANGED approval => UNCHANGED P!vars
  BY DEF P!vars
<1> QED BY <1>1, <1>2, <1>3, <1>4, <1>5, <1>6, <1>7, <1>8 DEF Next, Work, Host

\* Threads of worker, watchers and browser together use the coordinator as the
\* module Approval lets its workers and its host do.
THEOREM SessionImplementsApproval == Spec => P!Spec
<1>1. Init => P!Init
  BY DEF Init, A!Init, P!Init, A!NoCall, P!NoCall, A!Requests, P!Requests
<1> QED BY <1>1, ApprovalStep, PTL DEF Spec, P!Spec

\* So a session runs nothing that its mode or a person's answer does not permit,
\* in the task it was permitted for.
THEOREM SessionRunsOnlyPermitted == Spec => []P!RunsOnlyIfPermitted
<1>1. P!Spec => []P!RunsOnlyIfPermitted
  BY P!NothingRunsUnpermitted, ApprovalAssumptions
<1> QED BY <1>1, SessionImplementsApproval

\* And the person at the page has what Permits promises: an answer counts for
\* the call that it was given to, or for the rule until the task ends.
THEOREM SessionKeepsPermits == Spec => P!KeepsPermits
<1>1. P!Spec => P!KeepsPermits
  BY P!PermitsAreKept, ApprovalAssumptions
<1> QED BY <1>1, SessionImplementsApproval

-----------------------------------------------------------------------------
(***************************************************************************)
(* The invariant of the session                                            *)
(***************************************************************************)

\* What TypeOK says of the session's own variables.
WorkerTypes ==
    /\ step \in {"starting", "begun", "working", "model", "acting", "tool",
                 "returned", "ending", "storing", "closing", "over"}
    /\ turns \in 0..MaxTurns /\ calls \in 0..MaxCalls
    /\ ending \in Final \cup {"none"}
    /\ status \in Final \cup {"pending", "running", "cancelling"}
HostTypes ==
    /\ published \in Final \cup {"none"}
    /\ review \in {"running", "pending", "not_required", "accepted", "rejected"}
    /\ stopping \in {"no", "rejected", "undone", "requested"}
    /\ watching \subseteq Tasks /\ polls \subseteq Tasks /\ dropped \subseteq Tasks
TableTypes ==
    results \in [Tasks -> Final \cup {"none"}] /\ messages \in [Tasks -> Nat]
    /\ lateTools \in Nat
Flags == done \in BOOLEAN /\ sealed \in BOOLEAN /\ terminal \in BOOLEAN
OwnTypes == WorkerTypes /\ HostTypes /\ TableTypes /\ Flags

\* What the worker has left behind where it stands: its result before `done`,
\* and a status that only a stop overwrites.
Finishing ==
    /\ done <=> step = "over"
    /\ step \in {"ending", "storing", "closing", "over"} => ending \in Final
    /\ step \in {"closing", "over"} => results[task] = ending
    /\ step \in {"storing", "closing", "over"} /\ ~cancelled => status = ending
    /\ stopping = "requested" => cancelled

\* Nobody watches or polls a task that has not begun, and a poll that waits for
\* the lock has seen its task done; a result is published and its message shown
\* together, once.
Showing ==
    /\ \A t \in watching \cup polls : t <= task
    /\ task \in polls => done
    /\ ~done => published = "none"
    /\ published = "none" <=> review = "running"
    /\ published # "none" => published = results[task]
    /\ \A t \in Tasks : messages[t] <= 1
    /\ \A t \in Tasks : t > task => messages[t] = 0
    /\ published = "none" => messages[task] = 0

\* A call is in the executor only inside a tool step; the body that starts late
\* is the task's last.
Stopping ==
    /\ step # "tool" => pc[Agent] = "idle"
    /\ lateTools # 0 =>
         /\ lateTools = 1 /\ cancelled
         /\ \/ step = "tool" /\ pc[Agent] = "running"
            \/ step \in {"ending", "storing", "closing", "over"}

IInv == P!IInv /\ OwnTypes /\ Finishing /\ Showing /\ Stopping /\ (terminal => done)

LEMMA BoundsAre == MaxTasks \in Nat \ {0} /\ MaxTurns \in Nat /\ MaxCalls \in Nat
BY BoundsAssumption

LEMMA InitEstablishes == Init => IInv
<1> SUFFICES ASSUME Init PROVE IInv
  OBVIOUS
<1>1. P!Init
  BY DEF Init, A!Init, P!Init, A!NoCall, P!NoCall, A!Requests, P!Requests
<1>2. P!IInv
  BY <1>1, P!InitEstablishes, ApprovalAssumptions
<1>3. task = 1 /\ cancelled = FALSE /\ pc = [w \in {Agent} |-> "idle"]
  BY DEF Init, A!Init
<1>4. OwnTypes
  <2>1. WorkerTypes
    BY BoundsAre DEF Init, WorkerTypes
  <2>2. HostTypes
    BY BoundsAre DEF Init, HostTypes
  <2>3. TableTypes /\ Flags
    BY BoundsAre DEF Init, TableTypes, Flags
  <2> QED BY <2>1, <2>2, <2>3 DEF OwnTypes
<1>5. Showing
  BY <1>3, BoundsAre DEF Init, Showing
<1> QED BY <1>2, <1>3, <1>4, <1>5 DEF Init, IInv, Finishing, Stopping

LEMMA WorkerTypesKept == IInv /\ [Next]_vars => WorkerTypes'
<1> SUFFICES ASSUME IInv, [Next]_vars PROVE WorkerTypes'
  OBVIOUS
<1> USE DEF IInv, OwnTypes, WorkerTypes
<1>1. CASE \/ WorkerStarts \/ BeginRun \/ CallModel \/ ModelReturns \/ NextTurn
           \/ RunReturns \/ RunFails \/ LastCheck \/ SetFinalStatus \/ StoreResult
           \/ SetDone
  BY <1>1, BoundsAre DEF WorkerStarts, BeginRun, CallModel, ModelReturns, NextTurn, RunReturns,
       RunFails, LastCheck, SetFinalStatus, StoreResult, SetDone, Boundary, Goto, End, Finishing
<1>2. CASE AwaitApproval \/ ToolReturns \/ \E c \in ToolCalls : CallTool(c)
  BY <1>2, BoundsAre DEF AwaitApproval, ToolReturns, CallTool, ToolBoundary, Boundary, Goto, End
<1>3. CASE \E m \in Modes : StartTask(m)
  BY <1>3, BoundsAre DEF StartTask, A!BeginTask, P!IInv, P!TypeOK
<1>4. ASSUME NEW t \in Tasks, WatcherReturns(t) \/ PollPublishes(t) PROVE WorkerTypes'
  BY <1>4 DEF WatcherReturns, PollPublishes, Publish
<1>5. CASE Poll
  BY <1>5 DEF Poll, P!IInv, P!TypeOK
<1>6. CASE \/ Stop \/ StopTask \/ StopToken \/ StopStatus
           \/ \E q \in 1..asked, c \in A!Choices : ResolveApproval(q, c)
  BY <1>6 DEF Stop, StopTask, StopToken, StopStatus, ResolveApproval
<1>7. CASE Accept \/ Reject \/ StartTerminal \/ TerminalEnds \/ UNCHANGED vars
  BY <1>7 DEF Accept, Reject, StartTerminal, TerminalEnds, vars
<1> QED BY <1>1, <1>2, <1>3, <1>4, <1>5, <1>6, <1>7 DEF Next, Work, Host

LEMMA HostTypesKept == IInv /\ [Next]_vars => HostTypes'
<1> SUFFICES ASSUME IInv, [Next]_vars PROVE HostTypes'
  OBVIOUS
<1> USE DEF IInv, OwnTypes, HostTypes
<1>1. CASE \/ WorkerStarts \/ BeginRun \/ CallModel \/ ModelReturns \/ NextTurn
           \/ RunReturns \/ RunFails \/ LastCheck \/ SetFinalStatus \/ StoreResult
           \/ SetDone
  <2>1. CASE WorkerStarts \/ BeginRun \/ CallModel \/ ModelReturns \/ NextTurn
    BY <2>1, BoundsAre DEF WorkerStarts, BeginRun, CallModel, ModelReturns, NextTurn, Boundary,
         Goto, End
  <2>2. CASE RunReturns \/ RunFails \/ LastCheck
    BY <2>2, BoundsAre DEF RunReturns, RunFails, LastCheck, Goto, End
  <2>3. CASE SetFinalStatus \/ StoreResult \/ SetDone
    BY <2>3, BoundsAre DEF SetFinalStatus, StoreResult, SetDone, Goto, End
  <2> QED BY <1>1, <2>1, <2>2, <2>3
<1>2. CASE AwaitApproval \/ ToolReturns \/ \E c \in ToolCalls : CallTool(c)
  BY <1>2, BoundsAre DEF AwaitApproval, ToolReturns, CallTool, ToolBoundary, Boundary, Goto, End
<1>3. CASE \E m \in Modes : StartTask(m)
  BY <1>3, BoundsAre DEF StartTask, A!BeginTask, P!IInv, P!TypeOK
<1>4. ASSUME NEW t \in Tasks, WatcherReturns(t) \/ PollPublishes(t) PROVE HostTypes'
  BY <1>4 DEF WatcherReturns, PollPublishes, Publish, TableTypes
<1>5. CASE Poll
  BY <1>5 DEF Poll, P!IInv, P!TypeOK
<1>6. CASE \/ Stop \/ StopTask \/ StopToken \/ StopStatus
           \/ \E q \in 1..asked, c \in A!Choices : ResolveApproval(q, c)
  BY <1>6 DEF Stop, StopTask, StopToken, StopStatus, ResolveApproval
<1>7. CASE Accept \/ Reject \/ StartTerminal \/ TerminalEnds \/ UNCHANGED vars
  BY <1>7 DEF Accept, Reject, StartTerminal, TerminalEnds, vars
<1> QED BY <1>1, <1>2, <1>3, <1>4, <1>5, <1>6, <1>7 DEF Next, Work, Host

LEMMA TableTypesKept == IInv /\ [Next]_vars => TableTypes'
<1> SUFFICES ASSUME IInv, [Next]_vars PROVE TableTypes'
  OBVIOUS
<1> USE DEF IInv, OwnTypes, TableTypes
<1>1. CASE \/ WorkerStarts \/ BeginRun \/ CallModel \/ ModelReturns \/ NextTurn
           \/ RunReturns \/ RunFails \/ LastCheck \/ SetFinalStatus \/ StoreResult
           \/ SetDone
  <2>1. CASE StoreResult
    BY <2>1 DEF StoreResult, Goto, WorkerTypes
  <2>2. CASE ~StoreResult
    BY <1>1, <2>2 DEF WorkerStarts, BeginRun, CallModel, ModelReturns, NextTurn,
         RunReturns, RunFails, LastCheck, SetFinalStatus, SetDone
  <2> QED BY <2>1, <2>2
<1>2. CASE AwaitApproval \/ ToolReturns \/ \E c \in ToolCalls : CallTool(c)
  BY <1>2, BoundsAre DEF AwaitApproval, ToolReturns, CallTool, ToolBoundary, Boundary, Goto, End
<1>3. CASE \E m \in Modes : StartTask(m)
  BY <1>3, BoundsAre DEF StartTask, A!BeginTask, P!IInv, P!TypeOK
<1>4. ASSUME NEW t \in Tasks, WatcherReturns(t) \/ PollPublishes(t) PROVE TableTypes'
  BY <1>4 DEF WatcherReturns, PollPublishes, Publish
<1>5. CASE Poll
  BY <1>5 DEF Poll, P!IInv, P!TypeOK
<1>6. CASE \/ Stop \/ StopTask \/ StopToken \/ StopStatus
           \/ \E q \in 1..asked, c \in A!Choices : ResolveApproval(q, c)
  BY <1>6 DEF Stop, StopTask, StopToken, StopStatus, ResolveApproval
<1>7. CASE Accept \/ Reject \/ StartTerminal \/ TerminalEnds \/ UNCHANGED vars
  BY <1>7 DEF Accept, Reject, StartTerminal, TerminalEnds, vars
<1> QED BY <1>1, <1>2, <1>3, <1>4, <1>5, <1>6, <1>7 DEF Next, Work, Host

LEMMA FlagsKept == IInv /\ [Next]_vars => Flags'
<1> SUFFICES ASSUME IInv, [Next]_vars PROVE Flags'
  OBVIOUS
<1> USE DEF IInv, OwnTypes, Flags
<1>1. CASE \/ WorkerStarts \/ BeginRun \/ CallModel \/ ModelReturns \/ NextTurn
           \/ RunReturns \/ RunFails \/ LastCheck \/ SetFinalStatus \/ StoreResult
           \/ SetDone
  BY <1>1, BoundsAre DEF WorkerStarts, BeginRun, CallModel, ModelReturns, NextTurn, RunReturns,
       RunFails, LastCheck, SetFinalStatus, StoreResult, SetDone, Boundary, Goto, End
<1>2. CASE AwaitApproval \/ ToolReturns \/ \E c \in ToolCalls : CallTool(c)
  BY <1>2, BoundsAre DEF AwaitApproval, ToolReturns, CallTool, ToolBoundary, Boundary, Goto, End
<1>3. CASE \E m \in Modes : StartTask(m)
  BY <1>3, BoundsAre DEF StartTask, A!BeginTask, P!IInv, P!TypeOK
<1>4. ASSUME NEW t \in Tasks, WatcherReturns(t) \/ PollPublishes(t) PROVE Flags'
  BY <1>4 DEF WatcherReturns, PollPublishes, Publish
<1>5. CASE Poll
  BY <1>5 DEF Poll, P!IInv, P!TypeOK
<1>6. CASE \/ Stop \/ StopTask \/ StopToken \/ StopStatus
           \/ \E q \in 1..asked, c \in A!Choices : ResolveApproval(q, c)
  BY <1>6 DEF Stop, StopTask, StopToken, StopStatus, ResolveApproval
<1>7. CASE Accept \/ Reject \/ StartTerminal \/ TerminalEnds \/ UNCHANGED vars
  BY <1>7 DEF Accept, Reject, StartTerminal, TerminalEnds, vars
<1> QED BY <1>1, <1>2, <1>3, <1>4, <1>5, <1>6, <1>7 DEF Next, Work, Host

LEMMA FinishingKept == IInv /\ [Next]_vars => Finishing'
<1> SUFFICES ASSUME IInv, [Next]_vars PROVE Finishing'
  OBVIOUS
<1> USE DEF IInv, Finishing
<1>1. CASE \/ WorkerStarts \/ BeginRun \/ CallModel \/ ModelReturns \/ NextTurn
           \/ RunReturns \/ RunFails \/ LastCheck \/ SetFinalStatus \/ SetDone
  BY <1>1 DEF WorkerStarts, BeginRun, CallModel, ModelReturns, NextTurn, RunReturns,
       RunFails, LastCheck, SetFinalStatus, SetDone, Boundary, Goto, End
<1>2. CASE StoreResult
  <2>1. task \in Tasks
    BY DEF P!IInv, P!TypeOK
  <2> QED BY <1>2, <2>1 DEF StoreResult, Goto, OwnTypes, TableTypes
<1>3. CASE AwaitApproval
  <2>1. UNCHANGED <<task, cancelled>>
    BY <1>3 DEF AwaitApproval, A!HookFails, A!Intervene, A!StandingGrant, A!Busy, A!Ask,
         A!AskCancelled, A!WakeAnswered, A!WakeCancelled, A!WakeTimedOut, A!Close
  <2> QED BY <1>3, <2>1 DEF AwaitApproval
<1>4. ASSUME ToolReturns \/ \E c \in ToolCalls : CallTool(c) PROVE Finishing'
  <2>1. UNCHANGED <<task, cancelled>>
    BY <1>4 DEF ToolReturns, CallTool, A!Return, A!Invoke
  <2> QED BY <1>4, <2>1 DEF ToolReturns, CallTool, ToolBoundary, Boundary, Goto, End
<1>5. CASE \E m \in Modes : StartTask(m)
  BY <1>5 DEF StartTask, LockFree
<1>6. CASE \/ Stop \/ StopTask \/ StopToken \/ StopStatus
           \/ \E q \in 1..asked, c \in A!Choices : ResolveApproval(q, c)
  BY <1>6 DEF Stop, StopTask, StopToken, StopStatus, ResolveApproval, LockFree,
       A!CancelPending, A!CancelToken, A!Resolve
<1>7. CASE \/ Poll \/ Accept \/ Reject \/ StartTerminal \/ TerminalEnds \/ UNCHANGED vars
           \/ \E t \in Tasks : WatcherReturns(t) \/ PollPublishes(t)
  BY <1>7 DEF Poll, Accept, Reject, StartTerminal, TerminalEnds, WatcherReturns,
       PollPublishes, LockFree, vars
<1> QED BY <1>1, <1>2, <1>3, <1>4, <1>5, <1>6, <1>7 DEF Next, Work, Host

LEMMA ShowingKept == IInv /\ [Next]_vars => Showing'
<1> SUFFICES ASSUME IInv, [Next]_vars PROVE Showing'
  OBVIOUS
<1>0. task \in Tasks /\ task \in Nat /\ Showing /\ Finishing
  BY DEF IInv, P!IInv, P!TypeOK
<1>1. ASSUME UNCHANGED <<task, done, results, published, review, messages, watching, polls>>
      PROVE  Showing'
  BY <1>0, <1>1 DEF Showing
<1>2. CASE StoreResult
  BY <1>0, <1>2 DEF StoreResult, Goto, Showing, Finishing
<1>3. CASE SetDone
  BY <1>0, <1>3 DEF SetDone, Goto, Showing, Finishing
<1>4. CASE AwaitApproval
  <2>1. UNCHANGED task
    BY <1>4 DEF AwaitApproval, A!HookFails, A!Intervene, A!StandingGrant, A!Busy, A!Ask,
         A!AskCancelled, A!WakeAnswered, A!WakeCancelled, A!WakeTimedOut, A!Close
  <2> QED BY <1>1, <1>4, <2>1 DEF AwaitApproval
<1>5. CASE ToolReturns \/ \E c \in ToolCalls : CallTool(c)
  BY <1>1, <1>5 DEF ToolReturns, CallTool, A!Return, A!Invoke
<1>6. CASE \/ WorkerStarts \/ BeginRun \/ CallModel \/ ModelReturns \/ NextTurn
           \/ RunReturns \/ RunFails \/ LastCheck \/ SetFinalStatus
           \/ Stop \/ StopTask \/ StopToken \/ StopStatus
           \/ (\E q \in 1..asked, c \in A!Choices : ResolveApproval(q, c))
           \/ StartTerminal \/ TerminalEnds \/ UNCHANGED vars
  BY <1>1, <1>6 DEF WorkerStarts, BeginRun, CallModel, ModelReturns, NextTurn, RunReturns,
       RunFails, LastCheck, SetFinalStatus, Stop, StopTask, StopToken, StopStatus,
       ResolveApproval, A!CancelPending, A!CancelToken, A!Resolve, StartTerminal,
       TerminalEnds, vars
<1>7. ASSUME NEW m \in Modes, StartTask(m) PROVE Showing'
  <2>1. /\ task' = task + 1 /\ watching' = watching \cup {task + 1}
        /\ UNCHANGED <<messages, polls>>
        /\ done' = FALSE /\ published' = "none" /\ review' = "running"
    BY <1>7 DEF StartTask, A!BeginTask
  <2>2. task + 1 \in Tasks
    BY <1>0, <1>7, BoundsAre DEF StartTask, A!BeginTask
  <2>3. \A t \in watching \cup polls : t \in Nat /\ t <= task
    BY <1>0 DEF IInv, OwnTypes, HostTypes, Showing
  <2>4. /\ \A t \in watching' \cup polls' : t <= task'
        /\ task' \notin polls'
    BY <1>0, <2>1, <2>3
  <2>5. /\ messages'[task'] = 0
        /\ \A t \in Tasks : messages'[t] <= 1 /\ (t > task' => messages'[t] = 0)
    BY <1>0, <2>1, <2>2 DEF Showing
  <2> QED BY <2>1, <2>4, <2>5 DEF Showing
<1>8. ASSUME NEW t \in Tasks, WatcherReturns(t) \/ PollPublishes(t) PROVE Showing'
  <2>1. /\ UNCHANGED <<task, done, results>>
        /\ watching' \subseteq watching /\ polls' \subseteq polls
    BY <1>8 DEF WatcherReturns, PollPublishes
  <2>2. CASE Unpublished(t)
    <3>1. t = task /\ published = "none" /\ done
      BY <1>0, <1>8, <2>2 DEF WatcherReturns, PollPublishes, Unpublished, Showing
    <3>2. published' = results[task] /\ published' # "none" /\ review' # "running"
      BY <1>0, <1>8, <2>2, <3>1 DEF WatcherReturns, PollPublishes, Publish, Finishing
    <3>3. messages \in [Tasks -> Nat] /\ messages[task] = 0
      BY <1>0, <3>1 DEF IInv, OwnTypes, TableTypes, Showing
    <3>4. messages' = [messages EXCEPT ![task] = messages[task] + 1]
      BY <1>8, <2>2, <3>1 DEF WatcherReturns, PollPublishes, Publish
    <3>5. /\ messages'[task] = 1
          /\ \A u \in Tasks \ {task} : messages'[u] = messages[u]
      BY <1>0, <3>3, <3>4
    <3> QED BY <1>0, <2>1, <3>1, <3>2, <3>5 DEF Showing
  <2>3. CASE ~Unpublished(t)
    BY <1>0, <1>8, <2>1, <2>3 DEF WatcherReturns, PollPublishes, Publish, Showing
  <2> QED BY <2>2, <2>3
<1>9. CASE Poll
  BY <1>0, <1>9 DEF Poll, Showing
<1>10. CASE Accept \/ Reject
  BY <1>0, <1>10 DEF Accept, Reject, MayReview, Showing
<1> QED BY <1>2, <1>3, <1>4, <1>5, <1>6, <1>7, <1>8, <1>9, <1>10 DEF Next, Work, Host

LEMMA StoppingKept == IInv /\ [Next]_vars => Stopping'
<1> SUFFICES ASSUME IInv, [Next]_vars PROVE Stopping'
  OBVIOUS
<1> USE DEF IInv, Stopping
<1>1. CASE \/ WorkerStarts \/ BeginRun \/ CallModel \/ ModelReturns \/ NextTurn
           \/ RunReturns \/ RunFails \/ LastCheck \/ SetFinalStatus \/ StoreResult
           \/ SetDone
  BY <1>1 DEF WorkerStarts, BeginRun, CallModel, ModelReturns, NextTurn, RunReturns,
       RunFails, LastCheck, SetFinalStatus, StoreResult, SetDone, Boundary, Goto, End
<1>2. CASE AwaitApproval
  <2>1. UNCHANGED cancelled /\ pc[Agent] \in {"asking", "waiting"}
    BY <1>2 DEF AwaitApproval, A!HookFails, A!Intervene, A!StandingGrant, A!Busy, A!Ask,
         A!AskCancelled, A!WakeAnswered, A!WakeCancelled, A!WakeTimedOut, A!Close, A!MayAsk
  <2>2. lateTools = 0
    BY <1>2, <2>1 DEF AwaitApproval
  <2> QED BY <1>2, <2>1, <2>2 DEF AwaitApproval
<1>3. CASE ToolReturns
  BY <1>3 DEF ToolReturns, A!Return, ToolBoundary, Boundary, Goto, End, P!IInv, P!TypeOK
<1>4. ASSUME NEW c \in ToolCalls, CallTool(c) PROVE Stopping'
  <2>1. lateTools = 0 /\ pc[Agent] = "idle"
    BY <1>4 DEF CallTool
  <2>2. CASE cancelled
    BY <1>4, <2>1, <2>2 DEF CallTool, ToolBoundary, Boundary, End
  <2>3. CASE ~cancelled
    BY <1>4, <2>1, <2>3 DEF CallTool, ToolBoundary, Boundary, Goto, A!Invoke
  <2> QED BY <2>2, <2>3
<1>5. CASE \E m \in Modes : StartTask(m)
  BY <1>5 DEF StartTask, A!BeginTask
<1>6. CASE \/ Stop \/ StopTask \/ StopToken \/ StopStatus
           \/ \E q \in 1..asked, c \in A!Choices : ResolveApproval(q, c)
  BY <1>6 DEF Stop, StopTask, StopToken, StopStatus, ResolveApproval,
       A!CancelPending, A!CancelToken, A!Resolve
<1>7. CASE \/ Poll \/ Accept \/ Reject \/ StartTerminal \/ TerminalEnds \/ UNCHANGED vars
           \/ \E t \in Tasks : WatcherReturns(t) \/ PollPublishes(t)
  BY <1>7 DEF Poll, Accept, Reject, StartTerminal, TerminalEnds, WatcherReturns,
       PollPublishes, vars
<1> QED BY <1>1, <1>2, <1>3, <1>4, <1>5, <1>6, <1>7 DEF Next, Work, Host

LEMMA ShellKept == IInv /\ [Next]_vars => (terminal => done)'
<1> SUFFICES ASSUME IInv, [Next]_vars PROVE (terminal => done)'
  OBVIOUS
<1>1. (terminal => done) /\ Finishing
  BY DEF IInv
<1>2. CASE SetDone \/ StartTerminal \/ TerminalEnds
  BY <1>1, <1>2 DEF SetDone, StartTerminal, TerminalEnds, IdleWorkspace
<1>3. CASE \E m \in Modes : StartTask(m)
  BY <1>3 DEF StartTask
<1>4. ASSUME UNCHANGED <<done, terminal>> PROVE (terminal => done)'
  BY <1>1, <1>4
<1>5. CASE \/ WorkerStarts \/ BeginRun \/ CallModel \/ ModelReturns \/ NextTurn
           \/ RunReturns \/ RunFails \/ LastCheck \/ SetFinalStatus \/ StoreResult
           \/ AwaitApproval \/ ToolReturns \/ \E c \in ToolCalls : CallTool(c)
  BY <1>4, <1>5 DEF WorkerStarts, BeginRun, CallModel, ModelReturns, NextTurn, RunReturns,
       RunFails, LastCheck, SetFinalStatus, StoreResult, AwaitApproval, ToolReturns, CallTool
<1>6. CASE \/ Stop \/ StopTask \/ StopToken \/ StopStatus \/ Poll \/ Accept \/ Reject
           \/ (\E q \in 1..asked, c \in A!Choices : ResolveApproval(q, c))
           \/ (\E t \in Tasks : WatcherReturns(t) \/ PollPublishes(t))
           \/ UNCHANGED vars
  BY <1>4, <1>6 DEF Stop, StopTask, StopToken, StopStatus, Poll, Accept, Reject,
       ResolveApproval, WatcherReturns, PollPublishes, vars
<1> QED BY <1>2, <1>3, <1>5, <1>6 DEF Next, Work, Host

LEMMA StepKeeps == IInv /\ [Next]_vars => IInv'
<1> SUFFICES ASSUME IInv, [Next]_vars PROVE IInv'
  OBVIOUS
<1>1. P!IInv'
  BY ApprovalStep, P!StepKeeps, ApprovalAssumptions DEF IInv
<1>2. OwnTypes'
  BY WorkerTypesKept, HostTypesKept, TableTypesKept, FlagsKept DEF OwnTypes
<1> QED
  BY <1>1, <1>2, FinishingKept, ShowingKept, StoppingKept, ShellKept DEF IInv

LEMMA AlwaysIInv == Spec => []IInv
BY InitEstablishes, StepKeeps, PTL DEF Spec

-----------------------------------------------------------------------------
(***************************************************************************)
(* What the runs check on small instances                                  *)
(***************************************************************************)

\* The variables of worker, controller, executor and coordinator stay in their
\* types.
THEOREM TypeCorrect == Spec => []TypeOK
<1>1. P!TypeOK => A!TypeOK
  BY DEF P!TypeOK, A!TypeOK, P!Calls, A!Calls, P!Choices, A!Choices, P!Requests, A!Requests
<1>2. IInv => TypeOK
  BY <1>1 DEF IInv, P!IInv, OwnTypes, WorkerTypes, HostTypes, TableTypes, Flags, TypeOK
<1> QED BY <1>2, AlwaysIInv, PTL

\* _finalize_task adds one final message to a task, whoever calls it and how
\* often: the watcher and polls of this task and of older ones.
THEOREM MessagesArePublishedOnce == Spec => []PublishedOnce
<1>1. IInv => PublishedOnce
  BY DEF IInv, Showing, PublishedOnce
<1> QED BY <1>1, AlwaysIInv, PTL

\* The result, the review and the approval that the page shows belong to the
\* task that start_task began last.
THEOREM TheCurrentTaskIsShown == Spec => []ShowsCurrentTask
<1>1. ASSUME IInv, pending # 0 PROVE ~done /\ taskOf[pending] = task
  <2>1. pc[Agent] = "waiting"
    BY <1>1 DEF IInv, P!IInv, P!NobodyStranded
  <2>2. taskOf[pending] = task
    BY <1>1, <2>1 DEF IInv, P!IInv, P!Asking
  <2> QED BY <1>1, <2>1, <2>2 DEF IInv, Stopping, Finishing
<1>2. IInv => ShowsCurrentTask
  BY <1>1 DEF IInv, Showing, Finishing, ShowsCurrentTask
<1> QED BY <1>2, AlwaysIInv, PTL

\* start_terminal and start_task keep the user's shell and the agent apart.
THEOREM ShellAndAgentAlternate == Spec => []ShellExcludesAgent
<1>1. IInv => ShellExcludesAgent
  BY DEF IInv, Finishing, ShellExcludesAgent
<1> QED BY <1>1, AlwaysIInv, PTL

\* After CancellationToken.cancel at most one more tool body starts: the
\* boundaries around tools and the approval loop see the token.
THEOREM StopIsBounded == Spec => []StopBoundsTools
<1>1. IInv => StopBoundsTools
  BY DEF IInv, OwnTypes, TableTypes, Stopping, StopBoundsTools
<1> QED BY <1>1, AlwaysIInv, PTL

\* No watcher, poll or stop that comes late reopens a review that the user has
\* decided.
THEOREM DecisionsAreFinal == Spec => DecisionIsFinal
<1>1. ASSUME IInv, [Next]_vars, review \in {"accepted", "rejected"}, task' = task
      PROVE  review' = review
  <2>1. published # "none" /\ task \in Nat
    BY <1>1 DEF IInv, Showing, P!IInv, P!TypeOK, Tasks
  <2>2. ~(\E m \in Modes : StartTask(m))
    BY <1>1, <2>1 DEF StartTask, A!BeginTask
  <2>3. ~Accept /\ ~Reject
    BY <1>1 DEF Accept, Reject, MayReview
  <2>4. CASE Work \/ UNCHANGED vars
    BY <2>4 DEF Work, WorkerStarts, BeginRun, CallModel, ModelReturns, NextTurn,
         RunReturns, RunFails, LastCheck, SetFinalStatus, StoreResult, SetDone,
         AwaitApproval, ToolReturns, CallTool, vars
  <2>5. CASE \E t \in Tasks : WatcherReturns(t) \/ PollPublishes(t)
    BY <2>1, <2>5 DEF WatcherReturns, PollPublishes, Publish, Unpublished
  <2>6. CASE \/ Stop \/ StopTask \/ StopToken \/ StopStatus \/ Poll
             \/ (\E q \in 1..asked, c \in A!Choices : ResolveApproval(q, c))
             \/ StartTerminal \/ TerminalEnds
    BY <2>6 DEF Stop, StopTask, StopToken, StopStatus, Poll, ResolveApproval,
         StartTerminal, TerminalEnds
  <2> QED BY <1>1, <2>2, <2>3, <2>4, <2>5, <2>6 DEF Next, Host
<1>2. IInv /\ [Next]_vars =>
        [(review \in {"accepted", "rejected"} /\ task' = task) => (review' = review)]_vars
  BY <1>1
<1> QED BY <1>2, AlwaysIInv, PTL DEF Spec, DecisionIsFinal
=============================================================================

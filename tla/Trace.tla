------------------------------- MODULE Trace -------------------------------
(***************************************************************************)
(* What a task says of itself, and what a listener hears.  The worker      *)
(* thread runs the agent; wrappers around its model client, its tool       *)
(* executor, its rollback engine, replan and run write an event when a     *)
(* call begins and another when it ends.  The recorder keeps the last      *)
(* MaxEvents of them.  AsyncAgentTask.stream, on the event loop, polls the *)
(* recorder with a cursor into its list and closes after the task is done. *)
(* The cancellation boundaries stand outside the tracing wrappers.         *)
(*                                                                         *)
(* The state that no line of the code keeps: `said` (everything written    *)
(* since the stream was opened), `spoken` (its length when the task was    *)
(* done) and the number a call gets when it begins.                        *)
(***************************************************************************)
EXTENDS Naturals, Sequences, FiniteSets

CONSTANTS
    MaxEvents,   \* TraceRecorder(max_events=...)
    MaxStale,    \* events of an earlier task still in the recorder
    MaxCalls     \* bound: calls and transitions of one task

ASSUME TraceAssumption ==
    MaxEvents \in Nat \ {0} /\ MaxStale \in Nat /\ MaxCalls \in Nat

VARIABLES
    events,      \* TraceRecorder.events
    sequence,    \* TraceRecorder._sequence
    run,         \* TraceRecorder.task_id, as a number
    frames,      \* the worker's calls that have begun, outermost first
    todo,        \* events the worker writes before it does anything else
    worker,      \* what the worker does next
    calls,       \* calls begun (bound)
    cancelled,   \* CancellationToken
    done,        \* AsyncAgentTask._done
    stream,      \* "poll", "check", "last" or "closed"
    cursor,      \* the stream's cursor
    heard,       \* events the stream has yielded
    said,
    spoken

recorder == <<events, sequence, run>>
listener == <<stream, cursor, heard>>
vars == <<events, sequence, run, frames, todo, worker, calls, cancelled, done,
          stream, cursor, heard, said, spoken>>

Event(kind, call) == [kind |-> kind, call |-> call]
Top == frames[Len(frames)]
Popped == SubSeq(frames, 1, Len(frames) - 1)
Inside(kinds) == frames # <<>> /\ Top.kind \in kinds

\* The worker's code outside emit: nothing left to write, nothing left to trim.
Free == todo = <<>> /\ Len(events) <= MaxEvents

Init ==
    /\ \E n \in 0..MaxStale :
          events = [i \in 1..n |-> [run |-> 1, sequence |-> i, what |-> Event("stale", 0)]]
    /\ sequence = Len(events)
    /\ run = 1
    /\ frames = <<>>
    /\ todo = <<>>
    /\ worker = "start"
    /\ calls = 0
    /\ cancelled = FALSE
    /\ done = FALSE
    /\ stream = "poll"
    /\ cursor = 0
    /\ heard = <<>>
    /\ said = <<>>
    /\ spoken = 0

-----------------------------------------------------------------------------
(* The recorder. *)

\* emit: the number goes up and the event is appended ...
Emit ==
    /\ todo # <<>>
    /\ Len(events) <= MaxEvents
    /\ sequence' = sequence + 1
    /\ LET new == [run |-> run, sequence |-> sequence', what |-> Head(todo)]
       IN /\ events' = Append(events, new)
          /\ said' = Append(said, new)
    /\ todo' = Tail(todo)
    /\ UNCHANGED <<run, frames, worker, calls, cancelled, done, listener, spoken>>

\* ... and only then is the list cut to the last MaxEvents.
Trim ==
    /\ Len(events) > MaxEvents
    /\ events' = SubSeq(events, Len(events) - MaxEvents + 1, Len(events))
    /\ UNCHANGED <<sequence, run, frames, todo, worker, calls, cancelled, done,
                   listener, said, spoken>>

-----------------------------------------------------------------------------
(* The calls of the worker. *)

Write(kinds, call) == todo' = [i \in 1..Len(kinds) |-> Event(kinds[i], call)]
Quiet == UNCHANGED <<recorder, cancelled, done, listener, said, spoken>>

Begin(kind, first) ==
    /\ calls < MaxCalls
    /\ calls' = calls + 1
    /\ frames' = Append(frames, [kind |-> kind, call |-> calls + 1])
    /\ Write(<<first>>, calls + 1)
    /\ worker' = "run"
    /\ Quiet

End(kinds, next) ==
    /\ frames' = Popped
    /\ Write(kinds, Top.call)
    /\ worker' = next
    /\ UNCHANGED calls
    /\ Quiet

\* CancellableLLMClient and CancellableToolExecutor look at the token before
\* a call and after it; the worker looks before and after run.
Check ==
    /\ Free
    /\ worker = "check"
    /\ worker' = IF cancelled THEN "cancelled" ELSE "run"
    /\ UNCHANGED <<frames, todo, calls>>
    /\ Quiet

Refuse ==
    /\ Free
    /\ worker = "run"
    /\ Inside({"run", "replan"})
    /\ cancelled
    /\ worker' = "cancelled"
    /\ UNCHANGED <<frames, todo, calls>>
    /\ Quiet

\* start_task clears the list the stream reads and counts from one again.
StartRun ==
    /\ Free
    /\ worker = "start"
    /\ ~cancelled
    /\ events' = <<>>
    /\ sequence' = 0
    /\ run' = run + 1
    /\ frames' = <<[kind |-> "run", call |-> 0]>>
    /\ Write(<<"task_started">>, 0)
    /\ worker' = "run"
    /\ UNCHANGED <<calls, cancelled, done, listener, said, spoken>>

NeverStarts ==
    /\ Free
    /\ worker = "start"
    /\ cancelled
    /\ worker' = "cancelled"
    /\ UNCHANGED <<frames, todo, calls>>
    /\ Quiet

Running == Free /\ worker = "run"

\* The planner and the replanner use the same traced client as the loop.
CallModel ==
    Running /\ ~cancelled /\ Inside({"run", "replan"}) /\ Begin("llm", "llm_started")

ModelAnswers ==
    Running /\ Inside({"llm"}) /\ End(<<"llm_finished">>, "check")

ModelFails ==
    Running /\ Inside({"llm"}) /\ End(<<"llm_failed">>, "failed")

CallTool ==
    Running /\ ~cancelled /\ Inside({"run"}) /\ Begin("tool", "tool_requested")

\* A result, of a failing tool as well: the executors underneath answer for
\* what a tool raises.
ToolReturns(decided, edited) ==
    /\ Running
    /\ Inside({"tool"})
    /\ End((IF decided THEN <<"safety_decision">> ELSE <<>>)
             \o <<"tool_finished">>
             \o (IF edited THEN <<"edit_applied">> ELSE <<>>), "check")

\* What still comes out of the executors (of the checkpoint executor, say).
MutToolRaises ==
    Running /\ Inside({"tool"}) /\ End(<<>>, "failed")

ToolRaises ==
    Running /\ Inside({"tool"}) /\ End(<<"tool_finished">>, "failed")

\* replan, from the loop or as a tool; it answers for its own failures and
\* for a cancellation its model call ran into.
CallReplan ==
    Running /\ Inside({"run", "tool"}) /\ Begin("replan", "replan_started")

ReplanReturns ==
    /\ Free
    /\ \/ worker = "run" /\ Inside({"replan"})
       \/ worker \in {"failed", "cancelled"} /\ Inside({"replan"})
    /\ End(<<"replan_finished">>, "run")

CallRollback ==
    Running /\ Inside({"run"}) /\ Begin("rollback", "rollback_started")

RollbackReturns ==
    Running /\ Inside({"rollback"}) /\ End(<<"rollback_finished">>, "run")

RollbackRaises ==
    Running /\ Inside({"rollback"}) /\ End(<<"rollback_finished">>, "failed")

\* apply_runtime_event, and the events other parts write themselves.
Transition ==
    /\ Running
    /\ Inside({"run"})
    /\ calls < MaxCalls
    /\ calls' = calls + 1
    /\ Write(<<"runtime_transition">>, calls + 1)
    /\ UNCHANGED <<frames, worker>>
    /\ Quiet

\* Some callers inside run catch whatever their call raised ...
Handled ==
    /\ Free
    /\ worker \in {"failed", "cancelled"}
    /\ Inside({"run"})
    /\ worker' = "run"
    /\ UNCHANGED <<frames, todo, calls>>
    /\ Quiet

\* ... and what none of them catches ends the run.
RunRaises ==
    Free /\ worker \in {"failed", "cancelled"} /\ Inside({"run"})
         /\ End(<<"task_failed">>, worker)

RunReturns ==
    Running /\ Inside({"run"}) /\ End(<<"task_finished">>, "check")

\* _worker: a cancelled task says so in one more transition; _done is last.
CloseCancelled ==
    /\ Free
    /\ frames = <<>>
    /\ worker = "cancelled"
    /\ Write(<<"runtime_transition">>, 0)
    /\ worker' = "closing"
    /\ UNCHANGED <<frames, calls>>
    /\ Quiet

Finish ==
    /\ Free
    /\ frames = <<>>
    /\ worker \in {"closing", "failed", "run"}
    /\ worker' = "ended"
    /\ done' = TRUE
    /\ spoken' = Len(said)
    /\ UNCHANGED <<recorder, frames, todo, calls, cancelled, listener, said>>

-----------------------------------------------------------------------------
(* The other threads. *)

Cancel ==
    /\ ~done
    /\ ~cancelled
    /\ cancelled' = TRUE
    /\ UNCHANGED <<recorder, frames, todo, worker, calls, done, listener, said, spoken>>

\* undo_task reports to the same recorder when the task is over.
Undo ==
    /\ done
    /\ Free
    /\ calls < MaxCalls
    /\ calls' = calls + 1
    /\ Write(<<"runtime_transition">>, calls + 1)
    /\ UNCHANGED <<frames, worker>>
    /\ Quiet

Rest == SubSeq(events, cursor + 1, Len(events))

Deliver ==
    /\ heard' = heard \o Rest
    /\ cursor' = IF cursor < Len(events) THEN Len(events) ELSE cursor

Poll ==
    /\ stream = "poll"
    /\ Deliver
    /\ stream' = "check"
    /\ UNCHANGED <<recorder, frames, todo, worker, calls, cancelled, done, said, spoken>>

\* Not done: sleep and poll again.
MutCheckDone ==
    /\ stream = "check"
    /\ stream' = IF done THEN "closed" ELSE "poll"
    /\ UNCHANGED <<recorder, frames, todo, worker, calls, cancelled, done, cursor,
                   heard, said, spoken>>

CheckDone ==
    /\ stream = "check"
    /\ stream' = IF done THEN "last" ELSE "poll"
    /\ UNCHANGED <<recorder, frames, todo, worker, calls, cancelled, done, cursor,
                   heard, said, spoken>>

\* The last drain; the terminal event follows it and the generator returns.
FinalDrain ==
    /\ stream = "last"
    /\ Deliver
    /\ stream' = "closed"
    /\ UNCHANGED <<recorder, frames, todo, worker, calls, cancelled, done, said, spoken>>

Next ==
    \/ Emit
    \/ Trim
    \/ Check
    \/ Refuse
    \/ StartRun
    \/ NeverStarts
    \/ CallModel
    \/ ModelAnswers
    \/ ModelFails
    \/ CallTool
    \/ \E decided, edited \in BOOLEAN : ToolReturns(decided, edited)
    \/ ToolRaises
    \/ CallReplan
    \/ ReplanReturns
    \/ CallRollback
    \/ RollbackReturns
    \/ RollbackRaises
    \/ Transition
    \/ Handled
    \/ RunRaises
    \/ RunReturns
    \/ CloseCancelled
    \/ Finish
    \/ Cancel
    \/ Undo
    \/ Poll
    \/ CheckDone
    \/ FinalDrain

Spec == Init /\ [][Next]_vars

-----------------------------------------------------------------------------
Before(x, y) == \/ x.run < y.run
                \/ x.run = y.run /\ x.sequence < y.sequence

\* The stream yields events in the order they were written and none twice,
\* although the list is cut and cleared under its cursor; and when it closes
\* on a recorder that was empty at the start and never full, it has yielded
\* every event the task wrote before it was done.
StreamFaithful ==
    /\ \A i, j \in 1..Len(heard) : i < j => Before(heard[i], heard[j])
    /\ stream = "closed" /\ Len(said) <= MaxEvents /\ (heard # <<>> => heard[1].run # 1)
          => Len(heard) >= spoken /\ SubSeq(heard, 1, spoken) = SubSeq(said, 1, spoken)

Starts == {"task_started", "llm_started", "tool_requested", "rollback_started",
           "replan_started"}
Ends(kind) ==
    CASE kind = "task_started" -> {"task_finished", "task_failed"}
      [] kind = "llm_started" -> {"llm_finished", "llm_failed"}
      [] kind = "tool_requested" -> {"tool_finished"}
      [] kind = "rollback_started" -> {"rollback_finished"}
      [] OTHER -> {"replan_finished"}

EndsOf(i) == {j \in 1..Len(said) : said[j].what.call = said[i].what.call
                                   /\ said[j].what.kind \in Ends(said[i].what.kind)}

\* When the task is over, every call the trace shows to begin is shown to
\* end, once, and calls are nested: whatever began inside it ended inside it,
\* however it failed and whenever it was cancelled.
StartsAreClosed ==
    done => \A i \in 1..Len(said) : said[i].what.kind \in Starts =>
              \E j \in (i + 1)..Len(said) :
                 /\ EndsOf(i) = {j}
                 /\ \A k \in (i + 1)..(j - 1) : said[k].what.kind \in Starts =>
                       \E l \in (k + 1)..(j - 1) : EndsOf(k) = {l}
=============================================================================

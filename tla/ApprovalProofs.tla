--------------------------- MODULE ApprovalProofs ---------------------------
(***************************************************************************)
(* For any number of workers, rules, requests, tasks and answers: what may *)
(* run, on whose word, and that nobody waits for a lost request.           *)
(*                                                                         *)
(* One inductive invariant, IInv, proves all of it; each lemma below takes *)
(* one action of the coordinator or of the executor through it.            *)
(***************************************************************************)
EXTENDS Approval, TLAPS

USE DEF coordinator, history, Requests, Allowing, Choices

\* A flagged call names one of the rules.
LEMMA FlaggedCallHasRule ==
    ASSUME NEW c \in Calls, c.level = "caution"
    PROVE  c.rule \in Rules
BY DEF Calls

LEMMA InvokeKeeps ==
    ASSUME IInv, NEW w \in Workers, NEW c \in Calls, Invoke(w, c)
    PROVE  IInv'
<1> USE DEF IInv, TypeOK, Invoke
<1>1. call'[w] = c /\ pc'[w] = Gate(c)
  OBVIOUS
<1>2. \A v \in Workers \ {w} : call'[v] = call[v] /\ pc'[v] = pc[v]
  OBVIOUS
<1>3. Gate(c) = "running" =>
        /\ c.level \in {"safe", "caution"}
        /\ mode = "read_only" => c.reads
        /\ ~(mode = "review" /\ c.level = "caution")
  BY DEF Gate, AllowedInMode, Calls
<1>4. RunsOnlyIfPermitted'
  BY <1>1, <1>2, <1>3 DEF RunsOnlyIfPermitted, LastAnswer
<1>5. TypeOK' /\ NobodyStranded' /\ GrantedOnlyByAnswer' /\ GrantsDieWithTask'
  BY DEF TypeOK, NobodyStranded, GrantedOnlyByAnswer, GrantsDieWithTask,
       ChoiceIsLastAnswer, FreshIds, Asking, Gate, LastAnswer
<1>6. ChoiceIsLastAnswer' /\ FreshIds' /\ Asking'
  BY DEF TypeOK, NobodyStranded, GrantedOnlyByAnswer, GrantsDieWithTask,
       ChoiceIsLastAnswer, FreshIds, Asking, Gate, LastAnswer
<1> QED BY <1>4, <1>5, <1>6

LEMMA HookFailsKeeps ==
    ASSUME IInv, NEW w \in Workers, HookFails(w)
    PROVE  IInv'
BY WorkersAssumption, BoundsAssumption DEF IInv, TypeOK, NobodyStranded,
     GrantedOnlyByAnswer, GrantsDieWithTask, RunsOnlyIfPermitted,
     ChoiceIsLastAnswer, FreshIds, Asking, HookFails, LastAnswer

LEMMA ReturnKeeps ==
    ASSUME IInv, NEW w \in Workers, Return(w)
    PROVE  IInv'
<1>1. NoCall \in Calls /\ NoCall.level = "safe"
  BY DEF NoCall, Calls
<1>2. TypeOK'
  BY <1>1 DEF IInv, TypeOK, Return
<1>3. NobodyStranded'
  BY BoundsAssumption DEF IInv, TypeOK, FreshIds, NobodyStranded, Return,
       NoCall, LastAnswer
<1>4. GrantedOnlyByAnswer'
  BY BoundsAssumption DEF IInv, TypeOK, NobodyStranded, FreshIds,
       ChoiceIsLastAnswer, GrantedOnlyByAnswer, Return, NoCall, LastAnswer
<1>5. GrantsDieWithTask'
  BY BoundsAssumption DEF IInv, TypeOK, NobodyStranded, FreshIds,
       ChoiceIsLastAnswer, GrantsDieWithTask, Return, NoCall, LastAnswer
<1>6. RunsOnlyIfPermitted'
  BY BoundsAssumption DEF IInv, TypeOK, NobodyStranded, FreshIds, Asking,
       RunsOnlyIfPermitted, Return, NoCall, LastAnswer
<1>7. ChoiceIsLastAnswer'
  BY BoundsAssumption DEF IInv, TypeOK, NobodyStranded, FreshIds,
       ChoiceIsLastAnswer, Return, NoCall, LastAnswer
<1>8. FreshIds'
  BY BoundsAssumption DEF IInv, TypeOK, NobodyStranded, FreshIds, Return,
       NoCall, LastAnswer
<1>9. Asking'
  BY BoundsAssumption DEF IInv, TypeOK, NobodyStranded, FreshIds, Asking,
       Return, NoCall, LastAnswer
<1> QED BY <1>2, <1>3, <1>4, <1>5, <1>6, <1>7, <1>8, <1>9 DEF IInv

LEMMA StandingGrantKeeps ==
    ASSUME IInv, NEW w \in Workers, StandingGrant(w)
    PROVE  IInv'
BY WorkersAssumption, BoundsAssumption DEF IInv, TypeOK, NobodyStranded,
     GrantedOnlyByAnswer, GrantsDieWithTask, RunsOnlyIfPermitted,
     ChoiceIsLastAnswer, FreshIds, Asking, StandingGrant, LastAnswer

LEMMA BusyKeeps ==
    ASSUME IInv, NEW w \in Workers, Busy(w)
    PROVE  IInv'
BY WorkersAssumption, BoundsAssumption DEF IInv, TypeOK, NobodyStranded,
     GrantedOnlyByAnswer, GrantsDieWithTask, RunsOnlyIfPermitted,
     ChoiceIsLastAnswer, FreshIds, Asking, Busy, LastAnswer

LEMMA AskKeeps ==
    ASSUME IInv, NEW w \in Workers, Ask(w)
    PROVE  IInv'
<1> USE DEF IInv, TypeOK, Ask, MayAsk, Record
<1>1. /\ asked + 1 \in Requests /\ asked' = asked + 1
      /\ call[w].rule \in Rules
  BY FlaggedCallHasRule, BoundsAssumption DEF Asking
<1>2. /\ ruleOf' = [ruleOf EXCEPT ![asked + 1] = call[w].rule]
      /\ taskOf' = [taskOf EXCEPT ![asked + 1] = task]
      /\ askedBy' = [askedBy EXCEPT ![asked + 1] = w]
      /\ verdict' = [verdict EXCEPT ![asked + 1] = "open"]
      /\ answers' = answers
  OBVIOUS
<1>3. TypeOK'
  BY <1>1, <1>2
<1>4. \A q \in Requests \ {asked + 1} :
        /\ ruleOf'[q] = ruleOf[q] /\ taskOf'[q] = taskOf[q]
        /\ askedBy'[q] = askedBy[q] /\ verdict'[q] = verdict[q]
  BY <1>2
<1>5. GrantsDieWithTask'
  <2>1. SUFFICES ASSUME NEW r \in allowedRules
                 PROVE  \E q \in Requests :
                          /\ taskOf'[q] = task /\ ruleOf'[q] = r
                          /\ verdict'[q] = "granted" /\ LastAnswer(q)' =
                               "allow_task"
    BY DEF GrantsDieWithTask
  <2>2. PICK q \in Requests :
          /\ taskOf[q] = task /\ ruleOf[q] = r
          /\ verdict[q] = "granted" /\ LastAnswer(q) = "allow_task"
    BY DEF GrantsDieWithTask
  <2>3. q # asked + 1
    BY <2>2 DEF FreshIds
  <2> QED BY <1>2, <1>4, <2>2, <2>3 DEF LastAnswer
<1>6. RunsOnlyIfPermitted'
  <2>1. SUFFICES ASSUME NEW v \in Workers, pc'[v] = "running",
                        mode = "review", call[v].level = "caution",
                        call[v].rule \notin allowedRules
                 PROVE  \E q \in Requests :
                          /\ askedBy'[q] = v /\ taskOf'[q] = task
                          /\ ruleOf'[q] = call[v].rule /\ verdict'[q] =
                               "granted"
                          /\ \A r \in Requests : askedBy'[r] = v => r <= q
    BY DEF RunsOnlyIfPermitted
  <2>2. v # w /\ pc[v] = "running"
    BY <2>1
  <2>3. PICK q \in Requests :
          /\ askedBy[q] = v /\ taskOf[q] = task
          /\ ruleOf[q] = call[v].rule /\ verdict[q] = "granted"
          /\ \A r \in Requests : askedBy[r] = v => r <= q
    BY <2>1, <2>2 DEF RunsOnlyIfPermitted
  <2>4. q # asked + 1 /\ askedBy'[asked + 1] = w
    BY <1>1, <1>2, <2>2, <2>3, WorkersAssumption DEF FreshIds
  <2> QED BY <1>4, <2>2, <2>3, <2>4
<1>7. GrantedOnlyByAnswer' /\ ChoiceIsLastAnswer' /\ FreshIds'
  BY <1>1, <1>2, <1>4 DEF GrantedOnlyByAnswer, ChoiceIsLastAnswer, FreshIds,
       LastAnswer
<1>8. NobodyStranded' /\ Asking'
  BY <1>1, <1>2, <1>4 DEF NobodyStranded, Asking
<1> QED BY <1>3, <1>5, <1>6, <1>7, <1>8

LEMMA AskCancelledKeeps ==
    ASSUME IInv, NEW w \in Workers, AskCancelled(w)
    PROVE  IInv'
<1> USE DEF IInv, TypeOK, AskCancelled, MayAsk, Record
<1>1. /\ asked + 1 \in Requests /\ asked' = asked + 1
      /\ call[w].rule \in Rules
  BY FlaggedCallHasRule, BoundsAssumption DEF Asking
<1>2. /\ ruleOf' = [ruleOf EXCEPT ![asked + 1] = call[w].rule]
      /\ taskOf' = [taskOf EXCEPT ![asked + 1] = task]
      /\ askedBy' = [askedBy EXCEPT ![asked + 1] = w]
      /\ verdict' = [verdict EXCEPT ![asked + 1] = "denied"]
      /\ answers' = answers
  OBVIOUS
<1>3. TypeOK'
  BY <1>1, <1>2
<1>4. \A q \in Requests \ {asked + 1} :
        /\ ruleOf'[q] = ruleOf[q] /\ taskOf'[q] = taskOf[q]
        /\ askedBy'[q] = askedBy[q] /\ verdict'[q] = verdict[q]
  BY <1>2
<1>5. GrantsDieWithTask'
  <2>1. SUFFICES ASSUME NEW r \in allowedRules
                 PROVE  \E q \in Requests :
                          /\ taskOf'[q] = task /\ ruleOf'[q] = r
                          /\ verdict'[q] = "granted" /\ LastAnswer(q)' =
                               "allow_task"
    BY DEF GrantsDieWithTask
  <2>2. PICK q \in Requests :
          /\ taskOf[q] = task /\ ruleOf[q] = r
          /\ verdict[q] = "granted" /\ LastAnswer(q) = "allow_task"
    BY DEF GrantsDieWithTask
  <2>3. q # asked + 1
    BY <2>2 DEF FreshIds
  <2> QED BY <1>2, <1>4, <2>2, <2>3 DEF LastAnswer
<1>6. RunsOnlyIfPermitted'
  <2>1. SUFFICES ASSUME NEW v \in Workers, pc'[v] = "running",
                        mode = "review", call[v].level = "caution",
                        call[v].rule \notin allowedRules
                 PROVE  \E q \in Requests :
                          /\ askedBy'[q] = v /\ taskOf'[q] = task
                          /\ ruleOf'[q] = call[v].rule /\ verdict'[q] =
                               "granted"
                          /\ \A r \in Requests : askedBy'[r] = v => r <= q
    BY DEF RunsOnlyIfPermitted
  <2>2. v # w /\ pc[v] = "running"
    BY <2>1
  <2>3. PICK q \in Requests :
          /\ askedBy[q] = v /\ taskOf[q] = task
          /\ ruleOf[q] = call[v].rule /\ verdict[q] = "granted"
          /\ \A r \in Requests : askedBy[r] = v => r <= q
    BY <2>1, <2>2 DEF RunsOnlyIfPermitted
  <2>4. q # asked + 1 /\ askedBy'[asked + 1] = w
    BY <1>1, <1>2, <2>2, <2>3, WorkersAssumption DEF FreshIds
  <2> QED BY <1>4, <2>2, <2>3, <2>4
<1>7. GrantedOnlyByAnswer' /\ ChoiceIsLastAnswer' /\ FreshIds'
  BY <1>1, <1>2, <1>4 DEF GrantedOnlyByAnswer, ChoiceIsLastAnswer, FreshIds,
       LastAnswer
<1>8. NobodyStranded' /\ Asking'
  BY <1>1, <1>2, <1>4 DEF NobodyStranded, Asking
<1> QED BY <1>3, <1>5, <1>6, <1>7, <1>8

LEMMA CloseKeeps ==
    ASSUME IInv, NEW w \in Workers, NEW c \in Choices,
           pc[w] = "waiting", c = choice \/ c = "reject", Close(w, c)
    PROVE  IInv'
<1>1. call[w].rule \in Rules /\ pending \in Requests
  BY FlaggedCallHasRule DEF IInv, TypeOK, Asking, NobodyStranded
<1>2. TypeOK'
  <2>1. verdict' \in [Requests -> {"open", "granted", "denied"}]
    BY <1>1 DEF IInv, TypeOK, Close
  <2>2. pc' \in [Workers -> {"idle", "asking", "waiting", "running",
       "refused"}]
    BY DEF IInv, TypeOK, Close
  <2>3. allowedRules' \subseteq Rules
    BY <1>1 DEF IInv, TypeOK, Close
  <2>4. pending' \in 0..MaxRequests /\ choice' \in Choices \cup {"none"}
    BY BoundsAssumption DEF Close
  <2>5. UNCHANGED <<mode, task, cancelled, call, asked, ruleOf, taskOf,
       askedBy,
                    answers>>
    BY DEF Close
  <2> QED BY <2>1, <2>2, <2>3, <2>4, <2>5 DEF IInv, TypeOK
<1>3. NobodyStranded'
  BY <1>1, BoundsAssumption DEF IInv, TypeOK, FreshIds, Asking,
       NobodyStranded, Close, LastAnswer
<1>4. GrantedOnlyByAnswer'
  BY <1>1, BoundsAssumption DEF IInv, TypeOK, NobodyStranded, FreshIds,
       Asking, ChoiceIsLastAnswer, GrantedOnlyByAnswer, Close, LastAnswer
<1>5. GrantsDieWithTask'
  BY <1>1, BoundsAssumption DEF IInv, TypeOK, NobodyStranded, FreshIds,
       Asking, ChoiceIsLastAnswer, GrantsDieWithTask, Close, LastAnswer
<1>6. RunsOnlyIfPermitted'
  BY <1>1, WorkersAssumption, BoundsAssumption DEF IInv, TypeOK,
       NobodyStranded, FreshIds, Asking, RunsOnlyIfPermitted, Close,
       LastAnswer
<1>7. ChoiceIsLastAnswer'
  BY <1>1, BoundsAssumption DEF IInv, TypeOK, NobodyStranded, FreshIds,
       Asking, ChoiceIsLastAnswer, Close, LastAnswer
<1>8. FreshIds'
  BY <1>1, BoundsAssumption DEF IInv, TypeOK, NobodyStranded, FreshIds,
       Asking, Close, LastAnswer
<1>9. Asking'
  BY <1>1, BoundsAssumption DEF IInv, TypeOK, NobodyStranded, FreshIds,
       Asking, Close, LastAnswer
<1> QED BY <1>2, <1>3, <1>4, <1>5, <1>6, <1>7, <1>8, <1>9 DEF IInv

LEMMA ResolveKeeps ==
    ASSUME IInv, NEW q \in 1..asked, NEW c \in Choices, Resolve(q, c)
    PROVE  IInv'
<1>1. /\ q = pending /\ pending \in Requests
      /\ answers' = [answers EXCEPT ![pending] = Append(@, c)]
  BY DEF IInv, TypeOK, Resolve, IsPending, Answer
<1>2. TypeOK'
  BY <1>1 DEF IInv, TypeOK, Resolve
<1>3. LastAnswer(pending)' = c
  <2>1. answers[pending] \in Seq(Choices \cup {"stop"})
    BY <1>1 DEF IInv, TypeOK
  <2>2. answers'[pending] = Append(answers[pending], c)
    BY <1>1 DEF IInv, TypeOK
  <2>3. pending' = pending
    BY DEF Resolve
  <2> QED BY <2>1, <2>2, <2>3 DEF LastAnswer
<1>4. ChoiceIsLastAnswer'
  BY <1>3 DEF ChoiceIsLastAnswer, Resolve
<1>5. NobodyStranded'
  BY BoundsAssumption DEF IInv, TypeOK, FreshIds, NobodyStranded, Resolve,
       IsPending, Answer, LastAnswer
<1>6. GrantedOnlyByAnswer'
  BY BoundsAssumption DEF IInv, TypeOK, NobodyStranded, FreshIds,
       ChoiceIsLastAnswer, GrantedOnlyByAnswer, Resolve, IsPending, Answer,
       LastAnswer
<1>7. GrantsDieWithTask'
  <2>1. \A r \in Requests : verdict[r] = "granted" => LastAnswer(r)' =
       LastAnswer(r)
    BY <1>1 DEF IInv, TypeOK, NobodyStranded, LastAnswer
  <2> QED BY <2>1 DEF IInv, TypeOK, GrantsDieWithTask, Resolve
<1>8. RunsOnlyIfPermitted'
  BY BoundsAssumption DEF IInv, TypeOK, NobodyStranded, FreshIds, Asking,
       RunsOnlyIfPermitted, Resolve, IsPending, Answer, LastAnswer
<1>9. FreshIds'
  BY BoundsAssumption DEF IInv, TypeOK, NobodyStranded, FreshIds, Resolve,
       IsPending, Answer, LastAnswer
<1>10. Asking'
  BY BoundsAssumption DEF IInv, TypeOK, NobodyStranded, FreshIds, Asking,
       Resolve, IsPending, Answer, LastAnswer
<1> QED BY <1>2, <1>5, <1>6, <1>7, <1>8, <1>4, <1>9, <1>10 DEF IInv

LEMMA CancelPendingKeeps ==
    ASSUME IInv, CancelPending
    PROVE  IInv'
<1>1. /\ pending \in Requests /\ verdict[pending] = "open"
      /\ answers' = [answers EXCEPT ![pending] = Append(@, "stop")]
  BY DEF IInv, TypeOK, NobodyStranded, CancelPending, Answer
<1>2. TypeOK'
  BY <1>1 DEF IInv, TypeOK, CancelPending
<1>3. \A q \in Requests : verdict[q] = "granted" => LastAnswer(q)' =
     LastAnswer(q)
  BY <1>1 DEF IInv, TypeOK, LastAnswer
<1>4. GrantsDieWithTask'
  BY <1>3 DEF IInv, TypeOK, GrantsDieWithTask, CancelPending
<1>5. NobodyStranded'
  BY BoundsAssumption DEF IInv, TypeOK, FreshIds, NobodyStranded,
       CancelPending, Answer, LastAnswer
<1>6. GrantedOnlyByAnswer'
  BY BoundsAssumption DEF IInv, TypeOK, NobodyStranded, FreshIds,
       ChoiceIsLastAnswer, GrantedOnlyByAnswer, CancelPending, Answer,
       LastAnswer
<1>7. RunsOnlyIfPermitted'
  BY BoundsAssumption DEF IInv, TypeOK, NobodyStranded, FreshIds, Asking,
       RunsOnlyIfPermitted, CancelPending, Answer, LastAnswer
<1>8. ChoiceIsLastAnswer'
  BY BoundsAssumption DEF IInv, TypeOK, NobodyStranded, FreshIds,
       ChoiceIsLastAnswer, CancelPending, Answer, LastAnswer
<1>9. FreshIds'
  BY BoundsAssumption DEF IInv, TypeOK, NobodyStranded, FreshIds,
       CancelPending, Answer, LastAnswer
<1>10. Asking'
  BY BoundsAssumption DEF IInv, TypeOK, NobodyStranded, FreshIds, Asking,
       CancelPending, Answer, LastAnswer
<1> QED BY <1>2, <1>5, <1>6, <1>4, <1>7, <1>8, <1>9, <1>10 DEF IInv

LEMMA CancelTokenKeeps ==
    ASSUME IInv, CancelToken
    PROVE  IInv'
BY WorkersAssumption, BoundsAssumption DEF IInv, TypeOK, NobodyStranded,
     GrantedOnlyByAnswer, GrantsDieWithTask, RunsOnlyIfPermitted,
     ChoiceIsLastAnswer, FreshIds, Asking, CancelToken, LastAnswer

LEMMA BeginTaskKeeps ==
    ASSUME IInv, NEW m \in Modes, BeginTask(m)
    PROVE  IInv'
<1>1. TypeOK'
  <2>1. task + 1 \in 1..MaxTasks
    BY BoundsAssumption DEF IInv, TypeOK, BeginTask
  <2> QED BY <2>1 DEF IInv, TypeOK, BeginTask
<1>2. NobodyStranded'
  BY BoundsAssumption DEF IInv, TypeOK, FreshIds, NobodyStranded, BeginTask,
       LastAnswer
<1>3. GrantedOnlyByAnswer'
  BY BoundsAssumption DEF IInv, TypeOK, NobodyStranded, FreshIds,
       ChoiceIsLastAnswer, GrantedOnlyByAnswer, BeginTask, LastAnswer
<1>4. GrantsDieWithTask'
  BY BoundsAssumption DEF IInv, TypeOK, NobodyStranded, FreshIds,
       ChoiceIsLastAnswer, GrantsDieWithTask, BeginTask, LastAnswer
<1>5. RunsOnlyIfPermitted'
  BY BoundsAssumption DEF IInv, TypeOK, NobodyStranded, FreshIds, Asking,
       RunsOnlyIfPermitted, BeginTask, LastAnswer
<1>6. ChoiceIsLastAnswer'
  BY BoundsAssumption DEF IInv, TypeOK, NobodyStranded, FreshIds,
       ChoiceIsLastAnswer, BeginTask, LastAnswer
<1>7. FreshIds'
  BY BoundsAssumption DEF IInv, TypeOK, NobodyStranded, FreshIds, BeginTask,
       LastAnswer
<1>8. Asking'
  BY BoundsAssumption DEF IInv, TypeOK, NobodyStranded, FreshIds, Asking,
       BeginTask, LastAnswer
<1> QED BY <1>1, <1>2, <1>3, <1>4, <1>5, <1>6, <1>7, <1>8 DEF IInv

LEMMA InitEstablishes == Init => IInv
<1> SUFFICES ASSUME Init PROVE IInv
  OBVIOUS
<1>1. TypeOK
  <2>1. NoCall \in Calls
    BY DEF NoCall, Calls
  <2>2. answers \in [Requests -> Seq(Choices \cup {"stop"})]
    BY DEF Init
  <2>3. call \in [Workers -> Calls]
    BY <2>1 DEF Init
  <2>4. task \in 1..MaxTasks /\ pending \in 0..MaxRequests /\ asked \in
       0..MaxRequests
    BY BoundsAssumption DEF Init
  <2>5. taskOf \in [Requests -> 0..MaxTasks]
    BY BoundsAssumption DEF Init
  <2> QED BY <2>2, <2>3, <2>4, <2>5 DEF Init, TypeOK
<1> QED BY <1>1 DEF Init, IInv, TypeOK, NobodyStranded, GrantedOnlyByAnswer,
     GrantsDieWithTask, RunsOnlyIfPermitted, ChoiceIsLastAnswer, FreshIds,
     Asking, LastAnswer

LEMMA StepKeeps == IInv /\ [Next]_vars => IInv'
<1> SUFFICES ASSUME IInv, [Next]_vars PROVE IInv'
  OBVIOUS
<1>1. ASSUME NEW w \in Workers, Intervene(w) PROVE IInv'
  <2>1. CASE WakeAnswered(w)
    BY <2>1, CloseKeeps DEF WakeAnswered, IInv, TypeOK
  <2>2. CASE WakeCancelled(w) \/ WakeTimedOut(w)
    BY <2>2, CloseKeeps DEF WakeCancelled, WakeTimedOut
  <2> QED BY <1>1, <2>1, <2>2, StandingGrantKeeps, BusyKeeps, AskKeeps,
             AskCancelledKeeps DEF Intervene
<1>2. CASE UNCHANGED vars
  BY <1>2 DEF vars, IInv, TypeOK, NobodyStranded, GrantedOnlyByAnswer,
       GrantsDieWithTask, RunsOnlyIfPermitted, ChoiceIsLastAnswer, FreshIds,
       Asking, LastAnswer
<1> QED BY <1>1, <1>2, InvokeKeeps, HookFailsKeeps, ReturnKeeps, ResolveKeeps,
           CancelPendingKeeps, CancelTokenKeeps, BeginTaskKeeps DEF Next

LEMMA AlwaysIInv == Spec => []IInv
BY InitEstablishes, StepKeeps, PTL DEF Spec

\* The variables of the executor and the coordinator stay in their types.
THEOREM TypeCorrect == Spec => []TypeOK
BY AlwaysIInv, PTL DEF IInv

\* However intervene, resolve, cancel_pending and the timeout interleave, a
\* worker that waits waits for the pending request.
THEOREM NobodyIsStranded == Spec => []NobodyStranded
BY AlwaysIInv, PTL DEF IInv

\* intervene returns True for a request only after a person answered that
\* request with an allowing choice, and gave no other answer later.
THEOREM GrantNeedsAnswer == Spec => []GrantedOnlyByAnswer
BY AlwaysIInv, PTL DEF IInv

\* begin_task leaves no standing grant behind.
THEOREM GrantsAreTaskScoped == Spec => []GrantsDieWithTask
BY AlwaysIInv, PTL DEF IInv

\* SafetyToolExecutor runs a flagged call of a reviewed task on a grant of that
\* task only, and a read-only task's calls only if they are read-only.
THEOREM NothingRunsUnpermitted == Spec => []RunsOnlyIfPermitted
BY AlwaysIInv, PTL DEF IInv

-----------------------------------------------------------------------------
(***************************************************************************)
(* Approval implements Permits: one lemma for each kind of step.           *)
(***************************************************************************)

\* A worker that goes to another place takes its call with it.
LEMMA CallsMove ==
    ASSUME IInv, NEW w \in Workers, NEW to, pc' = [pc EXCEPT ![w] = to],
           \A v \in Workers \ {w} : call'[v] = call[v]
    PROVE  LET left(place) == {x \in CallsAt(place) : x.worker # w}
               here == [worker |-> w, call |-> call'[w]]
           IN  /\ to = "waiting" => CallsAt("waiting")' = left("waiting") \cup {here}
               /\ to # "waiting" => CallsAt("waiting")' = left("waiting")
               /\ to = "running" => CallsAt("running")' = left("running") \cup {here}
               /\ to # "running" => CallsAt("running")' = left("running")
<1>1. pc'[w] = to /\ \A v \in Workers \ {w} : pc'[v] = pc[v]
  BY DEF IInv, TypeOK
<1>2. \A v \in Workers \ {w} : [worker |-> v, call |-> call'[v]] = [worker |-> v, call |-> call[v]]
  OBVIOUS
<1>3. /\ to = "waiting" => CallsAt("waiting")' = {x \in CallsAt("waiting") : x.worker # w}
                            \cup {[worker |-> w, call |-> call'[w]]}
      /\ to # "waiting" => CallsAt("waiting")' = {x \in CallsAt("waiting") : x.worker # w}
  BY <1>1, <1>2 DEF CallsAt
<1>4. /\ to = "running" => CallsAt("running")' = {x \in CallsAt("running") : x.worker # w}
                            \cup {[worker |-> w, call |-> call'[w]]}
      /\ to # "running" => CallsAt("running")' = {x \in CallsAt("running") : x.worker # w}
  BY <1>1, <1>2 DEF CallsAt
<1> QED BY <1>3, <1>4

\* Where no worker is, no call is; and the one who waits is alone.
LEMMA CallsHere ==
    ASSUME IInv
    PROVE  /\ \A w \in Workers : \A place :
                pc[w] # place => \A x \in CallsAt(place) : x.worker # w
           /\ pending = 0 => CallsAt("waiting") = {}
           /\ pending # 0 => CallsAt("waiting") # {}
           /\ \A w \in Workers : pc[w] = "waiting" =>
                CallsAt("waiting") = {[worker |-> w, call |-> call[w]]}
<1>1. /\ \A w \in Workers : pc[w] = "waiting" => pending # 0 /\ askedBy[pending] = w
      /\ pending # 0 => \E w \in Workers : pc[w] = "waiting"
  BY DEF IInv, NobodyStranded
<1>2. \A v, w \in Workers : pc[v] = "waiting" /\ pc[w] = "waiting" => v = w
  BY <1>1
<1>3. ASSUME NEW w \in Workers, NEW place, pc[w] # place
      PROVE  \A x \in CallsAt(place) : x.worker # w
  BY <1>3 DEF CallsAt
<1>4. pending = 0 => CallsAt("waiting") = {}
  BY <1>1 DEF CallsAt
<1>5. pending # 0 => CallsAt("waiting") # {}
  BY <1>1 DEF CallsAt
<1>6. ASSUME NEW w \in Workers, pc[w] = "waiting"
      PROVE  CallsAt("waiting") = {[worker |-> w, call |-> call[w]]}
  <2>1. {v \in Workers : pc[v] = "waiting"} = {w}
    BY <1>2, <1>6
  <2> QED BY <2>1 DEF CallsAt
<1> QED BY <1>3, <1>4, <1>5, <1>6

LEMMA PersonStays ==
    ASSUME IInv, NEW w \in Workers, NEW to \in {"asking", "refused", "idle"},
           pc[w] \notin {"waiting", "running"}, pc' = [pc EXCEPT ![w] = to],
           \A v \in Workers \ {w} : call'[v] = call[v],
           UNCHANGED <<mode, allowedRules, choice>>
    PROVE  UNCHANGED Person!vars
<1>1. CallsAt("waiting")' = {x \in CallsAt("waiting") : x.worker # w}
      /\ CallsAt("running")' = {x \in CallsAt("running") : x.worker # w}
  BY CallsMove
<1>2. CallsAt("waiting")' = CallsAt("waiting") /\ CallsAt("running")' = CallsAt("running")
  BY <1>1, CallsHere
<1> QED BY <1>2 DEF Person!vars

LEMMA PersonRuns ==
    ASSUME IInv, NEW w \in Workers, NEW c \in Calls,
           pc[w] \notin {"waiting", "running"}, pc' = [pc EXCEPT ![w] = "running"],
           call' = [call EXCEPT ![w] = c], UNCHANGED <<mode, allowedRules, choice>>,
           c.level # "blocked", mode = "read_only" => c.reads,
           mode = "review" /\ c.level = "caution" => c.rule \in allowedRules
    PROVE  Person!Run(w, c)
<1>1. call'[w] = c /\ \A v \in Workers \ {w} : call'[v] = call[v]
  BY DEF IInv, TypeOK
<1>2. CallsAt("waiting")' = {x \in CallsAt("waiting") : x.worker # w}
      /\ CallsAt("running")' = {x \in CallsAt("running") : x.worker # w}
                                \cup {[worker |-> w, call |-> c]}
  BY <1>1, CallsMove
<1>3. \A x \in CallsAt("waiting") \cup CallsAt("running") : x.worker # w
  BY CallsHere
<1> QED BY <1>2, <1>3 DEF Person!Run, Person!Idle

LEMMA PersonIsAsked ==
    ASSUME IInv, NEW w \in Workers, Ask(w)
    PROVE  Person!Ask(w, call[w])
<1>1. /\ pc[w] = "asking" /\ pending = 0 /\ pc' = [pc EXCEPT ![w] = "waiting"]
      /\ mode = "review" /\ call[w].level = "caution"
      /\ choice = "none" /\ choice' = "none" /\ UNCHANGED <<mode, allowedRules, call>>
  BY DEF Ask, MayAsk, IInv, Asking, NobodyStranded
<1>2. CallsAt("waiting")' = {x \in CallsAt("waiting") : x.worker # w}
                            \cup {[worker |-> w, call |-> call[w]]}
      /\ CallsAt("running")' = {x \in CallsAt("running") : x.worker # w}
  BY <1>1, CallsMove
<1>3. /\ CallsAt("waiting") = {}
      /\ \A x \in CallsAt("running") : x.worker # w
  BY <1>1, CallsHere
<1> QED BY <1>1, <1>2, <1>3 DEF Person!Ask, Person!Idle

LEMMA PersonIsHeard ==
    ASSUME IInv, NEW w \in Workers, NEW c \in Choices, pc[w] = "waiting",
           c = choice \/ (choice = "none" /\ c = "reject"), Close(w, c)
    PROVE  Person!Refuse \/ Person!Allow
<1> DEFINE to == IF c \in Allowing THEN "running" ELSE "refused"
           one == [worker |-> w, call |-> call[w]]
<1>1. /\ pc' = [pc EXCEPT ![w] = to] /\ choice' = "none" /\ UNCHANGED <<mode, call>>
      /\ allowedRules' = IF c = "allow_task"
                            THEN allowedRules \cup {call[w].rule} ELSE allowedRules
  BY DEF Close
<1>2. CallsAt("waiting") = {one} /\ \A x \in CallsAt("running") : x.worker # w
  BY CallsHere
<1>3. CallsAt("waiting")' = {}
  <2>1. CallsAt("waiting")' = {x \in CallsAt("waiting") : x.worker # w}
    BY <1>1, CallsMove
  <2> QED BY <1>2, <2>1
<1>4. CASE c \in Allowing
  <2>1. CallsAt("running")' = CallsAt("running") \cup {one}
    BY <1>1, <1>2, <1>4, CallsMove
  <2>2. choice = c
    BY <1>4
  <2>3. {x.call.rule : x \in CallsAt("waiting")} = {call[w].rule}
    <3>1. {x.call.rule : x \in {one}} = {one.call.rule}
      OBVIOUS
    <3> QED BY <1>2, <3>1
  <2> QED BY <1>1, <1>2, <1>3, <1>4, <2>1, <2>2, <2>3 DEF Person!Allow
<1>5. CASE c \notin Allowing
  <2>1. CallsAt("running")' = CallsAt("running")
    <3>1. to # "running"
      BY <1>5
    <3>2. CallsAt("running")' = {x \in CallsAt("running") : x.worker # w}
      <4> HIDE DEF to
      <4> QED BY <1>1, <3>1, CallsMove
    <3> QED BY <1>2, <3>2
  <2>2. c = "reject" /\ choice \in {"none", "reject"}
    BY <1>5
  <2> QED BY <1>1, <1>2, <1>3, <2>1, <2>2 DEF Person!Refuse
<1> QED BY <1>4, <1>5

LEMMA PersonSees ==
    ASSUME IInv, NEW w \in Workers, Intervene(w)
    PROVE  [Person!Next]_Person!vars
<1>1. ASSUME StandingGrant(w) PROVE Person!Run(w, call[w])
  <2>1. /\ pc[w] = "asking" /\ pc' = [pc EXCEPT ![w] = "running"]
        /\ call' = [call EXCEPT ![w] = call[w]] /\ call[w].rule \in allowedRules
        /\ UNCHANGED <<mode, allowedRules, choice>>
    BY <1>1 DEF StandingGrant, IInv, TypeOK
  <2>2. mode = "review" /\ call[w].level = "caution" /\ call[w] \in Calls
    BY <2>1 DEF IInv, Asking, TypeOK
  <2> QED BY <2>1, <2>2, PersonRuns
<1>2. ASSUME Busy(w) \/ AskCancelled(w) PROVE UNCHANGED Person!vars
  <2>1. /\ pc[w] = "asking" /\ pc' = [pc EXCEPT ![w] = "refused"]
        /\ UNCHANGED <<call, mode, allowedRules, choice>>
    BY <1>2 DEF Busy, AskCancelled, MayAsk, IInv, NobodyStranded
  <2> QED BY <2>1, PersonStays
<1>3. ASSUME WakeAnswered(w) PROVE Person!Refuse \/ Person!Allow
  <2>1. choice \in Choices
    BY <1>3 DEF WakeAnswered, IInv, TypeOK
  <2> QED BY <1>3, <2>1, PersonIsHeard DEF WakeAnswered
<1>4. ASSUME WakeCancelled(w) \/ WakeTimedOut(w) PROVE Person!Refuse \/ Person!Allow
  BY <1>4, PersonIsHeard DEF WakeCancelled, WakeTimedOut
<1>5. call[w] \in Calls
  BY DEF IInv, TypeOK
<1> QED BY <1>1, <1>2, <1>3, <1>4, <1>5, PersonIsAsked DEF Intervene, Person!Next

LEMMA PersonStep == IInv /\ [Next]_vars => [Person!Next]_Person!vars
<1> SUFFICES ASSUME IInv, [Next]_vars PROVE [Person!Next]_Person!vars
  OBVIOUS
<1>1. ASSUME NEW w \in Workers, NEW c \in Calls, Invoke(w, c)
      PROVE  [Person!Next]_Person!vars
  <2>1. /\ pc[w] = "idle" /\ pc' = [pc EXCEPT ![w] = Gate(c)]
        /\ call' = [call EXCEPT ![w] = c] /\ UNCHANGED <<mode, allowedRules, choice>>
        /\ \A v \in Workers \ {w} : call'[v] = call[v]
    BY <1>1 DEF Invoke, IInv, TypeOK
  <2>2. CASE Gate(c) = "running"
    <3>1. /\ c.level # "blocked" /\ (mode = "read_only" => c.reads)
          /\ ~(mode = "review" /\ c.level = "caution")
      BY <2>2 DEF Gate, AllowedInMode
    <3>2. Person!Run(w, c)
      BY <2>1, <2>2, <3>1, PersonRuns
    <3> QED BY <3>2 DEF Person!Next
  <2>3. CASE Gate(c) \in {"asking", "refused"}
    BY <2>1, <2>3, PersonStays
  <2> QED BY <2>2, <2>3 DEF Gate
<1>2. ASSUME NEW w \in Workers, HookFails(w) PROVE [Person!Next]_Person!vars
  BY <1>2, PersonStays DEF HookFails
<1>3. ASSUME NEW w \in Workers, Return(w) PROVE [Person!Next]_Person!vars
  <2>1. /\ pc' = [pc EXCEPT ![w] = "idle"] /\ UNCHANGED <<mode, allowedRules, choice>>
        /\ \A v \in Workers \ {w} : call'[v] = call[v]
    BY <1>3 DEF Return, IInv, TypeOK
  <2>2. CASE pc[w] = "refused"
    BY <2>1, <2>2, PersonStays
  <2>3. CASE pc[w] = "running"
    <3>1. CallsAt("running")' = {x \in CallsAt("running") : x.worker # w}
          /\ CallsAt("waiting")' = {x \in CallsAt("waiting") : x.worker # w}
      <4>1. "idle" # "running" /\ "idle" # "waiting"
        OBVIOUS
      <4> QED BY <2>1, <4>1, CallsMove, Zenon
    <3>2. \A x \in CallsAt("waiting") : x.worker # w
      BY <2>3, CallsHere
    <3>3. Person!Return(w)
      BY <2>1, <3>1, <3>2 DEF Person!Return
    <3> QED BY <3>3 DEF Person!Next
  <2> QED BY <1>3, <2>2, <2>3 DEF Return
<1>4. ASSUME NEW s \in Choices, pending # 0, choice' = s, UNCHANGED <<pc, call, mode, allowedRules>>
      PROVE  Person!Say(s)
  BY <1>4, CallsHere DEF Person!Say, CallsAt
<1>5. ASSUME NEW q \in 1..asked, NEW c \in Choices, Resolve(q, c)
      PROVE  [Person!Next]_Person!vars
  BY <1>4, <1>5 DEF Resolve, IsPending, Person!Next
<1>6. ASSUME CancelPending PROVE [Person!Next]_Person!vars
  BY <1>4, <1>6 DEF CancelPending, Person!Next
<1>7. ASSUME UNCHANGED <<pc, call, mode, allowedRules, choice>>
      PROVE  UNCHANGED Person!vars
  BY <1>7 DEF CallsAt, Person!vars
<1>8. ASSUME NEW m \in Modes, BeginTask(m) PROVE Person!BeginTask(m)
  <2>1. /\ pending = 0 /\ choice' = choice /\ UNCHANGED <<pc, call>>
        /\ mode' = m /\ allowedRules' = {} /\ \A w \in Workers : pc[w] = "idle"
    BY <1>8 DEF BeginTask, IInv, NobodyStranded
  <2>2. CallsAt("waiting") = {} /\ CallsAt("running") = {}
    BY <2>1 DEF CallsAt
  <2>3. CallsAt("waiting")' = {} /\ CallsAt("running")' = {}
    BY <2>1 DEF CallsAt
  <2> QED BY <2>1, <2>2, <2>3 DEF Person!BeginTask
<1>9. CASE CancelToken \/ UNCHANGED vars
  BY <1>7, <1>9 DEF CancelToken, vars
<1> QED BY <1>1, <1>2, <1>3, <1>5, <1>6, <1>8, <1>9, PersonSees DEF Next, Person!Next

\* To the person who is asked, executor and coordinator keep to Permits: an
\* answer counts for the call it was given to and for no other, unless the
\* rule was allowed for the task, and nothing that needs an answer runs
\* without one.  For any number of workers, rules, requests and answers.
THEOREM PermitsAreKept == Spec => KeepsPermits
<1>1. Init => Person!Init
  BY DEF Init, Person!Init, CallsAt
<1> QED BY <1>1, AlwaysIInv, PersonStep, PTL DEF Spec, KeepsPermits, Person!Spec
=============================================================================

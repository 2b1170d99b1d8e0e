---------------------------- MODULE TraceProofs ----------------------------
(***************************************************************************)
(* For a recorder of any size, any number of earlier events and of calls:  *)
(* what the stream yields is in order, without repetition and, while the   *)
(* recorder has room, complete; and the trace of a task that is over is    *)
(* nested, each start having its one end.                                  *)
(*                                                                         *)
(* The actions of the worker differ for these properties only in what they *)
(* write and whether they open or close a call.  Shapes says which of a    *)
(* few shapes each of them has, and the invariants are about the shapes.   *)
(***************************************************************************)
EXTENDS Trace, TLAPS, SequenceTheorems

\* The events of a task and the calls of its worker.
Kinds == {"task_started", "llm_started", "tool_requested", "rollback_started",
          "replan_started", "task_finished", "task_failed", "llm_finished", "llm_failed",
          "tool_finished", "rollback_finished", "replan_finished", "safety_decision",
          "edit_applied", "runtime_transition", "stale"}
CallKinds == {"run", "llm", "tool", "replan", "rollback"}
Word == [kind : Kinds, call : Nat]
Frame == [kind : CallKinds, call : Nat]
Entry == [run : Nat \ {0}, sequence : Nat, what : Word]

StartOf(kind) ==
    CASE kind = "run" -> "task_started" [] kind = "llm" -> "llm_started"
      [] kind = "tool" -> "tool_requested" [] kind = "rollback" -> "rollback_started"
      [] OTHER -> "replan_started"

TypeInv ==
    /\ events \in Seq(Entry) /\ said \in Seq(Entry) /\ heard \in Seq(Entry)
    /\ sequence \in Nat /\ run \in Nat \ {0} /\ cursor \in Nat /\ calls \in Nat
    /\ frames \in Seq(Frame) /\ todo \in Seq(Word)

-----------------------------------------------------------------------------
(***************************************************************************)
(* The shapes of the steps                                                 *)
(***************************************************************************)

Unheard == UNCHANGED listener
Unsaid == UNCHANGED <<recorder, said>>

\* What a call may write when it ends: one event that ends it, and others that
\* neither begin nor end anything.
Closing(kinds, kind) ==
    /\ kinds \in Seq(Kinds)
    /\ \E e \in 1..Len(kinds) :
         /\ kinds[e] \in Ends(StartOf(kind))
         /\ \A i \in 1..Len(kinds) \ {e} : kinds[i] \in {"safety_decision", "edit_applied"}

Opens ==
    /\ Free /\ Unsaid /\ Unheard /\ worker = "run" /\ worker' = "run"
    /\ calls' = calls + 1 /\ UNCHANGED <<done, spoken>>
    /\ \E kind \in CallKinds \ {"run"} :
         /\ frames' = Append(frames, [kind |-> kind, call |-> calls + 1])
         /\ Write(<<StartOf(kind)>>, calls + 1)

Closes ==
    /\ Free /\ Unsaid /\ Unheard /\ worker \notin {"start", "ended"}
    /\ worker' \notin {"start", "ended"}
    /\ UNCHANGED <<calls, done, spoken>>
    /\ frames # <<>> /\ frames' = Popped
    /\ \E kinds \in Seq(Kinds) : Closing(kinds, Top.kind) /\ Write(kinds, Top.call)

Notes ==
    /\ Free /\ Unsaid /\ Unheard /\ calls' \in {calls, calls + 1}
    /\ UNCHANGED <<frames, done, spoken>>
    /\ worker = "start" => done
    /\ worker' = worker \/ {worker, worker'} \cap {"start", "ended"} = {}
    /\ \E call \in {0, calls'} : Write(<<"runtime_transition">>, call)

Moves ==
    /\ Unsaid /\ Unheard /\ UNCHANGED <<frames, todo, calls, done, spoken>>
    /\ \/ worker' = worker
       \/ worker # "ended" /\ worker' \notin {"start", "ended"}

Listens ==
    /\ Unsaid /\ UNCHANGED <<frames, todo, calls, done, spoken, worker>>
    /\ Poll \/ CheckDone \/ FinalDrain

Shape == Emit \/ Trim \/ StartRun \/ Opens \/ Closes \/ Notes \/ Moves \/ Listens \/ Finish

LEMMA Single ==
    ASSUME NEW S, NEW a \in S
    PROVE  <<a>> \in Seq(S) /\ Len(<<a>>) = 1 /\ <<a>>[1] = a
OBVIOUS

LEMMA Joined ==
    ASSUME NEW S, NEW s \in Seq(S), NEW t \in Seq(S), NEW u, u = s \o t
    PROVE  /\ u \in Seq(S) /\ Len(u) = Len(s) + Len(t)
           /\ Len(s) \in Nat /\ Len(t) \in Nat
           /\ \A i \in 1..Len(s) : u[i] = s[i]
           /\ \A i \in 1..Len(u) : i > Len(s) =>
                i - Len(s) \in 1..Len(t) /\ u[i] = t[i - Len(s)]
OBVIOUS

\* What tools write at the end.
LEMMA ToolCloses ==
    ASSUME NEW decided \in BOOLEAN, NEW edited \in BOOLEAN
    PROVE  Closing((IF decided THEN <<"safety_decision">> ELSE <<>>)
                     \o <<"tool_finished">>
                     \o (IF edited THEN <<"edit_applied">> ELSE <<>>), "tool")
<1> DEFINE a == IF decided THEN <<"safety_decision">> ELSE <<>>
           b == IF edited THEN <<"edit_applied">> ELSE <<>>
           k == a \o <<"tool_finished">> \o b
<1>1. a \in Seq({"safety_decision"}) /\ b \in Seq({"edit_applied"})
  BY Single, EmptySeq
<1>2. a \in Seq(Kinds) /\ b \in Seq(Kinds) /\ <<"tool_finished">> \in Seq(Kinds)
  BY Single, EmptySeq DEF Kinds
<1>3. Len(<<"tool_finished">>) = 1 /\ <<"tool_finished">>[1] = "tool_finished"
  OBVIOUS
<1> DEFINE t == <<"tool_finished">>
<1> HIDE DEF a, b, t
<1>4. /\ k \in Seq(Kinds) /\ Len(k) = Len(a) + 1 + Len(b)
      /\ \A i \in 1..Len(k) :
           k[i] = IF i <= Len(a) THEN a[i]
                  ELSE IF i = Len(a) + 1 THEN "tool_finished" ELSE b[i - Len(a) - 1]
  BY <1>2, <1>3 DEF t
<1>5. "tool_finished" \in Ends(StartOf("tool"))
  BY DEF Ends, StartOf
<1>6. /\ \A i \in 1..Len(a) : a[i] = "safety_decision"
      /\ \A i \in 1..Len(b) : b[i] = "edit_applied"
  BY <1>1
<1>7. Len(a) \in Nat /\ Len(b) \in Nat
  BY <1>2
<1> HIDE DEF k
<1> SUFFICES Closing(k, "tool")
  BY DEF k, a, b
<1>8. Len(a) + 1 \in 1..Len(k) /\ k[Len(a) + 1] = "tool_finished"
  BY <1>4, <1>7
<1>9. ASSUME NEW i \in 1..Len(k) \ {Len(a) + 1}
      PROVE  k[i] \in {"safety_decision", "edit_applied"}
  <2>1. CASE i <= Len(a)
    BY <1>4, <1>6, <1>7, <2>1
  <2>2. CASE ~(i <= Len(a))
    <3>1. i - Len(a) - 1 \in 1..Len(b) /\ i # Len(a) + 1
      BY <1>4, <1>7, <2>2
    <3> QED BY <1>4, <1>6, <2>2, <3>1
  <2> QED BY <2>1, <2>2
<1> QED BY <1>4, <1>5, <1>8, <1>9 DEF Closing

LEMMA OneCloses ==
    /\ Closing(<<"llm_finished">>, "llm") /\ Closing(<<"llm_failed">>, "llm")
    /\ Closing(<<"tool_finished">>, "tool") /\ Closing(<<"replan_finished">>, "replan")
    /\ Closing(<<"rollback_finished">>, "rollback")
    /\ Closing(<<"task_failed">>, "run") /\ Closing(<<"task_finished">>, "run")
<1>1. ASSUME NEW k \in Kinds, NEW c, k \in Ends(StartOf(c)) PROVE Closing(<<k>>, c)
  <2>1. /\ <<k>> \in Seq(Kinds) /\ Len(<<k>>) = 1 /\ <<k>>[1] = k
    BY Single
  <2> DEFINE s == <<k>>
  <2> HIDE DEF s
  <2>2. Closing(s, c)
    BY <1>1, <2>1 DEF Closing, s
  <2> QED BY <2>2 DEF s
<1>2. /\ "llm_finished" \in Ends(StartOf("llm")) /\ "llm_failed" \in Ends(StartOf("llm"))
      /\ "tool_finished" \in Ends(StartOf("tool"))
      /\ "replan_finished" \in Ends(StartOf("replan"))
      /\ "rollback_finished" \in Ends(StartOf("rollback"))
      /\ "task_failed" \in Ends(StartOf("run")) /\ "task_finished" \in Ends(StartOf("run"))
  BY DEF Ends, StartOf
<1> QED BY <1>1, <1>2 DEF Kinds

LEMMA OpensBy ==
    ASSUME NEW kind \in CallKinds \ {"run"}, Running, Begin(kind, StartOf(kind))
    PROVE  Opens
BY DEF Running, Begin, Opens, Quiet, Unsaid, Unheard

LEMMA ClosesBy ==
    ASSUME NEW kinds, NEW next, NEW kind, Free, Inside({kind}), Closing(kinds, kind),
           worker \in {"run", "failed", "cancelled"}, next \in {"run", "check", "failed", "cancelled"},
           End(kinds, next)
    PROVE  Closes
<1>1. frames # <<>> /\ Top.kind = kind
  BY DEF Inside
<1>2. kinds \in Seq(Kinds)
  BY DEF Closing
<1> QED BY <1>1, <1>2 DEF End, Closes, Quiet, Unsaid, Unheard

LEMMA Shapes == [Next]_vars => Shape
<1> SUFFICES ASSUME [Next]_vars PROVE Shape
  OBVIOUS
<1> USE DEF Shape
<1>1. CASE UNCHANGED vars
  BY <1>1 DEF vars, Moves, Unsaid, Unheard, recorder, listener
<1>2. CASE CallModel \/ CallTool \/ CallReplan \/ CallRollback
  <2>1. /\ StartOf("llm") = "llm_started" /\ StartOf("tool") = "tool_requested"
        /\ StartOf("replan") = "replan_started" /\ StartOf("rollback") = "rollback_started"
    BY DEF StartOf
  <2>2. {"llm", "tool", "replan", "rollback"} \subseteq CallKinds \ {"run"}
    BY DEF CallKinds
  <2> QED BY <1>2, <2>1, <2>2, OpensBy DEF CallModel, CallTool, CallReplan, CallRollback
<1>3. CASE ModelAnswers \/ ModelFails
  BY <1>3, OneCloses, ClosesBy DEF ModelAnswers, ModelFails, Running
<1>4. CASE ToolRaises \/ \E decided, edited \in BOOLEAN : ToolReturns(decided, edited)
  <2>1. CASE ToolRaises
    BY <2>1, OneCloses, ClosesBy DEF ToolRaises, Running
  <2>2. ASSUME NEW decided \in BOOLEAN, NEW edited \in BOOLEAN, ToolReturns(decided, edited)
        PROVE  Closes
    BY <2>2, ToolCloses, ClosesBy DEF ToolReturns, Running
  <2> QED BY <1>4, <2>1, <2>2
<1>5. CASE ReplanReturns
  BY <1>5, OneCloses, ClosesBy DEF ReplanReturns
<1>6. CASE RollbackReturns \/ RollbackRaises
  BY <1>6, OneCloses, ClosesBy DEF RollbackReturns, RollbackRaises, Running
<1>7. CASE RunRaises \/ RunReturns
  BY <1>7, OneCloses, ClosesBy DEF RunRaises, RunReturns, Running
<1>8. CASE Transition \/ CloseCancelled \/ Undo
  BY <1>8 DEF Transition, CloseCancelled, Undo, Running, Notes, Quiet, Unsaid, Unheard, Free
<1>9. CASE Check \/ Refuse \/ NeverStarts \/ Handled \/ Cancel
  BY <1>9 DEF Check, Refuse, NeverStarts, Handled, Cancel, Moves, Quiet, Unsaid, Unheard,
              recorder, listener
<1>10. CASE Poll \/ CheckDone \/ FinalDrain
  BY <1>10 DEF Poll, CheckDone, FinalDrain, Listens, Unsaid, recorder
<1> QED BY <1>1, <1>2, <1>3, <1>4, <1>5, <1>6, <1>7, <1>8, <1>9, <1>10 DEF Next

-----------------------------------------------------------------------------
(***************************************************************************)
(* Types                                                                   *)
(***************************************************************************)

LEMMA Written ==
    ASSUME NEW kinds \in Seq(Kinds), NEW call \in Nat, Write(kinds, call)
    PROVE  /\ todo' \in Seq(Word) /\ Len(todo') = Len(kinds)
           /\ \A i \in 1..Len(kinds) : todo'[i] = [kind |-> kinds[i], call |-> call]
<1> DEFINE words == [i \in 1..Len(kinds) |-> Event(kinds[i], call)]
<1>1. todo' = words
  BY DEF Write
<1>2. \A i \in 1..Len(kinds) : Event(kinds[i], call) \in Word
  BY DEF Event, Word
<1>3. words \in Seq(Word) /\ Len(words) = Len(kinds)
  BY <1>2, IsASeq
<1> QED BY <1>1, <1>3 DEF Event

LEMMA StartKinds == \A kind : StartOf(kind) \in Kinds
BY DEF StartOf, Kinds

\* What the stream takes of the list.
LEMMA RestFacts ==
    ASSUME TypeInv
    PROVE  /\ Rest \in Seq(Entry)
           /\ Len(Rest) = IF cursor < Len(events) THEN Len(events) - cursor ELSE 0
           /\ \A i \in 1..Len(Rest) : cursor + i \in 1..Len(events) /\ Rest[i] = events[cursor + i]
<1>1. \A i \in (cursor + 1)..Len(events) : events[i] \in Entry
  BY DEF TypeInv
<1>2. cursor \in Nat /\ Len(events) \in Nat
  BY DEF TypeInv
<1>3. /\ Rest \in Seq(Entry)
      /\ Len(Rest) = IF cursor + 1 <= Len(events) THEN Len(events) - (cursor + 1) + 1 ELSE 0
      /\ \A i \in 1..(Len(events) - (cursor + 1) + 1) : Rest[i] = events[(cursor + 1) + i - 1]
  BY <1>1, <1>2, SubSeqProperties DEF Rest
<1> QED BY <1>2, <1>3

\* What is left when the list is cut.
LEMMA TrimFacts ==
    ASSUME TypeInv, Trim
    PROVE  LET d == Len(events) - MaxEvents
           IN  /\ d \in Nat \ {0} /\ events' \in Seq(Entry) /\ Len(events') = MaxEvents
               /\ \A i \in 1..MaxEvents : d + i \in 1..Len(events) /\ events'[i] = events[d + i]
<1> DEFINE d == Len(events) - MaxEvents
<1>1. d \in Nat \ {0} /\ MaxEvents \in Nat \ {0} /\ Len(events) \in Nat
  BY TraceAssumption DEF Trim, TypeInv
<1>2. \A i \in (d + 1)..Len(events) : events[i] \in Entry
  BY <1>1 DEF TypeInv
<1>3. events' = SubSeq(events, d + 1, Len(events))
  BY DEF Trim
<1>4. /\ events' \in Seq(Entry)
      /\ Len(events') = IF d + 1 <= Len(events) THEN Len(events) - (d + 1) + 1 ELSE 0
      /\ \A i \in 1..(Len(events) - (d + 1) + 1) : events'[i] = events[(d + 1) + i - 1]
  BY <1>1, <1>2, <1>3, SubSeqProperties
<1>5. Len(events) = d + MaxEvents
  BY <1>1
<1> HIDE DEF d
<1>6. Len(events') = MaxEvents
  BY <1>1, <1>4, <1>5
<1>7. ASSUME NEW i \in 1..MaxEvents
      PROVE  d + i \in 1..Len(events) /\ events'[i] = events[d + i]
  <2>1. i \in 1..(Len(events) - (d + 1) + 1) /\ (d + 1) + i - 1 = d + i
    BY <1>1, <1>5
  <2> QED BY <1>1, <1>4, <1>5, <2>1
<1> QED BY <1>1, <1>4, <1>6, <1>7 DEF d

\* What a written event becomes.
LEMMA EmitFacts ==
    ASSUME TypeInv, Emit
    PROVE  LET new == [run |-> run, sequence |-> sequence + 1, what |-> Head(todo)]
           IN  /\ new \in Entry /\ events' = Append(events, new) /\ said' = Append(said, new)
               /\ todo' \in Seq(Word) /\ Len(todo) \in Nat \ {0} /\ Head(todo) = todo[1]
               /\ Len(todo') = Len(todo) - 1
               /\ \A i \in 1..Len(todo') : todo'[i] = todo[i + 1]
<1>1. todo \in Seq(Word) /\ todo # <<>>
  BY DEF TypeInv, Emit
<1>2. Head(todo) \in Word /\ Head(todo) = todo[1] /\ Len(todo) \in Nat \ {0}
  BY <1>1
<1>3. /\ todo' \in Seq(Word) /\ Len(todo') = Len(todo) - 1
      /\ \A i \in 1..Len(todo') : todo'[i] = todo[i + 1]
  BY <1>1, HeadTailProperties DEF Emit
<1> QED BY <1>2, <1>3 DEF Emit, TypeInv, Entry

LEMMA TypeInit == Init => TypeInv
<1> SUFFICES ASSUME Init PROVE TypeInv
  OBVIOUS
<1>1. PICK n \in 0..MaxStale :
        events = [i \in 1..n |-> [run |-> 1, sequence |-> i, what |-> Event("stale", 0)]]
  BY DEF Init
<1>2. \A i \in 1..n : [run |-> 1, sequence |-> i, what |-> Event("stale", 0)] \in Entry
  BY TraceAssumption DEF Entry, Word, Kinds, Event
<1>3. events \in Seq(Entry)
  BY <1>1, <1>2, TraceAssumption, IsASeq
<1> QED BY <1>3 DEF Init, TypeInv

LEMMA TypeStep == TypeInv /\ Shape => TypeInv'
<1> SUFFICES ASSUME TypeInv, Shape PROVE TypeInv'
  OBVIOUS
<1> USE DEF Unsaid, Unheard, recorder, listener
<1>1. CASE Emit
  BY <1>1, EmitFacts DEF Emit, TypeInv
<1>2. CASE Trim
  BY <1>2, TrimFacts DEF Trim, TypeInv
<1>3. CASE StartRun
  <2>1. <<"task_started">> \in Seq(Kinds)
    BY Single DEF Kinds
  <2>2. todo' \in Seq(Word)
    BY <1>3, <2>1, Written DEF StartRun
  <2>3. [kind |-> "run", call |-> 0] \in Frame
    BY DEF Frame, CallKinds
  <2>4. frames' \in Seq(Frame)
    BY <1>3, <2>3, Single DEF StartRun
  <2> QED BY <1>3, <2>2, <2>4, EmptySeq DEF StartRun, TypeInv
<1>4. CASE Opens
  <2>1. PICK kind \in CallKinds : /\ frames' = Append(frames, [kind |-> kind, call |-> calls + 1])
                                  /\ Write(<<StartOf(kind)>>, calls + 1)
    BY <1>4 DEF Opens
  <2>2. [kind |-> kind, call |-> calls + 1] \in Frame /\ calls + 1 \in Nat
    BY DEF Frame, TypeInv
  <2>3. <<StartOf(kind)>> \in Seq(Kinds)
    BY Single, StartKinds
  <2>4. todo' \in Seq(Word)
    BY <2>1, <2>2, <2>3, Written
  <2> QED BY <1>4, <2>1, <2>2, <2>4 DEF Opens, TypeInv
<1>5. CASE Closes
  <2>1. PICK kinds \in Seq(Kinds) : Write(kinds, Top.call)
    BY <1>5 DEF Closes
  <2>2. Top \in Frame
    BY <1>5 DEF Closes, Top, TypeInv
  <2>3. todo' \in Seq(Word)
    BY <2>1, <2>2, Written DEF Frame
  <2>4. frames' \in Seq(Frame)
    BY <1>5 DEF Closes, Popped, TypeInv
  <2> QED BY <1>5, <2>3, <2>4 DEF Closes, TypeInv
<1>6. CASE Notes
  <2>1. PICK call \in {0, calls'} : Write(<<"runtime_transition">>, call)
    BY <1>6 DEF Notes
  <2>2. calls' \in Nat /\ call \in Nat
    BY <1>6 DEF Notes, TypeInv
  <2>3. <<"runtime_transition">> \in Seq(Kinds)
    BY Single DEF Kinds
  <2>4. todo' \in Seq(Word)
    BY <2>1, <2>2, <2>3, Written
  <2> QED BY <1>6, <2>2, <2>4 DEF Notes, TypeInv
<1>7. CASE Moves \/ Finish
  BY <1>7 DEF Moves, Finish, TypeInv
<1>8. CASE Listens
  <2>1. CASE Deliver
    <3>1. heard' \in Seq(Entry) /\ cursor' \in Nat
      BY <2>1, RestFacts DEF Deliver, TypeInv
    <3> QED BY <1>8, <3>1 DEF Listens, TypeInv
  <2>2. CASE UNCHANGED <<cursor, heard>>
    BY <1>8, <2>2 DEF Listens, TypeInv
  <2> QED BY <1>8, <2>1, <2>2 DEF Listens, Poll, CheckDone, FinalDrain
<1> QED BY <1>1, <1>2, <1>3, <1>4, <1>5, <1>6, <1>7, <1>8 DEF Shape

-----------------------------------------------------------------------------
(***************************************************************************)
(* Order                                                                   *)
(***************************************************************************)

\* A recorder at run r and number n has come to e.
Reached(e, r, n) == e.run < r \/ (e.run = r /\ e.sequence <= n)

\* The list is in order; so is what was heard, all of it before whatever is
\* left for the cursor; and all of both has been written.
OrderInv ==
    /\ \A i \in 1..Len(events) : Reached(events[i], run, sequence)
    /\ \A i \in 1..Len(heard) : Reached(heard[i], run, sequence)
    /\ \A i, j \in 1..Len(events) : i < j => Before(events[i], events[j])
    /\ \A i, j \in 1..Len(heard) : i < j => Before(heard[i], heard[j])
    /\ \A i \in 1..Len(heard), j \in (cursor + 1)..Len(events) : Before(heard[i], events[j])

LEMMA OrderInit == Init => OrderInv
<1> SUFFICES ASSUME Init PROVE OrderInv
  OBVIOUS
<1>1. PICK n \in 0..MaxStale :
        events = [i \in 1..n |-> [run |-> 1, sequence |-> i, what |-> Event("stale", 0)]]
  BY DEF Init
<1>2. n \in Nat /\ Len(events) = n
  BY <1>1, TraceAssumption
<1>3. \A i \in 1..n : events[i].run = 1 /\ events[i].sequence = i
  BY <1>1
<1>4. heard = <<>> /\ run = 1 /\ sequence = n
  BY <1>2 DEF Init
<1> QED BY <1>2, <1>3, <1>4 DEF OrderInv, Reached, Before

LEMMA OrderStep == TypeInv /\ OrderInv /\ Shape => OrderInv'
<1> SUFFICES ASSUME TypeInv, OrderInv, Shape PROVE OrderInv'
  OBVIOUS
<1> USE DEF Unsaid, Unheard, recorder, listener
<1>0. /\ \A i \in 1..Len(events) : events[i] \in Entry
      /\ \A i \in 1..Len(heard) : heard[i] \in Entry
      /\ Len(events) \in Nat /\ Len(heard) \in Nat /\ cursor \in Nat
      /\ run \in Nat /\ sequence \in Nat
  BY DEF TypeInv
<1>1. CASE Emit
  <2> DEFINE new == [run |-> run, sequence |-> sequence + 1, what |-> Head(todo)]
  <2>1. /\ events' = Append(events, new) /\ sequence' = sequence + 1
        /\ UNCHANGED <<run, heard, cursor>>
    BY <1>1, EmitFacts DEF Emit
  <2>2. /\ Len(events') = Len(events) + 1 /\ events'[Len(events) + 1] = new
        /\ \A i \in 1..Len(events) : events'[i] = events[i]
    BY <2>1 DEF TypeInv
  <2>3. new.run = run /\ new.sequence = sequence + 1
    OBVIOUS
  <2> HIDE DEF new
  <2>4. \A e \in Entry : Reached(e, run, sequence) =>
                           Before(e, new) /\ Reached(e, run, sequence + 1)
    BY <1>0, <2>1, <2>3 DEF Reached, Before, Entry
  <2>5. Reached(new, run, sequence + 1)
    BY <1>0, <2>1, <2>3 DEF Reached
  <2>6. \A i \in 1..Len(events') : Reached(events'[i], run, sequence + 1)
    BY <1>0, <2>2, <2>4, <2>5 DEF OrderInv
  <2>7. \A i, j \in 1..Len(events') : i < j => Before(events'[i], events'[j])
    BY <1>0, <2>2, <2>4 DEF OrderInv
  <2>8. \A i \in 1..Len(heard), j \in (cursor + 1)..Len(events') : Before(heard[i], events'[j])
    BY <1>0, <2>2, <2>4 DEF OrderInv
  <2> QED BY <1>0, <2>1, <2>4, <2>6, <2>7, <2>8 DEF OrderInv
<1>2. CASE Trim
  <2> DEFINE d == Len(events) - MaxEvents
  <2>1. /\ d \in Nat \ {0} /\ Len(events') = MaxEvents
        /\ \A i \in 1..MaxEvents : d + i \in 1..Len(events) /\ events'[i] = events[d + i]
    BY <1>2, TrimFacts
  <2>2. UNCHANGED <<run, sequence, heard, cursor>>
    BY <1>2 DEF Trim
  <2>3. MaxEvents \in Nat
    BY TraceAssumption
  <2> HIDE DEF d
  <2>4. ASSUME NEW i \in 1..MaxEvents, NEW j \in 1..MaxEvents, i < j
        PROVE  Before(events'[i], events'[j])
    <3>1. d + i \in 1..Len(events) /\ d + j \in 1..Len(events) /\ d + i < d + j
      BY <2>1, <2>3, <2>4
    <3> QED BY <2>1, <3>1 DEF OrderInv
  <2>5. \A i \in 1..Len(heard), j \in (cursor + 1)..MaxEvents : Before(heard[i], events'[j])
    <3> SUFFICES ASSUME NEW i \in 1..Len(heard), NEW j \in (cursor + 1)..MaxEvents
                 PROVE  Before(heard[i], events'[j])
      OBVIOUS
    <3>1. d + j \in (cursor + 1)..Len(events) /\ events'[j] = events[d + j]
      BY <1>0, <2>1, <2>3
    <3> QED BY <3>1 DEF OrderInv
  <2> QED BY <2>1, <2>2, <2>4, <2>5 DEF OrderInv, Reached
<1>3. CASE StartRun
  <2>1. events' = <<>> /\ run' = run + 1 /\ UNCHANGED <<heard, cursor>>
    BY <1>3 DEF StartRun
  <2>2. \A e \in Entry : Reached(e, run, sequence) => Reached(e, run', sequence')
    BY <1>0, <2>1 DEF Reached, Entry
  <2> QED BY <1>0, <2>1, <2>2 DEF OrderInv
<1>4. CASE Opens \/ Closes \/ Notes \/ Moves \/ Finish
  <2>1. UNCHANGED <<events, sequence, run, heard, cursor>>
    BY <1>4 DEF Opens, Closes, Notes, Moves, Finish
  <2> QED BY <2>1 DEF OrderInv, Reached
<1>5. CASE Listens
  <2>1. UNCHANGED <<events, sequence, run>>
    BY <1>5 DEF Listens
  <2>2. CASE UNCHANGED <<heard, cursor>>
    BY <2>1, <2>2 DEF OrderInv, Reached
  <2>3. CASE Deliver
    <3>1. /\ Rest \in Seq(Entry)
          /\ Len(Rest) = IF cursor < Len(events) THEN Len(events) - cursor ELSE 0
          /\ \A i \in 1..Len(Rest) : cursor + i \in 1..Len(events) /\ Rest[i] = events[cursor + i]
      BY RestFacts
    <3> DEFINE n == Len(heard)
               new == heard'
    <3>2. /\ Len(new) = n + Len(Rest) /\ n \in Nat /\ Len(Rest) \in Nat
          /\ \A i \in 1..n : new[i] = heard[i]
          /\ \A i \in 1..Len(new) : i > n => i - n \in 1..Len(Rest) /\ new[i] = Rest[i - n]
      <4>1. new = heard \o Rest /\ heard \in Seq(Entry)
        BY <2>3 DEF Deliver, TypeInv
      <4> HIDE DEF new
      <4>2. Rest \in Seq(Entry)
        BY <3>1
      <4> QED BY <4>1, <4>2, Joined
    <3>3. Len(events) \in Nat /\ cursor \in Nat
      BY <1>0
    <3>4. cursor' >= Len(events) /\ cursor' \in Nat
      BY <1>0, <2>3 DEF Deliver
    <3> HIDE DEF n, new
    <3>10. ASSUME NEW i \in 1..Len(new), i > n
           PROVE  /\ i - n \in Nat /\ cursor + (i - n) \in (cursor + 1)..Len(events)
                  /\ new[i] = events[cursor + (i - n)]
      <4> DEFINE k == i - n
      <4>1. k \in 1..Len(Rest) /\ new[i] = Rest[k]
        BY <3>2, <3>10
      <4> HIDE DEF k
      <4>2. cursor + k \in 1..Len(events) /\ Rest[k] = events[cursor + k]
        BY <3>1, <4>1
      <4>3. k \in Nat /\ cursor + k \in (cursor + 1)..Len(events) /\ new[i] = events[cursor + k]
        BY <3>2, <3>3, <4>1, <4>2
      <4> QED BY <4>3 DEF k
    <3>5. /\ \A i \in 1..n : heard[i] \in Entry /\ Reached(heard[i], run, sequence)
          /\ \A i, j \in 1..n : i < j => Before(heard[i], heard[j])
          /\ \A i \in 1..n, j \in (cursor + 1)..Len(events) : Before(heard[i], events[j])
          /\ \A i \in 1..Len(events) : Reached(events[i], run, sequence)
          /\ \A i, j \in 1..Len(events) : i < j => Before(events[i], events[j])
      BY <1>0 DEF OrderInv, n
    <3>6. \A i \in 1..Len(new) : Reached(new[i], run, sequence)
      <4> SUFFICES ASSUME NEW i \in 1..Len(new) PROVE Reached(new[i], run, sequence)
        OBVIOUS
      <4>1. i \in 1..n \/ i > n
        BY <3>2
      <4>2. CASE i \in 1..n
        BY <3>2, <3>5, <4>2
      <4>3. CASE i > n
        <5>1. cursor + (i - n) \in 1..Len(events) /\ new[i] = events[cursor + (i - n)]
          BY <1>0, <3>2, <3>10, <4>3
        <5> QED BY <3>5, <5>1
      <4> QED BY <4>1, <4>2, <4>3
    <3>7. ASSUME NEW i \in 1..Len(new), NEW j \in 1..Len(new), i < j
          PROVE  Before(new[i], new[j])
      <4>1. CASE j <= n
        BY <3>2, <3>5, <3>7, <4>1
      <4>2. CASE i <= n /\ j > n
        BY <3>2, <3>10, <3>5, <4>2
      <4>3. CASE i > n
        <5>1. j > n /\ i - n < j - n
          BY <3>2, <3>7, <4>3
        <5>2. cursor + (i - n) < cursor + (j - n)
          BY <1>0, <3>2, <5>1
        <5>3. /\ cursor + (i - n) \in (cursor + 1)..Len(events)
              /\ cursor + (j - n) \in (cursor + 1)..Len(events)
              /\ new[i] = events[cursor + (i - n)] /\ new[j] = events[cursor + (j - n)]
          BY <3>10, <4>3, <5>1
        <5>4. cursor + (i - n) \in 1..Len(events) /\ cursor + (j - n) \in 1..Len(events)
          BY <3>3, <5>3
        <5> QED BY <3>5, <5>2, <5>3, <5>4
      <4> QED BY <3>2, <4>1, <4>2, <4>3
    <3>8. (cursor' + 1)..Len(events) = {}
      <4>1. Len(events) \in Nat
        BY <1>0
      <4> QED BY <3>4, <4>1
    <3> QED BY <2>1, <3>5, <3>6, <3>7, <3>8 DEF OrderInv, new
  <2> QED BY <1>5, <2>2, <2>3 DEF Listens, Poll, CheckDone, FinalDrain
<1> QED BY <1>1, <1>2, <1>3, <1>4, <1>5 DEF Shape

-----------------------------------------------------------------------------
(***************************************************************************)
(* Completeness                                                            *)
(***************************************************************************)

Clean == heard # <<>> => heard[1].run # 1
Fits == Len(said) <= MaxEvents

\* While the run that the stream was opened for has room, the list is all that
\* was said, and what was heard is as much of it as the cursor has passed.
Current == run # 1 /\ Fits => events = said
Followed ==
    run # 1 /\ Fits /\ Clean =>
        /\ Len(heard) = cursor /\ cursor <= Len(said)
        /\ \A i \in 1..Len(heard) : heard[i] = said[i]

\* Before it, events are of the earlier task.
Earlier ==
    run = 1 => /\ \A i \in 1..Len(events) : events[i].run = 1
               /\ \A i \in 1..Len(heard) : heard[i].run = 1
               /\ said # <<>> => events # <<>>

\* When the stream has closed, it has passed what was said before the end.
Passed ==
    /\ stream \in {"last", "closed"} => done
    /\ stream = "closed" /\ run = 1 /\ heard = <<>> => spoken = 0
    /\ stream = "closed" /\ run # 1 /\ Fits /\ Clean => spoken <= cursor

Phases == /\ worker = "start" =>
               ~done /\ said = <<>> /\ todo = <<>> /\ frames = <<>> /\ run = 1
          /\ done => worker = "ended" /\ spoken <= Len(said)
          /\ spoken \in Nat
          /\ heard = <<>> => cursor = 0

CompleteInv == Phases /\ Current /\ Followed /\ Earlier /\ Passed

LEMMA CompleteInit == Init => CompleteInv
<1> SUFFICES ASSUME Init PROVE CompleteInv
  OBVIOUS
<1>1. PICK n \in 0..MaxStale :
        events = [i \in 1..n |-> [run |-> 1, sequence |-> i, what |-> Event("stale", 0)]]
  BY DEF Init
<1>2. n \in Nat /\ Len(events) = n
  BY <1>1, TraceAssumption
<1>3. \A i \in 1..n : events[i].run = 1
  BY <1>1
<1> QED BY <1>2, <1>3 DEF Init, CompleteInv, Phases, Current, Followed, Earlier, Passed

LEMMA PhasesStep == TypeInv /\ Phases /\ Shape => Phases'
<1> SUFFICES ASSUME TypeInv, Phases, Shape PROVE Phases'
  OBVIOUS
<1> USE DEF Unsaid, Unheard, recorder, listener, Phases
<1>0. Len(said) \in Nat /\ Len(events) \in Nat /\ cursor \in Nat
  BY DEF TypeInv
<1>1. CASE Emit
  <2>1. /\ UNCHANGED <<worker, done, spoken, heard, cursor, frames, run>>
        /\ todo # <<>>
        /\ Len(said') = Len(said) + 1
    BY <1>1, EmitFacts DEF Emit, TypeInv
  <2> QED BY <1>0, <2>1
<1>2. CASE Trim \/ Moves
  BY <1>2 DEF Trim, Moves
<1>3. CASE StartRun
  BY <1>3 DEF StartRun
<1>4. CASE Opens \/ Closes \/ Notes
  <2>1. CASE Opens
    <3>1. /\ worker' = "run" /\ worker = "run"
          /\ UNCHANGED <<done, spoken, said, heard, cursor>>
      BY <2>1 DEF Opens
    <3> QED BY <3>1
  <2>2. CASE Closes
    <3>1. /\ worker' \notin {"start", "ended"} /\ worker \notin {"start", "ended"}
          /\ UNCHANGED <<done, spoken, said, heard, cursor>>
      BY <2>2 DEF Closes
    <3> QED BY <3>1
  <2>3. CASE Notes
    <3>1. /\ worker = "start" => done
          /\ worker' = worker \/ {worker, worker'} \cap {"start", "ended"} = {}
          /\ UNCHANGED <<done, spoken, said, heard, cursor>>
      BY <2>3 DEF Notes
    <3>2. worker # "start" /\ (worker' = worker \/ (worker # "ended" /\ worker' # "start"))
      BY <3>1
    <3> QED BY <3>1, <3>2
  <2> QED BY <1>4, <2>1, <2>2, <2>3
<1>5. CASE Finish
  BY <1>0, <1>5 DEF Finish
<1>6. CASE Listens
  <2>1. CASE Deliver
    <3>1. heard' = heard \o Rest /\ heard \in Seq(Entry)
      BY <2>1 DEF Deliver, TypeInv
    <3>2. Rest \in Seq(Entry) /\ Len(Rest) = IF cursor < Len(events) THEN Len(events) - cursor ELSE 0
      BY RestFacts
    <3> HIDE DEF Rest
    <3>3. Len(heard \o Rest) = Len(heard) + Len(Rest) /\ Len(heard) \in Nat /\ Len(Rest) \in Nat
      BY <3>1, <3>2
    <3>4. heard' = <<>> => heard = <<>> /\ Len(Rest) = 0
      BY <3>1, <3>3
    <3> QED BY <1>0, <1>6, <2>1, <3>2, <3>4 DEF Listens, Deliver
  <2>2. CASE UNCHANGED <<heard, cursor>>
    BY <1>6, <2>2 DEF Listens
  <2> QED BY <1>6, <2>1, <2>2 DEF Listens, Poll, CheckDone, FinalDrain
<1> QED BY <1>1, <1>2, <1>3, <1>4, <1>5, <1>6 DEF Shape

LEMMA CompleteStep == TypeInv /\ CompleteInv /\ Shape => CompleteInv'
<1> SUFFICES ASSUME TypeInv, CompleteInv, Shape PROVE CompleteInv'
  OBVIOUS
<1> USE DEF Unsaid, Unheard, recorder, listener
<1>0. /\ Len(said) \in Nat /\ Len(events) \in Nat /\ Len(heard) \in Nat /\ cursor \in Nat
      /\ heard = <<>> <=> Len(heard) = 0
      /\ said = <<>> <=> Len(said) = 0
      /\ MaxEvents \in Nat \ {0}
      /\ Phases /\ Current /\ Followed /\ Earlier /\ Passed /\ Phases'
  BY TraceAssumption, PhasesStep DEF TypeInv, CompleteInv
<1> SUFFICES Current' /\ Followed' /\ Earlier' /\ Passed'
  BY <1>0 DEF CompleteInv
<1>1. CASE Emit
  <2> DEFINE new == [run |-> run, sequence |-> sequence + 1, what |-> Head(todo)]
  <2>1. /\ events' = Append(events, new) /\ said' = Append(said, new)
        /\ UNCHANGED <<run, heard, cursor, stream, done, spoken>>
    BY <1>1, EmitFacts DEF Emit
  <2>2. /\ Len(said') = Len(said) + 1 /\ Len(events') = Len(events) + 1
        /\ \A i \in 1..Len(said) : said'[i] = said[i]
        /\ \A i \in 1..Len(events) : events'[i] = events[i]
        /\ events'[Len(events) + 1] = new
    BY <2>1 DEF TypeInv
  <2>3. new.run = run
    OBVIOUS
  <2>4. Fits' => Fits
    BY <1>0, <2>2 DEF Fits
  <2>5. Clean' = Clean
    BY <2>1 DEF Clean
  <2> HIDE DEF new
  <2>6. Current' /\ Passed'
    BY <1>0, <2>1, <2>4, <2>5 DEF Current, Passed
  <2>7. Followed'
    BY <1>0, <2>1, <2>2, <2>4, <2>5 DEF Followed
  <2>8. Earlier'
    <3>1. \A i \in 1..Len(events') : i \in 1..Len(events) \/ i = Len(events) + 1
      BY <1>0, <2>2
    <3>2. Len(events') # 0 /\ events' # <<>>
      BY <1>0, <2>2
    <3> QED BY <1>0, <2>1, <2>2, <2>3, <3>1, <3>2 DEF Earlier
  <2> QED BY <2>6, <2>7, <2>8
<1>2. CASE Trim
  <2> DEFINE d == Len(events) - MaxEvents
  <2>1. /\ Len(events') = MaxEvents
        /\ \A i \in 1..MaxEvents : d + i \in 1..Len(events) /\ events'[i] = events[d + i]
    BY <1>2, TrimFacts
  <2>2. UNCHANGED <<run, sequence, said, heard, cursor, stream, done, spoken>>
    BY <1>2 DEF Trim
  <2>3. ~(run # 1 /\ Fits)
    BY <1>0, <1>2 DEF Trim, Current, Fits
  <2>4. Fits' = Fits /\ Clean' = Clean
    BY <2>2 DEF Fits, Clean
  <2>5. Earlier'
    <3>1. events' # <<>>
      BY <1>0, <2>1
    <3> QED BY <1>0, <2>1, <2>2, <3>1 DEF Earlier
  <2> QED BY <1>0, <2>2, <2>3, <2>4, <2>5 DEF Current, Followed, Passed
<1>3. CASE StartRun
  <2>1. /\ events' = <<>> /\ run' = run + 1
        /\ UNCHANGED <<heard, cursor, said, stream, done, spoken>>
        /\ worker = "start"
    BY <1>3 DEF StartRun
  <2>2. said = <<>> /\ ~done /\ run = 1
    BY <1>0, <2>1 DEF Phases
  <2>3. Clean' => heard = <<>> /\ cursor = 0
    <3>1. heard # <<>> => heard[1].run = 1
      BY <1>0, <2>2 DEF Earlier
    <3> QED BY <1>0, <2>1, <3>1 DEF Clean, Phases
  <2> QED BY <1>0, <2>1, <2>2, <2>3 DEF Current, Followed, Earlier, Passed
<1>4. CASE Opens \/ Closes \/ Notes \/ Moves
  <2>1. UNCHANGED <<events, run, said, heard, cursor, stream, done, spoken>>
    BY <1>4 DEF Opens, Closes, Notes, Moves
  <2> QED BY <1>0, <2>1 DEF Current, Followed, Earlier, Passed, Fits, Clean
<1>5. CASE Finish
  <2>1. UNCHANGED <<events, run, said, heard, cursor, stream>>
    BY <1>5 DEF Finish
  <2>2. stream \notin {"last", "closed"}
    BY <1>0, <1>5 DEF Finish, Phases, Passed
  <2> QED BY <1>0, <2>1, <2>2 DEF Current, Followed, Earlier, Passed, Fits, Clean
<1>6. CASE Listens /\ UNCHANGED <<heard, cursor>>
  <2>1. UNCHANGED <<events, run, said, done, spoken>>
    BY <1>6 DEF Listens
  <2>2. stream' = "closed" => stream = "closed" \/ Deliver
    BY <1>6 DEF Listens, Poll, CheckDone, FinalDrain
  <2>3. stream' \in {"last", "closed"} => done
    BY <1>0, <1>6 DEF Listens, Poll, CheckDone, FinalDrain, Passed
  <2>4. CASE stream' = "closed" /\ Deliver
    <3>1. cursor >= Len(events)
      BY <1>0, <1>6, <2>4 DEF Deliver
    <3>2. run = 1 /\ heard = <<>> => said = <<>>
      <4>1. ASSUME run = 1, heard = <<>> PROVE Len(events) = 0
        BY <1>0, <3>1, <4>1 DEF Phases
      <4>2. Len(events) = 0 => events = <<>>
        BY DEF TypeInv
      <4> QED BY <1>0, <4>1, <4>2 DEF Earlier
    <3>3. done /\ spoken \in Nat /\ spoken <= Len(said)
      BY <1>0, <2>3, <2>4 DEF Phases
    <3> QED BY <1>0, <1>6, <2>1, <2>3, <3>1, <3>2, <3>3
            DEF Current, Followed, Earlier, Passed, Fits, Clean
  <2>5. CASE ~(stream' = "closed" /\ Deliver)
    BY <1>0, <1>6, <2>1, <2>2, <2>3, <2>5
       DEF Current, Followed, Earlier, Passed, Fits, Clean
  <2> QED BY <2>4, <2>5
<1>7. CASE Listens /\ Deliver /\ ~UNCHANGED <<heard, cursor>>
  <2>1. UNCHANGED <<events, run, said, done, spoken>>
    BY <1>7 DEF Listens
  <2>2. /\ Rest \in Seq(Entry)
        /\ Len(Rest) = IF cursor < Len(events) THEN Len(events) - cursor ELSE 0
        /\ \A i \in 1..Len(Rest) : cursor + i \in 1..Len(events) /\ Rest[i] = events[cursor + i]
    BY RestFacts
  <2> DEFINE new == heard'
  <2>3. new = heard \o Rest /\ heard \in Seq(Entry)
    BY <1>7 DEF Deliver, TypeInv
  <2> HIDE DEF new
  <2>4. /\ new \in Seq(Entry) /\ Len(new) = Len(heard) + Len(Rest) /\ Len(Rest) \in Nat
        /\ \A i \in 1..Len(heard) : new[i] = heard[i]
        /\ \A i \in 1..Len(new) : i > Len(heard) =>
             i - Len(heard) \in 1..Len(Rest) /\ new[i] = Rest[i - Len(heard)]
    BY <2>2, <2>3, Joined
  <2>5. \A i \in 1..Len(new) : i > Len(heard) =>
          /\ cursor + (i - Len(heard)) \in 1..Len(events)
          /\ new[i] = events[cursor + (i - Len(heard))]
    BY <1>0, <2>2, <2>4
  <2>6. cursor < Len(events) /\ cursor' = Len(events)
    <3>1. ~(cursor < Len(events)) => new = heard /\ cursor' = cursor
      <4>1. ~(cursor < Len(events)) => Rest = <<>>
        BY <1>0, <2>2
      <4>2. heard \o <<>> = heard
        BY <2>3, ConcatEmptySeq
      <4> QED BY <1>7, <2>3, <4>1, <4>2 DEF Deliver
    <3> QED BY <1>7, <3>1 DEF Deliver, new
  <2>7. heard # <<>> => new[1] = heard[1] /\ new # <<>>
    BY <1>0, <2>4
  <2>8. Earlier'
    <3>1. run = 1 => \A i \in 1..Len(new) : new[i].run = 1
      <4> SUFFICES ASSUME run = 1, NEW i \in 1..Len(new) PROVE new[i].run = 1
        OBVIOUS
      <4>1. CASE i \in 1..Len(heard)
        BY <1>0, <2>4, <4>1 DEF Earlier
      <4>2. CASE i > Len(heard)
        BY <1>0, <2>5, <4>2 DEF Earlier
      <4> QED BY <1>0, <4>1, <4>2
    <3> QED BY <1>0, <2>1, <3>1 DEF Earlier, new
  <2>9. Clean' => Clean
    BY <2>7 DEF Clean, new
  <2>10. Followed'
    <3> SUFFICES ASSUME run # 1, Fits, Clean
                 PROVE  /\ Len(new) = Len(said) /\ cursor' = Len(said)
                        /\ \A i \in 1..Len(new) : new[i] = said[i]
      BY <2>1, <2>9, <1>0 DEF Followed, Fits, new
    <3>1. /\ events = said /\ Len(heard) = cursor
          /\ \A i \in 1..Len(heard) : heard[i] = said[i]
      BY <1>0 DEF Current, Followed
    <3>2. Len(new) = Len(said)
      BY <1>0, <2>2, <2>4, <2>6, <3>1
    <3>3. ASSUME NEW i \in 1..Len(new) PROVE new[i] = said[i]
      <4>1. CASE i \in 1..Len(heard)
        BY <2>4, <3>1, <4>1
      <4>2. CASE i > Len(heard)
        <5>1. cursor + (i - Len(heard)) = i
          BY <1>0, <3>1
        <5> QED BY <2>5, <3>1, <4>2, <5>1
      <4> QED BY <1>0, <4>1, <4>2
    <3> QED BY <2>6, <3>1, <3>2, <3>3
  <2>11. Passed'
    <3>1. stream' \in {"last", "closed"} => done
      BY <1>0, <1>7 DEF Listens, Poll, CheckDone, FinalDrain, Passed
    <3>2. new # <<>>
      BY <1>0, <2>2, <2>4, <2>6
    <3>3. ASSUME done, run # 1, Fits PROVE spoken <= cursor'
      BY <1>0, <2>6, <3>3 DEF Current, Phases
    <3> QED BY <2>1, <3>1, <3>2, <3>3 DEF Passed, Fits, new
  <2>12. Current'
    BY <1>0, <2>1 DEF Current, Fits
  <2> QED BY <2>8, <2>10, <2>11, <2>12
<1>8. CASE Listens
  BY <1>6, <1>7, <1>8 DEF Listens, Poll, CheckDone, FinalDrain
<1> QED BY <1>1, <1>2, <1>3, <1>4, <1>5, <1>8 DEF Shape

\* The stream yields events in their order and none twice, and is complete when
\* it closes on a recorder that was empty and had room.
THEOREM StreamIsFaithful == Spec => []StreamFaithful
<1>1. TypeInv /\ OrderInv /\ CompleteInv => StreamFaithful
  <2> SUFFICES ASSUME TypeInv, OrderInv, CompleteInv,
                      stream = "closed", Fits, Clean
               PROVE  Len(heard) >= spoken /\ SubSeq(heard, 1, spoken) = SubSeq(said, 1, spoken)
    BY DEF StreamFaithful, OrderInv, Fits, Clean
  <2>0. /\ heard \in Seq(Entry) /\ said \in Seq(Entry) /\ spoken \in Nat
        /\ Phases /\ Followed /\ Earlier /\ Passed
    BY DEF TypeInv, CompleteInv, Phases
  <2>1. CASE run = 1
    <3>1. heard = <<>>
      BY <2>0, <2>1 DEF Earlier, Clean
    <3>2. spoken = 0
      BY <2>0, <2>1, <3>1 DEF Passed
    <3>3. SubSeq(heard, 1, 0) = <<>> /\ SubSeq(said, 1, 0) = <<>>
      BY SubSeqEmpty
    <3> QED BY <2>0, <3>2, <3>3
  <2>2. CASE run # 1
    <3>1. /\ spoken <= Len(heard) /\ Len(heard) <= Len(said)
          /\ \A i \in 1..spoken : heard[i] = said[i]
      BY <2>0, <2>2 DEF Followed, Passed
    <3>2. /\ \A i \in 1..spoken : heard[i] \in Entry /\ said[i] \in Entry
      BY <2>0, <3>1
    <3> DEFINE a == SubSeq(heard, 1, spoken)
               b == SubSeq(said, 1, spoken)
    <3>3. /\ a \in Seq(Entry) /\ b \in Seq(Entry) /\ Len(a) = spoken /\ Len(b) = spoken
          /\ \A i \in 1..spoken : a[i] = heard[i] /\ b[i] = said[i]
      BY <2>0, <3>2, SubSeqProperties
    <3> HIDE DEF a, b
    <3>4. a = b
      BY <3>1, <3>3, SeqEqual
    <3> QED BY <2>0, <3>1, <3>4 DEF a, b
  <2> QED BY <2>1, <2>2
<1> QED BY <1>1, Shapes, TypeInit, TypeStep, OrderInit, OrderStep, CompleteInit, CompleteStep,
           PTL DEF Spec

-----------------------------------------------------------------------------
(***************************************************************************)
(* Nesting                                                                 *)
(***************************************************************************)

Begins(w, i) == w[i].kind \in Starts
Stops(w, i, j) == w[j].call = w[i].call /\ w[j].kind \in Ends(w[i].kind)
OnlyStop(w, i, j) == \A h \in 1..Len(w) : Stops(w, i, h) <=> h = j

Closed(w, i) ==
    \E j \in (i + 1)..Len(w) :
       /\ OnlyStop(w, i, j)
       /\ \A k \in (i + 1)..(j - 1) :
             Begins(w, k) => \E l \in (k + 1)..(j - 1) : OnlyStop(w, k, l)

\* Where the open calls fs began: one after the other, and none has ended.
Opened(w, fs, p) ==
    /\ p \in [1..Len(fs) -> 1..Len(w)]
    /\ \A m \in 1..Len(fs) :
          /\ w[p[m]].kind = StartOf(fs[m].kind) /\ w[p[m]].call = fs[m].call
          /\ \A h \in 1..Len(w) : ~Stops(w, p[m], h)
    /\ \A m, o \in 1..Len(fs) : m < o => p[m] < p[o]

\* A trace w of n calls at most, of which fs are still open.
Well(w, fs, n) ==
    /\ \A i \in 1..Len(w) : w[i].call <= n
    /\ \A i, k \in 1..Len(w) : Begins(w, i) /\ Begins(w, k) /\ w[i].call = w[k].call => i = k
    /\ \E p : /\ Opened(w, fs, p)
              /\ \A i \in 1..Len(w) :
                    Begins(w, i) => Closed(w, i) \/ \E m \in 1..Len(fs) : i = p[m]

LEMMA KindFacts ==
    /\ \A kind : StartOf(kind) \in Starts
    /\ \A s \in Starts : Ends(s) \cap Starts = {}
    /\ \A s \in Starts, k \in {"safety_decision", "edit_applied", "runtime_transition"} :
          k \notin Starts /\ k \notin Ends(s)
<1>1. \A kind : StartOf(kind) \in Starts
  BY DEF StartOf, Starts
<1>2. \A s \in Starts : Ends(s) \cap Starts = {}
  BY DEF Ends, Starts
<1>3. \A s \in Starts, k \in {"safety_decision", "edit_applied", "runtime_transition"} :
          k \notin Starts /\ k \notin Ends(s)
  BY DEF Ends, Starts
<1> QED BY <1>1, <1>2, <1>3

Extends(w, v) ==
    /\ w \in Seq(Word) /\ v \in Seq(Word)
    /\ Len(w) <= Len(v) /\ \A i \in 1..Len(w) : v[i] = w[i]

\* What has ended stays ended, and nested, as long as it does not end again.
LEMMA ClosedKept ==
    ASSUME NEW w, NEW v, Extends(w, v),
           \A i, j \in 1..Len(w) : Begins(w, i) /\ Stops(w, i, j) =>
               \A h \in (Len(w) + 1)..Len(v) : ~Stops(v, i, h)
    PROVE  \A i \in 1..Len(w) : Begins(w, i) /\ Closed(w, i) => Closed(v, i)
<1>0. Len(w) \in Nat /\ Len(v) \in Nat /\ Len(w) <= Len(v)
  BY DEF Extends
<1>1. \A i, h \in 1..Len(w) : Stops(v, i, h) <=> Stops(w, i, h)
  BY DEF Extends, Stops
<1>2. \A i \in 1..Len(w) : Begins(v, i) <=> Begins(w, i)
  BY DEF Extends, Begins
<1>3. ASSUME NEW i \in 1..Len(w), NEW j \in 1..Len(w), Begins(w, i), OnlyStop(w, i, j)
      PROVE  OnlyStop(v, i, j)
  <2>1. Stops(w, i, j)
    BY <1>3 DEF OnlyStop
  <2>2. ASSUME NEW h \in 1..Len(v) PROVE Stops(v, i, h) <=> h = j
    <3>1. CASE h \in 1..Len(w)
      BY <1>1, <1>3, <3>1 DEF OnlyStop
    <3>2. CASE h \in (Len(w) + 1)..Len(v)
      BY <1>0, <1>3, <2>1, <3>2
    <3> QED BY <1>0, <2>2, <3>1, <3>2
  <2> QED BY <2>2 DEF OnlyStop
<1>4. ASSUME NEW i \in 1..Len(w), Begins(w, i), Closed(w, i) PROVE Closed(v, i)
  <2>1. PICK j \in (i + 1)..Len(w) :
          /\ OnlyStop(w, i, j)
          /\ \A k \in (i + 1)..(j - 1) :
                Begins(w, k) => \E l \in (k + 1)..(j - 1) : OnlyStop(w, k, l)
    BY <1>4 DEF Closed
  <2>2. j \in (i + 1)..Len(v) /\ j \in 1..Len(w)
    BY <1>0, <2>1
  <2>3. OnlyStop(v, i, j)
    BY <1>3, <1>4, <2>1, <2>2
  <2>4. ASSUME NEW k \in (i + 1)..(j - 1), Begins(v, k)
        PROVE  \E l \in (k + 1)..(j - 1) : OnlyStop(v, k, l)
    <3>1. k \in 1..Len(w)
      BY <1>0, <2>2
    <3>2. PICK l \in (k + 1)..(j - 1) : OnlyStop(w, k, l)
      BY <1>2, <2>1, <2>4, <3>1
    <3>3. l \in 1..Len(w)
      BY <1>0, <2>2, <3>1
    <3> QED BY <1>2, <1>3, <2>4, <3>1, <3>2, <3>3
  <2> QED BY <2>2, <2>3, <2>4 DEF Closed
<1> QED BY <1>4

\* Words that neither begin nor end anything.
LEMMA WellNotes ==
    ASSUME NEW w, NEW v, NEW fs, NEW n \in Nat, NEW m \in Nat,
           Extends(w, v), Well(w, fs, n), n <= m,
           \A i \in (Len(w) + 1)..Len(v) : v[i].kind = "runtime_transition" /\ v[i].call <= m
    PROVE  Well(v, fs, m)
<1>0. Len(w) \in Nat /\ Len(v) \in Nat /\ Len(w) <= Len(v) /\ \A i \in 1..Len(w) : v[i] = w[i]
  BY DEF Extends
<1>1. \A i \in 1..Len(v) : i \in 1..Len(w) \/ i \in (Len(w) + 1)..Len(v)
  BY <1>0
<1>2. \A i \in 1..Len(v) : Begins(v, i) => i \in 1..Len(w) /\ Begins(w, i)
  BY <1>0, <1>1, KindFacts DEF Begins
<1>3. \A i \in 1..Len(w) : Begins(w, i) => \A h \in (Len(w) + 1)..Len(v) : ~Stops(v, i, h)
  BY <1>0, KindFacts DEF Begins, Stops
<1>4. \A i \in 1..Len(w) : Begins(w, i) /\ Closed(w, i) => Closed(v, i)
  BY <1>3, ClosedKept
<1>5. PICK p : /\ Opened(w, fs, p)
               /\ \A i \in 1..Len(w) :
                     Begins(w, i) => Closed(w, i) \/ \E o \in 1..Len(fs) : i = p[o]
  BY DEF Well
<1>6. Opened(v, fs, p)
  <2>1. p \in [1..Len(fs) -> 1..Len(v)]
    BY <1>0, <1>5 DEF Opened
  <2>2. ASSUME NEW o \in 1..Len(fs), NEW h \in 1..Len(v) PROVE ~Stops(v, p[o], h)
    <3>1. p[o] \in 1..Len(w) /\ Begins(w, p[o])
      BY <1>5, KindFacts DEF Opened, Begins
    <3>2. CASE h \in 1..Len(w)
      BY <1>0, <1>5, <3>1, <3>2 DEF Opened, Stops
    <3> QED BY <1>1, <1>3, <3>1, <3>2
  <2> QED BY <1>0, <1>5, <2>1, <2>2 DEF Opened
<1>7. \A i \in 1..Len(v) : v[i].call <= m
  <2>1. \A i \in 1..Len(w) : w[i] \in Word /\ w[i].call <= n
    BY DEF Well, Extends
  <2>2. \A i \in 1..Len(w) : w[i].call \in Nat
    BY <2>1 DEF Word
  <2> QED BY <1>0, <1>1, <2>1, <2>2
<1>8. \A i, k \in 1..Len(v) : Begins(v, i) /\ Begins(v, k) /\ v[i].call = v[k].call => i = k
  BY <1>0, <1>2 DEF Well
<1> QED BY <1>2, <1>4, <1>5, <1>6, <1>7, <1>8 DEF Well

\* A call begins, with a number that no call had.
LEMMA WellBegins ==
    ASSUME NEW w, NEW v, NEW fs, NEW gs, NEW n \in Nat,
           Extends(w, v), Well(w, fs, n), Len(v) = Len(w) + 1,
           Len(fs) \in Nat, Len(gs) = Len(fs) + 1, \A m \in 1..Len(fs) : gs[m] = fs[m],
           v[Len(w) + 1].kind = StartOf(gs[Len(fs) + 1].kind),
           v[Len(w) + 1].call = n + 1, gs[Len(fs) + 1].call = n + 1
    PROVE  Well(v, gs, n + 1)
<1> DEFINE z == Len(w) + 1
           L == Len(fs)
<1>0. Len(w) \in Nat /\ Len(v) = z /\ L \in Nat /\ Len(gs) = L + 1
      /\ \A i \in 1..Len(w) : v[i] = w[i]
  BY DEF Extends
<1>1. \A i \in 1..Len(v) : i \in 1..Len(w) \/ i = z
  BY <1>0
<1>2. \A i \in 1..Len(w) : w[i] \in Word /\ w[i].call <= n
  BY DEF Well, Extends
<1>3. \A i \in 1..Len(w) : w[i].call \in Nat
  BY <1>2 DEF Word
<1>4. Begins(v, z) /\ v[z].call = n + 1
  BY KindFacts DEF Begins
<1>5. \A i \in 1..Len(w) : Begins(v, i) <=> Begins(w, i)
  BY <1>0 DEF Begins
<1>6. \A i \in 1..Len(w) : Begins(w, i) => ~Stops(v, i, z)
  BY <1>0, KindFacts, <1>4 DEF Begins, Stops
<1>7. \A h \in 1..Len(v) : ~Stops(v, z, h)
  <2> SUFFICES ASSUME NEW h \in 1..Len(v) PROVE ~Stops(v, z, h)
    OBVIOUS
  <2>1. CASE h \in 1..Len(w)
    BY <1>0, <1>2, <1>3, <1>4, <2>1 DEF Stops
  <2>2. CASE h = z
    BY <1>4, <2>2, KindFacts DEF Stops, Begins
  <2> QED BY <1>1, <2>1, <2>2
<1>8. \A i \in 1..Len(w) : Begins(w, i) /\ Closed(w, i) => Closed(v, i)
  BY <1>0, <1>6, ClosedKept
<1>9. PICK p : /\ Opened(w, fs, p)
               /\ \A i \in 1..Len(w) :
                     Begins(w, i) => Closed(w, i) \/ \E o \in 1..Len(fs) : i = p[o]
  BY DEF Well
<1> DEFINE q == [m \in 1..Len(gs) |-> IF m = L + 1 THEN z ELSE p[m]]
<1>10. /\ q \in [1..Len(gs) -> 1..Len(v)] /\ q[L + 1] = z
       /\ \A m \in 1..L : q[m] = p[m] /\ p[m] \in 1..Len(w)
  BY <1>0, <1>9 DEF Opened
<1>11. \A m \in 1..Len(gs) : m \in 1..L \/ m = L + 1
  BY <1>0
<1> HIDE DEF z, L, q
<1>12. Opened(v, gs, q)
  <2>1. ASSUME NEW m \in 1..L
        PROVE  /\ v[q[m]].kind = StartOf(gs[m].kind) /\ v[q[m]].call = gs[m].call
               /\ \A h \in 1..Len(v) : ~Stops(v, q[m], h)
    <3>1. /\ p[m] \in 1..Len(w) /\ q[m] = p[m] /\ gs[m] = fs[m]
          /\ w[p[m]].kind = StartOf(fs[m].kind) /\ w[p[m]].call = fs[m].call
          /\ \A h \in 1..Len(w) : ~Stops(w, p[m], h)
      BY <1>9, <1>10 DEF Opened, L
    <3>2. Begins(w, p[m])
      BY <3>1, KindFacts DEF Begins
    <3>3. \A h \in 1..Len(w) : ~Stops(v, p[m], h)
      BY <1>0, <3>1 DEF Stops
    <3> QED BY <1>0, <1>1, <1>6, <3>1, <3>2, <3>3
  <2>2. /\ v[q[L + 1]].kind = StartOf(gs[L + 1].kind) /\ v[q[L + 1]].call = gs[L + 1].call
        /\ \A h \in 1..Len(v) : ~Stops(v, q[L + 1], h)
    BY <1>7, <1>10 DEF z, L
  <2>3. ASSUME NEW m \in 1..Len(gs), NEW o \in 1..Len(gs), m < o PROVE q[m] < q[o]
    <3>1. m \in 1..L
      BY <1>0, <2>3
    <3>2. CASE o \in 1..L
      BY <1>9, <1>10, <2>3, <3>1, <3>2 DEF Opened, L
    <3>3. CASE o = L + 1
      BY <1>0, <1>10, <3>1, <3>3 DEF z
    <3> QED BY <1>11, <3>2, <3>3
  <2> QED BY <1>10, <1>11, <2>1, <2>2, <2>3 DEF Opened
<1>13. \A i \in 1..Len(v) : v[i].call <= n + 1
  BY <1>0, <1>1, <1>2, <1>3, <1>4
<1>14. ASSUME NEW i \in 1..Len(v), NEW k \in 1..Len(v), Begins(v, i), Begins(v, k),
              v[i].call = v[k].call
       PROVE  i = k
  <2>1. \A j \in 1..Len(w) : v[j].call # n + 1
    BY <1>0, <1>2, <1>3
  <2>2. CASE i \in 1..Len(w) /\ k \in 1..Len(w)
    BY <1>0, <1>5, <1>14, <2>2 DEF Well
  <2> QED BY <1>1, <1>4, <1>14, <2>1, <2>2
<1>15. ASSUME NEW i \in 1..Len(v), Begins(v, i)
       PROVE  Closed(v, i) \/ \E m \in 1..Len(gs) : i = q[m]
  <2>1. CASE i = z
    BY <1>0, <1>10, <2>1
  <2>2. CASE i \in 1..Len(w)
    <3>1. CASE Closed(w, i)
      BY <1>5, <1>8, <1>15, <2>2, <3>1
    <3>2. CASE \E m \in 1..L : i = p[m]
      BY <1>0, <1>10, <3>2
    <3> QED BY <1>5, <1>9, <1>15, <2>2, <3>1, <3>2 DEF L
  <2> QED BY <1>1, <2>1, <2>2
<1> QED BY <1>12, <1>13, <1>14, <1>15 DEF Well

\* The innermost call ends.
LEMMA WellEnds ==
    ASSUME NEW w, NEW v, NEW fs, NEW gs, NEW n \in Nat, NEW e \in (Len(w) + 1)..Len(v),
           Extends(w, v), Well(w, fs, n),
           Len(gs) \in Nat, Len(fs) = Len(gs) + 1, \A m \in 1..Len(gs) : gs[m] = fs[m],
           v[e].kind \in Ends(StartOf(fs[Len(fs)].kind)),
           \A h \in (Len(w) + 1)..Len(v) :
              /\ v[h].call = fs[Len(fs)].call
              /\ h # e => v[h].kind \in {"safety_decision", "edit_applied"}
    PROVE  Well(v, gs, n)
<1> DEFINE L == Len(fs)
<1>0. /\ Len(w) \in Nat /\ Len(v) \in Nat /\ Len(w) <= Len(v)
      /\ L \in Nat \ {0} /\ L = Len(gs) + 1 /\ Len(gs) \in Nat
      /\ \A i \in 1..Len(w) : v[i] = w[i]
  BY DEF Extends
<1>1. \A i \in 1..Len(v) : i \in 1..Len(w) \/ i \in (Len(w) + 1)..Len(v)
  BY <1>0
<1>2. PICK p : /\ Opened(w, fs, p)
               /\ \A i \in 1..Len(w) :
                     Begins(w, i) => Closed(w, i) \/ \E o \in 1..Len(fs) : i = p[o]
  BY DEF Well
<1> DEFINE x == p[L]
<1>3. /\ x \in 1..Len(w) /\ w[x].kind = StartOf(fs[L].kind) /\ w[x].call = fs[L].call
      /\ \A h \in 1..Len(w) : ~Stops(w, x, h)
  BY <1>0, <1>2 DEF Opened
<1> HIDE DEF L, x
<1>4. Begins(w, x)
  BY <1>3, KindFacts DEF Begins
<1>5. ASSUME NEW i \in 1..Len(w), Begins(w, i), i # x, NEW h \in (Len(w) + 1)..Len(v)
      PROVE  ~Stops(v, i, h)
  <2>1. w[i].call # w[x].call
    BY <1>3, <1>4, <1>5 DEF Well
  <2> QED BY <1>0, <1>3, <2>1 DEF Stops, L
<1>6. \A i \in 1..Len(v) : Begins(v, i) => i \in 1..Len(w) /\ Begins(w, i)
  <2>1. \A s : Ends(StartOf(s)) \cap Starts = {}
    BY KindFacts
  <2>2. \A i \in (Len(w) + 1)..Len(v) : ~Begins(v, i)
    <3> SUFFICES ASSUME NEW i \in (Len(w) + 1)..Len(v) PROVE v[i].kind \notin Starts
      BY DEF Begins
    <3>1. CASE i = e
      BY <2>1, <3>1, KindFacts
    <3>2. CASE i # e
      BY <3>2, KindFacts
    <3> QED BY <3>1, <3>2
  <2> QED BY <1>0, <1>1, <2>2 DEF Begins
<1>7. \A i \in 1..Len(w) : Begins(w, i) /\ Closed(w, i) => Closed(v, i)
  <2>1. \A i, j \in 1..Len(w) : Begins(w, i) /\ Stops(w, i, j) =>
           \A h \in (Len(w) + 1)..Len(v) : ~Stops(v, i, h)
    BY <1>3, <1>5
  <2> QED BY <2>1, ClosedKept
<1>8. OnlyStop(v, x, e)
  <2>1. \A h \in 1..Len(w) : ~Stops(v, x, h)
    BY <1>0, <1>3 DEF Stops
  <2>2. Stops(v, x, e)
    BY <1>0, <1>3 DEF Stops, L
  <2>3. \A h \in (Len(w) + 1)..Len(v) : h # e => ~Stops(v, x, h)
    BY <1>0, <1>3, <1>4, KindFacts DEF Stops, Begins
  <2> QED BY <1>0, <1>1, <2>1, <2>2, <2>3 DEF OnlyStop
<1>9. ASSUME NEW k \in (x + 1)..(e - 1), Begins(v, k)
      PROVE  \E l \in (k + 1)..(e - 1) : OnlyStop(v, k, l)
  <2>1. k \in 1..Len(v)
    BY <1>0, <1>3
  <2>2. k \in 1..Len(w) /\ Begins(w, k)
    BY <1>6, <1>9, <2>1
  <2>3. \A o \in 1..L : k # p[o]
    <3> SUFFICES ASSUME NEW o \in 1..L PROVE p[o] <= x
      BY <1>0, <1>2, <1>3 DEF Opened, L
    <3>1. CASE o < L
      <4>1. p[o] < p[L] /\ p[o] \in 1..Len(w)
        BY <1>0, <1>2, <3>1 DEF Opened, L
      <4> QED BY <1>0, <1>3, <4>1 DEF x
    <3>2. CASE o = L
      BY <1>3, <3>2 DEF x
    <3> QED BY <1>0, <3>1, <3>2
  <2>4. Closed(w, k)
    BY <1>2, <2>2, <2>3 DEF L
  <2>5. PICK l \in (k + 1)..Len(w) : OnlyStop(w, k, l)
    BY <2>4 DEF Closed
  <2>6. Stops(w, k, l) /\ l \in 1..Len(w) /\ l \in (k + 1)..(e - 1)
    BY <1>0, <2>2, <2>5 DEF OnlyStop
  <2>7. k # x
    BY <1>3
  <2>8. OnlyStop(v, k, l)
    <3>1. \A h \in 1..Len(w) : Stops(v, k, h) <=> h = l
      BY <1>0, <2>2, <2>5 DEF OnlyStop, Stops
    <3>2. \A h \in (Len(w) + 1)..Len(v) : ~Stops(v, k, h) /\ h # l
      BY <1>0, <1>5, <2>2, <2>6, <2>7
    <3> QED BY <1>1, <3>1, <3>2 DEF OnlyStop
  <2> QED BY <2>6, <2>8
<1>10. Closed(v, x)
  <2>1. e \in (x + 1)..Len(v)
    BY <1>0, <1>3
  <2> QED BY <1>8, <1>9, <2>1 DEF Closed
<1> DEFINE q == [m \in 1..Len(gs) |-> p[m]]
<1>11. /\ q \in [1..Len(gs) -> 1..Len(v)]
       /\ \A m \in 1..Len(gs) : q[m] = p[m] /\ m \in 1..L /\ p[m] \in 1..Len(w)
  BY <1>0, <1>2 DEF Opened, L
<1> HIDE DEF q
<1>12. Opened(v, gs, q)
  <2>1. ASSUME NEW m \in 1..Len(gs)
        PROVE  /\ v[q[m]].kind = StartOf(gs[m].kind) /\ v[q[m]].call = gs[m].call
               /\ \A h \in 1..Len(v) : ~Stops(v, q[m], h)
    <3>1. /\ p[m] \in 1..Len(w) /\ q[m] = p[m] /\ gs[m] = fs[m] /\ m \in 1..L
          /\ w[p[m]].kind = StartOf(fs[m].kind) /\ w[p[m]].call = fs[m].call
          /\ \A h \in 1..Len(w) : ~Stops(w, p[m], h)
      BY <1>2, <1>11 DEF Opened, L
    <3>2. Begins(w, p[m])
      BY <3>1, KindFacts DEF Begins
    <3>3. p[m] # x
      BY <1>0, <1>2, <1>3, <3>1 DEF Opened, L, x
    <3>4. \A h \in 1..Len(w) : ~Stops(v, p[m], h)
      BY <1>0, <3>1 DEF Stops
    <3> QED BY <1>0, <1>1, <1>5, <3>1, <3>2, <3>3, <3>4
  <2>2. \A m, o \in 1..Len(gs) : m < o => q[m] < q[o]
    BY <1>2, <1>11 DEF Opened, L
  <2> QED BY <1>11, <2>1, <2>2 DEF Opened
<1>13. \A i \in 1..Len(v) : v[i].call <= n
  <2>1. \A i \in 1..Len(w) : w[i].call <= n
    BY DEF Well
  <2> QED BY <1>0, <1>1, <1>3, <2>1 DEF L
<1>14. \A i, k \in 1..Len(v) : Begins(v, i) /\ Begins(v, k) /\ v[i].call = v[k].call => i = k
  BY <1>0, <1>6 DEF Well
<1>15. ASSUME NEW i \in 1..Len(v), Begins(v, i)
       PROVE  Closed(v, i) \/ \E m \in 1..Len(gs) : i = q[m]
  <2>1. i \in 1..Len(w) /\ Begins(w, i)
    BY <1>6, <1>15
  <2>2. CASE \E m \in 1..L : i = p[m]
    <3>1. PICK m \in 1..L : i = p[m]
      BY <2>2
    <3>2. m = L \/ m \in 1..Len(gs)
      BY <1>0
    <3> QED BY <1>10, <1>11, <3>1, <3>2 DEF x
  <2> QED BY <1>2, <1>7, <2>1, <2>2 DEF L
<1> QED BY <1>12, <1>13, <1>14, <1>15 DEF Well

\* What the worker has said of the task and is about to say.
Line == [i \in 1..(Len(said) + Len(todo)) |->
           IF i <= Len(said) THEN said[i].what ELSE todo[i - Len(said)]]

LEMMA LineFacts ==
    ASSUME TypeInv
    PROVE  /\ Line \in Seq(Word) /\ Len(Line) = Len(said) + Len(todo)
           /\ Len(said) \in Nat /\ Len(todo) \in Nat
           /\ \A i \in 1..Len(said) : Line[i] = said[i].what
           /\ \A i \in 1..Len(Line) : i > Len(said) => Line[i] = todo[i - Len(said)]
<1>1. Len(said) \in Nat /\ Len(todo) \in Nat
  BY DEF TypeInv
<1>2. \A i \in 1..Len(said) : said[i].what \in Word
  <2>1. \A i \in 1..Len(said) : said[i] \in Entry
    BY DEF TypeInv
  <2> QED BY <2>1 DEF Entry
<1>3. \A i \in 1..(Len(said) + Len(todo)) : i > Len(said) => todo[i - Len(said)] \in Word
  <2>1. \A i \in 1..(Len(said) + Len(todo)) : i > Len(said) => i - Len(said) \in 1..Len(todo)
    BY <1>1
  <2> QED BY <2>1 DEF TypeInv
<1>4. \A i \in 1..(Len(said) + Len(todo)) :
         (IF i <= Len(said) THEN said[i].what ELSE todo[i - Len(said)]) \in Word
  BY <1>1, <1>2, <1>3
<1>5. Len(said) + Len(todo) \in Nat
  BY <1>1
<1>6. Line \in Seq(Word) /\ Len(Line) = Len(said) + Len(todo)
  BY <1>4, <1>5, IsASeq DEF Line
<1> QED BY <1>1, <1>6 DEF Line

\* Free code writes behind everything that was said.
LEMMA LineGrows ==
    ASSUME TypeInv, TypeInv', Free, UNCHANGED said,
           NEW kinds \in Seq(Kinds), NEW call \in Nat, Write(kinds, call)
    PROVE  /\ Extends(Line, Line') /\ Len(Line') = Len(Line) + Len(kinds)
           /\ \A i \in 1..Len(Line') : i > Len(Line) =>
                 /\ i - Len(Line) \in 1..Len(kinds)
                 /\ Line'[i].kind = kinds[i - Len(Line)] /\ Line'[i].call = call
<1>1. /\ Line \in Seq(Word) /\ Len(Line) = Len(said) + Len(todo) /\ Len(said) \in Nat
      /\ \A i \in 1..Len(said) : Line[i] = said[i].what
  BY LineFacts
<1>2. Len(todo) = 0 /\ said' = said
  BY DEF Free
<1>3. /\ Line' \in Seq(Word) /\ Len(Line') = Len(said') + Len(todo')
      /\ \A i \in 1..Len(said') : Line'[i] = said'[i].what
      /\ \A i \in 1..Len(Line') : i > Len(said') => Line'[i] = todo'[i - Len(said')]
  <2>1. (TypeInv => /\ Line \in Seq(Word) /\ Len(Line) = Len(said) + Len(todo)
                    /\ \A i \in 1..Len(said) : Line[i] = said[i].what
                    /\ \A i \in 1..Len(Line) : i > Len(said) => Line[i] = todo[i - Len(said)])'
    BY LineFacts, PTL
  <2> QED BY <2>1
<1>4. /\ Len(todo') = Len(kinds) /\ Len(kinds) \in Nat
      /\ \A i \in 1..Len(kinds) : todo'[i] = [kind |-> kinds[i], call |-> call]
  BY Written
<1> HIDE DEF Line
<1>5. Len(Line) = Len(said) /\ Len(Line') = Len(said) + Len(kinds)
  BY <1>1, <1>2, <1>3, <1>4
<1>6. Extends(Line, Line')
  BY <1>1, <1>2, <1>3, <1>4, <1>5 DEF Extends
<1>7. ASSUME NEW i \in 1..Len(Line'), i > Len(Line)
      PROVE  /\ i - Len(Line) \in 1..Len(kinds)
             /\ Line'[i].kind = kinds[i - Len(Line)] /\ Line'[i].call = call
  <2>1. i - Len(said) \in 1..Len(kinds)
    BY <1>1, <1>4, <1>5, <1>7
  <2>2. Line'[i] = todo'[i - Len(said)]
    BY <1>2, <1>3, <1>5, <1>7
  <2>3. Line'[i] = [kind |-> kinds[i - Len(said)], call |-> call]
    BY <1>4, <2>1, <2>2
  <2> QED BY <1>5, <2>1, <2>3
<1> QED BY <1>5, <1>6, <1>7

\* An event that is written only moves from what will be said to what was.
LEMMA LineKept == TypeInv /\ TypeInv' /\ Emit => Line' = Line
<1> SUFFICES ASSUME TypeInv, TypeInv', Emit PROVE Line' = Line
  OBVIOUS
<1> DEFINE n == Len(said)
           m == Len(todo)
<1>1. n \in Nat /\ m \in Nat \ {0} /\ Len(said') = n + 1 /\ Len(todo') = m - 1
  <2>1. Len(todo) \in Nat \ {0} /\ Len(todo') = Len(todo) - 1
    BY EmitFacts
  <2>2. said \in Seq(Entry)
    BY DEF TypeInv
  <2>3. PICK new : said' = Append(said, new)
    BY DEF Emit
  <2> QED BY <2>1, <2>2, <2>3
<1>2. /\ \A i \in 1..n : said'[i] = said[i]
      /\ said'[n + 1].what = todo[1]
      /\ \A i \in 1..(m - 1) : todo'[i] = todo[i + 1]
  <2> DEFINE new == [run |-> run, sequence |-> sequence + 1, what |-> Head(todo)]
  <2>1. said' = Append(said, new) /\ Head(todo) = todo[1]
        /\ \A i \in 1..Len(todo') : todo'[i] = todo[i + 1]
    BY EmitFacts
  <2>2. new.what = Head(todo)
    OBVIOUS
  <2> HIDE DEF new
  <2>3. \A i \in 1..n : said'[i] = said[i]
    BY <2>1 DEF TypeInv
  <2>4. said'[n + 1] = new
    BY <2>1 DEF TypeInv
  <2> QED BY <1>1, <2>1, <2>2, <2>3, <2>4
<1> DEFINE v == [i \in 1..(Len(said') + Len(todo')) |->
                   IF i <= Len(said') THEN said'[i].what ELSE todo'[i - Len(said')]]
<1>3. Line' = v
  BY DEF Line
<1>4. Line = [i \in 1..(n + m) |-> IF i <= n THEN said[i].what ELSE todo[i - n]]
  BY DEF Line
<1> HIDE DEF n, m
<1>5. v = [i \in 1..(n + m) |-> IF i <= n + 1 THEN said'[i].what ELSE todo'[i - (n + 1)]]
  BY <1>1
<1>6. ASSUME NEW i \in 1..(n + m)
      PROVE  (IF i <= n + 1 THEN said'[i].what ELSE todo'[i - (n + 1)])
               = IF i <= n THEN said[i].what ELSE todo[i - n]
  <2>1. CASE i <= n
    BY <1>1, <1>2, <2>1
  <2>2. CASE i = n + 1
    <3>1. i - n = 1 /\ i > n
      BY <1>1, <2>2
    <3> QED BY <1>1, <1>2, <2>2, <3>1
  <2>3. CASE i > n + 1
    <3>1. i - (n + 1) \in 1..(m - 1) /\ i - (n + 1) + 1 = i - n
      BY <1>1, <2>3
    <3> QED BY <1>1, <1>2, <2>3, <3>1
  <2> QED BY <1>1, <2>1, <2>2, <2>3
<1> QED BY <1>3, <1>4, <1>5, <1>6

\* Nothing is said and nothing is open.
LEMMA WellEmpty ==
    ASSUME NEW w, NEW fs, NEW n, Len(w) = 0, Len(fs) = 0
    PROVE  Well(w, fs, n)
<1> DEFINE p == [m \in 1..Len(fs) |-> 0]
<1>1. 1..Len(fs) = {} /\ 1..Len(w) = {}
  OBVIOUS
<1>2. p \in [1..Len(fs) -> 1..Len(w)]
  BY <1>1
<1> HIDE DEF p
<1>3. Opened(w, fs, p)
  BY <1>1, <1>2 DEF Opened
<1> QED BY <1>1, <1>3 DEF Well

\* The run itself is the one call that begins with the trace.
LEMMA WellStarts ==
    ASSUME NEW w \in Seq(Word), NEW fs, NEW n \in Nat, Len(w) = 1, Len(fs) = 1,
           w[1].kind = "task_started", w[1].call = 0, fs[1].kind = "run", fs[1].call = 0
    PROVE  Well(w, fs, n)
<1> DEFINE p == [m \in 1..Len(fs) |-> 1]
<1>1. /\ \A m \in 1..Len(fs) : m = 1
      /\ \A i \in 1..Len(w) : i = 1
      /\ 1 \in 1..Len(w)
  OBVIOUS
<1>2. p \in [1..Len(fs) -> 1..Len(w)] /\ p[1] = 1 /\ 1 \in 1..Len(fs)
  BY <1>1
<1>3. StartOf("run") = "task_started" /\ ~Stops(w, 1, 1)
  BY DEF StartOf, Stops, Ends
<1> HIDE DEF p
<1>4. Opened(w, fs, p)
  BY <1>1, <1>2, <1>3 DEF Opened
<1>5. \A i \in 1..Len(w) : w[i].call <= n
  BY <1>1
<1> QED BY <1>1, <1>2, <1>4, <1>5 DEF Well

NestInv ==
    /\ Well(Line, frames, calls)
    /\ done => frames = <<>> /\ \A i \in 1..Len(todo) : todo[i].kind = "runtime_transition"

LEMMA NestInit == Init => NestInv
<1> SUFFICES ASSUME Init PROVE NestInv
  OBVIOUS
<1>1. Len(Line) = 0 /\ Len(frames) = 0 /\ ~done
  BY TypeInit, LineFacts DEF Init
<1> QED BY <1>1, WellEmpty DEF NestInv

LEMMA NestStep == TypeInv /\ TypeInv' /\ Phases /\ NestInv /\ Shape => NestInv'
<1> SUFFICES ASSUME TypeInv, TypeInv', Phases, NestInv, Shape PROVE NestInv'
  OBVIOUS
<1> USE DEF Unsaid
<1>0. calls \in Nat /\ calls' \in Nat /\ frames \in Seq(Frame)
  BY DEF TypeInv
<1>1. CASE Emit
  <2>1. Line' = Line /\ UNCHANGED <<frames, calls, done>>
    BY <1>1, LineKept DEF Emit
  <2>2. /\ Len(todo') = Len(todo) - 1 /\ Len(todo) \in Nat
        /\ \A i \in 1..Len(todo') : todo'[i] = todo[i + 1]
    BY <1>1, EmitFacts
  <2>3. \A i \in 1..Len(todo') : i + 1 \in 1..Len(todo)
    BY <2>2
  <2> QED BY <2>1, <2>2, <2>3 DEF NestInv
<1>2. CASE Trim \/ Moves \/ Listens
  <2>1. UNCHANGED <<said, todo, frames, calls, done>>
    BY <1>2 DEF Trim, Moves, Listens
  <2>2. Line' = Line
    BY <2>1 DEF Line
  <2> QED BY <2>1, <2>2 DEF NestInv
<1>3. CASE Finish
  <2>1. UNCHANGED <<said, todo, frames, calls>> /\ frames = <<>> /\ todo = <<>>
    BY <1>3 DEF Finish, Free
  <2>2. Line' = Line
    BY <2>1 DEF Line
  <2> QED BY <2>1, <2>2 DEF NestInv
<1>4. CASE StartRun
  <2>1. /\ Free /\ UNCHANGED <<said, calls, done>> /\ Write(<<"task_started">>, 0)
        /\ frames' = <<[kind |-> "run", call |-> 0]>> /\ worker = "start"
    BY <1>4 DEF StartRun
  <2> DEFINE kinds == <<"task_started">>
  <2>2. kinds \in Seq(Kinds) /\ Len(kinds) = 1 /\ kinds[1] = "task_started" /\ 0 \in Nat
    BY Single DEF Kinds
  <2>3. Len(Line) = 0 /\ ~done
    BY <2>1, LineFacts DEF Phases
  <2>4. Line' \in Seq(Word) /\ Len(Line') = 1 /\ Line'[1].kind = "task_started" /\ Line'[1].call = 0
    <3> HIDE DEF kinds
    <3>1. /\ Extends(Line, Line') /\ Len(Line') = Len(Line) + Len(kinds)
          /\ \A i \in 1..Len(Line') : i > Len(Line) =>
                 /\ i - Len(Line) \in 1..Len(kinds)
                 /\ Line'[i].kind = kinds[i - Len(Line)] /\ Line'[i].call = 0
      <4>1. Write(kinds, 0)
        BY <2>1 DEF kinds
      <4> QED BY <2>1, <2>2, <4>1, LineGrows
    <3> HIDE DEF Line
    <3>2. Len(Line') = 1 /\ 1 \in 1..Len(Line') /\ 1 > Len(Line) /\ 1 - Len(Line) = 1
      BY <2>2, <2>3, <3>1
    <3> QED BY <2>2, <3>1, <3>2 DEF Extends
  <2>5. Len(frames') = 1 /\ frames'[1].kind = "run" /\ frames'[1].call = 0
    BY <2>1
  <2>7. Well(Line', frames', calls')
    BY <1>0, <2>4, <2>5, WellStarts
  <2> QED BY <2>1, <2>3, <2>7 DEF NestInv
<1>5. CASE Opens
  <2>1. PICK kind \in CallKinds \ {"run"} :
          /\ frames' = Append(frames, [kind |-> kind, call |-> calls + 1])
          /\ Write(<<StartOf(kind)>>, calls + 1)
    BY <1>5 DEF Opens
  <2> DEFINE kinds == <<StartOf(kind)>>
  <2>2. kinds \in Seq(Kinds) /\ Len(kinds) = 1 /\ kinds[1] = StartOf(kind) /\ calls + 1 \in Nat
    BY <1>0, Single, StartKinds
  <2>3. Free /\ UNCHANGED <<said, done>> /\ calls' = calls + 1 /\ ~done /\ Write(kinds, calls + 1)
    BY <1>5, <2>1 DEF Opens, Phases
  <2> HIDE DEF kinds
  <2>4. /\ Extends(Line, Line') /\ Len(Line') = Len(Line) + 1 /\ Len(Line) \in Nat
        /\ Line'[Len(Line) + 1].kind = StartOf(kind)
        /\ Line'[Len(Line) + 1].call = calls + 1
    <3>1. Len(Line) \in Nat
      BY LineFacts
    <3>2. /\ Extends(Line, Line') /\ Len(Line') = Len(Line) + 1
          /\ \A i \in 1..Len(Line') : i > Len(Line) =>
                 /\ i - Len(Line) \in 1..Len(kinds)
                 /\ Line'[i].kind = kinds[i - Len(Line)] /\ Line'[i].call = calls + 1
      BY <2>2, <2>3, LineGrows
    <3> HIDE DEF Line
    <3>3. Len(Line) + 1 \in 1..Len(Line') /\ Len(Line) + 1 > Len(Line)
          /\ Len(Line) + 1 - Len(Line) = 1
      BY <3>1, <3>2
    <3> QED BY <2>2, <3>1, <3>2, <3>3
  <2>5. /\ Len(frames') = Len(frames) + 1 /\ Len(frames) \in Nat
        /\ \A m \in 1..Len(frames) : frames'[m] = frames[m]
        /\ frames'[Len(frames) + 1].kind = kind /\ frames'[Len(frames) + 1].call = calls + 1
    BY <1>0, <2>1
  <2>6. Well(Line, frames, calls)
    BY DEF NestInv
  <2>7. Well(Line', frames', calls + 1)
    BY <1>0, <2>4, <2>5, <2>6, WellBegins
  <2> QED BY <2>3, <2>7 DEF NestInv
<1>6. CASE Closes
  <2>1. PICK kinds \in Seq(Kinds) : Closing(kinds, Top.kind) /\ Write(kinds, Top.call)
    BY <1>6 DEF Closes
  <2>2. Free /\ UNCHANGED <<said, done, calls>> /\ ~done /\ frames # <<>> /\ frames' = Popped
    BY <1>6 DEF Closes, Phases
  <2>3. Len(frames) \in Nat \ {0} /\ Top = frames[Len(frames)] /\ Top \in Frame
    BY <1>0, <2>2 DEF Top
  <2>4. Top.call \in Nat
    BY <2>3 DEF Frame
  <2>5. /\ Extends(Line, Line') /\ Len(Line') = Len(Line) + Len(kinds)
        /\ \A i \in 1..Len(Line') : i > Len(Line) =>
              /\ i - Len(Line) \in 1..Len(kinds)
              /\ Line'[i].kind = kinds[i - Len(Line)] /\ Line'[i].call = Top.call
    BY <2>1, <2>2, <2>4, LineGrows
  <2>6. Len(Line) \in Nat /\ Len(kinds) \in Nat
    BY LineFacts, <2>1
  <2>7. PICK c \in 1..Len(kinds) :
          /\ kinds[c] \in Ends(StartOf(Top.kind))
          /\ \A i \in 1..Len(kinds) \ {c} : kinds[i] \in {"safety_decision", "edit_applied"}
    BY <2>1 DEF Closing
  <2> DEFINE e == Len(Line) + c
  <2> HIDE DEF Line
  <2>8. e \in (Len(Line) + 1)..Len(Line') /\ e \in 1..Len(Line') /\ e > Len(Line)
        /\ e - Len(Line) = c
    BY <2>5, <2>6
  <2>9. Line'[e].kind \in Ends(StartOf(frames[Len(frames)].kind))
    BY <2>3, <2>5, <2>7, <2>8
  <2>10. ASSUME NEW h \in (Len(Line) + 1)..Len(Line')
         PROVE  /\ Line'[h].call = frames[Len(frames)].call
                /\ h # e => Line'[h].kind \in {"safety_decision", "edit_applied"}
    <3>1. h \in 1..Len(Line') /\ h > Len(Line) /\ (h # e => h - Len(Line) # c)
      BY <2>6
    <3> HIDE DEF e
    <3>2. h - Len(Line) \in 1..Len(kinds) /\ Line'[h].kind = kinds[h - Len(Line)]
      BY <2>5, <3>1
    <3>3. h # e => kinds[h - Len(Line)] \in {"safety_decision", "edit_applied"}
      BY <2>7, <3>1, <3>2
    <3> QED BY <2>3, <2>5, <3>1, <3>2, <3>3
  <2>11. /\ Len(frames') \in Nat /\ Len(frames) = Len(frames') + 1
         /\ \A m \in 1..Len(frames') : frames'[m] = frames[m]
    <3> DEFINE o == Len(frames) - 1
    <3>1. o \in Nat /\ Len(frames) = o + 1 /\ \A i \in 1..o : frames[i] \in Frame
      BY <1>0, <2>3
    <3> HIDE DEF o
    <3>2. /\ SubSeq(frames, 1, o) \in Seq(Frame)
          /\ Len(SubSeq(frames, 1, o)) = IF 1 <= o THEN o - 1 + 1 ELSE 0
          /\ \A i \in 1..(o - 1 + 1) : SubSeq(frames, 1, o)[i] = frames[1 + i - 1]
      BY <3>1, SubSeqProperties
    <3>3. frames' = SubSeq(frames, 1, o)
      BY <2>2 DEF Popped, o
    <3> QED BY <3>1, <3>2, <3>3
  <2>12. Well(Line, frames, calls)
    BY DEF NestInv
  <2> HIDE DEF e
  <2>13. Well(Line', frames', calls)
    <3>1. /\ Extends(Line, Line') /\ e \in (Len(Line) + 1)..Len(Line') /\ calls \in Nat
          /\ \A h \in (Len(Line) + 1)..Len(Line') :
                /\ Line'[h].call = frames[Len(frames)].call
                /\ h # e => Line'[h].kind \in {"safety_decision", "edit_applied"}
      BY <1>0, <2>5, <2>8, <2>10
    <3> QED BY <2>9, <2>11, <2>12, <3>1, WellEnds
  <2> QED BY <2>2, <2>13 DEF NestInv
<1>7. CASE Notes
  <2>1. PICK call \in {0, calls'} : Write(<<"runtime_transition">>, call)
    BY <1>7 DEF Notes
  <2> DEFINE kinds == <<"runtime_transition">>
  <2>2. /\ kinds \in Seq(Kinds) /\ Len(kinds) = 1 /\ call \in Nat /\ call <= calls'
        /\ kinds[1] = "runtime_transition" /\ Write(kinds, call)
    BY <1>0, <2>1, Single DEF Kinds
  <2>3. Free /\ UNCHANGED <<said, frames, done>> /\ calls <= calls'
    BY <1>0, <1>7 DEF Notes
  <2> HIDE DEF kinds
  <2>4. /\ Extends(Line, Line') /\ Len(Line') = Len(Line) + 1
        /\ \A i \in 1..Len(Line') : i > Len(Line) =>
              /\ i - Len(Line) \in 1..Len(kinds)
              /\ Line'[i].kind = kinds[i - Len(Line)] /\ Line'[i].call = call
    BY <2>2, <2>3, LineGrows
  <2>5. Len(Line) \in Nat
    BY LineFacts
  <2>6. Len(todo') = 1 /\ \A i \in 1..Len(todo') : todo'[i].kind = "runtime_transition"
    <3>1. /\ Len(todo') = Len(kinds)
          /\ \A i \in 1..Len(kinds) : todo'[i] = [kind |-> kinds[i], call |-> call]
      BY <2>2, Written
    <3>2. Len(kinds) = 1 /\ \A i \in 1..Len(kinds) : kinds[i] = "runtime_transition"
      BY <2>2
    <3> QED BY <3>1, <3>2
  <2> HIDE DEF Line
  <2>7. ASSUME NEW i \in (Len(Line) + 1)..Len(Line')
        PROVE  Line'[i].kind = "runtime_transition" /\ Line'[i].call <= calls'
    <3>1. i \in 1..Len(Line') /\ i > Len(Line) /\ i - Len(Line) = 1
      BY <2>4, <2>5
    <3> QED BY <2>2, <2>4, <3>1
  <2>8. Well(Line, frames, calls)
    BY DEF NestInv
  <2>9. Well(Line', frames, calls')
    BY <1>0, <2>3, <2>4, <2>7, <2>8, WellNotes
  <2> QED BY <2>3, <2>6, <2>9 DEF NestInv
<1> QED BY <1>1, <1>2, <1>3, <1>4, <1>5, <1>6, <1>7 DEF Shape

\* However a call ends and whenever the task is cancelled: at the end of the
\* task the trace is nested, and what it shows to begin it shows to end once.
THEOREM TracesAreNested == Spec => []StartsAreClosed
<1>1. ASSUME TypeInv, NestInv, done, NEW i \in 1..Len(said), said[i].what.kind \in Starts
      PROVE  \E j \in (i + 1)..Len(said) :
                /\ EndsOf(i) = {j}
                /\ \A k \in (i + 1)..(j - 1) : said[k].what.kind \in Starts =>
                      \E l \in (k + 1)..(j - 1) : EndsOf(k) = {l}
  <2>1. /\ Len(Line) = Len(said) + Len(todo) /\ Len(said) \in Nat /\ Len(todo) \in Nat
        /\ \A k \in 1..Len(said) : Line[k] = said[k].what
        /\ \A k \in 1..Len(Line) : k > Len(said) => Line[k] = todo[k - Len(said)]
    BY <1>1, LineFacts
  <2>2. frames = <<>> /\ \A k \in 1..Len(todo) : todo[k].kind = "runtime_transition"
    BY <1>1 DEF NestInv
  <2> HIDE DEF Line
  <2>3. ASSUME NEW k \in 1..Len(Line), k > Len(said) PROVE Line[k].kind = "runtime_transition"
    <3>1. k - Len(said) \in 1..Len(todo)
      BY <2>1, <2>3
    <3> QED BY <2>1, <2>2, <2>3, <3>1
  <2>4. ASSUME NEW k \in 1..Len(said), said[k].what.kind \in Starts,
               NEW j \in 1..Len(Line), OnlyStop(Line, k, j)
        PROVE  j \in 1..Len(said) /\ EndsOf(k) = {j}
    <3>1. Stops(Line, k, j) /\ Line[k] = said[k].what /\ Begins(Line, k)
      BY <2>1, <2>4 DEF OnlyStop, Begins
    <3>2. j \in 1..Len(said)
      <4>1. Line[j].kind # "runtime_transition"
        BY <3>1, KindFacts DEF Stops, Begins
      <4> QED BY <2>1, <2>3, <4>1
    <3>3. ASSUME NEW h \in 1..Len(said)
          PROVE  (said[h].what.call = said[k].what.call
                    /\ said[h].what.kind \in Ends(said[k].what.kind)) <=> h = j
      <4>1. h \in 1..Len(Line) /\ Line[h] = said[h].what
        BY <2>1
      <4> QED BY <2>4, <3>1, <4>1 DEF OnlyStop, Stops
    <3> QED BY <3>2, <3>3 DEF EndsOf
  <2>5. Closed(Line, i)
    <3>1. i \in 1..Len(Line) /\ Begins(Line, i)
      BY <1>1, <2>1 DEF Begins
    <3>2. 1..Len(frames) = {}
      BY <2>2
    <3> QED BY <1>1, <3>1, <3>2 DEF NestInv, Well
  <2>6. PICK j \in (i + 1)..Len(Line) :
          /\ OnlyStop(Line, i, j)
          /\ \A k \in (i + 1)..(j - 1) :
                Begins(Line, k) => \E l \in (k + 1)..(j - 1) : OnlyStop(Line, k, l)
    BY <2>5 DEF Closed
  <2>7. j \in (i + 1)..Len(said) /\ EndsOf(i) = {j}
    <3>1. j \in 1..Len(Line) /\ j > i
      BY <2>1
    <3>2. j \in 1..Len(said) /\ EndsOf(i) = {j}
      BY <1>1, <2>4, <2>6, <3>1
    <3> QED BY <2>1, <3>1, <3>2
  <2>8. ASSUME NEW k \in (i + 1)..(j - 1), said[k].what.kind \in Starts
        PROVE  \E l \in (k + 1)..(j - 1) : EndsOf(k) = {l}
    <3>1. k \in 1..Len(said) /\ Begins(Line, k)
      <4>1. k \in 1..Len(said)
        BY <2>1, <2>7
      <4> QED BY <2>1, <2>8, <4>1 DEF Begins
    <3>2. PICK l \in (k + 1)..(j - 1) : OnlyStop(Line, k, l)
      BY <2>6, <3>1
    <3>3. l \in 1..Len(Line)
      BY <2>1, <2>7
    <3> QED BY <2>4, <2>8, <3>1, <3>2, <3>3
  <2> QED BY <2>7, <2>8
<1>2. TypeInv /\ NestInv => StartsAreClosed
  BY <1>1 DEF StartsAreClosed
<1>3. CompleteInv => Phases
  BY DEF CompleteInv
<1> QED BY <1>2, <1>3, Shapes, TypeInit, TypeStep, CompleteInit, CompleteStep, NestInit, NestStep,
           PTL DEF Spec

=============================================================================

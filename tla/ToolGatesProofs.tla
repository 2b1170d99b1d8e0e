-------------------------- MODULE ToolGatesProofs --------------------------
(***************************************************************************)
(* For any plan of checks, any limits and any number of edits, calls and   *)
(* changes by other programs: the reducer's record agrees with the ledger  *)
(* and takes every event, no work unit outgrows its budget, looks at what  *)
(* cannot be resolved are bounded at every revision, and the state keeps   *)
(* its types.                                                              *)
(*                                                                         *)
(* The first part says of each event what it does to the record, the rest  *)
(* takes the actions of the loop through the invariant on these facts.     *)
(***************************************************************************)
EXTENDS ToolGates, WellFoundedInduction, TLAPS

-----------------------------------------------------------------------------
(***************************************************************************)
(* The reducer                                                             *)
(***************************************************************************)

LEMMA EditFacts ==
    ASSUME NEW t \in TaskType, NEW n \in Nat
    PROVE  /\ EditApplied(t, n) \in TaskType
           /\ EditApplied(t, n).revision = n /\ EditApplied(t, n).hasEdit = TRUE
           /\ EditApplied(t, n).flags = NoFlags /\ EditApplied(t, n).evidence = None
           /\ EditApplied(t, n).outcome = t.outcome /\ EditApplied(t, n).phase = "validating"
           /\ EditApplied(t, n).unit =
                RecordEdit(IF t.unit = None \/ Closed(t.unit)
                           THEN [edits |-> 0, status |-> "open"] ELSE t.unit)
<1> DEFINE unit == IF t.unit = None \/ Closed(t.unit)
                   THEN [edits |-> 0, status |-> "open"] ELSE t.unit
<1>1. unit \in WorkUnit
  BY DEF TaskType, WorkUnit
<1>2. RecordEdit(unit) \in WorkUnit
  BY <1>1, BudgetPositive DEF RecordEdit, WorkUnit
<1> HIDE DEF unit
<1>3. EditApplied(t, n) = [AtRevision(t, n) EXCEPT
            !.unit = RecordEdit(unit), !.hasEdit = TRUE, !.phase = "validating"]
  BY DEF EditApplied, unit
<1>4. AtRevision(t, n) \in TaskType
  BY DEF AtRevision, TaskType, Flags, NoFlags
<1>5. /\ AtRevision(t, n).revision = n /\ AtRevision(t, n).flags = NoFlags
      /\ AtRevision(t, n).evidence = None /\ AtRevision(t, n).outcome = t.outcome
  BY DEF AtRevision, TaskType
<1>6. /\ EditApplied(t, n) \in TaskType
      /\ EditApplied(t, n).unit = RecordEdit(unit)
  BY <1>2, <1>3, <1>4 DEF TaskType, Phases
<1> QED BY <1>3, <1>4, <1>5, <1>6 DEF TaskType, unit

LEMMA ChangeFacts ==
    ASSUME NEW t \in TaskType, NEW n \in Nat
    PROVE  /\ WorkspaceChanged(t, n) \in TaskType
           /\ WorkspaceChanged(t, n).revision = n /\ WorkspaceChanged(t, n).hasEdit = t.hasEdit
           /\ WorkspaceChanged(t, n).flags = NoFlags /\ WorkspaceChanged(t, n).evidence = None
           /\ WorkspaceChanged(t, n).outcome = t.outcome
           /\ WorkspaceChanged(t, n).phase = "inspecting"
           /\ WorkspaceChanged(t, n).unit # None => Closed(WorkspaceChanged(t, n).unit)
<1>1. /\ FailUnit(t) \in WorkUnit \cup {None}
      /\ FailUnit(t) # None => Closed(FailUnit(t))
  BY DEF FailUnit, TaskType, WorkUnit, Closed
<1> QED BY <1>1 DEF WorkspaceChanged, AtRevision, TaskType, Phases, Flags, NoFlags

LEMMA RollbackFacts ==
    ASSUME NEW t \in TaskType, NEW n \in Nat
    PROVE  /\ RollbackApplied(t, n) \in TaskType
           /\ RollbackApplied(t, n).revision = n /\ RollbackApplied(t, n).hasEdit = t.hasEdit
           /\ RollbackApplied(t, n).flags = NoFlags /\ RollbackApplied(t, n).evidence = None
           /\ RollbackApplied(t, n).outcome = t.outcome
           /\ RollbackApplied(t, n).unit # None => Closed(RollbackApplied(t, n).unit)
<1>1. /\ FailUnit(t) \in WorkUnit \cup {None}
      /\ FailUnit(t) # None => Closed(FailUnit(t))
  BY DEF FailUnit, TaskType, WorkUnit, Closed
<1> QED BY <1>1 DEF RollbackApplied, AtRevision, TaskType, Phases, Flags, NoFlags

LEMMA ObservedFacts ==
    ASSUME NEW t \in TaskType, NEW outcome, NEW flags \in Flags, NEW n \in Nat, NEW m
    PROVE  /\ ValidationObserved(t, outcome, flags, n, m) \in TaskType
           /\ ValidationObserved(t, outcome, flags, n, m).revision = t.revision
           /\ ValidationObserved(t, outcome, flags, n, m).hasEdit = t.hasEdit
           /\ ValidationObserved(t, outcome, flags, n, m).flags = flags
           /\ ValidationObserved(t, outcome, flags, n, m).evidence = n
           /\ ValidationObserved(t, outcome, flags, n, m).outcome = t.outcome
           /\ ValidationObserved(t, outcome, flags, n, m).phase # "done"
           /\ ValidationObserved(t, outcome, flags, n, m).unit = None <=> t.unit = None
           /\ t.unit # None =>
                /\ ValidationObserved(t, outcome, flags, n, m).unit.edits = t.unit.edits
                /\ Closed(t.unit) => Closed(ValidationObserved(t, outcome, flags, n, m).unit)
<1> DEFINE unit == IF t.unit = None \/ Closed(t.unit) THEN t.unit
                   ELSE IF m \in BOOLEAN
                   THEN ResolveMilestone(t.unit, outcome = "passed", m)
                   ELSE [t.unit EXCEPT !.status = "validating"]
<1>1. /\ unit \in WorkUnit \cup {None}
      /\ unit = None <=> t.unit = None
      /\ t.unit # None => unit.edits = t.unit.edits /\ (Closed(t.unit) => Closed(unit))
  <2>1. CASE t.unit = None \/ Closed(t.unit)
    BY <2>1 DEF TaskType
  <2>2. CASE ~(t.unit = None \/ Closed(t.unit)) /\ m \in BOOLEAN
    <3>1. t.unit \in WorkUnit /\ unit = ResolveMilestone(t.unit, outcome = "passed", m)
      BY <2>2 DEF TaskType
    <3>2. /\ ResolveMilestone(t.unit, outcome = "passed", m) \in WorkUnit
          /\ ResolveMilestone(t.unit, outcome = "passed", m).edits = t.unit.edits
      BY <3>1 DEF ResolveMilestone, WorkUnit
    <3> QED BY <2>2, <3>1, <3>2, NoneIsNothing
  <2>3. CASE ~(t.unit = None \/ Closed(t.unit)) /\ m \notin BOOLEAN
    <3>1. t.unit \in WorkUnit /\ unit = [t.unit EXCEPT !.status = "validating"]
      BY <2>3 DEF TaskType
    <3>2. unit \in WorkUnit /\ unit.edits = t.unit.edits
      BY <3>1 DEF WorkUnit
    <3> QED BY <2>3, <3>2, NoneIsNothing
  <2> QED BY <2>1, <2>2, <2>3
<1> HIDE DEF unit
<1>2. ValidationObserved(t, outcome, flags, n, m) =
        [t EXCEPT !.unit = unit, !.flags = flags, !.evidence = n,
                  !.phase = IF outcome = "failed" THEN "fixing" ELSE "validating"]
  BY DEF ValidationObserved, unit
<1> DEFINE phase == IF outcome = "failed" THEN "fixing" ELSE "validating"
           next == [t EXCEPT !.unit = unit, !.flags = flags, !.evidence = n, !.phase = phase]
<1>3. phase \in Phases /\ phase # "done"
  BY DEF Phases
<1> HIDE DEF phase
<1>4. /\ next \in TaskType /\ next.revision = t.revision /\ next.hasEdit = t.hasEdit
      /\ next.flags = flags /\ next.evidence = n /\ next.outcome = t.outcome
      /\ next.phase = phase /\ next.unit = unit
  BY <1>1, <1>3 DEF TaskType
<1>5. ValidationObserved(t, outcome, flags, n, m) = next
  BY <1>2 DEF phase
<1> HIDE DEF next
<1> QED BY <1>1, <1>3, <1>4, <1>5

LEMMA PhaseFacts ==
    ASSUME NEW t \in TaskType, NEW p \in Phases
    PROVE  /\ PhaseChanged(t, p) \in TaskType /\ RecoveryStarted(t) \in TaskType
           /\ PhaseChanged(t, p) = [t EXCEPT !.phase = PhaseChanged(t, p).phase]
           /\ RecoveryStarted(t) = [t EXCEPT !.phase = "fixing"]
BY DEF PhaseChanged, RecoveryStarted, TaskType, Phases

LEMMA EndFacts ==
    ASSUME NEW t \in TaskType, NEW o \in TaskOutcomes
    PROVE  /\ TaskEnded(t, o) \in TaskType
           /\ TaskEnded(t, o) = [t EXCEPT !.outcome = o, !.phase = TaskEnded(t, o).phase]
           /\ o = "blocked" => TaskEnded(t, o).phase = "blocked"
BY DEF TaskEnded, TaskType, Phases, TaskOutcomes

LEMMA FlagsTyped == ASSUME NEW l PROVE FlagsOf(l) \in Flags
BY DEF FlagsOf, Flags

\* A new revision proves nothing.
LEMMA RevisionFacts ==
    ASSUME NEW owned \in BOOLEAN, ledger.revision \in Nat, ledger.hasEdit \in BOOLEAN
    PROVE  /\ FlagsOf(NextRevision(owned)) = NoFlags
           /\ NextRevision(owned).revision = ledger.revision + 1
           /\ NextRevision(owned).hasEdit = (ledger.hasEdit \/ owned)
<1>1. Open(NextRevision(owned)) = DOMAIN plan
  BY DEF Open, NextRevision, NoVerdict, Proven
<1> QED BY <1>1 DEF FlagsOf, NoFlags, NextRevision

-----------------------------------------------------------------------------
(***************************************************************************)
(* The record and the ledger                                               *)
(***************************************************************************)

Accepting == \E c \in DOMAIN plan : plan[c].flag = "accepted"

LedgerType ==
    /\ ledger = [revision |-> ledger.revision, hasEdit |-> ledger.hasEdit,
                 verdict |-> ledger.verdict, unresolved |-> ledger.unresolved]
    /\ ledger.revision \in Nat /\ ledger.hasEdit \in BOOLEAN

Agree(t, l) == t.revision = l.revision /\ t.hasEdit = l.hasEdit /\ t.flags = FlagsOf(l)

\* Evidence is of the record's own revision, and while the task runs it has no
\* outcome that the reducer could object to.
RecordInv ==
    /\ task \in TaskType /\ LedgerType
    /\ pc # "raised" => Agree(task, ledger)
    /\ task.evidence \in {None, task.revision}
    /\ pc \notin {"over", "raised"} => task.outcome = "incomplete"
    /\ Accepting => pc # "raised"

LEMMA FlagsSame ==
    ASSUME UNCHANGED plan
    PROVE  /\ FlagsOf(ledger)' = FlagsOf(ledger') /\ Accepting' = Accepting
           /\ NextCheck(ledger)' = NextCheck(ledger')
BY DEF FlagsOf, Open, Proven, Accepting, NextCheck

LEMMA ReadyIsAccepted ==
    ASSUME NEW l, Ready(l), Accepting PROVE FlagsOf(l).accepted
BY DEF Ready, Accepting, FlagsOf

\* A running task's record is never refused.
LEMMA Emits ==
    ASSUME NEW next \in TaskType, NEW to, next.outcome = "incomplete",
           next.evidence \in {None, next.revision}, Emit(next, to)
    PROVE  task' = next /\ pc' = to
BY DEF Emit, Refused

LEMMA RecordKept ==
    ASSUME NEW next \in TaskType, task' = next, pc' # "raised", LedgerType', UNCHANGED plan,
           Agree(next, ledger'), next.evidence \in {None, next.revision},
           next.outcome = "incomplete"
    PROVE  RecordInv'
BY FlagsSame DEF RecordInv, Agree, Accepting

\* The end of a task, from the record that its last event found.
LEMMA EndKept ==
    ASSUME RecordInv, NEW next \in TaskType, NEW o \in TaskOutcomes,
           Emit(TaskEnded(next, o), "over"), LedgerType', UNCHANGED plan,
           Agree(next, ledger'), next.evidence \in {None, next.revision},
           o = "edited_and_validated" /\ Accepting => next.flags.accepted
    PROVE  RecordInv'
<1>1. /\ TaskEnded(next, o) \in TaskType
      /\ TaskEnded(next, o) = [next EXCEPT !.outcome = o, !.phase = TaskEnded(next, o).phase]
  BY EndFacts
<1> DEFINE t == TaskEnded(next, o)
<1>2. /\ t.revision = next.revision /\ t.hasEdit = next.hasEdit /\ t.flags = next.flags
      /\ t.evidence = next.evidence /\ t.outcome = o
  BY <1>1 DEF TaskType
<1> HIDE DEF t
<1>3. CASE task' = t /\ pc' = "over"
  BY <1>1, <1>2, <1>3, FlagsSame DEF RecordInv, Agree, t
<1>4. CASE Refused(t) /\ task' = task /\ pc' = "raised"
  <2>1. ~Accepting
    BY <1>2, <1>4 DEF Refused
  <2> QED BY <1>4, <2>1, FlagsSame DEF RecordInv
<1> QED BY <1>3, <1>4 DEF Emit, t

LEMMA RunEnds ==
    ASSUME RecordInv, NEW o \in TaskOutcomes, pc # "raised", End(o),
           o = "edited_and_validated" /\ Accepting => FlagsOf(ledger).accepted
    PROVE  RecordInv'
<1>1. UNCHANGED <<ledger, plan>> /\ Emit(TaskEnded(task, o), "over")
  BY DEF End, fixed
<1>2. /\ task \in TaskType /\ Agree(task, ledger) /\ LedgerType
      /\ task.evidence \in {None, task.revision}
  BY DEF RecordInv
<1>3. LedgerType' /\ Agree(task, ledger')
  BY <1>1, <1>2, FlagsSame DEF LedgerType, Agree
<1> QED BY <1>1, <1>2, <1>3, EndKept DEF Agree

\* A step that leaves the ledger alone and moves at most the phase.
LEMMA PhaseKept ==
    ASSUME RecordInv, NEW next \in TaskType, NEW to, pc \notin {"over", "raised"},
           next = [task EXCEPT !.phase = next.phase], Emit(next, to), to # "raised",
           UNCHANGED <<ledger, plan>>
    PROVE  RecordInv'
<1>1. /\ task \in TaskType /\ Agree(task, ledger) /\ LedgerType
      /\ task.evidence \in {None, task.revision} /\ task.outcome = "incomplete"
  BY DEF RecordInv
<1>2. /\ next.revision = task.revision /\ next.hasEdit = task.hasEdit
      /\ next.flags = task.flags /\ next.evidence = task.evidence
      /\ next.outcome = "incomplete"
  BY <1>1 DEF TaskType
<1>3. task' = next /\ pc' = to
  BY <1>1, <1>2, Emits
<1>4. LedgerType' /\ Agree(next, ledger')
  BY <1>1, <1>2, FlagsSame DEF LedgerType, Agree
<1> QED BY <1>1, <1>2, <1>3, <1>4, RecordKept

\* Only an edit of the agent's own makes the ledger say that there is one.
LEMMA Ownership ==
    ASSUME LedgerType, NEW owned \in BOOLEAN, ledger' = NextRevision(owned)
    PROVE  /\ ledger'.revision \in Nat
           /\ owned = TRUE => ledger'.hasEdit = TRUE
           /\ owned = FALSE => ledger'.hasEdit = ledger.hasEdit
<1>1. /\ ledger'.revision = ledger.revision + 1
      /\ ledger'.hasEdit = (ledger.hasEdit \/ owned)
  BY DEF NextRevision
<1>2. ledger.revision \in Nat /\ ledger.hasEdit \in BOOLEAN
  BY DEF LedgerType
<1>3. ledger'.revision \in Nat
  BY <1>1, <1>2
<1>4. owned = TRUE => ledger'.hasEdit = TRUE
  BY <1>1, Zenon
<1>5. owned = FALSE => ledger'.hasEdit = ledger.hasEdit
  BY <1>1, <1>2, Zenon
<1> QED BY <1>3, <1>4, <1>5

\* An event of a new revision, which proves nothing.
LEMMA RevisionKept ==
    ASSUME RecordInv, NEW owned \in BOOLEAN, NEW next \in TaskType, NEW to, to # "raised",
           pc \notin {"over", "raised"},
           ledger' = NextRevision(owned), UNCHANGED plan, Emit(next, to),
           next.revision = ledger'.revision, next.hasEdit = ledger'.hasEdit,
           next.flags = NoFlags, next.evidence \in {None, next.revision},
           next.outcome = "incomplete"
    PROVE  RecordInv'
<1>1. task' = next /\ pc' = to
  BY Emits
<1>2. FlagsOf(ledger') = NoFlags
  BY RevisionFacts DEF RecordInv, LedgerType
<1>3. LedgerType'
  BY DEF LedgerType, NextRevision, RecordInv
<1> QED BY <1>1, <1>2, <1>3, RecordKept DEF Agree

\* What evidence adds to the ledger leaves its revision alone.
LEMMA RecordedFacts ==
    ASSUME LedgerType, NEW c, NEW outcome
    PROVE  LET l == Recorded(c, outcome)
           IN  /\ l.revision = ledger.revision /\ l.hasEdit = ledger.hasEdit
               /\ l = [revision |-> l.revision, hasEdit |-> l.hasEdit,
                       verdict |-> l.verdict, unresolved |-> l.unresolved]
BY DEF LedgerType, Recorded

LEMMA SuccessIsOutcome == \A l : Success(l) \in TaskOutcomes
BY DEF Success, TaskOutcomes

-----------------------------------------------------------------------------
(***************************************************************************)
(* The record follows the ledger                                           *)
(***************************************************************************)

LEMMA RecordInit == Init => RecordInv
<1> SUFFICES ASSUME Init PROVE RecordInv
  OBVIOUS
<1>1. task = TaskStarted(NoFlags) /\ task \in TaskType
  BY DEF Init, TaskStarted, TaskType, Phases, TaskOutcomes, Flags, NoFlags
<1>2. ledger.revision = 0 /\ ledger.hasEdit = FALSE /\ LedgerType
  BY DEF Init, LedgerType
<1>3. Open(ledger) = DOMAIN plan
  BY DEF Init, Open, Proven, NoVerdict
<1>4. FlagsOf(ledger) = NoFlags
  BY <1>3 DEF FlagsOf, NoFlags
<1> QED BY <1>1, <1>2, <1>4 DEF RecordInv, Agree, TaskStarted, Init

\* The evidence of a validation of the current revision.
LEMMA ObservedKept ==
    ASSUME RecordInv, pc \notin {"over", "raised"}, NEW outcome, NEW m,
           LedgerType', UNCHANGED plan, ledger'.revision = ledger.revision,
           ledger'.hasEdit = ledger.hasEdit
    PROVE  LET next == ValidationObserved(task, outcome, FlagsOf(ledger'), ledger.revision, m)
           IN  /\ next \in TaskType /\ Agree(next, ledger') /\ next.evidence = next.revision
               /\ next.outcome = "incomplete"
BY ObservedFacts, FlagsTyped DEF RecordInv, Agree, LedgerType

LEMMA RecordByHarness ==
    ASSUME RecordInv, NEW outcome,
           HarnessRest \/ HarnessBlocked \/ HarnessDone \/ HarnessRun(outcome)
           \/ HarnessDisturbed
    PROVE  RecordInv'
<1> USE DEF fixed
<1>1. CASE HarnessRest
  <2>1. /\ UNCHANGED <<task, plan>> /\ pc = "harness" /\ pc' = "prepare"
        /\ \/ ledger' = ledger
           \/ ledger' = [ledger EXCEPT !.unresolved = @ \cup {NextCheck(ledger)}]
    BY <1>1 DEF HarnessRest
  <2>2. LedgerType /\ Agree(task, ledger) /\ task \in TaskType
        /\ task.evidence \in {None, task.revision} /\ task.outcome = "incomplete"
    BY <2>1 DEF RecordInv
  <2>3. /\ LedgerType' /\ ledger'.revision = ledger.revision
        /\ ledger'.hasEdit = ledger.hasEdit /\ ledger'.verdict = ledger.verdict
    BY <2>1, <2>2 DEF LedgerType
  <2>4. FlagsOf(ledger') = FlagsOf(ledger)
    BY <2>3 DEF FlagsOf, Open
  <2> QED BY <2>1, <2>2, <2>3, <2>4, RecordKept DEF Agree
<1>2. CASE HarnessBlocked
  BY <1>2, RunEnds DEF HarnessBlocked, TaskOutcomes
<1>3. CASE HarnessDone
  BY <1>3, RunEnds, ReadyIsAccepted, SuccessIsOutcome DEF HarnessDone
<1>4. CASE HarnessRun(outcome)
  <2> DEFINE next == ValidationObserved(task, outcome, FlagsOf(ledger'), ledger.revision, None)
             to == IF Proven(ledger'.verdict[NextCheck(ledger)]) THEN "harness" ELSE "prepare"
  <2>1. /\ ledger' = Recorded(NextCheck(ledger), outcome) /\ Emit(next, to)
        /\ pc = "harness" /\ plan' = plan
    BY <1>4 DEF HarnessRun
  <2>2. /\ LedgerType' /\ ledger'.revision = ledger.revision
        /\ ledger'.hasEdit = ledger.hasEdit
    BY <2>1, RecordedFacts DEF RecordInv, LedgerType
  <2>3. /\ next \in TaskType /\ Agree(next, ledger') /\ next.evidence = next.revision
        /\ next.outcome = "incomplete"
    BY <2>1, <2>2, ObservedKept
  <2>4. task' = next /\ pc' = to
    BY <2>1, <2>3, Emits
  <2> HIDE DEF next
  <2> QED BY <2>1, <2>2, <2>3, <2>4, RecordKept
<1>5. CASE HarnessDisturbed
  <2> DEFINE n == ledger'.revision
             next == ValidationObserved(WorkspaceChanged(task, n), "inconclusive",
                                        FlagsOf(ledger'), n, None)
  <2>1. /\ ledger' = NextRevision(FALSE) /\ Emit(next, "prepare") /\ pc = "harness"
        /\ plan' = plan
    BY <1>5 DEF HarnessDisturbed
  <2>2. /\ n \in Nat /\ ledger'.hasEdit = ledger.hasEdit
    BY <2>1, Ownership DEF RecordInv
  <2>3. /\ task.hasEdit = ledger.hasEdit /\ task.outcome = "incomplete" /\ task \in TaskType
    BY <2>1 DEF RecordInv, Agree
  <2>4. /\ next \in TaskType /\ next.revision = n /\ next.hasEdit = ledger'.hasEdit
        /\ next.flags = NoFlags /\ next.evidence = n /\ next.outcome = "incomplete"
    <3>1. FlagsOf(ledger') = NoFlags
      BY <2>1, RevisionFacts DEF RecordInv, LedgerType
    <3> QED BY <2>2, <2>3, <3>1, ChangeFacts, ObservedFacts, FlagsTyped
  <2> HIDE DEF next
  <2> QED BY <2>1, <2>4, RevisionKept
<1> QED BY <1>1, <1>2, <1>3, <1>4, <1>5

LEMMA RecordByTurn ==
    ASSUME RecordInv, NEW n, NEW k,
           Prepare \/ EndBatch \/ ReplyText \/ ReplyBlocked \/ LastText \/ Exhausted
           \/ ReplyCalls(n) \/ Restrict(k) \/ Command(k)
    PROVE  RecordInv'
<1> USE DEF fixed, facts, loop
<1>1. CASE Prepare
  <2>1. /\ pc = "prepare" /\ UNCHANGED <<ledger, plan>>
        /\ \/ Emit(TaskEnded(task, "incomplete"), "over")
           \/ Emit(PhaseChanged(task, "finalizing"), "chat")
           \/ pc' = "chat" /\ UNCHANGED task
    BY <1>1 DEF Prepare
  <2>2. CASE Emit(TaskEnded(task, "incomplete"), "over")
    <3>1. /\ task \in TaskType /\ Agree(task, ledger) /\ LedgerType
          /\ task.evidence \in {None, task.revision}
      BY <2>1 DEF RecordInv
    <3>2. LedgerType' /\ Agree(task, ledger')
      BY <2>1, <3>1, FlagsSame DEF LedgerType, Agree
    <3> QED BY <2>1, <2>2, <3>1, <3>2, EndKept DEF TaskOutcomes
  <2>3. CASE Emit(PhaseChanged(task, "finalizing"), "chat")
    BY <2>1, <2>3, PhaseKept, PhaseFacts DEF RecordInv, Phases
  <2>4. CASE pc' = "chat" /\ UNCHANGED task
    BY <2>1, <2>4, FlagsSame DEF RecordInv, LedgerType, Agree
  <2> QED BY <2>1, <2>2, <2>3, <2>4
<1>2. CASE EndBatch
  <2>1. /\ pc = "batch" /\ UNCHANGED <<ledger, plan>>
        /\ Emit(PhaseChanged(task, "acting"), Turn) \/ (pc' = Turn /\ UNCHANGED task)
    BY <1>2 DEF EndBatch
  <2>2. Turn \notin {"over", "raised"}
    BY DEF Turn
  <2>3. CASE Emit(PhaseChanged(task, "acting"), Turn)
    BY <2>1, <2>2, <2>3, PhaseKept, PhaseFacts DEF RecordInv, Phases
  <2>4. CASE pc' = Turn /\ UNCHANGED task
    BY <2>1, <2>2, <2>4, FlagsSame DEF RecordInv, LedgerType, Agree
  <2> QED BY <2>1, <2>3, <2>4
<1>3. CASE ReplyText \/ ReplyCalls(n) \/ Command(k)
  <2>1. /\ pc \in {"chat", "batch"} /\ UNCHANGED <<task, ledger, plan>>
        /\ pc' \in {"harness", "spent", "batch"}
    BY <1>3 DEF ReplyText, ReplyCalls, Command, Turn, Running
  <2> QED BY <2>1, FlagsSame DEF RecordInv, LedgerType, Agree
<1>4. CASE ReplyBlocked \/ LastText
  BY <1>4, RunEnds DEF ReplyBlocked, LastText, TaskOutcomes
<1>5. CASE Exhausted
  BY <1>5, RunEnds, ReadyIsAccepted, SuccessIsOutcome DEF Exhausted, TaskOutcomes
<1>6. CASE Restrict(k)
  <2> DEFINE next == IF ByAction(k) THEN PhaseChanged(task, "acting") ELSE task
  <2>1. /\ pc = "batch" /\ UNCHANGED <<ledger, plan>> /\ Emit(next, Turn)
    BY <1>6 DEF Restrict, Running
  <2>2. Turn # "raised"
    BY DEF Turn
  <2>3. task \in TaskType
    BY DEF RecordInv
  <2>4. next \in TaskType /\ next = [task EXCEPT !.phase = next.phase]
    BY <2>3, PhaseFacts DEF Phases, TaskType
  <2> HIDE DEF next
  <2> QED BY <2>1, <2>2, <2>4, PhaseKept
<1> QED BY <1>1, <1>2, <1>3, <1>4, <1>5, <1>6

\* A rollback takes back an edit that the ledger knows of; its event does not
\* tell the record that there was one.
UndoInv == undoable => ledger.hasEdit

\* What a step does to the checkpoint of the present revision.
LEMMA WorkMoves ==
    ASSUME [Next]_vars
    PROVE  \/ UNCHANGED work
           \/ undoable' = FALSE /\ touched' = touched
           \/ \E k \in Calls : /\ k.tool \in Edits /\ undoable' = TRUE
                               /\ touched' = touched \cup {k.path}
                               /\ ledger' = NextRevision(TRUE)
<1>1. CASE NoticeChange \/ HarnessDisturbed \/ (\E k \in Calls : RollBack(k))
  BY <1>1 DEF NoticeChange, HarnessDisturbed, RollBack
<1>2. CASE \E k \in Calls, completed \in BOOLEAN : EditApplies(k, completed)
  BY <1>2 DEF EditApplies
<1>3. CASE HarnessRest \/ HarnessBlocked \/ HarnessDone \/ Prepare \/ EndBatch
           \/ ReplyText \/ ReplyBlocked \/ LastText \/ Exhausted \/ Over
           \/ (\E outcome \in {"passed", "failed", "inconclusive"} : HarnessRun(outcome))
           \/ (\E n \in 1..MaxCalls : ReplyCalls(n))
  BY <1>3 DEF HarnessRest, HarnessBlocked, HarnessDone, Prepare, EndBatch, ReplyText,
              ReplyBlocked, LastText, Exhausted, Over, HarnessRun, ReplyCalls, End, vars
<1>4. CASE \/ \E k \in Calls : Restrict(k) \/ Command(k)
           \/ \E k \in Calls, found \in BOOLEAN : Inspect(k, found)
           \/ \E k \in Calls, failure \in {"stale", "symbol", "refused", "other"},
                 preview \in BOOLEAN : EditFails(k, failure, preview)
           \/ \E k \in Calls, outcome \in {"passed", "failed", "inconclusive"},
                 advanced \in BOOLEAN, decision \in {"go", "restart", "stop"} :
                Validate(k, outcome, advanced, decision)
  BY <1>4 DEF Restrict, Command, Inspect, EditFails, Validate
<1>5. CASE UNCHANGED vars
  BY <1>5 DEF vars
<1> QED BY <1>1, <1>2, <1>3, <1>4, <1>5 DEF Next

\* No step makes the ledger forget an edit.
LEMMA EditRemembered ==
    ASSUME LedgerType, ledger.hasEdit, [Next]_vars PROVE ledger'.hasEdit
<1> USE DEF facts, fixed
<1>1. CASE ledger' = ledger
  BY <1>1
<1>2. ASSUME NEW owned \in BOOLEAN, ledger' = NextRevision(owned) PROVE ledger'.hasEdit
  BY <1>2 DEF NextRevision
<1>3. ASSUME NEW c, NEW outcome, ledger' = Recorded(c, outcome) PROVE ledger'.hasEdit
  BY <1>3, RecordedFacts
<1>4. CASE NoticeChange \/ HarnessDisturbed \/ (\E k \in Calls : RollBack(k))
           \/ (\E k \in Calls, completed \in BOOLEAN : EditApplies(k, completed))
  BY <1>2, <1>4 DEF NoticeChange, HarnessDisturbed, RollBack, EditApplies
<1>5. CASE (\E outcome \in {"passed", "failed", "inconclusive"} : HarnessRun(outcome))
           \/ (\E k \in Calls, outcome \in {"passed", "failed", "inconclusive"},
                  advanced \in BOOLEAN, decision \in {"go", "restart", "stop"} :
                 Validate(k, outcome, advanced, decision))
  BY <1>1, <1>3, <1>5 DEF HarnessRun, Validate, AfterRun
<1>6. CASE HarnessRest
  BY <1>6 DEF HarnessRest, LedgerType
<1>7. CASE HarnessBlocked \/ HarnessDone \/ Prepare \/ EndBatch \/ ReplyText
           \/ ReplyBlocked \/ LastText \/ Exhausted \/ Over
           \/ (\E n \in 1..MaxCalls : ReplyCalls(n))
  BY <1>1, <1>7 DEF HarnessBlocked, HarnessDone, Prepare, EndBatch, ReplyText,
                    ReplyBlocked, LastText, Exhausted, Over, ReplyCalls, End, vars
<1>8. CASE \/ \E k \in Calls : Restrict(k) \/ Command(k)
           \/ \E k \in Calls, found \in BOOLEAN : Inspect(k, found)
           \/ \E k \in Calls, failure \in {"stale", "symbol", "refused", "other"},
                 preview \in BOOLEAN : EditFails(k, failure, preview)
  BY <1>1, <1>8 DEF Restrict, Command, Inspect, EditFails
<1>9. CASE UNCHANGED vars
  BY <1>1, <1>9 DEF vars
<1> QED BY <1>4, <1>5, <1>6, <1>7, <1>8, <1>9 DEF Next

LEMMA UndoInit == Init => UndoInv
BY DEF Init, UndoInv

LEMMA UndoStep == RecordInv /\ UndoInv /\ [Next]_vars => UndoInv'
<1> SUFFICES ASSUME RecordInv, UndoInv, [Next]_vars, undoable' PROVE ledger'.hasEdit
  BY DEF UndoInv
<1>1. LedgerType
  BY DEF RecordInv
<1>2. CASE UNCHANGED work
  BY <1>1, <1>2, EditRemembered DEF work, UndoInv
<1>3. CASE ledger' = NextRevision(TRUE)
  BY <1>1, <1>3, Ownership
<1> QED BY <1>2, <1>3, WorkMoves

LEMMA RecordByCall ==
    ASSUME RecordInv, UndoInv, NEW k, NEW found, NEW completed, NEW failure, NEW preview,
           NEW outcome, NEW advanced, NEW decision,
           NoticeChange \/ Inspect(k, found) \/ EditApplies(k, completed)
           \/ EditFails(k, failure, preview) \/ Validate(k, outcome, advanced, decision)
           \/ RollBack(k)
    PROVE  RecordInv'
<1> USE DEF fixed, facts
<1>0. Turn \notin {"over", "raised"}
  BY DEF Turn
<1>1. CASE NoticeChange
  <2> DEFINE next == WorkspaceChanged(task, ledger'.revision)
  <2>1. /\ ledger' = NextRevision(FALSE) /\ Emit(next, "batch") /\ pc = "batch"
        /\ plan' = plan
    BY <1>1 DEF NoticeChange
  <2>2. /\ ledger'.revision \in Nat /\ ledger'.hasEdit = ledger.hasEdit
    BY <2>1, Ownership DEF RecordInv
  <2>3. /\ task.hasEdit = ledger.hasEdit /\ task.outcome = "incomplete" /\ task \in TaskType
    BY <2>1 DEF RecordInv, Agree
  <2>4. /\ next \in TaskType /\ next.revision = ledger'.revision
        /\ next.hasEdit = ledger'.hasEdit /\ next.flags = NoFlags
        /\ next.evidence = None /\ next.outcome = "incomplete"
    BY <2>2, <2>3, ChangeFacts
  <2> HIDE DEF next
  <2> QED BY <2>1, <2>4, RevisionKept
<1>2. CASE Inspect(k, found)
  <2>1. /\ pc = "batch" /\ UNCHANGED <<ledger, plan>>
        /\ Emit(RecoveryStarted(task), Turn) \/ UNCHANGED <<task, pc>>
    BY <1>2 DEF Inspect, Running
  <2>2. CASE Emit(RecoveryStarted(task), Turn)
    <3>1. task \in TaskType
      BY DEF RecordInv
    <3>2. /\ RecoveryStarted(task) \in TaskType
          /\ RecoveryStarted(task) = [task EXCEPT !.phase = RecoveryStarted(task).phase]
      BY <3>1, PhaseFacts DEF RecoveryStarted, TaskType, Phases
    <3> QED BY <1>0, <2>1, <2>2, <3>2, PhaseKept
  <2>3. CASE UNCHANGED <<task, pc>>
    BY <2>1, <2>3, FlagsSame DEF RecordInv, LedgerType, Agree
  <2> QED BY <2>1, <2>2, <2>3
<1>3. CASE EditApplies(k, completed)
  <2> DEFINE next == EditApplied(task, ledger'.revision)
  <2>1. /\ ledger' = NextRevision(TRUE) /\ pc = "batch" /\ plan' = plan
        /\ \E to \in {"batch", Turn} : Emit(next, to)
    BY <1>3 DEF EditApplies, Running
  <2>2. /\ ledger'.revision \in Nat /\ ledger'.hasEdit = TRUE
    BY <2>1, Ownership DEF RecordInv
  <2>3. task.outcome = "incomplete" /\ task \in TaskType
    BY <2>1 DEF RecordInv
  <2>4. /\ next \in TaskType /\ next.revision = ledger'.revision
        /\ next.hasEdit = ledger'.hasEdit /\ next.flags = NoFlags
        /\ next.evidence = None /\ next.outcome = "incomplete"
    BY <2>2, <2>3, EditFacts
  <2> HIDE DEF next
  <2> QED BY <1>0, <2>1, <2>4, RevisionKept
<1>4. CASE EditFails(k, failure, preview)
  <2>1. /\ pc = "batch" /\ UNCHANGED <<ledger, plan>>
        /\ Emit(RecoveryStarted(task), Turn) \/ Emit(PhaseChanged(task, "acting"), "batch")
    BY <1>4 DEF EditFails, Running
  <2>2. task \in TaskType
    BY DEF RecordInv
  <2>3. /\ RecoveryStarted(task) \in TaskType
        /\ RecoveryStarted(task) = [task EXCEPT !.phase = RecoveryStarted(task).phase]
        /\ PhaseChanged(task, "acting") \in TaskType
        /\ PhaseChanged(task, "acting") =
             [task EXCEPT !.phase = PhaseChanged(task, "acting").phase]
    BY <2>2, PhaseFacts DEF RecoveryStarted, TaskType, Phases
  <2> QED BY <1>0, <2>1, <2>3, PhaseKept
<1>5. CASE Validate(k, outcome, advanced, decision)
  <2> DEFINE m == IF k.tool = "check" /\ task.unit # None
                  THEN Open(ledger') = {} ELSE None
             next == ValidationObserved(task, outcome, FlagsOf(ledger'), ledger.revision, m)
  <2>0. Observed(k, outcome, ledger') = next
    BY DEF Observed
  <2>1. /\ ledger' = Recorded(control.check, outcome) \/ ledger' = ledger
        /\ pc = "batch" /\ plan' = plan
        /\ \/ Ready(ledger') /\ Emit(TaskEnded(next, Success(ledger')), "over")
           \/ \E result \in {"blocked", "incomplete"} : Emit(TaskEnded(next, result), "over")
           \/ Emit(next, Turn) \/ Emit(next, "batch")
    BY <1>5, <2>0 DEF Validate, AfterRun, Running
  <2>2. /\ LedgerType' /\ ledger'.revision = ledger.revision
        /\ ledger'.hasEdit = ledger.hasEdit
    BY <2>1, RecordedFacts DEF RecordInv, LedgerType
  <2>3. /\ next \in TaskType /\ Agree(next, ledger') /\ next.evidence = next.revision
        /\ next.outcome = "incomplete"
    BY <2>1, <2>2, ObservedKept
  <2> HIDE DEF next
  <2>4. CASE Ready(ledger') /\ Emit(TaskEnded(next, Success(ledger')), "over")
    <3>1. Accepting => next.flags.accepted
      <4>1. Accepting => FlagsOf(ledger').accepted
        BY <2>4, ReadyIsAccepted
      <4> QED BY <2>3, <4>1 DEF Agree
    <3> QED BY <2>1, <2>2, <2>3, <2>4, <3>1, SuccessIsOutcome, EndKept
  <2>5. CASE \E result \in {"blocked", "incomplete"} : Emit(TaskEnded(next, result), "over")
    BY <2>1, <2>2, <2>3, <2>5, EndKept DEF TaskOutcomes
  <2>6. CASE Emit(next, Turn) \/ Emit(next, "batch")
    <3>1. task' = next /\ pc' # "raised"
      BY <1>0, <2>3, <2>6, Emits
    <3> QED BY <2>1, <2>2, <2>3, <3>1, RecordKept
  <2> QED BY <2>1, <2>4, <2>5, <2>6
<1>6. CASE RollBack(k)
  <2> DEFINE run == AfterRun(k, "failed")
             seen == Observed(k, "failed", run)
             next == RollbackApplied(seen, ledger'.revision)
  <2>1. /\ ledger' = NextRevision(TRUE) /\ Emit(next, Turn) /\ pc = "batch"
        /\ plan' = plan /\ undoable
    BY <1>6 DEF RollBack, Running
  <2>2. /\ ledger'.revision \in Nat /\ ledger'.hasEdit = TRUE
    BY <2>1, Ownership DEF RecordInv
  <2>3. task.outcome = "incomplete" /\ task \in TaskType /\ task.hasEdit = ledger'.hasEdit
    BY <2>1, <2>2 DEF RecordInv, UndoInv, Agree, LedgerType
  <2>4. seen \in TaskType /\ seen.hasEdit = task.hasEdit /\ seen.outcome = "incomplete"
    BY <2>3, ObservedFacts, FlagsTyped DEF Observed, RecordInv, LedgerType
  <2> HIDE DEF run, seen
  <2>5. /\ next \in TaskType /\ next.revision = ledger'.revision
        /\ next.hasEdit = ledger'.hasEdit /\ next.flags = NoFlags
        /\ next.evidence = None /\ next.outcome = "incomplete"
    BY <2>2, <2>3, <2>4, RollbackFacts
  <2> HIDE DEF next
  <2> QED BY <1>0, <2>1, <2>5, RevisionKept
<1> QED BY <1>1, <1>2, <1>3, <1>4, <1>5, <1>6

LEMMA RecordStep == RecordInv /\ UndoInv /\ [Next]_vars => RecordInv'
<1> SUFFICES ASSUME RecordInv, UndoInv, [Next]_vars PROVE RecordInv'
  OBVIOUS
<1>1. CASE UNCHANGED vars
  BY <1>1, FlagsSame DEF vars, facts, loop, fixed, RecordInv, LedgerType, Agree
<1>2. CASE Next
  BY <1>1, <1>2, RecordByHarness, RecordByTurn, RecordByCall DEF Next, Over
<1> QED BY <1>1, <1>2

\* Whoever moved the ledger, an edit, a rollback, a run or another program, the
\* record says of it what it says itself; and the reducer takes every event of a task with an acceptance check.
THEOREM RecordFollowsLedger == Spec => []StateFollowsLedger
<1>1. RecordInv => StateFollowsLedger
  BY DEF RecordInv, StateFollowsLedger, Agree, Accepting
<1> QED BY <1>1, RecordInit, RecordStep, UndoInit, UndoStep, PTL DEF Spec

-----------------------------------------------------------------------------
(***************************************************************************)
(* The work unit is bounded                                                *)
(***************************************************************************)

\* The edits since the last closing are those of the open unit at most.
UnitInv ==
    /\ spree \in Nat
    /\ IF Unclosed(task) THEN task.unit.edits \in spree .. EditBudget ELSE spree = 0

LEMMA UnitKept ==
    ASSUME UnitInv, task'.unit = task.unit, spree' = spree
    PROVE  UnitInv'
BY DEF UnitInv, Unclosed, Closed

\* The unit of every event but an edit, a change and a validation.
LEMMA UnitUnmoved ==
    ASSUME NEW t \in TaskType, NEW o \in TaskOutcomes, NEW p \in Phases
    PROVE  /\ TaskEnded(t, o).unit = t.unit /\ PhaseChanged(t, p).unit = t.unit
           /\ RecoveryStarted(t).unit = t.unit
<1>1. TaskEnded(t, o).unit = t.unit
  BY DEF TaskEnded, TaskType
<1>2. PhaseChanged(t, p).unit = t.unit /\ RecoveryStarted(t).unit = t.unit
  BY DEF PhaseChanged, RecoveryStarted, TaskType
<1> QED BY <1>1, <1>2

LEMMA EmitMoves ==
    ASSUME NEW next, NEW to, Emit(next, to) PROVE task' \in {task, next}
BY DEF Emit

\* A validation closes a unit or leaves its edits.
LEMMA UnitObserved ==
    ASSUME UnitInv, task \in TaskType, NEW outcome, NEW flags \in Flags, NEW n \in Nat, NEW m,
           LET next == ValidationObserved(task, outcome, flags, n, m)
           IN  /\ task' \in {task, next} \/ task'.unit = next.unit
               /\ spree' = IF Unclosed(next) THEN spree ELSE 0
    PROVE  UnitInv'
<1> DEFINE next == ValidationObserved(task, outcome, flags, n, m)
<1>1. /\ next.unit = None <=> task.unit = None
      /\ task.unit # None => /\ next.unit.edits = task.unit.edits
                             /\ Closed(task.unit) => Closed(next.unit)
      /\ task.unit # None => task.unit.edits \in Nat
  BY ObservedFacts DEF TaskType, WorkUnit
<1>2. /\ task' \in {task, next} \/ task'.unit = next.unit
      /\ spree' = IF Unclosed(next) THEN spree ELSE 0
  OBVIOUS
<1> HIDE DEF next
<1>3. CASE Unclosed(next)
  BY <1>1, <1>2, <1>3 DEF UnitInv, Unclosed
<1>4. CASE ~Unclosed(next)
  <2>1. spree' = 0
    BY <1>2, <1>4
  <2>2. task'.unit = task.unit \/ task'.unit = next.unit
    BY <1>2
  <2> QED BY <1>1, <1>4, <2>1, <2>2, BudgetPositive DEF UnitInv, Unclosed
<1> QED BY <1>3, <1>4

LEMMA UnitInit == Init => UnitInv
BY DEF Init, UnitInv, Unclosed, TaskStarted

LEMMA UnitStep == RecordInv /\ UnitInv /\ [Next]_vars => UnitInv'
<1> SUFFICES ASSUME RecordInv, UnitInv, [Next]_vars PROVE UnitInv'
  OBVIOUS
<1> USE DEF history
<1>0. task \in TaskType
  BY DEF RecordInv
<1>1. CASE UNCHANGED vars
  BY <1>1, UnitKept DEF vars, facts
<1>2. CASE HarnessRest \/ ReplyText \/ Over \/ (\E n \in 1..MaxCalls : ReplyCalls(n))
           \/ (\E k \in Calls : Command(k))
  <2>1. UNCHANGED <<task, spree>>
    BY <1>2 DEF HarnessRest, ReplyText, Over, ReplyCalls, Command, facts, vars
  <2> QED BY <2>1, UnitKept
<1>3. CASE HarnessBlocked \/ HarnessDone \/ ReplyBlocked \/ LastText \/ Exhausted
  <2>1. PICK o \in TaskOutcomes : End(o)
    BY <1>3, SuccessIsOutcome
       DEF HarnessBlocked, HarnessDone, ReplyBlocked, LastText, Exhausted, TaskOutcomes
  <2>2. task' \in {task, TaskEnded(task, o)} /\ spree' = spree
    BY <2>1, EmitMoves DEF End
  <2> QED BY <1>0, <2>2, UnitUnmoved, UnitKept DEF Phases
<1>4. CASE Prepare \/ EndBatch \/ (\E k \in Calls : Restrict(k))
           \/ (\E k \in Calls, found \in BOOLEAN : Inspect(k, found))
           \/ (\E k \in Calls, failure \in {"stale", "symbol", "refused", "other"},
                  preview \in BOOLEAN : EditFails(k, failure, preview))
  <2>1. /\ spree' = spree
        /\ task' \in {task, TaskEnded(task, "incomplete"), RecoveryStarted(task)}
                     \cup {PhaseChanged(task, p) : p \in Phases}
    <3>1. CASE Prepare
      BY <3>1, EmitMoves DEF Prepare, Phases
    <3>2. CASE EndBatch
      BY <3>2, EmitMoves DEF EndBatch, Phases
    <3>3. CASE \E k \in Calls : Restrict(k)
      BY <3>3, EmitMoves DEF Restrict, Phases
    <3>4. CASE \E k \in Calls, found \in BOOLEAN : Inspect(k, found)
      BY <3>4, EmitMoves DEF Inspect
    <3>5. CASE \E k \in Calls, failure \in {"stale", "symbol", "refused", "other"},
                  preview \in BOOLEAN : EditFails(k, failure, preview)
      BY <3>5, EmitMoves DEF EditFails, Phases
    <3> QED BY <1>4, <3>1, <3>2, <3>3, <3>4, <3>5
  <2>2. task'.unit = task.unit
    BY <1>0, <2>1, UnitUnmoved DEF TaskOutcomes, Phases
  <2> QED BY <2>1, <2>2, UnitKept
<1>5. CASE NoticeChange
  <2> DEFINE next == WorkspaceChanged(task, ledger'.revision)
  <2>1. task' \in {task, next} /\ spree' = 0
    BY <1>5, EmitMoves DEF NoticeChange
  <2>2. next.unit # None => Closed(next.unit)
    BY <1>0 DEF WorkspaceChanged, AtRevision, FailUnit, Closed, TaskType, WorkUnit
  <2>3. task.unit # None => task.unit.edits \in Nat
    BY <1>0 DEF TaskType, WorkUnit
  <2> HIDE DEF next
  <2> QED BY <2>1, <2>2, <2>3 DEF UnitInv, Unclosed
<1>6. CASE HarnessDisturbed
  <2> DEFINE changed == WorkspaceChanged(task, ledger'.revision)
             next == ValidationObserved(changed, "inconclusive", FlagsOf(ledger'),
                                        ledger'.revision, None)
  <2>1. task' \in {task, next} /\ spree' = 0 /\ ledger' = NextRevision(FALSE)
    BY <1>6, EmitMoves DEF HarnessDisturbed
  <2>2. ledger'.revision \in Nat
    BY <2>1, Ownership DEF RecordInv
  <2>3. changed \in TaskType /\ (changed.unit # None => Closed(changed.unit))
    BY <1>0, <2>2, ChangeFacts
  <2>4. next.unit # None => Closed(next.unit)
    BY <2>2, <2>3, ObservedFacts, FlagsTyped
  <2>5. task.unit # None => task.unit.edits \in Nat
    BY <1>0 DEF TaskType, WorkUnit
  <2> HIDE DEF next
  <2> QED BY <2>1, <2>4, <2>5 DEF UnitInv, Unclosed
<1>7. ASSUME NEW outcome \in {"passed", "failed", "inconclusive"}, HarnessRun(outcome)
      PROVE  UnitInv'
  <2> DEFINE next == ValidationObserved(task, outcome, FlagsOf(ledger'), ledger.revision, None)
  <2>1. task' \in {task, next} /\ spree' = spree
    BY <1>7, EmitMoves DEF HarnessRun
  <2>2. ledger.revision \in Nat /\ FlagsOf(ledger') \in Flags
    BY FlagsTyped DEF RecordInv, LedgerType
  <2>3. Unclosed(task) => Unclosed(next)
    BY <1>0, NoneIsNothing
       DEF ValidationObserved, Unclosed, Closed, TaskType, WorkUnit
  <2>4. spree' = IF Unclosed(next) THEN spree ELSE 0
    BY <2>1, <2>3 DEF UnitInv
  <2> QED BY <1>0, <2>1, <2>2, <2>4, UnitObserved
<1>8. ASSUME NEW k \in Calls, NEW completed \in BOOLEAN, EditApplies(k, completed)
      PROVE  UnitInv'
  <2> DEFINE next == EditApplied(task, ledger'.revision)
             unit == IF task.unit = None \/ Closed(task.unit)
                     THEN [edits |-> 0, status |-> "open"] ELSE task.unit
  <2>1. /\ spree' = spree + 1 /\ ledger' = NextRevision(TRUE) /\ ~EditsHeld(task)
        /\ \E to \in {"batch", Turn} : Emit(next, to)
    BY <1>8 DEF EditApplies, Restricted, MilestoneGate
  <2>2. ledger'.revision \in Nat
    BY <2>1, Ownership DEF RecordInv
  <2>3. /\ next \in TaskType /\ next.unit = RecordEdit(unit) /\ next.evidence = None
        /\ next.phase = "validating"
    BY <1>0, <2>2, EditFacts
  <2>4. task' = next
    BY <2>1, <2>3 DEF Emit, Refused
  <2>5. unit \in WorkUnit /\ spree <= unit.edits /\ unit.edits < EditBudget
    BY <1>0, <2>1, BudgetPositive
       DEF UnitInv, Unclosed, EditsHeld, MilestoneDue, TaskType, WorkUnit
  <2> HIDE DEF unit, next
  <2>6. /\ RecordEdit(unit).edits = unit.edits + 1 /\ RecordEdit(unit) \in WorkUnit
        /\ ~Closed(RecordEdit(unit))
    BY <2>5 DEF RecordEdit, Closed, WorkUnit
  <2>7. unit.edits \in Nat
    BY <2>5 DEF WorkUnit
  <2> QED BY <2>1, <2>3, <2>4, <2>5, <2>6, <2>7, BudgetPositive, NoneIsNothing
          DEF UnitInv, Unclosed
<1>9. ASSUME NEW k \in Calls, NEW outcome \in {"passed", "failed", "inconclusive"},
             NEW advanced \in BOOLEAN, NEW decision \in {"go", "restart", "stop"},
             Validate(k, outcome, advanced, decision)
      PROVE  UnitInv'
  <2> DEFINE m == IF k.tool = "check" /\ task.unit # None
                  THEN Open(ledger') = {} ELSE None
             next == ValidationObserved(task, outcome, FlagsOf(ledger'), ledger.revision, m)
  <2>1. /\ spree' = IF Unclosed(next) THEN spree ELSE 0
        /\ \/ \E o \in TaskOutcomes : Emit(TaskEnded(next, o), "over")
           \/ Emit(next, Turn) \/ Emit(next, "batch")
    <3>1. Observed(k, outcome, ledger') = next
      BY DEF Observed
    <3> QED BY <1>9, <3>1, SuccessIsOutcome DEF Validate, TaskOutcomes
  <2>2. ledger.revision \in Nat /\ FlagsOf(ledger') \in Flags
    BY FlagsTyped DEF RecordInv, LedgerType
  <2>3. next \in TaskType
    BY <1>0, <2>2, ObservedFacts
  <2>4. task' \in {task, next} \/ task'.unit = next.unit
    <3> HIDE DEF next
    <3> QED BY <2>1, <2>3, EmitMoves, UnitUnmoved DEF Phases
  <2> HIDE DEF m
  <2> QED BY <1>0, <2>1, <2>2, <2>4, UnitObserved
<1>10. ASSUME NEW k \in Calls, RollBack(k)
       PROVE  UnitInv'
  <2> DEFINE seen == Observed(k, "failed", AfterRun(k, "failed"))
             next == RollbackApplied(seen, ledger'.revision)
  <2>1. /\ task' \in {task, next} /\ ledger' = NextRevision(TRUE)
        /\ spree' = IF Unclosed(next) THEN spree ELSE 0
    BY <1>10, EmitMoves DEF RollBack
  <2>2. ledger'.revision \in Nat /\ ledger.revision \in Nat
    BY <2>1, Ownership DEF RecordInv, LedgerType
  <2>3. seen \in TaskType
    BY <1>0, <2>2, ObservedFacts, FlagsTyped DEF Observed
  <2> HIDE DEF seen
  <2>4. next.unit # None => Closed(next.unit)
    BY <2>2, <2>3, RollbackFacts
  <2>5. task.unit # None => task.unit.edits \in Nat
    BY <1>0 DEF TaskType, WorkUnit
  <2> HIDE DEF next
  <2> QED BY <2>1, <2>4, <2>5 DEF UnitInv, Unclosed
<1>11. CASE Next
  BY <1>2, <1>3, <1>4, <1>5, <1>6, <1>7, <1>8, <1>9, <1>10, <1>11 DEF Next
<1> QED BY <1>1, <1>11

\* However validations of the harness and of the model come between, no more
\* than edit_budget edits are applied until a milestone, a rollback or another
\* program's change closes the unit.
THEOREM WorkUnitsAreBounded == Spec => []UnitBounded
<1>2. UnitInv => UnitBounded
  <2> SUFFICES ASSUME UnitInv PROVE spree <= EditBudget
    BY DEF UnitBounded
  <2>1. CASE Unclosed(task)
    BY <2>1, BudgetPositive DEF UnitInv
  <2>2. CASE ~Unclosed(task)
    BY <2>2, BudgetPositive DEF UnitInv
  <2> QED BY <2>1, <2>2
<1> QED BY <1>2, UnitInit, RecordInit, RecordStep, UndoInit, UndoStep, UnitStep, PTL DEF Spec

-----------------------------------------------------------------------------
(***************************************************************************)
(* Looks at what cannot be resolved are bounded                            *)
(***************************************************************************)

ControlType ==
    /\ control = [phase |-> control.phase, check |-> control.check,
                  status |-> control.status, required |-> control.required,
                  looks |-> control.looks, idle |-> control.idle,
                  probes |-> control.probes]
    /\ control.probes \in Nat

\* The controller holds c unresolved; and so do the ledger and the resolver now.
Held(c) == control.check = c /\ control.status = "target_unresolved"
Due(c) == c = NextCheck(ledger) /\ bound[c] = "target_unresolved"

\* A check that has had its look is not given one on the same grant, unless the
\* first look was on a grant from before the revision; a second look leaves it
\* the check that is due, and nothing but a new revision takes that from it.
ProbeInv ==
    /\ ControlType /\ probes \in [DOMAIN plan -> Nat] /\ None \notin DOMAIN plan
    /\ \A c \in DOMAIN plan :
         /\ probes[c] \in 0..2
         /\ probes[c] >= 1 /\ Held(c) => control.probes >= 1 \/ Due(c)
         /\ probes[c] = 2 => Held(c) /\ Due(c) /\ control.probes >= 1

\* The controller's grant is the same.
SameGrant == /\ ControlType' /\ control'.check = control.check
             /\ control'.status = control.status /\ control'.probes = control.probes

LEMMA SeenFacts ==
    ASSUME ControlType, NEW k, NEW advanced, NEW r
    PROVE  /\ control' = Seen(control, k, advanced) => SameGrant
           /\ control' = Seen([control EXCEPT !.required = r], k, advanced) => SameGrant
           /\ control' = Seen(Seen(control, k, FALSE), k, FALSE) => SameGrant
           /\ control' = [control EXCEPT !.required = r] => SameGrant
           /\ control' = control => SameGrant
BY DEF ControlType, Seen, SameGrant

LEMMA GrantUsed ==
    ASSUME ControlType, NEW k, NEW n \in Nat,
           control' = Seen([control EXCEPT !.probes = n], k, FALSE)
    PROVE  /\ ControlType' /\ control'.check = control.check
           /\ control'.status = control.status /\ control'.probes = n
BY DEF ControlType, Seen

LEMMA ProbesReset ==
    ASSUME ProbeInv, SameGrant, UNCHANGED plan, probes' = [c \in DOMAIN plan |-> 0]
    PROVE  ProbeInv'
BY DEF ProbeInv, SameGrant

LEMMA NextCheckKept ==
    ASSUME UNCHANGED plan, ledger'.verdict = ledger.verdict
    PROVE  NextCheck(ledger)' = NextCheck(ledger)
<1>1. Open(ledger') = Open(ledger)
  BY DEF Open
<1>2. NextCheck(ledger') = NextCheck(ledger)
  BY <1>1 DEF NextCheck
<1> QED BY <1>2, FlagsSame

LEMMA ProbesUnmoved ==
    ASSUME ProbeInv, SameGrant, UNCHANGED <<plan, bound, probes>>,
           ledger'.verdict = ledger.verdict
    PROVE  ProbeInv'
BY NextCheckKept DEF ProbeInv, SameGrant, Held, Due

\* Evidence is recorded for a check that the controller holds resolved, or that
\* is resolved when it is due.
LEMMA ProbesRecorded ==
    ASSUME ProbeInv, SameGrant, UNCHANGED <<plan, bound, probes>>,
           control.status = "resolved" \/ bound[NextCheck(ledger)] = "resolved"
    PROVE  ProbeInv'
<1> SUFFICES ASSUME NEW c \in DOMAIN plan
             PROVE  /\ probes[c] \in 0..2 /\ probes[c] # 2
                    /\ probes[c] >= 1 /\ Held(c) => control.probes >= 1
  BY DEF ProbeInv, SameGrant, Held
<1>1. ~(Held(c) /\ Due(c))
  BY DEF Held, Due
<1> QED BY <1>1 DEF ProbeInv, Held, Due

LEMMA ProbeInit == Init => ProbeInv
<1> SUFFICES ASSUME Init PROVE ProbeInv
  OBVIOUS
<1>1. ControlType /\ probes = [c \in DOMAIN plan |-> 0]
  BY DEF Init, ControlType
<1>2. PICK t \in InitialTasks : plan = t.plan
  BY DEF Init
<1>3. plan \in Seq([flag : Purposes, semantic : BOOLEAN])
  BY <1>2, TasksTyped
<1>4. None \notin DOMAIN plan
  BY <1>3, NoneIsNothing
<1> QED BY <1>1, <1>4 DEF ProbeInv

LEMMA ProbeStep == ProbeInv /\ [Next]_vars => ProbeInv'
<1> SUFFICES ASSUME ProbeInv, [Next]_vars PROVE ProbeInv'
  OBVIOUS
<1> USE DEF facts, fixed, gates, history
<1>0. ControlType
  BY DEF ProbeInv
<1>1. CASE UNCHANGED vars
  BY <1>0, <1>1, SeenFacts, ProbesUnmoved DEF vars
<1>2. CASE Over \/ (\E n \in 1..MaxCalls : ReplyCalls(n)) \/ HarnessBlocked \/ HarnessDone
           \/ ReplyBlocked \/ LastText \/ Exhausted
  <2>1. UNCHANGED <<plan, bound, probes, ledger, control>>
    BY <1>2 DEF Over, vars, ReplyCalls, HarnessBlocked, HarnessDone, ReplyBlocked,
                LastText, Exhausted, End
  <2> QED BY <1>0, <2>1, SeenFacts, ProbesUnmoved
<1>3. CASE HarnessRest
  <2>1. UNCHANGED <<plan, bound, probes, control>>
    BY <1>3 DEF HarnessRest
  <2>2. ledger'.verdict = ledger.verdict
    BY <1>3 DEF HarnessRest
  <2> QED BY <1>0, <2>1, <2>2, SeenFacts, ProbesUnmoved
<1>4. CASE ReplyText \/ EndBatch \/ (\E k \in Calls : Restrict(k) \/ Command(k))
           \/ (\E k \in Calls, failure \in {"stale", "symbol", "refused", "other"},
                  preview \in BOOLEAN : EditFails(k, failure, preview))
  <2>1. UNCHANGED <<plan, bound, probes, ledger>>
    BY <1>4 DEF ReplyText, EndBatch, Restrict, Command, EditFails
  <2>2. SameGrant
    BY <1>0, <1>4, SeenFacts DEF ReplyText, EndBatch, Restrict, Command, EditFails
  <2> QED BY <2>1, <2>2, ProbesUnmoved
<1>5. CASE NoticeChange \/ HarnessDisturbed \/ (\E k \in Calls : RollBack(k))
           \/ (\E k \in Calls, completed \in BOOLEAN : EditApplies(k, completed))
  <2>1. plan' = plan /\ probes' = [c \in DOMAIN plan |-> 0]
    BY <1>5 DEF NoticeChange, HarnessDisturbed, RollBack, EditApplies, Rebound
  <2>2. SameGrant
    BY <1>0, <1>5, SeenFacts DEF NoticeChange, HarnessDisturbed, RollBack, EditApplies
  <2> QED BY <2>1, <2>2, ProbesReset
<1>6. ASSUME NEW outcome \in {"passed", "failed", "inconclusive"}, HarnessRun(outcome)
      PROVE  ProbeInv'
  <2>1. UNCHANGED <<plan, bound, probes, control>>
    BY <1>6 DEF HarnessRun
  <2>2. bound[NextCheck(ledger)] = "resolved"
    <3>1. Declined = "runs"
      BY <1>6 DEF HarnessRun
    <3> QED BY <3>1 DEF Declined
  <2> QED BY <1>0, <2>1, <2>2, SeenFacts, ProbesRecorded
<1>7. ASSUME NEW k \in Calls, NEW outcome \in {"passed", "failed", "inconclusive"},
             NEW advanced \in BOOLEAN, NEW decision \in {"go", "restart", "stop"},
             Validate(k, outcome, advanced, decision)
      PROVE  ProbeInv'
  <2>1. /\ UNCHANGED <<plan, bound, probes>> /\ control' = Seen(control, k, advanced)
        /\ control.status = "resolved" \/ ledger' = ledger
    BY <1>7 DEF Validate, AfterRun, Running
  <2>2. SameGrant
    BY <1>0, <2>1, SeenFacts
  <2> QED BY <2>1, <2>2, ProbesRecorded, ProbesUnmoved
<1>8. CASE Prepare
  <2>1. /\ UNCHANGED <<plan, bound, probes, ledger>>
        /\ \/ control' = control
           \/ control' = Updated(NextCheck(ledger),
                                 IF NextCheck(ledger) = None THEN "none"
                                 ELSE bound[NextCheck(ledger)])
    BY <1>8 DEF Prepare
  <2>2. CASE control' = control
    BY <1>0, <2>1, <2>2, SeenFacts, ProbesUnmoved
  <2>3. ASSUME NEW status,
               status = IF NextCheck(ledger) = None THEN "none" ELSE bound[NextCheck(ledger)],
               control' = Updated(NextCheck(ledger), status)
        PROVE  ProbeInv'
    <3>1. /\ ControlType' /\ control'.check = NextCheck(ledger) /\ control'.status = status
          /\ control'.check = control.check /\ control'.status = control.status
               => control'.probes = control.probes
      BY <1>0, <2>3 DEF Updated, ControlType
    <3>2. NextCheck(ledger)' = NextCheck(ledger)
      BY <2>1, NextCheckKept
    <3> SUFFICES ASSUME NEW c \in DOMAIN plan
                 PROVE  /\ Held(c)' => Due(c)'
                        /\ probes[c] = 2 => Held(c)' /\ Due(c)' /\ control'.probes >= 1
      BY <2>1, <3>1 DEF ProbeInv
    <3>3. Held(c)' => Due(c)'
      BY <2>1, <2>3, <3>1, <3>2 DEF Held, Due
    <3>4. ASSUME probes[c] = 2
          PROVE  Held(c)' /\ Due(c)' /\ control'.probes >= 1
      BY <2>1, <2>3, <3>1, <3>2, <3>4 DEF ProbeInv, Held, Due
    <3> QED BY <3>3, <3>4
  <2> QED BY <2>1, <2>2, <2>3
<1>9. ASSUME NEW k \in Calls, NEW found \in BOOLEAN, Inspect(k, found)
      PROVE  ProbeInv'
  <2>1. CASE ~Unresolved
    <3>1. UNCHANGED <<plan, bound, probes, ledger>> /\ [control EXCEPT !.probes = @] = control
      BY <1>0, <1>9, <2>1 DEF Inspect, ControlType
    <3>2. control' = Seen(control, k, FALSE)
      BY <1>9, <2>1, <3>1 DEF Inspect
    <3> QED BY <1>0, <3>1, <3>2, SeenFacts, ProbesUnmoved
  <2>2. CASE Unresolved
    <3>1. /\ UNCHANGED <<plan, bound, ledger>>
          /\ probes' = [probes EXCEPT ![control.check] = @ + 1]
          /\ control' = Seen([control EXCEPT !.probes = @ + 1], k, FALSE)
      BY <1>9, <2>2 DEF Inspect
    <3>2. ~(control.probes >= 1) /\ control.status = "target_unresolved"
      BY <1>9, <2>2
         DEF Inspect, Restricted, ActionGate, ProbeGate, Unresolved
    <3>3. /\ ControlType' /\ control'.probes = 1
          /\ control'.check = control.check /\ control'.status = control.status
      <4>1. control.probes + 1 = 1
        BY <1>0, <3>2 DEF ControlType
      <4>2. control' = Seen([control EXCEPT !.probes = 1], k, FALSE)
        BY <3>1, <4>1
      <4> QED BY <1>0, <4>2, GrantUsed
    <3>4. plan' = plan /\ bound' = bound /\ NextCheck(ledger)' = NextCheck(ledger)
      BY <3>1, NextCheckKept
    <3>5. \A c \in DOMAIN plan : probes[c] \in Nat
      BY DEF ProbeInv
    <3>6. probes' = [c \in DOMAIN plan |->
                        IF c = control.check THEN probes[c] + 1 ELSE probes[c]]
      BY <3>1 DEF ProbeInv
    <3>7. probes' \in [(DOMAIN plan)' -> Nat] /\ None \notin (DOMAIN plan)'
      BY <3>4, <3>5, <3>6 DEF ProbeInv
    <3> SUFFICES ASSUME NEW c \in DOMAIN plan
                 PROVE  /\ probes'[c] \in 0..2
                        /\ probes'[c] = 2 => Held(c)' /\ Due(c)'
      BY <3>3, <3>4, <3>7 DEF ProbeInv
    <3>8. probes[c] \in 0..1 /\ (probes[c] = 1 /\ Held(c) => Due(c))
      BY <3>2 DEF ProbeInv
    <3>9. CASE control.check = c
      BY <3>2, <3>3, <3>4, <3>6, <3>9, <3>8 DEF Held, Due
    <3>10. CASE control.check # c
      BY <3>6, <3>10, <3>8
    <3> QED BY <3>9, <3>10
  <2> QED BY <2>1, <2>2
<1>10. CASE Next
  BY <1>2, <1>3, <1>4, <1>5, <1>6, <1>7, <1>8, <1>9, <1>10 DEF Next
<1> QED BY <1>1, <1>10

\* However checks, revisions and turns follow each other, a check that cannot
\* be resolved is given at most two looks at one revision.
THEOREM ProbesAreBounded == Spec => []ProbesBounded
<1>2. ProbeInv => ProbesBounded
  BY DEF ProbeInv, ProbesBounded
<1> QED BY <1>2, ProbeInit, ProbeStep, PTL DEF Spec

-----------------------------------------------------------------------------
(***************************************************************************)
(* Types                                                                   *)
(***************************************************************************)

\* A set of natural numbers that is not empty has a least one.
LEMMA LeastOf ==
    ASSUME NEW S \in SUBSET Nat, S # {}
    PROVE  \E n \in S : \A k \in S : n <= k
<1>1. \E n \in S : \A k \in S : ~ (<<k, n>> \in OpToRel(<, Nat))
  BY WFMin, NatLessThanWellFounded
<1>2. ASSUME NEW n \in S, NEW k \in S, k < n PROVE <<k, n>> \in OpToRel(<, Nat)
  <2>1. <<k, n>> \in Nat \X Nat /\ <<k, n>>[1] = k /\ <<k, n>>[2] = n
    OBVIOUS
  <2> QED BY <1>2, <2>1 DEF OpToRel
<1>3. PICK n \in S : \A k \in S : ~ (k < n)
  BY <1>1, <1>2
<1> QED BY <1>3

\* The limit of the controller's counters is one of the policy's numbers.
LEMMA MostIsNatural == Most \in Nat
<1> DEFINE S == {Patience[m] : m \in Modes} \cup {InspectLimit}
<1>1. /\ Patience["fast"] \in Nat /\ Patience["standard"] \in Nat
      /\ Patience["complex"] \in Nat /\ InspectLimit \in Nat
  BY PolicyPerMode, StepsPositive DEF Modes
<1>2. S = {Patience["fast"], Patience["standard"], Patience["complex"], InspectLimit}
  BY DEF Modes
<1>3. \E n \in S : \A k \in S : k <= n
  BY <1>1, <1>2
<1>4. Most \in S
  BY <1>3 DEF Most
<1> QED BY <1>1, <1>2, <1>4

\* The check that is due is one of the plan, wherever a check is open.
LEMMA NextCheckTyped ==
    ASSUME plan \in {t.plan : t \in InitialTasks}, NEW l
    PROVE  NextCheck(l) \in DOMAIN plan \cup {None}
<1>1. PICK t \in InitialTasks : plan = t.plan
  OBVIOUS
<1>2. plan \in Seq([flag : Purposes, semantic : BOOLEAN])
  BY <1>1, TasksTyped
<1>3. DOMAIN plan = 1 .. Len(plan) /\ Len(plan) \in Nat
  BY <1>2
<1>4. Open(l) \in SUBSET Nat /\ Open(l) \subseteq DOMAIN plan
  BY <1>3 DEF Open
<1>5. CASE Open(l) = {}
  BY <1>5 DEF NextCheck
<1>6. CASE Open(l) # {}
  <2>1. \E c \in Open(l) : \A d \in Open(l) : c <= d
    BY <1>4, <1>6, LeastOf
  <2>2. NextCheck(l) = CHOOSE c \in Open(l) : \A d \in Open(l) : c <= d
    BY <1>6 DEF NextCheck
  <2>3. NextCheck(l) \in Open(l)
    BY <2>1, <2>2
  <2> QED BY <1>4, <2>3
<1> QED BY <1>5, <1>6

\* A run moves a verdict within its bounds.
LEMMA JudgedTyped ==
    ASSUME NEW v \in Verdicts, NEW outcome PROVE Judged(v, outcome) \in Verdicts
<1>1. CASE outcome = "inconclusive"
  <2>1. Least(v.blanks + 1, 2) \in 0..2
    BY DEF Verdicts, Least
  <2> QED BY <1>1, <2>1 DEF Judged, Verdicts
<1>2. CASE outcome # "inconclusive"
  <2>1. /\ (v.good \/ outcome = "passed") \in BOOLEAN
        /\ (v.bad \/ outcome = "failed") \in BOOLEAN
    BY Zenon
  <2> DEFINE good == v.good \/ outcome = "passed"
             bad == v.bad \/ outcome = "failed"
  <2>2. Judged(v, outcome) =
          [v EXCEPT !.good = good, !.bad = bad, !.last = "decisive"]
    BY <1>2, Zenon DEF Judged
  <2>3. good \in BOOLEAN /\ bad \in BOOLEAN
    BY <2>1, Zenon
  <2> HIDE DEF good, bad
  <2> QED BY <2>2, <2>3 DEF Verdicts
<1> QED BY <1>1, <1>2

LedgerTyped == ledger \in [revision : Nat, hasEdit : BOOLEAN,
                           verdict : [DOMAIN plan -> Verdicts], unresolved : SUBSET DOMAIN plan]
ControlTypes == [phase : Phases, check : DOMAIN plan \cup {None},
                 status : Statuses \cup {"none"}, required : BOOLEAN,
                 looks : Nat, idle : Nat, probes : Nat]
ControlTyped == control \in ControlTypes

LEMMA RecordedTyped ==
    ASSUME LedgerTyped, NEW c, NEW outcome, ledger' = Recorded(c, outcome), UNCHANGED plan
    PROVE  LedgerTyped'
<1>1. \A d \in DOMAIN plan : Judged(ledger.verdict[d], outcome) \in Verdicts
  BY JudgedTyped DEF LedgerTyped
<1>2. [ledger.verdict EXCEPT ![c] = Judged(@, outcome)] \in [DOMAIN plan -> Verdicts]
  BY <1>1 DEF LedgerTyped
<1>3. Recorded(c, outcome) =
        [ledger EXCEPT !.verdict = [ledger.verdict EXCEPT ![c] = Judged(@, outcome)]]
  BY DEF Recorded, LedgerTyped
<1> QED BY <1>2, <1>3 DEF LedgerTyped

LEMMA RevisionTyped ==
    ASSUME LedgerTyped, NEW owned \in BOOLEAN, ledger' = NextRevision(owned), UNCHANGED plan
    PROVE  LedgerTyped'
BY DEF LedgerTyped, NextRevision, NoVerdict, Verdicts

\* observe_action keeps the controller's counters natural.
LEMMA SeenTyped ==
    ASSUME ControlTyped, NEW k, NEW advanced, NEW r \in BOOLEAN, NEW n \in Nat
    PROVE  /\ Seen([control EXCEPT !.required = r], k, advanced) \in ControlTypes
           /\ Seen([control EXCEPT !.probes = n], k, advanced) \in ControlTypes
           /\ Seen(control, k, advanced) \in ControlTypes
<1>1. \A m \in Nat : More(m) \in Nat
  BY MostIsNatural DEF More, Least
<1> QED BY <1>1 DEF Seen, ControlTyped, ControlTypes

LEMMA SeenTwiceTyped ==
    ASSUME ControlTyped, NEW k
    PROVE  Seen(Seen(control, k, FALSE), k, FALSE) \in ControlTypes
<1>1. \A m \in Nat : More(m) \in Nat
  BY MostIsNatural DEF More, Least
<1>2. ASSUME NEW c \in ControlTypes PROVE Seen(c, k, FALSE) \in ControlTypes
  BY <1>1 DEF Seen, ControlTypes
<1> QED BY <1>2 DEF ControlTyped

\* The parts of the type.
LoopTyped ==
    /\ pc \in {"harness", "prepare", "chat", "batch", "spent", "over", "raised"}
    /\ step \in Nat /\ mode \in Modes /\ left \in Nat
RestTyped ==
    /\ plan \in {t.plan : t \in InitialTasks} /\ mayStay \in BOOLEAN /\ blocker \in BOOLEAN
    /\ bound \in [DOMAIN plan -> Statuses]
    /\ retry \in [kind : {"stale", "symbol"}, path : Paths, read : BOOLEAN] \cup {None}
    /\ final \in [active : BOOLEAN, proof : BOOLEAN]
    /\ spree \in Nat /\ probes \in [DOMAIN plan -> Nat]
    /\ edits \in Nat /\ foreign \in Nat
WorkTyped == undoable \in BOOLEAN /\ touched \subseteq Paths

LEMMA TypeParts ==
    TypeOK <=> /\ task \in TaskType /\ LedgerTyped /\ ControlTyped /\ LoopTyped
               /\ RestTyped /\ WorkTyped
BY DEF TypeOK, LedgerTyped, ControlTyped, ControlTypes, LoopTyped, RestTyped, WorkTyped

LEMMA TypeInit == Init => TypeOK
<1> SUFFICES ASSUME Init PROVE TypeOK
  OBVIOUS
<1>1. PICK t \in InitialTasks : plan = t.plan /\ mayStay = t.mayStay /\ mode = t.mode
  BY DEF Init
<1>2. mayStay \in BOOLEAN /\ mode \in Modes
  BY <1>1, TasksTyped
<1>3. bound \in [DOMAIN plan -> Statuses]
  BY <1>1, ResolutionsTyped DEF Init
<1>4. LedgerTyped /\ ControlTyped
  BY DEF Init, LedgerTyped, ControlTyped, ControlTypes, NoVerdict, Verdicts, Phases
<1>5. LoopTyped /\ RestTyped /\ WorkTyped
  BY <1>1, <1>2, <1>3 DEF Init, LoopTyped, RestTyped, WorkTyped
<1>6. task \in TaskType
  BY RecordInit DEF RecordInv
<1> QED BY <1>4, <1>5, <1>6, TypeParts

\* A task's plan and its leave to make no edit are those it began with.
LEMMA PlanFixed == [Next]_vars => UNCHANGED <<plan, mayStay>>
BY DEF Next, NoticeChange, HarnessRest, HarnessBlocked, HarnessDone, HarnessDisturbed,
       Prepare, EndBatch, ReplyText, ReplyBlocked, LastText, Exhausted, Over, HarnessRun,
       ReplyCalls, Restrict, EditApplies, Command, Inspect, EditFails, Validate, RollBack,
       End, vars, fixed

\* A step keeps the types of the ledger,
LEMMA LedgerStep ==
    ASSUME LedgerTyped, RestTyped, [Next]_vars PROVE LedgerTyped'
<1>1. CASE UNCHANGED <<ledger, plan>>
  BY <1>1 DEF LedgerTyped
<1>2. CASE NoticeChange \/ HarnessDisturbed \/ (\E k \in Calls : RollBack(k))
           \/ (\E k \in Calls, completed \in BOOLEAN : EditApplies(k, completed))
  <2>1. PICK owned \in BOOLEAN : ledger' = NextRevision(owned) /\ UNCHANGED plan
    BY <1>2 DEF NoticeChange, HarnessDisturbed, RollBack, EditApplies, fixed
  <2> QED BY <2>1, RevisionTyped
<1>3. CASE (\E outcome \in {"passed", "failed", "inconclusive"} : HarnessRun(outcome))
           \/ (\E k \in Calls, outcome \in {"passed", "failed", "inconclusive"},
                  advanced \in BOOLEAN, decision \in {"go", "restart", "stop"} :
                 Validate(k, outcome, advanced, decision))
  <2>1. /\ UNCHANGED plan
        /\ ledger' = ledger \/ \E c, outcome : ledger' = Recorded(c, outcome)
    BY <1>3 DEF HarnessRun, Validate, AfterRun, fixed
  <2> QED BY <2>1, <1>1, RecordedTyped
<1>4. CASE HarnessRest
  <2>1. UNCHANGED plan /\ (ledger' = ledger \/ Declined = "unresolved")
    BY <1>4 DEF HarnessRest, fixed
  <2>2. CASE Declined = "unresolved"
    <3>1. NextCheck(ledger) # None
      BY <2>2 DEF Declined
    <3>2. NextCheck(ledger) \in DOMAIN plan
      BY <3>1, NextCheckTyped DEF RestTyped
    <3>3. ledger' = [ledger EXCEPT !.unresolved = @ \cup {NextCheck(ledger)}]
      BY <1>4, <2>2 DEF HarnessRest
    <3> QED BY <2>1, <3>2, <3>3 DEF LedgerTyped
  <2> QED BY <1>1, <2>1, <2>2
<1>5. CASE HarnessBlocked \/ HarnessDone \/ ReplyBlocked \/ LastText \/ Exhausted
  BY <1>1, <1>5 DEF HarnessBlocked, HarnessDone, ReplyBlocked, LastText, Exhausted, End, fixed
<1>6. CASE Prepare \/ EndBatch \/ ReplyText \/ Over \/ (\E n \in 1..MaxCalls : ReplyCalls(n))
  BY <1>1, <1>6 DEF Prepare, EndBatch, ReplyText, Over, ReplyCalls, facts, fixed, vars
<1>7. CASE \/ \E k \in Calls : Restrict(k) \/ Command(k)
           \/ \E k \in Calls, found \in BOOLEAN : Inspect(k, found)
           \/ \E k \in Calls, failure \in {"stale", "symbol", "refused", "other"},
                 preview \in BOOLEAN : EditFails(k, failure, preview)
  BY <1>1, <1>7 DEF Restrict, Command, Inspect, EditFails, facts, fixed
<1>8. CASE UNCHANGED vars
  BY <1>1, <1>8 DEF vars, facts, fixed
<1> QED BY <1>2, <1>3, <1>4, <1>5, <1>6, <1>7, <1>8 DEF Next

\* of the controller,
LEMMA ControlStep ==
    ASSUME ControlTyped, RestTyped, task' \in TaskType, [Next]_vars PROVE ControlTyped'
<1>0. UNCHANGED plan
  BY PlanFixed
<1>1. ASSUME control' \in ControlTypes PROVE ControlTyped'
  BY <1>0, <1>1 DEF ControlTyped, ControlTypes
<1>2. control \in ControlTypes /\ [control EXCEPT !.required = TRUE] \in ControlTypes
  BY DEF ControlTyped, ControlTypes
<1>3. \A k, advanced : Seen(control, k, advanced) \in ControlTypes
  BY SeenTyped
<1>4. CASE UNCHANGED control
  BY <1>1, <1>2, <1>4
<1>5. CASE \/ NoticeChange \/ HarnessRest \/ HarnessDisturbed \/ Over
           \/ \E outcome \in {"passed", "failed", "inconclusive"} : HarnessRun(outcome)
           \/ \E n \in 1..MaxCalls : ReplyCalls(n)
  BY <1>4, <1>5 DEF NoticeChange, HarnessRest, HarnessDisturbed, Over, HarnessRun,
                    ReplyCalls, gates, vars
<1>6. CASE HarnessBlocked \/ HarnessDone \/ ReplyBlocked \/ LastText \/ Exhausted
  BY <1>4, <1>6 DEF HarnessBlocked, HarnessDone, ReplyBlocked, LastText, Exhausted, End, gates
<1>7. CASE EndBatch \/ ReplyText
  <2>1. control' \in {control, [control EXCEPT !.required = TRUE]}
    BY <1>7 DEF EndBatch, ReplyText
  <2> QED BY <1>1, <1>2, <2>1
<1>8. CASE Prepare
  <2> DEFINE c == NextCheck(ledger)
             status == IF c = None THEN "none" ELSE bound[c]
  <2>1. c \in DOMAIN plan \cup {None}
    BY NextCheckTyped DEF RestTyped
  <2>2. status \in Statuses \cup {"none"}
    BY <2>1 DEF RestTyped
  <2>3. task'.phase \in Phases
    BY DEF TaskType
  <2>4. control' \in {control, Updated(c, status)}
    BY <1>8 DEF Prepare, gates
  <2> HIDE DEF c, status
  <2>5. Updated(c, status) \in ControlTypes
    <3>1. (IF c = control.check /\ status = control.status THEN control.probes ELSE 0) \in Nat
      BY DEF ControlTyped, ControlTypes
    <3> QED BY <2>1, <2>2, <2>3, <3>1 DEF Updated, ControlTyped, ControlTypes
  <2> QED BY <1>1, <1>2, <2>4, <2>5
<1>9. CASE \/ \E k \in Calls : Command(k)
           \/ \E k \in Calls, completed \in BOOLEAN : EditApplies(k, completed)
           \/ \E k \in Calls, failure \in {"stale", "symbol", "refused", "other"},
                 preview \in BOOLEAN : EditFails(k, failure, preview)
           \/ \E k \in Calls, outcome \in {"passed", "failed", "inconclusive"},
                 advanced \in BOOLEAN, decision \in {"go", "restart", "stop"} :
                Validate(k, outcome, advanced, decision)
  <2>1. \E k, advanced : control' = Seen(control, k, advanced)
    BY <1>9 DEF EditApplies, Command, EditFails, Validate
  <2> QED BY <1>1, <1>3, <2>1
<1>10. ASSUME NEW k \in Calls, Restrict(k) PROVE ControlTyped'
  <2>2. (control.required \/ Activates(k)) \in BOOLEAN
    BY Zenon
  <2>3. control' = Seen([control EXCEPT !.required = (control.required \/ Activates(k))],
                        k, FALSE)
    BY <1>10 DEF Restrict
  <2>4. control' \in ControlTypes
    BY <2>2, <2>3, SeenTyped
  <2> QED BY <1>1, <2>4
<1>11. ASSUME NEW k \in Calls, NEW found \in BOOLEAN, Inspect(k, found) PROVE ControlTyped'
  <2> DEFINE n == IF Unresolved THEN control.probes + 1 ELSE control.probes
  <2>1. n \in Nat
    BY DEF ControlTyped, ControlTypes
  <2>2. control' = Seen([control EXCEPT !.probes = n], k, FALSE)
    BY <1>11 DEF Inspect
  <2> HIDE DEF n
  <2>3. control' \in ControlTypes
    BY <2>1, <2>2, SeenTyped
  <2> QED BY <1>1, <2>3
<1>12. ASSUME NEW k \in Calls, RollBack(k) PROVE ControlTyped'
  BY <1>1, <1>12, SeenTwiceTyped DEF RollBack
<1>13. CASE UNCHANGED vars
  BY <1>4, <1>13 DEF vars, gates
<1> QED BY <1>5, <1>6, <1>7, <1>8, <1>9, <1>10, <1>11, <1>12, <1>13 DEF Next

\* of the loop: a batch has a call left whenever one is run,
LEMMA LoopStep ==
    ASSUME LoopTyped, [Next]_vars PROVE LoopTyped'
<1> DEFINE Places == {"harness", "prepare", "chat", "batch", "spent", "over", "raised"}
<1>0. pc \in Places /\ step \in Nat /\ mode \in Modes /\ left \in Nat
  BY DEF LoopTyped
<1>1. ASSUME pc' \in Places, step' \in Nat, mode' \in Modes, left' \in Nat PROVE LoopTyped'
  BY <1>1 DEF LoopTyped
<1>2. Turn \in {"harness", "spent"}
  BY DEF Turn
<1>3. ASSUME NEW next, NEW to \in Places, Emit(next, to) PROVE pc' \in Places
  BY <1>3 DEF Emit
<1>4. ModeNow \in Modes
  BY <1>0 DEF ModeNow, Escalates, Raised, Modes
<1>5. NextTurn => step' \in Nat /\ left' \in Nat
  BY <1>0 DEF NextTurn
<1>6. Stay /\ left > 0 => step' \in Nat /\ left' \in Nat
  BY <1>0 DEF Stay
<1> HIDE DEF Places
<1>7. {"harness", "prepare", "chat", "batch", "spent", "over", "raised"} \subseteq Places
  BY DEF Places
<1>10. CASE NoticeChange \/ HarnessRest \/ HarnessDisturbed \/ Over
            \/ \E outcome \in {"passed", "failed", "inconclusive"} : HarnessRun(outcome)
  <2>1. UNCHANGED <<step, mode, left>>
    BY <1>10 DEF NoticeChange, HarnessRest, HarnessDisturbed, Over, HarnessRun, vars, loop
  <2>2. pc' \in Places
    BY <1>0, <1>3, <1>7, <1>10
       DEF NoticeChange, HarnessRest, HarnessDisturbed, Over, HarnessRun, vars, loop
  <2> QED BY <1>0, <1>1, <2>1, <2>2
<1>11. CASE HarnessBlocked \/ HarnessDone \/ ReplyBlocked \/ LastText \/ Exhausted
  <2>1. PICK o : End(o)
    BY <1>11 DEF HarnessBlocked, HarnessDone, ReplyBlocked, LastText, Exhausted
  <2>2. UNCHANGED <<step, mode, left>> /\ Emit(TaskEnded(task, o), "over")
    BY <2>1 DEF End
  <2> QED BY <1>0, <1>1, <1>3, <1>7, <2>2
<1>12. CASE Prepare
  <2>1. UNCHANGED <<step, left>> /\ mode' = ModeNow
    BY <1>12 DEF Prepare
  <2>2. pc' \in Places
    BY <1>0, <1>3, <1>7, <1>12 DEF Prepare
  <2> QED BY <1>0, <1>1, <1>4, <2>1, <2>2
<1>13. CASE EndBatch \/ ReplyText
  <2>1. NextTurn /\ UNCHANGED mode
    BY <1>13 DEF EndBatch, ReplyText
  <2>2. pc' \in Places
    BY <1>2, <1>3, <1>7, <1>13 DEF EndBatch, ReplyText
  <2> QED BY <1>0, <1>1, <1>5, <2>1, <2>2
<1>14. CASE \E n \in 1..MaxCalls : ReplyCalls(n)
  BY <1>0, <1>1, <1>7, <1>14 DEF ReplyCalls
<1>15. ASSUME NEW k \in Calls, Restrict(k) PROVE LoopTyped'
  BY <1>0, <1>1, <1>2, <1>3, <1>5, <1>7, <1>15 DEF Restrict
<1>16. ASSUME NEW k \in Calls, NEW completed \in BOOLEAN,
              EditApplies(k, completed) \/ RollBack(k) \/ Command(k)
       PROVE  LoopTyped'
  <2>1. (NextTurn \/ Stay) /\ left > 0 /\ UNCHANGED mode
    BY <1>16 DEF EditApplies, RollBack, Command, Running
  <2>2. pc' \in Places
    <3>1. CASE EditApplies(k, completed)
      BY <1>2, <1>3, <1>7, <3>1 DEF EditApplies
    <3>2. CASE RollBack(k)
      BY <1>2, <1>3, <1>7, <3>2 DEF RollBack
    <3>3. CASE Command(k)
      BY <1>0, <3>3 DEF Command
    <3> QED BY <1>16, <3>1, <3>2, <3>3
  <2> QED BY <1>0, <1>1, <1>5, <1>6, <2>1, <2>2
<1>17. ASSUME NEW k \in Calls, NEW found \in BOOLEAN, Inspect(k, found) PROVE LoopTyped'
  <2>1. left > 0 /\ UNCHANGED mode
    BY <1>17 DEF Inspect, Running
  <2>2. \/ NextTurn /\ pc' \in Places
        \/ Stay /\ UNCHANGED pc
    BY <1>2, <1>3, <1>7, <1>17 DEF Inspect
  <2> QED BY <1>0, <1>1, <1>5, <1>6, <2>1, <2>2
<1>18. ASSUME NEW k \in Calls, NEW failure, NEW preview, EditFails(k, failure, preview)
       PROVE  LoopTyped'
  <2>1. left > 0 /\ UNCHANGED mode
    BY <1>18 DEF EditFails, Running
  <2>2. (NextTurn \/ Stay) /\ pc' \in Places
    BY <1>2, <1>3, <1>7, <1>18 DEF EditFails
  <2> QED BY <1>0, <1>1, <1>5, <1>6, <2>1, <2>2
<1>19. ASSUME NEW k \in Calls, NEW outcome, NEW advanced, NEW decision,
              Validate(k, outcome, advanced, decision)
       PROVE  LoopTyped'
  <2>1. left > 0 /\ UNCHANGED mode
    BY <1>19 DEF Validate, Running
  <2>2. NextTurn \/ Stay \/ UNCHANGED <<step, left>>
    BY <1>19 DEF Validate
  <2>3. \E next : Emit(next, "over") \/ Emit(next, Turn) \/ Emit(next, "batch")
    BY <1>19 DEF Validate
  <2>4. pc' \in Places
    BY <1>2, <1>3, <1>7, <2>3
  <2> QED BY <1>0, <1>1, <1>5, <1>6, <2>1, <2>2, <2>4
<1>20. CASE UNCHANGED vars
  BY <1>0, <1>1, <1>20 DEF vars, loop
<1> QED BY <1>10, <1>11, <1>12, <1>13, <1>14, <1>15, <1>16, <1>17, <1>18, <1>19, <1>20 DEF Next

\* of the rest: what is pending names a file that a call named,
LEMMA RestStep ==
    ASSUME RestTyped, spree' \in Nat, [Next]_vars,
           UNCHANGED <<plan, mayStay>>, probes' \in [DOMAIN plan -> Nat]
    PROVE  RestTyped'
<1> USE DEF history
<1>0. /\ plan \in {t.plan : t \in InitialTasks} /\ mayStay \in BOOLEAN /\ blocker \in BOOLEAN
      /\ bound \in [DOMAIN plan -> Statuses]
      /\ retry \in [kind : {"stale", "symbol"}, path : Paths, read : BOOLEAN] \cup {None}
      /\ final \in [active : BOOLEAN, proof : BOOLEAN]
      /\ edits \in Nat /\ foreign \in Nat
  BY DEF RestTyped
<1>1. ASSUME bound' \in [DOMAIN plan -> Statuses], blocker' \in BOOLEAN,
             retry' \in [kind : {"stale", "symbol"}, path : Paths, read : BOOLEAN] \cup {None},
             final' \in [active : BOOLEAN, proof : BOOLEAN],
             edits' \in Nat, foreign' \in Nat
      PROVE  RestTyped'
  BY <1>0, <1>1 DEF RestTyped
<1>2. Rebound => bound' \in [DOMAIN plan -> Statuses]
  BY <1>0, ResolutionsTyped DEF Rebound
<1>3. CASE UNCHANGED vars
  BY <1>0, <1>1, <1>3 DEF vars, facts, gates
<1>4. CASE NoticeChange \/ HarnessDisturbed
  <2>1. /\ Rebound /\ foreign' = foreign + 1
        /\ UNCHANGED <<blocker, edits>> /\ UNCHANGED gates
    BY <1>4 DEF NoticeChange, HarnessDisturbed
  <2>2. UNCHANGED <<retry, final>>
    BY <2>1 DEF gates
  <2> QED BY <1>0, <1>1, <1>2, <2>1, <2>2
<1>5. CASE \/ HarnessRest \/ EndBatch \/ ReplyText \/ Over
           \/ \E outcome \in {"passed", "failed", "inconclusive"} : HarnessRun(outcome)
           \/ \E n \in 1..MaxCalls : ReplyCalls(n)
           \/ \E k \in Calls : Restrict(k) \/ Command(k)
  BY <1>0, <1>1, <1>5
     DEF HarnessRest, EndBatch, ReplyText, Over, HarnessRun, ReplyCalls, Restrict, Command,
         facts, gates, vars
<1>6. CASE HarnessBlocked \/ HarnessDone \/ ReplyBlocked \/ LastText \/ Exhausted
  BY <1>0, <1>1, <1>6
     DEF HarnessBlocked, HarnessDone, ReplyBlocked, LastText, Exhausted, End, gates
<1>7. CASE Prepare
  <2>1. UNCHANGED <<bound, blocker, edits, foreign>>
    BY <1>7 DEF Prepare
  <2>2. retry' = retry
    BY <1>7 DEF Prepare, gates
  <2>3. final' = final \/ \E proof \in BOOLEAN : final' = [active |-> TRUE, proof |-> proof]
    <3>1. \A status : (status = "target_unresolved") \in BOOLEAN
      BY Zenon
    <3> QED BY <1>7, <3>1 DEF Prepare, gates
  <2>4. final' \in [active : BOOLEAN, proof : BOOLEAN]
    <3>1. CASE final' = final
      BY <1>0, <3>1
    <3>2. CASE \E proof \in BOOLEAN : final' = [active |-> TRUE, proof |-> proof]
      BY <3>2
    <3> QED BY <2>3, <3>1, <3>2
  <2> QED BY <1>0, <1>1, <2>1, <2>2, <2>4
<1>8. ASSUME NEW k \in Calls, NEW found \in BOOLEAN, Inspect(k, found) PROVE RestTyped'
  <2>1. UNCHANGED <<bound, blocker, edits, foreign, final>>
    BY <1>8 DEF Inspect
  <2>2. \/ UNCHANGED retry
        \/ retry # None /\ retry' = [retry EXCEPT !.read = TRUE]
    <3>1. IF retry # None /\ found
          THEN retry' = [retry EXCEPT !.read = TRUE] ELSE UNCHANGED retry
      BY <1>8 DEF Inspect
    <3> QED BY <3>1
  <2>3. retry' \in [kind : {"stale", "symbol"}, path : Paths, read : BOOLEAN] \cup {None}
    BY <1>0, <2>2
  <2> QED BY <1>0, <1>1, <2>1, <2>3
<1>9. ASSUME NEW k \in Calls, NEW completed, EditApplies(k, completed) PROVE RestTyped'
  <2>1. Rebound /\ UNCHANGED <<blocker, foreign, final>> /\ retry' = None /\ edits' = edits + 1
    BY <1>9 DEF EditApplies
  <2> QED BY <1>0, <1>1, <1>2, <2>1
<1>10. ASSUME NEW k \in Calls, NEW failure \in {"stale", "symbol", "refused", "other"},
              NEW preview \in BOOLEAN, EditFails(k, failure, preview)
       PROVE  RestTyped'
  <2>1. UNCHANGED <<bound, edits, foreign, final>>
    BY <1>10 DEF EditFails
  <2>2. blocker' \in BOOLEAN
    <3>1. (blocker \/ failure = "refused") \in BOOLEAN
      BY Zenon
    <3>2. blocker' \in {blocker, (blocker \/ failure = "refused")}
      BY <1>10 DEF EditFails
    <3> HIDE <1>10
    <3> QED BY <1>0, <3>1, <3>2, Zenon
  <2>3. k.path \in Paths
    BY <1>10 DEF EditFails, Calls, Edits, Plain
  <2>4. Authoritative(k, preview) \in BOOLEAN
    BY Zenon DEF Authoritative
  <2>5. retry' \in {None, retry, Pending("stale", k.path, Authoritative(k, preview)),
                   Pending("symbol", k.path, FALSE)}
    BY <1>10 DEF EditFails, AfterFailure
  <2>6. retry' \in [kind : {"stale", "symbol"}, path : Paths, read : BOOLEAN] \cup {None}
    <3> DEFINE read == Authoritative(k, preview)
               Retries == [kind : {"stale", "symbol"}, path : Paths, read : BOOLEAN]
    <3>1. Pending("stale", k.path, read) = [kind |-> "stale", path |-> k.path, read |-> read]
      BY DEF Pending
    <3>3. read \in BOOLEAN
      BY <2>4
    <3>4. retry' \in {None, retry, Pending("stale", k.path, read),
                     Pending("symbol", k.path, FALSE)}
      BY <2>5
    <3> HIDE DEF read
    <3>5. Pending("stale", k.path, read) \in Retries
      BY <2>3, <3>1, <3>3
    <3>6. ASSUME NEW no \in BOOLEAN PROVE Pending("symbol", k.path, no) \in Retries
      BY <2>3 DEF Pending
    <3> QED BY <1>0, <3>4, <3>5, <3>6
  <2> QED BY <1>0, <1>1, <2>1, <2>2, <2>6
<1>11. ASSUME NEW k \in Calls, NEW outcome, NEW advanced, NEW decision,
              Validate(k, outcome, advanced, decision)
       PROVE  RestTyped'
  BY <1>0, <1>1, <1>11 DEF Validate
<1>12. ASSUME NEW k \in Calls, RollBack(k) PROVE RestTyped'
  <2>1. Rebound /\ UNCHANGED <<blocker, edits, foreign, final>> /\ retry' = None
    BY <1>12 DEF RollBack
  <2> QED BY <1>0, <1>1, <1>2, <2>1
<1> QED BY <1>3, <1>4, <1>5, <1>6, <1>7, <1>8, <1>9, <1>10, <1>11, <1>12 DEF Next

\* and of the checkpoint.
LEMMA WorkStep == ASSUME WorkTyped, [Next]_vars PROVE WorkTyped'
<1>1. ASSUME NEW k \in Calls, k.tool \in Edits PROVE k.path \in Paths
  BY <1>1 DEF Calls, Edits, Plain
<1> QED BY <1>1, WorkMoves DEF WorkTyped, work

\* In every state that any run of calls, edits, checks and changes by others
\* reaches, the loop, its gates, the ledger and the record have their types: the
\* check that is due is one of the plan, and each of its verdicts is in bounds.
THEOREM GatesTyped == Spec => []TypeOK
<1> DEFINE Known == RecordInv /\ UndoInv /\ UnitInv /\ ProbeInv
<1>1. Init => Known
  BY RecordInit, UndoInit, UnitInit, ProbeInit
<1>2. Known /\ [Next]_vars => Known'
  BY RecordStep, UndoStep, UnitStep, ProbeStep
<1>3. ASSUME TypeOK, Known, [Next]_vars PROVE TypeOK'
  <2>1. /\ LedgerTyped /\ ControlTyped /\ LoopTyped /\ RestTyped /\ WorkTyped
    BY <1>3, TypeParts
  <2>2. task' \in TaskType /\ spree' \in Nat /\ probes' \in [DOMAIN plan' -> Nat]
    BY <1>2, <1>3 DEF RecordInv, UnitInv, ProbeInv
  <2>3. UNCHANGED <<plan, mayStay>>
    BY <1>3, PlanFixed
  <2>4. LedgerTyped' /\ ControlTyped' /\ LoopTyped' /\ RestTyped' /\ WorkTyped'
    BY <1>3, <2>1, <2>2, <2>3, LedgerStep, ControlStep, LoopStep, RestStep, WorkStep
  <2> QED BY <2>2, <2>4
           DEF TypeOK, LedgerTyped, ControlTyped, ControlTypes, LoopTyped, RestTyped, WorkTyped
<1> QED BY <1>1, <1>2, <1>3, TypeInit, PTL DEF Spec

=============================================================================

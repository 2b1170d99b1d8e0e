-------------------------- MODULE ValidationProofs --------------------------
(***************************************************************************)
(* Type correctness and the main safety properties of Validation, for any  *)
(* files, plans, budgets and limits.                                       *)
(***************************************************************************)
EXTENDS Validation, FiniteSetTheorems, TLAPS

\* What materialize_regression_checks leaves is a plan that only grew.
LEMMA MaterializedType ==
  ASSUME plan \in Seq(ValidationCheck), NEW m, NEW t, NEW p,
         NEW q \in Materialized(m, t, p)
  PROVE  q \in Seq(ValidationCheck) /\ Len(plan) <= Len(q)
  <1>1. CASE q = plan
    BY <1>1
  <1>2. ASSUME NEW full \in BOOLEAN, NEW target \in Files \cup {None},
               q = Append(plan, [purpose |-> "regression", semantic |-> FALSE,
                                 full |-> full, target |-> target])
        PROVE  q \in Seq(ValidationCheck) /\ Len(plan) <= Len(q)
    <2>1. [purpose |-> "regression", semantic |-> FALSE, full |-> full,
           target |-> target] \in ValidationCheck
      BY DEF ValidationCheck
    <2>2. QED
      BY <1>2, <2>1
  <1>3. QED
    BY <1>1, <1>2 DEF Materialized

\* Each mode is followed by a mode.
LEMMA Next1Type == \A m \in Modes : Next1[m] \in Modes
  BY DEF Next1, Modes

ProfileType == [runtime : Runtimes, tests : SUBSET TestFiles]

\* What Manifest and test files offer together.
LEMMA OfferedType ==
  ASSUME offer \in Offers, NEW found PROVE Offered(offer, found) \in Runtimes
  BY KnownOffers DEF Offered, Runtimes

\* Looking at files leaves the profile in its type.
LEMMA LookType ==
  ASSUME TypeOK, NEW looked, NEW walk
  PROVE  /\ KnownAfter(looked) \subseteq TestFiles
         /\ ProfileAfter(looked, walk) \in ProfileType
  <1>1. KnownAfter(looked) \subseteq TestFiles
    BY DEF TypeOK, KnownAfter
  <1>2. ProfileOf(KnownAfter(looked)) \in ProfileType
    BY <1>1, OfferedType DEF TypeOK, ProfileOf, ProfileType
  <1>3. QED
    BY <1>1, <1>2 DEF TypeOK, ProfileAfter, ProfileType

\* A refresh leaves the session in its type.
LEMMA RefreshType ==
  ASSUME TypeOK, Refresh, UNCHANGED workspace
  PROVE  /\ unseen' \subseteq Files /\ dirty' \subseteq Files
         /\ ticks' \in 0..(Interval - 1) /\ profile' \in ProfileType /\ known' \subseteq TestFiles
         /\ revision' \in Nat /\ undoable' \subseteq Files /\ unnoticed' \in BOOLEAN
  <1>1. ticks' \in 0..(Interval - 1)
    <2>1. Interval \in Nat \ {0} /\ ticks \in 0..(Interval - 1)
      BY Positive DEF TypeOK
    <2>2. (ticks + 1) % Interval \in 0..(Interval - 1)
      BY <2>1
    <2>3. QED
      BY <2>1, <2>2 DEF Refresh, Ticked
  <1>2. profile' \in ProfileType /\ known' \subseteq TestFiles
    BY LookType DEF Refresh
  <1>3. QED
    BY <1>1, <1>2 DEF TypeOK, Refresh

\* Observing a run leaves the ledger in its type.
LEMMA ObserveType ==
  ASSUME TypeOK, NEW own \in BOOLEAN, Observe(own), revision' \in Nat
  PROVE  /\ evidence' \in Seq(Evidence) /\ observed' \in Seq(Observation)
  <1>1. run.check \in Nat /\ run.from \in Nat /\ run.to \in Nat
    BY DEF TypeOK
  <1>2. run.result \in Outcomes =>
          [check |-> run.check, revision |-> revision, outcome |-> run.result,
           own |-> own, from |-> run.from, to |-> run.to] \in Evidence
    BY <1>1 DEF TypeOK, Evidence
  <1>3. [check |-> run.check, revision |-> revision', status |-> "crashed"]
          \in Observation
    BY <1>1 DEF Observation
  <1>4. QED
    BY <1>2, <1>3 DEF TypeOK, Observe

\* The initial state has its type.
LEMMA InitType == Init => TypeOK
  <1> SUFFICES ASSUME Init PROVE TypeOK
    OBVIOUS
  <1>1. plan \in Seq(ValidationCheck)
    BY Plans DEF Init
  <1>2. Interval \in Nat \ {0} /\ MaxCalls \in Nat \ {0} /\ IsFiniteSet({})
    BY Positive, FS_EmptySet
  <1>3. run \in [check : 0..Len(plan), from : Nat, to : Nat, result : Results]
    BY <1>1 DEF Init, Idle, Results
  <1>4. /\ 0 \in 0..(Interval - 1) /\ 0 \in 0..MaxCalls /\ 0 \in 0..Len(plan)
        /\ evidence \in Seq(Evidence) /\ observed \in Seq(Observation)
    BY <1>1, <1>2 DEF Init
  <1>5. /\ offer \in Offers /\ tests \subseteq TestFiles /\ known \subseteq TestFiles
        /\ profile \in [runtime : Runtimes, tests : SUBSET TestFiles]
    BY OfferedType DEF Init, ProfileOf
  <1>6. bodies \subseteq [check : Nat, revision : Nat, nth : Nat] /\ IsFiniteSet(bodies)
    BY <1>2 DEF Init
  <1>7. QED
    BY <1>1, <1>3, <1>4, <1>5, <1>6 DEF Init, TypeOK

\* The runs of a check at the present revision are a number.
LEMMA RunsHereType == TypeOK => \A c : RunsHere(c) \in Nat
  <1> SUFFICES ASSUME TypeOK, NEW c PROVE RunsHere(c) \in Nat
    OBVIOUS
  <1>1. IsFiniteSet({b \in bodies : b.check = c /\ b.revision = revision})
    BY FS_Subset DEF TypeOK
  <1>2. QED
    BY <1>1, FS_CardinalityType DEF RunsHere

\* Every step of the loop and of other programs keeps the type.
LEMMA NextType == TypeOK /\ [Next]_vars => TypeOK'
  <1> SUFFICES ASSUME TypeOK, [Next]_vars PROVE TypeOK'
    OBVIOUS
  <1> USE DEF workspace, session, ledger, loop, history, ProfileType
  <1>a. Interval \in Nat \ {0} /\ MaxCalls \in Nat \ {0}
    BY Positive
  <1>b. Idle \in [check : 0..Len(plan), from : Nat, to : Nat, result : Results]
    BY DEF TypeOK, Idle, Results
  <1>c. DOMAIN plan = 1..Len(plan) /\ Len(plan) \in Nat
    BY DEF TypeOK
  <1>1. ASSUME NothingToRun PROVE TypeOK'
    BY <1>1 DEF TypeOK, NothingToRun
  <1>2. ASSUME ObserveRun PROVE TypeOK'
    <2>1. /\ unseen' \subseteq Files /\ dirty' \subseteq Files
          /\ ticks' \in 0..(Interval - 1) /\ profile' \in ProfileType /\ known' \subseteq TestFiles
          /\ revision' \in Nat /\ undoable' \subseteq Files /\ unnoticed' \in BOOLEAN
      BY <1>2, RefreshType DEF ObserveRun
    <2>2. evidence' \in Seq(Evidence) /\ observed' \in Seq(Observation)
      BY <1>2, <2>1, ObserveType DEF ObserveRun
    <2>3. pc' \in {"blocked", "validate", "ready"}
      BY <1>2 DEF ObserveRun
    <2>4. QED
      BY <1>2, <1>b, <2>1, <2>2, <2>3 DEF TypeOK, ObserveRun
  <1>3. ASSUME NEW c \in DOMAIN plan, AwaitRepair(c) PROVE TypeOK'
    BY <1>3 DEF TypeOK, AwaitRepair, Decline
  <1>4. ASSUME NEW c \in DOMAIN plan, GiveUp(c) PROVE TypeOK'
    BY <1>4 DEF TypeOK, GiveUp, Decline
  <1>5. ASSUME NEW c \in DOMAIN plan, CapabilityMissing(c) PROVE TypeOK'
    BY <1>5 DEF TypeOK, CapabilityMissing, Decline
  <1>6. ASSUME NEW c \in DOMAIN plan, TargetUnresolved(c) PROVE TypeOK'
    <2>1. [check |-> c, revision |-> revision, status |-> "target_unresolved"]
            \in Observation
      BY <1>c DEF TypeOK, Observation
    <2>2. observed' \in Seq(Observation)
      BY <1>6, <2>1 DEF TypeOK, TargetUnresolved
    <2>3. QED
      BY <1>6, <2>2 DEF TypeOK, TargetUnresolved, Decline
  <1>7. ASSUME NEW c \in DOMAIN plan, StartRun(c) PROVE TypeOK'
    <2>1. run' \in [check : 0..Len(plan), from : Nat, to : Nat, result : Results]
      BY <1>7, <1>c DEF TypeOK, StartRun, Results
    <2>2. QED
      BY <1>7, <2>1 DEF TypeOK, StartRun
  <1>8. ASSUME NEW result \in Results, EndRun(result) PROVE TypeOK'
    <2>1. run' \in [check : 0..Len(plan), from : Nat, to : Nat, result : Results]
      <3>1. run' = [check |-> run.check, from |-> run.from, to |-> text,
                    result |-> result]
        BY <1>8 DEF TypeOK, EndRun
      <3>2. QED
        BY <3>1 DEF TypeOK
    <2>2. bodies' \subseteq [check : Nat, revision : Nat, nth : Nat] /\ IsFiniteSet(bodies')
      <3>1. RunsHere(run.check) \in Nat /\ run.check \in Nat
        BY RunsHereType DEF TypeOK
      <3>2. [check |-> run.check, revision |-> revision, nth |-> 1 + RunsHere(run.check)]
              \in [check : Nat, revision : Nat, nth : Nat]
        BY <3>1 DEF TypeOK
      <3>3. \A x : IsFiniteSet(bodies \cup {x})
        BY FS_AddElement DEF TypeOK
      <3>4. QED
        BY <1>8, <3>2, <3>3 DEF TypeOK, EndRun
    <2>3. QED
      BY <1>8, <2>1, <2>2 DEF TypeOK, EndRun
  <1>9. ASSUME NEW result \in Success \cup {"blocked", "incomplete"}, End(result)
        PROVE  TypeOK'
    BY <1>9 DEF TypeOK, End
  <1>10. ASSUME StopBlocked \/ Complete \/ ControlStop \/ Exhaust PROVE TypeOK'
    BY <1>9, <1>10 DEF StopBlocked, Complete, ControlStop, Exhaust, Success
  <1>11. ASSUME PrepareTurn PROVE TypeOK'
    <2>1. mode' \in Modes
      BY <1>11, Next1Type DEF TypeOK, PrepareTurn
    <2>2. prepared' \in 0..Len(plan)
      BY <1>11, <1>c DEF TypeOK, PrepareTurn, Missing
    <2>3. pc' \in {"exhausted", "context"}
      BY <1>11 DEF PrepareTurn
    <2>4. QED
      BY <1>11, <2>1, <2>2, <2>3 DEF TypeOK, PrepareTurn
  <1>12. ASSUME BuildContext PROVE TypeOK'
    BY <1>12, RefreshType DEF TypeOK, BuildContext
  <1>13. ASSUME NextTurn PROVE TypeOK'
    BY <1>13, <1>a DEF TypeOK, NextTurn, NextStep
  <1>14. ASSUME TextReply \/ EndBatch PROVE TypeOK'
    BY <1>9, <1>13, <1>14 DEF TextReply, EndBatch
  <1>15. ASSUME ToolReply PROVE TypeOK'
    BY <1>15, <1>a DEF TypeOK, ToolReply
  <1>16. ASSUME BeginCall PROVE TypeOK'
    BY <1>16, <1>a, RefreshType DEF TypeOK, BeginCall
  <1>17. ASSUME EndCall PROVE calls' \in {0, calls} /\ pc' = "batch" /\ calls' \in 0..MaxCalls
    BY <1>17, <1>a DEF TypeOK, EndCall
  <1>18. ASSUME OtherCall PROVE TypeOK'
    <2>1. /\ unseen' \subseteq Files /\ dirty' \subseteq Files
          /\ ticks' \in 0..(Interval - 1) /\ profile' \in ProfileType /\ known' \subseteq TestFiles
          /\ revision' \in Nat /\ undoable' \subseteq Files /\ unnoticed' \in BOOLEAN
      BY <1>18, RefreshType DEF TypeOK, OtherCall
    <2>2. QED
      BY <1>17, <1>18, <2>1 DEF TypeOK, OtherCall
  <1>19. ASSUME NEW f \in Files, Write(f)
         PROVE  /\ text' \in Nat /\ unseen' \subseteq Files
                /\ offer' \in Offers /\ tests' \subseteq TestFiles
    BY <1>19 DEF TypeOK, Write
  <1>20. ASSUME NEW f \in Files, Edit(f) PROVE TypeOK'
    BY <1>19, <1>20 DEF TypeOK, Edit, WriteEdit
  <1>21. ASSUME NEW f \in Files, FailEdit(f) PROVE TypeOK'
    BY <1>17, <1>19, <1>21 DEF TypeOK, FailEdit, WriteEdit
  <1>22. ASSUME RecordEdit PROVE TypeOK'
    <2>1. plan' \in Seq(ValidationCheck) /\ Len(plan) <= Len(plan') /\ Len(plan') \in Nat
      <3>1. plan \in Seq(ValidationCheck)
        BY DEF TypeOK
      <3>2. plan' \in Materialized(mode, touched, profile'.runtime)
        BY <1>22 DEF RecordEdit
      <3>3. QED
        BY <3>1, <3>2, MaterializedType
    <2>2. /\ prepared' \in 0..Len(plan')
          /\ run' \in [check : 0..Len(plan'), from : Nat, to : Nat, result : Results]
      <3>1. prepared' = prepared /\ run' = run
        BY <1>22 DEF RecordEdit
      <3>2. 0..Len(plan) \subseteq 0..Len(plan')
        BY <1>c, <2>1
      <3>3. QED
        BY <3>1, <3>2 DEF TypeOK
    <2>3. /\ unseen' \subseteq Files /\ dirty' \subseteq Files
          /\ known' \subseteq TestFiles /\ profile' \in ProfileType
      BY <1>22, LookType DEF TypeOK, RecordEdit
    <2>4. calls' \in 0..MaxCalls /\ pc' = "batch"
      <3>1. EndCall
        BY <1>22 DEF RecordEdit
      <3>2. QED
        BY <1>17, <3>1
    <2>5. revision' \in Nat /\ hasEdit' \in BOOLEAN /\ unnoticed' \in BOOLEAN
      <3>1. revision' \in Nat
        BY <1>22 DEF TypeOK, RecordEdit
      <3>2. hasEdit' \in BOOLEAN /\ unnoticed' \in BOOLEAN
        BY <1>22, Zenon DEF RecordEdit
      <3>3. QED
        BY <3>1, <3>2
    <2>6. QED
      <3>1. UNCHANGED <<text, offer, tests, ticks, evidence, observed, step, mode, touched,
                        undoable, mayStay, outcome, bodies, edits, foreign>>
        BY <1>22 DEF RecordEdit
      <3>2. QED
        BY <2>1, <2>2, <2>3, <2>4, <2>5, <3>1 DEF TypeOK
  <1>23. ASSUME StartCheck PROVE TypeOK'
    <2>1. run' \in [check : 0..Len(plan), from : Nat, to : Nat, result : Results]
      BY <1>23 DEF TypeOK, StartCheck, Results
    <2>2. QED
      BY <1>23, <2>1 DEF TypeOK, StartCheck
  <1>24. ASSUME ObserveCheck PROVE TypeOK'
    <2>1. /\ unseen' \subseteq Files /\ dirty' \subseteq Files
          /\ ticks' \in 0..(Interval - 1) /\ profile' \in ProfileType /\ known' \subseteq TestFiles
          /\ revision' \in Nat /\ undoable' \subseteq Files /\ unnoticed' \in BOOLEAN
      BY <1>24, RefreshType DEF TypeOK, ObserveCheck
    <2>2. evidence' \in Seq(Evidence) /\ observed' \in Seq(Observation)
      BY <1>24, <2>1, ObserveType DEF ObserveCheck
    <2>3. QED
      BY <1>24, <2>1, <2>2 DEF TypeOK, ObserveCheck
  <1>25. ASSUME SettleCheck PROVE TypeOK'
    BY <1>17, <1>25, <1>b DEF TypeOK, SettleCheck
  <1>26. ASSUME NEW f \in Files, Rollback(f) PROVE TypeOK'
    <2>1. /\ text' \in Nat /\ unseen' \subseteq Files
          /\ offer' \in Offers /\ tests' \subseteq TestFiles
      BY <1>19, <1>26 DEF Rollback
    <2>2. run' \in [check : 0..Len(plan'), from : Nat, to : Nat, result : Results]
      BY <1>26, <1>b DEF Rollback
    <2>3. calls' \in 0..MaxCalls /\ pc' = "batch" /\ revision' \in Nat
      BY <1>26, <1>a DEF TypeOK, Rollback
    <2>4. dirty' \subseteq Files /\ undoable' \subseteq Files /\ unnoticed' \in BOOLEAN
      BY <1>26 DEF TypeOK, Rollback
    <2>5. QED
      BY <1>26, <2>1, <2>2, <2>3, <2>4 DEF TypeOK, Rollback
  <1>27. ASSUME NEW f \in Files, ForeignWrite(f) PROVE TypeOK'
    BY <1>19, <1>27 DEF TypeOK, ForeignWrite
  <1>28. ASSUME UNCHANGED vars PROVE TypeOK'
    BY <1>28 DEF TypeOK, vars
  <1>29. QED
    BY <1>1, <1>2, <1>3, <1>4, <1>5, <1>6, <1>7, <1>8, <1>10, <1>11, <1>12, <1>14,
       <1>15, <1>16, <1>18, <1>20, <1>21, <1>22, <1>23, <1>24, <1>25, <1>26, <1>27,
       <1>28 DEF Next, Executor, Turn, Call, Done

\* The variables of the loop, the ledger and the session keep their types in
\* every behaviour.
THEOREM TypeCorrect == Spec => []TypeOK
  BY InitType, NextType, PTL DEF Spec

-----------------------------------------------------------------------------
(***************************************************************************)
(* Proof of the present text: EvidenceIsPresent is inductive with TypeOK   *)
(* and implies ProofsArePresent.                                           *)
(***************************************************************************)

\* Steps that write nothing, record nothing and start no run.
LEMMA QuietPresent ==
  ASSUME EvidenceIsPresent, UNCHANGED <<text, evidence, revision, unnoticed>>,
         pc' \notin Watched
  PROVE  EvidenceIsPresent'
  BY DEF EvidenceIsPresent, Watched

\* What the ledger holds is evidence.
LEMMA EvidenceType ==
  TypeOK => \A i \in DOMAIN evidence : evidence[i].revision \in Nat
  <1> SUFFICES ASSUME TypeOK, NEW i \in DOMAIN evidence
               PROVE  evidence[i].revision \in Nat
    OBVIOUS
  <1>1. evidence \in Seq(Evidence)
    BY DEF TypeOK
  <1>2. evidence[i] \in Evidence
    BY <1>1
  <1>3. QED
    BY <1>2 DEF Evidence

\* A refresh that notices a change makes all evidence old.
LEMMA RefreshPresent ==
  ASSUME TypeOK, EvidenceIsPresent, Refresh, UNCHANGED <<text, evidence>>,
         pc' \notin Watched
  PROVE  EvidenceIsPresent'
  <1>1. \A i \in DOMAIN evidence : evidence[i].revision \in Nat
    BY EvidenceType
  <1>2. revision \in Nat
    BY DEF TypeOK
  <1>3. CASE Noticed
    <2>1. revision' = revision + 1
      BY <1>3 DEF Refresh
    <2>2. QED
      BY <1>1, <1>2, <2>1 DEF EvidenceIsPresent
  <1>4. CASE ~Noticed
    <2>1. revision' = revision
      BY <1>4 DEF Refresh
    <2>2. unnoticed' = unnoticed
      BY <1>4, Zenon DEF Refresh, TypeOK
    <2>3. QED
      BY <2>1, <2>2, QuietPresent
  <1>5. QED
    BY <1>3, <1>4

\* What a run adds to the ledger at an unchanged revision is present.
LEMMA ObservePresent ==
  ASSUME TypeOK, EvidenceIsPresent, NEW own \in BOOLEAN, Observe(own),
         UNCHANGED text, pc \in {"ran", "checked"}, pc' \notin Watched,
         Refresh \/ UNCHANGED <<revision, unnoticed>>
  PROVE  EvidenceIsPresent'
  <1>1. CASE evidence' = evidence
    BY <1>1, RefreshPresent, QuietPresent
  <1>2. CASE evidence' # evidence
    <2> DEFINE e == [check |-> run.check, revision |-> revision, outcome |-> run.result,
                     own |-> own, from |-> run.from, to |-> run.to]
    <2>1. evidence' = Append(evidence, e) /\ revision' = revision
      BY <1>2 DEF Observe
    <2>2. unnoticed' = unnoticed
      BY <2>1 DEF TypeOK, Refresh
    <2>3. evidence \in Seq(Evidence) /\ revision \in Nat
      BY DEF TypeOK
    <2>4. \A i \in DOMAIN evidence' :
            \/ i \in DOMAIN evidence /\ evidence'[i] = evidence[i]
            \/ evidence'[i] = e
      BY <2>1, <2>3
    <2>5. e.revision <= revision /\ (~unnoticed => e.from = text /\ e.to = text)
      BY <2>3 DEF EvidenceIsPresent, Watched
    <2>6. QED
      BY <2>1, <2>2, <2>4, <2>5 DEF EvidenceIsPresent
  <1>3. QED
    BY <1>1, <1>2

\* A new revision makes all evidence old, whatever the text.
LEMMA RevisionPresent ==
  ASSUME TypeOK, EvidenceIsPresent, revision' = revision + 1, UNCHANGED evidence,
         pc' \notin Watched
  PROVE  EvidenceIsPresent'
  <1>1. \A i \in DOMAIN evidence : evidence[i].revision \in Nat
    BY EvidenceType
  <1>2. revision \in Nat
    BY DEF TypeOK
  <1>3. QED
    BY <1>1, <1>2 DEF EvidenceIsPresent

\* Nothing is claimed of a text that is known to have changed.
LEMMA UnnoticedPresent ==
  ASSUME EvidenceIsPresent, UNCHANGED <<revision, evidence>>, unnoticed' = TRUE
  PROVE  EvidenceIsPresent'
  BY DEF EvidenceIsPresent

LEMMA InitPresent == Init => EvidenceIsPresent
  BY DEF Init, EvidenceIsPresent, Watched

LEMMA NextPresent == TypeOK /\ EvidenceIsPresent /\ [Next]_vars => EvidenceIsPresent'
  <1> SUFFICES ASSUME TypeOK, EvidenceIsPresent, [Next]_vars PROVE EvidenceIsPresent'
    OBVIOUS
  <1> USE DEF workspace, session, ledger, loop, history
  <1>1. ASSUME NothingToRun \/ PrepareTurn \/ ToolReply \/ SettleCheck
        PROVE  EvidenceIsPresent'
    BY <1>1, QuietPresent
       DEF NothingToRun, PrepareTurn, ToolReply, SettleCheck, EndCall, Watched
  <1>2. ASSUME NEW c \in DOMAIN plan,
               AwaitRepair(c) \/ GiveUp(c) \/ CapabilityMissing(c) \/ TargetUnresolved(c)
        PROVE  EvidenceIsPresent'
    BY <1>2, QuietPresent
       DEF AwaitRepair, GiveUp, CapabilityMissing, TargetUnresolved, Decline, Watched
  <1>3. ASSUME NEW result, End(result) PROVE EvidenceIsPresent'
    BY <1>3, QuietPresent DEF End, Watched
  <1>4. ASSUME NextTurn PROVE EvidenceIsPresent'
    BY <1>4, QuietPresent DEF NextTurn, Watched
  <1>5. ASSUME StopBlocked \/ Complete \/ ControlStop \/ Exhaust \/ TextReply \/ EndBatch
        PROVE  EvidenceIsPresent'
    BY <1>3, <1>4, <1>5 DEF StopBlocked, Complete, ControlStop, Exhaust, TextReply, EndBatch
  <1>6. ASSUME NEW c \in DOMAIN plan, StartRun(c) PROVE EvidenceIsPresent'
    BY <1>6 DEF StartRun, EvidenceIsPresent, Watched
  <1>7. ASSUME StartCheck PROVE EvidenceIsPresent'
    BY <1>7 DEF StartCheck, EvidenceIsPresent, Watched
  <1>8. ASSUME NEW result \in Results, EndRun(result) PROVE EvidenceIsPresent'
    <2>1. run'.from = run.from /\ run'.to = text
      BY <1>8 DEF TypeOK, EndRun
    <2>2. QED
      BY <1>8, <2>1 DEF EndRun, EvidenceIsPresent, Watched
  <1>9. ASSUME ObserveRun PROVE EvidenceIsPresent'
    <2>1. pc' \notin Watched
      BY <1>9 DEF ObserveRun, Watched
    <2>2. QED
      BY <1>9, <2>1, ObservePresent DEF ObserveRun
  <1>10. ASSUME ObserveCheck PROVE EvidenceIsPresent'
    <2>1. PICK own \in BOOLEAN : Observe(own)
      BY <1>10 DEF ObserveCheck
    <2>2. Refresh \/ UNCHANGED <<revision, unnoticed>>
      BY <1>10 DEF ObserveCheck
    <2>3. pc = "checked" /\ pc' \notin Watched /\ UNCHANGED text
      BY <1>10 DEF ObserveCheck, Watched
    <2>4. QED
      BY <2>1, <2>2, <2>3, ObservePresent
  <1>11. ASSUME BuildContext \/ BeginCall PROVE EvidenceIsPresent'
    BY <1>11, RefreshPresent DEF BuildContext, BeginCall, Watched
  <1>12. ASSUME OtherCall PROVE EvidenceIsPresent'
    BY <1>12, RefreshPresent, QuietPresent DEF OtherCall, EndCall, Watched
  <1>13. ASSUME NEW f \in Files, Edit(f) \/ FailEdit(f) \/ ForeignWrite(f)
         PROVE  EvidenceIsPresent'
    BY <1>13, UnnoticedPresent DEF Edit, FailEdit, ForeignWrite
  <1>14. ASSUME RecordEdit PROVE EvidenceIsPresent'
    BY <1>14, RevisionPresent DEF RecordEdit, EndCall, Watched
  <1>15. ASSUME NEW f \in Files, Rollback(f) PROVE EvidenceIsPresent'
    BY <1>15, RevisionPresent DEF Rollback, Watched
  <1>16. ASSUME UNCHANGED vars PROVE EvidenceIsPresent'
    BY <1>16 DEF vars, EvidenceIsPresent
  <1>17. QED
    BY <1>1, <1>2, <1>5, <1>6, <1>7, <1>8, <1>9, <1>10, <1>11, <1>12, <1>13, <1>14,
       <1>15, <1>16 DEF Next, Executor, Turn, Call, Done

\* Decisive evidence is current evidence.
LEMMA PresentProofs == EvidenceIsPresent => ProofsArePresent
  BY DEF EvidenceIsPresent, ProofsArePresent, Decisive, Current

THEOREM AlwaysPresent == Spec => []EvidenceIsPresent
  BY TypeCorrect, InitPresent, NextPresent, PTL DEF Spec

\* While the revision stands for the text, no check is proven by a run that
\* saw another text than the present one.
THEOREM ProofsPresent == Spec => []ProofsArePresent
  BY AlwaysPresent, PresentProofs, PTL

-----------------------------------------------------------------------------
(***************************************************************************)
(* Success is earned: a task ends with it only where the completion policy *)
(* has just found it ready, and nothing happens after the end.             *)
(***************************************************************************)

OutcomeIsEarned == (outcome # "none" => pc = "done") /\ SuccessIsEarned

\* A task that is ready has earned its success.
LEMMA ReadyEarns ==
  ASSUME TypeOK, EvidenceIsPresent, Ready PROVE Earned
  <1>1. ASSUME NEW c \in DOMAIN plan
        PROVE  /\ \E i \in Current(c) : Earning(evidence[i])
               /\ \A i \in Current(c) : evidence[i].outcome # "failed"
    <2>1. Proven(c)
      BY <1>1 DEF Ready, Missing
    <2>2. PICK i \in Decisive(c) : ~evidence[i].own
      BY <2>1 DEF Proven
    <2>3. Earning(evidence[i]) /\ i \in Current(c)
      BY <2>1, <2>2 DEF Proven, Decisive, Current, Earning, EvidenceIsPresent
    <2>4. ASSUME NEW j \in Current(c) PROVE evidence[j].outcome # "failed"
      BY <2>1, <2>4 DEF Proven, Decisive
    <2>5. QED
      BY <2>3, <2>4
  <1>2. QED
    BY <1>1 DEF Ready, Earned

\* Steps that are not the end leave an outcome unset.
LEMMA OngoingEarned ==
  ASSUME OutcomeIsEarned, pc # "done", outcome' = outcome PROVE OutcomeIsEarned'
  BY DEF OutcomeIsEarned, SuccessIsEarned, Success

\* An end without success claims nothing.
LEMMA FailureEarned ==
  ASSUME NEW result \in {"blocked", "incomplete"}, End(result) PROVE OutcomeIsEarned'
  BY DEF End, OutcomeIsEarned, SuccessIsEarned, Success

LEMMA CompleteEarned ==
  ASSUME TypeOK, EvidenceIsPresent, Complete PROVE OutcomeIsEarned'
  <1>1. Earned
    BY ReadyEarns DEF Complete
  <1>2. UNCHANGED <<workspace, ledger, mode, touched, session, history>>
    BY DEF Complete, End
  <1>3. Earned'
    BY <1>1, <1>2
       DEF Earned, Earning, Current, Covered, Requirement, Regressions, workspace,
           ledger, session, history
  <1>4. pc' = "done" /\ (outcome' = "edited_and_validated" <=> hasEdit) /\ hasEdit' = hasEdit
    BY DEF Complete, End, ledger
  <1>5. QED
    BY <1>3, <1>4 DEF OutcomeIsEarned, SuccessIsEarned

LEMMA InitEarned == Init => OutcomeIsEarned
  BY DEF Init, OutcomeIsEarned, SuccessIsEarned, Success

LEMMA NextEarned ==
  TypeOK /\ EvidenceIsPresent /\ OutcomeIsEarned /\ [Next]_vars => OutcomeIsEarned'
  <1> SUFFICES ASSUME TypeOK, EvidenceIsPresent, OutcomeIsEarned, [Next]_vars
               PROVE  OutcomeIsEarned'
    OBVIOUS
  <1>1. ASSUME Executor PROVE pc # "done" /\ outcome' = outcome
    BY <1>1
       DEF Executor, NothingToRun, ObserveRun, AwaitRepair, GiveUp, CapabilityMissing,
           TargetUnresolved, Due, Decline, StartRun, EndRun
  <1>2. ASSUME Call PROVE pc # "done" /\ outcome' = outcome
    BY <1>2
       DEF Call, BeginCall, OtherCall, RecordEdit, StartCheck, ObserveCheck, SettleCheck,
           Edit, FailEdit, Rollback
  <1>3. ASSUME NEW f \in Files, ForeignWrite(f) PROVE pc # "done" /\ outcome' = outcome
    BY <1>3 DEF ForeignWrite, loop
  <1>4. ASSUME Turn PROVE OutcomeIsEarned'
    <2>1. ASSUME PrepareTurn \/ BuildContext \/ ToolReply PROVE OutcomeIsEarned'
      BY <2>1, OngoingEarned DEF PrepareTurn, BuildContext, ToolReply
    <2>2. ASSUME NextTurn, pc # "done" PROVE OutcomeIsEarned'
      BY <2>2, OngoingEarned DEF NextTurn
    <2>3. ASSUME TextReply \/ EndBatch PROVE OutcomeIsEarned'
      BY <2>2, <2>3, FailureEarned DEF TextReply, EndBatch
    <2>4. ASSUME StopBlocked \/ ControlStop \/ Exhaust PROVE OutcomeIsEarned'
      BY <2>4, FailureEarned DEF StopBlocked, ControlStop, Exhaust
    <2>5. QED
      BY <1>4, <2>1, <2>3, <2>4, CompleteEarned DEF Turn
  <1>5. ASSUME UNCHANGED vars PROVE OutcomeIsEarned'
    BY <1>5
       DEF vars, workspace, session, ledger, loop, history, OutcomeIsEarned,
           SuccessIsEarned, Earned, Earning, Current, Covered, Requirement, Regressions
  <1>6. QED
    BY <1>1, <1>2, <1>3, <1>4, <1>5, OngoingEarned DEF Next, Done

\* A task is reported as done only on proof of every check of its plan at
\* its last revision, the regression check of its mode among them.
THEOREM SuccessEarned == Spec => []SuccessIsEarned
  <1>1. Spec => []OutcomeIsEarned
    BY TypeCorrect, AlwaysPresent, InitEarned, NextEarned, PTL DEF Spec
  <1>2. OutcomeIsEarned => SuccessIsEarned
    BY DEF OutcomeIsEarned
  <1>3. QED
    BY <1>1, <1>2, PTL

-----------------------------------------------------------------------------
(***************************************************************************)
(* The plan after an edit.                                                 *)
(***************************************************************************)

\* Looking at files keeps what is known of Manifest up to date.
LEMMA LookProfile ==
  ASSUME ProfileIsPresent, UNCHANGED offer, NEW looked, NEW walk,
         unseen' = unseen \ looked, profile' = ProfileAfter(looked, walk)
  PROVE  ProfileIsPresent'
  BY DEF ProfileIsPresent, ProfileAfter, ProfileOf

\* A written Manifest is unseen.
LEMMA WriteProfile ==
  ASSUME ProfileIsPresent, NEW f, Write(f), UNCHANGED profile
  PROVE  ProfileIsPresent'
  BY DEF ProfileIsPresent, Write

LEMMA InitProfile == Init => ProfileIsPresent
  BY DEF Init, ProfileIsPresent, ProfileOf

LEMMA NextProfile == ProfileIsPresent /\ [Next]_vars => ProfileIsPresent'
  <1> SUFFICES ASSUME ProfileIsPresent, [Next]_vars PROVE ProfileIsPresent'
    OBVIOUS
  <1> USE DEF workspace, session, ledger, loop, history
  <1>1. ASSUME UNCHANGED <<offer, unseen, profile>> PROVE ProfileIsPresent'
    BY <1>1 DEF ProfileIsPresent
  <1>2. ASSUME Refresh, UNCHANGED offer PROVE ProfileIsPresent'
    BY <1>2, LookProfile DEF Refresh
  <1>3. ASSUME Executor PROVE ProfileIsPresent'
    <2>1. CASE ObserveRun
      BY <1>2, <2>1 DEF ObserveRun
    <2>2. CASE ~ObserveRun
      BY <1>1, <1>3, <2>2
         DEF Executor, NothingToRun, AwaitRepair, GiveUp, CapabilityMissing,
             TargetUnresolved, Decline, StartRun, EndRun
    <2>3. QED
      BY <2>1, <2>2
  <1>4. ASSUME Turn PROVE ProfileIsPresent'
    <2>1. ASSUME NEW result, End(result) PROVE ProfileIsPresent'
      BY <1>1, <2>1 DEF End
    <2>2. ASSUME NextTurn PROVE ProfileIsPresent'
      BY <1>1, <2>2 DEF NextTurn
    <2>3. ASSUME BuildContext PROVE ProfileIsPresent'
      BY <1>2, <2>3 DEF BuildContext
    <2>4. ASSUME PrepareTurn \/ ToolReply PROVE ProfileIsPresent'
      BY <1>1, <2>4 DEF PrepareTurn, ToolReply
    <2>5. QED
      BY <1>4, <2>1, <2>2, <2>3, <2>4
         DEF Turn, StopBlocked, Complete, ControlStop, Exhaust, TextReply, EndBatch
  <1>5. ASSUME Call PROVE ProfileIsPresent'
    <2>1. ASSUME BeginCall \/ OtherCall \/ ObserveCheck PROVE ProfileIsPresent'
      BY <1>1, <1>2, <2>1 DEF BeginCall, OtherCall, ObserveCheck
    <2>2. ASSUME StartCheck \/ SettleCheck PROVE ProfileIsPresent'
      BY <1>1, <2>2 DEF StartCheck, SettleCheck
    <2>3. ASSUME RecordEdit PROVE ProfileIsPresent'
      BY <2>3, LookProfile DEF RecordEdit
    <2>4. ASSUME NEW f \in Files, Edit(f) \/ FailEdit(f) \/ Rollback(f)
          PROVE  ProfileIsPresent'
      BY <2>4, WriteProfile DEF Edit, FailEdit, WriteEdit, Rollback
    <2>5. QED
      BY <1>5, <2>1, <2>2, <2>3, <2>4 DEF Call
  <1>6. ASSUME NEW f \in Files, ForeignWrite(f) PROVE ProfileIsPresent'
    BY <1>6, WriteProfile DEF ForeignWrite
  <1>7. QED
    BY <1>1, <1>3, <1>4, <1>5, <1>6 DEF Next, Done, vars

\* With a command to run, materialize_regression_checks leaves a plan that
\* has the regression check asked for.
LEMMA MaterializedCovers ==
  ASSUME plan \in Seq(ValidationCheck), NEW m, NEW t,
         NEW q \in Materialized(m, t, "runnable")
  PROVE  Covered(Requirement(m, t, "runnable"), q)
  <1> DEFINE requirement == Requirement(m, t, "runnable")
             check(target) == [purpose |-> "regression", semantic |-> FALSE,
                               full |-> requirement = "required", target |-> target]
  <1>1. CASE Covered(requirement, plan)
    BY <1>1 DEF Materialized
  <1>2. CASE ~Covered(requirement, plan)
    <2>1. PICK target : q = Append(plan, check(target))
      BY <1>2 DEF Materialized
    <2>2. Len(plan) + 1 \in DOMAIN q /\ q[Len(plan) + 1] = check(target)
      BY <2>1
    <2>3. Len(plan) + 1 \in Regressions(q)
      BY <2>2 DEF Regressions
    <2>4. check(target).full = (requirement = "required")
      OBVIOUS
    <2>5. requirement = "required" => q[Len(plan) + 1].full
      BY <2>2, <2>4, Zenon
    <2>6. QED
      BY <2>3, <2>5 DEF Covered
  <1>3. QED
    BY <1>1, <1>2

LEMMA EditCovered ==
  ASSUME TypeOK, ProfileIsPresent', [Next]_vars,
         pc = "edited", pc' = "batch", Runtime = "runnable", Manifest \notin unseen',
         tests # {} => profile'.tests # {}
  PROVE  Covered(Requirement(mode, touched, Runtime), plan')
  <1>1. RecordEdit
    BY DEF Next, Executor, Turn, Call, Done, vars, loop, NothingToRun, ObserveRun,
           AwaitRepair, GiveUp, CapabilityMissing, TargetUnresolved, Due, Decline,
           StartRun, EndRun, StopBlocked, Complete, ControlStop, Exhaust, PrepareTurn,
           BuildContext, TextReply, ToolReply, EndBatch, BeginCall, OtherCall, StartCheck,
           ObserveCheck, SettleCheck, Edit, FailEdit, Rollback, ForeignWrite
  <1>2. profile'.runtime = "runnable"
    <2>1. offer' = offer /\ profile'.runtime = Offered(offer, profile'.tests)
      BY <1>1 DEF RecordEdit, ProfileIsPresent, workspace
    <2>2. QED
      BY <2>1 DEF Runtime, Offered
  <1>3. plan' \in Materialized(mode, touched, "runnable")
    BY <1>1, <1>2 DEF RecordEdit
  <1>4. QED
    BY <1>3, MaterializedCovers DEF TypeOK

\* A recorded edit leaves a plan with the regression check its mode asks for,
\* unless a first test file came after the session made its profile.
THEOREM EditsCovered == Spec => EditsAreCovered
  <1>1. TypeOK /\ ProfileIsPresent' /\ [Next]_vars =>
          [pc = "edited" /\ pc' = "batch" /\ Runtime = "runnable" /\ Manifest \notin unseen'
             /\ (tests # {} => profile'.tests # {})
             => Covered(Requirement(mode, touched, Runtime), plan')]_vars
    BY EditCovered
  <1>2. Spec => []ProfileIsPresent
    BY InitProfile, NextProfile, PTL DEF Spec
  <1>3. QED
    BY <1>1, <1>2, TypeCorrect, PTL DEF Spec, EditsAreCovered

-----------------------------------------------------------------------------
(***************************************************************************)
(* The executor runs the validator of a check a bounded number of times at *)
(* one revision.  Two rules stop it, each with a count of its own: the     *)
(* inconclusive results in the ledger's evidence, and the crashes among    *)
(* its observations.  RunsInv charges every run to one of them.            *)
(***************************************************************************)

Crashes(c) == Observations(c, "crashed")
\* The newest evidence for the check waits for a repair.
Decided(c) == Prior(c, {"passed", "failed"})
\* The runs that evidence and observations account for, and the one that
\* has ended and is not observed yet.
Owed(c) == Inconclusives(c) + (IF Decided(c) THEN 1 ELSE 0) + Min2(Crashes(c), Patience - 1)
Unobserved(c) == IF pc = "ran" /\ run.result # "denied" /\ run.check = c THEN 1 ELSE 0

\* Nothing is ahead of the ledger's revision.
NoneAhead ==
    /\ \A b \in bodies : b.revision <= revision
    /\ \A i \in DOMAIN evidence : evidence[i].revision <= revision
\* Evidence of the present revision has a newest.
HaveNewest == \A c : Current(c) # {} => \E i \in Current(c) : Newest(Current(c), i)
\* A run in progress was due, and still is.
RunIsDue ==
    pc \in {"running", "ran"} =>
        /\ run.check # 0 /\ ~Proven(run.check) /\ ~Decided(run.check)
        /\ Inconclusives(run.check) < Patience
\* Before the first turn the first crash ends the loop of runs.
NoEarlyCrash ==
    step = 0 /\ pc \in {"validate", "running", "ran"} =>
        \A i \in DOMAIN observed : observed[i].status # "crashed"
\* Until a check blocks the task, all runs are accounted for.
Accounted ==
    pc \notin {"blocked", "done"} => \A c : RunsHere(c) <= Owed(c) + Unobserved(c)
RunsInv ==
    NoneAhead /\ HaveNewest /\ RunIsDue /\ NoEarlyCrash /\ Accounted /\ HarnessRunsBounded

-----------------------------------------------------------------------------

\* A part of a sequence's domain has a size.
LEMMA PartSize ==
  ASSUME NEW S, NEW q \in Seq(S), NEW T \in SUBSET DOMAIN q
  PROVE  IsFiniteSet(T) /\ Cardinality(T) \in Nat
  <1>1. DOMAIN q = 1..Len(q) /\ Len(q) \in Int
    OBVIOUS
  <1>2. IsFiniteSet(DOMAIN q)
    BY <1>1, FS_Interval
  <1>3. IsFiniteSet(T)
    BY <1>2, FS_Subset
  <1>4. QED
    BY <1>3, FS_CardinalityType

\* The counts are numbers.
LEMMA CountTypes ==
  ASSUME TypeOK, NEW c
  PROVE  /\ Inconclusives(c) \in Nat /\ Crashes(c) \in Nat /\ RunsHere(c) \in Nat
         /\ Owed(c) \in Nat
  <1>1. Inconclusives(c) \in Nat
    BY PartSize DEF TypeOK, Inconclusives, Current
  <1>2. Crashes(c) \in Nat
    BY PartSize DEF TypeOK, Crashes, Observations
  <1>3. Patience - 1 \in Nat
    BY Positive
  <1>4. QED
    BY <1>1, <1>2, <1>3, RunsHereType DEF Owed, Min2

\* After a step as well.
LEMMA NextOwedType ==
  ASSUME TypeOK', NEW c PROVE Owed(c)' \in Nat
  <1>1. Inconclusives(c)' \in Nat
    BY PartSize DEF TypeOK, Inconclusives, Current
  <1>2. Crashes(c)' \in Nat
    BY PartSize DEF TypeOK, Crashes, Observations
  <1>3. Patience - 1 \in Nat
    BY Positive
  <1>4. QED
    BY <1>1, <1>2, <1>3 DEF Owed, Min2

\* A run that is counted twice is one of at most two bounds.
LEMMA OwedBound ==
  ASSUME TypeOK, NEW c, ~Decided(c), Inconclusives(c) < Patience
  PROVE  Owed(c) <= 2 * Patience - 2
  <1>1. Inconclusives(c) \in Nat /\ Crashes(c) \in Nat /\ Patience \in Nat \ {0}
    BY CountTypes, Positive
  <1>2. Min2(Crashes(c), Patience - 1) <= Patience - 1
    BY <1>1 DEF Min2
  <1>3. Min2(Crashes(c), Patience - 1) \in Int
    BY <1>1 DEF Min2
  <1>4. QED
    BY <1>1, <1>2, <1>3 DEF Owed

\* The ledger and the executor's runs are left alone.
Untouched == UNCHANGED <<evidence, observed, revision, bodies>>

LEMMA UntouchedCounts ==
  ASSUME Untouched, NEW c
  PROVE  /\ Inconclusives(c)' = Inconclusives(c) /\ Crashes(c)' = Crashes(c)
         /\ RunsHere(c)' = RunsHere(c) /\ Owed(c)' = Owed(c)
         /\ (Decided(c)' <=> Decided(c)) /\ (Proven(c)' <=> Proven(c))
         /\ Current(c)' = Current(c)
  <1>1. Current(c)' = Current(c) /\ Decisive(c)' = Decisive(c) /\ evidence' = evidence
    BY DEF Untouched, Current, Decisive
  <1>2. Inconclusives(c)' = Inconclusives(c) /\ Crashes(c)' = Crashes(c)
    BY <1>1 DEF Untouched, Inconclusives, Crashes, Observations
  <1>3. RunsHere(c)' = RunsHere(c)
    BY DEF Untouched, RunsHere
  <1>4. (Decided(c)' <=> Decided(c)) /\ (Proven(c)' <=> Proven(c))
    BY <1>1 DEF Decided, Prior, Newest, Proven
  <1>5. QED
    BY <1>1, <1>2, <1>3, <1>4 DEF Owed

\* Steps that leave them alone and start no run.
LEMMA QuietRuns ==
  ASSUME TypeOK, RunsInv, Untouched,
         pc # "ran", pc' \notin {"running", "ran"},
         pc \in {"blocked", "done"} => pc' \in {"blocked", "done"},
         pc' = "validate" => step' # 0
  PROVE  RunsInv'
  <1>1. NoneAhead' /\ HarnessRunsBounded'
    BY DEF RunsInv, NoneAhead, HarnessRunsBounded, Untouched
  <1>2. HaveNewest'
    BY UntouchedCounts DEF RunsInv, HaveNewest, Newest
  <1>3. RunIsDue' /\ NoEarlyCrash'
    BY DEF RunIsDue, NoEarlyCrash
  <1>4. Accounted'
    <2> SUFFICES ASSUME pc' \notin {"blocked", "done"}, NEW c
                 PROVE  RunsHere(c)' <= Owed(c)' + Unobserved(c)'
      BY DEF Accounted
    <2>1. RunsHere(c) <= Owed(c)
      BY CountTypes DEF RunsInv, Accounted, Unobserved
    <2>2. Unobserved(c)' = 0
      BY DEF Unobserved
    <2>3. QED
      BY <2>1, <2>2, UntouchedCounts, CountTypes
  <1>5. QED
    BY <1>1, <1>2, <1>3, <1>4 DEF RunsInv

\* Steps of others.
LEMMA ForeignRuns ==
  ASSUME TypeOK, RunsInv, Untouched, UNCHANGED <<pc, step, run>>
  PROVE  RunsInv'
  <1>1. NoneAhead' /\ HarnessRunsBounded' /\ NoEarlyCrash'
    BY DEF RunsInv, NoneAhead, HarnessRunsBounded, NoEarlyCrash, Untouched
  <1>2. HaveNewest'
    BY UntouchedCounts DEF RunsInv, HaveNewest, Newest
  <1>3. RunIsDue'
    BY UntouchedCounts DEF RunsInv, RunIsDue
  <1>4. Accounted'
    BY UntouchedCounts DEF RunsInv, Accounted, Unobserved
  <1>5. QED
    BY <1>1, <1>2, <1>3, <1>4 DEF RunsInv

\* A new revision starts all counts again.
LEMMA RevisedCounts ==
  ASSUME TypeOK, TypeOK', NoneAhead, revision' = revision + 1,
         UNCHANGED <<evidence, bodies>>, NEW c
  PROVE  Current(c)' = {} /\ RunsHere(c)' = 0
  <1>1. revision \in Nat /\ \A i \in DOMAIN evidence : evidence[i].revision \in Nat
    BY EvidenceType DEF TypeOK
  <1>2. \A b \in bodies : b.revision \in Nat
    BY DEF TypeOK
  <1>3. Current(c)' = {}
    BY <1>1 DEF NoneAhead, Current
  <1>4. {b \in bodies' : b.check = c /\ b.revision = revision'} = {}
    BY <1>1, <1>2 DEF NoneAhead
  <1>5. RunsHere(c)' = Cardinality({})
    BY <1>4 DEF RunsHere
  <1>6. QED
    BY <1>3, <1>5, FS_EmptySet

LEMMA RevisedRuns ==
  ASSUME TypeOK, TypeOK', RunsInv, revision' = revision + 1,
         UNCHANGED <<evidence, bodies>>, pc' \notin {"running", "ran", "validate"}
  PROVE  RunsInv'
  <1>1. NoneAhead' /\ HarnessRunsBounded'
    <2>1. revision \in Nat /\ \A i \in DOMAIN evidence : evidence[i].revision \in Nat
      BY EvidenceType DEF TypeOK
    <2>2. \A b \in bodies : b.revision \in Nat
      BY DEF TypeOK
    <2>3. QED
      BY <2>1, <2>2 DEF RunsInv, NoneAhead, HarnessRunsBounded
  <1>2. HaveNewest'
    BY RevisedCounts DEF RunsInv, HaveNewest
  <1>3. RunIsDue' /\ NoEarlyCrash'
    BY DEF RunIsDue, NoEarlyCrash
  <1>4. Accounted'
    <2> SUFFICES ASSUME NEW c PROVE RunsHere(c)' <= Owed(c)' + Unobserved(c)'
      BY DEF Accounted
    <2>1. RunsHere(c)' = 0
      BY RevisedCounts DEF RunsInv
    <2>2. Owed(c)' \in Nat
      BY NextOwedType
    <2>3. Unobserved(c)' \in Nat
      BY DEF Unobserved
    <2>4. QED
      BY <2>1, <2>2, <2>3
  <1>5. QED
    BY <1>1, <1>2, <1>3, <1>4 DEF RunsInv

-----------------------------------------------------------------------------
(***************************************************************************)
(* What one observation does to the counts at an unchanged revision.       *)
(***************************************************************************)

Entry(own) ==
    [check |-> run.check, revision |-> revision, outcome |-> run.result,
     own |-> own, from |-> run.from, to |-> run.to]

\* New evidence is the newest of its check, and of no other.
LEMMA AppendedEvidence ==
  ASSUME TypeOK, NEW own \in BOOLEAN, run.result \in Outcomes,
         evidence' = Append(evidence, Entry(own)), revision' = revision, NEW c
  PROVE  LET n == Len(evidence) + 1
         IN  /\ evidence'[n] = Entry(own)
             /\ \A i \in DOMAIN evidence : i < n /\ evidence'[i] = evidence[i]
             /\ Current(c)' = IF run.check = c THEN Current(c) \cup {n} ELSE Current(c)
             /\ n \notin Current(c) /\ n \in Nat
  <1> DEFINE n == Len(evidence) + 1
  <1>1. evidence \in Seq(Evidence) /\ DOMAIN evidence = 1..Len(evidence) /\ Len(evidence) \in Nat
    BY DEF TypeOK
  <1>2. /\ DOMAIN evidence' = DOMAIN evidence \cup {n} /\ n \notin DOMAIN evidence
        /\ evidence'[n] = Entry(own)
        /\ \A i \in DOMAIN evidence : i < n /\ evidence'[i] = evidence[i]
    BY <1>1
  <1>3. Entry(own).check = run.check /\ Entry(own).revision = revision
    BY DEF Entry
  <1>4. Current(c)' = IF run.check = c THEN Current(c) \cup {n} ELSE Current(c)
    BY <1>2, <1>3 DEF Current
  <1>5. QED
    BY <1>1, <1>2, <1>4 DEF Current

LEMMA EvidenceCounts ==
  ASSUME TypeOK, NEW own \in BOOLEAN, run.result \in Outcomes,
         evidence' = Append(evidence, Entry(own)), UNCHANGED <<revision, observed>>, NEW c
  PROVE  /\ Owed(c) <= Owed(c)'
         /\ run.check = c /\ ~Decided(c) => Owed(c)' = Owed(c) + 1
  <1> DEFINE n == Len(evidence) + 1
             Open == {i \in Current(c) : evidence[i].outcome = "inconclusive"}
  <1>1. /\ evidence'[n] = Entry(own) /\ n \notin Current(c) /\ n \in Nat
        /\ \A i \in DOMAIN evidence : i < n /\ evidence'[i] = evidence[i]
        /\ Current(c)' = IF run.check = c THEN Current(c) \cup {n} ELSE Current(c)
    BY AppendedEvidence
  <1>2. Entry(own).outcome = run.result
    BY DEF Entry
  <1>3. Current(c) \subseteq DOMAIN evidence
    BY DEF Current
  <1>4. IsFiniteSet(Open) /\ Inconclusives(c) = Cardinality(Open)
    BY <1>3, PartSize DEF TypeOK, Inconclusives
  <1>5. Crashes(c)' = Crashes(c)
    BY DEF Crashes, Observations
  <1>6. Inconclusives(c) \in Nat /\ Min2(Crashes(c), Patience - 1) \in Nat
    BY CountTypes, Positive DEF Min2
  <1>7. CASE run.check # c
    <2>1. Inconclusives(c)' = Inconclusives(c)
      BY <1>1, <1>3, <1>7 DEF Inconclusives
    <2>2. Decided(c)' <=> Decided(c)
      BY <1>1, <1>3, <1>7 DEF Decided, Prior, Newest
    <2>3. QED
      BY <1>5, <1>6, <1>7, <2>1, <2>2 DEF Owed
  <1>8. CASE run.check = c
    <2>1. Newest(Current(c)', n) /\ \A i \in Current(c)' : Newest(Current(c)', i) => i = n
      <3>1. \A j \in Current(c)' : j <= n /\ j \in Nat
        BY <1>1, <1>3, <1>8 DEF TypeOK
      <3>2. QED
        BY <1>1, <1>8, <3>1 DEF Newest
    <2>2. Decided(c)' <=> run.result \in {"passed", "failed"}
      BY <1>1, <1>2, <2>1 DEF Decided, Prior, Newest
    <2>3. CASE run.result = "inconclusive"
      <3>1. {i \in Current(c)' : evidence'[i].outcome = "inconclusive"} = Open \cup {n}
        BY <1>1, <1>2, <1>3, <1>8, <2>3
      <3>2. Cardinality(Open \cup {n}) = Cardinality(Open) + 1
        BY <1>1, <1>4, FS_AddElement
      <3>3. Inconclusives(c)' = Inconclusives(c) + 1
        BY <1>4, <3>1, <3>2 DEF Inconclusives
      <3>4. QED
        BY <1>5, <1>6, <2>2, <2>3, <3>3 DEF Owed
    <2>4. CASE run.result \in {"passed", "failed"}
      <3>1. {i \in Current(c)' : evidence'[i].outcome = "inconclusive"} = Open
        BY <1>1, <1>2, <1>3, <1>8, <2>4
      <3>2. Inconclusives(c)' = Inconclusives(c)
        BY <1>4, <3>1 DEF Inconclusives
      <3>3. QED
        BY <1>5, <1>6, <2>2, <2>4, <3>2 DEF Owed
    <2>5. QED
      BY <2>3, <2>4 DEF Outcomes
  <1>9. QED
    BY <1>7, <1>8

\* A new observation counts as a crash of its check only.
LEMMA ObservationCounts ==
  ASSUME TypeOK, NEW d, NEW status, UNCHANGED <<evidence, revision>>,
         observed' = Append(observed, [check |-> d, revision |-> revision, status |-> status]),
         NEW c
  PROVE  /\ Inconclusives(c)' = Inconclusives(c)
         /\ (Decided(c)' <=> Decided(c)) /\ (Proven(c)' <=> Proven(c))
         /\ Crashes(c)' = IF d = c /\ status = "crashed" THEN Crashes(c) + 1 ELSE Crashes(c)
  <1> DEFINE n == Len(observed) + 1
             crash == [check |-> c, revision |-> revision, status |-> "crashed"]
             entry == [check |-> d, revision |-> revision, status |-> status]
             Seen == {i \in DOMAIN observed : observed[i] = crash}
             SeenNext == {i \in DOMAIN observed' : observed'[i] = crash}
  <1>1. Current(c)' = Current(c) /\ Decisive(c)' = Decisive(c)
    BY DEF Current, Decisive
  <1>2. Inconclusives(c)' = Inconclusives(c)
    BY <1>1 DEF Inconclusives
  <1>3. (Decided(c)' <=> Decided(c)) /\ (Proven(c)' <=> Proven(c))
    BY <1>1 DEF Decided, Prior, Newest, Proven
  <1>4. observed \in Seq(Observation) /\ n \in Nat
    BY DEF TypeOK
  <1>5. /\ DOMAIN observed' = DOMAIN observed \cup {n} /\ n \notin DOMAIN observed
        /\ observed'[n] = entry /\ \A i \in DOMAIN observed : observed'[i] = observed[i]
    BY <1>4
  <1>6. entry = crash <=> d = c /\ status = "crashed"
    OBVIOUS
  <1>7. SeenNext = IF entry = crash THEN Seen \cup {n} ELSE Seen
    BY <1>5
  <1>8. IsFiniteSet(Seen) /\ n \notin Seen
    BY <1>4, <1>5, PartSize
  <1>9. Cardinality(Seen \cup {n}) = Cardinality(Seen) + 1
    BY <1>8, FS_AddElement
  <1>10. Crashes(c) = Cardinality(Seen) /\ Crashes(c)' = Cardinality(SeenNext)
    BY DEF Crashes, Observations
  <1>11. QED
    BY <1>2, <1>3, <1>6, <1>7, <1>9, <1>10

\* What is owed to a check only grows while the revision stays.
LEMMA ObserveOwed ==
  ASSUME TypeOK, NEW own \in BOOLEAN, Observe(own), revision' = revision, NEW c
  PROVE  Owed(c) <= Owed(c)'
  <1>1. CASE run.check # 0 /\ run.result \in Outcomes
    <2>1. evidence' = Append(evidence, Entry(own)) /\ observed' = observed
      BY <1>1 DEF Observe, Entry, Outcomes
    <2>2. QED
      BY <1>1, <2>1, EvidenceCounts
  <1>2. CASE run.check # 0 /\ run.result = "crashed"
    <2>1. evidence' = evidence
      BY <1>2 DEF Observe, Outcomes
    <2>2. observed' = Append(observed, [check |-> run.check, revision |-> revision,
                                        status |-> "crashed"])
      BY <1>2 DEF Observe
    <2>3. /\ Inconclusives(c)' = Inconclusives(c) /\ (Decided(c)' <=> Decided(c))
          /\ Crashes(c)' \in {Crashes(c), Crashes(c) + 1}
      BY <2>1, <2>2, ObservationCounts
    <2>4. Crashes(c) \in Nat /\ Inconclusives(c) \in Nat /\ Patience \in Nat
      BY CountTypes, Positive
    <2>5. QED
      BY <2>3, <2>4 DEF Owed, Min2
  <1>3. CASE evidence' = evidence /\ observed' = observed
    <2>1. /\ Inconclusives(c)' = Inconclusives(c) /\ (Decided(c)' <=> Decided(c))
          /\ Crashes(c)' = Crashes(c)
      BY <1>3 DEF Inconclusives, Decided, Prior, Newest, Crashes, Observations, Current
    <2>2. Owed(c) \in Nat
      BY CountTypes
    <2>3. QED
      BY <2>1, <2>2 DEF Owed
  <1>4. QED
    BY <1>1, <1>2, <1>3 DEF Observe

LEMMA ObserveKeeps ==
  ASSUME TypeOK, RunsInv, NEW own \in BOOLEAN, Observe(own), UNCHANGED <<revision, bodies>>
  PROVE  NoneAhead' /\ HaveNewest' /\ HarnessRunsBounded'
  <1>1. HarnessRunsBounded' /\ \A b \in bodies' : b.revision <= revision'
    BY DEF RunsInv, NoneAhead, HarnessRunsBounded
  <1>2. CASE evidence' = evidence
    <2>1. \A c : Current(c)' = Current(c)
      BY <1>2 DEF Current
    <2>2. QED
      BY <1>1, <1>2, <2>1 DEF RunsInv, NoneAhead, HaveNewest, Newest
  <1>3. CASE evidence' # evidence
    <2> DEFINE n == Len(evidence) + 1
    <2>1. evidence' = Append(evidence, Entry(own)) /\ run.result \in Outcomes
      BY <1>3 DEF Observe, Entry
    <2>2. evidence \in Seq(Evidence) /\ DOMAIN evidence' = DOMAIN evidence \cup {n}
      BY <2>1 DEF TypeOK
    <2>3. \A c : /\ evidence'[n] = Entry(own) /\ n \notin Current(c) /\ n \in Nat
                 /\ \A i \in DOMAIN evidence : i < n /\ evidence'[i] = evidence[i]
                 /\ Current(c)' = IF run.check = c THEN Current(c) \cup {n} ELSE Current(c)
      BY <2>1, AppendedEvidence
    <2>4. Entry(own).revision = revision /\ revision \in Nat
      BY DEF Entry, TypeOK
    <2>5. \A i \in DOMAIN evidence' : evidence'[i].revision <= revision'
      BY <2>2, <2>3, <2>4 DEF RunsInv, NoneAhead
    <2>6. ASSUME NEW c, Current(c)' # {} PROVE \E i \in Current(c)' : Newest(Current(c)', i)
      <3>1. CASE run.check = c
        <4>1. n \in Current(c)' /\ \A j \in Current(c)' : j <= n
          BY <2>2, <2>3, <3>1 DEF Current
        <4>2. QED
          BY <4>1 DEF Newest
      <3>2. CASE run.check # c
        BY <2>3, <2>6, <3>2 DEF RunsInv, HaveNewest, Newest
      <3>3. QED
        BY <3>1, <3>2
    <2>7. HaveNewest'
      BY <2>6 DEF HaveNewest, Newest
    <2>8. QED
      BY <1>1, <2>5, <2>7 DEF NoneAhead
  <1>4. QED
    BY <1>2, <1>3

-----------------------------------------------------------------------------
(***************************************************************************)
(* The steps of a run.                                                     *)
(***************************************************************************)

\* A run that is due was not decided, and had fewer results than allowed.
LEMMA DueRuns ==
  ASSUME TypeOK, RunsInv, NEW c \in DOMAIN plan, Due(c)
  PROVE  ~Proven(c) /\ ~Decided(c) /\ Inconclusives(c) < Patience
  <1>1. ~Proven(c) /\ ~Decided(c)
    BY DEF Due, NextCheck, Missing, Decided
  <1>2. Inconclusives(c) \in Nat /\ Patience \in Nat \ {0}
    BY CountTypes, Positive
  <1>3. CASE Prior(c, {"inconclusive"})
    <2>1. ~Undecidable(c)
      BY <1>3, Zenon DEF Due
    <2>2. QED
      BY <1>1, <1>2, <2>1 DEF Undecidable
  <1>4. CASE ~Prior(c, {"inconclusive"})
    <2>1. \A i \in Current(c) : evidence[i].outcome \in Outcomes
      <3>1. \A i \in DOMAIN evidence : evidence[i] \in Evidence
        BY DEF TypeOK
      <3>2. QED
        BY <3>1 DEF Current, Evidence
    <2>2. Current(c) = {}
      BY <1>1, <1>4, <2>1 DEF RunsInv, HaveNewest, Decided, Prior, Outcomes
    <2>3. {i \in Current(c) : evidence[i].outcome = "inconclusive"} = {}
      BY <2>2
    <2>4. QED
      <3>1. Inconclusives(c) = Cardinality({})
        BY <2>3, Zenon DEF Inconclusives
      <3>2. QED
        BY <1>1, <1>2, <3>1, FS_EmptySet
  <1>5. QED
    BY <1>1, <1>3, <1>4

LEMMA StartedRuns ==
  ASSUME TypeOK, RunsInv, NEW c \in DOMAIN plan, StartRun(c)
  PROVE  RunsInv'
  <1>1. Untouched
    BY DEF StartRun, Untouched, ledger, history
  <1>2. pc = "validate" /\ pc' = "running" /\ step' = step /\ run'.check = c
    BY DEF StartRun, Due
  <1>3. NoneAhead' /\ HarnessRunsBounded'
    BY <1>1 DEF RunsInv, NoneAhead, HarnessRunsBounded, Untouched
  <1>4. HaveNewest'
    BY <1>1, UntouchedCounts DEF RunsInv, HaveNewest, Newest
  <1>5. RunIsDue'
    <2>1. ~Proven(c) /\ ~Decided(c) /\ Inconclusives(c) < Patience
      BY DueRuns DEF StartRun
    <2>2. ~Proven(c)' /\ ~Decided(c)' /\ Inconclusives(c)' < Patience
      BY <1>1, <2>1, UntouchedCounts
    <2>3. c # 0
      BY DEF TypeOK
    <2>4. QED
      BY <1>2, <2>2, <2>3 DEF RunIsDue, Proven, Decided, Prior, Inconclusives, Decisive, Current
  <1>6. NoEarlyCrash'
    BY <1>1, <1>2 DEF RunsInv, NoEarlyCrash, Untouched
  <1>7. Accounted'
    BY <1>1, <1>2, UntouchedCounts DEF RunsInv, Accounted, Unobserved
  <1>8. QED
    BY <1>3, <1>4, <1>5, <1>6, <1>7 DEF RunsInv

\* One run more is recorded of its check, and of no other.
LEMMA RecordedRun ==
  ASSUME TypeOK, NEW b, b.check = run.check, b.revision = revision,
         bodies' = bodies \cup {b}, revision' = revision, NEW c
  PROVE  /\ RunsHere(c)' <= RunsHere(c) + (IF run.check = c THEN 1 ELSE 0)
         /\ RunsHere(c)' \in Nat
  <1> DEFINE S == {x \in bodies : x.check = c /\ x.revision = revision}
             T == {x \in bodies' : x.check = c /\ x.revision = revision'}
  <1>1. IsFiniteSet(S) /\ Cardinality(S) \in Nat
    <2>1. IsFiniteSet(S)
      BY FS_Subset DEF TypeOK
    <2>2. QED
      BY <2>1, FS_CardinalityType
  <1>2. T = IF run.check = c THEN S \cup {b} ELSE S
    OBVIOUS
  <1>3. Cardinality(S \cup {b}) \in {Cardinality(S), Cardinality(S) + 1}
    BY <1>1, FS_AddElement
  <1>4. RunsHere(c) = Cardinality(S) /\ RunsHere(c)' = Cardinality(T)
    BY DEF RunsHere
  <1> HIDE DEF S, T
  <1>5. CASE run.check = c
    BY <1>1, <1>2, <1>3, <1>4, <1>5
  <1>6. CASE run.check # c
    BY <1>1, <1>2, <1>4, <1>6
  <1>7. QED
    BY <1>5, <1>6

LEMMA EndedRuns ==
  ASSUME TypeOK, RunsInv, NEW result \in Results, EndRun(result)
  PROVE  RunsInv'
  <1>1. UNCHANGED <<evidence, observed, revision, step>> /\ run'.check = run.check
    BY DEF EndRun, ledger, TypeOK
  <1>2. \A c : /\ Owed(c)' = Owed(c) /\ (Decided(c)' <=> Decided(c))
               /\ (Proven(c)' <=> Proven(c)) /\ Inconclusives(c)' = Inconclusives(c)
               /\ Current(c)' = Current(c)
    BY <1>1
       DEF Owed, Decided, Prior, Newest, Proven, Decisive, Current, Inconclusives, Crashes,
           Observations
  <1>3. HaveNewest' /\ NoEarlyCrash'
    BY <1>1, <1>2 DEF RunsInv, HaveNewest, NoEarlyCrash, Newest, EndRun
  <1>4. RunIsDue'
    BY <1>1, <1>2 DEF RunsInv, RunIsDue, EndRun
  <1>5. CASE pc = "running" /\ result # "denied"
    <2> DEFINE b == [check |-> run.check, revision |-> revision,
                     nth |-> 1 + RunsHere(run.check)]
    <2>1. bodies' = bodies \cup {b} /\ pc' = "ran" /\ run'.result # "denied"
      BY <1>5 DEF EndRun, TypeOK
    <2>2. \A c : RunsHere(c) <= Owed(c) /\ RunsHere(c) \in Nat /\ Owed(c) \in Nat
      BY <1>5, CountTypes DEF RunsInv, Accounted, Unobserved
    <2>3. Owed(run.check) <= 2 * Patience - 2
      BY <1>5, OwedBound DEF RunsInv, RunIsDue
    <2>4. b.nth <= 2 * Patience - 1
      BY <2>2, <2>3, Positive
    <2>5. HarnessRunsBounded'
      BY <2>1, <2>4 DEF RunsInv, HarnessRunsBounded
    <2>6. revision \in Nat
      BY DEF TypeOK
    <2>7. NoneAhead'
      BY <1>1, <2>1, <2>6 DEF RunsInv, NoneAhead
    <2>8. \A c : /\ RunsHere(c)' <= RunsHere(c) + (IF run.check = c THEN 1 ELSE 0)
                 /\ RunsHere(c)' \in Nat
      BY <1>1, <2>1, RecordedRun
    <2>9. Accounted'
      BY <1>1, <1>2, <2>1, <2>2, <2>8 DEF Accounted, Unobserved
    <2>10. QED
      BY <1>3, <1>4, <2>5, <2>7, <2>9 DEF RunsInv
  <1>6. CASE ~(pc = "running" /\ result # "denied")
    <2>1. bodies' = bodies
      BY <1>6 DEF EndRun
    <2>2. NoneAhead' /\ HarnessRunsBounded'
      BY <1>1, <2>1 DEF RunsInv, NoneAhead, HarnessRunsBounded
    <2>3. \A c : RunsHere(c)' = RunsHere(c) /\ RunsHere(c) \in Nat /\ Owed(c) \in Nat
      BY <1>1, <2>1, CountTypes DEF RunsHere
    <2>4. Unobserved(run.check)' = 0 /\ \A c : Unobserved(c) = 0 /\ Unobserved(c)' = 0
      BY <1>6 DEF EndRun, Unobserved, TypeOK
    <2>5. Accounted'
      BY <1>2, <2>3, <2>4 DEF RunsInv, Accounted, EndRun
    <2>6. QED
      BY <1>3, <1>4, <2>2, <2>5 DEF RunsInv
  <1>7. QED
    BY <1>5, <1>6

\* The run that has ended is accounted for by what is observed of it,
\* unless it blocks the task.
LEMMA ObservedRun ==
  ASSUME TypeOK, RunsInv, Observe(FALSE), revision' = revision, pc = "ran",
         NEW c, c = run.check, run.result # "denied",
         ~ (/\ evidence' = evidence /\ (hasEdit \/ step > 0)
            /\ Crashes(c)' >= Patience)
  PROVE  Owed(c) + 1 <= Owed(c)'
  <1>1. c # 0 /\ ~Decided(c) /\ Owed(c) \in Nat
    BY CountTypes DEF RunsInv, RunIsDue
  <1>2. CASE run.result \in Outcomes
    <2>1. evidence' = Append(evidence, Entry(FALSE)) /\ observed' = observed
      BY <1>1, <1>2 DEF Observe, Entry, Outcomes
    <2>2. Owed(c)' = Owed(c) + 1
      BY <1>1, <1>2, <2>1, EvidenceCounts
    <2>3. QED
      BY <1>1, <2>2
  <1>3. CASE run.result = "crashed"
    <2>1. evidence' = evidence
      BY <1>3 DEF Observe, Outcomes
    <2>2. observed' = Append(observed, [check |-> c, revision |-> revision,
                                        status |-> "crashed"])
      BY <1>1, <1>3 DEF Observe
    <2>3. /\ Inconclusives(c)' = Inconclusives(c) /\ (Decided(c)' <=> Decided(c))
          /\ Crashes(c)' = Crashes(c) + 1
      BY <2>1, <2>2, ObservationCounts
    <2>4. /\ Crashes(c) \in Nat /\ Inconclusives(c) \in Nat
          /\ Patience \in Nat /\ Patience >= 2
      BY CountTypes, Positive, Retried
    <2>5. Crashes(c) + 1 < Patience \/ Crashes(c) = 0
      <3>1. CASE step = 0
        <4>1. {i \in DOMAIN observed : observed[i] =
                 [check |-> c, revision |-> revision, status |-> "crashed"]} = {}
          BY <3>1 DEF RunsInv, NoEarlyCrash
        <4>2. Crashes(c) = Cardinality({})
          BY <4>1, Zenon DEF Crashes, Observations
        <4>3. QED
          BY <4>2, FS_EmptySet
      <3>2. CASE step # 0
        BY <2>1, <2>3, <2>4, <3>2 DEF TypeOK
      <3>3. QED
        BY <3>1, <3>2
    <2>6. QED
      BY <1>1, <2>3, <2>4, <2>5 DEF Owed, Min2
  <1>4. QED
    BY <1>2, <1>3 DEF TypeOK, Results

LEMMA ObservedRuns ==
  ASSUME TypeOK, TypeOK', RunsInv, ObserveRun
  PROVE  RunsInv'
  <1> PICK c : c = run.check
    OBVIOUS
  <1>1. /\ pc = "ran" /\ Observe(FALSE) /\ UNCHANGED <<step, bodies, hasEdit>>
        /\ (revision' = revision \/ revision' = revision + 1) /\ revision \in Nat
    BY DEF ObserveRun, Refresh, TypeOK
  <1>2. c # 0 /\ ~Proven(c) /\ ~Decided(c)
    BY <1>1 DEF RunsInv, RunIsDue
  \* Only new evidence proves the check.
  <1>3. evidence' = evidence => ~Proven(c)'
    <2>1. CASE evidence' = evidence /\ revision' = revision
      BY <1>2, <2>1 DEF Proven, Decisive, Current, Newest
    <2>2. CASE evidence' = evidence /\ revision' = revision + 1
      <3>1. Current(c)' = {}
        BY <1>1, <2>2, RevisedCounts DEF RunsInv
      <3>2. QED
        BY <3>1 DEF Proven, Decisive
    <2>3. QED
      BY <1>1, <2>1, <2>2
  <1>4. /\ pc' \in {"blocked", "validate", "ready"} /\ (pc' = "validate" => Proven(c)')
        /\ evidence' = evidence /\ (hasEdit \/ step > 0) /\ Crashes(c)' >= Patience
             => pc' = "blocked"
    <2>1. pc' = CASE /\ evidence' = evidence /\ (hasEdit \/ step > 0)
                     /\ Observations(c, "crashed")' >= Patience -> "blocked"
                  [] Proven(c)' -> "validate"
                  [] OTHER -> "ready"
      BY Zenon DEF ObserveRun
    <2>2. QED
      BY <1>3, <2>1 DEF Crashes
  <1>5. CASE revision' = revision + 1
    <2>1. evidence' = evidence
      BY <1>1, <1>5 DEF Observe
    <2>2. QED
      BY <1>1, <1>3, <1>4, <1>5, <2>1, RevisedRuns
  <1>6. CASE revision' = revision
    <2>1. NoneAhead' /\ HaveNewest' /\ HarnessRunsBounded'
      BY <1>1, <1>6, ObserveKeeps
    <2>2. RunIsDue'
      BY <1>4 DEF RunIsDue
    <2>3. NoEarlyCrash'
      <3> SUFFICES ASSUME step' = 0, pc' = "validate"
                   PROVE  \A i \in DOMAIN observed' : observed'[i].status # "crashed"
        BY <1>4 DEF NoEarlyCrash
      <3>1. evidence' # evidence
        BY <1>3, <1>4
      <3>2. observed' = observed
        BY <1>1, <3>1 DEF Observe, Outcomes
      <3>3. QED
        BY <1>1, <3>2 DEF RunsInv, NoEarlyCrash
    <2>4. ASSUME pc' # "blocked", NEW d
          PROVE  RunsHere(d)' <= Owed(d)' + Unobserved(d)'
      <3>1. /\ Owed(d) \in Nat /\ RunsHere(d) \in Nat /\ Owed(d)' \in Nat
            /\ RunsHere(d)' = RunsHere(d) /\ Unobserved(d)' = 0
        BY <1>1, <1>4, <1>6, CountTypes, NextOwedType DEF RunsHere, Unobserved
      <3>2. RunsHere(d) <= Owed(d) + Unobserved(d) /\ Owed(d) <= Owed(d)'
        BY <1>1, <1>6, ObserveOwed DEF RunsInv, Accounted
      <3>3. CASE Unobserved(d) = 0
        BY <3>1, <3>2, <3>3
      <3>4. CASE Unobserved(d) = 1
        <4>1. run.result # "denied" /\ d = c
          BY <3>4 DEF Unobserved
        <4>2. Owed(d) + 1 <= Owed(d)'
          BY <1>1, <1>4, <1>6, <2>4, <4>1, ObservedRun
        <4>3. QED
          BY <3>1, <3>2, <3>4, <4>2
      <3>5. QED
        BY <3>3, <3>4 DEF Unobserved
    <2>5. Accounted'
      BY <2>4 DEF Accounted
    <2>6. QED
      BY <2>1, <2>2, <2>3, <2>5 DEF RunsInv
  <1>7. QED
    BY <1>1, <1>5, <1>6

LEMMA CheckedRuns ==
  ASSUME TypeOK, TypeOK', RunsInv, ObserveCheck
  PROVE  RunsInv'
  <1>1. PICK own \in BOOLEAN : Observe(own)
    BY DEF ObserveCheck
  <1>2. /\ pc = "checked" /\ pc' = "settled" /\ UNCHANGED bodies
        /\ (revision' = revision \/ revision' = revision + 1) /\ revision \in Nat
    BY DEF ObserveCheck, Refresh, TypeOK
  <1>3. CASE revision' = revision + 1
    <2>1. evidence' = evidence
      BY <1>1, <1>2, <1>3 DEF Observe
    <2>2. QED
      BY <1>2, <1>3, <2>1, RevisedRuns
  <1>4. CASE revision' = revision
    <2>1. NoneAhead' /\ HaveNewest' /\ HarnessRunsBounded'
      BY <1>1, <1>2, <1>4, ObserveKeeps
    <2>2. RunIsDue' /\ NoEarlyCrash'
      BY <1>2 DEF RunIsDue, NoEarlyCrash
    <2>3. ASSUME NEW d PROVE RunsHere(d)' <= Owed(d)' + Unobserved(d)'
      <3>1. /\ Owed(d) \in Nat /\ RunsHere(d) \in Nat /\ Owed(d)' \in Nat
            /\ RunsHere(d)' = RunsHere(d) /\ Unobserved(d)' = 0 /\ Unobserved(d) = 0
        BY <1>2, <1>4, CountTypes, NextOwedType DEF RunsHere, Unobserved
      <3>2. RunsHere(d) <= Owed(d) + Unobserved(d) /\ Owed(d) <= Owed(d)'
        BY <1>1, <1>2, <1>4, ObserveOwed DEF RunsInv, Accounted
      <3>3. QED
        BY <3>1, <3>2
    <2>4. Accounted'
      BY <2>3 DEF Accounted
    <2>5. QED
      BY <2>1, <2>2, <2>4 DEF RunsInv
  <1>5. QED
    BY <1>2, <1>3, <1>4

\* A target that is not found counts as no crash.
LEMMA UnresolvedRuns ==
  ASSUME TypeOK, RunsInv, NEW c, TargetUnresolved(c)
  PROVE  RunsInv'
  <1>1. /\ UNCHANGED <<evidence, revision, bodies, step>>
        /\ pc = "validate" /\ pc' \in {"blocked", "ready"}
        /\ \/ observed' = observed
           \/ observed' = Append(observed, [check |-> c, revision |-> revision,
                                            status |-> "target_unresolved"])
    BY DEF TargetUnresolved, Due, Decline, history
  <1>2. CASE observed' = observed
    BY <1>1, <1>2, QuietRuns DEF Untouched
  <1>3. CASE observed' = Append(observed, [check |-> c, revision |-> revision,
                                           status |-> "target_unresolved"])
    <2>1. \A d : /\ Owed(d)' = Owed(d) /\ Current(d)' = Current(d)
                 /\ RunsHere(d)' = RunsHere(d)
      <3> TAKE d
      <3>1. /\ Inconclusives(d)' = Inconclusives(d) /\ (Decided(d)' <=> Decided(d))
            /\ Crashes(d)' = Crashes(d)
        BY <1>1, <1>3, ObservationCounts
      <3>2. QED
        BY <1>1, <3>1 DEF Owed, Current, RunsHere
    <2>2. NoneAhead' /\ HaveNewest' /\ HarnessRunsBounded'
      BY <1>1, <2>1 DEF RunsInv, NoneAhead, HaveNewest, Newest, HarnessRunsBounded
    <2>3. RunIsDue' /\ NoEarlyCrash'
      BY <1>1 DEF RunIsDue, NoEarlyCrash
    <2>4. Accounted'
      BY <1>1, <2>1 DEF RunsInv, Accounted, Unobserved
    <2>5. QED
      BY <2>2, <2>3, <2>4 DEF RunsInv
  <1>4. QED
    BY <1>1, <1>2, <1>3

-----------------------------------------------------------------------------
(***************************************************************************)
(* RunsInv is inductive with TypeOK.                                       *)
(***************************************************************************)

\* A refresh leaves the ledger alone, or begins a revision.
LEMMA RefreshRuns ==
  ASSUME TypeOK, TypeOK', RunsInv, Refresh, UNCHANGED <<evidence, observed, bodies>>,
         pc \notin {"ran", "blocked", "done"}, pc' \notin {"running", "ran", "validate"}
  PROVE  RunsInv'
  <1>1. CASE revision' = revision
    BY <1>1, QuietRuns DEF Untouched
  <1>2. CASE revision' = revision + 1
    BY <1>2, RevisedRuns
  <1>3. QED
    BY <1>1, <1>2 DEF Refresh

LEMMA InitRuns == Init => RunsInv
  <1> SUFFICES ASSUME Init PROVE RunsInv
    OBVIOUS
  <1>1. TypeOK
    BY InitType
  <1>2. NoneAhead /\ HarnessRunsBounded /\ RunIsDue /\ NoEarlyCrash
    BY DEF Init, NoneAhead, HarnessRunsBounded, RunIsDue, NoEarlyCrash
  <1>3. HaveNewest
    BY DEF Init, HaveNewest, Current
  <1>4. ASSUME NEW c PROVE RunsHere(c) <= Owed(c) + Unobserved(c)
    <2>1. {b \in bodies : b.check = c /\ b.revision = revision} = {}
      BY DEF Init
    <2>2. RunsHere(c) = 0
      BY <2>1, FS_EmptySet DEF RunsHere
    <2>3. Owed(c) \in Nat /\ Unobserved(c) \in Nat
      BY <1>1, CountTypes DEF Unobserved
    <2>4. QED
      BY <2>2, <2>3
  <1>5. QED
    BY <1>2, <1>3, <1>4 DEF RunsInv, Accounted

LEMMA NextRuns == TypeOK /\ TypeOK' /\ RunsInv /\ [Next]_vars => RunsInv'
  <1> SUFFICES ASSUME TypeOK, TypeOK', RunsInv, [Next]_vars PROVE RunsInv'
    OBVIOUS
  <1> USE DEF workspace, session, ledger, loop, history
  <1>1. ASSUME NothingToRun \/ PrepareTurn \/ ToolReply \/ SettleCheck \/ StartCheck
        PROVE  RunsInv'
    BY <1>1, QuietRuns
       DEF NothingToRun, PrepareTurn, ToolReply, SettleCheck, StartCheck, EndCall, Untouched
  <1>2. ASSUME NEW c \in DOMAIN plan, AwaitRepair(c) \/ GiveUp(c) \/ CapabilityMissing(c)
        PROVE  RunsInv'
    BY <1>2, QuietRuns DEF AwaitRepair, GiveUp, CapabilityMissing, Due, Decline, Untouched
  <1>3. ASSUME NEW result, End(result), pc # "ran" PROVE RunsInv'
    BY <1>3, QuietRuns DEF End, Untouched
  <1>4. ASSUME NextTurn, pc \notin {"ran", "blocked", "done"} PROVE RunsInv'
    <2>1. step' # 0
      BY <1>4 DEF NextTurn, NextStep, TypeOK
    <2>2. QED
      BY <1>4, <2>1, QuietRuns DEF NextTurn, Untouched
  <1>5. ASSUME StopBlocked \/ Complete \/ ControlStop \/ Exhaust \/ TextReply \/ EndBatch
        PROVE  RunsInv'
    BY <1>3, <1>4, <1>5 DEF StopBlocked, Complete, ControlStop, Exhaust, TextReply, EndBatch
  <1>6. ASSUME BuildContext \/ BeginCall PROVE RunsInv'
    BY <1>6, RefreshRuns DEF BuildContext, BeginCall
  <1>7. ASSUME OtherCall PROVE RunsInv'
    BY <1>7, RefreshRuns, QuietRuns DEF OtherCall, EndCall, Untouched
  <1>8. ASSUME NEW f \in Files, Edit(f) \/ FailEdit(f) PROVE RunsInv'
    BY <1>8, QuietRuns DEF Edit, FailEdit, EndCall, Untouched
  <1>9. ASSUME RecordEdit PROVE RunsInv'
    BY <1>9, RevisedRuns DEF RecordEdit, EndCall
  <1>10. ASSUME NEW f \in Files, Rollback(f) PROVE RunsInv'
    BY <1>10, RevisedRuns DEF Rollback
  <1>11. ASSUME NEW f \in Files, ForeignWrite(f) PROVE RunsInv'
    BY <1>11, ForeignRuns DEF ForeignWrite, Untouched
  <1>12. ASSUME UNCHANGED vars PROVE RunsInv'
    BY <1>12, ForeignRuns DEF vars, Untouched
  <1>13. ASSUME Executor PROVE RunsInv'
    BY <1>1, <1>2, <1>13, StartedRuns, EndedRuns, ObservedRuns, UnresolvedRuns DEF Executor
  <1>14. ASSUME Turn PROVE RunsInv'
    BY <1>1, <1>5, <1>6, <1>14 DEF Turn
  <1>15. ASSUME Call PROVE RunsInv'
    BY <1>1, <1>6, <1>7, <1>8, <1>9, <1>10, <1>15, CheckedRuns DEF Call
  <1>16. QED
    BY <1>11, <1>12, <1>13, <1>14, <1>15 DEF Next, Done

\* The executor runs the validator of a check at most three times (twice
\* the limit, less one) at one revision, whatever the runs come to.
THEOREM RunsBounded == Spec => []HarnessRunsBounded
  <1>1. Spec => []RunsInv
    BY TypeCorrect, InitRuns, NextRuns, PTL DEF Spec
  <1>2. RunsInv => HarnessRunsBounded
    BY DEF RunsInv
  <1>3. QED
    BY <1>1, <1>2, PTL

=============================================================================

---------------------------- MODULE TurnsProofs ----------------------------
(***************************************************************************)
(* For any plans, validation keys, limits and batches of any length: the   *)
(* history of messages that is sent or extended is never refused, unless   *)
(* the provider itself repeated or left out a call id; no step that has    *)
(* used up its attempts is worked on again; completed work stays, and is   *)
(* not asked for again.                                                    *)
(*                                                                         *)
(* HistoryInv says where in the batch the unanswered calls are; each way   *)
(* out of a batch is a use of Continue or of CloseBatch, so that these two *)
(* carry the argument.                                                     *)
(*                                                                         *)
(* PlanInv says that the steps of a running task's plan are all unfinished *)
(* and have ids of their own, and that failures are charged to the first   *)
(* of them or to none.  Each operation on plans has a lemma saying that    *)
(* its result is such a plan and goes on from the one before; an action    *)
(* is then a chain of them.                                                *)
(***************************************************************************)
EXTENDS Turns, WellFoundedInduction, TLAPS

-----------------------------------------------------------------------------
(***************************************************************************)
(* The history of messages                                                 *)
(***************************************************************************)

\* In a batch exactly the calls from `index` on are unanswered, elsewhere
\* none; a message is out of place only by the provider's own ids.
HistoryInv ==
    /\ index \in Nat /\ calls \in Nat
    /\ broken \in BOOLEAN /\ malformed \in BOOLEAN
    /\ broken => malformed
    /\ pending = IF pc = "batch" THEN index..calls ELSE {}
    /\ pc = "error" => malformed

\* The next state of the message history and of the loop, for actions that
\* leave the ids of the provider's reply alone.
LEMMA SayKeeps ==
    ASSUME HistoryInv, pc # "batch" \/ index > calls, Say,
           UNCHANGED <<malformed, index, calls>>, pc' \notin {"batch", "error"}
    PROVE  HistoryInv'
BY DEF HistoryInv, Say

LEMMA QuietKeeps ==
    ASSUME HistoryInv, pc # "batch" \/ index > calls, UNCHANGED messages,
           UNCHANGED <<malformed, index, calls>>, pc' \notin {"batch", "error"}
    PROVE  HistoryInv'
BY DEF HistoryInv, messages

\* Calls are answered one by one.
LEMMA ContinueKeeps ==
    ASSUME HistoryInv, Calling, Continue, UNCHANGED <<malformed, calls>>
    PROVE  HistoryInv'
<1>1. pending' = (index + 1)..calls
  BY DEF HistoryInv, Calling, Continue, Answered
<1> QED BY <1>1 DEF HistoryInv, Calling, Continue

\* Whatever ends the batch early answers all the calls that are left.
LEMMA CloseBatchKeeps ==
    ASSUME HistoryInv, Calling, NEW to, to \notin {"batch", "error"}, CloseBatch(to),
           UNCHANGED <<malformed, calls>>
    PROVE  HistoryInv'
<1>1. pending' = {}
  BY DEF HistoryInv, Calling, CloseBatch, Answered
<1> QED BY <1>1 DEF HistoryInv, Calling, CloseBatch

LEMMA TurnsOn == Turn \notin {"batch", "error"} /\ \A l : To(l) \notin {"batch", "error"}
BY DEF Turn, To

\* The steps between batches.
LEMMA BetweenBatches ==
    ASSUME HistoryInv,
           \/ \E result \in Results, n \in Counts : HarnessRun(result, n)
           \/ \E n \in Counts : HarnessIdle(n)
           \/ HarnessBlocked
           \/ \E m \in Modes, p \in Plans : Prepare(m, p)
           \/ BeginTurn \/ BeginEdit \/ BeginWarned \/ BeginStopped
           \/ \E names \in Revisions : BeginReplanned(names)
           \/ \E n \in Counts : Finalize(n)
           \/ \E n \in Counts, blocks \in BOOLEAN : ReplyText(n, blocks)
           \/ \E n \in Counts : Exhausted(n)
    PROVE  HistoryInv'
<1>1. ASSUME NEW result \in Results, NEW n \in Counts, HarnessRun(result, n)
      PROVE  HistoryInv'
  BY <1>1, SayKeeps, QuietKeeps DEF HarnessRun
<1>2. ASSUME NEW n \in Counts, HarnessIdle(n) PROVE HistoryInv'
  BY <1>2, QuietKeeps DEF HarnessIdle
<1>3. ASSUME HarnessBlocked PROVE HistoryInv'
  BY <1>3, QuietKeeps DEF HarnessBlocked
<1>4. ASSUME NEW m \in Modes, NEW p \in Plans, Prepare(m, p) PROVE HistoryInv'
  BY <1>4, QuietKeeps DEF Prepare
<1>5. ASSUME BeginTurn PROVE HistoryInv'
  BY <1>5, QuietKeeps DEF BeginTurn, Begin
<1>6. ASSUME BeginEdit \/ BeginWarned \/ BeginStopped PROVE HistoryInv'
  BY <1>6, SayKeeps DEF BeginEdit, BeginWarned, BeginStopped, Begin
<1>7. ASSUME NEW names \in Revisions, BeginReplanned(names) PROVE HistoryInv'
  BY <1>7, SayKeeps DEF BeginReplanned, Begin
<1>8. ASSUME NEW n \in Counts, Finalize(n) PROVE HistoryInv'
  BY <1>8, QuietKeeps DEF Finalize
<1>9. ASSUME NEW n \in Counts, NEW blocks \in BOOLEAN, ReplyText(n, blocks)
      PROVE  HistoryInv'
  BY <1>9, SayKeeps, QuietKeeps, TurnsOn DEF ReplyText
<1>10. ASSUME NEW n \in Counts, Exhausted(n) PROVE HistoryInv'
  BY <1>10, QuietKeeps DEF Exhausted
<1> QED BY <1>1, <1>2, <1>3, <1>4, <1>5, <1>6, <1>7, <1>8, <1>9, <1>10

\* The calls of a batch that bring no validation evidence.
LEMMA PlainCalls ==
    ASSUME HistoryInv,
           \/ CallFails \/ CallObserves \/ CallRestarts \/ CallRecovers \/ CallForbidden
           \/ \E n \in Counts : CallEdits(n)
           \/ CallFindsChange
           \/ \E names \in Revisions, n \in Counts : CallReplans(names, n)
    PROVE  HistoryInv'
<1>1. ASSUME CallFails \/ CallObserves PROVE HistoryInv'
  BY <1>1, ContinueKeeps DEF CallFails, CallObserves
<1>2. ASSUME CallRestarts \/ CallRecovers \/ CallForbidden PROVE HistoryInv'
  BY <1>2, CloseBatchKeeps, TurnsOn DEF CallRestarts, CallRecovers, CallForbidden
<1>3. ASSUME NEW n \in Counts, CallEdits(n) PROVE HistoryInv'
  BY <1>3, ContinueKeeps, CloseBatchKeeps, TurnsOn DEF CallEdits
<1>4. ASSUME CallFindsChange PROVE HistoryInv'
  BY <1>4 DEF CallFindsChange, HistoryInv, messages, loop
<1>5. ASSUME NEW names \in Revisions, NEW n \in Counts, CallReplans(names, n)
      PROVE  HistoryInv'
  <2>1. PICK to \in {"over", Turn} : CloseBatch(to)
    BY <1>5 DEF CallReplans
  <2> QED BY <1>5, <2>1, CloseBatchKeeps, TurnsOn DEF CallReplans
<1> QED BY <1>1, <1>2, <1>3, <1>4, <1>5

\* The calls that do.
LEMMA ValidationCalls ==
    ASSUME HistoryInv, NEW v \in Runs,
           \/ CallUnstable(v) \/ CallDoubts(v) \/ CallRepairs(v) \/ CallRollsBack(v)
           \/ CallRollbackFails(v) \/ CallGoesOn(v) \/ CallAsks(v) \/ CallWarned(v)
           \/ CallStops(v)
           \/ \E names \in Revisions : CallReplanned(v, names)
    PROVE  HistoryInv'
<1>1. ASSUME CallUnstable(v) PROVE HistoryInv'
  <2>1. PICK to \in {"over", Turn} : CloseBatch(to)
    BY <1>1 DEF CallUnstable
  <2> QED BY <1>1, <2>1, CloseBatchKeeps, TurnsOn DEF CallUnstable
<1>2. ASSUME CallDoubts(v) PROVE HistoryInv'
  BY <1>2, CloseBatchKeeps, TurnsOn DEF CallDoubts, Comparable
<1>3. ASSUME CallRepairs(v) PROVE HistoryInv'
  BY <1>3, CloseBatchKeeps, TurnsOn DEF CallRepairs, Comparable
<1>4. ASSUME CallRollsBack(v) PROVE HistoryInv'
  BY <1>4, CloseBatchKeeps, TurnsOn DEF CallRollsBack, Comparable
<1>5. ASSUME CallRollbackFails(v) PROVE HistoryInv'
  BY <1>5, CloseBatchKeeps, TurnsOn DEF CallRollbackFails, Comparable
<1>6. ASSUME CallGoesOn(v) PROVE HistoryInv'
  BY <1>6, ContinueKeeps, CloseBatchKeeps, TurnsOn DEF CallGoesOn, Ordinary, Comparable
<1>7. ASSUME CallAsks(v) PROVE HistoryInv'
  BY <1>7, CloseBatchKeeps, TurnsOn DEF CallAsks, Ordinary, Comparable
<1>8. ASSUME CallWarned(v) PROVE HistoryInv'
  BY <1>8, CloseBatchKeeps, TurnsOn DEF CallWarned, Stalling, Ordinary, Comparable
<1>9. ASSUME CallStops(v) PROVE HistoryInv'
  BY <1>9, CloseBatchKeeps DEF CallStops, Stalling, Ordinary, Comparable
<1>10. ASSUME NEW names \in Revisions, CallReplanned(v, names) PROVE HistoryInv'
  BY <1>10, CloseBatchKeeps, TurnsOn DEF CallReplanned, Comparable
<1> QED BY <1>1, <1>2, <1>3, <1>4, <1>5, <1>6, <1>7, <1>8, <1>9, <1>10

LEMMA HistoryStep == HistoryInv /\ [Next]_vars => HistoryInv'
<1> SUFFICES ASSUME HistoryInv, [Next]_vars PROVE HistoryInv'
  OBVIOUS
<1>1. ASSUME ReplyRefused PROVE HistoryInv'
  BY <1>1 DEF ReplyRefused, Refused, HistoryInv, messages
<1>2. ASSUME NEW k \in 1..MaxCalls, NEW bad \in BOOLEAN, ReplyCalls(k, bad)
      PROVE  HistoryInv'
  BY <1>2, LimitsPositive DEF ReplyCalls, HistoryInv
<1>3. ASSUME NEW n \in Counts, NEW pressed \in BOOLEAN, EndBatch(n, pressed)
      PROVE  HistoryInv'
  BY <1>3, SayKeeps, QuietKeeps, TurnsOn DEF EndBatch
<1>4. ASSUME UNCHANGED vars PROVE HistoryInv'
  BY <1>4 DEF vars, messages, loop, HistoryInv
<1>5. ASSUME Over PROVE HistoryInv'
  BY <1>4, <1>5 DEF Over
<1> QED
  BY <1>1, <1>2, <1>3, <1>4, <1>5, BetweenBatches, PlainCalls, ValidationCalls DEF Next

LEMMA HistoryInit == Init => HistoryInv
<1> SUFFICES ASSUME Init PROVE HistoryInv
  OBVIOUS
<1>1. pending = {} /\ broken = FALSE /\ malformed = FALSE
  BY DEF Init
<1>2. pc = "harness" /\ index = 0 /\ calls = 0
  BY DEF Init
<1> QED BY <1>1, <1>2 DEF HistoryInv

\* "Every assistant tool-call batch is closed in place", whatever ends it and
\* however many calls it has: the history is refused only for the provider's
\* own ids.
THEOREM HistoriesAreClosed == Spec => []ProtocolKept
<1>1. HistoryInv => ProtocolKept
  BY DEF HistoryInv, ProtocolKept
<1> QED BY <1>1, HistoryInit, HistoryStep, PTL DEF Spec
-----------------------------------------------------------------------------
(***************************************************************************)
(* Lists                                                                   *)
(***************************************************************************)

\* A set of natural numbers that is not empty has a least one.
LEMMA LeastOf ==
    ASSUME NEW S \in SUBSET Nat, S # {}
    PROVE  \E n \in S : \A k \in S : n <= k
<1>1. \E n \in S : \A k \in S : ~ (<<k, n>> \in OpToRel(<, Nat))
  BY WFMin, NatLessThanWellFounded
<1>2. ASSUME NEW n \in S, NEW k \in S, k < n PROVE <<k, n>> \in OpToRel(<, Nat)
  <2>1. <<k, n>> \in Nat \X Nat /\ <<k, n>>[1] = k /\ <<k, n>>[2] = n
    OBVIOUS
  <2> QED BY <1>2, <2>1 DEF OpToRel
<1>3. PICK n \in S : \A k \in S : ~ (k < n)
  BY <1>1, <1>2
<1> QED BY <1>3

\* The lists of the elements kept of each beginning of s.
KeptUpTo(f, s, S) ==
    f = [n \in 0..Len(s) |->
            IF n = 0 THEN <<>>
            ELSE IF s[n] \in S THEN Append(f[n - 1], s[n]) ELSE f[n - 1]]

\* There is such a list of lists: no beginning is the first without one.
LEMMA KeptExists ==
    ASSUME NEW T, NEW s \in Seq(T), NEW S
    PROVE  \E f : KeptUpTo(f, s, S)
<1> DEFINE Upto(m, f) ==
             f = [n \in 0..m |->
                    IF n = 0 THEN <<>>
                    ELSE IF s[n] \in S THEN Append(f[n - 1], s[n]) ELSE f[n - 1]]
           Bad == {m \in 0..Len(s) : ~ \E f : Upto(m, f)}
<1>1. Bad = {}
  <2> SUFFICES ASSUME Bad # {} PROVE FALSE
    OBVIOUS
  <2>1. Bad \in SUBSET Nat
    OBVIOUS
  <2>2. PICK m \in Bad : \A k \in Bad : m <= k
    <3> HIDE DEF Bad
    <3> QED BY <2>1, LeastOf
  <2>3. m \in 0..Len(s) /\ ~ \E f : Upto(m, f)
    OBVIOUS
  <2>4. CASE m = 0
    <3> DEFINE g == [n \in 0..0 |-> <<>>]
    <3>1. Upto(0, g)
      OBVIOUS
    <3> QED BY <2>3, <2>4, <3>1
  <2>5. CASE m # 0
    <3>1. m - 1 \in 0..Len(s) /\ m - 1 \notin Bad
      <4> HIDE DEF Bad
      <4> QED BY <2>1, <2>2, <2>3, <2>5
    <3>2. PICK f : Upto(m - 1, f)
      BY <3>1
    <3> DEFINE g == [n \in 0..m |->
                       IF n # m THEN f[n]
                       ELSE IF s[m] \in S THEN Append(f[m - 1], s[m]) ELSE f[m - 1]]
    <3>3. \A n \in 0..(m - 1) : g[n] = f[n]
      BY <2>3
    <3>4. \A n \in 0..m : g[n] = IF n = 0 THEN <<>>
                                ELSE IF s[n] \in S THEN Append(g[n - 1], s[n]) ELSE g[n - 1]
      <4> TAKE n \in 0..m
      <4>1. CASE n = m
        <5>1. g[m - 1] = f[m - 1]
          BY <2>3, <2>5, <3>3
        <5> QED BY <2>3, <2>5, <4>1, <5>1
      <4>2. CASE n # m
        <5>1. n \in 0..(m - 1) /\ (n # 0 => n - 1 \in 0..(m - 1))
          BY <2>3, <4>2
        <5>2. f[n] = IF n = 0 THEN <<>>
                     ELSE IF s[n] \in S THEN Append(f[n - 1], s[n]) ELSE f[n - 1]
          BY <3>2, <5>1
        <5> HIDE DEF g
        <5> QED BY <3>3, <5>1, <5>2
      <4> QED BY <4>1, <4>2
    <3>5. g = [n \in 0..m |-> g[n]]
      OBVIOUS
    <3> HIDE DEF g
    <3>6. Upto(m, g)
      BY <3>4, <3>5
    <3> QED BY <2>3, <3>6
  <2> QED BY <2>4, <2>5
<1>2. Len(s) \in 0..Len(s)
  OBVIOUS
<1> QED BY <1>1, <1>2 DEF KeptUpTo

LEMMA ElementsOfAppend ==
    ASSUME NEW T, NEW s \in Seq(T), NEW e \in T
    PROVE  Elements(Append(s, e)) = Elements(s) \cup {e}
<1>1. /\ Append(s, e) \in Seq(T) /\ Len(Append(s, e)) = Len(s) + 1
      /\ Append(s, e)[Len(s) + 1] = e
      /\ \A i \in 1..Len(s) : Append(s, e)[i] = s[i]
  OBVIOUS
<1>2. DOMAIN s = 1..Len(s) /\ DOMAIN Append(s, e) = 1..(Len(s) + 1) /\ Len(s) \in Nat
  BY <1>1
<1>3. 1..(Len(s) + 1) = 1..Len(s) \cup {Len(s) + 1}
  BY <1>2
<1> QED BY <1>1, <1>2, <1>3 DEF Elements

\* What is kept of s are its elements that are in S, all of them.
LEMMA KeptFacts ==
    ASSUME NEW T, NEW s \in Seq(T), NEW S
    PROVE  /\ Kept(s, S) \in Seq(T)
           /\ Elements(Kept(s, S)) = Elements(s) \cap S
<1> DEFINE f == CHOOSE f : KeptUpTo(f, s, S)
<1>1. KeptUpTo(f, s, S)
  BY KeptExists
<1>2. Kept(s, S) = f[Len(s)]
  BY DEF Kept, KeptUpTo
<1> HIDE DEF f
<1> DEFINE Good(m) == /\ f[m] \in Seq(T)
                      /\ Elements(f[m]) = {s[i] : i \in 1..m} \cap S
           Bad == {m \in 0..Len(s) : ~ Good(m)}
<1>3. ASSUME NEW m \in 1..Len(s)
      PROVE  f[m] = IF s[m] \in S THEN Append(f[m - 1], s[m]) ELSE f[m - 1]
  <2>1. m \in 0..Len(s) /\ m # 0
    OBVIOUS
  <2>2. \A n \in 0..Len(s) :
          f[n] = IF n = 0 THEN <<>>
                 ELSE IF s[n] \in S THEN Append(f[n - 1], s[n]) ELSE f[n - 1]
    BY <1>1, Zenon DEF KeptUpTo
  <2> QED BY <2>1, <2>2
<1>4. f[0] = <<>>
  BY <1>1 DEF KeptUpTo
<1>5. Bad = {}
  <2> SUFFICES ASSUME Bad # {} PROVE FALSE
    OBVIOUS
  <2>1. Bad \in SUBSET Nat
    OBVIOUS
  <2>2. PICK m \in Bad : \A k \in Bad : m <= k
    <3> HIDE DEF Bad
    <3> QED BY <2>1, LeastOf
  <2>3. m \in 0..Len(s) /\ ~ Good(m)
    OBVIOUS
  <2>4. CASE m = 0
    <3>1. f[m] = <<>> /\ 1..m = {}
      BY <1>4, <2>4
    <3>2. Elements(f[m]) = {} /\ {s[i] : i \in 1..m} = {}
      BY <3>1 DEF Elements
    <3> QED BY <2>3, <3>1, <3>2
  <2>5. CASE m # 0
    <3>1. m - 1 \in 0..Len(s) /\ m - 1 \notin Bad /\ m \in 1..Len(s) /\ m \in Nat
      <4> HIDE DEF Bad
      <4> QED BY <2>1, <2>2, <2>3, <2>5
    <3>2. f[m - 1] \in Seq(T) /\ Elements(f[m - 1]) = {s[i] : i \in 1..(m - 1)} \cap S
      BY <3>1
    <3>3. {s[i] : i \in 1..m} = {s[i] : i \in 1..(m - 1)} \cup {s[m]}
      BY <3>1
    <3>4. CASE s[m] \in S
      <4>1. f[m] = Append(f[m - 1], s[m])
        BY <1>3, <3>1, <3>4
      <4>2. s[m] \in T
        BY <3>1
      <4>3. Elements(f[m]) = Elements(f[m - 1]) \cup {s[m]}
        BY <3>2, <4>1, <4>2, ElementsOfAppend
      <4>4. f[m] \in Seq(T)
        BY <3>2, <4>1, <4>2
      <4> QED BY <2>3, <3>2, <3>3, <3>4, <4>3, <4>4
    <3>5. CASE s[m] \notin S
      BY <1>3, <2>3, <3>1, <3>2, <3>3, <3>5
    <3> QED BY <3>4, <3>5
  <2> QED BY <2>4, <2>5
<1>6. Good(Len(s))
  BY <1>5
<1>7. Elements(s) = {s[i] : i \in 1..Len(s)}
  BY DEF Elements
<1> QED BY <1>2, <1>6, <1>7

\* So has a list of natural numbers a bound, and a bounded set of them a
\* greatest one.
LEMMA BoundOf ==
    ASSUME NEW n \in Nat, NEW f, \A i \in 1..n : f[i] \in Nat
    PROVE  \E b \in Nat : \A i \in 1..n : f[i] <= b
<1> DEFINE Bad == {m \in 0..n : ~ \E b \in Nat : \A i \in 1..m : f[i] <= b}
<1>1. Bad = {}
  <2> SUFFICES ASSUME Bad # {} PROVE FALSE
    OBVIOUS
  <2>1. Bad \in SUBSET Nat
    OBVIOUS
  <2>2. PICK m \in Bad : \A k \in Bad : m <= k
    <3> HIDE DEF Bad
    <3> QED BY <2>1, LeastOf
  <2>3. m \in 0..n /\ ~ \E b \in Nat : \A i \in 1..m : f[i] <= b
    OBVIOUS
  <2>4. CASE m = 0
    BY <2>3, <2>4
  <2>5. CASE m # 0
    <3>1. m - 1 \in 0..n /\ m - 1 \notin Bad
      <4> HIDE DEF Bad
      <4> QED BY <2>1, <2>2, <2>3, <2>5
    <3>2. PICK b \in Nat : \A i \in 1..(m - 1) : f[i] <= b
      BY <3>1
    <3>3. PICK c \in Nat : b <= c /\ f[m] <= c
      <4>1. f[m] \in Nat
        BY <2>3, <2>5
      <4>2. b <= b + f[m] /\ f[m] <= b + f[m] /\ b + f[m] \in Nat
        BY <4>1
      <4> QED BY <4>2
    <3>4. \A i \in 1..m : f[i] <= c
      <4> TAKE i \in 1..m
      <4>1. i \in 1..n /\ (i = m \/ i \in 1..(m - 1))
        BY <2>3
      <4>2. f[i] \in Nat
        BY <4>1
      <4> QED BY <3>2, <3>3, <4>1, <4>2
    <3> QED BY <2>3, <3>4
  <2> QED BY <2>4, <2>5
<1>2. n \in 0..n
  OBVIOUS
<1> QED BY <1>1, <1>2

LEMMA GreatestOf ==
    ASSUME NEW S \in SUBSET Nat, S # {}, NEW b \in Nat, \A k \in S : k <= b
    PROVE  \E n \in S : \A k \in S : k <= n
<1> DEFINE U == {u \in Nat : \A k \in S : k <= u}
<1>1. U \in SUBSET Nat /\ U # {}
  OBVIOUS
<1>2. PICK u \in U : \A v \in U : u <= v
  <2> HIDE DEF U
  <2> QED BY <1>1, LeastOf
<1>3. u \in Nat /\ \A k \in S : k <= u
  OBVIOUS
<1>4. CASE u \in S
  BY <1>3, <1>4
<1>5. CASE u \notin S
  <2>1. PICK k \in S : TRUE
    OBVIOUS
  <2>2. u # 0 /\ u - 1 \in Nat
    BY <1>3, <1>5, <2>1
  <2>3. \A j \in S : j <= u - 1
    BY <1>3, <1>5
  <2>4. u - 1 \in U
    BY <2>2, <2>3
  <2> QED BY <1>2, <1>3, <2>4
<1> QED BY <1>4, <1>5
-----------------------------------------------------------------------------
(***************************************************************************)
(* Plans                                                                   *)
(***************************************************************************)

PlanType == [steps : Seq(PlanStep), done : Seq(PlanStep)]

\* Of a task that is running: its steps have ids of their own and are all
\* unfinished, and only the first has been attempted.
Distinct(p) == \A i, j \in DOMAIN p.steps : p.steps[i].id = p.steps[j].id => i = j
Untried(p) == \A i \in DOMAIN p.steps : i # 1 => p.steps[i].attempts = 0
Sound(p) == p # None => p \in PlanType /\ Distinct(p) /\ Untried(p)
AllOpen(p) == p # None => \A i \in DOMAIN p.steps : Unfinished(p.steps[i])
Running(p) == Sound(p) /\ AllOpen(p)
Able(p) == p # None => \A i \in DOMAIN p.steps : p.steps[i].attempts < MaxAttempts

StepNames(p) == {p.steps[i].name : i \in DOMAIN p.steps}
LaterIds(p) == {p.steps[i].id : i \in DOMAIN p.steps \ {1}}

\* What is done stays done.
Keeps(p, q) ==
    \A i \in DOMAIN p.done :
       /\ i \in DOMAIN q.done
       /\ q.done[i].id = p.done[i].id /\ q.done[i].name = p.done[i].name
       /\ q.done[i].status = p.done[i].status

\* A plan goes on, with no step that it did not have.
Follows(p, q) ==
    IF p = None THEN q = None
    ELSE /\ q \in PlanType /\ Keeps(p, q)
         /\ StepNames(q) \subseteq StepNames(p) /\ LaterIds(q) \subseteq LaterIds(p)

LEMMA FollowsItself ==
    ASSUME NEW p, Sound(p) PROVE Follows(p, p)
BY DEF Follows, Keeps, Sound

LEMMA FollowsOn ==
    ASSUME NEW p, NEW q, NEW r, Follows(p, q), Follows(q, r) PROVE Follows(p, r)
<1>1. CASE p = None \/ q = None
  BY <1>1 DEF Follows
<1>2. CASE p # None /\ q # None
  <2>1. Keeps(p, r)
    BY <1>2 DEF Follows, Keeps
  <2> QED BY <1>2, <2>1 DEF Follows
<1> QED BY <1>1, <1>2

\* The first unfinished step of such a plan is its first step.
LEMMA FirstIsOpen ==
    ASSUME NEW p, p # None, Running(p), HasOpen(p)
    PROVE  1 \in DOMAIN p.steps /\ OpenAt(p) = 1
<1>1. p.steps \in Seq(PlanStep) /\ \A i \in DOMAIN p.steps : Unfinished(p.steps[i])
  BY DEF Running, Sound, AllOpen, PlanType
<1>2. 1 \in DOMAIN p.steps
  BY <1>1 DEF HasOpen
<1>3. \A i \in DOMAIN p.steps : (\A j \in 1..(i - 1) : ~Unfinished(p.steps[j])) <=> i = 1
  <2> TAKE i \in DOMAIN p.steps
  <2>1. CASE i = 1
    BY <2>1
  <2>2. CASE i # 1
    <3>1. 1 \in 1..(i - 1)
      BY <1>1, <2>2
    <3> QED BY <1>1, <1>2, <2>2, <3>1
  <2> QED BY <2>1, <2>2
<1> QED BY <1>1, <1>2, <1>3 DEF OpenAt

LEMMA NoneOpen ==
    ASSUME NEW p, p # None, Running(p), ~HasOpen(p) PROVE DOMAIN p.steps = {}
BY DEF Running, AllOpen, HasOpen

LEMMA CurrentFacts ==
    ASSUME NEW p, Running(p)
    PROVE  CurrentId(p) \in Nat \cup {None} /\ (p # None => CurrentId(p) \notin LaterIds(p))
<1>1. CASE p = None
  BY <1>1 DEF CurrentId
<1>2. CASE p # None /\ HasOpen(p)
  <2>1. 1 \in DOMAIN p.steps /\ CurrentId(p) = p.steps[1].id
    BY <1>2, FirstIsOpen DEF CurrentId
  <2>2. p.steps \in Seq(PlanStep) /\ Distinct(p)
    BY <1>2 DEF Running, Sound, PlanType
  <2>3. p.steps[1].id \in Nat
    <3>1. p.steps[1] \in PlanStep
      BY <2>1, <2>2
    <3> QED BY <3>1 DEF PlanStep
  <2>4. \A i \in DOMAIN p.steps \ {1} : p.steps[i].id # p.steps[1].id
    BY <2>1, <2>2 DEF Distinct
  <2> QED BY <2>1, <2>3, <2>4 DEF LaterIds
<1>3. CASE p # None /\ ~HasOpen(p)
  <2>1. DOMAIN p.steps = {} /\ CurrentId(p) = None
    BY <1>3, NoneOpen DEF CurrentId
  <2> QED BY <2>1 DEF LaterIds
<1> QED BY <1>1, <1>2, <1>3

\* Steps that are changed one by one, their ids and names kept.
LEMMA Changed ==
    ASSUME NEW p, p # None, Sound(p), NEW q, q \in PlanType,
           DOMAIN q.steps = DOMAIN p.steps, Keeps(p, q),
           \A i \in DOMAIN p.steps :
              /\ q.steps[i].id = p.steps[i].id /\ q.steps[i].name = p.steps[i].name
              /\ i # 1 => q.steps[i].attempts = p.steps[i].attempts
    PROVE  Sound(q) /\ Follows(p, q)
<1>1. Distinct(q) /\ Untried(q)
  BY DEF Sound, Distinct, Untried
<1>2. StepNames(q) = StepNames(p) /\ LaterIds(q) = LaterIds(p)
  BY DEF StepNames, LaterIds
<1> QED BY <1>1, <1>2 DEF Sound, Follows

\* start_current_step.
LEMMA StartedFacts ==
    ASSUME NEW p, Running(p)
    PROVE  /\ Running(Started(p)) /\ Follows(p, Started(p))
           /\ Able(p) => Able(Started(p))
<1>1. CASE p = None \/ ~HasOpen(p)
  BY <1>1, FollowsItself DEF Started, Running
<1>2. CASE p # None /\ HasOpen(p)
  <2>1. 1 \in DOMAIN p.steps /\ Started(p) = [p EXCEPT !.steps[1].status = "in_progress"]
    BY <1>2, FirstIsOpen DEF Started
  <2>2. /\ p \in PlanType /\ p.steps \in Seq(PlanStep) /\ p.done \in Seq(PlanStep)
        /\ \A i \in DOMAIN p.steps : Unfinished(p.steps[i])
    BY <1>2 DEF Running, Sound, AllOpen, PlanType
  <2> DEFINE s == [p.steps EXCEPT ![1] = [p.steps[1] EXCEPT !.status = "in_progress"]]
  <2>3. Started(p) = [steps |-> s, done |-> p.done]
    BY <2>1, <2>2 DEF PlanType
  <2>4. p.steps[1] \in PlanStep /\ [p.steps[1] EXCEPT !.status = "in_progress"] \in PlanStep
    <3>1. p.steps[1] \in PlanStep
      BY <2>1, <2>2
    <3> QED BY <3>1 DEF PlanStep, Statuses
  <2>5. s \in Seq(PlanStep) /\ DOMAIN s = DOMAIN p.steps
    BY <2>1, <2>2, <2>4
  <2>6. \A i \in DOMAIN p.steps :
          /\ s[i].id = p.steps[i].id /\ s[i].name = p.steps[i].name
          /\ s[i].attempts = p.steps[i].attempts /\ Unfinished(s[i])
    <3> TAKE i \in DOMAIN p.steps
    <3>1. CASE i = 1
      <4>1. s[1] = [p.steps[1] EXCEPT !.status = "in_progress"]
        BY <2>1, <2>2
      <4> QED BY <2>4, <3>1, <4>1 DEF PlanStep, Unfinished
    <3>2. CASE i # 1
      <4>1. s[i] = p.steps[i]
        BY <2>1, <2>2, <3>2
      <4> QED BY <2>2, <4>1
    <3> QED BY <3>1, <3>2
  <2> HIDE DEF s
  <2>7. Started(p) \in PlanType /\ Started(p).steps = s /\ Started(p).done = p.done
    BY <2>2, <2>3, <2>5 DEF PlanType
  <2>8. Keeps(p, Started(p))
    BY <2>7 DEF Keeps
  <2>9. Sound(Started(p)) /\ Follows(p, Started(p))
    BY <1>2, <2>5, <2>6, <2>7, <2>8, Changed DEF Running
  <2>10. AllOpen(Started(p)) /\ (Able(p) => Able(Started(p)))
    BY <1>2, <2>5, <2>6, <2>7 DEF AllOpen, Able
  <2> QED BY <2>9, <2>10 DEF Running
<1> QED BY <1>1, <1>2

\* A plan without its first n steps.
LEMMA Cut ==
    ASSUME NEW p, p # None, Running(p), NEW n \in Nat \ {0}, NEW q \in PlanType,
           n <= Len(p.steps), Len(q.steps) = Len(p.steps) - n, Keeps(p, q),
           \A i \in 1..(Len(p.steps) - n) : q.steps[i] = p.steps[i + n]
    PROVE  Running(q) /\ Follows(p, q) /\ Able(q)
<1>1. /\ p.steps \in Seq(PlanStep) /\ Distinct(p) /\ Untried(p)
      /\ \A i \in DOMAIN p.steps : Unfinished(p.steps[i])
  BY DEF Running, Sound, AllOpen, PlanType
<1>2. q.steps \in Seq(PlanStep) /\ DOMAIN q.steps = 1..(Len(p.steps) - n)
  BY <1>1 DEF PlanType
<1>3. \A i \in DOMAIN q.steps : i \in Nat /\ i + n \in DOMAIN p.steps \ {1}
                                /\ q.steps[i] = p.steps[i + n]
  BY <1>1, <1>2
<1>4. Distinct(q)
  <2> SUFFICES ASSUME NEW i \in DOMAIN q.steps, NEW j \in DOMAIN q.steps,
                      q.steps[i].id = q.steps[j].id
               PROVE  i = j
    BY DEF Distinct
  <2>1. i + n = j + n
    BY <1>1, <1>3 DEF Distinct
  <2> QED BY <1>3, <2>1
<1>5. \A i \in DOMAIN q.steps : q.steps[i].attempts = 0 /\ Unfinished(q.steps[i])
  BY <1>1, <1>3 DEF Untried
<1>6. StepNames(q) \subseteq StepNames(p) /\ LaterIds(q) \subseteq LaterIds(p)
  BY <1>3 DEF StepNames, LaterIds
<1>7. Able(q) /\ AllOpen(q) /\ Untried(q)
  BY <1>5, LimitsPositive DEF Able, AllOpen, Untried
<1> QED BY <1>4, <1>6, <1>7 DEF Running, Sound, Follows

\* complete_current_step, as often as criteria allow.
LEMMA CompletedFacts ==
    ASSUME NEW p, Running(p), NEW n \in Provable(p)
    PROVE  /\ Running(Completed(p, n)) /\ Follows(p, Completed(p, n))
           /\ Able(p) => Able(Completed(p, n))
<1>1. CASE n = 0
  BY <1>1, FollowsItself DEF Completed, Running
<1>2. CASE n # 0
  <2>1. p # None /\ n \in 0..Len(p.steps)
    BY <1>2 DEF Provable
  <2>2. /\ p \in PlanType /\ p.steps \in Seq(PlanStep) /\ p.done \in Seq(PlanStep)
    BY <2>1 DEF Running, Sound, PlanType
  <2> DEFINE rest == SubSeq(p.steps, n + 1, Len(p.steps))
             over == [i \in 1..n |-> [p.steps[i] EXCEPT !.status = "completed"]]
             q == Completed(p, n)
  <2>3. q = [steps |-> rest, done |-> p.done \o over]
    BY <1>2 DEF Completed
  <2>4. n \in Nat /\ Len(p.steps) \in Nat /\ n <= Len(p.steps)
    BY <2>1, <2>2
  <2>5. /\ rest \in Seq(PlanStep) /\ Len(rest) = Len(p.steps) - n
        /\ \A i \in 1..(Len(p.steps) - n) : rest[i] = p.steps[i + n]
    BY <1>2, <2>2, <2>4
  <2>6. over \in Seq(PlanStep)
    <3>1. \A i \in 1..n : p.steps[i] \in PlanStep
      BY <2>2, <2>4
    <3>2. \A i \in 1..n : [p.steps[i] EXCEPT !.status = "completed"] \in PlanStep
      BY <3>1 DEF PlanStep, Statuses
    <3> QED BY <2>4, <3>2
  <2>7. p.done \o over \in Seq(PlanStep) /\ Keeps(p, q)
    <3> HIDE DEF over
    <3>1. /\ p.done \o over \in Seq(PlanStep) /\ Len(p.done \o over) = Len(p.done) + Len(over)
          /\ \A i \in 1..Len(p.done) : (p.done \o over)[i] = p.done[i]
      BY <2>2, <2>6
    <3>2. DOMAIN p.done = 1..Len(p.done) /\ DOMAIN p.done \subseteq DOMAIN (p.done \o over)
      BY <2>2, <2>6, <3>1
    <3> QED BY <2>3, <3>1, <3>2 DEF Keeps
  <2> HIDE DEF rest, over
  <2>8. q \in PlanType /\ q.steps = rest
    BY <2>3, <2>5, <2>7 DEF PlanType
  <2> HIDE DEF q
  <2>9. Running(q) /\ Follows(p, q) /\ Able(q)
    BY <1>2, <2>1, <2>4, <2>5, <2>7, <2>8, Cut
  <2> QED BY <2>9 DEF q
<1> QED BY <1>1, <1>2

\* reconcile_progress, then what completion makes of the rest.
LEMMA ReconciledFacts ==
    ASSUME NEW p, Running(p), NEW n \in Provable(p), NEW l
    PROVE  /\ Sound(Reconciled(p, n, l)) /\ Follows(p, Reconciled(p, n, l))
           /\ ~Ready(l) => Running(Reconciled(p, n, l))
<1> DEFINE q == Completed(p, n)
<1>1. Running(q) /\ Follows(p, q)
  BY CompletedFacts
<1> HIDE DEF q
<1>2. Sound(Superseded(q)) /\ Follows(q, Superseded(q))
  <2>1. CASE q = None
    BY <1>1, <2>1, FollowsItself DEF Superseded, Running
  <2>2. CASE q # None
    <3> DEFINE s == [i \in DOMAIN q.steps |->
                       IF Unfinished(q.steps[i])
                       THEN [q.steps[i] EXCEPT !.status = "superseded"] ELSE q.steps[i]]
               r == Superseded(q)
    <3>1. q \in PlanType /\ q.steps \in Seq(PlanStep) /\ q.done \in Seq(PlanStep)
      BY <1>1, <2>2 DEF Running, Sound, PlanType
    <3>2. r = [steps |-> s, done |-> q.done]
      BY <2>2, <3>1 DEF Superseded, PlanType
    <3>3. \A i \in DOMAIN q.steps : q.steps[i] \in PlanStep
      BY <3>1
    <3>4. \A i \in DOMAIN q.steps :
            /\ s[i] \in PlanStep /\ s[i].id = q.steps[i].id
            /\ s[i].name = q.steps[i].name /\ s[i].attempts = q.steps[i].attempts
      BY <3>3 DEF PlanStep, Statuses
    <3>5. DOMAIN s = DOMAIN q.steps
      OBVIOUS
    <3>6. s \in Seq(PlanStep)
      <4>1. DOMAIN s = 1..Len(q.steps) /\ Len(q.steps) \in Nat
        BY <3>1, <3>5
      <4>2. s = [i \in 1..Len(q.steps) |-> s[i]]
        BY <4>1
      <4> HIDE DEF s
      <4> QED BY <3>4, <3>5, <4>1, <4>2
    <3> HIDE DEF s
    <3>7. r \in PlanType /\ r.steps = s /\ r.done = q.done
      BY <3>1, <3>2, <3>6 DEF PlanType
    <3> HIDE DEF r
    <3>8. Keeps(q, r)
      BY <3>7 DEF Keeps
    <3> QED BY <1>1, <2>2, <3>4, <3>5, <3>7, <3>8, Changed DEF Running, r
  <2> QED BY <2>1, <2>2
<1>3. Reconciled(p, n, l) = IF Ready(l) THEN Superseded(q) ELSE q
  BY DEF Reconciled, q
<1> QED BY <1>1, <1>2, <1>3, FollowsOn DEF Running

LEMMA ZeroProvable == ASSUME NEW p, Running(p) PROVE 0 \in Provable(p)
BY DEF Provable, Running, Sound, PlanType

\* record_attempt_failure, of the step that the turn works on.
LEMMA FailedFacts ==
    ASSUME NEW p, Running(p), p # None => current \notin LaterIds(p)
    PROVE  Running(Failed(p)) /\ Follows(p, Failed(p))
<1>1. CASE p = None
  BY <1>1, FollowsItself DEF Failed, Running
<1>2. CASE p # None
  <2> DEFINE s == [i \in DOMAIN p.steps |-> Charged(p.steps[i])]
             d == [i \in DOMAIN p.done |-> Charged(p.done[i])]
             q == Failed(p)
  <2>1. /\ p \in PlanType /\ p.steps \in Seq(PlanStep) /\ p.done \in Seq(PlanStep)
        /\ \A i \in DOMAIN p.steps : Unfinished(p.steps[i])
    BY <1>2 DEF Running, Sound, AllOpen, PlanType
  <2>2. q = [steps |-> s, done |-> d]
    BY <1>2 DEF Failed
  <2>3. ASSUME NEW t \in PlanStep
        PROVE  /\ Charged(t) \in PlanStep /\ Charged(t).id = t.id
               /\ Charged(t).name = t.name /\ Charged(t).status = t.status
               /\ t.id # current => Charged(t) = t
    <3>1. Least(t.attempts + 1, MaxAttempts) \in Nat
      BY LimitsPositive DEF Least, PlanStep
    <3> QED BY <3>1 DEF Charged, PlanStep
  <2>4. s \in Seq(PlanStep) /\ d \in Seq(PlanStep)
    <3>1. \A i \in DOMAIN p.steps : Charged(p.steps[i]) \in PlanStep
      BY <2>1, <2>3
    <3>2. \A i \in DOMAIN p.done : Charged(p.done[i]) \in PlanStep
      BY <2>1, <2>3
    <3>3. /\ DOMAIN p.steps = 1..Len(p.steps) /\ DOMAIN p.done = 1..Len(p.done)
          /\ Len(p.steps) \in Nat /\ Len(p.done) \in Nat
      BY <2>1
    <3> QED BY <3>1, <3>2, <3>3
  <2>5. \A i \in DOMAIN p.steps :
          /\ s[i].id = p.steps[i].id /\ s[i].name = p.steps[i].name
          /\ s[i].status = p.steps[i].status
          /\ i # 1 => s[i].attempts = p.steps[i].attempts
    <3> TAKE i \in DOMAIN p.steps
    <3>1. p.steps[i] \in PlanStep
      BY <2>1
    <3>2. i # 1 => p.steps[i].id # current
      BY <1>2 DEF LaterIds
    <3> QED BY <2>3, <3>1, <3>2
  <2>6. \A i \in DOMAIN p.done :
          /\ d[i].id = p.done[i].id /\ d[i].name = p.done[i].name
          /\ d[i].status = p.done[i].status
    BY <2>1, <2>3
  <2>7. DOMAIN s = DOMAIN p.steps /\ DOMAIN d = DOMAIN p.done
    OBVIOUS
  <2> HIDE DEF s, d
  <2>8. q \in PlanType /\ q.steps = s /\ q.done = d
    BY <2>2, <2>4 DEF PlanType
  <2> HIDE DEF q
  <2>9. Keeps(p, q)
    BY <2>6, <2>7, <2>8 DEF Keeps
  <2>10. Sound(q) /\ Follows(p, q)
    BY <1>2, <2>5, <2>7, <2>8, <2>9, Changed DEF Running
  <2>11. AllOpen(q)
    BY <2>1, <2>5, <2>7, <2>8 DEF AllOpen, Unfinished
  <2> QED BY <2>10, <2>11 DEF Running, q
<1> QED BY <1>1, <1>2

\* reset_attempts, of the current step.
LEMMA RestedFacts ==
    ASSUME NEW p, Running(p)
    PROVE  Running(Rested(p)) /\ Follows(p, Rested(p)) /\ Able(Rested(p))
<1>1. CASE p = None
  BY <1>1, FollowsItself DEF Rested, Running, Able
<1>2. CASE p # None /\ ~HasOpen(p)
  BY <1>2, FollowsItself, NoneOpen DEF Rested, Running, Able
<1>3. CASE p # None /\ HasOpen(p)
  <2>1. 1 \in DOMAIN p.steps /\ Rested(p) = [p EXCEPT !.steps[1].attempts = 0]
    BY <1>3, FirstIsOpen DEF Rested
  <2>2. /\ p \in PlanType /\ p.steps \in Seq(PlanStep) /\ p.done \in Seq(PlanStep)
        /\ Untried(p) /\ \A i \in DOMAIN p.steps : Unfinished(p.steps[i])
    BY <1>3 DEF Running, Sound, AllOpen, PlanType
  <2> DEFINE t == [p.steps[1] EXCEPT !.attempts = 0]
             s == [p.steps EXCEPT ![1] = t]
             q == Rested(p)
  <2>3. q = [steps |-> s, done |-> p.done]
    BY <2>1, <2>2 DEF PlanType
  <2>4. /\ t \in PlanStep /\ t.id = p.steps[1].id /\ t.name = p.steps[1].name
        /\ t.status = p.steps[1].status /\ t.attempts = 0
    <3>1. p.steps[1] \in PlanStep
      BY <2>1, <2>2
    <3> QED BY <3>1 DEF PlanStep
  <2> HIDE DEF t
  <2>5. s \in Seq(PlanStep) /\ DOMAIN s = DOMAIN p.steps
    BY <2>1, <2>2, <2>4
  <2>6. \A i \in DOMAIN p.steps :
          /\ s[i].id = p.steps[i].id /\ s[i].name = p.steps[i].name
          /\ s[i].status = p.steps[i].status /\ s[i].attempts = 0
    <3> TAKE i \in DOMAIN p.steps
    <3>1. CASE i = 1
      BY <2>1, <2>2, <2>4, <3>1
    <3>2. CASE i # 1
      BY <2>1, <2>2, <3>2 DEF Untried
    <3> QED BY <3>1, <3>2
  <2> HIDE DEF s
  <2>7. q \in PlanType /\ q.steps = s /\ q.done = p.done
    BY <2>2, <2>3, <2>5 DEF PlanType
  <2> HIDE DEF q
  <2>8. Keeps(p, q)
    BY <2>7 DEF Keeps
  <2>9. Sound(q) /\ Follows(p, q)
    BY <1>3, <2>2, <2>5, <2>6, <2>7, <2>8, Changed DEF Running, Untried
  <2>10. AllOpen(q) /\ Able(q)
    BY <2>2, <2>5, <2>6, <2>7, LimitsPositive DEF AllOpen, Able, Unfinished
  <2> QED BY <2>9, <2>10 DEF Running, q
<1> QED BY <1>1, <1>2, <1>3

\* A step that only looked for something is put aside.
LEMMA SkippedFacts ==
    ASSUME NEW p, p # None, Running(p), HasOpen(p)
    PROVE  Running(Skipped(p)) /\ Follows(p, Skipped(p))
<1>1. 1 \in DOMAIN p.steps /\ OpenAt(p) = 1
  BY FirstIsOpen
<1>2. CASE ~IsRecon(p.steps[1])
  BY <1>1, <1>2, FollowsItself DEF Skipped, Running
<1>3. CASE IsRecon(p.steps[1])
  <2> DEFINE s == SubSeq(p.steps, 1, 1 - 1) \o SubSeq(p.steps, 1 + 1, Len(p.steps))
             t == [p.steps[1] EXCEPT !.status = "superseded"]
             q == [steps |-> s, done |-> Append(p.done, t)]
  <2>1. Skipped(p) = Started(q)
    BY <1>1, <1>3 DEF Skipped
  <2>2. p.steps \in Seq(PlanStep) /\ p.done \in Seq(PlanStep)
    BY DEF Running, Sound, PlanType
  <2>3. t \in PlanStep
    <3>1. p.steps[1] \in PlanStep
      BY <1>1, <2>2
    <3> QED BY <3>1 DEF PlanStep, Statuses
  <2>4. /\ s \in Seq(PlanStep) /\ Len(s) = Len(p.steps) - 1
        /\ \A i \in 1..(Len(p.steps) - 1) : s[i] = p.steps[i + 1]
    BY <1>1, <2>2
  <2> HIDE DEF s, t
  <2>5. q \in PlanType /\ q.steps = s /\ q.done = Append(p.done, t)
    BY <2>2, <2>3, <2>4 DEF PlanType
  <2>6. Keeps(p, q)
    <3>1. /\ \A i \in DOMAIN p.done : Append(p.done, t)[i] = p.done[i]
          /\ DOMAIN p.done \subseteq DOMAIN Append(p.done, t)
      BY <2>2, <2>3
    <3> QED BY <2>5, <3>1 DEF Keeps
  <2>7. 1 <= Len(p.steps)
    BY <1>1, <2>2
  <2> HIDE DEF q
  <2>8. Running(q) /\ Follows(p, q)
    BY <2>4, <2>5, <2>6, <2>7, Cut
  <2>9. Running(Started(q)) /\ Follows(q, Started(q))
    BY <2>8, StartedFacts
  <2> QED BY <2>1, <2>8, <2>9, FollowsOn
<1> QED BY <1>2, <1>3

\* The largest id is one, where there are any.
LEMMA LastIdTyped ==
    ASSUME NEW p \in PlanType PROVE LastId(p) \in Nat
<1> DEFINE ids == {p.steps[i].id : i \in DOMAIN p.steps} \cup {p.done[i].id : i \in DOMAIN p.done}
<1>1. /\ Len(p.steps) \in Nat /\ Len(p.done) \in Nat
      /\ DOMAIN p.steps = 1..Len(p.steps) /\ DOMAIN p.done = 1..Len(p.done)
  BY DEF PlanType
<1>2. /\ \A i \in 1..Len(p.steps) : p.steps[i] \in PlanStep
      /\ \A i \in 1..Len(p.done) : p.done[i] \in PlanStep
  BY <1>1 DEF PlanType
<1>3. /\ \A i \in 1..Len(p.steps) : p.steps[i].id \in Nat
      /\ \A i \in 1..Len(p.done) : p.done[i].id \in Nat
  BY <1>2 DEF PlanStep
<1>4. PICK b \in Nat : \A i \in 1..Len(p.steps) : p.steps[i].id <= b
  <2> DEFINE f == [i \in 1..Len(p.steps) |-> p.steps[i].id]
  <2>1. \A i \in 1..Len(p.steps) : f[i] = p.steps[i].id /\ f[i] \in Nat
    BY <1>3
  <2> HIDE DEF f
  <2>2. \E b \in Nat : \A i \in 1..Len(p.steps) : f[i] <= b
    BY <1>1, <2>1, BoundOf
  <2> QED BY <2>1, <2>2
<1>5. PICK c \in Nat : \A i \in 1..Len(p.done) : p.done[i].id <= c
  <2> DEFINE f == [i \in 1..Len(p.done) |-> p.done[i].id]
  <2>1. \A i \in 1..Len(p.done) : f[i] = p.done[i].id /\ f[i] \in Nat
    BY <1>3
  <2> HIDE DEF f
  <2>2. \E c \in Nat : \A i \in 1..Len(p.done) : f[i] <= c
    BY <1>1, <2>1, BoundOf
  <2> QED BY <2>1, <2>2
<1>6. ids \in SUBSET Nat /\ b + c \in Nat /\ \A k \in ids : k <= b + c
  <2>1. ids \in SUBSET Nat
    BY <1>1, <1>3
  <2>2. ASSUME NEW k \in ids PROVE k <= b + c
    <3>1. CASE \E i \in 1..Len(p.steps) : k = p.steps[i].id
      BY <1>3, <1>4, <3>1
    <3>2. CASE \E i \in 1..Len(p.done) : k = p.done[i].id
      BY <1>3, <1>5, <3>2
    <3> QED BY <1>1, <2>2, <3>1, <3>2
  <2> QED BY <2>1, <2>2
<1>7. LastId(p) = IF ids = {} THEN 0 ELSE CHOOSE n \in ids : \A m \in ids : m <= n
  BY DEF LastId
<1> HIDE DEF ids
<1>8. ids # {} => \E n \in ids : \A m \in ids : m <= n
  BY <1>6, GreatestOf
<1>9. CASE ids = {}
  BY <1>7, <1>9
<1>10. CASE ids # {}
  <2>1. LastId(p) \in ids
    BY <1>7, <1>8, <1>10
  <2> QED BY <1>6, <2>1
<1> QED BY <1>9, <1>10

\* from_payload, for a list of descriptions.
LEMMA NewStepsFacts ==
    ASSUME NEW last \in Nat, NEW names \in Seq(Names), NEW done \in Seq(PlanStep)
    PROVE  LET q == [steps |-> NewSteps(last, names), done |-> done]
           IN  /\ q \in PlanType /\ Running(q) /\ Able(q)
               /\ DOMAIN q.steps = DOMAIN names
               /\ \A i \in DOMAIN names : q.steps[i].name = names[i]
<1> DEFINE s == NewSteps(last, names)
           q == [steps |-> s, done |-> done]
<1>1. DOMAIN names = 1..Len(names) /\ Len(names) \in Nat
  OBVIOUS
<1>2. \A i \in DOMAIN names : names[i] \in Names /\ last + i \in Nat
  BY <1>1
<1>3. \A i \in DOMAIN names : NewStep(last + i, names[i]) \in PlanStep
  BY <1>2 DEF NewStep, PlanStep, Statuses
<1>4. s = [i \in 1..Len(names) |-> NewStep(last + i, names[i])]
  BY <1>1 DEF NewSteps
<1>5. s \in Seq(PlanStep) /\ DOMAIN s = DOMAIN names
  BY <1>1, <1>3, <1>4
<1>6. \A i \in DOMAIN names :
        /\ s[i].id = last + i /\ s[i].name = names[i]
        /\ s[i].attempts = 0 /\ Unfinished(s[i])
  BY <1>1, <1>4 DEF NewStep, Unfinished
<1> HIDE DEF s
<1>7. q \in PlanType /\ q.steps = s
  BY <1>5 DEF PlanType
<1>8. \A i, j \in DOMAIN names : last + i = last + j => i = j
  BY <1>1
<1> HIDE DEF q
<1>9. Distinct(q) /\ Untried(q) /\ AllOpen(q) /\ Able(q)
  BY <1>5, <1>6, <1>7, <1>8, LimitsPositive DEF Distinct, Untried, AllOpen, Able
<1>10. Running(q)
  BY <1>7, <1>9 DEF Running, Sound
<1> QED BY <1>5, <1>6, <1>7, <1>9, <1>10 DEF s, q

LEMMA FirstPlanFacts ==
    ASSUME NEW names \in FirstPlans PROVE Running(FirstPlan(names)) /\ Able(FirstPlan(names))
<1>1. names \in Seq(Names)
  BY AnswersOf
<1>2. 0 \in Nat /\ <<>> \in Seq(PlanStep)
  OBVIOUS
<1> QED BY <1>1, <1>2, NewStepsFacts DEF FirstPlan

\* Replanner.replan: what is done is kept, and not asked for again.
LEMMA ReplannedFacts ==
    ASSUME NEW p, p # None, Running(p), NEW names \in Revisions
    PROVE  LET q == Replanned(p, names)
           IN  /\ q \in PlanType /\ Running(q) /\ Able(q) /\ Keeps(p, q)
               /\ StepNames(q) \cap OverNames(p) = {}
<1> DEFINE fresh == Fresh(p, names)
           q == Replanned(p, names)
<1>1. p \in PlanType /\ p.done \in Seq(PlanStep) /\ LastId(p) \in Nat
  BY LastIdTyped DEF Running, Sound, PlanType
<1>2. names \in Seq(Names)
  BY AnswersOf
<1>3. fresh \in Seq(Names) /\ Elements(fresh) \subseteq Names \ OverNames(p)
  BY <1>2, KeptFacts DEF Fresh
<1>4. q = [steps |-> NewSteps(LastId(p), fresh), done |-> p.done]
  BY DEF Replanned
<1> HIDE DEF fresh, q
<1>5. /\ q \in PlanType /\ Running(q) /\ Able(q) /\ DOMAIN q.steps = DOMAIN fresh
      /\ \A i \in DOMAIN fresh : q.steps[i].name = fresh[i]
  BY <1>1, <1>3, <1>4, NewStepsFacts
<1>6. Keeps(p, q)
  BY <1>4 DEF Keeps
<1>7. StepNames(q) = Elements(fresh)
  BY <1>5 DEF StepNames, Elements
<1> QED BY <1>3, <1>5, <1>6, <1>7 DEF q
-----------------------------------------------------------------------------
(***************************************************************************)
(* The plan from step to step                                              *)
(***************************************************************************)

\* While a task runs, no step of its plan is over; from the beginning of a
\* turn to the end of its batch failures are charged to the first step or to
\* none; and before the model answers no step has used up its attempts.
PlanInv ==
    /\ Sound(plan) /\ current \in Nat \cup {None}
    /\ pc \notin {"over", "error"} => AllOpen(plan)
    /\ pc \in {"final", "chat", "batch"} /\ plan # None => current \notin LaterIds(plan)
    /\ pc \in {"final", "chat"} => Able(plan)

\* What a step makes of the plan: done work is kept, and not planned again.
Going ==
    plan # None =>
        /\ Keeps(plan, plan')
        /\ replans' # replans => StepNames(plan') \cap OverNames(plan) = {}

LEMMA WaysOn ==
    /\ Turn \in {"harness", "spent"}
    /\ \A l : To(l) \in {"harness", "spent", "over"} /\ (Ready(l) => To(l) = "over")
    /\ \A to : CloseBatch(to) => pc' \in {to, "error"}
    /\ Continue => pc' = pc
    /\ Calling => pc = "batch"
BY DEF Turn, To, CloseBatch, Continue, Calling

\* The plan goes on outside the beginning of a turn.
LEMMA PlanMoves ==
    ASSUME PlanInv, Sound(plan'), Follows(plan, plan'), UNCHANGED <<current, replans>>,
           pc' \in {"over", "error"} \/ AllOpen(plan'),
           pc' \notin {"final", "chat"}, pc' = "batch" => pc = "batch"
    PROVE  PlanInv' /\ Going
<1>1. Going
  BY DEF Follows, Going
<1>2. pc' = "batch" /\ plan' # None => current' \notin LaterIds(plan')
  BY DEF PlanInv, Follows
<1> QED BY <1>1, <1>2 DEF PlanInv

LEMMA PlanStays ==
    ASSUME PlanInv, UNCHANGED <<plan, current, replans>>,
           pc \in {"over", "error"} => pc' \in {"over", "error"},
           pc' \notin {"final", "chat"} \/ pc' = pc, pc' = "batch" => pc \in {"chat", "batch"}
    PROVE  PlanInv' /\ Going
BY DEF PlanInv, Going, Keeps

\* The plan is reconciled with the evidence.
LEMMA ReconciledMoves ==
    ASSUME PlanInv, pc \notin {"over", "error"}, NEW l,
           \/ \E n \in Provable(plan) : plan' = Reconciled(plan, n, l)
           \/ \E n \in Provable(plan) : plan' = Reconciled(Started(Completed(plan, n)), 0, l),
           UNCHANGED <<current, replans>>, Ready(l) => pc' \in {"over", "error"},
           pc' \notin {"final", "chat"}, pc' = "batch" => pc = "batch"
    PROVE  PlanInv' /\ Going
<1>1. Running(plan)
  BY DEF PlanInv, Running
<1>2. /\ Sound(plan') /\ Follows(plan, plan')
      /\ ~Ready(l) => AllOpen(plan')
  <2>1. CASE \E n \in Provable(plan) : plan' = Reconciled(plan, n, l)
    BY <1>1, <2>1, ReconciledFacts DEF Running
  <2>2. ASSUME NEW n \in Provable(plan),
               plan' = Reconciled(Started(Completed(plan, n)), 0, l)
        PROVE  Sound(plan') /\ Follows(plan, plan') /\ (~Ready(l) => AllOpen(plan'))
    <3> DEFINE c == Completed(plan, n)
               q == Started(c)
    <3>1. Running(c) /\ Follows(plan, c)
      BY <1>1, CompletedFacts
    <3>2. Running(q) /\ Follows(c, q)
      <4> HIDE DEF c
      <4> QED BY <3>1, StartedFacts
    <3> HIDE DEF q
    <3>3. 0 \in Provable(q)
      BY <3>2, ZeroProvable
    <3>4. /\ Sound(Reconciled(q, 0, l)) /\ Follows(q, Reconciled(q, 0, l))
          /\ ~Ready(l) => Running(Reconciled(q, 0, l))
      BY <3>2, <3>3, ReconciledFacts
    <3>5. Follows(plan, q)
      <4> HIDE DEF c
      <4> QED BY <3>1, <3>2, FollowsOn
    <3>6. plan' = Reconciled(q, 0, l)
      BY <2>2 DEF q
    <3> HIDE DEF c
    <3>7. Follows(plan, plan')
      BY <3>4, <3>5, <3>6, FollowsOn
    <3> QED BY <3>4, <3>6, <3>7 DEF Running
  <2> QED BY <2>1, <2>2
<1> QED BY <1>2, PlanMoves

\* Steps are completed and the next one begins.
LEMMA CompletedMoves ==
    ASSUME Running(plan), NEW n \in Provable(plan), plan' = Started(Completed(plan, n))
    PROVE  Running(plan') /\ Follows(plan, plan') /\ (Able(plan) => Able(plan'))
<1> DEFINE c == Completed(plan, n)
<1>1. Running(c) /\ Follows(plan, c) /\ (Able(plan) => Able(c))
  BY CompletedFacts
<1>2. plan' = Started(c)
  OBVIOUS
<1> HIDE DEF c
<1> QED BY <1>1, <1>2, StartedFacts, FollowsOn

\* A turn begins with a plan that has attempts left.
LEMMA BeginKeeps ==
    ASSUME NEW p, Running(p), Able(p), Begin(p)
    PROVE  PlanInv' /\ Follows(p, plan')
<1>1. Running(plan') /\ Follows(p, plan') /\ Able(plan')
  BY StartedFacts DEF Begin
<1>2. CurrentId(p) \in Nat \cup {None} /\ (p # None => CurrentId(p) \notin LaterIds(p))
  BY CurrentFacts
<1>3. current' = CurrentId(p) /\ pc' = "final"
  BY DEF Begin
<1>4. plan' # None => current' \notin LaterIds(plan')
  BY <1>1, <1>2, <1>3 DEF Follows
<1> QED BY <1>1, <1>2, <1>3, <1>4 DEF PlanInv, Running

\* Only its first step can be out of attempts.
LEMMA AbleUnlessExhausted ==
    ASSUME NEW p, Running(p), ~Exhausts(p) PROVE Able(p)
<1> SUFFICES ASSUME p # None, NEW i \in DOMAIN p.steps
             PROVE  p.steps[i].attempts < MaxAttempts
  BY DEF Able
<1>1. p.steps[i] \in PlanStep /\ Untried(p) /\ Unfinished(p.steps[i])
  BY DEF Running, Sound, AllOpen, PlanType
<1>2. HasOpen(p)
  BY <1>1 DEF HasOpen
<1>3. 1 \in DOMAIN p.steps /\ OpenAt(p) = 1
  BY <1>2, FirstIsOpen
<1>4. p.steps[1] \in PlanStep
  BY <1>3 DEF Running, Sound, PlanType
<1>5. ~(p.steps[1].attempts >= MaxAttempts)
  BY <1>2, <1>3 DEF Exhausts
<1>6. p.steps[1].attempts \in Nat /\ MaxAttempts \in Nat \ {0}
  BY <1>4, LimitsPositive DEF PlanStep
<1>7. CASE i = 1
  BY <1>5, <1>6, <1>7
<1>8. CASE i # 1
  BY <1>1, <1>6, <1>8 DEF Untried
<1> QED BY <1>7, <1>8

\* The steps between batches, up to the model's answer.
LEMMA PlanBetweenBatches ==
    ASSUME PlanInv,
           \/ \E result \in Results, n \in Counts : HarnessRun(result, n)
           \/ \E n \in Counts : HarnessIdle(n)
           \/ HarnessBlocked
           \/ \E m \in Modes, p \in Plans : Prepare(m, p)
           \/ \E n \in Counts : Finalize(n)
           \/ \E n \in Counts, blocks \in BOOLEAN : ReplyText(n, blocks)
           \/ \E n \in Counts : Exhausted(n)
    PROVE  PlanInv' /\ Going
<1>1. ASSUME NEW result \in Results, NEW n \in Counts, HarnessRun(result, n)
      PROVE  PlanInv' /\ Going
  <2>1. /\ pc = "harness" /\ pc' = IF Ready(ledger') THEN "over" ELSE "prepare"
        /\ n \in Provable(plan) /\ UNCHANGED <<current, replans>>
        /\ plan' = Reconciled(Started(Completed(plan, n)), 0, ledger')
    BY <1>1 DEF HarnessRun
  <2> DEFINE l == ledger'
  <2>2. plan' = Reconciled(Started(Completed(plan, n)), 0, l) /\ (Ready(l) => pc' = "over")
        /\ pc' \in {"over", "prepare"}
    BY <2>1
  <2> HIDE DEF l
  <2> QED BY <2>1, <2>2, ReconciledMoves
<1>2. ASSUME NEW n \in Counts, HarnessIdle(n) PROVE PlanInv' /\ Going
  BY <1>2, ReconciledMoves DEF HarnessIdle
<1>3. ASSUME HarnessBlocked PROVE PlanInv' /\ Going
  BY <1>3, PlanStays DEF HarnessBlocked, planning
<1>4. ASSUME NEW m \in Modes, NEW p \in Plans, Prepare(m, p) PROVE PlanInv' /\ Going
  <2>1. pc = "prepare" /\ pc' = "begin" /\ plan' = p /\ UNCHANGED <<current, replans>>
    BY <1>4 DEF Prepare
  <2>2. CASE p = plan
    BY <2>1, <2>2, PlanStays
  <2>3. CASE p # plan
    <3>1. plan = None /\ Running(p)
      BY <1>4, <2>3, FirstPlanFacts DEF Prepare
    <3> QED BY <2>1, <3>1 DEF PlanInv, Going, Running
  <2> QED BY <2>2, <2>3
<1>5. ASSUME NEW n \in Counts, Finalize(n) PROVE PlanInv' /\ Going
  <2>1. /\ pc = "final" /\ pc' = "chat" /\ plan' = Started(Completed(plan, n))
        /\ n \in (IF Finalizes THEN Provable(plan) ELSE {0})
        /\ current' = (IF Finalizes THEN CurrentId(plan') ELSE current)
        /\ UNCHANGED replans
    BY <1>5 DEF Finalize
  <2>2. Running(plan) /\ Able(plan) /\ (plan # None => current \notin LaterIds(plan))
    BY <2>1 DEF PlanInv, Running
  <2>3. n \in Provable(plan)
    BY <2>1, <2>2, ZeroProvable
  <2>4. Running(plan') /\ Follows(plan, plan') /\ Able(plan')
    BY <2>1, <2>2, <2>3, CompletedMoves
  <2> DEFINE q == plan'
  <2>5. CurrentId(q) \in Nat \cup {None} /\ (q # None => CurrentId(q) \notin LaterIds(q))
    <3>1. Running(q)
      BY <2>4
    <3> HIDE DEF q
    <3> QED BY <3>1, CurrentFacts
  <2>6. /\ current' \in Nat \cup {None}
        /\ plan' # None => current' \notin LaterIds(plan')
    BY <2>1, <2>2, <2>4, <2>5 DEF Follows, PlanInv
  <2> QED BY <2>1, <2>4, <2>6 DEF PlanInv, Going, Running, Follows
<1>6. ASSUME NEW n \in Counts, NEW blocks \in BOOLEAN, ReplyText(n, blocks)
      PROVE  PlanInv' /\ Going
  <2>1. /\ pc = "chat" /\ n \in Provable(plan) /\ plan' = Reconciled(plan, n, ledger)
        /\ UNCHANGED <<current, replans>> /\ pc' \in {"over", Turn}
        /\ Ready(ledger) => pc' = "over"
    BY <1>6 DEF ReplyText
  <2> QED BY <2>1, WaysOn, ReconciledMoves
<1>7. ASSUME NEW n \in Counts, Exhausted(n) PROVE PlanInv' /\ Going
  BY <1>7, ReconciledMoves DEF Exhausted
<1> QED BY <1>1, <1>2, <1>3, <1>4, <1>5, <1>6, <1>7

\* PlanOrchestrator.begin_turn.
LEMMA PlanBegins ==
    ASSUME PlanInv,
           \/ BeginTurn \/ BeginEdit \/ BeginWarned \/ BeginStopped
           \/ \E names \in Revisions : BeginReplanned(names)
    PROVE  PlanInv' /\ Going
<1>1. pc = "begin" /\ Running(plan)
  BY DEF BeginTurn, BeginEdit, BeginWarned, BeginStopped, BeginReplanned, PlanInv, Running
<1>2. ASSUME BeginTurn PROVE PlanInv' /\ Going
  <2>1. Able(plan) /\ Begin(plan) /\ UNCHANGED replans
    BY <1>1, <1>2, AbleUnlessExhausted DEF BeginTurn
  <2>2. PlanInv' /\ Follows(plan, plan')
    BY <1>1, <2>1, BeginKeeps
  <2> QED BY <2>1, <2>2 DEF Going, Follows
<1>3. ASSUME BeginEdit PROVE PlanInv' /\ Going
  <2>1. /\ plan # None /\ HasOpen(plan) /\ Begin(Rested(Skipped(plan))) /\ UNCHANGED replans
    BY <1>3 DEF BeginEdit, Exhausts
  <2> DEFINE s == Skipped(plan)
             r == Rested(s)
  <2>2. Running(s) /\ Follows(plan, s)
    BY <1>1, <2>1, SkippedFacts
  <2>3. Begin(r)
    BY <2>1
  <2> HIDE DEF s
  <2>4. Running(r) /\ Follows(s, r) /\ Able(r)
    BY <2>2, RestedFacts
  <2> HIDE DEF r
  <2>5. PlanInv' /\ Follows(r, plan')
    BY <2>3, <2>4, BeginKeeps
  <2>6. Follows(plan, r)
    BY <2>2, <2>4, FollowsOn
  <2>7. Follows(plan, plan')
    BY <2>5, <2>6, FollowsOn
  <2> QED BY <2>1, <2>5, <2>7 DEF Going, Follows
<1>4. ASSUME BeginWarned PROVE PlanInv' /\ Going
  <2> DEFINE r == Rested(plan)
  <2>1. Begin(r) /\ UNCHANGED replans
    BY <1>4 DEF BeginWarned
  <2>2. Running(r) /\ Follows(plan, r) /\ Able(r)
    BY <1>1, RestedFacts
  <2> HIDE DEF r
  <2>3. PlanInv' /\ Follows(r, plan')
    BY <2>1, <2>2, BeginKeeps
  <2>4. Follows(plan, plan')
    BY <2>2, <2>3, FollowsOn
  <2> QED BY <2>1, <2>3, <2>4 DEF Going, Follows
<1>5. ASSUME BeginStopped PROVE PlanInv' /\ Going
  BY <1>5, PlanStays DEF BeginStopped
<1>6. ASSUME NEW names \in Revisions, BeginReplanned(names) PROVE PlanInv' /\ Going
  <2> DEFINE q == Replanned(plan, names)
  <2>1. plan # None /\ Begin(q)
    BY <1>6 DEF BeginReplanned, MayReplan
  <2>2. /\ q \in PlanType /\ Running(q) /\ Able(q) /\ Keeps(plan, q)
        /\ StepNames(q) \cap OverNames(plan) = {}
    BY <1>1, <2>1, ReplannedFacts
  <2> HIDE DEF q
  <2>3. PlanInv' /\ Follows(q, plan')
    BY <2>1, <2>2, BeginKeeps
  <2>4. CASE q = None
    BY <2>2, <2>3, <2>4 DEF Going, Follows, Keeps
  <2>5. CASE q # None
    <3>1. Keeps(q, plan') /\ StepNames(plan') \subseteq StepNames(q)
      BY <2>3, <2>5 DEF Follows
    <3>2. Keeps(plan, plan')
      BY <2>2, <3>1 DEF Keeps
    <3> QED BY <2>2, <2>3, <3>1, <3>2 DEF Going
  <2> QED BY <2>4, <2>5
<1> QED BY <1>2, <1>3, <1>4, <1>5, <1>6

LEMMA RunsFacts ==
    ASSUME NEW v \in Runs
    PROVE  /\ Calling /\ v.key \in Keys /\ v.result \in Results /\ v.n \in Provable(plan)
BY DEF Runs

\* The calls of a batch that bring no validation evidence.
LEMMA PlanCalls ==
    ASSUME PlanInv,
           \/ CallFails \/ CallObserves \/ CallRestarts \/ CallRecovers \/ CallForbidden
           \/ \E n \in Counts : CallEdits(n)
           \/ CallFindsChange
           \/ \E names \in Revisions, n \in Counts : CallReplans(names, n)
    PROVE  PlanInv' /\ Going
<1>1. pc = "batch" /\ Running(plan) /\ (plan # None => current \notin LaterIds(plan))
  BY DEF CallFails, CallObserves, CallRestarts, CallRecovers, CallForbidden, CallEdits,
         CallFindsChange, CallReplans, Calling, PlanInv, Running
<1>2. ASSUME CallFails \/ CallRestarts \/ CallForbidden PROVE PlanInv' /\ Going
  <2>1. /\ plan' = Failed(plan) /\ UNCHANGED <<current, replans>>
        /\ pc' \in {"batch", "harness", "spent", "over", "error"}
    BY <1>1, <1>2, WaysOn DEF CallFails, CallRestarts, CallForbidden
  <2>2. Running(Failed(plan)) /\ Follows(plan, Failed(plan))
    BY <1>1, FailedFacts
  <2> QED BY <1>1, <2>1, <2>2, PlanMoves DEF Running
<1>3. ASSUME CallObserves \/ CallRecovers \/ CallFindsChange PROVE PlanInv' /\ Going
  <2>1. /\ UNCHANGED <<plan, current, replans>>
        /\ pc' \in {"batch", "harness", "spent", "over", "error"}
    BY <1>1, <1>3, WaysOn DEF CallObserves, CallRecovers, CallFindsChange, planning, loop
  <2> QED BY <1>1, <2>1, PlanStays
<1>4. ASSUME NEW n \in Counts, CallEdits(n) PROVE PlanInv' /\ Going
  <2>1. /\ n \in Provable(plan) /\ plan' = Started(Completed(plan, n))
        /\ UNCHANGED <<current, replans>>
        /\ pc' \in {"batch", "harness", "spent", "over", "error"}
    BY <1>1, <1>4, WaysOn DEF CallEdits
  <2>2. Running(plan') /\ Follows(plan, plan')
    BY <1>1, <2>1, CompletedMoves
  <2> QED BY <1>1, <2>1, <2>2, PlanMoves DEF Running
<1>5. ASSUME NEW names \in Revisions, NEW n \in Counts, CallReplans(names, n)
      PROVE  PlanInv' /\ Going
  <2> DEFINE q == Replanned(plan, names)
  <2>1. /\ plan # None /\ n \in Provable(q) /\ plan' = Reconciled(q, n, ledger)
        /\ UNCHANGED current
        /\ pc' \in {"harness", "spent", "over", "error"}
        /\ Ready(ledger) => pc' \in {"over", "error"}
    BY <1>5, WaysOn DEF CallReplans, MayReplan
  <2>2. Running(q) /\ Keeps(plan, q) /\ StepNames(q) \cap OverNames(plan) = {}
        /\ q \in PlanType
    BY <1>1, <2>1, ReplannedFacts
  <2> HIDE DEF q
  <2>3. /\ Sound(plan') /\ Follows(q, plan')
        /\ ~Ready(ledger) => AllOpen(plan')
    BY <2>1, <2>2, ReconciledFacts DEF Running
  <2>4. Going
    <3>1. CASE q = None
      BY <2>2, <2>3, <3>1 DEF Going, Follows, Keeps
    <3>2. CASE q # None
      <4>1. Keeps(q, plan') /\ StepNames(plan') \subseteq StepNames(q)
        BY <2>3, <3>2 DEF Follows
      <4>2. Keeps(plan, plan')
        BY <2>2, <4>1 DEF Keeps
      <4> QED BY <2>2, <4>1, <4>2 DEF Going
    <3> QED BY <3>1, <3>2
  <2> QED BY <2>1, <2>3, <2>4 DEF PlanInv
<1> QED BY <1>2, <1>3, <1>4, <1>5

\* The calls that do.
LEMMA PlanValidations ==
    ASSUME PlanInv, NEW v \in Runs,
           \/ CallUnstable(v) \/ CallDoubts(v) \/ CallRepairs(v) \/ CallRollsBack(v)
           \/ CallRollbackFails(v) \/ CallGoesOn(v) \/ CallAsks(v) \/ CallWarned(v)
           \/ CallStops(v)
           \/ \E names \in Revisions : CallReplanned(v, names)
    PROVE  PlanInv' /\ Going
<1> DEFINE l == After(v)
<1>1. /\ pc = "batch" /\ Running(plan) /\ v.n \in Provable(plan)
  BY RunsFacts DEF Calling, PlanInv, Running
<1>2. ASSUME UNCHANGED <<current, replans>>, Reconciling(v),
             pc' \in {"batch", "harness", "spent", "over", "error"},
             Ready(l) => pc' \in {"over", "error"}
      PROVE  PlanInv' /\ Going
  <2>1. plan' = Reconciled(Started(Completed(plan, v.n)), 0, l)
    BY <1>2 DEF Reconciling
  <2> HIDE DEF l
  <2> QED BY <1>1, <1>2, <2>1, ReconciledMoves
<1>3. ASSUME CallUnstable(v) PROVE PlanInv' /\ Going
  <2>1. ~Ready(l) /\ pc' \in {"harness", "spent", "over", "error"}
    BY <1>3, WaysOn DEF CallUnstable, Ready, Proven, Unstable
  <2> QED BY <1>2, <1>3, <2>1 DEF CallUnstable
<1>4. ASSUME CallDoubts(v) \/ CallRepairs(v) \/ CallRollbackFails(v) PROVE PlanInv' /\ Going
  <2>1. CloseBatch(To(l)) /\ Reconciling(v) /\ UNCHANGED <<current, replans>>
    BY <1>4 DEF CallDoubts, CallRepairs, CallRollbackFails
  <2>2. pc' \in {"harness", "spent", "over", "error"} /\ (Ready(l) => pc' \in {"over", "error"})
    BY <2>1, WaysOn
  <2> QED BY <1>2, <2>1, <2>2
<1>5. ASSUME CallRollsBack(v) PROVE PlanInv' /\ Going
  <2>1. /\ plan' = Started(Completed(plan, v.n)) /\ UNCHANGED <<current, replans>>
        /\ pc' \in {"harness", "spent", "over", "error"}
    BY <1>5, WaysOn DEF CallRollsBack
  <2>2. Running(plan') /\ Follows(plan, plan')
    BY <1>1, <2>1, CompletedMoves
  <2> QED BY <1>1, <2>1, <2>2, PlanMoves DEF Running
<1>6. ASSUME CallGoesOn(v) PROVE PlanInv' /\ Going
  <2>1. /\ Reconciling(v) /\ UNCHANGED <<current, replans>> /\ ledger' = l
        /\ IF Ready(ledger') \/ v.n > 0 THEN CloseBatch(To(ledger')) ELSE Continue
    BY <1>6 DEF CallGoesOn, Ordinary
  <2>2. IF Ready(l) \/ v.n > 0 THEN CloseBatch(To(l)) ELSE Continue
    BY <2>1
  <2>3. /\ pc' \in {"batch", "harness", "spent", "over", "error"}
        /\ Ready(l) => pc' \in {"over", "error"}
    BY <1>1, <2>2, WaysOn
  <2> QED BY <1>2, <2>1, <2>3
<1>7. ASSUME CallAsks(v) \/ CallWarned(v) \/ CallStops(v) PROVE PlanInv' /\ Going
  <2>1. ~Ready(l) /\ Reconciling(v) /\ UNCHANGED <<current, replans>>
        /\ pc' \in {"harness", "spent", "over", "error"}
    BY <1>7, WaysOn DEF CallAsks, CallWarned, CallStops, Stalling
  <2> QED BY <1>2, <2>1
<1>8. ASSUME NEW names \in Revisions, CallReplanned(v, names) PROVE PlanInv' /\ Going
  <2>1. /\ plan # None /\ plan' = Replanned(plan, names) /\ UNCHANGED current
        /\ pc' \in {"harness", "spent", "over", "error"}
    BY <1>8, WaysOn DEF CallReplanned, MayReplan
  <2>2. /\ Running(plan') /\ Keeps(plan, plan')
        /\ StepNames(plan') \cap OverNames(plan) = {}
    BY <1>1, <2>1, ReplannedFacts
  <2> QED BY <2>1, <2>2 DEF PlanInv, Going, Running
<1> QED BY <1>3, <1>4, <1>5, <1>6, <1>7, <1>8

LEMMA PlanGoesOn ==
    ASSUME PlanInv, [Next]_vars PROVE PlanInv' /\ Going
<1>1. ASSUME ReplyRefused PROVE PlanInv' /\ Going
  BY <1>1, PlanStays DEF ReplyRefused, planning
<1>2. ASSUME NEW k \in 1..MaxCalls, NEW bad \in BOOLEAN, ReplyCalls(k, bad)
      PROVE  PlanInv' /\ Going
  BY <1>2, PlanStays DEF ReplyCalls, planning
<1>3. ASSUME NEW n \in Counts, NEW pressed \in BOOLEAN, EndBatch(n, pressed)
      PROVE  PlanInv' /\ Going
  <2>1. /\ pc = "batch" /\ n \in Provable(plan) /\ plan' = Reconciled(plan, n, ledger)
        /\ UNCHANGED <<current, replans>> /\ pc' = To(ledger)
    BY <1>3 DEF EndBatch
  <2> QED BY <2>1, WaysOn, ReconciledMoves
<1>4. ASSUME UNCHANGED vars PROVE PlanInv' /\ Going
  BY <1>4, PlanStays DEF vars, planning, loop
<1>5. ASSUME Over PROVE PlanInv' /\ Going
  BY <1>4, <1>5 DEF Over
<1> QED
  BY <1>1, <1>2, <1>3, <1>4, <1>5, PlanBetweenBatches, PlanBegins, PlanCalls,
     PlanValidations DEF Next

LEMMA PlanInit == Init => PlanInv
<1> SUFFICES ASSUME Init PROVE PlanInv
  OBVIOUS
<1>1. /\ pc = "harness" /\ current = None
      /\ plan \in {None} \cup {FirstPlan(names) : names \in FirstPlans}
  BY DEF Init
<1>2. CASE plan = None
  BY <1>1, <1>2 DEF PlanInv, Sound, AllOpen
<1>3. ASSUME NEW names \in FirstPlans, plan = FirstPlan(names) PROVE PlanInv
  BY <1>1, <1>3, FirstPlanFacts DEF PlanInv, Running
<1> QED BY <1>1, <1>2, <1>3

\* However failures are counted in a batch, whatever the plans: before the
\* model answers, no step that is open has used up its attempts.
THEOREM StalledStepsHandled == Spec => []StalledStepHandled
<1>1. PlanInv => StalledStepHandled
  BY DEF PlanInv, Able, StalledStepHandled
<1> QED BY <1>1, PlanInit, PlanGoesOn, PTL DEF Spec

\* Completed work does not return, for plans of any length and however often
\* the task is planned again.
THEOREM DoneWorkIsKept == Spec => WorkIsKept
<1>1. ASSUME Going PROVE DoneWorkStays
  <2> SUFFICES ASSUME plan # None PROVE DoneWorkStays
    BY DEF DoneWorkStays
  <2>1. /\ Keeps(plan, plan')
        /\ replans' # replans => StepNames(plan') \cap OverNames(plan) = {}
    BY <1>1 DEF Going
  <2>2. ASSUME NEW i \in DOMAIN plan.done
        PROVE  /\ i \in DOMAIN plan'.done
               /\ \A f \in {"id", "name", "status"} : plan'.done[i][f] = plan.done[i][f]
    BY <2>1 DEF Keeps
  <2>3. ASSUME replans' # replans, NEW i \in DOMAIN plan'.steps, NEW j \in DOMAIN plan.done
        PROVE  plan'.steps[i].name # plan.done[j].name
    BY <2>1, <2>3 DEF StepNames, OverNames
  <2> QED BY <2>2, <2>3 DEF DoneWorkStays
<1>2. PlanInv /\ [Next]_vars => DoneWorkStays
  BY <1>1, PlanGoesOn
<1> QED BY <1>2, PlanInit, PlanGoesOn, PTL DEF Spec, WorkIsKept
-----------------------------------------------------------------------------
(***************************************************************************)
(* Types                                                                   *)
(***************************************************************************)

LedgerType == [revision : Nat, hasEdit : BOOLEAN,
               proof : [good : BOOLEAN, bad : BOOLEAN, runs : Nat]]
SeriesType == [Keys -> [failed : Nat, revision : Nat] \cup {None}]

EvidenceInv ==
    /\ ledger \in LedgerType /\ live \subseteq 1..ledger.revision
    /\ series \in SeriesType
    /\ stalls \in Nat /\ judged \in Nat /\ repairs \in Nat
LoopInv ==
    /\ pending \subseteq 1..MaxCalls
    /\ replans \in Nat /\ level \in 0..3
    /\ mode \in Modes /\ step \in Nat
    /\ pc \in {"harness", "prepare", "begin", "final", "chat", "batch", "spent",
               "over", "error"}

LEMMA RecordedTyped ==
    ASSUME NEW l \in LedgerType, NEW result
    PROVE  Recorded(l, result) \in LedgerType /\ Recorded(l, result).revision = l.revision
<1> DEFINE g == l.proof.good \/ result = 0
           b == l.proof.bad \/ result \notin {0, None}
           r == Least(l.proof.runs + 1, UnstableRuns)
<1>1. g \in BOOLEAN /\ b \in BOOLEAN
  OBVIOUS
<1>2. r \in Nat
  BY LimitsPositive DEF Least, LedgerType
<1>3. Recorded(l, result) = [l EXCEPT !.proof = [good |-> g, bad |-> b, runs |-> r]]
  BY DEF Recorded, LedgerType
<1> HIDE DEF g, b, r
<1> QED BY <1>1, <1>2, <1>3 DEF LedgerType

LEMMA AtRevisionTyped ==
    ASSUME NEW l \in LedgerType, NEW owned \in BOOLEAN
    PROVE  AtRevision(l, owned) \in LedgerType
           /\ AtRevision(l, owned).revision = l.revision + 1
<1>1. ASSUME NEW h \in BOOLEAN, NEW none \in [good : BOOLEAN, bad : BOOLEAN, runs : Nat]
      PROVE  LET n == [revision |-> l.revision + 1, hasEdit |-> h, proof |-> none]
             IN  n \in LedgerType /\ n.revision = l.revision + 1
  BY DEF LedgerType
<1>2. ASSUME NEW no \in BOOLEAN
      PROVE  [good |-> no, bad |-> no, runs |-> 0] \in [good : BOOLEAN, bad : BOOLEAN, runs : Nat]
  OBVIOUS
<1>3. NoEvidence \in [good : BOOLEAN, bad : BOOLEAN, runs : Nat]
  BY <1>2, FALSE \in BOOLEAN, Zenon DEF NoEvidence
<1>4. (l.hasEdit \/ owned) \in BOOLEAN
  OBVIOUS
<1> QED BY <1>1, <1>3, <1>4, Zenon DEF AtRevision

LEMMA SeriesTyped ==
    /\ NoSeries \in SeriesType
    /\ \A s \in SeriesType, key \in Keys, result \in Results :
          ledger.revision \in Nat => Tracked(s, key, result) \in SeriesType
<1>1. NoSeries \in SeriesType
  BY DEF NoSeries, SeriesType
<1>2. ASSUME NEW s \in SeriesType, NEW key \in Keys, NEW result \in Results,
             ledger.revision \in Nat
      PROVE  Tracked(s, key, result) \in SeriesType
  <2>1. CASE result = None
    BY <2>1 DEF Tracked
  <2>2. CASE result # None
    <3>1. result \in Nat
      BY <2>2 DEF Results
    <3>2. [failed |-> result, revision |-> ledger.revision] \in [failed : Nat, revision : Nat]
      BY <1>2, <3>1
    <3> QED BY <2>2, <3>2 DEF Tracked, SeriesType
  <2> QED BY <2>1, <2>2
<1> QED BY <1>1, <1>2

LEMMA CountsTyped ==
    /\ \A n \in Nat, limit \in Nat : Least(n + 1, limit) \in Nat
    /\ \A n \in 0..3 : Least(n + 1, 3) \in 0..3
    /\ \A n \in Nat : \A result, trend : StallsAfter(n, result, trend) \in Nat
<1>1. \A n \in Nat, limit \in Nat : Least(n + 1, limit) \in Nat
  BY DEF Least
<1>2. \A n \in 0..3 : Least(n + 1, 3) \in 0..3
  BY DEF Least
<1>3. StallLimit \in Nat /\ 0 \in Nat
  BY LimitsPositive
<1>4. ASSUME NEW n \in Nat, NEW result, NEW trend PROVE StallsAfter(n, result, trend) \in Nat
  <2>1. CASE trend \in {"unchanged", "regressed"}
    BY <1>1, <1>3, <2>1 DEF StallsAfter
  <2>2. CASE trend \notin {"unchanged", "regressed"}
    BY <1>3, <2>2 DEF StallsAfter
  <2> QED BY <2>1, <2>2
<1> QED BY <1>1, <1>2, <1>4

\* The evidence of a revision grows.
LEMMA EvidenceGrows ==
    ASSUME EvidenceInv,
           ledger' = ledger \/ \E result \in Results : ledger' = Recorded(ledger, result),
           live' = live, series' \in SeriesType,
           stalls' \in Nat, judged' \in Nat, repairs' \in Nat
    PROVE  EvidenceInv'
<1>1. ledger \in LedgerType
  BY DEF EvidenceInv
<1>2. ledger' \in LedgerType /\ ledger'.revision = ledger.revision
  BY <1>1, RecordedTyped
<1> QED BY <1>2 DEF EvidenceInv

\* A new revision begins.
LEMMA EvidenceAnew ==
    ASSUME EvidenceInv, NEW owned \in BOOLEAN, ledger' = AtRevision(ledger, owned),
           live' \subseteq live \cup {ledger'.revision}, series' \in SeriesType,
           stalls' \in Nat, judged' \in Nat, repairs' \in Nat
    PROVE  EvidenceInv'
<1>1. ledger \in LedgerType
  BY DEF EvidenceInv
<1>2. ledger' \in LedgerType /\ ledger'.revision = ledger.revision + 1
  BY <1>1, AtRevisionTyped
<1>3. ledger.revision \in Nat
  BY <1>1 DEF LedgerType
<1>4. live' \subseteq 1..ledger'.revision
  BY <1>2, <1>3 DEF EvidenceInv
<1> QED BY <1>2, <1>4 DEF EvidenceInv

LEMMA AdvanceTyped ==
    ASSUME NEW n, NEW s \in SeriesType, NEW k \in Nat, NEW l \in 0..3, Advance(n, s, k, l)
    PROVE  series' \in SeriesType /\ stalls' \in Nat /\ level' \in 0..3
BY SeriesTyped DEF Advance

PcType == {"harness", "prepare", "begin", "final", "chat", "batch", "spent", "over", "error"}

LEMMA LoopMoves ==
    ASSUME LoopInv, pending' \subseteq pending, replans' \in {replans, replans + 1},
           level' \in 0..3, mode' = mode, step' \in {step, step + 1}, pc' \in PcType
    PROVE  LoopInv'
BY DEF LoopInv, PcType

LEMMA MessagesMove ==
    /\ Say => pending' = pending
    /\ Continue => pending' \subseteq pending /\ step' = step
    /\ \A to : CloseBatch(to) => pending' \subseteq pending /\ step' \in {step, step + 1}
BY DEF Say, Continue, CloseBatch, Answered

\* The steps between batches.
LEMMA TypesBetweenBatches ==
    ASSUME EvidenceInv, LoopInv,
           \/ \E result \in Results, n \in Counts : HarnessRun(result, n)
           \/ \E n \in Counts : HarnessIdle(n)
           \/ HarnessBlocked
           \/ \E m \in Modes, p \in Plans : Prepare(m, p)
           \/ \E n \in Counts : Finalize(n)
           \/ ReplyRefused
           \/ \E k \in 1..MaxCalls, bad \in BOOLEAN : ReplyCalls(k, bad)
           \/ \E n \in Counts, blocks \in BOOLEAN : ReplyText(n, blocks)
           \/ \E n \in Counts, pressed \in BOOLEAN : EndBatch(n, pressed)
           \/ \E n \in Counts : Exhausted(n)
    PROVE  EvidenceInv' /\ LoopInv'
<1>1. series \in SeriesType /\ stalls \in Nat /\ level \in 0..3 /\ judged \in Nat /\ repairs \in Nat
  BY DEF EvidenceInv, LoopInv
<1>2. ASSUME UNCHANGED <<ledger, live, judged, repairs, replans, mode>>,
             NEW n \in Counts, Advance(n, series, stalls, level),
             pending' = pending, step' \in {step, step + 1}, pc' \in PcType
      PROVE  EvidenceInv' /\ LoopInv'
  <2>1. series' \in SeriesType /\ stalls' \in Nat /\ level' \in 0..3
    BY <1>1, <1>2, AdvanceTyped
  <2> QED BY <1>1, <1>2, <2>1, EvidenceGrows, LoopMoves
<1>3. ASSUME NEW result \in Results, NEW n \in Counts, HarnessRun(result, n)
      PROVE  EvidenceInv' /\ LoopInv'
  <2>1. series' \in SeriesType /\ stalls' \in Nat /\ level' \in 0..3
    BY <1>1, <1>3, AdvanceTyped DEF HarnessRun
  <2>2. EvidenceInv'
    BY <1>1, <1>3, <2>1, EvidenceGrows DEF HarnessRun
  <2>3. pending' = pending /\ pc' \in PcType /\ UNCHANGED <<replans, mode, step>>
    BY <1>3, MessagesMove DEF HarnessRun, PcType, messages
  <2> QED BY <2>1, <2>2, <2>3, LoopMoves
<1>4. ASSUME NEW n \in Counts, HarnessIdle(n) PROVE EvidenceInv' /\ LoopInv'
  BY <1>2, <1>4 DEF HarnessIdle, PcType, messages
<1>5. ASSUME HarnessBlocked \/ ReplyRefused PROVE EvidenceInv' /\ LoopInv'
  <2>1. UNCHANGED <<messages, planning, evidence, mode, step>> /\ pc' \in PcType
    BY <1>5 DEF HarnessBlocked, ReplyRefused, PcType
  <2> QED BY <1>1, <2>1 DEF messages, planning, evidence, EvidenceInv, LoopInv, PcType
<1>6. ASSUME NEW m \in Modes, NEW p \in Plans, Prepare(m, p) PROVE EvidenceInv' /\ LoopInv'
  BY <1>6 DEF Prepare, messages, evidence, EvidenceInv, LoopInv
<1>7. ASSUME NEW n \in Counts, Finalize(n) PROVE EvidenceInv' /\ LoopInv'
  BY <1>2, <1>7 DEF Finalize, PcType, messages
<1>8. ASSUME NEW k \in 1..MaxCalls, NEW bad \in BOOLEAN, ReplyCalls(k, bad)
      PROVE  EvidenceInv' /\ LoopInv'
  <2>1. 1..k \subseteq 1..MaxCalls
    BY LimitsPositive
  <2> QED BY <1>8, <2>1 DEF ReplyCalls, planning, evidence, EvidenceInv, LoopInv
<1>9. ASSUME NEW n \in Counts, NEW blocks \in BOOLEAN, ReplyText(n, blocks)
      PROVE  EvidenceInv' /\ LoopInv'
  <2>1. /\ pending' = pending /\ step' \in {step, step + 1} /\ pc' \in {"over", Turn}
        /\ UNCHANGED <<ledger, live, judged, repairs, replans, mode>>
        /\ Advance(n, series, stalls, level)
    BY <1>9, MessagesMove DEF ReplyText, messages
  <2>2. pc' \in PcType
    BY <2>1, WaysOn DEF PcType
  <2> QED BY <1>2, <2>1, <2>2
<1>10. ASSUME NEW n \in Counts, NEW pressed \in BOOLEAN, EndBatch(n, pressed)
       PROVE  EvidenceInv' /\ LoopInv'
  <2>1. /\ pending' = pending /\ step' \in {step, step + 1} /\ pc' = To(ledger)
        /\ UNCHANGED <<ledger, live, judged, repairs, replans, mode>>
        /\ Advance(n, series, stalls, level)
    BY <1>10, MessagesMove DEF EndBatch, messages
  <2>2. pc' \in PcType
    BY <2>1, WaysOn DEF PcType
  <2> QED BY <1>2, <2>1, <2>2
<1>11. ASSUME NEW n \in Counts, Exhausted(n) PROVE EvidenceInv' /\ LoopInv'
  BY <1>2, <1>11 DEF Exhausted, PcType, messages
<1> QED BY <1>3, <1>4, <1>5, <1>6, <1>7, <1>8, <1>9, <1>10, <1>11

LEMMA TypesBegin ==
    ASSUME EvidenceInv, LoopInv,
           \/ BeginTurn \/ BeginEdit \/ BeginWarned \/ BeginStopped
           \/ \E names \in Revisions : BeginReplanned(names)
    PROVE  EvidenceInv' /\ LoopInv'
<1>1. ASSUME BeginTurn \/ BeginEdit \/ BeginWarned \/ BeginStopped
      PROVE  EvidenceInv' /\ LoopInv'
  <2>1. UNCHANGED evidence /\ level' \in 0..3
    BY <1>1, CountsTyped DEF BeginTurn, BeginEdit, BeginWarned, BeginStopped, LoopInv
  <2>2. pending' = pending /\ pc' \in PcType /\ UNCHANGED <<replans, mode, step>>
    BY <1>1, MessagesMove
       DEF BeginTurn, BeginEdit, BeginWarned, BeginStopped, Begin, messages, PcType
  <2>3. EvidenceInv'
    BY <2>1 DEF evidence, EvidenceInv
  <2> QED BY <2>1, <2>2, <2>3, LoopMoves
<1>2. ASSUME NEW names \in Revisions, BeginReplanned(names) PROVE EvidenceInv' /\ LoopInv'
  <2>1. /\ UNCHANGED <<ledger, live, judged, repairs, mode, step>>
        /\ series' = NoSeries /\ stalls' = 0 /\ level' = 2 /\ replans' = replans + 1
        /\ pending' = pending /\ pc' \in PcType
    BY <1>2, MessagesMove DEF BeginReplanned, Begin, PcType
  <2>2. EvidenceInv'
    BY <2>1, SeriesTyped, EvidenceGrows DEF EvidenceInv
  <2> QED BY <2>1, <2>2, LoopMoves
<1> QED BY <1>1, <1>2

\* A call is answered: the batch goes on, or ends.
LEMMA Answering ==
    /\ Calling /\ Continue => pending' \subseteq pending /\ step' = step /\ pc' \in PcType
    /\ \A to \in PcType : CloseBatch(to) =>
         pending' \subseteq pending /\ step' \in {step, step + 1} /\ pc' \in PcType
    /\ Turn \in PcType /\ "over" \in PcType /\ \A l : To(l) \in PcType
BY WaysOn, MessagesMove DEF PcType

\* The calls of a batch that bring no validation evidence.
LEMMA TypesCalls ==
    ASSUME EvidenceInv, LoopInv,
           \/ CallFails \/ CallObserves \/ CallRestarts \/ CallRecovers \/ CallForbidden
           \/ \E n \in Counts : CallEdits(n)
           \/ CallFindsChange
           \/ \E names \in Revisions, n \in Counts : CallReplans(names, n)
    PROVE  EvidenceInv' /\ LoopInv'
<1>1. series \in SeriesType /\ stalls \in Nat /\ level \in 0..3 /\ judged \in Nat /\ repairs \in Nat
  BY DEF EvidenceInv, LoopInv
<1>2. ASSUME CallFails \/ CallObserves \/ CallRestarts \/ CallRecovers \/ CallForbidden
      PROVE  EvidenceInv' /\ LoopInv'
  <2>1. UNCHANGED <<replans, level, evidence, mode>>
    BY <1>2 DEF CallFails, CallObserves, CallRestarts, CallRecovers, CallForbidden, planning
  <2>2. pending' \subseteq pending /\ step' \in {step, step + 1} /\ pc' \in PcType
    BY <1>2, Answering DEF CallFails, CallObserves, CallRestarts, CallRecovers, CallForbidden
  <2>3. EvidenceInv'
    BY <2>1 DEF evidence, EvidenceInv
  <2> QED BY <1>1, <2>1, <2>2, <2>3, LoopMoves
<1>3. ASSUME NEW n \in Counts, CallEdits(n) PROVE EvidenceInv' /\ LoopInv'
  <2>1. series' \in SeriesType /\ stalls' \in Nat /\ level' \in 0..3
    BY <1>1, <1>3, AdvanceTyped DEF CallEdits
  <2>2. EvidenceInv'
    <3>1. TRUE \in BOOLEAN /\ ledger' = AtRevision(ledger, TRUE)
      BY <1>3 DEF CallEdits
    <3>2. live' \subseteq live \cup {ledger'.revision} /\ UNCHANGED <<judged, repairs>>
      BY <1>3 DEF CallEdits
    <3> QED BY <1>1, <2>1, <3>1, <3>2, EvidenceAnew
  <2>3. pending' \subseteq pending /\ step' \in {step, step + 1} /\ pc' \in PcType
        /\ UNCHANGED <<replans, mode>>
    BY <1>3, Answering DEF CallEdits
  <2> QED BY <2>1, <2>2, <2>3, LoopMoves
<1>4. ASSUME CallFindsChange PROVE EvidenceInv' /\ LoopInv'
  <2>1. EvidenceInv'
    <3>1. FALSE \in BOOLEAN /\ ledger' = AtRevision(ledger, FALSE)
      BY <1>4 DEF CallFindsChange
    <3>2. live' \subseteq live \cup {ledger'.revision}
          /\ UNCHANGED <<series, stalls, judged, repairs>>
      BY <1>4 DEF CallFindsChange
    <3> QED BY <1>1, <3>1, <3>2, EvidenceAnew
  <2>2. LoopInv'
    BY <1>4 DEF CallFindsChange, messages, planning, loop, LoopInv
  <2> QED BY <2>1, <2>2
<1>5. ASSUME NEW names \in Revisions, NEW n \in Counts, CallReplans(names, n)
      PROVE  EvidenceInv' /\ LoopInv'
  <2>1. series' \in SeriesType /\ stalls' \in Nat /\ level' \in 0..3
    <3>1. Advance(n, NoSeries, 0, level) /\ NoSeries \in SeriesType /\ 0 \in Nat
      BY <1>5, SeriesTyped DEF CallReplans
    <3> QED BY <1>1, <3>1, AdvanceTyped
  <2>2. UNCHANGED <<ledger, live, judged, repairs, mode>> /\ replans' = replans + 1
    BY <1>5 DEF CallReplans
  <2>3. pending' \subseteq pending /\ step' \in {step, step + 1} /\ pc' \in PcType
    <3>1. CloseBatch(IF Ready(ledger) THEN "over" ELSE Turn)
      BY <1>5 DEF CallReplans
    <3> QED BY <3>1, Answering
  <2> QED BY <1>1, <2>1, <2>2, <2>3, EvidenceGrows, LoopMoves
<1> QED BY <1>2, <1>3, <1>4, <1>5

\* The calls that do.
LEMMA TypesValidations ==
    ASSUME EvidenceInv, LoopInv, NEW v \in Runs,
           \/ CallUnstable(v) \/ CallDoubts(v) \/ CallRepairs(v) \/ CallRollsBack(v)
           \/ CallRollbackFails(v) \/ CallGoesOn(v) \/ CallAsks(v) \/ CallWarned(v)
           \/ CallStops(v)
           \/ \E names \in Revisions : CallReplanned(v, names)
    PROVE  EvidenceInv' /\ LoopInv'
<1>1. /\ series \in SeriesType /\ stalls \in Nat /\ level \in 0..3
      /\ judged \in Nat /\ repairs \in Nat /\ ledger.revision \in Nat
  BY DEF EvidenceInv, LoopInv, LedgerType
<1>2. After(v) = ledger \/ \E result \in Results : After(v) = Recorded(ledger, result)
  BY RunsFacts DEF After
<1>3. Tracking(v) => series' \in SeriesType /\ stalls' \in Nat
  <2>1. SeriesFor(v) \in SeriesType
    BY <1>1, SeriesTyped DEF SeriesFor
  <2>2. Tracked(SeriesFor(v), v.key, v.result) \in SeriesType
    BY <1>1, <2>1, RunsFacts, SeriesTyped
  <2>3. StallsFor(v) \in Nat
    BY <1>1, CountsTyped DEF StallsFor
  <2> QED BY <2>2, <2>3 DEF Tracking
<1>4. LevelFor(v) \in 0..3 /\ LevelNow(v) \in 0..3
  BY <1>1 DEF LevelFor, LevelNow
<1>5. repairs + 1 \in Nat /\ judged + 1 \in Nat /\ Least(repairs + 1, MaxRepairs) \in Nat
  BY <1>1, CountsTyped, LimitsPositive
<1>6. ASSUME ledger' = After(v), live' = live, series' \in SeriesType, stalls' \in Nat,
             judged' \in {judged, judged + 1},
             repairs' \in {repairs, repairs + 1, Least(repairs + 1, MaxRepairs)},
             replans' \in {replans, replans + 1}, level' \in 0..3, mode' = mode,
             (\E to \in PcType : CloseBatch(to)) \/ Continue
      PROVE  EvidenceInv' /\ LoopInv'
  <2>1. EvidenceInv'
    BY <1>1, <1>2, <1>5, <1>6, EvidenceGrows
  <2>2. pending' \subseteq pending /\ step' \in {step, step + 1} /\ pc' \in PcType
    BY <1>6, RunsFacts, Answering
  <2> QED BY <1>6, <2>1, <2>2, LoopMoves
<1>7. ASSUME CallUnstable(v) PROVE EvidenceInv' /\ LoopInv'
  <2>1. series' \in SeriesType /\ stalls' \in Nat /\ level' \in 0..3
    BY <1>1, <1>7, AdvanceTyped DEF CallUnstable
  <2>2. \E to \in PcType : CloseBatch(to)
    BY <1>7, Answering DEF CallUnstable
  <2> QED BY <1>6, <1>7, <2>1, <2>2 DEF CallUnstable
<1>8. ASSUME CallDoubts(v) \/ CallRepairs(v) \/ CallRollbackFails(v)
      PROVE  EvidenceInv' /\ LoopInv'
  <2>1. /\ ledger' = After(v) /\ Tracking(v) /\ level' = LevelFor(v)
        /\ CloseBatch(To(ledger')) /\ UNCHANGED <<replans, live, mode>>
    BY <1>8 DEF CallDoubts, CallRepairs, CallRollbackFails
  <2>2. /\ judged' \in {judged, judged + 1}
        /\ repairs' \in {repairs, repairs + 1, Least(repairs + 1, MaxRepairs)}
    BY <1>8 DEF CallDoubts, CallRepairs, CallRollbackFails
  <2>3. \E to \in PcType : CloseBatch(to)
    BY <2>1, Answering
  <2> QED BY <1>3, <1>4, <1>6, <2>1, <2>2, <2>3
<1>9. ASSUME CallRollsBack(v) PROVE EvidenceInv' /\ LoopInv'
  <2>1. /\ ledger' = AtRevision(ledger, TRUE) /\ live' = live \ {ledger.revision}
        /\ series' = NoSeries /\ stalls' = 0 /\ level' = 0
        /\ judged' = judged + 1 /\ repairs' = Least(repairs + 1, MaxRepairs)
        /\ CloseBatch(Turn) /\ UNCHANGED <<replans, mode>>
    BY <1>9 DEF CallRollsBack
  <2>2. EvidenceInv'
    <3>1. TRUE \in BOOLEAN /\ live' \subseteq live \cup {ledger'.revision}
      BY <2>1
    <3> QED BY <1>5, <2>1, <3>1, SeriesTyped, EvidenceAnew
  <2>3. LoopInv'
    BY <2>1, Answering, LoopMoves
  <2> QED BY <2>2, <2>3
<1>10. ASSUME Ordinary(v)
       PROVE  /\ ledger' = After(v) /\ Tracking(v) /\ judged' \in {judged, judged + 1}
              /\ repairs' \in {repairs, repairs + 1, Least(repairs + 1, MaxRepairs)}
  BY <1>10 DEF Ordinary
<1>11. ASSUME CallGoesOn(v) PROVE EvidenceInv' /\ LoopInv'
  <2>1. (\E to \in PcType : CloseBatch(to)) \/ Continue
    BY <1>11, Answering DEF CallGoesOn
  <2>2. Ordinary(v) /\ level' = LevelNow(v) /\ UNCHANGED <<replans, live, mode>>
    BY <1>11 DEF CallGoesOn
  <2> QED BY <1>3, <1>4, <1>6, <1>10, <2>1, <2>2
<1>12. ASSUME CallAsks(v) \/ CallWarned(v) \/ CallStops(v) PROVE EvidenceInv' /\ LoopInv'
  <2>1. (\E to \in PcType : CloseBatch(to)) /\ Ordinary(v) /\ UNCHANGED <<replans, live, mode>>
    BY <1>12, Answering DEF CallAsks, CallWarned, CallStops, Stalling
  <2>2. level' \in 0..3
    BY <1>4, <1>12, CountsTyped DEF CallAsks, CallWarned, CallStops
  <2> QED BY <1>3, <1>6, <1>10, <2>1, <2>2
<1>13. ASSUME NEW names \in Revisions, CallReplanned(v, names) PROVE EvidenceInv' /\ LoopInv'
  <2>1. /\ ledger' = After(v) /\ replans' = replans + 1 /\ series' = NoSeries /\ stalls' = 0
        /\ level' = 2 /\ CloseBatch(Turn) /\ UNCHANGED <<live, judged, repairs, mode>>
    BY <1>13 DEF CallReplanned
  <2>2. \E to \in PcType : CloseBatch(to)
    BY <2>1, Answering
  <2> QED BY <1>6, <2>1, <2>2, SeriesTyped
<1> QED BY <1>7, <1>8, <1>9, <1>11, <1>12, <1>13

LEMMA TypesStep ==
    ASSUME EvidenceInv, LoopInv, [Next]_vars PROVE EvidenceInv' /\ LoopInv'
<1>1. ASSUME UNCHANGED vars PROVE EvidenceInv' /\ LoopInv'
  BY <1>1 DEF vars, messages, planning, evidence, loop, EvidenceInv, LoopInv
<1>2. ASSUME Over PROVE EvidenceInv' /\ LoopInv'
  BY <1>1, <1>2 DEF Over
<1> QED
  BY <1>1, <1>2, TypesBetweenBatches, TypesBegin, TypesCalls, TypesValidations DEF Next

LEMMA TypesInit == Init => EvidenceInv /\ LoopInv
<1> SUFFICES ASSUME Init PROVE EvidenceInv /\ LoopInv
  OBVIOUS
<1>1. /\ ledger = [revision |-> 0, hasEdit |-> FALSE, proof |-> NoEvidence]
      /\ live = {} /\ series = NoSeries /\ stalls = 0 /\ judged = 0 /\ repairs = 0
  BY DEF Init
<1>2. /\ pending = {} /\ replans = 0 /\ level = 0 /\ mode \in FirstModes /\ step = 0
      /\ pc = "harness"
  BY DEF Init
<1>3. ledger \in LedgerType
  <2>1. ASSUME NEW no \in BOOLEAN
        PROVE  [revision |-> 0, hasEdit |-> no,
                proof |-> [good |-> no, bad |-> no, runs |-> 0]] \in LedgerType
    BY DEF LedgerType
  <2> QED BY <1>1, <2>1, FALSE \in BOOLEAN, Zenon DEF NoEvidence
<1>4. EvidenceInv
  BY <1>1, <1>3, SeriesTyped DEF EvidenceInv
<1>5. LoopInv
  BY <1>2, PolicyPerMode DEF LoopInv
<1> QED BY <1>4, <1>5

\* Every variable has its type.
THEOREM TurnsTyped == Spec => []TypeOK
<1>1. ASSUME HistoryInv, PlanInv, EvidenceInv, LoopInv PROVE TypeOK
  <2>1. plan = None \/ plan \in [steps : Seq(PlanStep), done : Seq(PlanStep)]
    BY <1>1 DEF PlanInv, Sound, PlanType
  <2>2. /\ broken \in BOOLEAN /\ malformed \in BOOLEAN /\ index \in Nat /\ calls \in Nat
        /\ current \in Nat \cup {None}
    BY <1>1 DEF HistoryInv, PlanInv
  <2>3. /\ ledger \in [revision : Nat, hasEdit : BOOLEAN,
                       proof : [good : BOOLEAN, bad : BOOLEAN, runs : Nat]]
        /\ live \subseteq 1..ledger.revision
        /\ series \in [Keys -> [failed : Nat, revision : Nat] \cup {None}]
        /\ stalls \in Nat /\ judged \in Nat /\ repairs \in Nat
    BY <1>1 DEF EvidenceInv, LedgerType, SeriesType
  <2>4. /\ pending \subseteq 1..MaxCalls /\ replans \in Nat /\ level \in 0..3
        /\ mode \in Modes /\ step \in Nat
        /\ pc \in {"harness", "prepare", "begin", "final", "chat", "batch", "spent",
                   "over", "error"}
    BY <1>1 DEF LoopInv
  <2> QED BY <2>1, <2>2, <2>3, <2>4, Zenon DEF TypeOK
<1>2. EvidenceInv /\ LoopInv /\ [Next]_vars => EvidenceInv' /\ LoopInv'
  BY TypesStep
<1>3. PlanInv /\ [Next]_vars => PlanInv'
  BY PlanGoesOn
<1> QED BY <1>1, <1>2, <1>3, HistoryInit, HistoryStep, PlanInit, TypesInit, PTL DEF Spec
============================================================================

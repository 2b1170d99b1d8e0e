---------------------------- MODULE MemoryProofs ----------------------------
(***************************************************************************)
(* For any tools' results, paths and limits, and any number of processes,  *)
(* tasks and calls: what an agent remembers of its task is the task's own  *)
(* and of no earlier validation; and the store that all processes share    *)
(* keeps what was saved, as long as none saves over another's save.        *)
(*                                                                         *)
(* FactsInv says of every fact that it was recorded in this task, with the *)
(* revision of then or with none, and of a validation that no revision has *)
(* come since, because each drops those of earlier ones.  StoreInv says    *)
(* that all lists of records are in the order of their tasks; with it, a   *)
(* list that goes on remembering keeps what it covers (RememberedFacts),   *)
(* and SaveInv says who covers what was saved.                             *)
(*                                                                         *)
(* Lists are built one element after the other; what holds of all of them  *)
(* is proved from a least counterexample.                                  *)
(***************************************************************************)
EXTENDS Memory, WellFoundedInduction, TLAPS

-----------------------------------------------------------------------------
(***************************************************************************)
(* Lists                                                                   *)
(***************************************************************************)

\* A set of natural numbers that is not empty has a least one.
LEMMA LeastOf ==
    ASSUME NEW S \in SUBSET Nat, S # {}
    PROVE  \E n \in S : \A k \in S : n <= k
<1>1. \E n \in S : \A k \in S : ~ (<<k, n>> \in OpToRel(<, Nat))
  BY WFMin, NatLessThanWellFounded
<1>2. ASSUME NEW n \in S, NEW k \in S, k < n PROVE <<k, n>> \in OpToRel(<, Nat)
  <2>1. <<k, n>> \in Nat \X Nat /\ <<k, n>>[1] = k /\ <<k, n>>[2] = n
    OBVIOUS
  <2> QED BY <1>2, <2>1 DEF OpToRel
<1>3. PICK n \in S : \A k \in S : ~ (k < n)
  BY <1>1, <1>2
<1> QED BY <1>3

\* Induction up to n, for a set in the place of a property.
LEMMA Upwards ==
    ASSUME NEW n \in Nat, NEW G, 0 \in G, \A m \in 1..n : m - 1 \in G => m \in G
    PROVE  \A m \in 0..n : m \in G
<1> DEFINE Bad == {m \in 0..n : m \notin G}
<1> SUFFICES ASSUME Bad # {} PROVE FALSE
  OBVIOUS
<1>1. Bad \in SUBSET Nat
  OBVIOUS
<1>2. PICK m \in Bad : \A k \in Bad : m <= k
  <2> HIDE DEF Bad
  <2> QED BY <1>1, LeastOf
<1>3. m \in 0..n /\ m \notin G /\ m # 0
  OBVIOUS
<1>4. m \in 1..n /\ m - 1 \in 0..n /\ m - 1 < m
  BY <1>3
<1>5. m - 1 \notin Bad
  <2> HIDE DEF Bad
  <2> QED BY <1>1, <1>2, <1>4
<1> QED BY <1>3, <1>4, <1>5

\* The list of lists from which Kept takes its last.
KeptUpTo(f, s, S, n) ==
    f = [m \in 0..n |->
            IF m = 0 THEN <<>>
            ELSE IF s[m] \in S THEN Append(f[m - 1], s[m]) ELSE f[m - 1]]

LEMMA KeptExists ==
    ASSUME NEW n \in Nat, NEW s, NEW S PROVE \E f : KeptUpTo(f, s, S, n)
<1> DEFINE G == {m \in 0..n : \E f : KeptUpTo(f, s, S, m)}
<1>1. 0 \in G
  <2> DEFINE g == [m \in 0..0 |-> <<>>]
  <2>1. KeptUpTo(g, s, S, 0)
    BY DEF KeptUpTo
  <2> QED BY <2>1
<1>2. ASSUME NEW m \in 1..n, m - 1 \in G PROVE m \in G
  <2>1. m \in 0..n /\ m - 1 \in 0..n /\ m # 0
    BY <1>2
  <2>2. PICK f : KeptUpTo(f, s, S, m - 1)
    BY <1>2
  <2> DEFINE g == [k \in 0..m |->
                     IF k # m THEN f[k]
                     ELSE IF s[m] \in S THEN Append(f[m - 1], s[m]) ELSE f[m - 1]]
  <2>3. \A k \in 0..(m - 1) : g[k] = f[k]
    BY <2>1
  <2>4. \A k \in 0..m : g[k] = IF k = 0 THEN <<>>
                              ELSE IF s[k] \in S THEN Append(g[k - 1], s[k]) ELSE g[k - 1]
    <3> TAKE k \in 0..m
    <3>1. CASE k = m
      <4>1. g[m - 1] = f[m - 1]
        BY <2>1, <2>3
      <4> QED BY <2>1, <3>1, <4>1
    <3>2. CASE k # m
      <4>1. k \in 0..(m - 1) /\ (k # 0 => k - 1 \in 0..(m - 1))
        BY <2>1, <3>2
      <4>2. f[k] = IF k = 0 THEN <<>>
                   ELSE IF s[k] \in S THEN Append(f[k - 1], s[k]) ELSE f[k - 1]
        BY <2>2, <4>1 DEF KeptUpTo
      <4> HIDE DEF g
      <4> QED BY <2>3, <4>1, <4>2
    <3> QED BY <3>1, <3>2
  <2>5. g = [k \in 0..m |-> g[k]]
    OBVIOUS
  <2> HIDE DEF g
  <2>6. KeptUpTo(g, s, S, m)
    BY <2>4, <2>5 DEF KeptUpTo
  <2> QED BY <2>1, <2>6
<1>3. n \in G
  <2> HIDE DEF G
  <2>1. n \in 0..n
    OBVIOUS
  <2> QED BY <1>1, <1>2, <2>1, Upwards
<1> QED BY <1>3

\* What Kept is, one element after the other.
LEMMA KeptBySteps ==
    ASSUME NEW T, NEW s \in Seq(T), NEW S
    PROVE  \E f : /\ f[0] = <<>> /\ Kept(s, S) = f[Len(s)]
                  /\ \A m \in 1..Len(s) :
                       f[m] = IF s[m] \in S THEN Append(f[m - 1], s[m]) ELSE f[m - 1]
                  /\ \A m \in 0..Len(s) : f[m] \in Seq(T)
<1> DEFINE g == CHOOSE g : KeptUpTo(g, s, S, Len(s))
<1>1. KeptUpTo(g, s, S, Len(s))
  BY KeptExists
<1>2. Kept(s, S) = g[Len(s)]
  BY DEF Kept, KeptUpTo
<1> HIDE DEF g
<1>3. PICK f : KeptUpTo(f, s, S, Len(s)) /\ Kept(s, S) = f[Len(s)]
  BY <1>1, <1>2
<1>4. \A m \in 0..Len(s) :
        f[m] = IF m = 0 THEN <<>>
               ELSE IF s[m] \in S THEN Append(f[m - 1], s[m]) ELSE f[m - 1]
  BY <1>3, Zenon DEF KeptUpTo
<1>5. f[0] = <<>>
  BY <1>4
<1>6. ASSUME NEW m \in 1..Len(s)
      PROVE  f[m] = IF s[m] \in S THEN Append(f[m - 1], s[m]) ELSE f[m - 1]
  BY <1>4
<1> DEFINE G == {m \in 0..Len(s) : f[m] \in Seq(T)}
<1>7. 0 \in G
  <2>1. 0 \in 0..Len(s) /\ <<>> \in Seq(T)
    OBVIOUS
  <2> QED BY <1>5, <2>1
<1>8. ASSUME NEW m \in 1..Len(s), m - 1 \in G PROVE m \in G
  <2>1. s[m] \in T /\ f[m - 1] \in Seq(T) /\ m \in 0..Len(s)
    BY <1>8
  <2>2. CASE s[m] \in S
    <3>1. f[m] = Append(f[m - 1], s[m])
      BY <1>6, <2>2
    <3>2. f[m] \in Seq(T)
      BY <2>1, <3>1
    <3> QED BY <2>1, <3>2
  <2>3. CASE s[m] \notin S
    <3>1. f[m] = f[m - 1]
      BY <1>6, <2>3
    <3> QED BY <2>1, <3>1
  <2> QED BY <2>2, <2>3
<1>9. \A m \in 0..Len(s) : f[m] \in Seq(T)
  <2>1. \A m \in 0..Len(s) : m \in G
    <3> HIDE DEF G
    <3>1. Len(s) \in Nat
      OBVIOUS
    <3> QED BY <1>7, <1>8, <3>1, Upwards
  <2> QED BY <2>1
<1> QED BY <1>3, <1>5, <1>6, <1>9

LEMMA ElementsOfAppend ==
    ASSUME NEW T, NEW s \in Seq(T), NEW e \in T
    PROVE  /\ Append(s, e) \in Seq(T)
           /\ Elements(Append(s, e)) = Elements(s) \cup {e}
<1>1. /\ Append(s, e) \in Seq(T) /\ Len(Append(s, e)) = Len(s) + 1
      /\ Append(s, e)[Len(s) + 1] = e
      /\ \A i \in 1..Len(s) : Append(s, e)[i] = s[i]
  OBVIOUS
<1>2. DOMAIN s = 1..Len(s) /\ DOMAIN Append(s, e) = 1..(Len(s) + 1) /\ Len(s) \in Nat
  BY <1>1
<1>3. 1..(Len(s) + 1) = 1..Len(s) \cup {Len(s) + 1}
  BY <1>2
<1> QED BY <1>1, <1>2, <1>3 DEF Elements

\* What is kept of s are its elements that are in S, all of them.
LEMMA KeptFacts ==
    ASSUME NEW T, NEW s \in Seq(T), NEW S
    PROVE  /\ Kept(s, S) \in Seq(T)
           /\ Elements(Kept(s, S)) = Elements(s) \cap S
<1>1. PICK f : /\ f[0] = <<>> /\ Kept(s, S) = f[Len(s)]
               /\ \A m \in 1..Len(s) :
                    f[m] = IF s[m] \in S THEN Append(f[m - 1], s[m]) ELSE f[m - 1]
               /\ \A m \in 0..Len(s) : f[m] \in Seq(T)
  BY KeptBySteps
<1> DEFINE G == {m \in 0..Len(s) : Elements(f[m]) = {s[i] : i \in 1..m} \cap S}
<1>2. 0 \in G
  <2>1. Elements(f[0]) = {} /\ {s[i] : i \in 1..0} = {}
    BY <1>1 DEF Elements
  <2> QED BY <2>1
<1>3. ASSUME NEW m \in 1..Len(s), m - 1 \in G PROVE m \in G
  <2>1. /\ m \in 0..Len(s) /\ m - 1 \in 0..Len(s) /\ s[m] \in T
        /\ Elements(f[m - 1]) = {s[i] : i \in 1..(m - 1)} \cap S
    BY <1>3
  <2>2. {s[i] : i \in 1..m} = {s[i] : i \in 1..(m - 1)} \cup {s[m]}
    BY <2>1
  <2>3. CASE s[m] \in S
    <3>1. f[m] = Append(f[m - 1], s[m]) /\ f[m - 1] \in Seq(T)
      BY <1>1, <2>1, <2>3
    <3>2. Elements(f[m]) = Elements(f[m - 1]) \cup {s[m]}
      BY <2>1, <3>1, ElementsOfAppend
    <3> QED BY <2>1, <2>2, <2>3, <3>2
  <2>4. CASE s[m] \notin S
    <3>1. f[m] = f[m - 1]
      BY <1>1, <2>4
    <3> QED BY <2>1, <2>2, <2>4, <3>1
  <2> QED BY <2>3, <2>4
<1>4. Elements(f[Len(s)]) = {s[i] : i \in 1..Len(s)} \cap S
  <2>1. Len(s) \in G
    <3> HIDE DEF G
    <3>1. Len(s) \in Nat /\ Len(s) \in 0..Len(s)
      OBVIOUS
    <3> QED BY <1>2, <1>3, <3>1, Upwards
  <2> QED BY <2>1
<1>5. Elements(s) = {s[i] : i \in 1..Len(s)}
  BY DEF Elements
<1> QED BY <1>1, <1>4, <1>5

\* The last n of a list.
LEMMA LastFacts ==
    ASSUME NEW T, NEW s \in Seq(T), NEW n \in Nat \ {0}
    PROVE  \E d \in Nat :
             /\ Last(s, n) \in Seq(T) /\ Len(Last(s, n)) = Len(s) - d
             /\ d = IF Len(s) <= n THEN 0 ELSE Len(s) - n
             /\ \A i \in DOMAIN Last(s, n) : i + d \in DOMAIN s /\ Last(s, n)[i] = s[i + d]
             /\ Elements(Last(s, n)) \subseteq Elements(s)
<1>1. Len(s) \in Nat /\ DOMAIN s = 1..Len(s)
  OBVIOUS
<1>2. CASE Len(s) <= n
  <2>1. Last(s, n) = s /\ 0 \in Nat /\ Len(s) - 0 = Len(s)
    BY <1>1, <1>2 DEF Last
  <2>2. \A i \in DOMAIN s : i + 0 = i
    BY <1>1
  <2> QED BY <1>2, <2>1, <2>2
<1>3. CASE ~(Len(s) <= n)
  <2> DEFINE d == Len(s) - n
  <2>1. d \in Nat /\ Last(s, n) = SubSeq(s, d + 1, Len(s))
    BY <1>1, <1>3 DEF Last
  <2>2. /\ Last(s, n) \in Seq(T) /\ Len(Last(s, n)) = n /\ Len(s) - d = n
        /\ \A i \in 1..n : Last(s, n)[i] = s[i + d] /\ i + d \in 1..Len(s)
    BY <1>1, <1>3, <2>1
  <2>3. DOMAIN Last(s, n) = 1..n
    BY <2>2
  <2> HIDE DEF d
  <2>4. Elements(Last(s, n)) \subseteq Elements(s)
    BY <1>1, <2>2, <2>3 DEF Elements
  <2> QED BY <1>1, <1>3, <2>1, <2>2, <2>3, <2>4 DEF d
<1> QED BY <1>2, <1>3
-----------------------------------------------------------------------------
(***************************************************************************)
(* The facts of a task                                                     *)
(***************************************************************************)

Abouts == {"observation", "edit", "search", "acceptance", "tests", "dependency", "command",
           "git", "diff", "plan", "failure", "safety"}
EntryType == [about : Abouts, tool : Tools, path : Paths \cup {None},
              revision : Nat \cup {None}, born : Nat \X Nat \X Nat]

LEMMA UpsertFacts ==
    ASSUME NEW m \in Seq(EntryType), NEW e \in EntryType
    PROVE  /\ Upsert(m, e) \in Seq(EntryType)
           /\ Elements(Upsert(m, e)) \subseteq Elements(m) \cup {e}
<1> DEFINE others == {x \in Elements(m) : Key(x) # Key(e)}
           k == Kept(m, others)
           a == Append(k, e)
<1>1. k \in Seq(EntryType) /\ Elements(k) \subseteq Elements(m)
  <2> HIDE DEF others
  <2> QED BY KeptFacts
<1>2. a \in Seq(EntryType) /\ Elements(a) = Elements(k) \cup {e}
  <2> HIDE DEF k
  <2> QED BY <1>1, ElementsOfAppend
<1>3. MaxEntries \in Nat \ {0}
  BY LimitsPositive
<1>4. Last(a, MaxEntries) \in Seq(EntryType)
      /\ Elements(Last(a, MaxEntries)) \subseteq Elements(a)
  <2> HIDE DEF a
  <2> QED BY <1>2, <1>3, LastFacts
<1>5. Upsert(m, e) = Last(a, MaxEntries)
  BY DEF Upsert
<1> QED BY <1>1, <1>2, <1>4, <1>5

LEMMA ForgottenPath ==
    ASSUME NEW m \in Seq(EntryType), NEW path
    PROVE  /\ InvalidatePath(m, path) \in Seq(EntryType)
           /\ Elements(InvalidatePath(m, path)) \subseteq Elements(m)
<1> DEFINE left == {x \in Elements(m) : x.path # path}
<1>1. Kept(m, left) \in Seq(EntryType) /\ Elements(Kept(m, left)) = Elements(m) \cap left
  <2> HIDE DEF left
  <2> QED BY KeptFacts
<1>2. InvalidatePath(m, path) = IF path = None THEN m ELSE Kept(m, left)
  BY DEF InvalidatePath
<1> HIDE DEF left
<1> QED BY <1>1, <1>2

LEMMA ForgottenValidations ==
    ASSUME NEW m \in Seq(EntryType), NEW n
    PROVE  /\ InvalidateValidationBefore(m, n) \in Seq(EntryType)
           /\ \A x \in Elements(InvalidateValidationBefore(m, n)) :
                /\ x \in Elements(m)
                /\ KindOf[x.about] = "validation" => x.revision # None /\ x.revision >= n
<1> DEFINE left == {x \in Elements(m) :
                      KindOf[x.about] = "validation" => x.revision # None /\ x.revision >= n}
<1>1. Kept(m, left) \in Seq(EntryType) /\ Elements(Kept(m, left)) = Elements(m) \cap left
  <2> HIDE DEF left
  <2> QED BY KeptFacts
<1>2. InvalidateValidationBefore(m, n) = Kept(m, left)
  BY DEF InvalidateValidationBefore
<1>3. \A x \in left : KindOf[x.about] = "validation" => x.revision # None /\ x.revision >= n
  OBVIOUS
<1> HIDE DEF left
<1> QED BY <1>1, <1>2, <1>3

NotedAt(x, at, born) == x.revision = at /\ x.born = born

\* A result adds facts of its own and takes none back.
LEMMA RecordedFacts ==
    ASSUME NEW m \in Seq(EntryType), NEW r \in Results, NEW at \in Nat \cup {None},
           NEW born \in Nat \X Nat \X Nat
    PROVE  /\ RecordedResult(m, r, at, born) \in Seq(EntryType)
           /\ \A x \in Elements(RecordedResult(m, r, at, born)) :
                x \in Elements(m) \/ NotedAt(x, at, born)
<1> DEFINE Add(n, facts) ==
             IF facts = {} THEN n ELSE Upsert(n, Entry(r, CHOOSE f \in facts : TRUE, at, born))
           Fine(n) == /\ n \in Seq(EntryType)
                      /\ \A x \in Elements(n) :
                           x \in Elements(m) \/ NotedAt(x, at, born)
           known == IF EditFact(r) = {} THEN m ELSE InvalidatePath(m, r.path)
<1>1. ASSUME NEW n, Fine(n), NEW facts \in SUBSET Abouts PROVE Fine(Add(n, facts))
  <2>1. CASE facts = {}
    BY <1>1, <2>1
  <2>2. CASE facts # {}
    <3> DEFINE e == Entry(r, CHOOSE f \in facts : TRUE, at, born)
    <3>1. (CHOOSE f \in facts : TRUE) \in Abouts
      BY <2>2
    <3>2. e \in EntryType /\ NotedAt(e, at, born)
      BY <3>1, ResultsTyped DEF Entry, EntryType, NotedAt
    <3> HIDE DEF e
    <3>3. Upsert(n, e) \in Seq(EntryType) /\ Elements(Upsert(n, e)) \subseteq Elements(n) \cup {e}
      BY <1>1, <3>2, UpsertFacts
    <3>4. Add(n, facts) = Upsert(n, e)
      BY <2>2 DEF e
    <3> QED BY <1>1, <3>2, <3>3, <3>4
  <2> QED BY <2>1, <2>2
<1>2. Fine(known)
  BY ForgottenPath
<1>3. MainFact(r) \in SUBSET Abouts
  <2>1. FileFact(r) \subseteq Abouts /\ SearchFact(r) \subseteq Abouts
    BY DEF Abouts, FileFact, SearchFact
  <2>2. EditFact(r) \subseteq Abouts /\ WebFact(r) \subseteq Abouts
    BY DEF Abouts, EditFact, WebFact
  <2>3. TestsFact(r) \subseteq Abouts /\ InstallFact(r) \subseteq Abouts
    BY DEF Abouts, TestsFact, InstallFact
  <2>4. CommandFact(r) \subseteq Abouts /\ StatusFact(r) \subseteq Abouts
    BY DEF Abouts, CommandFact, StatusFact
  <2>5. DiffFact(r) \subseteq Abouts /\ PlanFact(r) \subseteq Abouts
    BY DEF Abouts, DiffFact, PlanFact
  <2> QED BY <2>1, <2>2, <2>3, <2>4, <2>5 DEF MainFact
<1>4. FailureFact(r) \in SUBSET Abouts /\ SafetyFact(r) \in SUBSET Abouts
  <2>1. FailureFact(r) \subseteq Abouts /\ SafetyFact(r) \subseteq Abouts
    BY DEF Abouts, FailureFact, SafetyFact
  <2> QED BY <2>1
<1>5. RecordedResult(m, r, at, born) = Add(Add(Add(known, MainFact(r)), FailureFact(r)), SafetyFact(r))
  BY DEF RecordedResult
<1>6. Fine(RecordedResult(m, r, at, born))
  <2> HIDE DEF Add, Fine, known
  <2> QED BY <1>1, <1>2, <1>3, <1>4, <1>5
<1> QED BY <1>6

Places == {"off", "idle", "run", "open", "write", "replace"}

\* What a fact may be in a task with that number, at its revision n: recorded at
\* an earlier revision, unless a validation; passed with the revision at which
\* it was recorded, or with none.  The run of a validation began at most one
\* revision before.
Fresh(e, number, n) ==
    /\ e.born[1] = number /\ e.born[3] <= n
    /\ e.revision \in {None, e.born[3]}
    /\ KindOf[e.about] = "validation" => e.born[3] = n /\ e.born[2] \in {n - 1, n}

FactsInv ==
    /\ entries \in [Processes -> Seq(EntryType)]
    /\ revision \in [Processes -> Nat]
    /\ prompt \in [Processes -> [name : Prompts \cup {None}, number : Nat]]
    /\ pc \in [Processes -> Places]
    /\ tasks \in Nat
    /\ \A p \in Processes : pc[p] = "run" =>
         \A e \in Elements(entries[p]) : Fresh(e, prompt[p].number, revision[p])

LEMMA Going ==
    ASSUME pc \in [Processes -> Places], NEW p \in Processes, NEW from,
           NEW to \in Places, Goto(p, from, to)
    PROVE  /\ pc' \in [Processes -> Places] /\ pc[p] = from /\ pc'[p] = to
           /\ \A q \in Processes \ {p} : pc'[q] = pc[q]
BY DEF Goto

\* The facts of the running tasks are left alone.
LEMMA FactsStay ==
    ASSUME FactsInv, UNCHANGED <<entries, revision, prompt, tasks>>,
           pc' \in [Processes -> Places],
           \A p \in Processes : pc'[p] = "run" => pc[p] = "run"
    PROVE  FactsInv'
BY DEF FactsInv, Fresh

\* A call changes the facts of one task.
LEMMA FactsMove ==
    ASSUME FactsInv, NEW p \in Processes, NEW m \in Seq(EntryType), NEW n \in Nat,
           entries' = [entries EXCEPT ![p] = m], revision' = [revision EXCEPT ![p] = n],
           UNCHANGED <<prompt, pc, tasks>>,
           \A e \in Elements(m) : Fresh(e, prompt[p].number, n)
    PROVE  FactsInv'
<1>1. /\ entries' \in [Processes -> Seq(EntryType)] /\ revision' \in [Processes -> Nat]
      /\ entries'[p] = m /\ revision'[p] = n
      /\ \A q \in Processes \ {p} : entries'[q] = entries[q] /\ revision'[q] = revision[q]
  BY DEF FactsInv
<1>2. ASSUME NEW q \in Processes, pc'[q] = "run", NEW e \in Elements(entries'[q])
      PROVE  Fresh(e, prompt[q].number, revision'[q])
  <2>1. CASE q = p
    BY <1>1, <1>2, <2>1
  <2>2. CASE q # p
    BY <1>1, <1>2, <2>2 DEF FactsInv
  <2> QED BY <2>1, <2>2
<1> QED BY <1>1, <1>2 DEF FactsInv, Fresh

\* A new revision leaves no validation of the one before.
LEMMA Forgetting ==
    ASSUME NEW m \in Seq(EntryType), NEW number, NEW n \in Nat,
           \A e \in Elements(m) :
              \/ Fresh(e, number, n)
              \/ e.born = <<number, n, n + 1>> /\ e.revision = n + 1
    PROVE  LET left == InvalidateValidationBefore(m, n + 1)
           IN  /\ left \in Seq(EntryType)
               /\ \A e \in Elements(left) : Fresh(e, number, n + 1)
<1> DEFINE left == InvalidateValidationBefore(m, n + 1)
<1>1. /\ left \in Seq(EntryType)
      /\ \A x \in Elements(left) :
           /\ x \in Elements(m)
           /\ KindOf[x.about] = "validation" => x.revision # None /\ x.revision >= n + 1
  BY ForgottenValidations
<1> HIDE DEF left
<1>2. ASSUME NEW e \in Elements(left) PROVE Fresh(e, number, n + 1)
  <2>1. e \in Elements(m) /\ e \in EntryType
    BY <1>1 DEF Elements
  <2>2. e.born[3] \in Nat
    BY <2>1 DEF EntryType
  <2>3. CASE Fresh(e, number, n)
    <3>1. KindOf[e.about] # "validation"
      BY <1>1, <1>2, <2>2, <2>3 DEF Fresh
    <3> QED BY <2>2, <2>3, <3>1 DEF Fresh
  <2>4. CASE e.born = <<number, n, n + 1>> /\ e.revision = n + 1
    BY <2>4 DEF Fresh
  <2> QED BY <2>1, <2>3, <2>4
<1> QED BY <1>1, <1>2 DEF left

LEMMA FactsOfCalls ==
    ASSUME FactsInv, NEW p \in Processes,
           \/ \E r \in Results : CallUnprepared(p, r) \/ CallTool(p, r) \/ CallEdit(p, r)
           \/ NoticeChange(p)
           \/ RollBack(p)
    PROVE  FactsInv'
<1> DEFINE m == entries[p]
           n == revision[p]
           number == prompt[p].number
<1>1. /\ pc[p] = "run" /\ m \in Seq(EntryType) /\ n \in Nat /\ number \in Nat
      /\ revision \in [Processes -> Nat] /\ UNCHANGED <<prompt, pc, tasks>>
      /\ \A e \in Elements(m) : Fresh(e, number, n)
  <2>1. pc[p] = "run" /\ UNCHANGED <<prompt, pc, tasks>>
    BY DEF CallUnprepared, CallTool, CallEdit, NoticeChange, RollBack, Calling, CalledElse
  <2>2. prompt[p] \in [name : Prompts \cup {None}, number : Nat]
    BY DEF FactsInv
  <2> QED BY <2>1, <2>2 DEF FactsInv
<1>2. revision = [revision EXCEPT ![p] = n]
  BY <1>1
<1>3. ASSUME NEW r \in Results, CallUnprepared(p, r) \/ CallTool(p, r) PROVE FactsInv'
  <2>1. PICK now \in After(p, r) : \E at \in {None, now} :
          /\ revision' = [revision EXCEPT ![p] = now]
          /\ entries' = [entries EXCEPT ![p] =
                           RecordedResult(Facts(p, now), r, at, <<number, n, now>>)]
    BY <1>3 DEF CallUnprepared, CallTool, Born
  <2>2. PICK at \in {None, now} :
          entries' = [entries EXCEPT ![p] =
                       RecordedResult(Facts(p, now), r, at, <<number, n, now>>)]
    BY <2>1
  <2> DEFINE known == Facts(p, now)
             born == <<number, n, now>>
             told == RecordedResult(known, r, at, born)
  <2>3. /\ now \in Nat /\ n \in {now - 1, now}
        /\ known \in Seq(EntryType)
        /\ \A x \in Elements(known) : Fresh(x, number, now)
    <3>1. CASE now = n
      BY <1>1, <3>1 DEF Facts
    <3>2. CASE now = n + 1
      <4> DEFINE left == InvalidateValidationBefore(m, n + 1)
      <4>1. known = left
        BY <1>1, <3>2 DEF Facts
      <4>2. left \in Seq(EntryType) /\ \A e \in Elements(left) : Fresh(e, number, n + 1)
        <5> HIDE DEF m, n, number, known
        <5> QED BY <1>1, Forgetting
      <4> HIDE DEF left, known
      <4> QED BY <1>1, <3>2, <4>1, <4>2
    <3> QED BY <3>1, <3>2 DEF After
  <2>4. /\ told \in Seq(EntryType)
        /\ \A x \in Elements(told) :
             x \in Elements(known) \/ NotedAt(x, at, born)
    <3>1. at \in Nat \cup {None} /\ born \in Nat \X Nat \X Nat
      BY <1>1, <2>3
    <3> HIDE DEF known, born
    <3> QED BY <2>3, <3>1, RecordedFacts
  <2> HIDE DEF told, known
  <2>5. \A x \in Elements(told) : Fresh(x, number, now)
    <3>1. born[1] = number /\ born[2] \in {now - 1, now} /\ born[3] = now
      BY <2>3
    <3>2. at \in {None, now} /\ now <= now
      BY <2>3
    <3> HIDE DEF born, n, number
    <3>3. ASSUME NEW x, NotedAt(x, at, born) PROVE Fresh(x, number, now)
      BY <2>3, <3>1, <3>2, <3>3 DEF Fresh, NotedAt
    <3> QED BY <2>3, <2>4, <3>3
  <2>6. entries' = [entries EXCEPT ![p] = told]
    BY <2>2 DEF told, known
  <2> QED BY <1>1, <2>1, <2>3, <2>4, <2>5, <2>6, FactsMove
<1>4. ASSUME NEW r \in Results, CallEdit(p, r) PROVE FactsInv'
  <2> DEFINE next == n + 1
             born == <<number, n, next>>
             told == RecordedResult(m, r, next, born)
             left == InvalidateValidationBefore(told, next)
             rest == InvalidatePath(left, r.path)
  <2>1. /\ revision' = [revision EXCEPT ![p] = n + 1]
        /\ entries' = [entries EXCEPT ![p] = rest]
    BY <1>4 DEF CallEdit, Born
  <2>2. /\ told \in Seq(EntryType)
        /\ \A x \in Elements(told) :
             x \in Elements(m) \/ NotedAt(x, next, born)
    <3>1. next \in Nat \cup {None} /\ born \in Nat \X Nat \X Nat
      BY <1>1
    <3>2. m \in Seq(EntryType)
      BY <1>1
    <3> HIDE DEF m, next, born
    <3> QED BY <3>1, <3>2, RecordedFacts
  <2> HIDE DEF told
  <2>3. left \in Seq(EntryType) /\ \A e \in Elements(left) : Fresh(e, number, n + 1)
    <3>1. \A e \in Elements(told) :
            \/ Fresh(e, number, n)
            \/ e.born = <<number, n, n + 1>> /\ e.revision = n + 1
      BY <1>1, <2>2 DEF NotedAt
    <3>2. n \in Nat
      BY <1>1
    <3> HIDE DEF m, n, number
    <3> QED BY <2>2, <3>1, <3>2, Forgetting
  <2> HIDE DEF left
  <2>4. rest \in Seq(EntryType) /\ Elements(rest) \subseteq Elements(left)
    BY <2>3, ForgottenPath
  <2>5. n + 1 \in Nat
    BY <1>1
  <2> HIDE DEF rest
  <2> QED BY <1>1, <2>1, <2>3, <2>4, <2>5, FactsMove
<1>5. ASSUME NoticeChange(p) PROVE FactsInv'
  <2> DEFINE left == InvalidateValidationBefore(m, n + 1)
  <2>1. revision' = [revision EXCEPT ![p] = n + 1] /\ entries' = [entries EXCEPT ![p] = left]
    <3>1. Facts(p, n + 1) = left
      BY <1>1 DEF Facts
    <3> QED BY <1>5, <3>1 DEF NoticeChange
  <2>2. left \in Seq(EntryType) /\ \A e \in Elements(left) : Fresh(e, number, n + 1)
    <3> HIDE DEF m, n, number
    <3> QED BY <1>1, Forgetting
  <2>3. n + 1 \in Nat
    BY <1>1
  <2> HIDE DEF left
  <2> QED BY <1>1, <2>1, <2>2, <2>3, FactsMove
<1>6. ASSUME RollBack(p) PROVE FactsInv'
  <2>1. /\ revision' = [revision EXCEPT ![p] = n + 1]
        /\ entries' = [entries EXCEPT ![p] = <<>>]
    BY <1>6 DEF RollBack
  <2>2. <<>> \in Seq(EntryType) /\ Elements(<<>>) = {} /\ n + 1 \in Nat
    BY <1>1 DEF Elements
  <2> QED BY <1>1, <2>1, <2>2, FactsMove
<1> QED BY <1>3, <1>4, <1>5, <1>6

\* The steps around the calls.
LEMMA FactsAround ==
    ASSUME FactsInv, NEW p \in Processes,
           \/ Boot(p) \/ OpenTmp(p) \/ FinishWrite(p) \/ Replace(p) \/ SaveFails(p)
           \/ \E outcome : EndTask(p, outcome)
           \/ Leave(p)
           \/ \E name \in Prompts : StartTask(p, name)
    PROVE  FactsInv'
<1>1. /\ pc \in [Processes -> Places]
      /\ {"off", "idle", "run", "open", "write", "replace"} \subseteq Places
  BY DEF FactsInv, Places
<1>2. ASSUME NEW from, NEW to \in Places, Goto(p, from, to), to # "run",
             UNCHANGED <<entries, revision, prompt, tasks>>
      PROVE  FactsInv'
  BY <1>1, <1>2, Going, FactsStay
<1>3. ASSUME Boot(p) PROVE FactsInv'
  BY <1>1, <1>2, <1>3 DEF Boot, task
<1>4. ASSUME OpenTmp(p) PROVE FactsInv'
  BY <1>1, <1>2, <1>4 DEF OpenTmp, task
<1>5. ASSUME FinishWrite(p) PROVE FactsInv'
  BY <1>1, <1>2, <1>5 DEF FinishWrite, task, history
<1>6. ASSUME Replace(p) PROVE FactsInv'
  BY <1>1, <1>2, <1>6 DEF Replace, task
<1>7. ASSUME SaveFails(p) PROVE FactsInv'
  BY <1>1, <1>2, <1>7 DEF SaveFails, task, history
<1>8. ASSUME NEW outcome, EndTask(p, outcome) PROVE FactsInv'
  BY <1>1, <1>2, <1>8 DEF EndTask, task, history
<1>9. ASSUME Leave(p) PROVE FactsInv'
  <2>1. /\ entries' = [entries EXCEPT ![p] = <<>>] /\ revision' = [revision EXCEPT ![p] = 0]
        /\ pc' = [pc EXCEPT ![p] = "off"] /\ prompt' = [prompt EXCEPT ![p] = NoTask]
        /\ tasks' = tasks
    BY <1>9 DEF Leave, history
  <2>2. <<>> \in Seq(EntryType) /\ NoTask \in [name : Prompts \cup {None}, number : Nat]
    BY DEF NoTask
  <2>3. /\ entries' \in [Processes -> Seq(EntryType)] /\ revision' \in [Processes -> Nat]
        /\ pc' \in [Processes -> Places]
        /\ prompt' \in [Processes -> [name : Prompts \cup {None}, number : Nat]]
        /\ tasks' \in Nat
    BY <1>1, <2>1, <2>2 DEF FactsInv
  <2>4. \A q \in Processes : pc'[q] = "run" =>
          /\ pc[q] = "run" /\ entries'[q] = entries[q]
          /\ revision'[q] = revision[q] /\ prompt'[q] = prompt[q]
    BY <1>1, <2>1 DEF FactsInv
  <2> QED BY <2>3, <2>4 DEF FactsInv, Fresh
<1>10. ASSUME NEW name \in Prompts, StartTask(p, name) PROVE FactsInv'
  <2> DEFINE new == [name |-> name, number |-> tasks + 1]
  <2>1. /\ entries' = [entries EXCEPT ![p] = <<>>] /\ revision' = [revision EXCEPT ![p] = 0]
        /\ prompt' = [prompt EXCEPT ![p] = new] /\ tasks' = tasks + 1
        /\ Goto(p, "idle", "run")
    BY <1>10 DEF StartTask
  <2>2. /\ <<>> \in Seq(EntryType) /\ tasks + 1 \in Nat
        /\ new \in [name : Prompts \cup {None}, number : Nat]
    BY DEF FactsInv
  <2> HIDE DEF new
  <2>3. /\ pc' \in [Processes -> Places]
        /\ \A q \in Processes \ {p} : pc'[q] = pc[q]
    BY <1>1, <2>1, Going
  <2>4. /\ entries' \in [Processes -> Seq(EntryType)] /\ revision' \in [Processes -> Nat]
        /\ prompt' \in [Processes -> [name : Prompts \cup {None}, number : Nat]]
        /\ tasks' \in Nat /\ entries'[p] = <<>>
    BY <2>1, <2>2 DEF FactsInv
  <2>5. \A q \in Processes \ {p} :
          entries'[q] = entries[q] /\ revision'[q] = revision[q] /\ prompt'[q] = prompt[q]
    BY <2>1 DEF FactsInv
  <2>6. Elements(entries'[p]) = {}
    BY <2>4 DEF Elements
  <2>7. ASSUME NEW q \in Processes, pc'[q] = "run", NEW e \in Elements(entries'[q])
        PROVE  Fresh(e, prompt'[q].number, revision'[q])
    <3>1. q # p
      BY <2>6, <2>7
    <3>2. pc[q] = "run" /\ e \in Elements(entries[q])
      BY <2>3, <2>5, <2>7, <3>1
    <3> QED BY <2>5, <3>1, <3>2 DEF FactsInv
  <2> QED BY <2>3, <2>4, <2>7 DEF FactsInv, Fresh
<1> QED BY <1>3, <1>4, <1>5, <1>6, <1>7, <1>8, <1>9, <1>10

LEMMA FactsStep == FactsInv /\ [Next]_vars => FactsInv'
<1> SUFFICES ASSUME FactsInv, [Next]_vars PROVE FactsInv'
  OBVIOUS
<1>1. ASSUME UNCHANGED vars PROVE FactsInv'
  BY <1>1 DEF vars, task, history, FactsInv, Fresh
<1> QED BY <1>1, FactsOfCalls, FactsAround DEF Next

LEMMA FactsInit == Init => FactsInv
<1> SUFFICES ASSUME Init PROVE FactsInv
  OBVIOUS
<1>1. <<>> \in Seq(EntryType) /\ NoTask \in [name : Prompts \cup {None}, number : Nat]
  BY DEF NoTask
<1> QED BY <1>1 DEF Init, FactsInv, Places

\* No fact that an agent remembers is another task's; no validation was
\* recorded at an earlier revision, and its run met at most the one change that
\* made the present one: for any tools, paths and limits and any number of
\* processes, tasks and calls.
THEOREM FactsAreFresh == Spec => []MemoryIsFresh
<1>1. FactsInv => MemoryIsFresh
  BY DEF FactsInv, Fresh, MemoryIsFresh, Elements
<1> QED BY <1>1, FactsInit, FactsStep, PTL DEF Spec
-----------------------------------------------------------------------------
(***************************************************************************)
(* The records of tasks                                                    *)
(***************************************************************************)

Ends == {"error", "success", "incomplete", "informational"}
KeyT == [about : Abouts, tool : Tools, path : Paths \cup {None}]
RecordT == [prompt : Prompts \cup {None}, id : Nat, outcome : Ends, facts : Seq(KeyT)]

\* Records by the order of their tasks, one for each prompt.
Below(x, y) == x.id < y.id /\ x.prompt # y.prompt
Ascending(s) == \A i, j \in DOMAIN s : i < j => Below(s[i], s[j])

\* A saved task is found, as it is or run again, or newer ones fill the store.
Covers(s, t) ==
    \/ \E x \in Elements(s) : x.prompt = t.name /\ x.id >= t.number
    \/ Len(s) = MaxRecords /\ \A x \in Elements(s) : x.id > t.number

LEMMA AscendingAppend ==
    ASSUME NEW s \in Seq(RecordT), Ascending(s), NEW e \in RecordT,
           \A x \in Elements(s) : Below(x, e)
    PROVE  Ascending(Append(s, e))
<1> DEFINE a == Append(s, e)
<1>1. /\ Len(s) \in Nat /\ DOMAIN s = 1..Len(s) /\ DOMAIN a = 1..(Len(s) + 1)
      /\ \A i \in 1..Len(s) : a[i] = s[i]
      /\ a[Len(s) + 1] = e
  OBVIOUS
<1> HIDE DEF a
<1>2. ASSUME NEW i \in DOMAIN a, NEW j \in DOMAIN a, i < j PROVE Below(a[i], a[j])
  <2>1. i \in 1..Len(s) /\ a[i] = s[i]
    BY <1>1, <1>2
  <2>2. CASE j \in 1..Len(s)
    BY <1>1, <1>2, <2>1, <2>2 DEF Ascending
  <2>3. CASE j = Len(s) + 1
    BY <1>1, <2>1, <2>3 DEF Elements
  <2> QED BY <1>1, <2>2, <2>3
<1> QED BY <1>2 DEF Ascending, a

\* The records kept are in order, and as many as before but for what is lost.
LEMMA KeptRecords ==
    ASSUME NEW s \in Seq(RecordT), Ascending(s), NEW S
    PROVE  /\ Ascending(Kept(s, S))
           /\ Len(Kept(s, S)) <= Len(s)
           /\ \A b \in Nat : (\A i \in DOMAIN s : i # b => s[i] \in S)
                 => Len(Kept(s, S)) >= Len(s) - 1
<1>1. PICK f : /\ f[0] = <<>> /\ Kept(s, S) = f[Len(s)]
               /\ \A m \in 1..Len(s) :
                    f[m] = IF s[m] \in S THEN Append(f[m - 1], s[m]) ELSE f[m - 1]
               /\ \A m \in 0..Len(s) : f[m] \in Seq(RecordT)
  BY KeptBySteps
<1>2. Len(s) \in Nat /\ DOMAIN s = 1..Len(s) /\ 0 \in 0..Len(s) /\ Len(s) \in 0..Len(s)
  OBVIOUS
<1> DEFINE G == {m \in 0..Len(s) :
                   /\ Ascending(f[m]) /\ Len(f[m]) <= m
                   /\ \A x \in Elements(f[m]) : \E i \in 1..m : x = s[i]}
<1>3. 0 \in G
  <2>1. Len(<<>>) = 0 /\ DOMAIN <<>> = {}
    OBVIOUS
  <2> QED BY <1>1, <1>2, <2>1 DEF Ascending, Elements
<1>4. ASSUME NEW m \in 1..Len(s), m - 1 \in G PROVE m \in G
  <2>1. /\ m \in 0..Len(s) /\ m - 1 \in 0..Len(s) /\ s[m] \in RecordT
        /\ f[m - 1] \in Seq(RecordT) /\ Len(f[m - 1]) \in Nat
        /\ Ascending(f[m - 1]) /\ Len(f[m - 1]) <= m - 1
    BY <1>1, <1>4
  <2>2. \A x \in Elements(f[m - 1]) : \E i \in 1..(m - 1) : x = s[i]
    BY <1>4
  <2>3. CASE s[m] \in S
    <3>1. f[m] = Append(f[m - 1], s[m])
      BY <1>1, <2>3
    <3>2. \A x \in Elements(f[m - 1]) : Below(x, s[m])
      <4> TAKE x \in Elements(f[m - 1])
      <4>1. PICK i \in 1..(m - 1) : x = s[i]
        BY <2>2
      <4>2. i \in DOMAIN s /\ m \in DOMAIN s /\ i < m
        BY <1>2, <4>1
      <4>3. Below(s[i], s[m])
        BY <4>2 DEF Ascending
      <4> QED BY <4>1, <4>3
    <3>3. Ascending(f[m])
      BY <2>1, <3>1, <3>2, AscendingAppend
    <3>4. Len(f[m]) = Len(f[m - 1]) + 1
      BY <2>1, <3>1
    <3>5. Elements(f[m]) = Elements(f[m - 1]) \cup {s[m]}
      BY <2>1, <3>1, ElementsOfAppend
    <3>6. \A x \in Elements(f[m]) : \E i \in 1..m : x = s[i]
      <4>1. \A i \in 1..(m - 1) : i \in 1..m
        OBVIOUS
      <4>2. m \in 1..m
        OBVIOUS
      <4> HIDE DEF G
      <4> QED BY <2>2, <3>5, <4>1, <4>2
    <3> QED BY <2>1, <3>3, <3>4, <3>6
  <2>4. CASE s[m] \notin S
    <3>1. f[m] = f[m - 1]
      BY <1>1, <2>4
    <3>2. \A x \in Elements(f[m]) : \E i \in 1..m : x = s[i]
      <4>1. \A i \in 1..(m - 1) : i \in 1..m
        OBVIOUS
      <4> HIDE DEF G
      <4> QED BY <2>2, <3>1, <4>1
    <3> QED BY <2>1, <3>1, <3>2
  <2> QED BY <2>3, <2>4
<1>5. Ascending(Kept(s, S)) /\ Len(Kept(s, S)) <= Len(s)
  <2>1. Len(s) \in G
    <3> HIDE DEF G
    <3> QED BY <1>2, <1>3, <1>4, Upwards
  <2> QED BY <1>1, <2>1
<1>6. ASSUME NEW b \in Nat, \A i \in DOMAIN s : i # b => s[i] \in S
      PROVE  Len(Kept(s, S)) >= Len(s) - 1
  <2> DEFINE H == {m \in 0..Len(s) : Len(f[m]) >= IF m < b THEN m ELSE m - 1}
  <2>1. 0 \in H
    <3>1. Len(<<>>) = 0
      OBVIOUS
    <3> QED BY <1>1, <1>2, <3>1
  <2>2. ASSUME NEW m \in 1..Len(s), m - 1 \in H PROVE m \in H
    <3>1. /\ m \in 0..Len(s) /\ m - 1 \in 0..Len(s) /\ s[m] \in RecordT
          /\ f[m - 1] \in Seq(RecordT) /\ Len(f[m - 1]) \in Nat
          /\ Len(f[m - 1]) >= IF m - 1 < b THEN m - 1 ELSE m - 2
      BY <1>1, <2>2
    <3>2. CASE s[m] \in S
      <4>1. f[m] = Append(f[m - 1], s[m])
        BY <1>1, <3>2
      <4>2. Len(f[m]) = Len(f[m - 1]) + 1
        BY <3>1, <4>1
      <4> QED BY <3>1, <4>2
    <3>3. CASE s[m] \notin S
      <4>1. f[m] = f[m - 1]
        BY <1>1, <3>3
      <4>2. m = b
        BY <1>2, <1>6, <3>3
      <4> QED BY <3>1, <4>1, <4>2
    <3> QED BY <3>2, <3>3
  <2>3. Len(s) \in H
    <3> HIDE DEF H
    <3> QED BY <1>2, <2>1, <2>2, Upwards
  <2>4. f[Len(s)] \in Seq(RecordT) /\ Len(f[Len(s)]) \in Nat
    BY <1>1, <1>2
  <2> QED BY <1>1, <1>2, <2>3, <2>4
<1> QED BY <1>5, <1>6

LEMMA AscendingLast ==
    ASSUME NEW s \in Seq(RecordT), Ascending(s), NEW n \in Nat \ {0}
    PROVE  Ascending(Last(s, n))
<1>1. PICK d \in Nat :
        /\ Last(s, n) \in Seq(RecordT) /\ Len(Last(s, n)) = Len(s) - d
        /\ d = IF Len(s) <= n THEN 0 ELSE Len(s) - n
        /\ \A i \in DOMAIN Last(s, n) : i + d \in DOMAIN s /\ Last(s, n)[i] = s[i + d]
        /\ Elements(Last(s, n)) \subseteq Elements(s)
  BY LastFacts
<1> DEFINE l == Last(s, n)
<1>2. DOMAIN l \subseteq Nat
  BY <1>1
<1>3. ASSUME NEW i \in DOMAIN l, NEW j \in DOMAIN l, i < j PROVE Below(l[i], l[j])
  <2>1. i + d < j + d /\ i + d \in DOMAIN s /\ j + d \in DOMAIN s
    BY <1>1, <1>2, <1>3
  <2>2. Below(s[i + d], s[j + d])
    BY <2>1 DEF Ascending
  <2> QED BY <1>1, <2>2
<1> QED BY <1>3 DEF Ascending

\* What remembering a later task leaves of the store.
LEMMA RememberedFacts ==
    ASSUME NEW s \in Seq(RecordT), Ascending(s), Len(s) <= MaxRecords,
           NEW r \in RecordT, \A x \in Elements(s) : x.id < r.id
    PROVE  /\ Remembered(s, r) \in Seq(RecordT)
           /\ Ascending(Remembered(s, r)) /\ Len(Remembered(s, r)) <= MaxRecords
           /\ Elements(Remembered(s, r)) \subseteq Elements(s) \cup {r}
           /\ r \in Elements(Remembered(s, r))
           /\ \A t : t.number \in Nat /\ Covers(s, t) => Covers(Remembered(s, r), t)
<1> DEFINE S == {x \in Elements(s) : x.prompt # r.prompt}
           k == Kept(s, S)
           a == Append(k, r)
           l == Last(a, MaxRecords)
<1>1. MaxRecords \in Nat \ {0}
  BY LimitsPositive
<1>2. /\ Len(s) \in Nat /\ DOMAIN s = 1..Len(s)
      /\ \A i \in DOMAIN s : s[i] \in RecordT /\ s[i] \in Elements(s)
  BY DEF Elements
<1>3. /\ k \in Seq(RecordT) /\ Elements(k) = Elements(s) \cap S
      /\ Ascending(k) /\ Len(k) <= Len(s)
      /\ \A b \in Nat : (\A i \in DOMAIN s : i # b => s[i] \in S) => Len(k) >= Len(s) - 1
  <2> HIDE DEF S
  <2> QED BY KeptFacts, KeptRecords
<1>4. Elements(k) = S
  BY <1>3
<1>5. Len(k) >= Len(s) - 1
  <2>1. CASE \A i \in DOMAIN s : s[i].prompt # r.prompt
    <3>1. \A i \in DOMAIN s : i # 0 => s[i] \in S
      BY <1>2, <2>1
    <3> HIDE DEF S, k
    <3> QED BY <1>3, <3>1
  <2>2. ASSUME NEW b \in DOMAIN s, s[b].prompt = r.prompt PROVE Len(k) >= Len(s) - 1
    <3>1. ASSUME NEW i \in DOMAIN s, i # b PROVE s[i] \in S
      <4>1. i < b \/ b < i
        BY <1>2, <3>1
      <4>2. s[i].prompt # s[b].prompt
        BY <4>1 DEF Ascending, Below
      <4> QED BY <1>2, <2>2, <4>2
    <3>2. b \in Nat
      BY <1>2
    <3> HIDE DEF S, k
    <3> QED BY <1>3, <3>1, <3>2
  <2> QED BY <2>1, <2>2
<1>6. \A x \in Elements(k) : Below(x, r)
  BY <1>4 DEF Below
<1> HIDE DEF k
<1>7. /\ a \in Seq(RecordT) /\ Ascending(a) /\ Elements(a) = S \cup {r}
      /\ Len(k) \in Nat /\ Len(a) = Len(k) + 1 /\ a[Len(a)] = r
      /\ \A i \in 1..Len(k) : a[i] = k[i]
  <2>1. a \in Seq(RecordT) /\ Elements(a) = Elements(k) \cup {r}
    BY <1>3, ElementsOfAppend
  <2>2. Ascending(a)
    BY <1>3, <1>6, AscendingAppend
  <2>3. Len(k) \in Nat /\ Len(a) = Len(k) + 1
    BY <1>3
  <2>4. a[Len(k) + 1] = r /\ \A i \in 1..Len(k) : a[i] = k[i]
    BY <1>3
  <2> QED BY <1>4, <2>1, <2>2, <2>3, <2>4
<1> HIDE DEF a
<1>8. PICK d \in Nat :
        /\ l \in Seq(RecordT) /\ Len(l) = Len(a) - d
        /\ d = IF Len(a) <= MaxRecords THEN 0 ELSE Len(a) - MaxRecords
        /\ \A i \in DOMAIN l : i + d \in DOMAIN a /\ l[i] = a[i + d]
        /\ Elements(l) \subseteq Elements(a)
  BY <1>1, <1>7, LastFacts
<1>9. Ascending(l)
  BY <1>1, <1>7, AscendingLast
<1>10. Remembered(s, r) = l
  BY DEF Remembered, k, a
<1> HIDE DEF l
<1>11. /\ Len(l) \in Nat /\ Len(l) <= MaxRecords /\ Len(l) >= 1 /\ DOMAIN l = 1..Len(l)
       /\ \/ d = 0 /\ Len(a) <= MaxRecords /\ Len(l) = Len(a)
          \/ d > 0 /\ Len(l) = MaxRecords
  <2>1. Len(l) \in Nat /\ DOMAIN l = 1..Len(l)
    BY <1>8
  <2>2. \/ d = 0 /\ Len(a) <= MaxRecords /\ Len(l) = Len(a)
        \/ d > 0 /\ Len(l) = MaxRecords
    <3>1. CASE Len(a) <= MaxRecords
      BY <1>7, <1>8, <3>1
    <3>2. CASE ~(Len(a) <= MaxRecords)
      BY <1>1, <1>7, <1>8, <3>2
    <3> QED BY <3>1, <3>2
  <2>3. Len(a) >= 1
    BY <1>7
  <2>4. Len(l) <= MaxRecords
    BY <1>1, <2>2
  <2>5. Len(l) >= 1
    BY <1>1, <2>2, <2>3
  <2> QED BY <2>1, <2>2, <2>4, <2>5
<1>12. l[Len(l)] = r /\ r \in Elements(l)
  BY <1>7, <1>8, <1>11 DEF Elements
<1>13. Elements(l) \subseteq Elements(s) \cup {r}
  BY <1>7, <1>8
<1>14. ASSUME NEW t, t.number \in Nat, Covers(s, t) PROVE Covers(l, t)
  <2>1. CASE \A x \in Elements(l) : x.id > t.number
    <3>1. CASE Len(l) = MaxRecords
      BY <2>1, <3>1 DEF Covers
    <3>2. CASE Len(l) # MaxRecords
      <4>1. Len(a) < MaxRecords /\ d = 0 /\ Len(l) = Len(a)
        <5>1. d = 0 /\ Len(a) = Len(l)
          BY <1>11, <3>2
        <5>2. Len(l) < MaxRecords
          <6>1. Len(l) \in Nat /\ MaxRecords \in Nat /\ Len(l) <= MaxRecords
            BY <1>1, <1>11
          <6> QED BY <3>2, <6>1
        <5> QED BY <5>1, <5>2
      <4>2. Len(s) < MaxRecords
        BY <1>1, <1>2, <1>5, <1>7, <4>1
      <4>3. PICK x \in Elements(s) : x.prompt = t.name /\ x.id >= t.number
        BY <1>2, <1>14, <4>2 DEF Covers
      <4>4. x \in RecordT
        BY <1>2, <4>3 DEF Elements
      <4>5. CASE x.prompt = r.prompt
        <5>1. r.prompt = t.name /\ r.id >= t.number
          BY <1>14, <4>3, <4>4, <4>5 DEF RecordT
        <5> QED BY <1>12, <5>1 DEF Covers
      <4>6. CASE x.prompt # r.prompt
        <5>1. x \in Elements(a)
          BY <1>7, <4>6
        <5>2. Elements(a) \subseteq Elements(l)
          <6>1. \A i \in DOMAIN l : l[i] = a[i]
            BY <1>8, <1>11, <4>1
          <6>2. DOMAIN a = DOMAIN l
            BY <1>7, <1>11, <4>1
          <6> QED BY <6>1, <6>2 DEF Elements
        <5> QED BY <4>3, <5>1, <5>2 DEF Covers
      <4> QED BY <4>5, <4>6
    <3> QED BY <3>1, <3>2
  <2>2. CASE \A x \in Elements(s) : x.id > t.number
    <3>1. r.id > t.number
      <4>1. Len(s) >= 1
        <5>1. CASE Elements(s) = {}
          BY <1>1, <1>2, <1>14, <5>1 DEF Covers
        <5>2. CASE Elements(s) # {}
          BY <1>2, <5>2 DEF Elements
        <5> QED BY <5>1, <5>2
      <4>2. s[1] \in Elements(s) /\ s[1] \in RecordT
        BY <1>2, <4>1
      <4>3. s[1].id \in Nat /\ r.id \in Nat
        BY <4>2 DEF RecordT
      <4> QED BY <1>14, <2>2, <4>2, <4>3
    <3>2. \A x \in Elements(l) : x.id > t.number
      BY <1>13, <2>2, <3>1
    <3> QED BY <2>1, <3>2
  <2>3. ASSUME NEW x \in Elements(s), x.prompt = t.name, x.id >= t.number PROVE Covers(l, t)
    <3>1. x \in RecordT /\ x.id < r.id
      BY <1>2, <2>3 DEF Elements
    <3>2. CASE x.prompt = r.prompt
      <4>1. r.prompt = t.name /\ r.id >= t.number
        BY <1>14, <2>3, <3>1, <3>2 DEF RecordT
      <4> QED BY <1>12, <4>1 DEF Covers
    <3>3. CASE x.prompt # r.prompt /\ x \in Elements(l)
      BY <2>3, <3>3 DEF Covers
    <3>4. CASE x.prompt # r.prompt /\ x \notin Elements(l)
      <4>1. PICK j \in DOMAIN a : a[j] = x
        BY <1>7, <3>4 DEF Elements
      <4>2. j \in Nat /\ d \in Nat /\ j <= d
        <5>1. j \in 1..Len(a)
          BY <1>7
        <5>2. CASE j > d
          <6>1. j - d \in DOMAIN l
            <7>1. Len(a) \in Nat /\ Len(l) = Len(a) - d
              BY <1>7, <1>8
            <7>2. j \in Nat /\ j <= Len(a) /\ j - d \in 1..Len(l)
              BY <5>1, <5>2, <7>1
            <7> QED BY <1>11, <7>2
          <6>2. l[j - d] = a[j]
            BY <1>8, <5>1, <6>1
          <6> QED BY <3>4, <4>1, <6>1, <6>2 DEF Elements
        <5> QED BY <5>1, <5>2
      <4>3. Len(l) = MaxRecords
        BY <1>1, <1>7, <1>8, <1>11, <4>2
      <4>4. ASSUME NEW y \in Elements(l) PROVE y.id > t.number
        <5>1. PICK i \in DOMAIN l : y = l[i]
          BY DEF Elements
        <5>2. i + d \in DOMAIN a /\ y = a[i + d] /\ j < i + d
          BY <1>8, <1>11, <4>2, <5>1
        <5>3. Below(x, y)
          BY <1>7, <4>1, <5>2 DEF Ascending
        <5>4. y \in RecordT
          BY <1>8, <5>1
        <5> QED BY <1>14, <2>3, <3>1, <5>3, <5>4 DEF Below, RecordT
      <4> QED BY <4>3, <4>4 DEF Covers
    <3> QED BY <3>2, <3>3, <3>4
  <2> QED BY <1>14, <2>2, <2>3 DEF Covers
<1> HIDE DEF S
<1> QED BY <1>8, <1>9, <1>10, <1>11, <1>12, <1>13, <1>14
-----------------------------------------------------------------------------
(***************************************************************************)
(* The store and its processes                                             *)
(***************************************************************************)

DataT == [state : {"whole", "missing", "empty", "torn"}, records : Seq(RecordT)]
Ordered(s, n) ==
    /\ s \in Seq(RecordT) /\ Ascending(s) /\ Len(s) <= MaxRecords
    /\ \A x \in Elements(s) : x.id <= n

Own(s, t) == \E x \in Elements(s) : x.prompt = t.name /\ x.id = t.number

\* Whatever processes overwrite of each other's: what any of them has, the
\* file and the temporary file are lists of tasks in their order, one that runs
\* is later than all its process knows of, and one that ended is among them.
StoreInv ==
    /\ file \in DataT /\ Ordered(file.records, tasks)
    /\ tmp \in DataT /\ Ordered(tmp.records, tasks)
    /\ view \in [Processes -> Seq(RecordT)]
    /\ \A p \in Processes : Ordered(view[p], tasks)
    /\ \A p \in Processes : pc[p] = "run" =>
         /\ prompt[p].number <= tasks
         /\ \A x \in Elements(view[p]) : x.id < prompt[p].number
    /\ \A p \in Processes : pc[p] \in {"open", "write", "replace"} => Own(view[p], prompt[p])

\* As long as nothing was saved over another's save: one process saves at a
\* time and has the latest text, the temporary file is its own, and the file
\* and every process with the latest text have all that was saved.
SaveInv ==
    /\ fd \in [Processes -> {"tmp", "file", "gone", None}]
    /\ latest \in [Processes -> BOOLEAN]
    /\ \A t \in finished : t.number \in Nat
    /\ ~overwritten =>
         /\ \A p, q \in Processes : Saving(p) /\ Saving(q) => p = q
         /\ \A p \in Processes :
              /\ Saving(p) => latest[p]
              /\ pc[p] = "write" => fd[p] = "tmp" /\ tmp = Empty
              /\ pc[p] = "replace" => tmp = Holds(view[p])
              /\ latest[p] /\ pc[p] # "off" => \A t \in finished : Covers(view[p], t)
         /\ file.state \in {"missing", "whole"}
         /\ \A t \in finished : Covers(file.records, t)

LEMMA NothingHeld ==
    /\ <<>> \in Seq(RecordT) /\ Elements(<<>>) = {}
    /\ \A n : Ordered(<<>>, n)
<1>1. <<>> \in Seq(RecordT) /\ Len(<<>>) = 0 /\ DOMAIN <<>> = {}
  OBVIOUS
<1>2. MaxRecords \in Nat
  BY LimitsPositive
<1> QED BY <1>1, <1>2 DEF Ordered, Ascending, Elements

\* The data that a file is given.
LEMMA DataHeld ==
    /\ Missing \in DataT /\ Empty \in DataT /\ Torn \in DataT
    /\ Missing.records = <<>> /\ Empty.records = <<>> /\ Torn.records = <<>>
    /\ \A s \in Seq(RecordT) :
         Holds(s) \in DataT /\ Holds(s).records = s /\ Holds(s).state = "whole"
BY NothingHeld DEF DataT, Missing, Empty, Torn, Holds

\* The record of a task that ends.
LEMMA RecordOf ==
    ASSUME FactsInv, NEW p \in Processes, NEW outcome \in Ends
    PROVE  LET r == Record(prompt[p], Experience(entries[p], outcome))
           IN  r \in RecordT /\ r.prompt = prompt[p].name /\ r.id = prompt[p].number
<1> DEFINE m == entries[p]
           S == {e \in Elements(m) : Useful(e)}
           k == Kept(m, S)
           chosen == Last(k, MaxFacts)
           facts == [i \in DOMAIN chosen |-> Key(chosen[i])]
           r == Record(prompt[p], Experience(m, outcome))
<1>1. m \in Seq(EntryType) /\ prompt[p] \in [name : Prompts \cup {None}, number : Nat]
  BY DEF FactsInv
<1>2. k \in Seq(EntryType)
  <2> HIDE DEF m, S
  <2> QED BY <1>1, KeptFacts
<1>3. chosen \in Seq(EntryType)
  <2>1. MaxFacts \in Nat \ {0}
    BY LimitsPositive
  <2> HIDE DEF k
  <2> QED BY <1>2, <2>1, LastFacts
<1>4. facts \in Seq(KeyT)
  <2> HIDE DEF chosen
  <2>1. Len(chosen) \in Nat /\ DOMAIN chosen = 1..Len(chosen)
    BY <1>3
  <2>2. \A i \in 1..Len(chosen) : Key(chosen[i]) \in KeyT
    <3> TAKE i \in 1..Len(chosen)
    <3>1. chosen[i] \in EntryType
      BY <1>3
    <3> QED BY <3>1 DEF Key, KeyT, EntryType
  <2> HIDE DEF facts
  <2>3. facts = [i \in 1..Len(chosen) |-> Key(chosen[i])]
    BY <2>1 DEF facts
  <2>4. facts \in [1..Len(chosen) -> KeyT]
    BY <2>2, <2>3
  <2> QED BY <2>1, <2>4
<1>5. r = [prompt |-> prompt[p].name, id |-> prompt[p].number, outcome |-> outcome, facts |-> facts]
  BY DEF Record, Experience, KeyFacts
<1> HIDE DEF facts
<1>6. r \in RecordT /\ r.prompt = prompt[p].name /\ r.id = prompt[p].number
  BY <1>1, <1>4, <1>5 DEF RecordT
<1> QED BY <1>6

\* Steps of a save change no process's records.
LEMMA StoreStays ==
    ASSUME StoreInv, UNCHANGED <<view, prompt, tasks>>,
           file' \in DataT, Ordered(file'.records, tasks),
           tmp' \in DataT, Ordered(tmp'.records, tasks),
           \A q \in Processes : pc'[q] = "run" => pc[q] = "run",
           \A q \in Processes : pc'[q] \in {"open", "write", "replace"} =>
                                pc[q] \in {"open", "write", "replace"}
    PROVE  StoreInv'
BY DEF StoreInv, Ordered, Ascending, Own

LEMMA StoreOfSaves ==
    ASSUME FactsInv, StoreInv, NEW p \in Processes,
           OpenTmp(p) \/ FinishWrite(p) \/ Replace(p) \/ SaveFails(p)
    PROVE  StoreInv'
<1>1. /\ UNCHANGED <<view, prompt, tasks>>
      /\ \A q \in Processes : pc'[q] = "run" => pc[q] = "run"
      /\ \A q \in Processes : pc'[q] \in {"open", "write", "replace"} =>
                              pc[q] \in {"open", "write", "replace"}
  <2>1. UNCHANGED <<view, prompt, tasks>>
    BY DEF OpenTmp, FinishWrite, Replace, SaveFails, task, history
  <2>2. PICK from, to : /\ Goto(p, from, to) /\ to \in {"write", "replace", "idle"}
                        /\ from \in {"open", "write", "replace"}
    BY DEF OpenTmp, FinishWrite, Replace, SaveFails
  <2>3. to \in Places /\ pc \in [Processes -> Places]
    BY <2>2 DEF Places, FactsInv
  <2>4. pc[p] = from /\ pc'[p] = to /\ \A q \in Processes \ {p} : pc'[q] = pc[q]
    BY <2>2, <2>3, Going
  <2> QED BY <2>1, <2>2, <2>4
<1> DEFINE Fit(data) == data \in DataT /\ Ordered(data.records, tasks)
<1>2. Fit(Missing) /\ Fit(Empty) /\ Fit(Torn)
  BY NothingHeld, DataHeld
<1>3. Fit(file) /\ Fit(tmp) /\ Fit(Holds(view[p]))
  BY DataHeld DEF StoreInv
<1>4. Fit(file') /\ Fit(tmp')
  <2>1. ASSUME OpenTmp(p) PROVE Fit(file') /\ Fit(tmp')
    <3>1. file' = file /\ tmp' = Empty
      BY <2>1 DEF OpenTmp
    <3> HIDE DEF Fit
    <3> QED BY <1>2, <1>3, <3>1
  <2>2. ASSUME FinishWrite(p) PROVE Fit(file') /\ Fit(tmp')
    <3>1. file' \in {file, Holds(view[p]), Torn} /\ tmp' \in {tmp, Holds(view[p]), Torn}
      BY <2>2 DEF FinishWrite, Written
    <3> HIDE DEF Fit
    <3> QED BY <1>2, <1>3, <3>1
  <2>3. ASSUME Replace(p) PROVE Fit(file') /\ Fit(tmp')
    <3>1. file' = tmp /\ tmp' = Missing
      BY <2>3 DEF Replace
    <3> HIDE DEF Fit
    <3> QED BY <1>2, <1>3, <3>1
  <2>4. ASSUME SaveFails(p) PROVE Fit(file') /\ Fit(tmp')
    <3>1. file' = file /\ tmp' = tmp
      BY <2>4 DEF SaveFails
    <3> HIDE DEF Fit
    <3> QED BY <1>3, <3>1
  <2> HIDE DEF Fit
  <2> QED BY <2>1, <2>2, <2>3, <2>4
<1> QED BY <1>1, <1>4, StoreStays

LEMMA LoadedFacts ==
    ASSUME StoreInv PROVE Loaded(file) = file.records
BY DEF StoreInv, Ordered, Loaded, Last

\* What a process knows changes when it loads, when a task ends, when it leaves.
LEMMA StoreOfViews ==
    ASSUME FactsInv, StoreInv, NEW p \in Processes, NEW s, Ordered(s, tasks),
           view' = [view EXCEPT ![p] = s], UNCHANGED <<file, tmp, tasks>>,
           pc' \in [Processes -> Places], pc'[p] # "run",
           pc'[p] \in {"open", "write", "replace"} => Own(s, prompt'[p]),
           \A q \in Processes \ {p} : pc'[q] = pc[q] /\ prompt'[q] = prompt[q]
    PROVE  StoreInv'
<1>1. /\ view' \in [Processes -> Seq(RecordT)] /\ view'[p] = s
      /\ \A q \in Processes \ {p} : view'[q] = view[q]
  BY DEF StoreInv, Ordered
<1>2. ASSUME NEW q \in Processes
      PROVE  /\ Ordered(view'[q], tasks)
             /\ pc'[q] = "run" =>
                  /\ prompt'[q].number <= tasks
                  /\ \A x \in Elements(view'[q]) : x.id < prompt'[q].number
             /\ pc'[q] \in {"open", "write", "replace"} => Own(view'[q], prompt'[q])
  <2>1. CASE q = p
    BY <1>1, <2>1
  <2>2. CASE q # p
    BY <1>1, <2>2 DEF StoreInv
  <2> QED BY <2>1, <2>2
<1>3. file' \in DataT /\ Ordered(file'.records, tasks) /\ tmp' \in DataT /\ Ordered(tmp'.records, tasks)
  BY DEF StoreInv
<1> QED BY <1>1, <1>2, <1>3 DEF StoreInv, Ordered, Ascending, Own

LEMMA StoreStep == FactsInv /\ StoreInv /\ [Next]_vars => StoreInv'
<1> SUFFICES ASSUME FactsInv, StoreInv, [Next]_vars PROVE StoreInv'
  OBVIOUS
<1> DEFINE Same == UNCHANGED <<view, prompt, tasks, pc, file, tmp>>
<1>1. ASSUME Same PROVE StoreInv'
  <2>1. UNCHANGED view /\ UNCHANGED prompt /\ UNCHANGED tasks /\ UNCHANGED pc
        /\ UNCHANGED file /\ UNCHANGED tmp
    BY <1>1
  <2> QED BY <2>1 DEF StoreInv, Ordered, Ascending, Own
<1>2. ASSUME UNCHANGED vars PROVE Same
  BY <1>2 DEF vars, task, disk, history
<1>3. ASSUME NEW p \in Processes, NEW r \in Results,
             CallUnprepared(p, r) \/ CallTool(p, r) \/ CallEdit(p, r)
      PROVE  Same
  BY <1>3 DEF CallUnprepared, CallTool, CallEdit, CalledElse, disk
<1>4. ASSUME NEW p \in Processes, NoticeChange(p) \/ RollBack(p) PROVE Same
  BY <1>4 DEF NoticeChange, RollBack, CalledElse, disk
<1>5. pc \in [Processes -> Places]
      /\ {"off", "idle", "run", "open", "write", "replace"} \subseteq Places
  BY DEF FactsInv, Places
<1>6. ASSUME NEW p \in Processes, Boot(p) PROVE StoreInv'
  <2>1. /\ Goto(p, "off", "idle") /\ view' = [view EXCEPT ![p] = file.records]
        /\ UNCHANGED <<file, tmp, tasks, prompt>>
    BY <1>6, LoadedFacts DEF Boot, task, disk
  <2>2. /\ pc' \in [Processes -> Places] /\ pc'[p] = "idle"
        /\ \A q \in Processes \ {p} : pc'[q] = pc[q]
    BY <1>5, <2>1, Going
  <2>3. Ordered(file.records, tasks)
    BY DEF StoreInv
  <2> QED BY <2>1, <2>2, <2>3, StoreOfViews
<1>7. ASSUME NEW p \in Processes, NEW name \in Prompts, StartTask(p, name) PROVE StoreInv'
  <2> DEFINE new == [name |-> name, number |-> tasks + 1]
  <2>1. /\ Goto(p, "idle", "run") /\ tasks' = tasks + 1
        /\ prompt' = [prompt EXCEPT ![p] = new] /\ UNCHANGED <<view, file, tmp>>
    BY <1>7 DEF StartTask, disk
  <2>2. /\ pc' \in [Processes -> Places]
        /\ \A q \in Processes \ {p} : pc'[q] = pc[q]
        /\ pc'[p] = "run"
    BY <1>5, <2>1, Going
  <2>3. /\ tasks \in Nat /\ prompt'[p].number = tasks + 1
        /\ \A q \in Processes \ {p} : prompt'[q] = prompt[q]
        /\ \A q \in Processes : prompt[q].number \in Nat
    BY <2>1 DEF FactsInv
  <2>4. ASSUME NEW s, Ordered(s, tasks) PROVE Ordered(s, tasks + 1)
    <3>1. \A x \in Elements(s) : x \in RecordT
      BY <2>4 DEF Ordered, Elements
    <3>2. \A x \in Elements(s) : x.id \in Nat
      BY <3>1 DEF RecordT
    <3>3. \A x \in Elements(s) : x.id <= tasks + 1
      BY <2>3, <2>4, <3>2 DEF Ordered
    <3> QED BY <2>4, <3>3 DEF Ordered
  <2>5. /\ Ordered(file.records, tasks + 1) /\ Ordered(tmp.records, tasks + 1)
        /\ \A q \in Processes : Ordered(view[q], tasks + 1)
    BY <2>4 DEF StoreInv
  <2>6. ASSUME NEW q \in Processes, pc'[q] = "run"
        PROVE  /\ prompt'[q].number <= tasks + 1
               /\ \A x \in Elements(view[q]) : x.id < prompt'[q].number
    <3>1. CASE q = p
      <4>1. \A x \in Elements(view[p]) : x.id <= tasks /\ x.id \in Nat
        <5>1. \A x \in Elements(view[p]) : x \in RecordT /\ x.id <= tasks
          BY DEF StoreInv, Ordered, Elements
        <5> QED BY <5>1 DEF RecordT
      <4> QED BY <2>3, <3>1, <4>1
    <3>2. CASE q # p
      BY <2>2, <2>3, <2>6, <3>2 DEF StoreInv
    <3> QED BY <3>1, <3>2
  <2>7. ASSUME NEW q \in Processes, pc'[q] \in {"open", "write", "replace"}
        PROVE  Own(view[q], prompt'[q])
    BY <2>2, <2>3, <2>7 DEF StoreInv
  <2>8. /\ file \in DataT /\ tmp \in DataT /\ view \in [Processes -> Seq(RecordT)]
    BY DEF StoreInv
  <2>9. tasks' = tasks + 1 /\ file' = file /\ tmp' = tmp /\ view' = view
    BY <2>1
  <2> HIDE DEF new
  <2> QED BY <2>5, <2>6, <2>7, <2>8, <2>9 DEF StoreInv, Ordered, Ascending, Own
<1>8. ASSUME NEW p \in Processes, NEW outcome \in Ends, EndTask(p, outcome) PROVE StoreInv'
  <2> DEFINE r == Record(prompt[p], Experience(entries[p], outcome))
             s == Remembered(view[p], r)
  <2>1. /\ Goto(p, "run", "open") /\ view' = [view EXCEPT ![p] = s]
        /\ UNCHANGED <<file, tmp, tasks, prompt>>
    BY <1>8 DEF EndTask, task, disk, history
  <2>2. /\ pc' \in [Processes -> Places] /\ pc'[p] = "open" /\ pc[p] = "run"
        /\ \A q \in Processes \ {p} : pc'[q] = pc[q]
    BY <1>5, <2>1, Going
  <2>3. r \in RecordT /\ r.prompt = prompt[p].name /\ r.id = prompt[p].number
    BY RecordOf
  <2>4. Ordered(view[p], tasks) /\ r.id <= tasks /\ \A x \in Elements(view[p]) : x.id < r.id
    BY <2>2, <2>3 DEF StoreInv
  <2> HIDE DEF r
  <2>5. /\ s \in Seq(RecordT) /\ Ascending(s) /\ Len(s) <= MaxRecords
        /\ Elements(s) \subseteq Elements(view[p]) \cup {r} /\ r \in Elements(s)
    BY <2>3, <2>4, RememberedFacts DEF Ordered
  <2> HIDE DEF s
  <2>6. Ordered(s, tasks)
    BY <2>4, <2>5 DEF Ordered
  <2>7. Own(s, prompt'[p])
    BY <2>1, <2>3, <2>5 DEF Own
  <2> QED BY <2>1, <2>2, <2>6, <2>7, StoreOfViews
<1>9. ASSUME NEW p \in Processes, Leave(p) PROVE StoreInv'
  <2>1. /\ pc' = [pc EXCEPT ![p] = "off"] /\ view' = [view EXCEPT ![p] = <<>>]
        /\ prompt' = [prompt EXCEPT ![p] = NoTask] /\ UNCHANGED <<file, tmp, tasks>>
    BY <1>9 DEF Leave, history
  <2>2. /\ pc' \in [Processes -> Places] /\ pc'[p] = "off"
        /\ \A q \in Processes \ {p} : pc'[q] = pc[q] /\ prompt'[q] = prompt[q]
    BY <1>5, <2>1 DEF FactsInv
  <2> QED BY <2>1, <2>2, NothingHeld, StoreOfViews
<1>10. ASSUME NEW p \in Processes, NEW raised \in BOOLEAN,
              NEW outcome \in OutcomesOf(edited[p], raised)
       PROVE  outcome \in Ends
  BY <1>10 DEF OutcomesOf, Ends
<1> HIDE DEF Same
<1> QED BY <1>1, <1>2, <1>3, <1>4, <1>6, <1>7, <1>8, <1>9, <1>10, StoreOfSaves DEF Next

\* Steps of a process that does not save leave the saves of others alone.
LEMMA SaveAround ==
    ASSUME SaveInv, NEW p \in Processes, UNCHANGED <<file, tmp, finished, overwritten>>,
           fd' \in [Processes -> {"tmp", "file", "gone", None}],
           latest' \in [Processes -> BOOLEAN],
           pc'[p] \notin {"write", "replace"},
           \A q \in Processes \ {p} :
              /\ pc'[q] = pc[q] /\ view'[q] = view[q]
              /\ fd'[q] = fd[q] /\ latest'[q] = latest[q],
           ~overwritten /\ latest'[p] /\ pc'[p] # "off" =>
              \A t \in finished : Covers(view'[p], t)
    PROVE  SaveInv'
<1> SUFFICES ASSUME ~overwritten
             PROVE  /\ \A q, o \in Processes : Saving(q)' /\ Saving(o)' => q = o
                    /\ \A q \in Processes :
                         /\ Saving(q)' => latest'[q]
                         /\ pc'[q] = "write" => fd'[q] = "tmp" /\ tmp = Empty
                         /\ pc'[q] = "replace" => tmp = Holds(view'[q])
                         /\ latest'[q] /\ pc'[q] # "off" =>
                              \A t \in finished : Covers(view'[q], t)
  BY DEF SaveInv, Covers
<1>1. \A q \in Processes : Saving(q)' => q # p /\ Saving(q)
  BY DEF Saving
<1>2. \A q, o \in Processes : Saving(q)' /\ Saving(o)' => q = o
  BY <1>1 DEF SaveInv
<1>3. ASSUME NEW q \in Processes
      PROVE  /\ Saving(q)' => latest'[q]
             /\ pc'[q] = "write" => fd'[q] = "tmp" /\ tmp = Empty
             /\ pc'[q] = "replace" => tmp = Holds(view'[q])
             /\ latest'[q] /\ pc'[q] # "off" => \A t \in finished : Covers(view'[q], t)
  <2>1. CASE q = p
    BY <2>1 DEF Saving
  <2>2. CASE q # p
    BY <1>1, <2>2 DEF SaveInv, Saving
  <2> QED BY <2>1, <2>2
<1> QED BY <1>2, <1>3

\* The temporary file is emptied: the one process that saves has it to itself.
LEMMA SaveOpens ==
    ASSUME FactsInv, SaveInv, NEW p \in Processes, OpenTmp(p) PROVE SaveInv'
<1>1. /\ Goto(p, "open", "write") /\ tmp' = Empty /\ fd' = [fd EXCEPT ![p] = "tmp"]
      /\ UNCHANGED <<view, file, finished, latest>>
      /\ overwritten' = (overwritten \/ ~latest[p] \/ \E q \in Processes \ {p} : Saving(q))
  BY DEF OpenTmp
<1>2. /\ pc[p] = "open" /\ pc'[p] = "write" /\ \A q \in Processes \ {p} : pc'[q] = pc[q]
  BY <1>1, Going DEF FactsInv, Places
<1>3. /\ fd' \in [Processes -> {"tmp", "file", "gone", None}] /\ fd'[p] = "tmp"
      /\ latest' \in [Processes -> BOOLEAN]
  BY <1>1 DEF SaveInv
<1> SUFFICES ASSUME ~overwritten'
             PROVE  /\ \A q, o \in Processes : Saving(q)' /\ Saving(o)' => q = o
                    /\ \A q \in Processes :
                         /\ Saving(q)' => latest'[q]
                         /\ pc'[q] = "write" => fd'[q] = "tmp" /\ tmp' = Empty
                         /\ pc'[q] = "replace" => tmp' = Holds(view'[q])
                         /\ latest'[q] /\ pc'[q] # "off" =>
                              \A t \in finished : Covers(view'[q], t)
                    /\ file.state \in {"missing", "whole"}
                    /\ \A t \in finished : Covers(file.records, t)
  BY <1>1, <1>3 DEF SaveInv, Covers
<1>4. ~overwritten /\ latest[p] /\ \A q \in Processes \ {p} : ~Saving(q)
  BY <1>1
<1>5. \A q \in Processes : Saving(q)' => q = p
  BY <1>2, <1>4 DEF Saving
<1>6. ASSUME NEW q \in Processes
      PROVE  /\ Saving(q)' => latest'[q]
             /\ pc'[q] = "write" => fd'[q] = "tmp" /\ tmp' = Empty
             /\ pc'[q] = "replace" => tmp' = Holds(view'[q])
             /\ latest'[q] /\ pc'[q] # "off" => \A t \in finished : Covers(view'[q], t)
  <2>1. CASE q = p
    <3>1. latest[p] /\ pc[p] # "off" => \A t \in finished : Covers(view[p], t)
      BY <1>4 DEF SaveInv
    <3> QED BY <1>1, <1>2, <1>3, <1>4, <2>1, <3>1
  <2>2. CASE q # p
    <3>1. latest[q] /\ pc[q] # "off" => \A t \in finished : Covers(view[q], t)
      BY <1>4 DEF SaveInv
    <3>2. ~Saving(q)'
      BY <1>5, <2>2
    <3> QED BY <1>1, <1>2, <2>2, <3>1, <3>2 DEF Saving
  <2> QED BY <2>1, <2>2
<1> QED BY <1>4, <1>5, <1>6 DEF SaveInv

\* It writes what it knows.
LEMMA SaveWrites ==
    ASSUME FactsInv, SaveInv, NEW p \in Processes, FinishWrite(p) PROVE SaveInv'
<1>1. /\ Goto(p, "write", "replace") /\ fd' = [fd EXCEPT ![p] = None]
      /\ UNCHANGED <<view, finished, latest, overwritten>>
  BY DEF FinishWrite, history
<1>2. /\ pc[p] = "write" /\ pc'[p] = "replace" /\ \A q \in Processes \ {p} : pc'[q] = pc[q]
  BY <1>1, Going DEF FactsInv, Places
<1>3. fd' \in [Processes -> {"tmp", "file", "gone", None}]
  BY <1>1 DEF SaveInv
<1> SUFFICES ASSUME ~overwritten
             PROVE  /\ \A q, o \in Processes : Saving(q)' /\ Saving(o)' => q = o
                    /\ \A q \in Processes :
                         /\ Saving(q)' => latest[q]
                         /\ pc'[q] = "write" => fd'[q] = "tmp" /\ tmp' = Empty
                         /\ pc'[q] = "replace" => tmp' = Holds(view[q])
                         /\ latest[q] /\ pc'[q] # "off" =>
                              \A t \in finished : Covers(view[q], t)
                    /\ file'.state \in {"missing", "whole"}
                    /\ \A t \in finished : Covers(file'.records, t)
  BY <1>1, <1>3 DEF SaveInv, Covers
<1>4. Saving(p) /\ fd[p] = "tmp" /\ tmp = Empty
  BY <1>2 DEF SaveInv, Saving
<1>5. file' = file /\ tmp' = Holds(view[p])
  BY <1>4 DEF FinishWrite, Written
<1>6. \A q \in Processes : Saving(q)' => q = p
  BY <1>2, <1>4 DEF SaveInv, Saving
<1>7. ASSUME NEW q \in Processes
      PROVE  /\ Saving(q)' => latest[q]
             /\ pc'[q] = "write" => fd'[q] = "tmp" /\ tmp' = Empty
             /\ pc'[q] = "replace" => tmp' = Holds(view[q])
             /\ latest[q] /\ pc'[q] # "off" => \A t \in finished : Covers(view[q], t)
  <2>1. CASE q = p
    <3>1. latest[p] /\ \A t \in finished : Covers(view[p], t)
      BY <1>2, <1>4 DEF SaveInv
    <3> QED BY <1>2, <1>5, <2>1, <3>1
  <2>2. CASE q # p
    <3>1. ~Saving(q)'
      BY <1>6, <2>2
    <3>2. latest[q] /\ pc[q] # "off" => \A t \in finished : Covers(view[q], t)
      BY DEF SaveInv
    <3> QED BY <1>2, <2>2, <3>1, <3>2 DEF Saving
  <2> QED BY <2>1, <2>2
<1>8. file'.state \in {"missing", "whole"} /\ \A t \in finished : Covers(file'.records, t)
  BY <1>5 DEF SaveInv
<1> QED BY <1>6, <1>7, <1>8

\* What it wrote is the store; no other process has the latest text then.
LEMMA SaveReplaces ==
    ASSUME FactsInv, StoreInv, SaveInv, NEW p \in Processes, Replace(p) PROVE SaveInv'
<1>1. /\ Goto(p, "replace", "idle") /\ UNCHANGED <<view, overwritten>>
      /\ file' = tmp /\ fd' = [q \in Processes |-> Moved(q)]
      /\ finished' = IF tmp = Holds(view[p]) THEN finished \cup {prompt[p]} ELSE finished
      /\ latest' = [q \in Processes |-> q = p]
  BY DEF Replace
<1>2. /\ pc[p] = "replace" /\ pc'[p] = "idle" /\ \A q \in Processes \ {p} : pc'[q] = pc[q]
  BY <1>1, Going DEF FactsInv, Places
<1>3. /\ fd' \in [Processes -> {"tmp", "file", "gone", None}]
      /\ latest' \in [Processes -> BOOLEAN]
      /\ latest'[p] /\ \A q \in Processes \ {p} : ~latest'[q]
  <2>1. \A q \in Processes : Moved(q) \in {"tmp", "file", "gone", None}
    BY DEF SaveInv, Moved
  <2> QED BY <1>1, <2>1
<1>4. \A t \in finished' : t.number \in Nat
  <2>1. prompt[p].number \in Nat
    BY DEF FactsInv
  <2>2. \A t \in finished' : t \in finished \/ t = prompt[p]
    BY <1>1
  <2> QED BY <2>1, <2>2 DEF SaveInv
<1> SUFFICES ASSUME ~overwritten
             PROVE  /\ \A q, o \in Processes : Saving(q)' /\ Saving(o)' => q = o
                    /\ \A q \in Processes :
                         /\ Saving(q)' => latest'[q]
                         /\ pc'[q] = "write" => fd'[q] = "tmp" /\ tmp' = Empty
                         /\ pc'[q] = "replace" => tmp' = Holds(view[q])
                         /\ latest'[q] /\ pc'[q] # "off" =>
                              \A t \in finished' : Covers(view[q], t)
                    /\ file'.state \in {"missing", "whole"}
                    /\ \A t \in finished' : Covers(file'.records, t)
  BY <1>1, <1>3, <1>4 DEF SaveInv, Covers
<1>5. Saving(p) /\ latest[p] /\ tmp = Holds(view[p])
  BY <1>2 DEF SaveInv, Saving
<1>6. \A q \in Processes : ~Saving(q)'
  BY <1>2, <1>5 DEF SaveInv, Saving
<1>7. \A t \in finished' : Covers(view[p], t)
  <2>1. \A t \in finished : Covers(view[p], t)
    BY <1>2, <1>5 DEF SaveInv
  <2>2. Covers(view[p], prompt[p])
    <3>1. PICK x \in Elements(view[p]) : x.prompt = prompt[p].name /\ x.id = prompt[p].number
      BY <1>2 DEF StoreInv, Own
    <3>2. prompt[p].number \in Nat
      BY DEF FactsInv
    <3> QED BY <3>1, <3>2 DEF Covers
  <2> QED BY <1>1, <2>1, <2>2
<1>8. file'.state = "whole" /\ file'.records = view[p]
  BY <1>1, <1>5, DataHeld DEF StoreInv
<1>9. ASSUME NEW q \in Processes
      PROVE  /\ Saving(q)' => latest'[q]
             /\ pc'[q] = "write" => fd'[q] = "tmp" /\ tmp' = Empty
             /\ pc'[q] = "replace" => tmp' = Holds(view[q])
             /\ latest'[q] /\ pc'[q] # "off" => \A t \in finished' : Covers(view[q], t)
  BY <1>3, <1>6, <1>7 DEF Saving
<1> QED BY <1>6, <1>7, <1>8, <1>9

LEMMA SaveStep == FactsInv /\ StoreInv /\ SaveInv /\ [Next]_vars => SaveInv'
<1> SUFFICES ASSUME FactsInv, StoreInv, SaveInv, [Next]_vars PROVE SaveInv'
  OBVIOUS
<1> DEFINE Same == UNCHANGED <<view, pc, file, tmp, fd, finished, latest, overwritten>>
           Named == {"tmp", "file", "gone", None}
<1>1. ASSUME Same PROVE SaveInv'
  <2>1. /\ UNCHANGED view /\ UNCHANGED pc /\ UNCHANGED file /\ UNCHANGED tmp
        /\ UNCHANGED fd /\ UNCHANGED finished /\ UNCHANGED latest /\ UNCHANGED overwritten
    BY <1>1
  <2> QED BY <2>1 DEF SaveInv, Saving, Covers
<1>2. ASSUME UNCHANGED vars PROVE Same
  BY <1>2 DEF vars, task, disk, history
<1>3. ASSUME NEW p \in Processes, NEW r \in Results,
             CallUnprepared(p, r) \/ CallTool(p, r) \/ CallEdit(p, r)
      PROVE  Same
  BY <1>3 DEF CallUnprepared, CallTool, CallEdit, CalledElse, disk
<1>4. ASSUME NEW p \in Processes, NoticeChange(p) \/ RollBack(p) PROVE Same
  BY <1>4 DEF NoticeChange, RollBack, CalledElse, disk
<1>5. /\ pc \in [Processes -> Places] /\ view \in [Processes -> Seq(RecordT)]
      /\ fd \in [Processes -> Named] /\ latest \in [Processes -> BOOLEAN]
      /\ {"off", "idle", "run", "open", "write", "replace"} \subseteq Places
  BY DEF FactsInv, StoreInv, SaveInv, Places
<1>6. ASSUME NEW p \in Processes, Boot(p) PROVE SaveInv'
  <2>1. /\ Goto(p, "off", "idle") /\ view' = [view EXCEPT ![p] = file.records]
        /\ latest' = [latest EXCEPT ![p] = TRUE]
        /\ UNCHANGED <<file, tmp, fd, finished, overwritten>>
    BY <1>6, LoadedFacts DEF Boot, disk
  <2>2. /\ pc'[p] = "idle" /\ \A q \in Processes \ {p} : pc'[q] = pc[q]
    BY <1>5, <2>1, Going
  <2>3. /\ view'[p] = file.records /\ latest' \in [Processes -> BOOLEAN]
        /\ \A q \in Processes \ {p} : view'[q] = view[q] /\ latest'[q] = latest[q]
    BY <1>5, <2>1
  <2>4. ~overwritten => \A t \in finished : Covers(view'[p], t)
    BY <2>3 DEF SaveInv
  <2> QED BY <1>5, <2>1, <2>2, <2>3, <2>4, SaveAround
<1>7. ASSUME NEW p \in Processes, NEW name \in Prompts, StartTask(p, name) PROVE SaveInv'
  <2>1. /\ Goto(p, "idle", "run")
        /\ UNCHANGED <<view, file, tmp, fd, finished, latest, overwritten>>
    BY <1>7 DEF StartTask, disk
  <2>2. /\ pc[p] = "idle" /\ pc'[p] = "run" /\ \A q \in Processes \ {p} : pc'[q] = pc[q]
    BY <1>5, <2>1, Going
  <2>3. ~overwritten /\ latest[p] => \A t \in finished : Covers(view[p], t)
    BY <2>2 DEF SaveInv
  <2> QED BY <1>5, <2>1, <2>2, <2>3, SaveAround
<1>8. ASSUME NEW p \in Processes, NEW outcome \in Ends, EndTask(p, outcome) PROVE SaveInv'
  <2> DEFINE r == Record(prompt[p], Experience(entries[p], outcome))
             s == Remembered(view[p], r)
  <2>1. /\ Goto(p, "run", "open") /\ view' = [view EXCEPT ![p] = s]
        /\ UNCHANGED <<file, tmp, fd, finished, latest, overwritten>>
    BY <1>8 DEF EndTask, disk, history
  <2>2. /\ pc[p] = "run" /\ pc'[p] = "open" /\ \A q \in Processes \ {p} : pc'[q] = pc[q]
    BY <1>5, <2>1, Going
  <2>3. r \in RecordT /\ r.prompt = prompt[p].name /\ r.id = prompt[p].number
    BY RecordOf
  <2>4. Ordered(view[p], tasks) /\ \A x \in Elements(view[p]) : x.id < r.id
    BY <2>2, <2>3 DEF StoreInv
  <2> HIDE DEF r
  <2>5. \A t : t.number \in Nat /\ Covers(view[p], t) => Covers(s, t)
    BY <2>3, <2>4, RememberedFacts DEF Ordered
  <2> HIDE DEF s
  <2>6. view'[p] = s /\ \A q \in Processes \ {p} : view'[q] = view[q]
    BY <1>5, <2>1
  <2>7. ~overwritten /\ latest[p] => \A t \in finished : Covers(view'[p], t)
    BY <2>2, <2>5, <2>6 DEF SaveInv
  <2> QED BY <1>5, <2>1, <2>2, <2>6, <2>7, SaveAround
<1>9. ASSUME NEW p \in Processes, SaveFails(p) PROVE SaveInv'
  <2>1. PICK from : /\ Goto(p, from, "idle") /\ from # "off"
                    /\ fd' = [fd EXCEPT ![p] = None]
                    /\ UNCHANGED <<view, file, tmp, finished, latest, overwritten>>
    BY <1>9 DEF SaveFails, history
  <2>2. /\ pc[p] # "off" /\ pc'[p] = "idle" /\ \A q \in Processes \ {p} : pc'[q] = pc[q]
    BY <1>5, <2>1, Going
  <2>3. fd' \in [Processes -> Named] /\ \A q \in Processes \ {p} : fd'[q] = fd[q]
    BY <1>5, <2>1
  <2>4. ~overwritten /\ latest[p] => \A t \in finished : Covers(view[p], t)
    BY <2>2 DEF SaveInv
  <2> QED BY <1>5, <2>1, <2>2, <2>3, <2>4, SaveAround
<1>10. ASSUME NEW p \in Processes, Leave(p) PROVE SaveInv'
  <2>1. /\ pc' = [pc EXCEPT ![p] = "off"] /\ view' = [view EXCEPT ![p] = <<>>]
        /\ fd' = [fd EXCEPT ![p] = None]
        /\ UNCHANGED <<file, tmp, finished, latest, overwritten>>
    BY <1>10 DEF Leave, history
  <2>2. /\ pc'[p] = "off" /\ fd' \in [Processes -> Named]
        /\ \A q \in Processes \ {p} : pc'[q] = pc[q] /\ view'[q] = view[q] /\ fd'[q] = fd[q]
    BY <1>5, <2>1
  <2> QED BY <1>5, <2>1, <2>2, SaveAround
<1>11. ASSUME NEW p \in Processes, NEW raised \in BOOLEAN,
              NEW outcome \in OutcomesOf(edited[p], raised)
       PROVE  outcome \in Ends
  BY <1>11 DEF OutcomesOf, Ends
<1> HIDE DEF Same
<1> QED
  BY <1>1, <1>2, <1>3, <1>4, <1>6, <1>7, <1>8, <1>9, <1>10, <1>11,
     SaveOpens, SaveWrites, SaveReplaces DEF Next

LEMMA SaveInit == Init => StoreInv /\ SaveInv
<1> SUFFICES ASSUME Init PROVE StoreInv /\ SaveInv
  OBVIOUS
<1>1. StoreInv
  BY NothingHeld, DataHeld DEF Init, StoreInv
<1>2. SaveInv
  BY DEF Init, SaveInv, Saving, Missing
<1> QED BY <1>1, <1>2

\* The store can always be read and keeps what was saved, until the same task
\* runs again or newer ones fill it, as long as no process saves over another's
\* save: for any number of processes and tasks and any size of the store,
\* wherever processes leave, fail or are killed in a save.
THEOREM SavedTasksAreKept == Spec => []StoreKeepsTasks
<1>1. SaveInv => StoreKeepsTasks
  BY DEF SaveInv, StoreKeepsTasks, Covers
<1>2. FactsInv /\ StoreInv /\ SaveInv /\ [Next]_vars => (FactsInv /\ StoreInv /\ SaveInv)'
  BY FactsStep, StoreStep, SaveStep
<1> QED BY <1>1, <1>2, FactsInit, SaveInit, PTL DEF Spec
=============================================================================

------------------------------- MODULE Memory -------------------------------
(***************************************************************************)
(* What an agent remembers.  Of its present task: WorkingMemory, the       *)
(* latest fact for each key, and WorkingSummary, the sentences that the    *)
(* model reads.  Of all tasks: LongTermMemoryStore, one file for a         *)
(* repository, that every process of the user loads once and writes whole. *)
(*                                                                         *)
(* A sentence is known by tool, outcome and the path it names, a query or  *)
(* a command by the tool alone.                                            *)
(***************************************************************************)
EXTENDS Lists, FiniteSets

CONSTANTS
    Processes,   \* command lines and workbenches open on one repository
    Paths, Results,  \* files; what tools may return
    Prompts,     \* tasks that differ by fingerprint
    MaxEntries, MaxItems, MaxFacts, MaxRecords, Limit,
    MaxTasks, MaxCalls, \* bounds: tasks in all, tool results in all
    None

VARIABLES
    entries,   \* of each process, WorkingMemory.entries by sequence
    items,     \* WorkingSummary.items
    revision,  \* edit_revision, of the task
    edited,    \* has_edit
    view,      \* LongTermMemoryStore.records
    advice,    \* _retrieved_long_term_memory
    prompt, pc,
    file, tmp, \* long_term.json and its temporary file
    fd         \* which of them a process has open

\* History: numbers for tasks and results; the tasks whose save went
\* through; whether a process still has the latest text; an overwritten one.
VARIABLES tasks, calls, finished, latest, overwritten

task == <<entries, items, revision, edited, prompt, advice>>
disk == <<file, tmp, fd>>
history == <<tasks, calls, finished, latest, overwritten>>
vars == <<task, view, pc, disk, history>>

Tools == {"read", "search", "edit", "web", "tests", "install", "command",
          "status", "diff", "replan", "other"}
Outcomes == {"ok", "failed", "unclear", "error", "unverified"}

ASSUME ResultsTyped ==
    /\ None \notin Paths
    /\ Results \subseteq [tool : Tools, path : Paths \cup {None},
                          outcome : Outcomes, risky : BOOLEAN]
ASSUME LimitsPositive ==
    {MaxEntries, MaxItems, MaxFacts, MaxRecords, Limit} \subseteq Nat \ {0}

Last(s, n) == IF Len(s) <= n THEN s ELSE SubSeq(s, Len(s) - n + 1, Len(s))

-----------------------------------------------------------------------------
(***************************************************************************)
(* WorkingMemory                                                           *)
(***************************************************************************)

KindOf ==
    [observation |-> "file", edit |-> "file", search |-> "search",
     acceptance |-> "validation", tests |-> "validation",
     dependency |-> "general", command |-> "command", git |-> "git",
     diff |-> "git", plan |-> "plan", failure |-> "failure", safety |-> "safety"]
Key(e) == [about |-> e.about, tool |-> e.tool, path |-> e.path]

\* The result of a tool is a success, whatever tests or commands came to.
Success(r) == r.outcome \notin {"error", "unverified"}

\* upsert: the latest value of a key; the oldest entries go.
Upsert(m, e) ==
    LET others == {x \in Elements(m) : Key(x) # Key(e)}
    IN  Last(Append(Kept(m, others), e), MaxEntries)

InvalidatePath(m, path) ==
    IF path = None THEN m ELSE Kept(m, {x \in Elements(m) : x.path # path})

MutInvalidateValidationBefore(m, n) ==
    Kept(m, {x \in Elements(m) :
               KindOf[x.about] # "validation" \/ x.revision = None \/ x.revision >= n})

InvalidateValidationBefore(m, n) ==
    Kept(m, {x \in Elements(m) :
               KindOf[x.about] = "validation" => x.revision # None /\ x.revision >= n})

\* The entries that a result leaves, by tool; `at` is the revision passed.
Entry(r, about, at, born) ==
    [about |-> about, tool |-> r.tool, path |-> r.path, revision |-> at, born |-> born]

FileFact(r) ==
    IF r.tool = "read" /\ Success(r) /\ r.path # None THEN {"observation"} ELSE {}
SearchFact(r) == IF r.tool = "search" /\ Success(r) THEN {"search"} ELSE {}
EditFact(r) == IF r.tool = "edit" /\ Success(r) /\ r.path # None THEN {"edit"} ELSE {}
WebFact(r) == IF r.tool = "web" THEN {"acceptance"} ELSE {}
TestsFact(r) == IF r.tool = "tests" THEN {"tests"} ELSE {}
InstallFact(r) == IF r.tool = "install" THEN {"dependency"} ELSE {}
CommandFact(r) == IF r.tool = "command" THEN {"command"} ELSE {}
StatusFact(r) == IF r.tool = "status" /\ Success(r) THEN {"git"} ELSE {}
DiffFact(r) == IF r.tool = "diff" /\ Success(r) THEN {"diff"} ELSE {}
PlanFact(r) == IF r.tool = "replan" /\ r.outcome = "ok" THEN {"plan"} ELSE {}
FailureFact(r) == IF Success(r) THEN {} ELSE {"failure"}
SafetyFact(r) == IF r.risky THEN {"safety"} ELSE {}

MainFact(r) ==
    FileFact(r) \cup SearchFact(r) \cup EditFact(r) \cup WebFact(r) \cup TestsFact(r)
    \cup InstallFact(r) \cup CommandFact(r) \cup StatusFact(r) \cup DiffFact(r)
    \cup PlanFact(r)

\* record_tool_result: an edit first forgets the file; failure and risk come
\* last and are not forgotten with it.
RecordedResult(m, r, at, born) ==
    LET add(n, facts) ==
            IF facts = {} THEN n
            ELSE Upsert(n, Entry(r, CHOOSE f \in facts : TRUE, at, born))
        known == IF EditFact(r) = {} THEN m ELSE InvalidatePath(m, r.path)
    IN  add(add(add(known, MainFact(r)), FailureFact(r)), SafetyFact(r))

-----------------------------------------------------------------------------
(***************************************************************************)
(* WorkingSummary                                                          *)
(***************************************************************************)

\* add: a sentence that is there already keeps its place.
Added(s, said, born) ==
    IF \E i \in DOMAIN s : s[i].said = said THEN s
    ELSE Last(Append(s, [said |-> said, born |-> born]), MaxItems)

\* The sentence of a result.  Tests that ran do not name their path.
NamedPath(r) == IF r.tool = "tests" /\ Success(r) THEN None ELSE r.path
Sentence(r) == [tool |-> r.tool, outcome |-> r.outcome, path |-> NamedPath(r)]
Silent(r) ==
    \/ r.tool = "other" /\ Success(r)
    \/ r.tool = "replan" /\ r.outcome # "ok"

\* An edit first drops the sentences that name its file.
Dropped(s, r) ==
    IF r.tool = "edit" /\ Success(r) /\ r.path # None
    THEN Kept(s, {x \in Elements(s) : x.said.path # r.path}) ELSE s

SummedUp(s, r, born) ==
    IF Silent(r) THEN Dropped(s, r) ELSE Added(Dropped(s, r), Sentence(r), born)

\* advance_revision drops the sentences that contain one of ten phrases.  Of
\* the sentences above, only the error of an installation has one.
Marked(said) == said.tool = "install" /\ said.outcome = "unverified"
Unmarked(s) == Kept(s, {x \in Elements(s) : ~Marked(x.said)})

-----------------------------------------------------------------------------
(***************************************************************************)
(* LongTermMemoryStore and the record of a task                            *)
(***************************************************************************)

\* What a file holds: records, or nothing that can be read.
Holds(records) == [state |-> "whole", records |-> records]
Missing == [state |-> "missing", records |-> <<>>]
Empty == [state |-> "empty", records |-> <<>>]
Torn == [state |-> "torn", records |-> <<>>]

\* load: what cannot be read counts as nothing.
Loaded(data) == Last(data.records, MaxRecords)

\* remember: the same task again replaces its record.
MutRemembered(records, r) ==
    LET others == Kept(records, {x \in Elements(records) : x.prompt # r.prompt})
    IN  IF Len(others) < MaxRecords THEN Append(others, r) ELSE others

Remembered(records, r) ==
    LET others == Kept(records, {x \in Elements(records) : x.prompt # r.prompt})
    IN  Last(Append(others, r), MaxRecords)

\* retrieve: as many as allowed of those that share a word with the prompt.
Advices(records) ==
    {a \in SUBSET Elements(records) : Cardinality(a) <= Limit}

\* build_task_memory_record.
OutcomesOf(has, raised) ==
    IF raised THEN {"error"} ELSE IF has THEN {"success", "incomplete"} ELSE {"informational"}
Useful(e) == KindOf[e.about] \in {"file", "validation", "plan", "safety", "failure", "git"}
KeyFacts(m) ==
    LET chosen == Last(Kept(m, {e \in Elements(m) : Useful(e)}), MaxFacts)
    IN  [i \in DOMAIN chosen |-> Key(chosen[i])]

\* The summary keeps the outcome and the facts; create_record names the task
\* by the fingerprint of its prompt.
Experience(m, outcome) == [outcome |-> outcome, facts |-> KeyFacts(m)]
Record(t, experience) ==
    [prompt |-> t.name, id |-> t.number,
     outcome |-> experience.outcome, facts |-> experience.facts]

-----------------------------------------------------------------------------
(***************************************************************************)
(* The processes                                                           *)
(***************************************************************************)

NoTask == [name |-> None, number |-> 0]

Init ==
    /\ entries = [p \in Processes |-> <<>>] /\ items = [p \in Processes |-> <<>>]
    /\ revision = [p \in Processes |-> 0] /\ edited = [p \in Processes |-> FALSE]
    /\ view = [p \in Processes |-> <<>>] /\ advice = [p \in Processes |-> {}]
    /\ prompt = [p \in Processes |-> NoTask]
    /\ pc = [p \in Processes |-> "off"]
    /\ file = Missing /\ tmp = Missing /\ fd = [p \in Processes |-> None]
    /\ tasks = 0 /\ calls = 0 /\ finished = {}
    /\ latest = [p \in Processes |-> TRUE] /\ overwritten = FALSE

Goto(p, from, to) == pc[p] = from /\ pc' = [pc EXCEPT ![p] = to]

\* History of a fact: its task, the revision at which the call ran and the one
\* at which its result was recorded.
Born(p, now) == <<prompt[p].number, revision[p], now>>

\* build_agent loads the store.
Boot(p) ==
    /\ Goto(p, "off", "idle")
    /\ view' = [view EXCEPT ![p] = Loaded(file)]
    /\ latest' = [latest EXCEPT ![p] = TRUE]
    /\ UNCHANGED <<task, disk, tasks, calls, finished, overwritten>>

\* memory_run retrieves, the bootstrapper resets.
StartTask(p, name) ==
    /\ Goto(p, "idle", "run") /\ tasks < MaxTasks /\ tasks' = tasks + 1
    /\ prompt' = [prompt EXCEPT ![p] = [name |-> name, number |-> tasks']]
    /\ entries' = [entries EXCEPT ![p] = <<>>] /\ items' = [items EXCEPT ![p] = <<>>]
    /\ revision' = [revision EXCEPT ![p] = 0] /\ edited' = [edited EXCEPT ![p] = FALSE]
    /\ \E a \in Advices(view[p]) : advice' = [advice EXCEPT ![p] = a]
    /\ UNCHANGED <<view, disk, calls, finished, latest, overwritten>>

Calling(p) == pc[p] = "run" /\ calls < MaxCalls /\ calls' = calls + 1
CalledElse == <<prompt, advice, view, pc, disk, tasks, finished, latest, overwritten>>

\* A tool that may run programs ends with refresh_workspace_facts: it may find
\* that the program, or another one meanwhile, has changed the workspace.
RunsPrograms(r) == r.tool \in {"tests", "command", "other"}
After(p, r) == {revision[p]} \cup IF RunsPrograms(r) THEN {revision[p] + 1} ELSE {}
Facts(p, now) ==
    IF now = revision[p] THEN entries[p] ELSE InvalidateValidationBefore(entries[p], now)
Sentences(p, now) == IF now = revision[p] THEN items[p] ELSE Unmarked(items[p])

\* A call that is refused for its arguments is recorded without them.
CallUnprepared(p, r) ==
    /\ Calling(p) /\ r.path = None /\ ~Success(r)
    /\ \E now \in After(p, r) :
         /\ revision' = [revision EXCEPT ![p] = now]
         /\ entries' = [entries EXCEPT ![p] =
                         RecordedResult(Facts(p, now), r, None, Born(p, now))]
         /\ items' = [items EXCEPT ![p] = SummedUp(Sentences(p, now), r, Born(p, now))]
    /\ UNCHANGED edited /\ UNCHANGED CalledElse

\* The result carries the revision that the refresh after the call has left.
CallTool(p, r) ==
    /\ Calling(p) /\ ~(r.tool = "edit" /\ Success(r))
    /\ \E now \in After(p, r) :
         /\ revision' = [revision EXCEPT ![p] = now]
         /\ entries' = [entries EXCEPT ![p] =
                         RecordedResult(Facts(p, now), r, now, Born(p, now))]
         /\ items' = [items EXCEPT ![p] = SummedUp(Sentences(p, now), r, Born(p, now))]
    /\ UNCHANGED edited /\ UNCHANGED CalledElse

\* The result is recorded, then EditResultHandler.apply advances the revision
\* and forgets the file once more: with it what was recorded just now.
CallEdit(p, r) ==
    /\ Calling(p) /\ r.tool = "edit" /\ Success(r)
    /\ LET next == revision[p] + 1
           told == RecordedResult(entries[p], r, next, Born(p, next))
       IN  /\ revision' = [revision EXCEPT ![p] = next]
           /\ entries' = [entries EXCEPT ![p] =
                InvalidatePath(InvalidateValidationBefore(told, next), r.path)]
           /\ items' = [items EXCEPT ![p] = Unmarked(SummedUp(@, r, Born(p, next)))]
    /\ edited' = [edited EXCEPT ![p] = TRUE]
    /\ UNCHANGED CalledElse

\* Before a turn, too, refresh_workspace_facts may see a change.
NoticeChange(p) ==
    /\ Calling(p)
    /\ LET now == revision[p] + 1
       IN  /\ revision' = [revision EXCEPT ![p] = now]
           /\ entries' = [entries EXCEPT ![p] = Facts(p, now)]
           /\ items' = [items EXCEPT ![p] = Sentences(p, now)]
    /\ UNCHANGED edited /\ UNCHANGED CalledElse

\* RollbackCoordinator forgets all facts and keeps the sentences.
RollBack(p) ==
    /\ Calling(p) /\ edited[p]
    /\ revision' = [revision EXCEPT ![p] = @ + 1]
    /\ entries' = [entries EXCEPT ![p] = <<>>]
    /\ UNCHANGED <<items, edited>> /\ UNCHANGED CalledElse

\* The task ends, by an exception or not; its experience is remembered.
EndTask(p, outcome) ==
    /\ Goto(p, "run", "open")
    /\ view' = [view EXCEPT ![p] =
            Remembered(@, Record(prompt[p], Experience(entries[p], outcome)))]
    /\ UNCHANGED <<task, disk, history>>

-----------------------------------------------------------------------------
(***************************************************************************)
(* save: write the temporary file, whose name all processes share, and     *)
(* give it the store's name                                                *)
(***************************************************************************)

Saving(p) == pc[p] \in {"write", "replace"}

\* Opening it for writing empties it, whoever writes to it.
OpenTmp(p) ==
    /\ Goto(p, "open", "write")
    /\ tmp' = Empty /\ fd' = [fd EXCEPT ![p] = "tmp"]
    /\ overwritten' = (overwritten \/ ~latest[p] \/ \E q \in Processes \ {p} : Saving(q))
    /\ UNCHANGED <<task, view, file, tasks, calls, finished, latest>>

\* Two texts written to one file may mix.
Written(before, records) ==
    IF before = Empty THEN {Holds(records)} ELSE {Holds(records), Torn}
FinishWrite(p) ==
    /\ Goto(p, "write", "replace") /\ fd' = [fd EXCEPT ![p] = None]
    /\ CASE fd[p] = "tmp" -> tmp' \in Written(tmp, view[p]) /\ UNCHANGED file
         [] fd[p] = "file" -> file' \in Written(file, view[p]) /\ UNCHANGED tmp
         [] OTHER -> UNCHANGED <<file, tmp>>
    /\ UNCHANGED <<task, view, history>>

\* Descriptors stay with the file that they opened.
Moved(q) == IF fd[q] = "tmp" THEN "file" ELSE IF fd[q] = "file" THEN "gone" ELSE fd[q]
Replace(p) ==
    /\ Goto(p, "replace", "idle") /\ tmp # Missing
    /\ file' = tmp /\ tmp' = Missing /\ fd' = [q \in Processes |-> Moved(q)]
    /\ finished' = IF tmp = Holds(view[p]) THEN finished \cup {prompt[p]} ELSE finished
    /\ latest' = [q \in Processes |-> q = p]
    /\ UNCHANGED <<task, view, tasks, calls, overwritten>>

\* Another process gave the file its name first, or the disk is full: the
\* exception is dropped and the record stays in this process.
SaveFails(p) ==
    /\ \/ Goto(p, "replace", "idle") /\ tmp = Missing
       \/ Goto(p, "write", "idle")
    /\ fd' = [fd EXCEPT ![p] = None]
    /\ UNCHANGED <<task, view, file, tmp, history>>

\* It may leave or be killed at any time.
Leave(p) ==
    /\ pc[p] # "off" /\ pc' = [pc EXCEPT ![p] = "off"] /\ fd' = [fd EXCEPT ![p] = None]
    /\ view' = [view EXCEPT ![p] = <<>>] /\ advice' = [advice EXCEPT ![p] = {}]
    /\ entries' = [entries EXCEPT ![p] = <<>>] /\ items' = [items EXCEPT ![p] = <<>>]
    /\ revision' = [revision EXCEPT ![p] = 0] /\ edited' = [edited EXCEPT ![p] = FALSE]
    /\ prompt' = [prompt EXCEPT ![p] = NoTask]
    /\ UNCHANGED <<file, tmp, history>>

Next ==
    \/ \E p \in Processes : Boot(p)
    \/ \E p \in Processes, name \in Prompts : StartTask(p, name)
    \/ \E p \in Processes, r \in Results : CallUnprepared(p, r)
    \/ \E p \in Processes, r \in Results : CallTool(p, r)
    \/ \E p \in Processes, r \in Results : CallEdit(p, r)
    \/ \E p \in Processes : NoticeChange(p)
    \/ \E p \in Processes : RollBack(p)
    \/ \E p \in Processes, raised \in BOOLEAN :
         \E outcome \in OutcomesOf(edited[p], raised) : EndTask(p, outcome)
    \/ \E p \in Processes : OpenTmp(p)
    \/ \E p \in Processes : FinishWrite(p)
    \/ \E p \in Processes : Replace(p)
    \/ \E p \in Processes : SaveFails(p)
    \/ \E p \in Processes : Leave(p)

Spec == Init /\ [][Next]_vars

-----------------------------------------------------------------------------
(***************************************************************************)
(* Properties                                                              *)
(***************************************************************************)

\* "Any earlier read / state knowledge about this file may now be stale":
\* whatever mixture of edits, noticed changes, rollbacks and refused calls
\* came before, no fact is another task's; and a validation is remembered
\* only if no revision began since it was recorded and none while it ran but
\* that under which it was recorded.
MemoryIsFresh ==
    \A p \in Processes : pc[p] = "run" =>
        \A i \in DOMAIN entries[p] :
            LET e == entries[p][i]
            IN  /\ e.born[1] = prompt[p].number
                /\ KindOf[e.about] = "validation" =>
                     e.born[3] = revision[p] /\ e.born[2] \in {revision[p] - 1, revision[p]}

\* "Their observation cannot prove the revision they changed mid-check": no
\* validation is remembered that ran at an earlier revision.
ValidationsAreCurrent ==
    \A p \in Processes : pc[p] = "run" =>
        \A i \in DOMAIN entries[p] :
            KindOf[entries[p][i].about] = "validation" => entries[p][i].born[2] = revision[p]

\* "Atomic local persistence": wherever processes leave, fail or are killed,
\* the store can be read, and a record that was saved is found there until
\* the same task runs again or newer records fill the store, as long as no
\* process saves over another's save.
StoreKeepsTasks ==
    ~overwritten =>
        /\ file.state \in {"missing", "whole"}
        /\ \A r \in finished :
             \/ \E q \in Elements(file.records) : q.prompt = r.name /\ q.id >= r.number
             \/ Len(file.records) = MaxRecords /\ \A q \in Elements(file.records) : q.id > r.number

\* "Drop stale active validation/failure prose after a physical mutation": no
\* sentence of failing tests outlives the revision at which they failed.
FailuresForgotten ==
    \A p \in Processes : pc[p] = "run" =>
        \A i \in DOMAIN items[p] :
            items[p][i].said.tool = "tests" /\ items[p][i].said.outcome = "failed" =>
                items[p][i].born[1] = prompt[p].number /\ items[p][i].born[3] = revision[p]
=============================================================================

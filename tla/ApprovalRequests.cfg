\* Two workers, one rule, all modes, two tasks; two requests, two answers each.
\* Wakes are fair; deadlines pass only where a property says so.
SPECIFICATION FairSpec
CONSTANTS
    w1 = w1
    w2 = w2
    r1 = r1
    r2 = r2
    Workers = {w1, w2}
    Rules = {r1}
    Modes = {"auto", "review", "read_only"}
    MaxRequests = 2
    MaxTasks = 2
    MaxAnswers = 2
INVARIANTS
    TypeOK
    NobodyStranded
    GrantedOnlyByAnswer
    RunsOnlyIfPermitted
PROPERTIES
    StopWakes
    EveryRequestCloses
    KeepsPermits
CHECK_DEADLOCK FALSE

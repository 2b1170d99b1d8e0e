\* Two processes, two tasks, three tool results.
SPECIFICATION Spec
CONSTANTS
    a = a
    p1 = p1
    p2 = p2
    t1 = t1
    t2 = t2
    None = None
    Processes = {p1, p2}
    Paths = {a}
    Results <- Checked
    Prompts = {t1, t2}
    MaxEntries = 2
    MaxItems = 2
    MaxFacts = 1
    MaxRecords = 1
    Limit = 1
    MaxTasks = 2
    MaxCalls = 3
INVARIANTS
    MemoryIsFresh
    StoreKeepsTasks
SYMMETRY Alike
CHECK_DEADLOCK FALSE

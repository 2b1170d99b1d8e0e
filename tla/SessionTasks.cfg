\* Two tasks of two turns and three tool calls each, one request, under review.
SPECIFICATION FairSpec
CONSTANTS
    agent = agent
    r1 = r1
    Agent = agent
    Rules = {r1}
    Modes = {"review"}
    ToolCalls <- Edits
    MaxTurns = 2
    MaxCalls = 3
    MaxTasks = 2
    MaxRequests = 1
    MaxAnswers = 1
INVARIANTS
    TypeOK
    PublishedOnce
    ShowsCurrentTask
    ShellExcludesAgent
    StopBoundsTools
PROPERTIES
    DecisionIsFinal
    TasksSettle
CHECK_DEADLOCK FALSE

\* Two tasks; one edit each, no approvals.
SPECIFICATION Spec
CONSTANTS
    agent = agent
    r1 = r1
    Agent = agent
    Rules = {r1}
    Modes = {"auto"}
    ToolCalls <- PlainEdits
    MaxTurns = 1
    MaxCalls = 1
    MaxTasks = 2
    MaxRequests = 0
    MaxAnswers = 0
INVARIANTS
    ReviewBlocksNextTask
CHECK_DEADLOCK FALSE

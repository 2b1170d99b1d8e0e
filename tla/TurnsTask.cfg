\* Three turns of two calls; a plan of two steps, three edits.
SPECIFICATION Spec
CONSTANTS
    locate = locate
    write = write
    rest = rest
    None = None
    Names = {locate, write, rest}
    Recon <- ReconOf
    Checkable <- CheckableOf
    FirstPlans <- Planned
    Revisions <- Revised
    MaxReplans <- PerMode
    Keys = {"check"}
    FirstModes = {"fast"}
    MaxAttempts = 2
    StallLimit = 1
    MaxRepairs = 2
    MaxJudged = 2
    UnstableRuns = 3
    Configured = 3
    Threshold = 1
    MaxCalls = 2
    MaxEdits = 3
    MaxFailed = 2
INVARIANTS
    TypeOK
    ProtocolKept
    StalledStepHandled
PROPERTIES
    WorkIsKept

\* Tasks whose requirements are all regressions, in any mode.
SPECIFICATION Spec
CONSTANTS
    inside = inside
    outside = outside
    None = None
    Paths = {inside, outside}
    Scope = {inside}
    InitialTasks <- OnlyRegression
    Resolutions <- AnyResolution
    EditBudget = 2
    Configured = 3
    Ceiling <- Rising
    Threshold <- Lowest
    Patience <- Growing
    Margin = 1
    ManyFiles = 1
    InspectLimit = 2
    MaxCalls = 2
    MaxEdits = 2
    MaxForeign = 0
INVARIANTS
    CompletionIsRecorded

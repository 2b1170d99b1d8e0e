\* Three turns of two calls, three edits of units of two, one foreign change.
SPECIFICATION Spec
CONSTANTS
    inside = inside
    outside = outside
    None = None
    Paths = {inside, outside}
    Scope = {inside}
    InitialTasks <- Usual
    Resolutions <- UsualResolutions
    EditBudget = 2
    Configured = 3
    Ceiling <- Rising
    Threshold <- Lowest
    Patience <- Growing
    Margin = 1
    ManyFiles = 1
    InspectLimit = 2
    MaxCalls = 2
    MaxEdits = 3
    MaxForeign = 1
INVARIANTS
    TypeOK
    StateFollowsLedger
    UnitBounded
    ProbesBounded

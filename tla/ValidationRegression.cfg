\* One edit of a manifest or a test file, nothing else written.
SPECIFICATION Spec
CONSTANTS
    code = code
    manifest = manifest
    test = test
    None = None
    Files = {manifest, test}
    Manifest = manifest
    Docs = {}
    TestFiles = {test}
    InitialPlans <- Untargeted
    Offers <- Completed
    Interval = 2
    Ceiling <- Rising
    Configured = 4
    ManyFiles = 2
    Patience = 2
    MaxCalls = 1
    MaxEdits = 1
    MaxForeign = 0
INVARIANTS
    RegressionIsPlanned

\* Four turns of one call each, nothing written.
SPECIFICATION FairSpec
CONSTANTS
    code = code
    manifest = manifest
    test = test
    None = None
    Files = {code, manifest}
    Manifest = manifest
    Docs = {}
    TestFiles = {}
    InitialPlans <- TypedOrSemantic
    Offers <- Silent
    Interval = 2
    Ceiling <- Rising
    Configured = 4
    ManyFiles = 2
    Patience = 2
    MaxCalls = 1
    MaxEdits = 0
    MaxForeign = 0
INVARIANTS
    HarnessRunsBounded
PROPERTIES
    TaskEnds

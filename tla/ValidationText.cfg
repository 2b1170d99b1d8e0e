\* Two turns of one call each, one edit and one foreign write of a manifest or
\* a test file, any test runtime.
SPECIFICATION Spec
CONSTANTS
    code = code
    manifest = manifest
    test = test
    None = None
    Files = {manifest, test}
    Manifest = manifest
    Docs = {}
    TestFiles = {test}
    InitialPlans <- TestOrSemantic
    Offers <- Either
    Interval = 2
    Ceiling <- Short
    Configured = 2
    ManyFiles = 1
    Patience = 2
    MaxCalls = 1
    MaxEdits = 1
    MaxForeign = 1
INVARIANTS
    TypeOK
    ProofsArePresent
    SuccessIsEarned
PROPERTIES
    EditsAreCovered

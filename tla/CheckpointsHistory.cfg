\* One file, three edits with a history of two, one foreign write and one fault.
SPECIFICATION FairSpec
CONSTANTS
    f1 = f1
    f2 = f2
    p1 = p1
    p2 = p2
    x = x
    y = y
    cr = cr
    Absent = Absent
    None = None
    Files = {f1}
    Paths = {p1}
    FileOf <- OneFile
    Raw = {x, y, cr}
    Decode <- Universal
    MaxCheckpoints = 2
    MaxEdits = 3
    MaxUserWrites = 1
    MaxFaults = 1
INVARIANTS
    TypeOK
    NoLeftoverCheckpoint
    LossOnlyInWindow
    UndoneMeansRestored
    RevisionNamesOneEdit
    UndoIsAtomicUndisturbed
    RefusalIsJustified
PROPERTIES
    OperationsEnd

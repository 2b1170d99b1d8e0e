\* A recorder of ten, up to two stale events, three calls.
SPECIFICATION Spec
CONSTANTS
    MaxEvents = 10
    MaxStale = 2
    MaxCalls = 3
INVARIANTS
    StreamFaithful
    StartsAreClosed
CHECK_DEADLOCK FALSE

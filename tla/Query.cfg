SPECIFICATION FairSpec
CONSTANTS
    Ask = {a1, a2}
    Limit = 1
    MaxPicked = 2
    MinEvidence = 1
    WikiEnabled = TRUE
INVARIANTS
    TypeOK
    PermitsKept
    TraceAgrees
    DistilsGrounded
    NoTaskAfterDispose
PROPERTIES
    HonoursContract
    PermitsReturn
CHECK_DEADLOCK FALSE

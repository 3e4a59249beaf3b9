SPECIFICATION Spec
CONSTANTS
    Calls <- SomeCalls
    MaxCalls = 3
    None = None
CHECK_DEADLOCK FALSE
INVARIANTS
    TypeOK
    ReadBack
    WholeRead
    TruncationNoticed

SPECIFICATION Spec
CONSTANTS
    c1 = c1  c2 = c2
    Conns = {c1, c2}
    MaxBytes = 2
    MaxStarts = 2
    None = None
CHECK_DEADLOCK FALSE
INVARIANTS
    TypeOK
    StreamIntact
    IdentityKept
PROPERTIES
    BlockedOnlyBySilence
    BytesArrive

SPECIFICATION Spec
CONSTANTS
    page = page  r1 = r1  r2 = r2  r3 = r3
    None = None
    Entries = {page}
    Reqs = {r1, r2, r3}
    Offers <- PutWriteAny
    Chunks = 2
    MaxCrashes = 0
CHECK_DEADLOCK FALSE
INVARIANTS
    PutSetsData

SPECIFICATION Spec
CONSTANTS
    a = a  b = b  h1 = h1  h2 = h2  r1 = r1  r2 = r2  r3 = r3  r4 = r4
    None = None
    Malformed = Malformed
    Urls = {a, b}
    Hashes = {h1, h2}
    Reqs = {r1, r2, r3, r4}
    Offers <- SharedContent
    UseAcl = FALSE
    MaxCrashes = 0
CHECK_DEADLOCK FALSE
INVARIANTS
    GetReturnsEntry

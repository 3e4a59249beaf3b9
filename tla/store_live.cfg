SPECIFICATION FairSpec
CONSTANTS
    a = a  b = b  h1 = h1  h2 = h2  r1 = r1  r2 = r2  r3 = r3  r4 = r4
    None = None
    Malformed = Malformed
    Urls = {a, b}
    Hashes = {h1, h2}
    Reqs = {r1, r2, r3}
    Offers <- WriteDeleteAny
    UseAcl = TRUE
    MaxCrashes = 1
CHECK_DEADLOCK FALSE
PROPERTIES
    HandlersAnswer
    DeletedContentReclaimed

SPECIFICATION Spec
CONSTANTS
    e1 = e1  e2 = e2  a = a  b = b  p1 = p1
    None = None
    Placeholder = Placeholder
    Editors = {e1, e2}
    Urls = {a, b}
    Prefixes = {p1}
    Prefix <- SamePrefix
    StartUrls <- DocumentOrNone
    MaxEdits = 2
    MaxPuts = 1
    MaxOpens = 2
    MaxWindows <- FewWithDocuments
CHECK_DEADLOCK FALSE
SYMMETRY Alike
INVARIANTS
    TypeOK
    CleanExplained
    BackedUpOrSoon

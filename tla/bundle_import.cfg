SPECIFICATION Spec
CONSTANTS
    Files <- TreeFiles
    Dirs <- TreeDirs
    Contents = {"h1", "h2"}
    Disk0 <- TreeDisk
    Misread <- EscapedSpace
    Unparsable = {"100%"}
    Hosts = {"http://here", "http://there"}
    Bases <- RootAndBelow
    HandMade <- Statements_
    Before <- OldQuads
    MaxStatements = 4
    None = None
CHECK_DEADLOCK FALSE
INVARIANTS
    TypeOK
    UpdateMeans
    ImportedTree
PROPERTIES
    StaysBelow
    ImportEnds

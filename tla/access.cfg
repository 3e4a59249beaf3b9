SPECIFICATION Spec
CONSTANTS
    Reqs = {r1}
    Calls <- SomeCalls
    AclRows <- SomeRows
    Graphs <- SomeGraphs
    Anonymous = "anonymous"
    MaxChanges = 2
    r1 = r1
CHECK_DEADLOCK FALSE
INVARIANTS
    TypeOK
    DecisionRight
    QueryBelow

SPECIFICATION Spec
CONSTANTS
    mem = mem
    vis = vis
    Visitors = {vis}
    Member = mem
    Requests <- SomeRequests
    Replies <- SomeReplies
    MemberRequest <- Put_
    Password = "pw"
    Rules <- SomeRules
    Names <- SortedNames
    Realm <- StaffRealm
    ShortNames = {"x"}
    RootHasDot = FALSE
    Utf8 <- Encoding
    Nonces <- Keys
    Opaque <- OpaqueOf
    Validity = 1
    MaxClock = 2
    MaxRestarts = 1
    MaxVisits = 1
    MaxReplies = 1
    None = None
CHECK_DEADLOCK FALSE
INVARIANTS
    TypeOK
    GrantedRightly
    DeniedRightly
    StaleOnlyExpired
    ChallengesReadable
PROPERTIES
    MemberAdmitted

SPECIFICATION Spec
CONSTANTS
    Users = {u1}
    SignIns = {s1}
    Requests = {r1}
    Nobody = Nobody
    AccountLimit = 1
    Window = 1
    SessionTTL = 2
    CleanupAge = 1
    MaxClock = 3
    ClusterIds = {c1}
    Writers = {w1, w2}
    Retention = 1
    MaxTokens = 2
    Stamps <- MCStamps
CONSTRAINTS
    SignInsUndisturbed
    OneMappingAtATime
SYMMETRY Alike
INVARIANTS
    TypeOK
    RevokedTokensStayRevoked
    OrphansAreLateWrites
PROPERTIES
    PurgedOnlyAfterRetention
    LastSeenNeverGoesBack
CHECK_DEADLOCK FALSE

SPECIFICATION ServicesSpec
CONSTANTS
    Users = {u1, u2}
    SignIns = {s1, s2}
    Requests = {r1}
    Nobody = Nobody
    AccountLimit = 1
    Window = 1
    SessionTTL = 2
    CleanupAge = 1
    MaxClock = 2
    Notifiers = {n1, n2}
    Cooldown = 2
    MaxSeen = 3
    MaxEvents = 3
    MaxResources = 3
    Calls = {1, 2, 3}
    Owned <- MCOwned
    ann = ann
    ben = ben
    OwnerOf <- MCOwnerOf
    NoOrg = NoOrg
    NoCluster = NoCluster
    v1 = v1
    v2 = v2
    v3 = v3
    Kinds <- MCKinds
    Violations <- MCViolations
    KindOf <- MCKindOf
    MaxRounds = 2
    Vectors <- MCVectors
    Modifiers <- MCModifiers
    Constructs <- MCConstructs
    Operators <- MCOperators
    MaxGrowth = 1
CONSTRAINTS
    CallsInOrder
    TwoCallsThen
INVARIANTS
    ServicesTypeOK
    RevocationEndsSessions
    SuppressedEventsAreCounted
    NoticesKeepTheCooldown
    AnswerMatchesCluster
    TenantsStayApart
    OrgsAreAccountedFor
    OneRowPerViolation
    EverySelectorIsScoped
PROPERTY
    StandingViolationsAreRecorded
CHECK_DEADLOCK FALSE

SPECIFICATION MCSpec
CONSTANTS
    Routes = {r1, r2}
    Profiles <- MCProfiles
    MaxEvents = 8
    r1 = r1
    r2 = r2
    NextActions = {a1}
    a1 = a1
    FindingIds = {f1}
    f1 = f1
    NoVersion = NoVersion
    NoTask = NoTask
    Tokens = {t1, t2}
    t1 = t1
    t2 = t2
    NoToken = NoToken
    IssuedAt <- MCIssuedAt
    ExpiresAt <- MCExpiresAt
    Slots = {s1, s2}
    s1 = s1
    s2 = s2
    Requests <- MCRequests
    Contracts = {c1, c2}
    c1 = c1
    c2 = c2
    SigningKey = TRUE
    MaxFingerprints = 1
    Machines <- MCMachines
    SkillPolicies <- MCSkills
    Projects <- MCProjects
    RouteLayers <- MCRoutes
    Signals <- MCSignals
    TaskInputs <- MCTaskStates
    TaskClasses = {"balanced", "deep_research"}
    Outputs = {1, 20}
    ProviderAnswers = {"answered", "busy"}
    Attempts = {3, 6}
    CompactionGuard = 5
    Registries <- MCRegistries
    RouteChoices <- MCRouteChoices
    Floors <- MCFloors
    AllowedModes = {"sync", "batch"}
    MaxTaskVersion = 4
VIEW MCView
SYMMETRY MCSlots
INVARIANTS
    TokensStandForOneContinuation
    RouteFitsTheHost
    VerificationIsNeverBorrowed
    PolicyIsKept
    SelectionIsSound
    RecordTellsTheTruth
PROPERTIES
    RequestsReachTheirHandler
    OnlyAnUpgradeIsHalfDone
    RetriesOnlyTighten

CONSTANTS
    k1 = k1
    k2 = k2
    r1 = r1
    r2 = r2
    a1 = a1
    f1 = f1
    f2 = f2
    NoVersion = NoVersion
    NoTask = NoTask
    NoFingerprint = NoFingerprint
    NoRequest = NoRequest
    Routes <- mcRoutes
    NextActions = {a1}
    FindingIds = {f1, f2}
    Keys <- mcKeys
    SafeKey <- mcSafeKey
    Commands <- mcCommands
    PutTasks <- mcPutTasks
    TokenIds = {t1}
    t1 = t1
    Fingerprints = {p1}
    p1 = p1
    Extras <- mcExtras
    MaxVersion = 4
    MaxTrail = 3
    Tokens = {t1}
    Workers = {w1, w2}
    Requests <- mcRequests
    Overlapping <- mcRace
    MaxRecordVersion = 4
    MaxListed = 4
    MaxOverlapped = 2
SPECIFICATION MCSpec
VIEW mcView
SYMMETRY mcSymmetry
INVARIANTS
    TypeOK
    CommitsAreChained
    AtMostOneCommitPerKey
    ReceiptsAgree
    LastCommitIsTheTask
    TrailIsTheHistory
    AnsweredIsRecorded
    OneContinuationPerToken
    TrailTellsTheTruth
PROPERTIES
    HistoryIsImmutable
    LedgerSpec

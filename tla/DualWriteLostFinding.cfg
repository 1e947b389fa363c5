CONSTANTS
    r1 = r1
    r2 = r2
    a1 = a1
    f1 = f1
    f2 = f2
    NoVersion = NoVersion
    NoTask = NoTask
    NoKey = NoKey
    NoFingerprint = NoFingerprint
    Routes <- mcRoutes
    NextActions = {a1}
    FindingIds = {f1, f2}
    Keys <- mcKeys
    SafeKey <- mcSafeKey
    Commands = {}
    PutTasks = {}
    TokenIds = {t1}
    Fingerprints = {p1}
    Extras = {}
    MaxVersion = 3
    MaxTrail = 0
    Modes = {"authoritative"}
    Together = {"authoritative"}
    Clients = {c1, c2}
    Requests <- mcTwoFindings
SPECIFICATION DwSpec
VIEW mcView
SYMMETRY mcSymmetry
INVARIANTS
    AcknowledgedFindingIsStored

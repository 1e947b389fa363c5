SPECIFICATION MCSpec
CONSTANTS
    Parts = {"index"}
    i1 = i1
    i2 = i2
    s1 = s1
    s2 = s2
    NoIndex = NoIndex
    NoTaskId = NoTaskId
    TaskIds = {t1, t2, t3}
    Isolates = {i1, i2}
    RequestSlots = {s1, s2}
    IsolateOf <- mcTwoIsolates
    MaxIndexed = 2
    MaxVersion = 2
    OneAtATime = TRUE
    MayFail = FALSE
    NoId = NoId
    Cron = Cron
    Ids = {r1, r2, r3}
    Requesters = {q1}
    MaxIndex = 2
    MaxPosts = 3
    MaxFailures = 1
    p1 = p1
    p2 = p2
    home = home
    Publishers = {p1, p2}
    ScopeOf <- mcSameScope
    Resources <- mcResources
    Scripted = {"skills.list"}
    ReadScopes = {home, unknown}
    MaxSnapshots = 3
CHECK_DEADLOCK FALSE
INVARIANT
    EveryTaskIsListed

SPECIFICATION MCSpec
CONSTANTS
    Parts = {"signature"}
    Nonces = {n1, n2}
    n1 = n1
    n2 = n2
    Skew = 2
    Drift = 3
    EndOfTime = 5
    Calls = {c1, c2}
    c1 = c1
    c2 = c2
    Requests <- MCRequests
    Settings <- MCSettings
    Reports = {r1, r2, r3, r4}
    r1 = r1
    r2 = r2
    r3 = r3
    r4 = r4
    RunOf <- MCRunOf
    ContentOf <- MCContentOf
    MAX_INDEX_SIZE = 2
    Bounds <- MCBounds
    Defects = {"none", "shape", "phase"}
    StoredSettings <- MCStoredSettings
    Sessions = {s1, s2}
    s1 = s1
    s2 = s2
    Platforms = {"cli", "web", "phone"}
    Releases <- MCReleases
    TTL = 1
    Transfer = 1
    LastHour = 4
CHECK_DEADLOCK FALSE
INVARIANTS
    ConsumedOnceInTheWindow

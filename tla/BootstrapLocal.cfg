SPECIFICATION SessionSpec
CONSTANTS
    Skills = {s1, s2}
    s1 = s1
    s2 = s2
    Content <- MCContent
    FlawOf <- MCFlawOf
    Uses <- MCSessions
    Environments <- MCEnvironments
INVARIANTS
    ExtractedCanBeInstalled

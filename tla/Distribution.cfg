SPECIFICATION SessionSpec
CONSTANTS
    Skills = {s1, s2}
    s1 = s1
    s2 = s2
    Content <- MCContent
    FlawOf <- MCFlawOf
    Uses <- MCUses
    Environments <- MCEnvironments
INVARIANTS
    LatestIsPublished
    CommandsKeepTheirWord
    SessionResultIsTrue

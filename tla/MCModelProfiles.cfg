CONSTANTS
    None = None
    r1 = r1
    r2 = r2
    r3 = r3
    Procs = {p1, p2}
    Names = {1, 2, 3}
    Urls = {"a", "b", "http"}
    Https = {"a", "b"}
    Refs = {r1, r2, r3}
    Saved <- MCSaved
    MaxProfiles = 2
    Length <- MCLength
    MaxFileBytes = 4
    MaxCommands = 2
    MaxTroubles = 2
SPECIFICATION Spec
SYMMETRY Symmetry
INVARIANTS
    SecretsStayHome
    KeyringMatchesProfiles
PROPERTY
    NoUpdateLost
CHECK_DEADLOCK FALSE

CONSTANTS
    s1 = s1
    s2 = s2
    Steps = {s1, s2}
    Conns = {c1, c2}
    None = None
    Histories <- MCHistories
    Versions = {3, 5, 6, 7, 8}
    MaxAppends = 3
SPECIFICATION Spec
SYMMETRY Symmetry
CHECK_DEADLOCK FALSE
INVARIANTS
    SchemaConverges HotIndexIsAudited CommittedIsAuditable PlanningFollowsJournal
PROPERTY
    ImplementsJournal

CONSTANTS
    Steps = {s1, s2}
    Actions = {a1}
    Effects = {e1}
    Coordinators = {p1, p2}
    None = None
    IntentShapes <- MCShapes
    MaxModelTurns = 2
    MaxPlannedSteps = 2
    MaxToolCalls = 1
    MaxModelCalls = 2
    MaxAcceptedPlanSteps = 1
    MaxAcceptedPlanEdges = 1
    MaxAttempts = 1
    MaxBreaks = 1
SPECIFICATION LFairSpec
CHECK_DEADLOCK FALSE
INVARIANTS
    RequestsReserved
PROPERTY
    AcceptedAnswerIsFresh
    ReservationResolved

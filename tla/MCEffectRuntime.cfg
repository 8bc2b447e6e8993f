CONSTANTS
    Steps = {s1, s2}
    Actions = {a1, a2}
    Effects = {e1, e2}
    Procs = {p1, p2}
    None = None
    IntentShapes <- MCShapes
    MaxModelTurns = 1
    MaxPlannedSteps = 2
    MaxToolCalls = 2
    MaxModelCalls = 1
    MaxAcceptedPlanSteps = 1
    MaxAcceptedPlanEdges = 1
    MaxAttempts = 3
    MaxExecutionAttempts = 2
    Lacks <- MCLacks
    MaxStops = 2
SPECIFICATION RFairSpec
CHECK_DEADLOCK FALSE
INVARIANTS
    AtMostOnce
PROPERTIES
    ImplementsContract IntentSettles

CONSTANTS
    Steps = {s1}
    Actions = {a1}
    Effects = {e1}
    Procs = {p1, p2}
    None = None
    IntentShapes <- MCShapes
    MaxModelTurns = 1
    MaxPlannedSteps = 2
    MaxToolCalls = 2
    MaxModelCalls = 1
    MaxAcceptedPlanSteps = 1
    MaxAcceptedPlanEdges = 1
    MaxAttempts = 3
    MaxExecutionAttempts = 2
    Lacks <- MCLacks
    MaxStops = 3
SPECIFICATION RFairSpec
CHECK_DEADLOCK FALSE
PROPERTY
    OwedOutputClosed

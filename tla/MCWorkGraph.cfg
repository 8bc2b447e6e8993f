CONSTANTS
    Steps = {s1, s2}
    Actions = {a1, a2}
    Effects = {e1, e2}
    None = None
    IntentShapes <- MCShapes
    MaxModelTurns = 2
    MaxPlannedSteps = 2
    MaxToolCalls = 2
    MaxModelCalls = 2
    MaxAcceptedPlanSteps = 2
    MaxAcceptedPlanEdges = 2
    MaxAttempts = 2
SPECIFICATION Spec
SYMMETRY Symmetry
CHECK_DEADLOCK FALSE
INVARIANTS
    FrontierDerivable QuiescenceExplained GrantUsedOnce ToolCallBudget
    ModelCallAccounting RetryOnlyAfterProof VerificationEvidence
PROPERTIES
    TerminalForever CandidateFreezesWork

SPECIFICATION Spec
CONSTANTS
    None = None
    Steps = {s1, s2}
    Args <- MCArgs
    Catalogs <- MCCatalogs
    Worlds <- MCWorlds
    Routes <- MCRoutes
    Policies <- MCPolicies
    Reports <- MCReports
    LegacyActions <- MCLegacyActions
INVARIANTS
    CallsAreAuthorized
    EffectsAreDistinct
    CompletedIsVerified
SYMMETRY StepSymmetry
CHECK_DEADLOCK FALSE

CONSTANTS
    None = None
    Descendants = {"d1"}
    Requests <- MCRequests
    Workspace <- MCWorkspace
    Images <- MCImages
    Chunks <- MCChunks
    MaxWritten <- MCWritten
    MaxCapture = 3
    MaxArgs = 2
    MaxArgBytes = 4
    MaxEnv = 2
SPECIFICATION Spec
INVARIANTS
    ResultIsTrue
    NoStragglers
PROPERTY
    ExecutionReturns
CHECK_DEADLOCK FALSE

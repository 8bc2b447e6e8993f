CONSTANTS
    Steps = {s1, s2, s3}
    Statuses <- MCStatuses
SPECIFICATION Spec
CHECK_DEADLOCK FALSE
INVARIANTS
    CountersExact ResultCorrect
PROPERTY
    Terminates

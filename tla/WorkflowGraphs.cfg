SPECIFICATION Spec
CONSTANTS
    Steps = {s1, s2, s3}
    Unknown = {u}
    NoExec = NoExec
    MaxAttempts = 1
    RetryLimit = 0
    MaxJobs = 2
    MaxCalls = 1
    MaxOverlaps = 0
SYMMETRY MCSymmetry
CHECK_DEADLOCK FALSE

INVARIANTS
    ValidationIsExact
    SucceededIsComplete
    OutputsHaveInputs
    StrandedRunExplained

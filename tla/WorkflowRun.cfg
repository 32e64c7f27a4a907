SPECIFICATION FairSpec
CONSTANTS
    Steps = {s1, s2}
    Unknown = {}
    NoExec = NoExec
    MaxAttempts = 2
    RetryLimit = 1
    MaxJobs = 1
    MaxCalls = 0
    MaxOverlaps = 1
CHECK_DEADLOCK FALSE

INVARIANTS
    TypeOK
    RowsAgree

PROPERTIES
    JobsSettle

SPECIFICATION FairSpec
CONSTANTS
    Orders = {1, 2, 3}
    Skipped = {3}
    Callers = {tick}
    ClientCredentials = TRUE
    PageSize = 1
    MaxPages = 3
    AuthPauseThreshold = 2
    Ties = 2
    MaxStamp = 3
    MaxFaults = 2

INVARIANTS
    TypeOK
    NothingSkipped

PROPERTIES
    EverythingImported
    ImplementsStoreMirror

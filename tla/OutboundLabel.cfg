SPECIFICATION Spec
CONSTANTS
    Requests = {r1, r2}
    first = r1
    second = r2
    Asks <- MCAsks
    Voids = {v1}
    Labels = {l1, l2}
    NoLabel = NoLabel
    Marketplace = FALSE
    MaxFaults = 2

INVARIANTS
    TypeOK
    PostageAccounted
    OneDirectLabelPerOpening
    VoidShownIsVoid

SPECIFICATION FairSpec
CONSTANTS
    Shipments = {s1, s2}
    Direct = {s1, s2}
    Walmart = {}
    Processors = {p1, p2}
    NoShipment = NoShipment
    MaxAttempts = 2
    MaxRetries = 0
    Faults = {}
CHECK_DEADLOCK FALSE

INVARIANTS
    TypeOK
    ShownAsSettled
PROPERTIES
    RowsSettle

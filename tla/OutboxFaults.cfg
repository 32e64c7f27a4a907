SPECIFICATION Spec
CONSTANTS
    Shipments = {s1, s2}
    Direct = {s2}
    Walmart = {}
    Processors = {p1, p2}
    NoShipment = NoShipment
    MaxAttempts = 2
    MaxRetries = 0
    Faults = {"crash", "throw"}
CHECK_DEADLOCK FALSE
SYMMETRY MCSymmetry

INVARIANTS
    OneRunPerRow
    RetriesBounded

SPECIFICATION Spec
CONSTANTS
    Shipments = {s1}
    Direct = {s1}
    Walmart = {s1}
    Processors = {p1, p2}
    NoShipment = NoShipment
    MaxAttempts = 2
    MaxRetries = 1
    Faults = {"crash", "throw"}
CHECK_DEADLOCK FALSE
SYMMETRY MCSymmetry

INVARIANTS
    SucceededWasTold

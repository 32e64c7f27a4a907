SPECIFICATION Spec
CONSTANTS
    Saves = {s1, s2}
    Keys = {k1}
    NoKey = NoKey
    Details = {d1, d2}
    BatchSize = 2
    Receivers = {q1, q2}
    Shipments = {1, 2, 3}
    NoShipment = NoShipment
    Lines = {"l1"}
    Rows = {w1, w2}
    NoSku = NoSku
    Quantities = {1}
    Nobody = Nobody
    MaxEdits = 2
    MaxFaults = 1
    s1 = s1
    s2 = s2
    k1 = k1
    d1 = d1
    d2 = d2
    q1 = q1
    q2 = q2
    w1 = w1
    w2 = w2
INVARIANTS TypeOK KeySavesOnce StockAsShown
PROPERTIES ImplementsInboundDesk
SYMMETRY MCSymmetry
CHECK_DEADLOCK FALSE

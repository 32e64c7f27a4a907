SPECIFICATION Spec
CONSTANTS
    Requests = {r1, r2}
    Voiders = {v1, v2}
    External = {x1}
    Mirrors = {}
    NoShip = NoShip
    MaxKey = 2
    MaxAttempts = 2
    Amount <- MCAmount
SYMMETRY MCSymmetry

INVARIANTS
    TypeOK
    AtMostOneActiveLabel
    PaidLabelAccounted
    HeldPurchaseRecoverable
    AtMostOneLiveLabel
    CompletedOwnsActiveLabel
    RowsMatchTheirLabel
    KeyRotatesOncePerVoid
PROPERTIES
    ImplementsReturnSlot

SPECIFICATION FairSpec
CONSTANTS
    o1 = o1
    o2 = o2
    r1 = r1
    a = a
    b = b
    Orders = {o1, o2}
    Receipts = {r1}
    Unowned = {}
    Skus = {a, b}
    Lower <- MCLower
    Carts <- MCCarts
    Processes = {p1, p2}
    MaxCopy = 0
    Editable <- MCEditable
    None = None
    Mortal = {p1}
CHECK_DEADLOCK FALSE

CONSTRAINT
    SecondAlone

INVARIANTS
    TypeOK
    AppliedOnce
PROPERTIES
    ImplementsStockBook
    StockedIsDeducted

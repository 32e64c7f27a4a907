SPECIFICATION Spec
CONSTANTS
    Requests = {r1}
    Voiders = {v1}
    External = {x1}
    Mirrors = {m1}
    NoShip = NoShip
    MaxKey = 2
    MaxAttempts = 2
    Amount <- MCAmount

PROPERTIES
    ActiveLinkNeverDisplaced

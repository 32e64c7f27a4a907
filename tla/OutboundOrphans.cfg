SPECIFICATION FairSpec
CONSTANTS
    Requests = {r1}
    first = r1
    second = r1
    Asks <- MCAsks
    Voids = {v1}
    Labels = {l1, l2}
    NoLabel = NoLabel
    Marketplace = FALSE
    MaxFaults = 2

PROPERTIES
    OrphansAreFound

CONSTANTS
    p1 = p1
    p2 = p2
    p3 = p3
    k1 = k1
    k2 = k2
    Players = {p1, p2, p3}
    Key <- MCKey
    Games = {g1}
    Latest = 2
    MaxFaults = 3
    Boot = Boot
SPECIFICATION FairSpec
INVARIANTS DatabaseWhole
PROPERTIES RouterComesUp ConnectionReturns

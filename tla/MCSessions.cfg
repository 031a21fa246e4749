CONSTANTS
    Shells = {s1, s2, s3, s4}
    Keys = {k1, k2}
    NoKey = NoKey
    IPs = {ip1, ip2}
    Games = {g1, g2}
    Menu = Menu
    MaxConnections = 3
    MaxSessionsPerKey = 2
    MaxGuestSessions = 2
    MaxGuestSessionsPerIP = 1
    AllowGuests = TRUE
SPECIFICATION Spec
INVARIANTS LedgerExact CapsHold KeyedBudgetReserved SeatsHoldSlots
SYMMETRY Symmetry

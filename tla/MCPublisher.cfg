CONSTANTS
    Shells = {s1, s2}
    Keys = {k1}
    NoKey = NoKey
    IPs = {ip1}
    Games = {g1}
    Menu = Menu
    MaxConnections = 2
    MaxSessionsPerKey = 2
    MaxGuestSessions = 1
    MaxGuestSessionsPerIP = 1
    AllowGuests = FALSE
SPECIFICATION PFairSpec
INVARIANTS DocumentConsistent OnePublisher ClosedShowsOffline
PROPERTY CloseReturns

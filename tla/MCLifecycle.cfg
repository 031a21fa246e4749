CONSTANTS
    c1 = c1
    c2 = c2
    c3 = c3
    ip1 = ip1
    ip2 = ip2
    Conns = {c1, c2, c3}
    IPs = {ip1, ip2}
    ClientIP <- MCClientIP
    MaxConnections = 2
    MaxPendingAuth = 1
    MaxGuestSessions = 1
    MaxGuestSessionsPerIP = 1
    AllowGuests = TRUE
    StatsPath = TRUE
SPECIFICATION LFairSpec
INVARIANTS CapsHold GuestLedgerExact KeyedShareReserved DeadlineClamped KindMatchesSlot ShutdownInOrder
PROPERTIES HandshakesEnd ShutdownDrains ShutdownEnds

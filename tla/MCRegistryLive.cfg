CONSTANTS
    Games = {g1, g2}
    Versions = {}
    NoVersion = NoVersion
    NoGame = NoGame
    Subs = {}
    Reporters = {r1}
    FailThreshold = 1
    MaxWrites = 2
    SameTick = FALSE
SPECIFICATION FairSpec
PROPERTIES Converges TracksGames KickStartsCycle CloseReturns
CHECK_DEADLOCK FALSE

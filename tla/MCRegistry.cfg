CONSTANTS
    Games = {g1, g2}
    Versions = {}
    NoVersion = NoVersion
    NoGame = NoGame
    Subs = {s1}
    Reporters = {r1}
    FailThreshold = 2
    MaxWrites = 1
    SameTick = FALSE
SPECIFICATION Spec
INVARIANTS Damped StatusChangesPoked
PROPERTY ReloadKeepsHealth
CHECK_DEADLOCK FALSE
SYMMETRY Symmetry

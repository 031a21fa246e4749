CONSTANTS
    MaxTyped = 4
    MaxResizes = 2
    GameAnswers = TRUE
    ClientHalfCloses = TRUE
SPECIFICATION Spec
INVARIANTS LatestSizeDelivered
PROPERTY NoKeySwallowed

CONSTANTS
    MaxTyped = 1
    MaxResizes = 0
    GameAnswers = FALSE
    ClientHalfCloses = FALSE
SPECIFICATION FairSpec
PROPERTY DeadPlayerLeaves

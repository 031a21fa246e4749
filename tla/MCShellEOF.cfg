CONSTANTS
    MaxTyped = 2
    MaxResizes = 0
    GameAnswers = TRUE
    ClientHalfCloses = TRUE
SPECIFICATION FairSpec
PROPERTY EndOfInputLeaves

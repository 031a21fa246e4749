CONSTANTS
    MaxTyped = 2
    MaxResizes = 1
    GameAnswers = TRUE
    ClientHalfCloses = TRUE
SPECIFICATION FairSpec
PROPERTIES PumpNeverWedged DeadPlayerLeaves EndOfInputEndsGame NoGoroutineLeaks

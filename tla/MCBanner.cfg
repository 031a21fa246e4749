CONSTANTS
    Notices = {n1, n2}
    Disabled = Disabled
    Bad = Bad
    Missing = Missing
    Subs = {m1}
    MaxSaves = 3
SPECIFICATION FairSpec
INVARIANTS NoticePoked
PROPERTY ImplementsHotFile
CHECK_DEADLOCK FALSE

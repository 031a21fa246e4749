CONSTANTS
    Lists <- MCLists
    NoID = 0
    Stored = {2}
    IdleTicks = 2
    MaxChanges = 2
SPECIFICATION FairSpec
INVARIANTS CursorDrawn StaleMenuPoked
PROPERTIES LaunchConsented IdleLeaves WaitsEnd

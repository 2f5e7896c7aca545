\* Allied delivers two lines, one after the other.
SPECIFICATION FairSpec
CONSTANTS
    Providers = {"allied"}
    MaxLines = 2
    MaxLog = 3
    MaxTime = 3
    MaxForgets = 0
    MaxCrashes = 0
PROPERTIES
    AllLinesArrive
CHECK_DEADLOCK FALSE

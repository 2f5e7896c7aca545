\* Repacking, overlapping rounds of quotes, scans and the booking of one booking.
SPECIFICATION Spec
CONSTANTS
    fp1 = fp1
    fp2 = fp2
    page1 = page1
    page2 = page2
    Fps <- OneFp
    Allied <- OneFp
    Rounds <- TwoRounds
    Items = 2
    MaxRows = 5
    MaxRepacks = 1
    MaxQuotes = 2
    MaxFailures = 1
SYMMETRY SlotSymmetry
CONSTRAINT OverlapEarly
INVARIANTS
    TypeOK
    
    ScannedOnce
    ChosenIsLive
    LoneRoundClearsUp
CHECK_DEADLOCK FALSE

\* Two clicks on "Book".
SPECIFICATION Spec
CONSTANTS
    Requests = {r1, r2}
    Kinds = {"book"}
    Targets = {}
    FpStatuses = {}
    Origins = {"Ready for booking"}
    MaxHistory = 4
    MaxLog = 0
    MaxPickup = 2
    MaxCrashes = 0
PROPERTIES
    AlreadyBookedRefused
CHECK_DEADLOCK FALSE

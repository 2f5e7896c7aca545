\* Staff edit the history itself between other requests.
SPECIFICATION Spec
CONSTANTS
    Requests = {r1}
    Kinds = {"editHistory", "change", "saveHistory", "opCancel", "track"}
    Targets = {"Booked", "In Transit", "Delivered"}
    FpStatuses = {"In Transit", "None"}
    Origins = {"Picking"}
    MaxHistory = 5
    MaxLog = 2
    MaxPickup = 0
    MaxCrashes = 0
INVARIANTS
    StatusIsLast
CHECK_DEADLOCK FALSE

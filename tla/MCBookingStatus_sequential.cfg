\* One request at a time: what each handler leaves behind.
SPECIFICATION Spec
CONSTANTS
    Requests = {r1}
    Kinds <- AllCreateKinds
    Targets = {"Booked", "In Transit", "Delivered", "Ready for booking"}
    FpStatuses = {"In Transit", "Delivered", "None"}
    Origins = {"Picking", "Ready for booking"}
    MaxHistory = 5
    MaxLog = 2
    MaxPickup = 2
    MaxCrashes = 0
INVARIANTS
    TypeOK
    HistoryChained
    StatusIsLast
    CategoryFollows
    TransitStamped
    BookedHasDate
    ClosedAtFp
    StatusAudited
PROPERTIES
    LockIsFinal
CHECK_DEADLOCK FALSE

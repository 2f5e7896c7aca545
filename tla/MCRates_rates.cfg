\* Every provider with rule tables, and Deliver-ME: one price request each.
SPECIFICATION Spec
CONSTANTS
    Jobs <- MCJobs
    ZoneRows <- MCZoneRows
    PartOf <- MCPartOf
    Vehicles <- MCVehicles
    SmallVehicles = {1}
INVARIANTS
    TypeOK
    ServesTrip
    CheapestTaken
    MoreNotCheaper
CHECK_DEADLOCK FALSE

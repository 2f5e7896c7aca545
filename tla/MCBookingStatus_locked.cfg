\* Two requests, forms, bookings without a provider and crashes: what can lock a booking.
SPECIFICATION Spec
CONSTANTS
    Requests = {r1, r2}
    Kinds <- LockingKinds
    Targets = {"Delivered", "Picked"}
    FpStatuses = {"In Transit", "Delivered"}
    Origins = {"Picking"}
    MaxHistory = 4
    MaxLog = 2
    MaxPickup = 1
    MaxCrashes = 1
SYMMETRY Symmetric
INVARIANTS
    LockImpliesDelivered
CHECK_DEADLOCK FALSE

\* Polls of every kind of provider, with late and forgotten events and a crash.
SPECIFICATION FairSpec
CONSTANTS
    Providers <- AllProviders
    MaxLines = 2
    MaxLog = 3
    MaxTime = 2
    MaxForgets = 1
    MaxCrashes = 1
INVARIANTS
    TypeOK
    NotDeliveredEarly
    DeliveryIsTimed
PROPERTIES
    KeepsPromise
    DeliveryArrives
CHECK_DEADLOCK FALSE

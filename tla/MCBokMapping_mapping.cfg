\* One run at a time: headers that fail, runs that die and are taken over.
SPECIFICATION FairSpec
CONSTANTS
    h1 = h1
    h2 = h2
    h3 = h3
    Headers = {h1, h2, h3}
    Runs = {m1}
    Clients = {}
    Kinds = {"push"}
    PushCodes = {2, 5}
    Poison = {h3}
    Consigned = {h2}
    Sinv <- SharedSinv
    BatchSize = 2
    Grace = 1
    Day = 3
    MaxBookings = 3
    MaxCrashes = 2
INVARIANTS
    TypeOK
    VisualsDistinct
    DuplicatesHeld
PROPERTIES
    BookedOnceWithLines
    ReadyGetsBooked

\* Every call of the clients, saving what it read before, and two runs at a time.
SPECIFICATION Spec
CONSTANTS
    h1 = h1
    h2 = h2
    h3 = h3
    Headers = {h1, h2}
    Runs = {m1, m2}
    Clients = {c1}
    Kinds <- AllKinds
    PushCodes = {2}
    Poison = {h2}
    Consigned = {}
    Sinv <- NoSinv
    BatchSize = 1
    Grace = 0
    Day = 1
    MaxBookings = 2
    MaxCrashes = 1
INVARIANTS
    MappedIsBooked
SYMMETRY Symmetric

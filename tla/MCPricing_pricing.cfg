\* Surcharges of orders around the bounds of the tables, and rounds of pricing for two of them.
SPECIFICATION Spec
CONSTANTS
    Sizes <- MCSizes
    Places <- MCPlaces
    MaxLines = 2
    Priced <- MCPriced
    Scanned <- MCScanned
    Services <- MCServices
    Express <- MCExpress
    Offers <- MCOffers
    Arrivals <- MCArrivals
    ClientRated = {"TNT"}
    Gap = 50
    Levy <- MCLevy
    MarkUp = 20
    FromCost = 60000
    MinMarkUp = 5000
    MaxRounds = 2
INVARIANTS
    TypeOK
    OneFeePerRule
    DeadlineMet
    CheapestCarrierTaken
    FleetOffered
    NoBulkyAllied
PROPERTIES
    LargerNotCheaper
    RaisedToClientAtMost
CHECK_DEADLOCK FALSE

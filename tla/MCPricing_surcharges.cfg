\* What surcharges are left when Allied is hidden.
SPECIFICATION Spec
CONSTANTS
    Sizes <- MCSizes
    Places <- MCPlaces
    MaxLines = 2
    Priced <- MCPriced
    Scanned <- MCScanned
    Services <- MCServices
    Express <- MCExpress
    Offers <- MCOffers
    Arrivals <- MCArrivals
    ClientRated = {"TNT"}
    Gap = 50
    Levy <- MCLevy
    MarkUp = 20
    FromCost = 60000
    MinMarkUp = 5000
    MaxRounds = 2
INVARIANTS
    ExtraIsTotal
CHECK_DEADLOCK FALSE

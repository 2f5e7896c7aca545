----------------------------- MODULE MCPricing -----------------------------
(***************************************************************************)
(* An instance of Rating for TLC.                                          *)
(***************************************************************************)
EXTENDS Rating, TLC

Line(l, w, h, g, qty, pallet) ==
    [l |-> l, w |-> w, h |-> h, g |-> g, qty |-> qty, pallet |-> pallet]

\* Around the bounds of the tables: 150, 200, 300, 370, 730 cm; 22, 30, 35, 55 and 100 kg.
Small == Line(100, 50, 20, 21000, 1, FALSE)
MCSizes ==
    {Small, Line(150, 50, 20, 21500, 1, FALSE), Line(199, 50, 20, 22100, 1, FALSE),
     Line(200, 50, 20, 31000, 1, FALSE), Line(300, 50, 20, 34600, 2, FALSE),
     Line(301, 130, 20, 55100, 2, FALSE), Line(600, 130, 20, 91000, 2, FALSE),
     Line(601, 130, 20, 100000, 3, FALSE), Line(901, 130, 40, 100000, 3, FALSE),
     Line(2500, 10, 10, 100000, 3, FALSE),
     Line(120, 120, 100, 300000, 1, TRUE), Line(120, 120, 180, 400000, 3, TRUE)}

\* Botany is beyond Allied's network, Altona has two rows.
Beyond == [base |-> 25000, perKg |-> 350]
Onward(suburb) ==
    CASE suburb = "botany" -> {Beyond} [] suburb = "altona" -> {Beyond, [base |-> 9000, perKg |-> 100]}
      [] OTHER -> {}

Place(from, to, lifts, client, state, suburb, region, due) ==
    [from |-> from, to |-> to, client |-> client, state |-> state, suburb |-> suburb,
     lift |-> [e \in {"pickup", "delivery"} |-> e \in lifts],
     onward |-> [e \in {"pickup", "delivery"} |-> IF e = "pickup" THEN Onward(suburb) ELSE {}],
     region |-> region, due |-> due]

MCPlaces ==
    {Place("business", "residential", {}, "Plum", "NSW", "botany", "Melbourne", 36),
     Place("residential", "Residential", {"pickup", "delivery"}, "other", "VIC", "altona", "Sydney", 0),
     Place("business", "business", {"delivery"}, "JasonL", "VIC", "altona", "Sydney", 60),
     Place("business", "residential", {}, "JasonL", "NSW", "botany", "Melbourne", 96),
     Place("business", "business", {"pickup"}, "JasonL", "NSW", "botany", "Adelaide", 36),
     Place("residential", "business", {}, "Anchor", "VIC", "dandenong south", "Sydney", 80)}

Offer(service, fee, etd, air) == [service |-> service, fee |-> fee, etd |-> etd, air |-> air]

\* TNT has two services, which may come to the same price.
MCServices == {"road", "road express"}
MCExpress == {"road express"}
MCOffers ==
    "TNT" :> {Offer("road", 16000, 48, FALSE), Offer("road express", 24000, 24, FALSE)}
    @@ "Allied" :> {Offer("road", 8000, 48, FALSE)}
    @@ "Northline" :> {Offer("road", 8000, 24, TRUE), Offer("road", 12000, 0, FALSE)}

\* Each FP is once the first and once the last one; what TNT's services offer
\* comes together, or that of one after all others.
Positions(fps, late) ==
    [fp \in DOMAIN MCOffers |-> [service \in MCServices |->
        IF late /\ fp = "TNT" /\ service = "road" THEN 8
        ELSE 2 * (CHOOSE i \in DOMAIN fps : fps[i] = fp) + (IF service = "road" THEN 0 ELSE 1)]]
MCArrivals ==
    {Positions(<<"TNT", "Allied", "Northline">>, TRUE),
     Positions(<<"Northline", "TNT", "Allied">>, FALSE),
     Positions(<<"Allied", "Northline", "TNT">>, FALSE)}

MCLevy == [fp \in DOMAIN MCOffers |-> CASE fp = "TNT" -> 25 [] fp = "Allied" -> 20 [] OTHER -> 10]

Bulky == Line(130, 130, 20, 22000, 1, FALSE)
MCPriced == {<<Small>>, <<Line(301, 130, 20, 55100, 2, FALSE)>>}
MCScanned == {<<Small>>, <<Bulky>>}
=============================================================================

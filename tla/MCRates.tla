------------------------------ MODULE MCRates ------------------------------
(***************************************************************************)
(* An instance of Rates for TLC.                                           *)
(***************************************************************************)
EXTENDS Rates

Box(len, wid, hei) == [len |-> len, wid |-> wid, hei |-> hei]
Line(kind, qty, len, wid, hei, kg) ==
    [kind |-> kind, qty |-> qty, len |-> len, wid |-> wid, hei |-> hei, kg |-> kg]

\* Around the bounds of the tables below: 12 dm, 16 dm and 18.5 dm; 20 kg and 30 kg; one,
\* two and three pieces.
MCLoads ==
    {<<Line("carton", 1, 4, 4, 4, 20)>>, <<Line("carton", 3, 5, 5, 5, 7)>>,
     <<Line("carton", 1, 10, 10, 5, 21), Line("carton", 2, 4, 3, 2, 1)>>,
     <<Line("pallet", 1, 12, 12, 10, 200)>>, <<Line("pallet", 2, 12, 12, 14, 300)>>,
     <<Line("pallet", 3, 10, 8, 8, 20)>>, <<Line("pallet", 2, 9, 8, 8, 20)>>,
     <<Line("pallet", 1, 13, 12, 14, 30)>>,
     <<Line("pallet", 1, 12, 17, 15, 30), Line("pallet", 1, 8, 10, 8, 20)>>,
     <<Line("pallet", 1, 12, 12, 10, 20), Line("carton", 2, 10, 5, 5, 30)>>,
     <<Line("carton", 1, 18, 12, 2, 5), Line("pallet", 1, 10, 10, 10, 30)>>}

Place(suburb, postal, state, metro) ==
    [suburb |-> suburb, postal |-> postal, state |-> state, metro |-> metro]
Home == Place("botany", "2019", "nsw", "")
Town == Place("altona", "3018", "vic", "MEL")
Hill == Place("pakenham", "3800", "vic", "Pakenham")
Depot == Place("larapinta", "4110", "qld", "BNE")
South == Place("dandenong south", "3175", "vic", "MEL")
Plain == Place("glenelg", "5045", "sa", "ADL")

Way(from, to, residential, pu, de, fitters) ==
    [from |-> from, to |-> to, residential |-> residential, puAssists |-> pu, deAssists |-> de,
     fitters |-> fitters]
MCTrips ==
    {Way(Home, Town, FALSE, FALSE, FALSE, FALSE), Way(Home, Town, FALSE, TRUE, TRUE, TRUE),
     Way(Town, Home, FALSE, FALSE, TRUE, FALSE), Way(Home, Hill, TRUE, FALSE, FALSE, FALSE),
     Way(Depot, Home, FALSE, FALSE, FALSE, FALSE), Way(Home, Plain, FALSE, TRUE, FALSE, FALSE),
     Way(South, Home, TRUE, FALSE, FALSE, FALSE)}

\* Botany lies in two zones, larapinta in none; pakenham's zone is another one by the
\* range of its postal code.
Zone(suburb, postal, state, zone) ==
    [suburb |-> suburb, postal |-> postal, state |-> state, zone |-> zone, range |-> {}]
RangeRow(codes, zone) == [Zone("", "", "", zone) EXCEPT !.range = codes]
MCZoneRows ==
    <<Zone("botany", "2019", "nsw", "SYD"), Zone("botany", "2019", "nsw", "NSW1"),
      RangeRow({"3800", "3810"}, "MEL"), Zone("altona", "3018", "vic", "MEL"),
      Zone("pakenham", "3800", "vic", "VIC1"), Zone("glenelg", "5045", "sa", "ADL"), Zone("dandenong south", "3175", "vic", "MEL")>>
MCPartOf == {<<"SY", "SYD">>}

Vehicle(len, wid, hei, mass) == [len |-> len, wid |-> wid, hei |-> hei, mass |-> mass]
MCVehicles == <<Vehicle(12, 12, 12, 100), Vehicle(20, 15, 15, 250), Vehicle(40, 20, 20, 1000)>>

Area(suburb, state, zone) == [suburb |-> suburb, postal |-> "", state |-> state, zone |-> zone]
Anywhere == Area("", "", "")
Cost(uom, start, end, basic, min, per) ==
    [uom |-> uom, start |-> start, end |-> end, basic |-> basic, min |-> min, per |-> per,
     oversize |-> 0, factor |-> 250, upTo |-> NoDims, max |-> Box(18, 17, 15), upToKg |-> 0,
     maxKg |-> 800]
Rule(service, from, to, bothWay, vehicle, cost) ==
    [service |-> service, from |-> from, to |-> to, bothWay |-> bothWay, vehicle |-> vehicle,
     cost |-> cost]

\* The rules of a service, in several orders and with several bounds.
RulesFor(service) ==
    LET zoned == Rule(service, Area("", "", "SYD"), Area("", "", "MEL"), FALSE, 1,
                      Cost("PALLET", 0, 3, 10, 40, 6))
        other == Rule(service, Area("", "", "NSW1"), Area("altona", "vic", ""), FALSE, 2,
                      Cost("Pallet", 1, 4, 0, 0, 5))
        part == Rule(service, Area("", "", "SY"), Area("", "", "MEL"), FALSE, 2,
                     Cost("Kilogram", 0, 4, 10, 40, 2))
        back == Rule(service, Area("", "vic", ""), Area("", "nsw", ""), TRUE, 3,
                     Cost("Carton", 1, 9, 3, 0, 3))
        backZoned == Rule(service, Area("", "", "MEL"), Area("", "nsw", "SYD"), TRUE, 3,
                     Cost("Carton", 0, 3, 3, 0, 3))
        light == Rule(service, Anywhere, Area("", "", "MEL"), FALSE, 1,
                      [Cost("Carton", 0, 2, 3, 0, 4) EXCEPT !.upToKg = 30, !.upTo = Box(12, 12, 14)])
        sizeless == Rule(service, Area("", "nsw", ""), Anywhere, FALSE, 3,
                      [Cost("PALLET", 0, 0, 1, 0, 9) EXCEPT !.max = NoDims])
        large == Rule(service, Anywhere, Anywhere, FALSE, 3,
                      [Cost("Pallet", 0, 9, 5, 0, 7) EXCEPT !.oversize = 20, !.upTo = Box(13, 13, 13), !.upToKg = 400])
        bare == [zoned EXCEPT !.cost.max = NoDims]
        heavy == [zoned EXCEPT !.cost = [Cost("Kilogram", 0, 4, 12, 50, 3) EXCEPT !.maxKg = 250]]
        mid == [zoned EXCEPT !.cost.per = 5]
    IN  {<<zoned, heavy, mid>>, <<bare, zoned>>, <<heavy, bare>>, <<heavy>>,
         <<zoned, other, back>>, <<other, zoned, light>>, <<backZoned, light, other>>,
         <<light, sizeless, zoned>>, <<sizeless, other>>, <<large, light, zoned>>,
         <<part, zoned, back>>, <<zoned, part>>, <<light, back, large>>}

\* The second service of a provider that has several has a single rule of its own: for
\* anywhere, or for the way back between two zones.
MCTables(fp) ==
    LET one == Services(fp)
        back == Rule(one[2], Area("", "", "MEL"), Area("", "nsw", ""), TRUE, 3,
                     Cost("PALLET", 0, 0, 0, 0, 8))
        any == Rule(one[2], Area("", "", "SYD"), Anywhere, FALSE, 3,
                    Cost("PALLET", 0, 0, 0, 0, 8))
    IN  IF Len(one) = 1 THEN RulesFor(one[1])
        ELSE {Append(t, rule) : t \in RulesFor(one[1]), rule \in {back, any}}

RuleFps ==
    {"atc", "century", "camerons", "northline", "toll", "blacks", "blenner", "bluestar",
     "startrack", "hi-trans", "vfs", "sadleirs", "followmont", "dxt"}

Job(fp, client, trip, lines, table) ==
    [fp |-> fp, client |-> client, trip |-> trip, lines |-> lines, table |-> table]
MCJobs ==
    UNION {{Job(fp, "JasonL", trip, lines, table) :
                trip \in MCTrips, lines \in MCLoads, table \in MCTables(fp)} : fp \in RuleFps}
        \cup {Job("deliver-me", client, trip, lines, << >>) :
                  client \in {"JasonL", "BSD", "Anchor", "Plum"}, trip \in MCTrips, lines \in MCLoads}
=============================================================================

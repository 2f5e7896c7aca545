------------------------------ MODULE Tariffs ------------------------------
(***************************************************************************)
(* What a freight provider (FP) charges on top of its price: the surcharge *)
(* tables of the FPs and find_surcharges, which measures an order's lines  *)
(* and applies the rules of a table to the order and to each of its lines. *)
(* Lengths are in centimetres, weights in grams (in whole kilograms where  *)
(* the code has rounded up), volumes in litres, amounts in tenths of a     *)
(* cent.  No rule for dangerous goods is here: lines never count as such.  *)
(***************************************************************************)
EXTENDS Integers, FiniteSets, Functions, FiniteSetsExt

Tariffed == {"TNT", "Allied", "Hunter", "Camerons", "Northline", "Hi-Trans", "Bluestar",
             "Toll", "StarTrack"}

OrderLine == [l : Nat, w : Nat, h : Nat, g : Nat, qty : Nat, pallet : BOOLEAN]

\* An address type is as typed in.
AddressTypes == {"business", "residential", "Residential"}
IsHome(type) == type \in {"residential", "Residential"}

-----------------------------------------------------------------------------
(* Measures.                                                               *)

Ceil(n, d) == (n + d - 1) \div d

Longest(x) == Max({x.l, x.w, x.h})

\* Hunter takes bulky goods at a higher density.
Factor(fp, x) ==
    IF \/ fp = "Northline"
       \/ /\ fp = "Hunter" /\ ~x.pallet
          /\ \/ x.l > 120 /\ x.w > 120
             \/ x.h > 180
             \/ Max({x.l, x.w}) > 120 /\ x.g > 59000
    THEN 333 ELSE 250

Cubic(fp, x) == ((x.l * x.w * x.h) \div 1000) * Factor(fp, x)
DeadKg(x) == Ceil(x.g, 1000)
HeavyKg(fp, x) == Ceil(Max({x.g, Cubic(fp, x)}), 1000)

\* What an order weighs: all lines, each rounded up once they are added.
OrderDead(lines) == Ceil(SumFunction([i \in DOMAIN lines |-> lines[i].g * lines[i].qty]), 1000)
OrderCubic(fp, lines) ==
    Ceil(SumFunction([i \in DOMAIN lines |-> Cubic(fp, lines[i]) * lines[i].qty]), 1000)
OrderHeavy(fp, lines) == Max({OrderDead(lines), OrderCubic(fp, lines)})
ItemHeavy(fp, lines) == Max({HeavyKg(fp, lines[i]) : i \in DOMAIN lines})
OrderLongest(lines) == Max({Longest(lines[i]) : i \in DOMAIN lines})
Pallets(lines) ==
    SumFunction([i \in DOMAIN lines |-> IF lines[i].pallet THEN lines[i].qty ELSE 0])

-----------------------------------------------------------------------------
(* Tables.  A band is charged from its first to its last value.            *)

Open == 0  \* last value of a band without an end
Band(first, last, amount) == [first |-> first, last |-> last, amount |-> amount]
In(bands, n) == {b \in bands : b.first <= n /\ (b.last = Open \/ n <= b.last)}
AmountIn(bands, n) == SumFunction([b \in In(bands, n) |-> b.amount])

\* Slip: TNT's bands take their upper bound in.
LengthBandsClosed(fp) ==
    IF fp = "TNT" THEN {Band(150, 200, 10000), Band(200, 300, 30000), Band(300, 400, 40000),
                        Band(400, 500, 250000), Band(500, 600, 450000), Band(600, 2499, 600000)}
    ELSE {}

\* Slip: the two last bands of Northline are swapped.
LengthBandsSwapped(fp) ==
    IF fp = "Northline" THEN {Band(301, 600, 105000), Band(601, 900, 1000000), Band(901, Open, 315000)}
    ELSE {}

\* By the longest side of a line or, for Hunter, of the order.
TntLengths ==
    {Band(150, 199, 10000), Band(200, 299, 30000), Band(300, 399, 40000),
     Band(400, 499, 250000), Band(500, 599, 450000), Band(600, 2499, 600000)}
StarTrackLengths ==
    {Band(151, 200, 20000), Band(201, 300, 40000), Band(301, 400, 75000),
     Band(401, 500, 250000), Band(501, 600, 450000), Band(601, Open, 600000)}
NorthlineLengths == {Band(301, 600, 105000), Band(601, 900, 315000), Band(901, Open, 1000000)}
HiTransLengths == {Band(301, 600, 105000), Band(601, 900, 315000), Band(901, Open, 1000000)}
BluestarLengths == {Band(241, 600, 29610), Band(601, 800, 93765), Band(801, Open, 113510)}
TollLengths == {Band(371, 600, 122000), Band(601, 730, 177500), Band(731, Open, 644000)}
HunterLengths == {Band(150, 249, 10000), Band(250, 399, 50000), Band(400, Open, 200000)}

LengthBands(fp) ==
    CASE fp = "TNT"       -> TntLengths
      [] fp = "StarTrack" -> StarTrackLengths
      [] fp = "Northline" -> NorthlineLengths
      [] fp = "Hi-Trans"  -> HiTransLengths
      [] fp = "Bluestar"  -> BluestarLengths
      [] fp = "Toll"      -> TollLengths
      [] fp = "Hunter"    -> HunterLengths
      [] OTHER            -> {}

\* By the heaviest item (Hunter) or the weight of the order (TNT), at a home.
HunterHomes ==
    {Band(35, 49, 10000), Band(50, 74, 20000), Band(75, 99, 30000), Band(100, Open, 50000)}
TntHomes == {Band(30, 99, 55000), Band(100, Open, 175000)}

HomeBands(fp) ==
    CASE fp = "Hunter" -> HunterHomes
      [] fp = "TNT"    -> TntHomes
      [] OTHER         -> {}

-----------------------------------------------------------------------------
(* Rules.                                                                  *)

\* TNT's manual handling: too small, too large or too heavy for the sorter (a
\* weight rounded up is below 250 g only when it is 0).
ByHand(x) ==
    \/ x.l < 20 \/ x.l > 120 \/ x.w < 10 \/ x.w > 60 \/ x.h < 2 \/ x.h > 80
    \/ x.l * x.l + x.w * x.w + x.h * x.h > 14400
    \/ DeadKg(x) = 0 \/ DeadKg(x) > 30

\* JasonL has a price of its own for the first of TNT's bands.
LengthAmount(fp, place, x) ==
    CASE fp = "Hunter" -> 0
      [] fp = "TNT" /\ place.client = "JasonL" /\ Longest(x) \in 150..199 -> 8230
      [] OTHER -> AmountIn(LengthBands(fp), Longest(x))

\* The surcharges of one item of a line.
LineAmount(fp, place, x) ==
    LengthAmount(fp, place, x)
    + (IF fp = "TNT" /\ ByHand(x) THEN 12500 ELSE 0)
    + (IF fp = "StarTrack" /\ HeavyKg(fp, x) > 32 THEN 75000 ELSE 0)

\* Allied's fee for a home; an order of exactly 22 kg has none.
AlliedHome(dead, cubic) ==
    LET heavy == Max({dead, cubic})
        over  == dead > 90 \/ cubic > 135
    IN  (IF heavy < 22 THEN {5300} ELSE {})
        \cup (IF heavy > 22 /\ heavy <= 55 THEN {10595} ELSE {})
        \cup (IF (dead \in 56..90 \/ cubic \in 56..135) /\ ~over THEN {37075} ELSE {})
        \cup (IF over THEN {79435} ELSE {})

\* A home at one end of the way.
AtHome(fp, type, lines, flat) ==
    IF ~IsHome(type) THEN 0
    ELSE CASE fp = "TNT" -> flat + AmountIn(HomeBands(fp), OrderHeavy(fp, lines))
           [] fp = "Hunter" -> AmountIn(HomeBands(fp), ItemHeavy(fp, lines))
           [] OTHER -> 0

\* Northline knows one spelling of the delivery address's type.
NorthlineHome(place) ==
    IF IsHome(place.from) \/ place.to = "residential" THEN 33000 ELSE 0

HomesAmount(fp, place, lines) ==
    AtHome(fp, place.from, lines, 5000)
    + AtHome(fp, place.to, lines, IF place.client = "JasonL" THEN 2370 ELSE 5000)
    + (IF fp = "Northline" THEN NorthlineHome(place) ELSE 0)
    + (IF fp = "Allied" /\ IsHome(place.to)
       THEN SumSet(AlliedHome(OrderDead(lines), OrderCubic(fp, lines))) ELSE 0)

\* Allied's fee where its network ends: a place with one row of FP_onforwarding
\* has it, a place with none or several has not.
OnwardRow == [base : Nat, perKg : Nat]
OnwardAmount(rows, kg) ==
    IF Cardinality(rows) = 1 THEN LET row == CHOOSE r \in rows : TRUE IN row.base + row.perKg * kg
    ELSE 0
AlliedOnward(place, lines) ==
    OnwardAmount(place.onward["pickup"], OrderHeavy("Allied", lines))
    + OnwardAmount(place.onward["delivery"], OrderHeavy("Allied", lines))

\* Lifts at both ends are charged once or for each end, and by Camerons at 110%
\* when the service is an express one.
Lifts(place) == Cardinality({e \in {"pickup", "delivery"} : place.lift[e]})
AlliedLift(place) == IF Lifts(place) = 0 THEN 0 ELSE 60000
NorthlineLift(place) == IF Lifts(place) = 0 THEN 0 ELSE 52000
TollLift(place, lines) ==
    IF Lifts(place) = 0 THEN 0
    ELSE IF Pallets(lines) <= 2 THEN 78000 ELSE 39000 * Pallets(lines)
HunterLift(place) == 60000 * Lifts(place)
CameronsLift(express, place) == (IF express THEN 58234 ELSE 52940) * Lifts(place)

LiftAmount(fp, express, place, lines) ==
    CASE fp = "Allied"    -> AlliedLift(place)
      [] fp = "Northline" -> NorthlineLift(place)
      [] fp = "Toll"      -> TollLift(place, lines)
      [] fp = "Hunter"    -> HunterLift(place)
      [] fp = "Camerons"  -> CameronsLift(express, place)
      [] OTHER            -> 0

OrderAmount(fp, express, place, lines) ==
    (IF fp = "Hunter" THEN AmountIn(LengthBands(fp), OrderLongest(lines)) ELSE 0)
    + (IF fp = "Allied" THEN AlliedOnward(place, lines) ELSE 0)
    + HomesAmount(fp, place, lines) + LiftAmount(fp, express, place, lines)

\* find_surcharges: the total, each line counted as often as its quantity; express
\* says that the name of the quote's service has this word.
Surcharge(fp, express, place, lines) ==
    OrderAmount(fp, express, place, lines)
    + SumFunction([i \in DOMAIN lines |-> LineAmount(fp, place, lines[i]) * lines[i].qty])

=============================================================================

------------------------------- MODULE Rates -------------------------------
(***************************************************************************)
(* The prices the application computes itself, from rule tables in the     *)
(* database (fp_apis/built_in): for each service of a freight provider the *)
(* rules are filtered by address, size and weight, one of them is chosen   *)
(* and its cost applied.  A provider is priced service by service, and an  *)
(* exception in one of them takes the prices of all.                       *)
(* Lengths are in dm, weights in kg, volumes in litres; 0 stands for 0 and *)
(* NULL, which the code treats alike, and "" for no zone, suburb and so on.*)
(***************************************************************************)
EXTENDS Integers, Sequences, FiniteSets, FiniteSetsExt, Functions

CONSTANTS
    Jobs,        \* what may be priced: provider, client, trip, lines and rule table
    ZoneRows,    \* sequence of FP_zones: suburb, postal, state, zone and the codes of
                 \* the range from its start to its end postal code
    PartOf,      \* pairs of zones of which the first is a part of the second as a string
    Vehicles,    \* FP_vehicles: len, wid, hei and mass, by id
    SmallVehicles  \* those of Century that take no long pallet

Piece ==
    [kind : {"carton", "pallet"}, qty : Nat \ {0}, len : Nat, wid : Nat, hei : Nat, kg : Nat]
Dims == [len : Nat, wid : Nat, hei : Nat]
CostRow ==
    [uom : STRING, start : Nat, end : Nat, basic : Nat, min : Nat, per : Nat, oversize : Nat,
     factor : Nat, upTo : Dims, max : Dims, upToKg : Nat, maxKg : Nat]
AreaRow == [suburb : STRING, postal : STRING, state : STRING, zone : STRING]
RuleRow ==
    [service : STRING, from : AreaRow, to : AreaRow, bothWay : BOOLEAN, vehicle : Nat, cost : CostRow]

\* A booking has lines, and Deliver-ME's cities are the only ones.
ASSUME JobsAssumption ==
    \A j \in Jobs : /\ j.lines \in Seq(Piece) /\ j.lines # << >>
                    /\ j.table \in Seq(RuleRow)
                    /\ j.trip.to.metro \in {"", "MEL", "BNE", "ADL", "Pakenham"}

VARIABLES
    job,      \* what is priced: provider, trip, lines and the rule table
    left,     \* services still to price
    prices,   \* those priced so far
    raised    \* an exception ended the pricing

vars == <<job, left, prices, raised>>

Services(fp) ==
    CASE fp = "atc" -> <<"standard", "vip", "express">>
      [] fp = "century" -> <<"standard", "vip", "priority">>
      [] fp = "camerons" -> <<"standard", "express">>
      [] fp = "northline" -> <<"standard">>
      [] OTHER -> <<"Road Service">>

\* The rule types the providers' modules are written for.
ByVehicle == {"atc", "century"}

Table == job.table
Trip == job.trip
IsPallet(line) == line.kind = "pallet"
FirstOf(lines) == lines[Min(DOMAIN lines)]
PerPallet(cost) == cost.uom \in {"PALLET", "Pallet"}

-----------------------------------------------------------------------------
(* Measures of the lines.                                                  *)

Total(f(_), lines) == SumFunction([n \in DOMAIN lines |-> f(lines[n])])
Litres(line) == line.len * line.wid * line.hei
QtyOf(line) == line.qty
DeadOf(line) == line.qty * line.kg
Count(lines) == Total(QtyOf, lines)
Dead(lines) == Total(DeadOf, lines)

\* get_m3_to_kg_factor, for the providers that have rule tables.
Factor(fp) == IF fp \in {"northline", "sadleirs"} THEN 333 ELSE 250

Ceil(grams) == (grams + 999) \div 1000

\* Python's round(), half to even.
Round(grams) ==
    LET up == (grams + 500) \div 1000
    IN  IF grams % 1000 = 500 /\ up % 2 = 1 THEN up - 1 ELSE up

CubicGrams(lines, factor) ==
    LET grams(line) == line.qty * Litres(line) * factor IN Total(grams, lines)

\* The greater of dead and cubic weight, rounded up to kg.
ChargeableKg(lines, factor) ==
    LET cubic == Ceil(CubicGrams(lines, factor))
    IN  IF Dead(lines) > cubic THEN Dead(lines) ELSE cubic

-----------------------------------------------------------------------------
(* Addresses.                                                              *)

Meets(area, place) ==
    \A field \in {"suburb", "postal", "state"} : area[field] \in {"", place[field]}

ZonesOf(place) ==
    {ZoneRows[i].zone : i \in {j \in DOMAIN ZoneRows : Meets(place, ZoneRows[j])}}

\* The zone of the first row with the postal code; get_zone_code takes those whose range
\* holds it as well.
FirstZone(rows) == IF rows = {} THEN "" ELSE ZoneRows[Min(rows)].zone
PostalZone(place) == FirstZone({i \in DOMAIN ZoneRows : ZoneRows[i].postal = place.postal})
RangeZone(place) ==
    FirstZone({i \in DOMAIN ZoneRows : place.postal \in {ZoneRows[i].postal} \cup ZoneRows[i].range})

Rules(service) == {i \in DOMAIN Table : Table[i].service = service}

\* Without zones of the place the rule's zone is not looked at; with them it must
\* be that of the rule accepted last, too.
InZone(zone, zones, last) ==
    zone # "" /\ zones # {} => zone \in zones /\ last \in {"", zone}

\* Slip: the zones of the destination are taken for those of the pick-up.
AdmitsTo(i, last) ==
    LET r == Table[i]
    IN  /\ Meets(r.from, Trip.from) /\ Meets(r.to, Trip.to)
        /\ InZone(r.from.zone, ZonesOf(Trip.to), last.from)
        /\ InZone(r.to.zone, ZonesOf(Trip.to), last.to)

Admits(i, last) ==
    LET r == Table[i]
    IN  /\ Meets(r.from, Trip.from) /\ Meets(r.to, Trip.to)
        /\ InZone(r.from.zone, ZonesOf(Trip.from), last.from)
        /\ InZone(r.to.zone, ZonesOf(Trip.to), last.to)

\* The loop over the rules, with the zones of the rule accepted last.
Onward(ids) ==
    LET pass[n \in 0..Len(Table)] ==
            IF n = 0 THEN [from |-> "", to |-> "", ids |-> {}]
            ELSE IF n \in ids /\ Admits(n, pass[n - 1])
            THEN [from |-> Table[n].from.zone, to |-> Table[n].to.zone,
                  ids |-> pass[n - 1].ids \cup {n}]
            ELSE pass[n - 1]
    IN  pass[Len(Table)].ids

\* Rules for both ways whose areas meet the trip backwards.  With a zone such a
\* rule calls is_in_zone with an argument too few.
Backward(ids) ==
    {i \in ids : Table[i].bothWay /\ Meets(Table[i].from, Trip.to) /\ Meets(Table[i].to, Trip.from)}
Zoned(i) == Table[i].from.zone # "" \/ Table[i].to.zone # ""

ByPostalCode == {"blacks", "blenner", "bluestar", "startrack", "hi-trans"}
ZonesNeeded == {"northline", "camerons"}
Unzoned == ZonesOf(Trip.from) = {} \/ ZonesOf(Trip.to) = {}

\* address_filter raises, or returns rules.
AddressRaises(ids) ==
    /\ job.fp \notin ByPostalCode
    /\ ~(job.fp \in ZonesNeeded /\ Unzoned)
    /\ \E i \in Backward(ids) : Zoned(i)

Between(from, to, ids) ==
    {i \in ids : "" \notin {from, to} /\ Table[i].from.zone = from /\ Table[i].to.zone = to}
InPostalZones(ids) == Between(PostalZone(Trip.from), PostalZone(Trip.to), ids)

AddressFilter(ids) ==
    CASE job.fp \in ByPostalCode -> InPostalZones(ids)
      [] job.fp \in ZonesNeeded /\ Unzoned -> {}
      [] OTHER -> Onward(ids) \cup Backward(ids)

-----------------------------------------------------------------------------
(* Sizes and weights.                                                      *)

NoDims == [len |-> 0, wid |-> 0, hei |-> 0]
Within(line, dims) == line.len <= dims.len /\ line.wid <= dims.wid /\ line.hei <= dims.hei
Reaches(line, dims) == line.len >= dims.len \/ line.wid >= dims.wid \/ line.hei >= dims.hei

\* The bounds of count are exclusive, but looked at only in one spelling of the unit.
CountExceeds(cost, lines) ==
    /\ cost.uom = "PALLET"
    /\ \/ cost.start # 0 /\ cost.start >= Count(lines)
       \/ cost.end # 0 /\ cost.end <= Count(lines)

OwnDims(cost) == IF cost.upTo # NoDims THEN cost.upTo ELSE cost.max

\* find_rule_ids_by_dim: a rule without dimensions is compared with those of the
\* rule before it; the first has none to be compared with.
Compared(ids, lines) == {i \in ids : ~CountExceeds(Table[i].cost, lines)}
DimsFor(i, compared) ==
    LET given == {j \in compared : j <= i /\ OwnDims(Table[j].cost) # NoDims}
    IN  IF given = {} THEN NoDims ELSE OwnDims(Table[Max(given)].cost)

DimRaises(ids, lines) ==
    LET compared == Compared(ids, lines)
    IN  compared # {} /\ IsPallet(FirstOf(lines)) /\ DimsFor(Min(compared), compared) = NoDims

DimFilter(ids, lines) ==
    LET compared == Compared(ids, lines)
    IN  {i \in compared : \A n \in DOMAIN lines :
            IsPallet(lines[n]) /\ Within(lines[n], DimsFor(i, compared))}

\* The heaviest and the bulkiest piece, by itself.
LightEnough(cost, lines) ==
    LET cap == IF cost.upToKg # 0 THEN cost.upToKg ELSE cost.maxKg
    IN  \A n \in DOMAIN lines :
            cap >= lines[n].kg /\ 1000 * cap >= Litres(lines[n]) * Factor(job.fp)

\* find_rule_ids_by_weight.
WeightFilter(ids, lines) ==
    {i \in ids : LET cost == Table[i].cost
                 IN  /\ PerPallet(cost) => IsPallet(FirstOf(lines))
                     /\ cost.end # 0 => cost.end >= Count(lines)
                     /\ cost.start # 0 => cost.start <= Count(lines)
                     /\ LightEnough(cost, lines)}

\* An oversize price comes with the dimensions it starts at: NULL would raise here.
Oversized(cost, lines) ==
    /\ cost.oversize # 0 /\ cost.max # NoDims
    /\ \E n \in DOMAIN lines : Reaches(lines[n], cost.upTo)
Overweight(cost, lines) ==
    /\ cost.oversize # 0 /\ cost.maxKg # 0
    /\ \E n \in DOMAIN lines : DeadOf(lines[n]) >= cost.upToKg

UnitCharge(cost, lines) ==
    IF Oversized(cost, lines) \/ Overweight(cost, lines) THEN cost.oversize ELSE cost.per

\* Slip: the last rule that is not dearer than the first.
FindCostLast(ids, lines) ==
    Max({i \in ids : Table[i].cost.per <= Table[Min(ids)].cost.per})

\* find_cost: what a rule charges for this load is compared with what the best so
\* far charges for normal loads.
FindCost(ids, lines) ==
    LET pass[n \in 0..Len(Table)] ==
            IF n = 0 THEN 0
            ELSE IF n \in ids /\ (pass[n - 1] = 0
                        \/ UnitCharge(Table[n].cost, lines) < Table[pass[n - 1]].cost.per)
            THEN n ELSE pass[n - 1]
    IN  pass[Len(Table)]

-----------------------------------------------------------------------------
(* What a rule charges.                                                    *)

AtLeast(min, net) == IF net < min THEN min ELSE net

\* Slip: thirty kg are free, for heavier loads only.
FreightDeducted(cost, lines, factor) ==
    LET kg == ChargeableKg(lines, factor)
    IN  cost.basic + cost.per * (IF kg > 30 THEN kg - 30 ELSE kg)

\* Bluestar, Hi-Trans, Sadleirs, StarTrack.
Freight(cost, lines, factor) == cost.basic + cost.per * ChargeableKg(lines, factor)

\* Northline rounds the cubic weight of each line.
NorthlineNet(cost, lines) ==
    LET cubic(line) == Round(line.qty * Litres(line) * Factor("northline"))
        kg == Max({Dead(lines), Total(cubic, lines)})
    IN  AtLeast(cost.min, cost.basic + cost.per * kg)

\* _m3_to_kg, in grams: a box as long, wide and high as the largest of each.
BoxGrams(lines, factor) ==
    LET most(dim) == Max({lines[n][dim] : n \in DOMAIN lines})
    IN  most("len") * most("wid") * most("hei") * factor

\* Toll, in thousandths.  The total weight of a line (views_cron.py:378) is multiplied
\* by its quantity again.
TollNet(cost, lines) ==
    LET heavy(line) == line.qty * DeadOf(line)
        units == IF \E n \in DOMAIN lines : IsPallet(lines[n]) THEN Count(lines)
                 ELSE Total(heavy, lines)
    IN  AtLeast(1000 * cost.min,
            1000 * cost.basic + cost.per * Max({1000 * units, BoxGrams(lines, cost.factor)}))

\* VFS: cartons by the piece, pallets by weight beyond the first start_qty kg.
VfsPalletNet(cost, lines) ==
    LET net == cost.basic + cost.per * (ChargeableKg(lines, 250) - cost.start)
    IN  IF cost.min # 0 THEN AtLeast(cost.min, net) ELSE net

\* What a rule of the provider charges for all lines (without VFS).
Net(cost, lines) ==
    CASE job.fp = "northline" -> NorthlineNet(cost, lines)
      [] job.fp = "toll" -> TollNet(cost, lines)
      [] job.fp \in {"bluestar", "hi-trans", "startrack"} -> Freight(cost, lines, 250)
      [] job.fp = "sadleirs" -> Freight(cost, lines, 333)
      [] job.fp = "followmont" -> cost.basic + cost.per * Count(lines)
      [] job.fp \in ByVehicle -> cost.per
      [] OTHER -> cost.per * Count(lines)

-----------------------------------------------------------------------------
(* Deliver-ME (deliver_me.py), for bookings: in thousandths of a cent.  The *)
(* share that vehicles' names give (inv_dme_quoted) is left out.           *)

\* Pallet of type 1, of types 2 and 3, and a cubic metre: cost and sale, in cents.
Tariff(pallet, wide, cubic) == [pallet |-> pallet, wide |-> wide, cubic |-> cubic]

JasonlTariffs ==
    [MEL |-> Tariff(<<7593, 9111>>, <<11389, 13667>>, <<4237, 5058>>),
     BNE |-> Tariff(<<12074, 13494>>, <<18111, 20241>>, <<6738, 7530>>),
     ADL |-> Tariff(<<19011, 21364>>, <<28517, 32045>>, <<10609, 11922>>)]
BsdTariffs ==
    [MEL |-> Tariff(<<9659, 12500>>, <<14489, 18750>>, <<5390, 6975>>),
     BNE |-> Tariff(<<14489, 18182>>, <<21733, 27273>>, <<8085, 10146>>),
     ADL |-> Tariff(<<19011, 21727>>, <<28517, 32591>>, <<10609, 12125>>)]

AnchorTariffs ==
    [MEL |-> Tariff(<<5330, 6396>>, <<7995, 9595>>, <<2974, 3569>>),
     BNE |-> Tariff(<<9400, 10404>>, <<14100, 15606>>, <<5246, 5806>>)]

\* The city by the postal code of the delivery (Pakenham is 3800), or by the depot
\* that Anchor's goods come from.
City(client) ==
    LET metro == Trip.to.metro
    IN  CASE metro = "Pakenham" -> IF client = "BSD" THEN "" ELSE "MEL"
          [] client = "Anchor" /\ metro # "Pakenham" ->
                 IF metro = "MEL" \/ Trip.from.suburb = "dandenong south" THEN "MEL"
                 ELSE IF metro = "BNE" \/ Trip.from.suburb = "larapinta" THEN "BNE" ELSE ""
          [] OTHER -> metro

\* The fee of the final mile; nothing for Jason L's own fitters.
MileFee(client, city) ==
    CASE client = "Anchor" -> IF city = "MEL" THEN <<4000, 6500>> ELSE <<6500, 7500>>
      [] client = "JasonL" /\ Trip.fitters -> <<0, 0>>
      [] OTHER -> <<5500, 6500>>

TariffsOf(client) ==
    CASE client = "JasonL" -> JasonlTariffs [] client = "BSD" -> BsdTariffs
      [] OTHER -> AnchorTariffs

Short(line) == Min({line.len, line.wid})
Long(line) == Max({line.len, line.wid})
\* A pallet is taken to be 14 dm high at least.
Height(line) == IF IsPallet(line) /\ line.hei <= 14 THEN 14 ELSE line.hei

\* The pallets are 12, 16 and 18.5 dm long.
UnitPrice(tariff, line) ==
    CASE IsPallet(line) /\ Short(line) \in 8..12 /\ Long(line) \in 8..12 /\ Height(line) <= 14 ->
             <<1000 * tariff.pallet[1], 1000 * tariff.pallet[2]>>
      [] Short(line) <= 12 /\ Long(line) > 12 /\ 2 * Long(line) <= 37 /\ Height(line) <= 14 ->
             <<1000 * tariff.wide[1], 1000 * tariff.wide[2]>>
      [] OTHER ->
             LET litres == line.len * line.wid * Height(line)
             IN  <<tariff.cubic[1] * litres, AtLeast(1800000, tariff.cubic[2] * litres)>>

BigItem(line) == Long(line) > 12 \/ Height(line) > 14

\* A second man costs 25 and is sold for 30, for big items and at each end.
Assists(line, fee) ==
    (IF fee[1] > 0 /\ (BigItem(line) \/ Trip.deAssists) THEN 1 ELSE 0)
        + (IF Trip.puAssists THEN 1 ELSE 0)

\* Cost (k = 1) or sale (k = 2) of a line; outside the cities only assistance.
LineAmount(client, line, k) ==
    LET city == City(client)
        fee == MileFee(client, city)
        unit == IF city = "" THEN 0 ELSE UnitPrice(TariffsOf(client)[city], line)[k] + 1000 * fee[k]
    IN  line.qty * (unit + Assists(line, fee) * (IF k = 1 THEN 2500000 ELSE 3000000))

\* For another client, or for Anchor outside its cities, fm_fee_cost is not set.
LinehaulRaises(client) ==
    \/ client \notin {"JasonL", "BSD", "Anchor"}
    \/ client = "Anchor" /\ City(client) = ""

LinehaulAmount(client, lines, k) ==
    LET amount(line) == LineAmount(client, line, k) IN Total(amount, lines)

-----------------------------------------------------------------------------
(* The pricing.                                                            *)

Skip == left' = Tail(left) /\ UNCHANGED <<job, prices, raised>>
\* Slip: what the earlier services gave is kept.
RaiseLate == left' = << >> /\ raised' = TRUE /\ UNCHANGED <<job, prices>>

Raise == left' = << >> /\ prices' = << >> /\ raised' = TRUE /\ UNCHANGED job
Offer(i, net) ==
    /\ prices' = Append(prices, [service |-> Head(left), rule |-> i, net |-> net])
    /\ left' = Tail(left)
    /\ UNCHANGED <<job, raised>>

\* Prices a service of one of fps with the rules for the trip, if there are any.
\* The queries order the rules by id where the first counts.
ForAddress(fps, P(_)) ==
    /\ left # << >> /\ job.fp \in fps
    /\ LET ids == Rules(Head(left))
       IN  CASE AddressRaises(ids) -> Raise
             [] ~AddressRaises(ids) /\ AddressFilter(ids) = {} -> Skip
             [] OTHER -> P(AddressFilter(ids))

\* ATC and Century: the cheapest rule with a vehicle that takes the load.  What a
\* single piece fits into is computed here, else a packing service says it.
Fitting ==
    LET piece == job.lines[1]
    IN  {v \in DOMAIN Vehicles : Within(piece, Vehicles[v]) /\ Vehicles[v].mass >= piece.kg}
SaidToFit == IF Len(job.lines) = 1 /\ QtyOf(job.lines[1]) = 1 THEN {Fitting} ELSE SUBSET DOMAIN Vehicles

\* Century sends a long pallet with none of its small vehicles (the length is compared
\* as if it were in metres, whatever its unit).
Allowed(vehicles) ==
    IF job.fp = "century" /\ \E n \in DOMAIN job.lines : IsPallet(job.lines[n]) /\ job.lines[n].len > 12
    THEN vehicles \ SmallVehicles ELSE vehicles

CheapestOf(ids) == {i \in ids : \A j \in ids : Table[i].cost.per <= Table[j].cost.per}

VehiclePrice ==
    LET P(ids) == \E fit \in SaidToFit :
            LET usable == {i \in ids : Table[i].vehicle \in Allowed(fit)}
            IN  IF usable = {} THEN Skip
                ELSE \E i \in CheapestOf(usable) : Offer(i, Net(Table[i].cost, job.lines))
    IN  ForAddress(ByVehicle, P)

\* The band of the first rule must reach beyond the count.
OfferBand(i) ==
    IF Table[i].cost.end > Count(job.lines) THEN Offer(i, Net(Table[i].cost, job.lines)) ELSE Raise

\* Camerons and DXT: by size, then by weight.
PiecePrice ==
    LET P(ids) ==
            LET light == WeightFilter(DimFilter(ids, job.lines), job.lines)
            IN  CASE DimRaises(ids, job.lines) -> Raise
                  [] ~DimRaises(ids, job.lines) /\ light = {} -> Skip
                  [] OTHER ->
                        IF job.fp = "dxt" THEN OfferBand(Min(light))
                        ELSE LET i == FindCost(light, job.lines)
                             IN  Offer(i, Net(Table[i].cost, job.lines))
    IN  \/ ~Trip.residential /\ ForAddress({"camerons"}, P)
        \/ ForAddress({"dxt"}, P)

\* Camerons does not deliver to homes.
NoHomes ==
    /\ left # << >> /\ job.fp = "camerons" /\ Trip.residential
    /\ left' = << >> /\ UNCHANGED <<job, prices, raised>>

NorthlinePrice ==
    LET P(ids) ==
            LET light == WeightFilter(ids, job.lines)
            IN  IF light = {} THEN Skip
                ELSE Offer(Min(light), Net(Table[Min(light)].cost, job.lines))
    IN  ForAddress({"northline"}, P)

\* Blacks, Blenner, StarTrack, Followmont: the first rule for the addresses.
FirstRulePrice ==
    LET P(ids) == Offer(Min(ids), Net(Table[Min(ids)].cost, job.lines))
    IN  ForAddress({"blacks", "blenner", "startrack", "followmont"}, P)

BandPrice ==
    LET P(ids) == OfferBand(Min(ids)) IN ForAddress({"bluestar", "hi-trans", "sadleirs"}, P)

Has(kind) == \E n \in DOMAIN job.lines : job.lines[n].kind = kind

\* Toll: the first rule for cartons or pallets, whichever the load has; a zone matches
\* if its name is a part of the address's.
TollPrice ==
    LET from == PostalZone(Trip.from)
        to == PostalZone(Trip.to)
        matches(zone, of) == zone = of \/ <<zone, of>> \in PartOf
        ids == {i \in Rules(Head(left)) :
                    /\ \/ Has("carton") /\ Table[i].cost.uom = "Kilogram"
                       \/ Has("pallet") /\ Table[i].cost.uom = "Pallet"
                    /\ matches(Table[i].from.zone, from) /\ matches(Table[i].to.zone, to)}
    IN  /\ left # << >> /\ job.fp = "toll"
        /\ CASE "" \in {from, to} -> Raise
             [] "" \notin {from, to} /\ ids = {} -> Skip
             [] OTHER -> Offer(Min(ids), Net(Table[Min(ids)].cost, job.lines))

\* VFS: cartons first, then pallets with the rules that are left.
VfsPrice ==
    LET from == RangeZone(Trip.from)
        to == RangeZone(Trip.to)
        of(kind) == Restrict(job.lines, {n \in DOMAIN job.lines : job.lines[n].kind = kind})
        cartons == of("carton")
        pallets == of("pallet")
        zoned == Between(from, to, Rules(Head(left)))
        light == IF Has("carton") THEN WeightFilter(zoned, cartons) ELSE zoned
        sized == DimFilter(light, pallets)
        fit == WeightFilter(sized, pallets)
        cartonNet == IF Has("carton") THEN Table[Min(light)].cost.per * Count(cartons) ELSE 0
    IN  /\ left # << >> /\ job.fp = "vfs"
        /\ CASE "" \in {from, to} -> Raise
             [] "" \notin {from, to} /\ Has("carton") /\ light = {} -> Skip
             [] OTHER ->
                   IF ~Has("pallet") THEN Offer(Min(light), cartonNet)
                   ELSE IF DimRaises(light, pallets) THEN Raise
                   ELSE IF sized = {} THEN Skip
                   ELSE IF fit = {} THEN Raise
                   ELSE LET i == FindCost(fit, pallets)
                        IN  Offer(i, cartonNet + VfsPalletNet(Table[i].cost, pallets))

LinehaulPrice ==
    /\ left # << >> /\ job.fp = "deliver-me"
    /\ IF LinehaulRaises(job.client) THEN Raise
       ELSE Offer(0, LinehaulAmount(job.client, job.lines, 2))

Init ==
    /\ job \in Jobs
    /\ left = Services(job.fp) /\ prices = << >> /\ raised = FALSE

Next ==
    \/ VehiclePrice \/ PiecePrice \/ NoHomes \/ NorthlinePrice \/ FirstRulePrice
    \/ BandPrice \/ TollPrice \/ VfsPrice \/ LinehaulPrice

Spec == Init /\ [][Next]_vars

-----------------------------------------------------------------------------
(* Properties.                                                             *)

PriceOK(p) ==
    /\ p.service \in Range(Services(job.fp)) /\ p.net \in Nat
    /\ IF job.fp = "deliver-me" THEN p.rule = 0 ELSE p.rule \in Rules(p.service)

\* A price is by a rule of its own service, no service is priced twice, and after an
\* exception there are none.
TypeOK ==
    /\ raised \in BOOLEAN
    /\ \A n \in DOMAIN prices : PriceOK(prices[n])
    /\ \A m, n \in DOMAIN prices : prices[m].service = prices[n].service => m = n
    /\ raised => prices = << >>

\* A rule is for the trip, or for the way back: its suburbs, postal codes and states
\* are those of the trip, and so are its zones as far as the provider has zones there.
Serves(r) ==
    LET onward(zone, place) == zone # "" /\ ZonesOf(place) # {} => zone \in ZonesOf(place)
    IN  \/ /\ Meets(r.from, Trip.from) /\ Meets(r.to, Trip.to)
           /\ onward(r.from.zone, Trip.from) /\ onward(r.to.zone, Trip.to)
        \/ /\ r.bothWay /\ r.from.zone = "" /\ r.to.zone = ""
           /\ Meets(r.from, Trip.to) /\ Meets(r.to, Trip.from)

\* Whatever filters a provider's module combines, and in whichever order it meets the
\* rules: the rule that prices a service is one for the trip.
ServesTrip ==
    job.fp \notin ByPostalCode \cup {"toll", "vfs", "deliver-me"} =>
        \A n \in DOMAIN prices : Serves(Table[prices[n].rule])

\* For a load that no rule charges its oversize price for, Camerons offers the cheapest
\* rule that carries it.
CheapestTaken ==
    job.fp = "camerons" =>
        \A n \in DOMAIN prices :
            LET ids == AddressFilter(Rules(prices[n].service))
                fit == WeightFilter(DimFilter(ids, job.lines), job.lines)
            IN  (\A i \in fit : UnitCharge(Table[i].cost, job.lines) = Table[i].cost.per) =>
                    \A i \in fit : prices[n].net <= Net(Table[i].cost, job.lines)

\* One more piece of a line never lowers what the same rule charges.
More(lines, m) == [lines EXCEPT ![m].qty = @ + 1]
MoreNotCheaper ==
    job.fp \notin {"vfs", "deliver-me"} =>
        \A n \in DOMAIN prices, m \in DOMAIN job.lines :
            Net(Table[prices[n].rule].cost, More(job.lines, m)) >= prices[n].net

=============================================================================

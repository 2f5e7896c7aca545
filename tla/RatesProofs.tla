----------------------------- MODULE RatesProofs -----------------------------
(***************************************************************************)
(* The built-in price tables for every job, every rule table and every     *)
(* order of its rules: the rule that prices a service is one for the trip, *)
(* no rule charges less for more pieces, Camerons takes the cheapest rule, *)
(* and a price is never below nothing.                                     *)
(***************************************************************************)
EXTENDS Rates, Aggregates

-----------------------------------------------------------------------------
(* Measures.                                                               *)

\* A load: what is priced together, by its positions.
Lot(lines) ==
    /\ DOMAIN lines \in SUBSET Nat /\ IsFiniteSet(DOMAIN lines) /\ DOMAIN lines # {}
    /\ \A n \in DOMAIN lines : lines[n] \in Piece

\* The same line, of as many pieces or more.
AsMany(x, y) ==
    /\ x \in Piece /\ y \in Piece /\ x.qty <= y.qty
    /\ x.kind = y.kind /\ x.len = y.len /\ x.wid = y.wid /\ x.hei = y.hei /\ x.kg = y.kg

Bigger(lines, more) ==
    /\ Lot(lines) /\ Lot(more) /\ DOMAIN lines = DOMAIN more
    /\ \A n \in DOMAIN lines : AsMany(lines[n], more[n])

\* More of the same line are as large each, and weigh no less together.
LEMMA PieceGrows ==
    ASSUME NEW x, NEW y, AsMany(x, y)
    PROVE  /\ x.qty \in Nat /\ y.qty \in Nat /\ x.qty <= y.qty /\ x.kg \in Nat /\ y.kg = x.kg
           /\ Litres(x) \in Nat /\ Litres(y) = Litres(x)
           /\ DeadOf(x) \in Nat /\ DeadOf(y) \in Nat /\ DeadOf(x) <= DeadOf(y)
<1>1. /\ x.qty \in Nat /\ y.qty \in Nat /\ x.qty <= y.qty /\ x.kg \in Nat /\ y.kg = x.kg
      /\ x.len \in Nat /\ x.wid \in Nat /\ x.hei \in Nat
      /\ y.len = x.len /\ y.wid = x.wid /\ y.hei = x.hei
  BY DEF AsMany, Piece
<1>2. x.len * x.wid \in Nat
  BY <1>1
<1>3. Litres(x) \in Nat
  BY <1>1, <1>2 DEF Litres
<1>4. Litres(y) = Litres(x)
  BY <1>1 DEF Litres
<1>5. DeadOf(x) \in Nat /\ DeadOf(y) \in Nat /\ DeadOf(x) <= DeadOf(y)
  BY <1>1, ProductGrows DEF DeadOf
<1> QED
  BY <1>1, <1>3, <1>4, <1>5

\* What is added up over lines grows with them.
LEMMA CountGrows ==
    ASSUME NEW lines, NEW more, Bigger(lines, more)
    PROVE  Count(lines) \in Nat /\ Count(more) \in Nat /\ Count(lines) <= Count(more)
<1> DEFINE D == DOMAIN lines
           f == [n \in D |-> lines[n].qty]
           g == [n \in D |-> more[n].qty]
<1>1. IsFiniteSet(D) /\ f \in [D -> Nat] /\ g \in [D -> Nat] /\ \A n \in D : f[n] <= g[n]
  BY PieceGrows DEF Bigger, Lot
<1>2. Count(lines) = SumFunction(f) /\ Count(more) = SumFunction(g)
  BY DEF Count, Total, QtyOf, Bigger
<1> HIDE DEF D, f, g
<1> QED
  BY <1>1, <1>2, SumsGrow

LEMMA DeadGrows ==
    ASSUME NEW lines, NEW more, Bigger(lines, more)
    PROVE  Dead(lines) \in Nat /\ Dead(more) \in Nat /\ Dead(lines) <= Dead(more)
<1> DEFINE D == DOMAIN lines
           f == [n \in D |-> DeadOf(lines[n])]
           g == [n \in D |-> DeadOf(more[n])]
<1>1. IsFiniteSet(D) /\ f \in [D -> Nat] /\ g \in [D -> Nat] /\ \A n \in D : f[n] <= g[n]
  BY PieceGrows DEF Bigger, Lot
<1>2. Dead(lines) = SumFunction(f) /\ Dead(more) = SumFunction(g)
  BY DEF Dead, Total, Bigger
<1> HIDE DEF D, f, g
<1> QED
  BY <1>1, <1>2, SumsGrow

\* The volume of a line, and that of all of them.
LEMMA LineCubicGrows ==
    ASSUME NEW x, NEW y, AsMany(x, y), NEW factor \in Nat
    PROVE  /\ x.qty * Litres(x) * factor \in Nat /\ y.qty * Litres(y) * factor \in Nat
           /\ x.qty * Litres(x) * factor <= y.qty * Litres(y) * factor
<1> DEFINE a == x.qty * Litres(x)
           b == y.qty * Litres(y)
<1>1. a \in Nat /\ b \in Nat /\ a <= b
  BY PieceGrows, ProductGrows
<1> HIDE DEF a, b
<1>2. a * factor \in Nat /\ b * factor \in Nat /\ a * factor <= b * factor
  BY <1>1, ProductGrows
<1> QED
  BY <1>2 DEF a, b

LEMMA CubicGrows ==
    ASSUME NEW lines, NEW more, Bigger(lines, more), NEW factor \in Nat
    PROVE  /\ CubicGrams(lines, factor) \in Nat /\ CubicGrams(more, factor) \in Nat
           /\ CubicGrams(lines, factor) <= CubicGrams(more, factor)
<1> DEFINE D == DOMAIN lines
           f == [n \in D |-> lines[n].qty * Litres(lines[n]) * factor]
           g == [n \in D |-> more[n].qty * Litres(more[n]) * factor]
<1>1. IsFiniteSet(D) /\ f \in [D -> Nat] /\ g \in [D -> Nat] /\ \A n \in D : f[n] <= g[n]
  BY LineCubicGrows DEF Bigger, Lot
<1>2. CubicGrams(lines, factor) = SumFunction(f) /\ CubicGrams(more, factor) = SumFunction(g)
  BY DEF CubicGrams, Total, Bigger
<1> HIDE DEF D, f, g
<1> QED
  BY <1>1, <1>2, SumsGrow

\* Neither way of rounding grams to kilograms turns an order around, half to even least of all.
LEMMA RoundingGrows ==
    ASSUME NEW a \in Nat, NEW b \in Nat, a <= b
    PROVE  /\ Ceil(a) \in Nat /\ Ceil(b) \in Nat /\ Ceil(a) <= Ceil(b)
           /\ Round(a) \in Nat /\ Round(b) \in Nat /\ Round(a) <= Round(b)
<1>1. Ceil(a) \in Nat /\ Ceil(b) \in Nat /\ Ceil(a) <= Ceil(b)
  BY DEF Ceil
<1> DEFINE p == (a + 500) \div 1000
           q == (b + 500) \div 1000
<1>2. p \in Nat /\ q \in Nat /\ p <= q
  OBVIOUS
<1>3. /\ 1000 * p <= a + 500 /\ a + 500 < 1000 * p + 1000
      /\ 1000 * q <= b + 500 /\ b + 500 < 1000 * q + 1000
  OBVIOUS
<1>4. /\ a % 1000 = 500 => a + 500 = 1000 * p
      /\ b % 1000 = 500 => b + 500 = 1000 * q
  OBVIOUS
<1>5. /\ Round(a) = IF a % 1000 = 500 /\ p % 2 = 1 THEN p - 1 ELSE p
      /\ Round(b) = IF b % 1000 = 500 /\ q % 2 = 1 THEN q - 1 ELSE q
  BY DEF Round
<1> HIDE DEF p, q
<1>6. p % 2 = 1 => p >= 1
  BY <1>2
<1>7. q % 2 = 1 => q >= 1
  BY <1>2
<1>8. p = q /\ b % 1000 = 500 => a = b
  BY <1>3, <1>4
<1>9. Round(a) \in Nat /\ Round(b) \in Nat
  BY <1>2, <1>5, <1>6, <1>7
<1>10. Round(a) <= Round(b)
  <2>1. CASE p = q
    BY <1>2, <1>5, <1>8, <2>1
  <2>2. CASE p # q
    BY <1>2, <1>5, <2>2
  <2> QED
    BY <2>1, <2>2
<1> QED
  BY <1>1, <1>9, <1>10

\* What is charged by weight grows too, and is no less than the dead weight.
LEMMA ChargeableGrows ==
    ASSUME NEW lines, NEW more, Bigger(lines, more), NEW factor \in Nat
    PROVE  /\ ChargeableKg(lines, factor) \in Nat /\ ChargeableKg(more, factor) \in Nat
           /\ ChargeableKg(lines, factor) <= ChargeableKg(more, factor)
           /\ Dead(lines) <= ChargeableKg(lines, factor)
<1>1. /\ Ceil(CubicGrams(lines, factor)) \in Nat /\ Ceil(CubicGrams(more, factor)) \in Nat
      /\ Ceil(CubicGrams(lines, factor)) <= Ceil(CubicGrams(more, factor))
  BY CubicGrows, RoundingGrows
<1> QED
  BY <1>1, DeadGrows DEF ChargeableKg

-----------------------------------------------------------------------------
(* What a rule charges.                                                    *)

LEMMA AtLeastType ==
    /\ \A a, b \in Nat : AtLeast(a, b) \in Nat
    /\ \A a \in Nat, b \in Int : AtLeast(a, b) \in Int
  BY DEF AtLeast

LEMMA AtLeastGrows ==
    ASSUME NEW min \in Nat, NEW a \in Nat, NEW b \in Nat, a <= b
    PROVE  AtLeast(min, a) \in Nat /\ AtLeast(min, b) \in Nat /\ AtLeast(min, a) <= AtLeast(min, b)
  BY DEF AtLeast

\* A charge by the unit grows with the units.
LEMMA ByUnitGrows ==
    ASSUME NEW base \in Nat, NEW per \in Nat, NEW a \in Nat, NEW b \in Nat, a <= b
    PROVE  /\ base + per * a \in Nat /\ base + per * b \in Nat
           /\ base + per * a <= base + per * b
<1>1. per * a \in Nat /\ per * b \in Nat /\ per * a <= per * b
  BY ProductGrows
<1> QED
  BY <1>1

LEMMA CostFields ==
    ASSUME NEW cost \in CostRow
    PROVE  /\ cost.start \in Nat /\ cost.end \in Nat /\ cost.basic \in Nat /\ cost.min \in Nat
           /\ cost.per \in Nat /\ cost.factor \in Nat
  BY DEF CostRow

LEMMA FactorNat == \A fp : Factor(fp) \in Nat
  BY DEF Factor

\* By the chargeable weight, whatever the factor.
LEMMA FreightGrows ==
    ASSUME NEW lines, NEW more, Bigger(lines, more), NEW cost \in CostRow, NEW factor \in Nat
    PROVE  /\ Freight(cost, lines, factor) \in Nat
           /\ Freight(cost, lines, factor) <= Freight(cost, more, factor)
<1>1. /\ ChargeableKg(lines, factor) \in Nat /\ ChargeableKg(more, factor) \in Nat
      /\ ChargeableKg(lines, factor) <= ChargeableKg(more, factor)
  BY ChargeableGrows
<1> QED
  BY <1>1, CostFields, ByUnitGrows DEF Freight

\* By the greater of the dead weight and of the cubic weights, rounded line by line.
LEMMA NorthlineGrows ==
    ASSUME NEW lines, NEW more, Bigger(lines, more), NEW cost \in CostRow
    PROVE  NorthlineNet(cost, lines) \in Nat /\ NorthlineNet(cost, lines) <= NorthlineNet(cost, more)
<1> DEFINE D == DOMAIN lines
           k == Factor("northline")
           f == [n \in D |-> Round(lines[n].qty * Litres(lines[n]) * k)]
           g == [n \in D |-> Round(more[n].qty * Litres(more[n]) * k)]
<1>1. IsFiniteSet(D) /\ f \in [D -> Nat] /\ g \in [D -> Nat] /\ \A n \in D : f[n] <= g[n]
  <2>1. IsFiniteSet(D) /\ k \in Nat
    BY FactorNat DEF Bigger, Lot
  <2>2. ASSUME NEW n \in D
        PROVE  f[n] \in Nat /\ g[n] \in Nat /\ f[n] <= g[n]
    <3> DEFINE a == lines[n].qty * Litres(lines[n]) * k
               b == more[n].qty * Litres(more[n]) * k
    <3>1. AsMany(lines[n], more[n])
      BY DEF Bigger
    <3> HIDE DEF k
    <3>2. a \in Nat /\ b \in Nat /\ a <= b
      BY <2>1, <3>1, LineCubicGrows
    <3>3. f[n] = Round(a) /\ g[n] = Round(b)
      OBVIOUS
    <3> HIDE DEF a, b, f, g
    <3> QED
      BY <3>2, <3>3, RoundingGrows
  <2> QED
    BY <2>1, <2>2
<1> DEFINE m == SumFunction(f)
           n == SumFunction(g)
           x == Max({Dead(lines), m})
           y == Max({Dead(more), n})
<1>2. m \in Nat /\ n \in Nat /\ m <= n
  <2> HIDE DEF D, f, g
  <2> QED
    BY <1>1, SumsGrow
<1>3. /\ NorthlineNet(cost, lines) = AtLeast(cost.min, cost.basic + cost.per * x)
      /\ NorthlineNet(cost, more) = AtLeast(cost.min, cost.basic + cost.per * y)
  BY DEF NorthlineNet, Total, Bigger
<1> HIDE DEF m, n
<1>4. x \in Nat /\ y \in Nat /\ x <= y
  BY <1>2, DeadGrows, MaxOfTwo
<1> HIDE DEF x, y
<1>5. /\ cost.basic + cost.per * x \in Nat /\ cost.basic + cost.per * y \in Nat
      /\ cost.basic + cost.per * x <= cost.basic + cost.per * y
  BY <1>4, CostFields, ByUnitGrows
<1> DEFINE p == cost.basic + cost.per * x
           q == cost.basic + cost.per * y
<1> HIDE DEF p, q
<1>6. p \in Nat /\ q \in Nat /\ p <= q /\ cost.min \in Nat
  BY <1>5, CostFields DEF p, q
<1>7. AtLeast(cost.min, p) \in Nat /\ AtLeast(cost.min, p) <= AtLeast(cost.min, q)
  BY <1>6, AtLeastGrows
<1> QED
  BY <1>3, <1>7 DEF p, q

\* The box around a load stays the same when there are more pieces.
LEMMA BoxStays ==
    ASSUME NEW lines, NEW more, Bigger(lines, more), NEW factor \in Nat
    PROVE  BoxGrams(lines, factor) \in Nat /\ BoxGrams(more, factor) = BoxGrams(lines, factor)
<1> DEFINE D == DOMAIN lines
           len == [n \in D |-> lines[n].len]
           wid == [n \in D |-> lines[n].wid]
           hei == [n \in D |-> lines[n].hei]
           a == Max({len[n] : n \in D})
           b == Max({wid[n] : n \in D})
           c == Max({hei[n] : n \in D})
<1>1. IsFiniteSet(D) /\ D # {} /\ len \in [D -> Nat] /\ wid \in [D -> Nat] /\ hei \in [D -> Nat]
  BY DEF Bigger, Lot, Piece
<1>2. BoxGrams(lines, factor) = a * b * c * factor
  BY DEF BoxGrams
<1>3. BoxGrams(more, factor) = a * b * c * factor
  <2>1. \A n \in D : more[n].len = len[n] /\ more[n].wid = wid[n] /\ more[n].hei = hei[n]
    BY DEF Bigger, AsMany
  <2>2. DOMAIN more = D
    BY DEF Bigger
  <2> DEFINE la == {more[n].len : n \in D}
             lb == {more[n].wid : n \in D}
             lc == {more[n].hei : n \in D}
  <2>3. BoxGrams(more, factor) = Max(la) * Max(lb) * Max(lc) * factor
    BY <2>2 DEF BoxGrams
  <2>4. la = {len[n] : n \in D} /\ lb = {wid[n] : n \in D} /\ lc = {hei[n] : n \in D}
    BY <2>1
  <2> HIDE DEF la, lb, lc, len, wid, hei
  <2> QED
    BY <2>3, <2>4
<1>4. ASSUME NEW f \in [D -> Nat] PROVE Max({f[n] : n \in D}) \in Nat
  <2> DEFINE S == {f[n] : n \in D}
  <2> HIDE DEF D
  <2>1. S \in SUBSET Nat /\ S # {} /\ IsFiniteSet(S)
    BY <1>1, ValuesFinite
  <2> HIDE DEF S
  <2>2. S \in SUBSET Int
    BY <2>1
  <2>3. Max(S) \in S
    BY <2>1, <2>2, MaxOf
  <2> QED
    BY <2>1, <2>3 DEF S
<1> HIDE DEF D, len, wid, hei
<1>5. a \in Nat /\ b \in Nat /\ c \in Nat
  BY <1>1, <1>4
<1> HIDE DEF a, b, c
<1>6. a * b \in Nat
  BY <1>5
<1> DEFINE d == a * b
<1> HIDE DEF d
<1>7. d * c \in Nat
  BY <1>5, <1>6 DEF d
<1> DEFINE e == d * c
<1> HIDE DEF e
<1>8. e * factor \in Nat
  BY <1>7 DEF e
<1> QED
  BY <1>2, <1>3, <1>8 DEF d, e

\* By the greater of the units and of the box around the load.
LEMMA TollGrows ==
    ASSUME NEW lines, NEW more, Bigger(lines, more), NEW cost \in CostRow
    PROVE  TollNet(cost, lines) \in Nat /\ TollNet(cost, lines) <= TollNet(cost, more)
<1> DEFINE D == DOMAIN lines
           f == [n \in D |-> lines[n].qty * DeadOf(lines[n])]
           g == [n \in D |-> more[n].qty * DeadOf(more[n])]
           boxed == \E n \in D : IsPallet(lines[n])
           u == IF boxed THEN Count(lines) ELSE SumFunction(f)
           v == IF boxed THEN Count(more) ELSE SumFunction(g)
           box == BoxGrams(lines, cost.factor)
           x == Max({1000 * u, box})
           y == Max({1000 * v, box})
<1>1. IsFiniteSet(D) /\ f \in [D -> Nat] /\ g \in [D -> Nat] /\ \A n \in D : f[n] <= g[n]
  <2>1. ASSUME NEW n \in D PROVE f[n] \in Nat /\ g[n] \in Nat /\ f[n] <= g[n]
    <3>1. AsMany(lines[n], more[n])
      BY DEF Bigger
    <3> QED
      BY <3>1, PieceGrows, ProductGrows
  <2> QED
    BY <2>1 DEF Bigger, Lot
<1>2. SumFunction(f) \in Nat /\ SumFunction(g) \in Nat /\ SumFunction(f) <= SumFunction(g)
  <2> HIDE DEF D, f, g
  <2> QED
    BY <1>1, SumsGrow
<1>3. box \in Nat /\ BoxGrams(more, cost.factor) = box
  BY BoxStays, CostFields
<1>4. TollNet(cost, lines) = AtLeast(1000 * cost.min, 1000 * cost.basic + cost.per * x)
  BY DEF TollNet, Total
<1>5. TollNet(cost, more) = AtLeast(1000 * cost.min, 1000 * cost.basic + cost.per * y)
  <2> DEFINE crate == \E n \in D : IsPallet(more[n])
             w == IF crate THEN Count(more) ELSE SumFunction(g)
             bx == BoxGrams(more, cost.factor)
  <2>1. DOMAIN more = D
    BY DEF Bigger
  <2>2. crate <=> boxed
    BY DEF Bigger, AsMany, IsPallet
  <2>3. TollNet(cost, more) = AtLeast(1000 * cost.min, 1000 * cost.basic + cost.per * Max({1000 * w, bx}))
    BY <2>1 DEF TollNet, Total
  <2>4. w = v
    <3> HIDE DEF crate, boxed, g
    <3> QED
      BY <2>2
  <2> HIDE DEF w, v, bx, box
  <2> QED
    BY <1>3, <2>3, <2>4 DEF bx
<1> HIDE DEF f, g, boxed, box
<1>6. u \in Nat /\ v \in Nat /\ u <= v
  BY <1>2, CountGrows
<1> HIDE DEF u, v
<1>7. x \in Nat /\ y \in Nat /\ x <= y
  <2>1. 1000 * u \in Nat /\ 1000 * v \in Nat /\ 1000 * u <= 1000 * v
    BY <1>6
  <2> DEFINE r == 1000 * u
             s == 1000 * v
  <2> HIDE DEF r, s
  <2>2. Max({r, box}) = (IF r >= box THEN r ELSE box) /\ Max({s, box}) = (IF s >= box THEN s ELSE box)
    BY <1>3, <2>1, MaxOfTwo DEF r, s
  <2> QED
    BY <1>3, <2>1, <2>2 DEF r, s
<1> HIDE DEF x, y
<1> DEFINE base == 1000 * cost.basic
           least == 1000 * cost.min
           p == base + cost.per * x
           q == base + cost.per * y
<1>8. base \in Nat /\ least \in Nat
  BY CostFields
<1> HIDE DEF base, least
<1>9. p \in Nat /\ q \in Nat /\ p <= q
  BY <1>7, <1>8, CostFields, ByUnitGrows
<1> HIDE DEF p, q
<1>10. AtLeast(least, p) \in Nat /\ AtLeast(least, p) <= AtLeast(least, q)
  BY <1>8, <1>9, AtLeastGrows
<1> QED
  BY <1>4, <1>5, <1>10 DEF base, least, p, q

\* One rule charges no less for more pieces, whichever provider's it is.
LEMMA NetGrows ==
    ASSUME NEW lines, NEW more, Bigger(lines, more), NEW cost \in CostRow
    PROVE  Net(cost, lines) \in Nat /\ Net(cost, lines) <= Net(cost, more)
<1>1. /\ NorthlineNet(cost, lines) \in Nat /\ NorthlineNet(cost, lines) <= NorthlineNet(cost, more)
      /\ TollNet(cost, lines) \in Nat /\ TollNet(cost, lines) <= TollNet(cost, more)
  BY NorthlineGrows, TollGrows
<1>2. /\ Freight(cost, lines, 250) \in Nat /\ Freight(cost, lines, 250) <= Freight(cost, more, 250)
      /\ Freight(cost, lines, 333) \in Nat /\ Freight(cost, lines, 333) <= Freight(cost, more, 333)
  BY FreightGrows
<1>3. cost.basic \in Nat /\ cost.per \in Nat
  BY CostFields
<1>4. /\ cost.basic + cost.per * Count(lines) \in Nat
      /\ cost.basic + cost.per * Count(lines) <= cost.basic + cost.per * Count(more)
      /\ cost.per * Count(lines) \in Nat /\ cost.per * Count(lines) <= cost.per * Count(more)
  BY <1>3, CountGrows, ByUnitGrows, ProductGrows
<1>5. CASE job.fp = "northline"
  <2>1. Net(cost, lines) = NorthlineNet(cost, lines) /\ Net(cost, more) = NorthlineNet(cost, more)
    BY <1>5 DEF Net, ByVehicle
  <2> QED
    BY <1>1, <2>1
<1>6. CASE job.fp = "toll"
  <2>1. Net(cost, lines) = TollNet(cost, lines) /\ Net(cost, more) = TollNet(cost, more)
    BY <1>6 DEF Net, ByVehicle
  <2> QED
    BY <1>1, <2>1
<1>7. CASE job.fp \in {"bluestar", "hi-trans", "startrack"}
  <2>1. Net(cost, lines) = Freight(cost, lines, 250) /\ Net(cost, more) = Freight(cost, more, 250)
    BY <1>7 DEF Net, ByVehicle
  <2> QED
    BY <1>2, <2>1
<1>8. CASE job.fp = "sadleirs"
  <2>1. Net(cost, lines) = Freight(cost, lines, 333) /\ Net(cost, more) = Freight(cost, more, 333)
    BY <1>8 DEF Net, ByVehicle
  <2> QED
    BY <1>2, <2>1
<1>9. CASE job.fp = "followmont"
  BY <1>4, <1>9 DEF Net, ByVehicle
<1>10. CASE job.fp \in ByVehicle
  <2>1. Net(cost, lines) = cost.per /\ Net(cost, more) = cost.per
    BY <1>10 DEF Net, ByVehicle
  <2> QED
    BY <1>3, <2>1
<1>11. CASE job.fp \notin {"northline", "toll", "bluestar", "hi-trans", "startrack", "sadleirs", "followmont"}
                          \cup ByVehicle
  <2>1. Net(cost, lines) = cost.per * Count(lines) /\ Net(cost, more) = cost.per * Count(more)
    BY <1>11 DEF Net
  <2> QED
    BY <1>4, <2>1
<1> QED
  BY <1>5, <1>6, <1>7, <1>8, <1>9, <1>10, <1>11

-----------------------------------------------------------------------------
(* The cheapest rule.                                                      *)

\* The best rule of the first n, or 0.
Fits(N, ids, charge, per, g) ==
    g = [n \in 0..N |->
            IF n = 0 THEN 0
            ELSE IF n \in ids /\ (g[n - 1] = 0 \/ charge[n] < per[g[n - 1]]) THEN n ELSE g[n - 1]]

\* There is a function as find_cost's loop computes it, rule by rule.
LEMMA BestExists ==
    ASSUME NEW N \in Nat, NEW ids, NEW charge, NEW per
    PROVE  \E g : Fits(N, ids, charge, per, g)
<1> DEFINE op == [n \in 1..N |-> [w \in 0..N |->
                    IF n \in ids /\ (w = 0 \/ charge[n] < per[w]) THEN n ELSE w]]
<1>1. \A n \in 1..N : \A w \in 0..N :
          op[n][w] = IF n \in ids /\ (w = 0 \/ charge[n] < per[w]) THEN n ELSE w
  OBVIOUS
<1>2. op \in [1..N -> [0..N -> 0..N]]
  OBVIOUS
<1> HIDE DEF op
<1>3. PICK g : Steps(N, 0, op, g)
  BY StepsExist
<1>4. \A n \in 0..N : g[n] \in 0..N
  <2> DEFINE W == 0..N
  <2>1. op \in [1..N -> [W -> W]] /\ 0 \in W
    BY <1>2
  <2> HIDE DEF W
  <2>2. \A n \in 0..N : g[n] \in W
    BY <1>3, <2>1, StepsType
  <2> QED
    BY <2>2 DEF W
<1>5. g = [n \in 0..N |-> g[n]] /\ \A n \in 0..N : g[n] = IF n = 0 THEN 0 ELSE op[n][g[n - 1]]
  BY <1>3 DEF Steps
<1>6. ASSUME NEW n \in 0..N
      PROVE  g[n] = IF n = 0 THEN 0
                    ELSE IF n \in ids /\ (g[n - 1] = 0 \/ charge[n] < per[g[n - 1]]) THEN n ELSE g[n - 1]
  <2>1. CASE n = 0
    BY <1>5, <2>1
  <2>2. CASE n # 0
    <3>1. n \in 1..N /\ n - 1 \in 0..N
      BY <2>2
    <3>2. g[n - 1] \in 0..N
      BY <1>4, <3>1
    <3> QED
      BY <1>1, <1>5, <2>2, <3>1, <3>2
  <2> QED
    BY <2>1, <2>2
<1> QED
  BY <1>5, <1>6 DEF Fits

\* It ends at one of the rules and, if each charges its normal price, at the cheapest.
LEMMA BestIs ==
    ASSUME NEW N \in Nat, NEW ids \in SUBSET (1..N), ids # {},
           NEW charge, NEW per, \A n \in 1..N : charge[n] \in Nat /\ per[n] \in Nat,
           NEW g, Fits(N, ids, charge, per, g)
    PROVE  /\ g[N] \in ids
           /\ (\A i \in ids : charge[i] = per[i]) => \A i \in ids : per[g[N]] <= per[i]
<1> DEFINE Normal == \A i \in ids : charge[i] = per[i]
           Fine(n) == /\ g[n] \in 0..n
                      /\ g[n] = 0 => \A i \in 1..n : i \notin ids
                      /\ g[n] # 0 => g[n] \in ids
                      /\ Normal => \A i \in ids : i <= n => per[g[n]] <= per[i]
           P == {n \in 0..N : Fine(n)}
<1>1. \A n \in 0..N : g[n] = IF n = 0 THEN 0
                    ELSE IF n \in ids /\ (g[n - 1] = 0 \/ charge[n] < per[g[n - 1]]) THEN n ELSE g[n - 1]
  BY DEF Fits
<1>2. 0 \in P
  <2>1. g[0] = 0 /\ 0 \in 0..N
    BY <1>1
  <2> QED
    BY <2>1
<1>3. ASSUME NEW n \in 1..N, n - 1 \in P PROVE n \in P
  <2> HIDE DEF Normal
  <2>1. n - 1 \in 0..N /\ n \in 0..N /\ n # 0 /\ Fine(n - 1)
    BY <1>3
  <2> DEFINE w == g[n - 1]
  <2>2. g[n] = IF n \in ids /\ (w = 0 \/ charge[n] < per[w]) THEN n ELSE w
    BY <1>1, <2>1
  <2>3. /\ w \in 0..(n - 1) /\ (w = 0 => \A i \in 1..(n - 1) : i \notin ids) /\ (w # 0 => w \in ids)
        /\ Normal => \A i \in ids : i <= n - 1 => per[w] <= per[i]
    BY <2>1
  <2> HIDE DEF w, P
  <2>4. w # 0 => w \in 1..N
    BY <2>3
  <2>5. \A i \in ids : i \in 1..N /\ (i <= n => i <= n - 1 \/ i = n)
    OBVIOUS
  <2>6. CASE n \in ids /\ (w = 0 \/ charge[n] < per[w])
    <3>1. g[n] = n
      BY <2>2, <2>6
    <3>2. Normal => \A i \in ids : i <= n => per[n] <= per[i]
      <4>1. SUFFICES ASSUME Normal, NEW i \in ids, i <= n PROVE per[n] <= per[i]
        OBVIOUS
      <4>2. CASE i = n
        BY <4>2
      <4>3. CASE i <= n - 1
        <5>1. i \in 1..(n - 1)
          BY <4>3, <2>5
        <5>2. w # 0 /\ charge[n] < per[w]
          BY <2>3, <2>6, <5>1
        <5>3. charge[n] = per[n] /\ per[w] <= per[i]
          BY <2>3, <2>6, <4>1, <4>3 DEF Normal
        <5> QED
          BY <2>4, <2>5, <5>2, <5>3
      <4> QED
        BY <2>5, <4>1, <4>2, <4>3
    <3> QED
      BY <2>1, <2>6, <3>1, <3>2 DEF P
  <2>7. CASE ~(n \in ids /\ (w = 0 \/ charge[n] < per[w]))
    <3>1. g[n] = w
      BY <2>2, <2>7
    <3>2. Normal => \A i \in ids : i <= n => per[w] <= per[i]
      <4>1. SUFFICES ASSUME Normal, NEW i \in ids, i <= n PROVE per[w] <= per[i]
        OBVIOUS
      <4>2. CASE i = n
        <5>1. w # 0 /\ ~(charge[n] < per[w]) /\ charge[n] = per[n]
          BY <2>7, <4>1, <4>2 DEF Normal
        <5> QED
          BY <2>4, <2>5, <4>2, <5>1
      <4>3. CASE i <= n - 1
        BY <2>3, <4>1, <4>3
      <4> QED
        BY <2>5, <4>1, <4>2, <4>3
    <3>3. w = 0 => \A i \in 1..n : i \notin ids
      BY <2>3, <2>7
    <3>4. w \in 0..n
      BY <2>3
    <3> QED
      BY <2>1, <2>3, <3>1, <3>2, <3>3, <3>4 DEF P
  <2> QED
    BY <2>6, <2>7
<1> HIDE DEF P
<1>4. 0..N \in SUBSET P
  BY <1>2, <1>3, StepsHold
<1>5. N \in 0..N
  OBVIOUS
<1>6. Fine(N)
  BY <1>4, <1>5 DEF P
<1>7. PICK i \in ids : i \in 1..N
  OBVIOUS
<1> QED
  BY <1>6, <1>7

-----------------------------------------------------------------------------
(* The rule tables.                                                        *)

\* Rules are positions in the table.
LEMMA TableShape ==
    ASSUME job \in Jobs
    PROVE  /\ Len(Table) \in Nat
           /\ \A i \in 1..Len(Table) : Table[i] \in RuleRow /\ Table[i].cost \in CostRow
           /\ \A s : Rules(s) \in SUBSET (1..Len(Table))
<1>1. Table \in Seq(RuleRow)
  BY JobsAssumption DEF Table
<1>2. Len(Table) \in Nat /\ DOMAIN Table = 1..Len(Table)
  BY <1>1
<1>3. \A i \in 1..Len(Table) : Table[i] \in RuleRow
  BY <1>1
<1>4. \A i \in 1..Len(Table) : Table[i].cost \in CostRow
  BY <1>3 DEF RuleRow
<1> QED
  BY <1>2, <1>3, <1>4 DEF Rules

LEMMA ChargesNat ==
    ASSUME NEW cost \in CostRow, NEW lines
    PROVE  UnitCharge(cost, lines) \in Nat /\ cost.per \in Nat
  BY DEF UnitCharge, CostRow

\* The rule that find_cost finds.
LEMMA FoundIs ==
    ASSUME job \in Jobs, NEW lines, NEW ids \in SUBSET (1..Len(Table)), ids # {}
    PROVE  /\ FindCost(ids, lines) \in ids
           /\ (\A i \in ids : UnitCharge(Table[i].cost, lines) = Table[i].cost.per) =>
                  \A i \in ids : Table[FindCost(ids, lines)].cost.per <= Table[i].cost.per
<1> DEFINE N == Len(Table)
           charge == [n \in 1..N |-> UnitCharge(Table[n].cost, lines)]
           per == [n \in 1..N |-> Table[n].cost.per]
           Body(g) == g = [n \in 0..Len(Table) |->
                IF n = 0 THEN 0
                ELSE IF n \in ids /\ (g[n - 1] = 0
                            \/ UnitCharge(Table[n].cost, lines) < Table[g[n - 1]].cost.per)
                THEN n ELSE g[n - 1]]
           g0 == CHOOSE g : Body(g)
<1>1. FindCost(ids, lines) = g0[N]
  BY DEF FindCost
<1>2. N \in Nat /\ \A n \in 1..N : charge[n] \in Nat /\ per[n] \in Nat
  BY TableShape, ChargesNat
<1>3. \A n \in 1..N : charge[n] = UnitCharge(Table[n].cost, lines) /\ per[n] = Table[n].cost.per
  OBVIOUS
<1>4. ASSUME NEW g, \A n \in 0..N : g[n] \in 0..N
      PROVE  Fits(N, ids, charge, per, g) <=> Body(g)
  <2> HIDE DEF charge, per
  <2> DEFINE A(n) == IF n = 0 THEN 0
                     ELSE IF n \in ids /\ (g[n - 1] = 0 \/ charge[n] < per[g[n - 1]]) THEN n ELSE g[n - 1]
             B(n) == IF n = 0 THEN 0
                     ELSE IF n \in ids /\ (g[n - 1] = 0
                            \/ UnitCharge(Table[n].cost, lines) < Table[g[n - 1]].cost.per)
                     THEN n ELSE g[n - 1]
  <2>1. ASSUME NEW n \in 0..N PROVE A(n) = B(n)
    <3>1. CASE n = 0
      BY <3>1
    <3>2. CASE n # 0 /\ g[n - 1] = 0
      BY <3>2
    <3>3. CASE n # 0 /\ g[n - 1] # 0
      <4>1. n \in 1..N /\ n - 1 \in 0..N
        BY <1>2, <3>3
      <4>2. g[n - 1] \in 1..N
        BY <1>2, <1>4, <3>3, <4>1
      <4> QED
        BY <1>3, <3>3, <4>1, <4>2
    <3> QED
      BY <3>1, <3>2, <3>3
  <2>2. [n \in 0..N |-> A(n)] = [n \in 0..N |-> B(n)]
    BY <2>1, Zenon
  <2>3. Fits(N, ids, charge, per, g) <=> g = [n \in 0..N |-> A(n)]
    BY Zenon DEF Fits
  <2>4. Body(g) <=> g = [n \in 0..N |-> B(n)]
    OBVIOUS
  <2> HIDE DEF A, B, Body
  <2> QED
    BY <2>2, <2>3, <2>4
<1> HIDE DEF charge, per
<1>5. ASSUME NEW g, Body(g) \/ Fits(N, ids, charge, per, g) PROVE \A n \in 0..N : g[n] \in 0..N
  <2> DEFINE P == {n \in 0..N : g[n] \in 0..N}
  <2>1. g[0] = 0 /\ \A n \in 1..N : g[n] = n \/ g[n] = g[n - 1]
    <3>1. 0 \in 0..N /\ \A n \in 1..N : n \in 0..N /\ n # 0
      BY <1>2
    <3> QED
      BY <1>5, <3>1 DEF Fits
  <2>2. 0 \in P /\ \A n \in 1..N : n - 1 \in P => n \in P
    BY <1>2, <2>1
  <2> HIDE DEF P
  <2>3. 0..N \in SUBSET P
    BY <1>2, <2>2, StepsHold
  <2> QED
    BY <2>3 DEF P
<1> HIDE DEF Body
<1>6. \E g : Fits(N, ids, charge, per, g)
  BY <1>2, BestExists
<1>7. \E g : Body(g)
  BY <1>4, <1>5, <1>6
<1>8. Body(g0)
  BY <1>7, Zenon
<1> HIDE DEF g0
<1>9. Fits(N, ids, charge, per, g0)
  BY <1>4, <1>5, <1>8
<1>10. /\ g0[N] \in ids
       /\ (\A i \in ids : charge[i] = per[i]) => \A i \in ids : per[g0[N]] <= per[i]
  <2> DEFINE M == N
  <2> HIDE DEF N
  <2> QED
    BY <1>2, <1>9, BestIs DEF N
<1> QED
  BY <1>1, <1>3, <1>10

\* A rule that the loop accepts on its way.
ForTrip(i) ==
    LET onward(zone, place) == zone # "" /\ ZonesOf(place) # {} => zone \in ZonesOf(place)
        r == Table[i]
    IN  /\ Meets(r.from, Trip.from) /\ Meets(r.to, Trip.to)
        /\ onward(r.from.zone, Trip.from) /\ onward(r.to.zone, Trip.to)

\* The loop keeps only such rules, whichever zones it remembers on its way: rules it
\* accepts are of the type of what it has so far.
LEMMA OnwardForTrip ==
    ASSUME job \in Jobs, NEW ids
    PROVE  Onward(ids) \in SUBSET {i \in ids : ForTrip(i)}
<1> DEFINE N == Len(Table)
           good == {i \in ids : ForTrip(i)}
           Z == {""} \cup {Table[n].from.zone : n \in 1..N} \cup {Table[n].to.zone : n \in 1..N}
           W == [from : Z, to : Z, ids : SUBSET good]
           a == [from |-> "", to |-> "", ids |-> {}]
           Accept(n, w) == IF n \in ids /\ Admits(n, w)
                          THEN [from |-> Table[n].from.zone, to |-> Table[n].to.zone,
                                ids |-> w.ids \cup {n}]
                          ELSE w
           Body(g) == g = [n \in 0..Len(Table) |->
                IF n = 0 THEN [from |-> "", to |-> "", ids |-> {}]
                ELSE IF n \in ids /\ Admits(n, g[n - 1])
                THEN [from |-> Table[n].from.zone, to |-> Table[n].to.zone,
                      ids |-> g[n - 1].ids \cup {n}]
                ELSE g[n - 1]]
           g0 == CHOOSE g : Body(g)
           op == [n \in 1..N |-> [w \in W |-> Accept(n, w)]]
<1>1. Onward(ids) = g0[N].ids
  BY DEF Onward
<1>2. N \in Nat /\ \A n \in 1..N : Table[n].from.zone \in Z /\ Table[n].to.zone \in Z
  BY TableShape
<1>3. ASSUME NEW n \in 1..N, NEW w \in W PROVE Accept(n, w) \in W
  <2>1. CASE n \in ids /\ Admits(n, w)
    <3>1. n \in good
      BY <2>1 DEF ForTrip, Admits, InZone
    <3> HIDE DEF good, Z
    <3> QED
      BY <1>2, <2>1, <3>1
  <2>2. CASE ~(n \in ids /\ Admits(n, w))
    BY <2>2
  <2> QED
    BY <2>1, <2>2
<1>4. a \in W
  <2>1. {} \in SUBSET good
    OBVIOUS
  <2>2. "" \in Z
    OBVIOUS
  <2> HIDE DEF good, Z
  <2> QED
    BY <2>1, <2>2
<1> HIDE DEF W, Z, good
<1>5. op \in [1..N -> [W -> W]] /\ \A n \in 1..N : \A w \in W : op[n][w] = Accept(n, w)
  BY <1>3
<1> HIDE DEF op
<1>6. PICK h : Steps(N, a, op, h)
  BY <1>2, StepsExist
<1>7. \A n \in 0..N : h[n] \in W
  <2> HIDE DEF a, N
  <2> QED
    BY <1>2, <1>4, <1>5, <1>6, StepsType
<1>8. Body(h)
  <2>1. h = [n \in 0..N |-> h[n]] /\ \A n \in 0..N : h[n] = IF n = 0 THEN a ELSE op[n][h[n - 1]]
    BY <1>6 DEF Steps
  <2>2. \A n \in 0..N : h[n] = IF n = 0 THEN a ELSE Accept(n, h[n - 1])
    <3>1. ASSUME NEW n \in 0..N, n # 0 PROVE op[n][h[n - 1]] = Accept(n, h[n - 1])
      <4>1. n \in 1..N /\ n - 1 \in 0..N
        BY <1>2, <3>1
      <4> QED
        BY <1>5, <1>7, <4>1
    <3> QED
      BY <2>1, <3>1
  <2>3. h = [n \in 0..N |-> IF n = 0 THEN a ELSE Accept(n, h[n - 1])]
    BY <2>1, <2>2
  <2> QED
    BY <2>3
<1>9. Body(g0)
  <2> HIDE DEF Body
  <2> QED
    BY <1>8, Zenon
<1> HIDE DEF g0
<1>10. \A n \in 0..N : g0[n] = IF n = 0 THEN a ELSE Accept(n, g0[n - 1])
  BY <1>9
<1> HIDE DEF a, Accept
<1> DEFINE P == {n \in 0..N : g0[n] \in W}
<1>11. 0 \in P
  BY <1>2, <1>4, <1>10
<1>12. ASSUME NEW n \in 1..N, n - 1 \in P PROVE n \in P
  <2>1. n \in 0..N /\ n # 0 /\ g0[n - 1] \in W
    BY <1>2, <1>12
  <2>2. g0[n] = Accept(n, g0[n - 1])
    BY <1>10, <2>1
  <2> QED
    BY <1>3, <2>1, <2>2
<1>13. N \in P
  <2> HIDE DEF P, N
  <2>1. 0..N \in SUBSET P
    BY <1>2, <1>11, <1>12, StepsHold
  <2>2. N \in 0..N
    BY <1>2
  <2> QED
    BY <2>1, <2>2
<1>14. g0[N].ids \in SUBSET good
  BY <1>13 DEF W
<1> QED
  BY <1>1, <1>14 DEF good

-----------------------------------------------------------------------------
(* What the filters leave.                                                 *)

LEMMA FirstRule ==
    ASSUME job \in Jobs, NEW ids \in SUBSET (1..Len(Table)), ids # {}
    PROVE  Min(ids) \in ids
<1>1. IsFiniteSet(1..Len(Table))
  BY TableShape, FS_Interval
<1>2. ids \in SUBSET Int /\ IsFiniteSet(ids)
  <2> DEFINE N == 1..Len(Table)
  <2>1. N \in SUBSET Int
    BY TableShape
  <2> HIDE DEF N
  <2>2. ids \in SUBSET N /\ IsFiniteSet(N)
    BY <1>1 DEF N
  <2> QED
    BY <2>1, <2>2, FS_Subset
<1> QED
  BY <1>2, MinOf

\* A filter only takes rules away.
LEMMA FiltersNarrow ==
    ASSUME job \in Jobs, NEW ids
    PROVE  /\ AddressFilter(ids) \in SUBSET ids
           /\ \A from, to : Between(from, to, ids) \in SUBSET ids
           /\ \A lines : DimFilter(ids, lines) \in SUBSET ids /\ WeightFilter(ids, lines) \in SUBSET ids
<1>0. \A from, to : Between(from, to, ids) \in SUBSET ids
  BY DEF Between
<1>1. InPostalZones(ids) \in SUBSET ids /\ Backward(ids) \in SUBSET ids
  BY <1>0 DEF InPostalZones, Backward
<1>2. Onward(ids) \in SUBSET ids
  BY OnwardForTrip
<1>3. AddressFilter(ids) \in SUBSET ids
  BY <1>1, <1>2 DEF AddressFilter
<1>4. \A lines : DimFilter(ids, lines) \in SUBSET ids /\ WeightFilter(ids, lines) \in SUBSET ids
  BY DEF DimFilter, Compared, WeightFilter
<1> QED
  BY <1>0, <1>3, <1>4

\* What camerons' filters leave of the rules of a service.
Fit(s) == WeightFilter(DimFilter(AddressFilter(Rules(s)), job.lines), job.lines)

\* VFS prices no weightless piece.  Of a pallet that weighs less than its rule starts at
\* the weight beyond is negative (vfs.py), and so may be the price.
Weighty == \A j \in Jobs : j.fp = "vfs" => \A n \in DOMAIN j.lines : j.lines[n].kg # 0

\* How the price of a service came about.
Priced(s, i, net) ==
    /\ net \in Int /\ (Weighty => net \in Nat)
    /\ job.fp = "deliver-me" => i = 0
    /\ job.fp # "deliver-me" => i \in Rules(s)
    /\ job.fp \notin ByPostalCode \cup {"toll", "vfs", "deliver-me"} =>
           i \in AddressFilter(Rules(s)) /\ ~AddressRaises(Rules(s))
    /\ job.fp \notin {"vfs", "deliver-me"} => net = Net(Table[i].cost, job.lines)
    /\ job.fp = "camerons" => Fit(s) # {} /\ i = FindCost(Fit(s), job.lines)

Offered == \E i, net : Priced(Head(left), i, net) /\ Offer(i, net)
Passes == Skip \/ (left' = << >> /\ UNCHANGED <<job, prices, raised>>)

\* The rules of the service that is priced, as filtered for the trip.
LEMMA RulesForTrip ==
    ASSUME job \in Jobs, NEW ids, ids = AddressFilter(Rules(Head(left))), ids # {}
    PROVE  /\ ids \in SUBSET Rules(Head(left)) /\ Min(ids) \in ids
           /\ \A S : S \in SUBSET ids /\ S # {} => Min(S) \in S
           /\ WeightFilter(ids, job.lines) \in SUBSET ids
           /\ WeightFilter(DimFilter(ids, job.lines), job.lines) \in SUBSET ids
<1>1. Rules(Head(left)) \in SUBSET (1..Len(Table))
  BY TableShape
<1>2. ids \in SUBSET Rules(Head(left))
  BY FiltersNarrow
<1>3. \A S : S \in SUBSET ids /\ S # {} => Min(S) \in S
  <2> DEFINE N == 1..Len(Table)
  <2> HIDE DEF N
  <2>1. \A S : S \in SUBSET ids => S \in SUBSET N
    BY <1>1, <1>2 DEF N
  <2> QED
    BY <2>1, FirstRule DEF N
<1>4. WeightFilter(ids, job.lines) \in SUBSET ids
  BY FiltersNarrow
<1>5. DimFilter(ids, job.lines) \in SUBSET ids
  BY FiltersNarrow
<1>6. WeightFilter(DimFilter(ids, job.lines), job.lines) \in SUBSET DimFilter(ids, job.lines)
  BY FiltersNarrow
<1> QED
  BY <1>2, <1>3, <1>4, <1>5, <1>6

\* A booking's lines are a load.
LEMMA LinesShape ==
    ASSUME job \in Jobs
    PROVE  Lot(job.lines) /\ Bigger(job.lines, job.lines)
<1>1. job.lines \in Seq(Piece) /\ job.lines # << >>
  BY JobsAssumption
<1>2. DOMAIN job.lines = 1..Len(job.lines) /\ Len(job.lines) \in Nat /\ Len(job.lines) # 0
  BY <1>1
<1>3. IsFiniteSet(1..Len(job.lines)) /\ 1 \in 1..Len(job.lines)
  BY <1>2, FS_Interval
<1>4. \A n \in 1..Len(job.lines) : job.lines[n] \in Piece
  BY <1>1
<1>5. Lot(job.lines)
  BY <1>2, <1>3, <1>4 DEF Lot
<1>6. \A x \in Piece : AsMany(x, x)
  BY DEF AsMany, Piece
<1> QED
  BY <1>5, <1>6 DEF Bigger, Lot

LEMMA NetIsNat ==
    ASSUME job \in Jobs, NEW s, NEW i \in Rules(s)
    PROVE  Net(Table[i].cost, job.lines) \in Nat
<1>1. Table[i].cost \in CostRow
  BY TableShape
<1> QED
  BY <1>1, LinesShape, NetGrows

\* A rule whose cost is applied to all lines: there is nothing more to its price.
LEMMA NetPriced ==
    ASSUME job \in Jobs, NEW i \in Rules(Head(left)), job.fp \notin {"camerons", "vfs", "deliver-me"},
           job.fp # "toll" => /\ i \in AddressFilter(Rules(Head(left)))
                              /\ ~AddressRaises(Rules(Head(left)))
    PROVE  Priced(Head(left), i, Net(Table[i].cost, job.lines))
<1> DEFINE net == Net(Table[i].cost, job.lines)
<1>1. net \in Nat
  BY NetIsNat
<1> HIDE DEF net
<1>2. net \in Int
  BY <1>1
<1>3. net = Net(Table[i].cost, job.lines)
  BY DEF net
<1>4. Priced(Head(left), i, net)
  BY <1>1, <1>2, <1>3 DEF Priced
<1> QED
  BY <1>4 DEF net

\* A step of each provider raises, passes the service over or offers a price that came
\* about as Priced says.
LEMMA FirstRulePriceStep ==
    ASSUME job \in Jobs, FirstRulePrice
    PROVE  Raise \/ Passes \/ Offered
<1> DEFINE s == Head(left)
           ids == AddressFilter(Rules(s))
           net == Net(Table[Min(ids)].cost, job.lines)
<1>1. /\ job.fp \in {"blacks", "blenner", "startrack", "followmont"}
      /\ \/ AddressRaises(Rules(s)) /\ Raise
         \/ ids = {} /\ Skip
         \/ ~AddressRaises(Rules(s)) /\ ids # {} /\ Offer(Min(ids), net)
  BY DEF FirstRulePrice, ForAddress
<1>2. ASSUME ~AddressRaises(Rules(s)), ids # {}, Offer(Min(ids), net)
      PROVE  Offered
  <2>1. Min(ids) \in ids /\ ids \in SUBSET Rules(s)
    BY <1>2, RulesForTrip
  <2>2. Priced(s, Min(ids), net)
    BY <1>1, <1>2, <2>1, NetPriced
  <2> HIDE DEF net
  <2> QED
    BY <1>2, <2>2 DEF Offered
<1> HIDE DEF ids, net
<1> QED
  BY <1>1, <1>2 DEF Passes

\* A band's price is for a rule of the trip, too.
LEMMA OfferBandStep ==
    ASSUME job \in Jobs, NEW i \in AddressFilter(Rules(Head(left))), ~AddressRaises(Rules(Head(left))),
           job.fp \notin {"camerons", "vfs", "deliver-me"}, OfferBand(i)
    PROVE  Raise \/ Offered
<1>1. i \in Rules(Head(left))
  BY FiltersNarrow
<1>2. Raise \/ Offer(i, Net(Table[i].cost, job.lines))
  BY DEF OfferBand
<1>3. Priced(Head(left), i, Net(Table[i].cost, job.lines))
  BY <1>1, NetPriced
<1> QED
  BY <1>2, <1>3 DEF Offered

LEMMA BandPriceStep ==
    ASSUME job \in Jobs, BandPrice
    PROVE  Raise \/ Passes \/ Offered
<1> DEFINE s == Head(left)
           ids == AddressFilter(Rules(s))
<1>1. /\ job.fp \in {"bluestar", "hi-trans", "sadleirs"}
      /\ \/ AddressRaises(Rules(s)) /\ Raise
         \/ ids = {} /\ Skip
         \/ ~AddressRaises(Rules(s)) /\ ids # {} /\ OfferBand(Min(ids))
  BY DEF BandPrice, ForAddress
<1>2. ASSUME ~AddressRaises(Rules(s)), ids # {}, OfferBand(Min(ids))
      PROVE  Raise \/ Offered
  <2>1. Min(ids) \in ids
    BY <1>2, RulesForTrip
  <2> QED
    BY <1>1, <1>2, <2>1, OfferBandStep
<1> HIDE DEF ids
<1> QED
  BY <1>1, <1>2 DEF Passes

LEMMA NorthlinePriceStep ==
    ASSUME job \in Jobs, NorthlinePrice
    PROVE  Raise \/ Passes \/ Offered
<1> DEFINE s == Head(left)
           ids == AddressFilter(Rules(s))
           light == WeightFilter(ids, job.lines)
           net == Net(Table[Min(light)].cost, job.lines)
<1>1. /\ job.fp = "northline"
      /\ \/ AddressRaises(Rules(s)) /\ Raise
         \/ ids = {} /\ Skip
         \/ /\ ~AddressRaises(Rules(s)) /\ ids # {}
            /\ (light = {} /\ Skip) \/ (light # {} /\ Offer(Min(light), net))
  BY DEF NorthlinePrice, ForAddress
<1>2. ASSUME ~AddressRaises(Rules(s)), ids # {}, light # {}, Offer(Min(light), net)
      PROVE  Offered
  <2>1. /\ light \in SUBSET ids /\ ids \in SUBSET Rules(s)
        /\ \A S : S \in SUBSET ids /\ S # {} => Min(S) \in S
    BY <1>2, RulesForTrip
  <2>2. Min(light) \in ids
    <3> HIDE DEF light, ids
    <3> QED
      BY <1>2, <2>1
  <2>3. Priced(s, Min(light), net)
    BY <1>1, <1>2, <2>1, <2>2, NetPriced
  <2> HIDE DEF net
  <2> QED
    BY <1>2, <2>3 DEF Offered
<1> HIDE DEF ids, net, light
<1> QED
  BY <1>1, <1>2 DEF Passes

LEMMA VehiclePriceStep ==
    ASSUME job \in Jobs, VehiclePrice
    PROVE  Raise \/ Passes \/ Offered
<1> DEFINE s == Head(left)
           ids == AddressFilter(Rules(s))
           usable(fit) == {i \in ids : Table[i].vehicle \in Allowed(fit)}
           net(i) == Net(Table[i].cost, job.lines)
<1>1. /\ job.fp \in ByVehicle
      /\ \/ AddressRaises(Rules(s)) /\ Raise
         \/ ids = {} /\ Skip
         \/ /\ ~AddressRaises(Rules(s)) /\ ids # {}
            /\ \E fit \in SaidToFit :
                  \/ usable(fit) = {} /\ Skip
                  \/ \E i \in CheapestOf(usable(fit)) : Offer(i, net(i))
  BY DEF VehiclePrice, ForAddress
<1>2. ASSUME ~AddressRaises(Rules(s)), ids # {}, NEW fit, NEW i \in CheapestOf(usable(fit)),
             Offer(i, net(i))
      PROVE  Offered
  <2>1. i \in ids
    BY DEF CheapestOf
  <2>2. ids \in SUBSET Rules(s)
    BY <1>2, RulesForTrip
  <2>3. Priced(s, i, net(i))
    BY <1>1, <1>2, <2>1, <2>2, NetPriced DEF ByVehicle
  <2> QED
    BY <1>2, <2>3 DEF Offered
<1> HIDE DEF ids, net, usable
<1> QED
  BY <1>1, <1>2 DEF Passes

LEMMA TollPriceStep ==
    ASSUME job \in Jobs, TollPrice
    PROVE  Raise \/ Passes \/ Offered
<1> DEFINE s == Head(left)
           net(i) == Net(Table[i].cost, job.lines)
<1>1. job.fp = "toll" /\ \E ids \in SUBSET Rules(s) :
         Raise \/ Skip \/ (ids # {} /\ Offer(Min(ids), net(Min(ids))))
  BY DEF TollPrice
<1>2. ASSUME NEW ids \in SUBSET Rules(s), ids # {}, Offer(Min(ids), net(Min(ids)))
      PROVE  Offered
  <2>1. Rules(s) \in SUBSET (1..Len(Table))
    BY TableShape
  <2>2. Min(ids) \in ids
    BY <1>2, <2>1, FirstRule
  <2>3. Priced(s, Min(ids), net(Min(ids)))
    BY <1>1, <2>2, NetPriced
  <2> QED
    BY <1>2, <2>3 DEF Offered
<1> HIDE DEF net
<1> QED
  BY <1>1, <1>2 DEF Passes

LEMMA PiecePriceStep ==
    ASSUME job \in Jobs, PiecePrice
    PROVE  Raise \/ Passes \/ Offered
<1> DEFINE s == Head(left)
           ids == AddressFilter(Rules(s))
           light == WeightFilter(DimFilter(ids, job.lines), job.lines)
           found == FindCost(light, job.lines)
           net == Net(Table[found].cost, job.lines)
<1>1. /\ job.fp \in {"camerons", "dxt"}
      /\ \/ AddressRaises(Rules(s)) /\ Raise
         \/ ids = {} /\ Skip
         \/ /\ ~AddressRaises(Rules(s)) /\ ids # {}
            /\ \/ Raise
               \/ light = {} /\ Skip
               \/ light # {} /\ job.fp = "dxt" /\ OfferBand(Min(light))
               \/ light # {} /\ job.fp = "camerons" /\ Offer(found, net)
  BY DEF PiecePrice, ForAddress
<1>2. ASSUME ~AddressRaises(Rules(s)), ids # {}, light # {}
      PROVE  /\ light \in SUBSET ids /\ ids \in SUBSET Rules(s) /\ Min(light) \in ids
             /\ Rules(s) \in SUBSET (1..Len(Table))
  <2>1. /\ light \in SUBSET ids /\ ids \in SUBSET Rules(s)
        /\ \A S : S \in SUBSET ids /\ S # {} => Min(S) \in S
    BY <1>2, RulesForTrip
  <2>2. Rules(s) \in SUBSET (1..Len(Table))
    BY TableShape
  <2> HIDE DEF light, ids
  <2> QED
    BY <1>2, <2>1, <2>2
<1>3. ASSUME ~AddressRaises(Rules(s)), ids # {}, light # {}, job.fp = "dxt", OfferBand(Min(light))
      PROVE  Raise \/ Offered
  BY <1>2, <1>3, OfferBandStep
<1>4. ASSUME ~AddressRaises(Rules(s)), ids # {}, light # {}, job.fp = "camerons", Offer(found, net)
      PROVE  Offered
  <2>1. light \in SUBSET ids /\ ids \in SUBSET Rules(s) /\ Rules(s) \in SUBSET (1..Len(Table))
    BY <1>2, <1>4
  <2>2. light \in SUBSET (1..Len(Table))
    <3> HIDE DEF light, ids
    <3> QED
      BY <2>1
  <2>3. found \in light
    <3> HIDE DEF light
    <3> QED
      BY <1>4, <2>2, FoundIs
  <2>4. found \in Rules(s) /\ found \in ids
    <3> HIDE DEF light, ids, found
    <3> QED
      BY <2>1, <2>3
  <2>5. net \in Nat
    BY <2>4, NetIsNat
  <2>6. found = FindCost(Fit(s), job.lines) /\ Fit(s) # {}
    BY <1>4 DEF Fit
  <2>7. net = Net(Table[found].cost, job.lines)
    OBVIOUS
  <2> HIDE DEF net, found
  <2>8. net \in Int
    BY <2>5
  <2>9. Priced(s, found, net)
    BY <1>4, <2>4, <2>5, <2>6, <2>7, <2>8 DEF Priced
  <2> QED
    BY <1>4, <2>9 DEF Offered
<1> HIDE DEF ids, light, found, net
<1> QED
  BY <1>1, <1>3, <1>4 DEF Passes

-----------------------------------------------------------------------------
(* VFS: cartons by the piece, pallets by weight.                           *)

OfKind(kind) == {n \in DOMAIN job.lines : job.lines[n].kind = kind}

LEMMA PartOfLoad ==
    ASSUME job \in Jobs, NEW S \in SUBSET DOMAIN job.lines, S # {}
    PROVE  /\ DOMAIN Restrict(job.lines, S) = S
           /\ \A n \in S : Restrict(job.lines, S)[n] = job.lines[n]
           /\ Bigger(Restrict(job.lines, S), Restrict(job.lines, S))
<1> DEFINE part == Restrict(job.lines, S)
<1>1. DOMAIN part = S /\ \A n \in S : part[n] = job.lines[n]
  BY DEF Restrict
<1>2. Lot(job.lines) /\ Bigger(job.lines, job.lines)
  BY LinesShape
<1>3. IsFiniteSet(S)
  BY <1>2, FS_Subset DEF Lot
<1>4. S \in SUBSET Nat
  BY <1>2 DEF Lot
<1> HIDE DEF part
<1>5. Lot(part)
  BY <1>1, <1>2, <1>3, <1>4 DEF Lot
<1>6. Bigger(part, part)
  BY <1>1, <1>2, <1>5 DEF Bigger
<1> QED
  BY <1>1, <1>6 DEF part

\* The weight beyond the start quantity is no less than 0: a rule that fits starts at
\* no more than the count, and a piece weighs a kilogram.
LEMMA PalletNet ==
    ASSUME NEW lines, Bigger(lines, lines), NEW cost \in CostRow
    PROVE  /\ VfsPalletNet(cost, lines) \in Int
           /\ /\ cost.start # 0 => cost.start <= Count(lines)
              /\ \A n \in DOMAIN lines : lines[n].kg # 0
              => VfsPalletNet(cost, lines) \in Nat
<1> DEFINE kg == ChargeableKg(lines, 250)
<1>1. kg \in Nat /\ Dead(lines) <= kg /\ Dead(lines) \in Nat /\ Count(lines) \in Nat
  BY ChargeableGrows, DeadGrows, CountGrows
<1> HIDE DEF kg
<1>2. cost.basic \in Nat /\ cost.per \in Nat /\ cost.start \in Nat /\ cost.min \in Nat
  BY CostFields
<1> DEFINE beyond == kg - cost.start
           net == cost.basic + cost.per * beyond
<1>3. VfsPalletNet(cost, lines) = IF cost.min # 0 THEN AtLeast(cost.min, net) ELSE net
  BY DEF VfsPalletNet, kg
<1>4. beyond \in Int
  BY <1>1, <1>2
<1>5. cost.per * beyond \in Int
  <2> HIDE DEF beyond
  <2> QED
    BY <1>2, <1>4, IntProduct
<1>6. net \in Int
  <2> DEFINE q == cost.per * beyond
  <2> HIDE DEF beyond, q
  <2>1. cost.basic + q \in Int
    BY <1>2, <1>5 DEF q
  <2> QED
    BY <2>1 DEF q
<1>7. ASSUME cost.start # 0 => cost.start <= Count(lines),
             \A n \in DOMAIN lines : lines[n].kg # 0
      PROVE  net \in Nat
  <2>1. Count(lines) <= Dead(lines)
    <3> DEFINE D == DOMAIN lines
               f == [n \in D |-> lines[n].qty]
               g == [n \in D |-> DeadOf(lines[n])]
    <3>1. ASSUME NEW n \in D
          PROVE  f[n] \in Nat /\ g[n] \in Nat /\ f[n] <= g[n]
      <4>1. lines[n].qty \in Nat /\ lines[n].kg \in Nat /\ 1 <= lines[n].kg
        BY <1>7, PieceGrows DEF Bigger
      <4> DEFINE q == lines[n].qty
                 w == lines[n].kg
      <4> HIDE DEF q, w
      <4>2. q * 1 <= q * w /\ q * w \in Nat
        BY <4>1, ProductGrows DEF q, w
      <4>3. q <= q * w
        BY <4>1, <4>2 DEF q
      <4> QED
        BY <4>1, <4>2, <4>3 DEF q, w, DeadOf
    <3>2. IsFiniteSet(D) /\ f \in [D -> Nat] /\ g \in [D -> Nat] /\ \A n \in D : f[n] <= g[n]
      BY <3>1 DEF Bigger, Lot
    <3>3. Count(lines) = SumFunction(f) /\ Dead(lines) = SumFunction(g)
      BY DEF Count, Dead, Total, QtyOf
    <3> HIDE DEF D, f, g
    <3> QED
      BY <3>2, <3>3, SumsGrow
  <2>2. beyond \in Nat
    BY <1>1, <1>2, <1>7, <2>1
  <2>3. cost.per * beyond \in Nat
    <3> HIDE DEF beyond
    <3> QED
      BY <1>2, <2>2, NatProduct
  <2> DEFINE q == cost.per * beyond
  <2> HIDE DEF beyond, q
  <2>4. cost.basic + q \in Nat
    BY <1>2, <2>3 DEF q
  <2> QED
    BY <2>4 DEF q
<1> HIDE DEF net
<1> QED
  BY <1>2, <1>3, <1>6, <1>7, AtLeastType

\* Cartons by rules that carry them, and pallets by those of them that carry these.
LEMMA VfsPriceStep ==
    ASSUME job \in Jobs, VfsPrice
    PROVE  Raise \/ Passes \/ Offered
<1> DEFINE s == Head(left)
           cartons == Restrict(job.lines, OfKind("carton"))
           pallets == Restrict(job.lines, OfKind("pallet"))
           zoned == Between(RangeZone(Trip.from), RangeZone(Trip.to), Rules(s))
           light == IF Has("carton") THEN WeightFilter(zoned, cartons) ELSE zoned
           sized == DimFilter(light, pallets)
           fit == WeightFilter(sized, pallets)
           cartonNet == IF Has("carton") THEN Table[Min(light)].cost.per * Count(cartons) ELSE 0
           found == FindCost(fit, pallets)
           net == cartonNet + VfsPalletNet(Table[found].cost, pallets)
<1>1. /\ job.fp = "vfs"
      /\ \/ Raise
         \/ Skip
         \/ /\ Has("carton") => light # {}
            /\ \/ ~Has("pallet") /\ Offer(Min(light), cartonNet)
               \/ Has("pallet") /\ fit # {} /\ Offer(found, net)
  BY DEF VfsPrice, OfKind
<1>2. /\ Rules(s) \in SUBSET (1..Len(Table)) /\ zoned \in SUBSET Rules(s)
      /\ \A i \in 1..Len(Table) : Table[i].cost \in CostRow
  BY TableShape, FiltersNarrow
<1>3. light \in SUBSET Rules(s) /\ light \in SUBSET (1..Len(Table))
  <2>1. WeightFilter(zoned, cartons) \in SUBSET zoned
    BY FiltersNarrow
  <2> HIDE DEF zoned, cartons
  <2> QED
    BY <1>2, <2>1
<1>4. fit \in SUBSET light /\ \A i \in fit : Table[i].cost.start # 0 => Table[i].cost.start <= Count(pallets)
  <2>1. sized \in SUBSET light
    BY FiltersNarrow
  <2>2. fit \in SUBSET sized /\ \A i \in fit : Table[i].cost.start # 0 => Table[i].cost.start <= Count(pallets)
    <3> HIDE DEF sized, pallets
    <3> QED
      BY DEF WeightFilter
  <2> HIDE DEF fit, sized, light
  <2> QED
    BY <2>1, <2>2
<1>5. Has("carton") <=> OfKind("carton") # {}
  BY DEF Has, OfKind
<1>6. Has("pallet") <=> OfKind("pallet") # {}
  BY DEF Has, OfKind
<1>7. Has("carton") \/ Has("pallet")
  <2>1. Lot(job.lines)
    BY LinesShape
  <2> QED
    BY <2>1 DEF Lot, Piece, Has
<1>8. \A kind : OfKind(kind) \in SUBSET DOMAIN job.lines
  BY DEF OfKind
<1>9. ASSUME Has("carton") => light # {} PROVE cartonNet \in Nat
  <2>1. CASE Has("carton")
    <3>1. Min(light) \in light
      <4> HIDE DEF light
      <4> QED
        BY <1>3, <1>9, <2>1, FirstRule
    <3>2. Table[Min(light)].cost.per \in Nat
      <4> HIDE DEF light
      <4> QED
        BY <1>2, <1>3, <3>1, CostFields
    <3>3. Bigger(cartons, cartons)
      BY <1>5, <1>8, <2>1, PartOfLoad
    <3>4. Count(cartons) \in Nat
      <4> HIDE DEF cartons
      <4> QED
        BY <3>3, CountGrows
    <3> HIDE DEF light, cartons
    <3> QED
      BY <2>1, <3>2, <3>4, NatProduct
  <2>2. CASE ~Has("carton")
    BY <2>2
  <2> QED
    BY <2>1, <2>2
<1>10. ASSUME Has("carton") => light # {}, ~Has("pallet"), Offer(Min(light), cartonNet)
       PROVE  Offered
  <2>1. Min(light) \in light
    <3> HIDE DEF light
    <3> QED
      BY <1>3, <1>7, <1>10, FirstRule
  <2>2. cartonNet \in Nat
    BY <1>9, <1>10
  <2> HIDE DEF cartonNet, light
  <2>3. cartonNet \in Int
    BY <2>2
  <2>4. Min(light) \in Rules(s)
    BY <1>3, <2>1
  <2>5. Priced(s, Min(light), cartonNet)
    BY <1>1, <2>2, <2>3, <2>4 DEF Priced
  <2> QED
    BY <1>10, <2>5 DEF Offered
<1>11. ASSUME Has("carton") => light # {}, Has("pallet"), fit # {}, Offer(found, net)
       PROVE  Offered
  <2>1. found \in fit
    <3> HIDE DEF fit, light, pallets
    <3>1. fit \in SUBSET (1..Len(Table))
      BY <1>3, <1>4
    <3> QED
      BY <1>11, <3>1, FoundIs
  <2>2. /\ Bigger(pallets, pallets) /\ DOMAIN pallets = OfKind("pallet")
        /\ \A n \in DOMAIN pallets : pallets[n] = job.lines[n]
    BY <1>6, <1>8, <1>11, PartOfLoad
  <2>3. cartonNet \in Nat
    BY <1>9, <1>11
  <2> DEFINE more == VfsPalletNet(Table[found].cost, pallets)
  <2>4. found \in Rules(s) /\ found \in 1..Len(Table)
    <3> HIDE DEF fit, light, found
    <3> QED
      BY <1>2, <1>3, <1>4, <2>1
  <2>5. Table[found].cost \in CostRow
    <3> HIDE DEF found
    <3> QED
      BY <1>2, <2>4
  <2>6. Table[found].cost.start # 0 => Table[found].cost.start <= Count(pallets)
    <3> HIDE DEF found, fit, pallets
    <3> QED
      BY <1>4, <2>1
  <2>7. Weighty => \A n \in DOMAIN pallets : pallets[n].kg # 0
    <3> HIDE DEF pallets
    <3> QED
      BY <1>1, <1>8, <2>2 DEF Weighty
  <2>8. more \in Int /\ (Weighty => more \in Nat)
    <3> HIDE DEF found, pallets
    <3> QED
      BY <2>2, <2>5, <2>6, <2>7, PalletNet
  <2>9. net = cartonNet + more
    OBVIOUS
  <2> HIDE DEF net, more, cartonNet, found
  <2>10. net \in Int /\ (Weighty => net \in Nat)
    BY <2>3, <2>8, <2>9
  <2>11. Priced(s, found, net)
    BY <1>1, <2>4, <2>10 DEF Priced
  <2> QED
    BY <1>11, <2>11 DEF Offered
<1> HIDE DEF light, cartonNet, fit, found, net
<1> QED
  BY <1>1, <1>10, <1>11 DEF Passes

-----------------------------------------------------------------------------
(* Deliver-ME.                                                             *)

Sold(tariff) == tariff.pallet[2] \in Nat /\ tariff.wide[2] \in Nat /\ tariff.cubic[2] \in Nat

LEMMA TariffSold ==
    ASSUME NEW a \in Nat, NEW b \in Nat, NEW c \in Nat, NEW d \in Nat, NEW e \in Nat, NEW f \in Nat
    PROVE  Sold(Tariff(<<a, b>>, <<c, d>>, <<e, f>>))
  BY SMT DEF Sold, Tariff

LEMMA AnchorSold == Sold(AnchorTariffs["MEL"]) /\ Sold(AnchorTariffs["BNE"])
<1>1. AnchorTariffs["MEL"] = Tariff(<<5330, 6396>>, <<7995, 9595>>, <<2974, 3569>>)
  BY SMT DEF AnchorTariffs
<1>2. AnchorTariffs["BNE"] = Tariff(<<9400, 10404>>, <<14100, 15606>>, <<5246, 5806>>)
  BY SMT DEF AnchorTariffs
<1> QED
  BY SMT, TariffSold, <1>1, <1>2

LEMMA JasonlSold == Sold(JasonlTariffs["MEL"]) /\ Sold(JasonlTariffs["BNE"]) /\ Sold(JasonlTariffs["ADL"])
<1>1. JasonlTariffs["MEL"] = Tariff(<<7593, 9111>>, <<11389, 13667>>, <<4237, 5058>>)
  BY SMT DEF JasonlTariffs
<1>2. JasonlTariffs["BNE"] = Tariff(<<12074, 13494>>, <<18111, 20241>>, <<6738, 7530>>)
  BY SMT DEF JasonlTariffs
<1>3. JasonlTariffs["ADL"] = Tariff(<<19011, 21364>>, <<28517, 32045>>, <<10609, 11922>>)
  BY SMT DEF JasonlTariffs
<1> QED
  BY SMT, TariffSold, <1>1, <1>2, <1>3

LEMMA BsdSold == Sold(BsdTariffs["MEL"]) /\ Sold(BsdTariffs["BNE"]) /\ Sold(BsdTariffs["ADL"])
<1>1. BsdTariffs["MEL"] = Tariff(<<9659, 12500>>, <<14489, 18750>>, <<5390, 6975>>)
  BY SMT DEF BsdTariffs
<1>2. BsdTariffs["BNE"] = Tariff(<<14489, 18182>>, <<21733, 27273>>, <<8085, 10146>>)
  BY SMT DEF BsdTariffs
<1>3. BsdTariffs["ADL"] = Tariff(<<19011, 21727>>, <<28517, 32591>>, <<10609, 12125>>)
  BY SMT DEF BsdTariffs
<1> QED
  BY SMT, TariffSold, <1>1, <1>2, <1>3

\* A client with a price has a tariff for the city.
LEMMA CityHasTariff ==
    ASSUME job \in Jobs, ~LinehaulRaises(job.client), City(job.client) # ""
    PROVE  Sold(TariffsOf(job.client)[City(job.client)])
<1> DEFINE client == job.client
           metro == Trip.to.metro
<1>1. metro = "" \/ metro = "MEL" \/ metro = "BNE" \/ metro = "ADL" \/ metro = "Pakenham"
  BY JobsAssumption DEF Trip
<1>2. client = "JasonL" \/ client = "BSD" \/ client = "Anchor"
  BY DEF LinehaulRaises
<1> HIDE DEF metro
<1>3. CASE client = "Anchor"
  <2>1. City(client) = "MEL" \/ City(client) = "BNE"
    BY <1>3 DEF City
  <2>2. TariffsOf(client) = AnchorTariffs
    BY <1>3 DEF TariffsOf
  <2>3. Sold(AnchorTariffs["MEL"]) /\ Sold(AnchorTariffs["BNE"])
    BY AnchorSold
  <2> QED
    BY <2>1, <2>2, <2>3
<1>4. CASE client = "JasonL"
  <2>1. City(client) = "MEL" \/ City(client) = "BNE" \/ City(client) = "ADL"
    BY <1>1, <1>4 DEF City, metro
  <2>2. TariffsOf(client) = JasonlTariffs
    BY <1>4 DEF TariffsOf
  <2>3. Sold(JasonlTariffs["MEL"]) /\ Sold(JasonlTariffs["BNE"]) /\ Sold(JasonlTariffs["ADL"])
    BY JasonlSold
  <2> QED
    BY <2>1, <2>2, <2>3
<1>5. CASE client = "BSD"
  <2>1. City(client) = "MEL" \/ City(client) = "BNE" \/ City(client) = "ADL"
    BY <1>1, <1>5 DEF City, metro
  <2>2. TariffsOf(client) = BsdTariffs
    BY <1>5 DEF TariffsOf
  <2>3. Sold(BsdTariffs["MEL"]) /\ Sold(BsdTariffs["BNE"]) /\ Sold(BsdTariffs["ADL"])
    BY BsdSold
  <2> QED
    BY <2>1, <2>2, <2>3
<1> QED
  BY <1>2, <1>3, <1>4, <1>5

LEMMA UnitPriceNat ==
    ASSUME NEW tariff, Sold(tariff), NEW line \in Piece
    PROVE  UnitPrice(tariff, line)[2] \in Nat
<1> DEFINE litres == line.len * line.wid * Height(line)
           c == tariff.cubic[2]
<1>1. line.len \in Nat /\ line.wid \in Nat /\ Height(line) \in Nat
  BY DEF Piece, Height
<1>2. line.len * line.wid \in Nat
  BY <1>1
<1>3. litres \in Nat
  BY <1>1, <1>2, NatProduct
<1>4. c \in Nat /\ tariff.pallet[2] \in Nat /\ tariff.wide[2] \in Nat
  BY DEF Sold
<1>5. \/ UnitPrice(tariff, line)[2] = 1000 * tariff.pallet[2]
      \/ UnitPrice(tariff, line)[2] = 1000 * tariff.wide[2]
      \/ UnitPrice(tariff, line)[2] = AtLeast(1800000, c * litres)
  BY DEF UnitPrice
<1> HIDE DEF c, litres
<1>6. c * litres \in Nat
  BY <1>3, <1>4, NatProduct
<1>7. AtLeast(1800000, c * litres) \in Nat
  <2> DEFINE floor == 1800000
             sale == c * litres
  <2>1. floor \in Nat /\ sale \in Nat
    BY <1>6, SMT
  <2> HIDE DEF floor, sale
  <2>2. AtLeast(floor, sale) \in Nat
    BY <2>1, AtLeastType
  <2> QED
    BY <2>2 DEF floor, sale
<1> QED
  BY <1>4, <1>5, <1>7

LEMMA LineAmountNat ==
    ASSUME job \in Jobs, ~LinehaulRaises(job.client), NEW line \in Piece
    PROVE  LineAmount(job.client, line, 2) \in Nat
<1> DEFINE city == City(job.client)
           fee == MileFee(job.client, city)
           price == UnitPrice(TariffsOf(job.client)[city], line)[2]
           sale == price + 1000 * fee[2]
           unit == IF city = "" THEN 0 ELSE sale
           men == Assists(line, fee)
<1>1. LineAmount(job.client, line, 2) = line.qty * (unit + men * 3000000)
  BY DEF LineAmount
<1>2. fee[2] \in Nat
  <2>1. CASE job.client = "Anchor"
    BY <2>1, SMT DEF MileFee
  <2>2. CASE job.client = "JasonL"
    BY <2>2, SMT DEF MileFee
  <2>3. CASE job.client \notin {"Anchor", "JasonL"}
    BY <2>3, SMT DEF MileFee
  <2> QED
    BY <2>1, <2>2, <2>3
<1>3. city # "" => price \in Nat
  BY CityHasTariff, UnitPriceNat
<1>4. men = 0 \/ men = 1 \/ men = 2
  BY DEF Assists
<1>5. city # "" => sale \in Nat
  <2> DEFINE f == fee[2]
  <2>1. f \in Nat
    BY <1>2
  <2> HIDE DEF f, price, city
  <2>2. price \in Nat => price + 1000 * f \in Nat
    BY <2>1
  <2> QED
    BY <1>3, <2>2 DEF f
<1> HIDE DEF city, sale, men
<1>6. unit \in Nat
  <2>1. unit = 0 \/ (city # "" /\ unit = sale)
    BY Zenon
  <2> HIDE DEF unit
  <2>2. unit = 0 \/ unit \in Nat
    BY <1>5, <2>1, Zenon
  <2> QED
    BY <2>2, SMT
<1> HIDE DEF unit
<1>7. unit + men * 3000000 \in Nat
  BY <1>4, <1>6
<1> DEFINE each == unit + men * 3000000
<1> HIDE DEF each
<1>8. line.qty * each \in Nat
  BY <1>7, NatProduct DEF each, Piece
<1> QED
  BY <1>1, <1>8 DEF each

LEMMA LinehaulPriceStep ==
    ASSUME job \in Jobs, LinehaulPrice
    PROVE  Raise \/ Passes \/ Offered
<1> DEFINE D == DOMAIN job.lines
           f == [n \in D |-> LineAmount(job.client, job.lines[n], 2)]
           net == LinehaulAmount(job.client, job.lines, 2)
<1>1. job.fp = "deliver-me" /\ (Raise \/ (~LinehaulRaises(job.client) /\ Offer(0, net)))
  BY DEF LinehaulPrice
<1>2. ASSUME ~LinehaulRaises(job.client), Offer(0, net)
      PROVE  Offered
  <2>1. IsFiniteSet(D) /\ \A n \in D : job.lines[n] \in Piece
    BY LinesShape DEF Lot
  <2>2. \A n \in D : f[n] \in Nat
    BY <1>2, <2>1, LineAmountNat
  <2>3. net = SumFunctionOnSet(f, D)
    BY DEF LinehaulAmount, Total, SumFunction
  <2> HIDE DEF f, D
  <2>4. SumFunctionOnSet(f, D) \in Nat
    BY <2>1, <2>2, SumNat
  <2> HIDE DEF net
  <2>5. net \in Nat
    BY <2>3, <2>4
  <2>6. net \in Int
    BY <2>5
  <2>7. Priced(Head(left), 0, net)
    BY <1>1, <2>5, <2>6 DEF Priced
  <2> QED
    BY <1>2, <2>7 DEF Offered
<1> HIDE DEF net
<1> QED
  BY <1>1, <1>2
-----------------------------------------------------------------------------
(* The pricing.                                                            *)

Names == Range(Services(job.fp))
Row == [service : Names, rule : Nat, net : Int]

\* What is still to price has not been priced, and each price came about as Priced says.
RatesInv ==
    /\ job \in Jobs /\ raised \in BOOLEAN
    /\ left \in Seq(Names) /\ \A m, n \in DOMAIN left : left[m] = left[n] => m = n
    /\ prices \in Seq(Row)
    /\ \A n \in DOMAIN prices :
           /\ Priced(prices[n].service, prices[n].rule, prices[n].net)
           /\ \A m \in DOMAIN left : prices[n].service # left[m]
    /\ \A m, n \in DOMAIN prices : prices[m].service = prices[n].service => m = n
    /\ raised => prices = << >> /\ left = << >>

\* No service is listed twice.
LEMMA ServicesType ==
    ASSUME NEW fp
    PROVE  /\ Services(fp) \in Seq(Range(Services(fp)))
           /\ \A m, n \in DOMAIN Services(fp) : Services(fp)[m] = Services(fp)[n] => m = n
<1> DEFINE s == Services(fp)
           names == {s[n] : n \in DOMAIN s}
           Fine == s \in Seq(names) /\ \A m, n \in DOMAIN s : s[m] = s[n] => m = n
<1> HIDE DEF s
<1>1. ASSUME NEW a, s = <<a>> PROVE Fine
  BY <1>1, SMT
<1>2. ASSUME NEW a, NEW b, a # b, s = <<a, b>> PROVE Fine
  BY <1>2, SMT
<1>3. ASSUME NEW a, NEW b, NEW c, a # b, b # c, a # c, s = <<a, b, c>> PROVE Fine
  BY <1>3, SMT
<1> HIDE DEF Fine
<1>4. CASE fp = "atc"
  <2>1. s = <<"standard", "vip", "express">>
    BY <1>4, SMT DEF Services, s
  <2> HIDE DEF s
  <2>2. Fine
    BY <1>3, <2>1
  <2> QED
    BY <2>2 DEF Fine, s, Range
<1>5. CASE fp = "century"
  <2>1. s = <<"standard", "vip", "priority">>
    BY <1>5, SMT DEF Services, s
  <2> HIDE DEF s
  <2>2. Fine
    BY <1>3, <2>1
  <2> QED
    BY <2>2 DEF Fine, s, Range
<1>6. CASE fp = "camerons"
  <2>1. s = <<"standard", "express">>
    BY <1>6, SMT DEF Services, s
  <2> HIDE DEF s
  <2>2. Fine
    BY <1>2, <2>1
  <2> QED
    BY <2>2 DEF Fine, s, Range
<1>7. CASE fp = "northline"
  <2>1. s = <<"standard">>
    BY <1>7, SMT DEF Services, s
  <2> HIDE DEF s
  <2>2. Fine
    BY <1>1, <2>1
  <2> QED
    BY <2>2 DEF Fine, s, Range
<1>8. CASE fp # "atc" /\ fp # "century" /\ fp # "camerons" /\ fp # "northline"
  <2>1. s = <<"Road Service">>
    BY <1>8, Zenon DEF Services, s
  <2>2. \E a : s = <<a>>
    BY <2>1, Zenon
  <2> HIDE DEF s
  <2>3. Fine
    BY <1>1, <2>2
  <2> QED
    BY <2>3 DEF Fine, s, Range
<1> QED
  BY <1>4, <1>5, <1>6, <1>7, <1>8

LEMMA RatesInvInit == Init => RatesInv
<1> SUFFICES ASSUME Init PROVE RatesInv
  OBVIOUS
<1>1. job \in Jobs /\ left = Services(job.fp) /\ prices = << >> /\ raised = FALSE
  BY DEF Init
<1>2. prices \in Seq(Row) /\ DOMAIN prices = {}
  BY <1>1
<1>3. left \in Seq(Names) /\ \A m, n \in DOMAIN left : left[m] = left[n] => m = n
  BY <1>1, ServicesType DEF Names
<1> QED
  BY <1>1, <1>2, <1>3 DEF RatesInv

\* Priced speaks of the job only, which stays.
LEMMA PricedStays ==
    ASSUME job' = job, NEW CONSTANT s, NEW CONSTANT i, NEW CONSTANT net
    PROVE  Priced(s, i, net)' <=> Priced(s, i, net)
  BY SMT DEF Priced, Rules, Table, Trip, Onward, Admits, AddressFilter, AddressRaises, Backward,
             Zoned, Unzoned, InPostalZones, Between, Net, Fit, WeightFilter, DimFilter, Compared,
             DimsFor, LightEnough, FindCost

LEMMA NextIs ==
    ASSUME job \in Jobs, Next
    PROVE  left # << >> /\ (Raise \/ Passes \/ Offered)
<1>1. CASE VehiclePrice
  BY <1>1, VehiclePriceStep DEF VehiclePrice, ForAddress
<1>2. CASE PiecePrice
  BY <1>2, PiecePriceStep DEF PiecePrice, ForAddress
<1>3. CASE NoHomes
  BY <1>3 DEF NoHomes, Passes
<1>4. CASE NorthlinePrice
  BY <1>4, NorthlinePriceStep DEF NorthlinePrice, ForAddress
<1>5. CASE FirstRulePrice
  BY <1>5, FirstRulePriceStep DEF FirstRulePrice, ForAddress
<1>6. CASE BandPrice
  BY <1>6, BandPriceStep DEF BandPrice, ForAddress
<1>7. CASE TollPrice
  BY <1>7, TollPriceStep DEF TollPrice
<1>8. CASE VfsPrice
  BY <1>8, VfsPriceStep DEF VfsPrice
<1>9. CASE LinehaulPrice
  BY <1>9, LinehaulPriceStep DEF LinehaulPrice
<1> QED
  BY <1>1, <1>2, <1>3, <1>4, <1>5, <1>6, <1>7, <1>8, <1>9 DEF Next

LEMMA RatesInvNext == RatesInv /\ [Next]_vars => RatesInv'
<1> SUFFICES ASSUME RatesInv, [Next]_vars PROVE RatesInv'
  OBVIOUS
<1> DEFINE Distinct(l) == \A m, n \in DOMAIN l : l[m] = l[n] => m = n
<1>1. /\ job \in Jobs /\ raised \in BOOLEAN
      /\ left \in Seq(Names) /\ Distinct(left) /\ prices \in Seq(Row)
      /\ \A n \in DOMAIN prices :
           /\ Priced(prices[n].service, prices[n].rule, prices[n].net)
           /\ \A m \in DOMAIN left : prices[n].service # left[m]
      /\ \A m, n \in DOMAIN prices : prices[m].service = prices[n].service => m = n
      /\ raised => prices = << >> /\ left = << >>
  BY DEF RatesInv
<1>2. job' = job
  <2>1. CASE Next
    BY <1>1, <2>1, NextIs DEF Raise, Passes, Skip, Offered, Offer
  <2>2. CASE UNCHANGED vars
    BY <2>2 DEF vars
  <2> QED
    BY <2>1, <2>2
<1>3. Names' = Names /\ Row' = Row
  BY <1>2 DEF Names, Row
<1>4. \A s, i, net : Priced(s, i, net)' <=> Priced(s, i, net)
  BY <1>2, PricedStays
<1>5. ASSUME left # << >>
      PROVE  /\ Tail(left) \in Seq(Names) /\ Distinct(Tail(left)) /\ Head(left) \in Names
             /\ Head(left) = left[1] /\ 1 \in DOMAIN left
             /\ \A m \in DOMAIN Tail(left) : m + 1 \in DOMAIN left /\ Tail(left)[m] = left[m + 1]
             /\ \A m \in DOMAIN Tail(left) : Tail(left)[m] # Head(left)
  <2>1. /\ Tail(left) \in Seq(Names) /\ Head(left) \in Names /\ Head(left) = left[1]
        /\ DOMAIN left = 1..Len(left) /\ Len(left) \in Nat /\ Len(left) # 0
        /\ DOMAIN Tail(left) = 1..(Len(left) - 1)
        /\ \A m \in 1..(Len(left) - 1) : Tail(left)[m] = left[m + 1]
    BY <1>1, <1>5
  <2> DEFINE l == Tail(left)
  <2> HIDE DEF l
  <2>2. 1 \in DOMAIN left /\ \A m \in DOMAIN l : m \in Nat /\ m # 0 /\ m + 1 \in DOMAIN left /\ l[m] = left[m + 1]
    BY <2>1 DEF l
  <2>3. Distinct(l)
    BY <1>1, <2>2
  <2>4. \A m \in DOMAIN l : l[m] # left[1]
    BY <1>1, <2>2
  <2> QED
    BY <2>1, <2>2, <2>3, <2>4 DEF l
<1>6. CASE UNCHANGED vars
  BY <1>1, <1>2, <1>3, <1>4, <1>6 DEF RatesInv, vars
<1>7. CASE left # << >> /\ Raise
  BY <1>1, <1>2, <1>3, <1>7 DEF RatesInv, Raise
<1>8. CASE left # << >> /\ Passes
  <2>1. prices' = prices /\ raised' = raised /\ (left' = Tail(left) \/ left' = << >>)
    BY <1>8 DEF Passes, Skip
  <2>2. /\ left' \in Seq(Names) /\ Distinct(left')
        /\ \A n \in DOMAIN prices : \A m \in DOMAIN left' : prices[n].service # left'[m]
    <3>1. CASE left' = << >>
      BY <3>1
    <3>2. CASE left' = Tail(left)
      BY <1>1, <1>5, <1>8, <3>2
    <3> QED
      BY <2>1, <3>1, <3>2
  <2>3. raised' => prices' = << >> /\ left' = << >>
    BY <1>1, <1>8, <2>1
  <2> QED
    BY <1>1, <1>2, <1>3, <1>4, <2>1, <2>2, <2>3 DEF RatesInv
<1>9. CASE left # << >> /\ Offered
  <2>1. PICK i, net : Priced(Head(left), i, net) /\ Offer(i, net)
    BY <1>9 DEF Offered
  <2> DEFINE p == [service |-> Head(left), rule |-> i, net |-> net]
  <2>2. /\ prices' = Append(prices, p)
        /\ left' = Tail(left) /\ raised' = raised /\ ~raised
    BY <1>1, <1>9, <2>1 DEF Offer
  <2>3. p \in Row
    <3>1. i \in Nat /\ net \in Int
      BY <1>1, <2>1, TableShape DEF Priced
    <3> QED
      BY <1>5, <1>9, <3>1 DEF Row
  <2>4. p.service = Head(left) /\ Priced(p.service, p.rule, p.net)
    BY <2>1
  <2> HIDE DEF p
  <2>5. /\ prices' \in Seq(Row) /\ DOMAIN prices' = 1..(Len(prices) + 1) /\ Len(prices) \in Nat
        /\ DOMAIN prices = 1..Len(prices)
        /\ \A n \in 1..Len(prices) : prices'[n] = prices[n]
        /\ prices'[Len(prices) + 1] = p
    BY <1>1, <2>2, <2>3
  <2>6. \A n \in DOMAIN prices' : (n \in DOMAIN prices /\ prices'[n] = prices[n]) \/ (n = Len(prices) + 1 /\ prices'[n] = p)
    BY <2>5
  <2>7. /\ left' \in Seq(Names) /\ Distinct(left')
        /\ \A m \in DOMAIN left' : left'[m] # p.service
        /\ \A m \in DOMAIN left' : m + 1 \in DOMAIN left /\ left'[m] = left[m + 1]
        /\ 1 \in DOMAIN left /\ p.service = left[1]
    BY <1>5, <1>9, <2>2, <2>4
  <2>8. \A n \in DOMAIN prices' :
           /\ Priced(prices'[n].service, prices'[n].rule, prices'[n].net)
           /\ \A m \in DOMAIN left' : prices'[n].service # left'[m]
    BY <1>1, <2>4, <2>6, <2>7
  <2>9. \A m, n \in DOMAIN prices' : prices'[m].service = prices'[n].service => m = n
    BY <1>1, <2>6, <2>7
  <2> QED
    BY <1>1, <1>2, <1>3, <1>4, <2>2, <2>5, <2>7, <2>8, <2>9 DEF RatesInv
<1> QED
  BY <1>1, <1>6, <1>7, <1>8, <1>9, NextIs

LEMMA PriceInvariant == Spec => []RatesInv
  BY RatesInvInit, RatesInvNext, PTL DEF Spec
-----------------------------------------------------------------------------
(* Properties.                                                             *)

LEMMA RuleOf ==
    ASSUME RatesInv, NEW n \in DOMAIN prices, job.fp # "deliver-me"
    PROVE  /\ prices[n].rule \in Rules(prices[n].service)
           /\ prices[n].rule \in 1..Len(Table) /\ Table[prices[n].rule].cost \in CostRow
<1>1. job \in Jobs /\ prices[n].rule \in Rules(prices[n].service)
  BY DEF RatesInv, Priced
<1> QED
  BY <1>1, TableShape

\* No service is priced twice, each by a rule of its own, and after an exception there is
\* no price; none is negative, given that VFS's pallets weigh something.
THEOREM PricesAreTyped ==
    ASSUME Weighty
    PROVE  Spec => []TypeOK
<1>1. ASSUME RatesInv PROVE TypeOK
  <2>1. \A n \in DOMAIN prices : prices[n] \in Row
    BY <1>1 DEF RatesInv
  <2>2. ASSUME NEW n \in DOMAIN prices PROVE PriceOK(prices[n])
    <3>1. prices[n].service \in Range(Services(job.fp))
      BY <2>1 DEF Row, Names
    <3> QED
      BY <1>1, <3>1 DEF RatesInv, Priced, PriceOK
  <2> QED
    BY <1>1, <2>2 DEF RatesInv, TypeOK
<1> QED
  BY <1>1, PriceInvariant, PTL

\* The rule that prices a service is for the trip or for the way back, whatever order the
\* rules are in and whichever filters follow (address_filter).
THEOREM RulesServeTrip == Spec => []ServesTrip
<1>1. ASSUME RatesInv PROVE ServesTrip
  <2>1. SUFFICES ASSUME job.fp \notin ByPostalCode \cup {"toll", "vfs", "deliver-me"},
                        NEW n \in DOMAIN prices
                 PROVE  Serves(Table[prices[n].rule])
    BY DEF ServesTrip
  <2> DEFINE ids == Rules(prices[n].service)
             i == prices[n].rule
  <2>2. job \in Jobs /\ i \in AddressFilter(ids) /\ ~AddressRaises(ids)
    BY <1>1, <2>1 DEF RatesInv, Priced
  <2> HIDE DEF ids, i
  <2>3. job.fp \notin ByPostalCode
    BY <2>1
  <2>4. ~(job.fp \in ZonesNeeded /\ Unzoned) /\ i \in Onward(ids) \cup Backward(ids)
    BY <2>2, <2>3 DEF AddressFilter
  <2>5. CASE i \in Onward(ids)
    <3>1. ForTrip(i)
      BY <2>2, <2>5, OnwardForTrip
    <3> QED
      BY <3>1 DEF ForTrip, Serves, i
  <2>6. CASE i \in Backward(ids)
    <3>1. ~Zoned(i)
      BY <2>2, <2>3, <2>4, <2>6 DEF AddressRaises
    <3> QED
      BY <2>6, <3>1 DEF Backward, Zoned, Serves, i
  <2> QED
    BY <2>4, <2>5, <2>6
<1> QED
  BY <1>1, PriceInvariant, PTL

\* One more piece of a line never lowers what the rule charges (get_self_pricing), for any
\* costs, sizes and weights.
THEOREM MoreIsNotCheaper == Spec => []MoreNotCheaper
<1>1. ASSUME RatesInv PROVE MoreNotCheaper
  <2>1. SUFFICES ASSUME job.fp \notin {"vfs", "deliver-me"}, NEW n \in DOMAIN prices,
                        NEW m \in DOMAIN job.lines
                 PROVE  Net(Table[prices[n].rule].cost, More(job.lines, m)) >= prices[n].net
    BY DEF MoreNotCheaper
  <2> DEFINE cost == Table[prices[n].rule].cost
             more == More(job.lines, m)
  <2>2. job \in Jobs /\ prices[n].net = Net(cost, job.lines)
    BY <1>1, <2>1 DEF RatesInv, Priced
  <2>3. cost \in CostRow
    BY <1>1, <2>1, RuleOf
  <2>4. Lot(job.lines)
    BY <2>2, LinesShape
  <2>5. DOMAIN more = DOMAIN job.lines
    BY DEF More
  <2>6. ASSUME NEW k \in DOMAIN job.lines PROVE AsMany(job.lines[k], more[k])
    <3>1. job.lines[k] \in Piece
      BY <2>4 DEF Lot
    <3>2. CASE k # m
      <4>1. more[k] = job.lines[k]
        BY <3>2 DEF More
      <4> HIDE DEF more
      <4> QED
        BY <3>1, <4>1 DEF AsMany, Piece
    <3>3. CASE k = m
      <4> DEFINE x == job.lines[k]
      <4>1. more[k] = [x EXCEPT !.qty = @ + 1]
        BY <3>3 DEF More
      <4> HIDE DEF more, x
      <4> QED
        BY <3>1, <4>1 DEF AsMany, Piece, x
    <3> QED
      BY <3>2, <3>3
  <2> HIDE DEF more
  <2>7. Bigger(job.lines, more)
    BY <2>4, <2>5, <2>6 DEF Bigger, Lot, AsMany
  <2> HIDE DEF cost
  <2>8. Net(cost, job.lines) \in Nat /\ Net(cost, job.lines) <= Net(cost, more)
    BY <2>3, <2>7, NetGrows
  <2> QED
    BY <2>2, <2>8 DEF cost, more
<1> QED
  BY <1>1, PriceInvariant, PTL

\* If no rule that fits charges its oversize price, Camerons takes the cheapest one that
\* fits (find_cost).
THEOREM CheapestRuleTaken == Spec => []CheapestTaken
<1>1. ASSUME RatesInv PROVE CheapestTaken
  <2>1. SUFFICES ASSUME job.fp = "camerons", NEW n \in DOMAIN prices,
                        \A i \in Fit(prices[n].service) :
                            UnitCharge(Table[i].cost, job.lines) = Table[i].cost.per,
                        NEW i \in Fit(prices[n].service)
                 PROVE  prices[n].net <= Net(Table[i].cost, job.lines)
    BY DEF CheapestTaken, Fit
  <2> DEFINE s == prices[n].service
             fit == Fit(s)
             found == FindCost(fit, job.lines)
  <2>2. job \in Jobs /\ prices[n].net = Net(Table[found].cost, job.lines)
    BY <1>1, <2>1 DEF RatesInv, Priced
  <2>3. fit \in SUBSET (1..Len(Table))
    <3> DEFINE ids == AddressFilter(Rules(s))
               sized == DimFilter(ids, job.lines)
    <3>1. Rules(s) \in SUBSET (1..Len(Table))
      BY <2>2, TableShape
    <3>2. ids \in SUBSET Rules(s)
      BY <2>2, FiltersNarrow
    <3>3. sized \in SUBSET ids
      BY <2>2, FiltersNarrow
    <3>4. fit \in SUBSET sized
      BY <2>2, FiltersNarrow DEF Fit
    <3> HIDE DEF ids, sized, fit
    <3> QED
      BY <3>1, <3>2, <3>3, <3>4
  <2> HIDE DEF s
  <2>4. /\ found \in fit
        /\ Table[found].cost.per <= Table[i].cost.per
    <3>1. i \in fit /\ \A k \in fit : UnitCharge(Table[k].cost, job.lines) = Table[k].cost.per
      BY <2>1 DEF s
    <3> HIDE DEF fit
    <3> QED
      BY <2>2, <2>3, <3>1, FoundIs
  <2>5. i \in fit
    BY DEF s
  <2> HIDE DEF fit, found
  <2>6. Table[found].cost.per \in Nat /\ Table[i].cost.per \in Nat
    BY <2>2, <2>3, <2>4, <2>5, TableShape, CostFields
  <2>7. \A cost : Net(cost, job.lines) = cost.per * Count(job.lines)
    BY <2>1 DEF Net, ByVehicle
  <2>8. Count(job.lines) \in Nat
    BY <2>2, LinesShape, CountGrows
  <2>9. Table[found].cost.per * Count(job.lines) <= Table[i].cost.per * Count(job.lines)
    BY <2>4, <2>6, <2>8, ProductGrows
  <2> QED
    BY <2>2, <2>7, <2>9
<1> QED
  BY <1>1, PriceInvariant, PTL
=============================================================================

---------------------------- MODULE RatingProofs ----------------------------
(***************************************************************************)
(* The surcharge tables for every length and weight, and the rounds of     *)
(* pricing that use them.                                                  *)
(***************************************************************************)
EXTENDS Rating, Aggregates

-----------------------------------------------------------------------------
(* Tables.                                                                 *)

\* No length is charged twice: the bands of an FP's table do not overlap.
THEOREM LengthChargedOnce ==
    \A fp \in Tariffed, n \in Int : \A p, q \in In(LengthBands(fp), n) : p = q
<1> SUFFICES ASSUME NEW fp \in Tariffed, NEW n \in Int,
                    NEW p \in In(LengthBands(fp), n), NEW q \in In(LengthBands(fp), n)
             PROVE  p = q
    OBVIOUS
<1>0. /\ p \in LengthBands(fp) /\ p.first <= n /\ (p.last = Open \/ n <= p.last)
      /\ q \in LengthBands(fp) /\ q.first <= n /\ (q.last = Open \/ n <= q.last)
    BY DEF In
<1>1. CASE fp = "TNT"
    BY <1>0, <1>1 DEF LengthBands, TntLengths, Band, Open
<1>2. CASE fp = "StarTrack"
    BY <1>0, <1>2 DEF LengthBands, StarTrackLengths, Band, Open
<1>3. CASE fp = "Northline"
    BY <1>0, <1>3 DEF LengthBands, NorthlineLengths, Band, Open
<1>4. CASE fp = "Hi-Trans"
    BY <1>0, <1>4 DEF LengthBands, HiTransLengths, Band, Open
<1>5. CASE fp = "Bluestar"
    BY <1>0, <1>5 DEF LengthBands, BluestarLengths, Band, Open
<1>6. CASE fp = "Toll"
    BY <1>0, <1>6 DEF LengthBands, TollLengths, Band, Open
<1>7. CASE fp = "Hunter"
    BY <1>0, <1>7 DEF LengthBands, HunterLengths, Band, Open
<1>8. CASE fp \in {"Allied", "Camerons"}
    BY <1>0, <1>8 DEF LengthBands
<1> QED
    BY <1>1, <1>2, <1>3, <1>4, <1>5, <1>6, <1>7, <1>8 DEF Tariffed

\* The bands of a table that does not charge less for more.
Ladder(bands) ==
    /\ IsFiniteSet(bands)
    /\ \A b \in bands : b.first \in Nat /\ b.last \in Nat /\ b.amount \in Nat
    /\ \A n \in Nat : \A b, c \in In(bands, n) : b = c
    /\ \A b, c \in bands : b.first <= c.first => b.amount <= c.amount

\* From its first band on the table has a band for n.
Charges(bands, n) == \A b \in bands : b.first <= n => In(bands, n) # {}

\* What a table charges for n.
LEMMA AmountInIs ==
    ASSUME NEW bands, Ladder(bands), NEW n \in Nat
    PROVE  /\ In(bands, n) = {} => AmountIn(bands, n) = 0
           /\ \A b \in In(bands, n) : AmountIn(bands, n) = b.amount
           /\ AmountIn(bands, n) \in Nat
<1> DEFINE B == In(bands, n)
           f == [b \in B |-> b.amount]
<1>1. AmountIn(bands, n) = SumFunctionOnSet(f, B)
  BY DEF AmountIn, SumFunction
<1>2. CASE B = {}
  BY <1>1, <1>2, SumSplit, FS_EmptySet
<1>3. ASSUME NEW b \in B PROVE AmountIn(bands, n) = b.amount /\ b.amount \in Nat
  <2>0. \A c \in B : b = c
    BY DEF Ladder
  <2>1. B = {b} /\ IsFiniteSet(B) /\ b.amount \in Nat
    <3>1. B = {b}
      BY <2>0
    <3>2. b.amount \in Nat
      BY DEF Ladder, In
    <3> HIDE DEF B
    <3> QED
      BY <3>1, <3>2, FS_Singleton
  <2>2. \A x \in B : f[x] \in Int
    BY <2>1
  <2>3. f[b] = b.amount
    OBVIOUS
  <2> HIDE DEF f
  <2>4. SumFunctionOnSet(f, B) = f[b] + SumFunctionOnSet(f, B \ {b}) /\ SumFunctionOnSet(f, {}) = 0
    BY <2>1, <2>2, SumSplit
  <2>5. B \ {b} = {}
    BY <2>1
  <2> QED
    BY <1>1, <2>1, <2>3, <2>4, <2>5
<1> QED
  BY <1>2, <1>3

\* A longer or heavier thing is not charged less.
LEMMA AmountGrows ==
    ASSUME NEW bands, Ladder(bands), NEW n \in Nat, NEW m \in Nat, n <= m, Charges(bands, m)
    PROVE  AmountIn(bands, n) <= AmountIn(bands, m)
<1>1. CASE In(bands, n) = {}
  BY <1>1, AmountInIs
<1>2. ASSUME NEW b \in In(bands, n) PROVE AmountIn(bands, n) <= AmountIn(bands, m)
  <2>1. b \in bands /\ b.first \in Nat /\ b.last \in Nat /\ b.first <= n
    BY DEF In, Ladder
  <2>2. PICK c \in In(bands, m) : TRUE
    BY <2>1 DEF Charges
  <2>3. c \in bands /\ c.first \in Nat /\ c.last \in Nat /\ c.first <= m /\ (c.last = Open \/ m <= c.last)
    BY <2>2 DEF In, Ladder
  <2>4. CASE c.first <= n
    <3>1. c \in In(bands, n)
      BY <2>3, <2>4 DEF In, Open
    <3>2. b = c
      BY <3>1 DEF Ladder
    <3> QED
      BY <2>2, <3>2, AmountInIs
  <2>5. CASE n < c.first
    <3>1. b.amount <= c.amount
      BY <2>1, <2>3, <2>5 DEF Ladder
    <3> QED
      BY <2>2, <3>1, AmountInIs
  <2> QED
    BY <2>1, <2>3, <2>4, <2>5
<1> QED
  BY <1>1, <1>2

\* The conditions of Ladder and Charges that a glance at a table shows.
Rising(bands) ==
    /\ \A b \in bands : b.first \in Nat /\ b.first <= 1000 /\ b.last \in Nat /\ b.amount \in Nat
    /\ \A b, c \in bands : b.first = c.first => b = c
    /\ \A b, c \in bands : b.first <= c.first => b.amount <= c.amount

Gapless(bands, first, n) ==
    /\ \A b \in bands : b.first >= first
    /\ n >= first => \E b \in bands : b.first <= n /\ (b.last = Open \/ n <= b.last)

LEMMA GaplessCharges ==
    ASSUME NEW bands, Rising(bands), NEW n \in Nat, NEW first \in Nat, Gapless(bands, first, n)
    PROVE  Charges(bands, n)
  BY DEF Rising, Gapless, Charges, In

LEMMA RisingFinite ==
    ASSUME NEW bands, Rising(bands) PROVE IsFiniteSet(bands)
<1> DEFINE S == {b.first : b \in bands}
           f == [b \in bands |-> b.first]
<1>1. S \in SUBSET Nat /\ \A s \in S : s <= 1000
  BY DEF Rising
<1>2. f \in [bands -> S] /\ \A b, c \in bands : f[b] = f[c] => b = c
  BY DEF Rising
<1> HIDE DEF f, S
<1>3. f \in Injection(bands, S)
  BY <1>2, Zenon DEF Injection, IsInjective
<1>4. \E n \in Nat : \A s \in S : s <= n
  <2>1. 1000 \in Nat
    OBVIOUS
  <2>2. WITNESS 1000 \in Nat
  <2> QED
    BY <1>1
<1>5. IsFiniteSet(S)
  BY <1>1, <1>4, FS_BoundedSetOfNaturals
<1> QED
  BY <1>3, <1>5, FS_Injection

LEMMA TablesRise ==
    /\ Rising(TntLengths)
    /\ Rising(StarTrackLengths)
    /\ Rising(NorthlineLengths)
    /\ Rising(HiTransLengths)
    /\ Rising(BluestarLengths)
    /\ Rising(TollLengths)
    /\ Rising(HunterLengths)
    /\ Rising(HunterHomes)
    /\ Rising(TntHomes)
<1>1. Rising(TntLengths)
  BY DEF Rising, TntLengths, Band, Open
<1>2. Rising(StarTrackLengths)
  BY DEF Rising, StarTrackLengths, Band, Open
<1>3. Rising(NorthlineLengths)
  BY DEF Rising, NorthlineLengths, Band, Open
<1>4. Rising(HiTransLengths)
  BY DEF Rising, HiTransLengths, Band, Open
<1>5. Rising(BluestarLengths)
  BY DEF Rising, BluestarLengths, Band, Open
<1>6. Rising(TollLengths)
  BY DEF Rising, TollLengths, Band, Open
<1>7. Rising(HunterLengths)
  BY DEF Rising, HunterLengths, Band, Open
<1>8. Rising(HunterHomes)
  BY DEF Rising, HunterHomes, Band, Open
<1>9. Rising(TntHomes)
  BY DEF Rising, TntHomes, Band, Open
<1> QED
  BY <1>1, <1>2, <1>3, <1>4, <1>5, <1>6, <1>7, <1>8, <1>9

LEMMA TablesGapless ==
    ASSUME NEW n \in Nat
    PROVE  /\ n < 2500 => Charges(TntLengths, n)
           /\ Charges(StarTrackLengths, n)
           /\ Charges(NorthlineLengths, n)
           /\ Charges(HiTransLengths, n)
           /\ Charges(BluestarLengths, n)
           /\ Charges(TollLengths, n)
           /\ Charges(HunterLengths, n)
           /\ Charges(HunterHomes, n)
           /\ Charges(TntHomes, n)
<1>1. ASSUME n < 2500 PROVE Gapless(TntLengths, 150, n)
  BY <1>1 DEF Gapless, TntLengths, Band, Open
<1>2. Gapless(StarTrackLengths, 151, n)
  BY DEF Gapless, StarTrackLengths, Band, Open
<1>3. Gapless(NorthlineLengths, 301, n)
  BY DEF Gapless, NorthlineLengths, Band, Open
<1>4. Gapless(HiTransLengths, 301, n)
  BY DEF Gapless, HiTransLengths, Band, Open
<1>5. Gapless(BluestarLengths, 241, n)
  BY DEF Gapless, BluestarLengths, Band, Open
<1>6. Gapless(TollLengths, 371, n)
  BY DEF Gapless, TollLengths, Band, Open
<1>7. Gapless(HunterLengths, 150, n)
  BY DEF Gapless, HunterLengths, Band, Open
<1>8. Gapless(HunterHomes, 35, n)
  BY DEF Gapless, HunterHomes, Band, Open
<1>9. Gapless(TntHomes, 30, n)
  BY DEF Gapless, TntHomes, Band, Open
<1> QED
  BY <1>1, <1>2, <1>3, <1>4, <1>5, <1>6, <1>7, <1>8, <1>9, TablesRise, GaplessCharges

LEMMA LengthLadders ==
    ASSUME NEW fp \in Tariffed
    PROVE  /\ Ladder(LengthBands(fp))
           /\ \A n \in Nat : n < 2500 \/ fp # "TNT" => Charges(LengthBands(fp), n)
<1> DEFINE bands == LengthBands(fp)
<1>1. \A n \in Nat : \A b, c \in In(bands, n) : b = c
  BY LengthChargedOnce
<1>2. IsFiniteSet({}) /\ Rising({}) /\ \A n \in Nat : Charges({}, n)
  BY FS_EmptySet DEF Rising, Charges
<1>3. bands \in {TntLengths, StarTrackLengths, NorthlineLengths, HiTransLengths, BluestarLengths,
               TollLengths, HunterLengths, {}}
  BY DEF LengthBands
<1>4. IsFiniteSet(bands) /\ Rising(bands)
  <2> HIDE DEF bands
  <2> QED
    BY <1>2, <1>3, RisingFinite, TablesRise
<1>5. ASSUME NEW n \in Nat, n < 2500 \/ fp # "TNT" PROVE Charges(bands, n)
  <2>1. n < 2500 \/ bands \in {StarTrackLengths, NorthlineLengths, HiTransLengths, BluestarLengths,
                               TollLengths, HunterLengths, {}}
    BY <1>5 DEF LengthBands
  <2> HIDE DEF bands
  <2> QED
    BY <1>2, <1>3, <2>1, TablesGapless
<1>6. Ladder(bands)
  <2> HIDE DEF bands
  <2>1. \A b \in bands : b.first \in Nat
    BY <1>4 DEF Rising
  <2> QED
    BY <1>1, <1>4, <2>1 DEF Ladder, Rising
<1> QED
  BY <1>5, <1>6

LEMMA HomeLadders ==
    ASSUME NEW bands \in {HunterHomes, TntHomes}
    PROVE  Ladder(bands) /\ \A n \in Nat : Charges(bands, n)
<1>1. ASSUME NEW n \in Nat, NEW b \in In(bands, n), NEW c \in In(bands, n) PROVE b = c
  <2>1. CASE bands = HunterHomes
    BY <1>1, <2>1 DEF In, HunterHomes, Band, Open
  <2>2. CASE bands = TntHomes
    BY <1>1, <2>2 DEF In, TntHomes, Band, Open
  <2> QED
    BY <2>1, <2>2
<1>2. Rising(bands) /\ IsFiniteSet(bands)
  BY RisingFinite, TablesRise
<1>3. \A b \in bands : b.first \in Nat
  BY <1>2 DEF Rising
<1>4. Ladder(bands)
  BY <1>1, <1>2, <1>3 DEF Ladder, Rising
<1> QED
  BY <1>4, TablesGapless

-----------------------------------------------------------------------------
(* Measures.                                                               *)

\* Of two lines the first is no larger.
Smaller(x, y) == x.pallet = y.pallet /\ \A d \in {"l", "w", "h", "g", "qty"} : x[d] <= y[d]

LEMMA SmallerFields ==
    ASSUME NEW x \in OrderLine, NEW y \in OrderLine, Smaller(x, y)
    PROVE  /\ x.l <= y.l /\ x.w <= y.w /\ x.h <= y.h /\ x.g <= y.g /\ x.qty <= y.qty
           /\ x.pallet = y.pallet
  BY DEF Smaller

LEMMA CeilGrows ==
    ASSUME NEW m \in Nat, NEW n \in Nat, m <= n
    PROVE  Ceil(m, 1000) \in Nat /\ Ceil(n, 1000) \in Nat /\ Ceil(m, 1000) <= Ceil(n, 1000)
  BY DEF Ceil

LEMMA LongestGrows ==
    ASSUME NEW x \in OrderLine, NEW y \in OrderLine, Smaller(x, y)
    PROVE  Longest(x) \in Nat /\ Longest(x) <= Longest(y)
<1> DEFINE S == {x.l, x.w, x.h}
           T == {y.l, y.w, y.h}
<1>1. S \in SUBSET Nat /\ T \in SUBSET Nat
  BY DEF OrderLine
<1>2. IsFiniteSet(S) /\ IsFiniteSet(T)
  <2>1. S = {x.l} \cup ({x.w} \cup {x.h}) /\ T = {y.l} \cup ({y.w} \cup {y.h})
    OBVIOUS
  <2>2. IsFiniteSet({x.l} \cup ({x.w} \cup {x.h})) /\ IsFiniteSet({y.l} \cup ({y.w} \cup {y.h}))
    BY FS_Singleton, FS_Union
  <2> QED
    BY <2>1, <2>2
<1>3. \A p \in S : \E q \in T : p <= q
  BY SmallerFields
<1>4. S # {} /\ T # {}
  OBVIOUS
<1>5. Max(S) <= Max(T) /\ Max(S) \in S
  <2> HIDE DEF S, T
  <2>1. S \in SUBSET Int /\ T \in SUBSET Int
    BY <1>1
  <2> QED
    BY <1>2, <1>3, <1>4, <2>1, MaxGrows, MaxOf
<1> QED
  BY <1>1, <1>5 DEF Longest

LEMMA FactorGrows ==
    ASSUME NEW x \in OrderLine, NEW y \in OrderLine, Smaller(x, y), NEW fp
    PROVE  Factor(fp, x) \in Nat /\ Factor(fp, y) \in Nat /\ Factor(fp, x) <= Factor(fp, y)
<1>1. Max({x.l, x.w}) > 120 => Max({y.l, y.w}) > 120
  BY SmallerFields, MaxOfTwo DEF OrderLine
<1> QED
  BY <1>1, SmallerFields DEF Factor, OrderLine

LEMMA CubicGrows ==
    ASSUME NEW x \in OrderLine, NEW y \in OrderLine, Smaller(x, y), NEW fp
    PROVE  Cubic(fp, x) \in Nat /\ Cubic(fp, y) \in Nat /\ Cubic(fp, x) <= Cubic(fp, y)
<1>0. /\ x.l \in Nat /\ x.w \in Nat /\ x.h \in Nat /\ y.l \in Nat /\ y.w \in Nat /\ y.h \in Nat
      /\ x.l <= y.l /\ x.w <= y.w /\ x.h <= y.h
  BY SmallerFields DEF OrderLine
<1>1. x.l * x.w \in Nat /\ y.l * y.w \in Nat /\ x.l * x.w <= y.l * y.w
  BY <1>0, ProductGrows
<1>2. /\ x.l * x.w * x.h \in Nat /\ y.l * y.w * y.h \in Nat
      /\ x.l * x.w * x.h <= y.l * y.w * y.h
  BY <1>0, <1>1, ProductGrows
<1>3. \A a, b \in Nat : a <= b => a \div 1000 \in Nat /\ b \div 1000 \in Nat /\ a \div 1000 <= b \div 1000
  OBVIOUS
<1>4. /\ (x.l * x.w * x.h) \div 1000 \in Nat /\ (y.l * y.w * y.h) \div 1000 \in Nat
      /\ (x.l * x.w * x.h) \div 1000 <= (y.l * y.w * y.h) \div 1000
  BY <1>2, <1>3
<1> QED
  BY <1>4, FactorGrows, ProductGrows DEF Cubic

LEMMA HeavyKgGrows ==
    ASSUME NEW x \in OrderLine, NEW y \in OrderLine, Smaller(x, y), NEW fp
    PROVE  HeavyKg(fp, x) \in Nat /\ HeavyKg(fp, y) \in Nat /\ HeavyKg(fp, x) <= HeavyKg(fp, y)
<1>1. x.g \in Nat /\ y.g \in Nat /\ x.g <= y.g
  BY SmallerFields DEF OrderLine
<1>2. /\ Max({x.g, Cubic(fp, x)}) \in Nat /\ Max({y.g, Cubic(fp, y)}) \in Nat
      /\ Max({x.g, Cubic(fp, x)}) <= Max({y.g, Cubic(fp, y)})
  BY <1>1, CubicGrows, MaxOfTwo
<1> QED
  BY <1>2, CeilGrows DEF HeavyKg

-----------------------------------------------------------------------------
(* Surcharges of one line.                                                 *)

\* What TNT handles by hand, it does when it is larger, unless it was too small.
LEMMA ByHandStays ==
    ASSUME NEW x \in OrderLine, NEW y \in OrderLine, Smaller(x, y), ByHand(x),
           x.l >= 20, x.w >= 10, x.h >= 2, x.g # 0
    PROVE  ByHand(y)
<1>0. /\ x.l \in Nat /\ x.w \in Nat /\ x.h \in Nat /\ x.g \in Nat
      /\ y.l \in Nat /\ y.w \in Nat /\ y.h \in Nat /\ y.g \in Nat
      /\ x.l <= y.l /\ x.w <= y.w /\ x.h <= y.h /\ x.g <= y.g
  BY SmallerFields DEF OrderLine
<1>1. /\ x.l * x.l \in Nat /\ y.l * y.l \in Nat /\ x.l * x.l <= y.l * y.l
      /\ x.w * x.w \in Nat /\ y.w * y.w \in Nat /\ x.w * x.w <= y.w * y.w
      /\ x.h * x.h \in Nat /\ y.h * y.h \in Nat /\ x.h * x.h <= y.h * y.h
  BY <1>0, ProductGrows
<1>2. DeadKg(x) \in Nat /\ DeadKg(y) \in Nat /\ DeadKg(x) <= DeadKg(y)
  BY <1>0, CeilGrows DEF DeadKg
<1>3. DeadKg(x) # 0
  BY <1>0 DEF DeadKg, Ceil
<1>4. x.l * x.l + x.w * x.w + x.h * x.h <= y.l * y.l + y.w * y.w + y.h * y.h
  BY <1>1
<1>5. CASE x.l > 120 \/ x.w > 60 \/ x.h > 80
  BY <1>0, <1>5 DEF ByHand
<1>6. CASE x.l * x.l + x.w * x.w + x.h * x.h > 14400
  BY <1>1, <1>4, <1>6 DEF ByHand
<1>7. CASE DeadKg(x) > 30
  BY <1>2, <1>7 DEF ByHand
<1> QED
  BY <1>0, <1>3, <1>5, <1>6, <1>7 DEF ByHand

LEMMA LengthAmountGrows ==
    ASSUME NEW x \in OrderLine, NEW y \in OrderLine, Smaller(x, y), NEW p, NEW fp \in Tariffed,
           fp = "TNT" => Longest(y) < 2500
    PROVE  /\ LengthAmount(fp, p, x) \in Nat /\ LengthAmount(fp, p, y) \in Nat
           /\ LengthAmount(fp, p, x) <= LengthAmount(fp, p, y)
<1> DEFINE m == Longest(x)
           n == Longest(y)
<1>1. m \in Nat /\ n \in Nat /\ m <= n
  <2>1. Smaller(y, y)
    BY DEF Smaller, OrderLine
  <2> QED
    BY <2>1, LongestGrows
<1>2. Ladder(LengthBands(fp)) /\ Charges(LengthBands(fp), n)
  BY <1>1, LengthLadders
<1>3. /\ AmountIn(LengthBands(fp), m) \in Nat /\ AmountIn(LengthBands(fp), n) \in Nat
      /\ AmountIn(LengthBands(fp), m) <= AmountIn(LengthBands(fp), n)
  BY <1>1, <1>2, AmountInIs, AmountGrows
<1>4. CASE fp = "TNT" /\ p.client = "JasonL"
  <2>1. ASSUME NEW k \in Nat, k < 150 PROVE AmountIn(LengthBands(fp), k) = 0
    <3>1. In(LengthBands(fp), k) = {}
      BY <1>4, <2>1 DEF In, LengthBands, TntLengths, Band, Open
    <3> QED
      BY <1>2, <3>1, AmountInIs
  <2>2. ASSUME n >= 200 PROVE AmountIn(LengthBands(fp), n) >= 30000
    <3>1. PICK b \in In(LengthBands(fp), n) : TRUE
      <4>1. \E b \in TntLengths : b.first <= n
        BY <1>1, <2>2 DEF TntLengths, Band
      <4>2. LengthBands(fp) = TntLengths
        BY <1>4 DEF LengthBands
      <4> QED
        BY <1>2, <4>1, <4>2 DEF Charges
    <3>2. b.amount >= 30000
      BY <1>1, <1>4, <2>2 DEF In, LengthBands, TntLengths, Band, Open
    <3> QED
      BY <1>1, <1>2, <3>2, AmountInIs
  <2>3. /\ LengthAmount(fp, p, x) = IF m \in 150..199 THEN 8230 ELSE AmountIn(LengthBands(fp), m)
        /\ LengthAmount(fp, p, y) = IF n \in 150..199 THEN 8230 ELSE AmountIn(LengthBands(fp), n)
    BY <1>4 DEF LengthAmount
  <2> HIDE DEF m, n
  <2> QED
    BY <1>1, <1>3, <2>1, <2>2, <2>3
<1>5. CASE fp = "Hunter"
  BY <1>5 DEF LengthAmount
<1>6. CASE fp # "Hunter" /\ ~(fp = "TNT" /\ p.client = "JasonL")
  BY <1>3, <1>6 DEF LengthAmount
<1> QED
  BY <1>4, <1>5, <1>6

\* Outside the gaps of TNT's table.
TntRange(x) == x.l >= 20 /\ x.w >= 10 /\ x.h >= 2 /\ x.g # 0

LEMMA LineAmountGrows ==
    ASSUME NEW x \in OrderLine, NEW y \in OrderLine, Smaller(x, y), NEW p, NEW fp \in Tariffed,
           fp = "TNT" => Longest(y) < 2500 /\ TntRange(x)
    PROVE  /\ LineAmount(fp, p, x) \in Nat /\ LineAmount(fp, p, y) \in Nat
           /\ LineAmount(fp, p, x) <= LineAmount(fp, p, y)
<1>1. /\ LengthAmount(fp, p, x) \in Nat /\ LengthAmount(fp, p, y) \in Nat
      /\ LengthAmount(fp, p, x) <= LengthAmount(fp, p, y)
  BY LengthAmountGrows
<1>2. fp = "TNT" /\ ByHand(x) => ByHand(y)
  BY ByHandStays DEF TntRange
<1>3. HeavyKg(fp, x) \in Nat /\ HeavyKg(fp, y) \in Nat /\ HeavyKg(fp, x) <= HeavyKg(fp, y)
  BY HeavyKgGrows
<1> QED
  BY <1>1, <1>2, <1>3 DEF LineAmount

-----------------------------------------------------------------------------
(* Measures of orders.                                                     *)

Larger(ls, more) ==
    ls \in Seq(OrderLine) /\ more \in Seq(OrderLine) /\ Grown(ls, more) /\ ls # << >>

LEMMA LinesGrow ==
    ASSUME NEW ls, NEW more, Larger(ls, more)
    PROVE  /\ DOMAIN ls \in SUBSET (DOMAIN more)
           /\ DOMAIN ls \subseteq Int /\ DOMAIN more \subseteq Int
           /\ IsFiniteSet(DOMAIN ls) /\ IsFiniteSet(DOMAIN more) /\ DOMAIN ls # {}
           /\ \A i \in DOMAIN more : more[i] \in OrderLine /\ Smaller(more[i], more[i])
           /\ \A i \in DOMAIN ls : ls[i] \in OrderLine /\ Smaller(ls[i], more[i])
<1>1. /\ DOMAIN ls = 1..Len(ls) /\ DOMAIN more = 1..Len(more)
      /\ Len(ls) \in Nat /\ Len(more) \in Nat /\ Len(ls) <= Len(more) /\ Len(ls) # 0
      /\ \A i \in DOMAIN ls : ls[i] \in OrderLine
      /\ \A i \in DOMAIN more : more[i] \in OrderLine
  BY DEF Larger, Grown
<1>2. \A n \in Nat : IsFiniteSet(1..n)
  BY FS_Interval
<1>3. \A x \in OrderLine : Smaller(x, x)
  BY DEF Smaller, OrderLine
<1>4. \A i \in DOMAIN ls : Smaller(ls[i], more[i])
  BY DEF Larger, Grown, Smaller
<1> QED
  BY <1>1, <1>2, <1>3, <1>4

LEMMA OrderSumGrows ==
    ASSUME NEW ls, NEW more, Larger(ls, more), NEW f \in [DOMAIN ls -> Nat],
           NEW g \in [DOMAIN more -> Nat], \A i \in DOMAIN ls : f[i] <= g[i]
    PROVE  /\ SumFunction(f) \in Nat /\ SumFunction(g) \in Nat
           /\ SumFunction(f) <= SumFunction(g)
<1>1. SumFunction(f) = SumFunctionOnSet(f, DOMAIN ls) /\ SumFunction(g) = SumFunctionOnSet(g, DOMAIN more)
  BY DEF SumFunction
<1>2. SumFunctionOnSet(f, DOMAIN ls) \in Nat /\ SumFunctionOnSet(g, DOMAIN more) \in Nat
  BY LinesGrow, SumNat
<1>3. SumFunctionOnSet(f, DOMAIN ls) <= SumFunctionOnSet(g, DOMAIN more)
  <2>1. \A i \in DOMAIN ls : f[i] \in Int /\ f[i] <= g[i]
    OBVIOUS
  <2>2. \A i \in DOMAIN more : g[i] \in Int /\ g[i] >= 0
    OBVIOUS
  <2> QED
    BY <2>1, <2>2, LinesGrow, SumGrows
<1> QED
  BY <1>1, <1>2, <1>3

LEMMA OrderMaxGrows ==
    ASSUME NEW ls, NEW more, Larger(ls, more), NEW f \in [DOMAIN ls -> Nat],
           NEW g \in [DOMAIN more -> Nat], \A i \in DOMAIN ls : f[i] <= g[i]
    PROVE  /\ Max({f[i] : i \in DOMAIN ls}) \in Nat /\ Max({g[i] : i \in DOMAIN more}) \in Nat
           /\ Max({f[i] : i \in DOMAIN ls}) <= Max({g[i] : i \in DOMAIN more})
<1> DEFINE S == {f[i] : i \in DOMAIN ls}
           T == {g[i] : i \in DOMAIN more}
<1>1. IsFiniteSet(S) /\ IsFiniteSet(T)
  BY LinesGrow, ValuesFinite
<1>2. S \in SUBSET Nat /\ T \in SUBSET Nat /\ S # {} /\ T # {} /\ \A x \in S : \E y \in T : x <= y
  BY LinesGrow
<1> HIDE DEF S, T
<1>3. S \in SUBSET Int /\ T \in SUBSET Int
  BY <1>2
<1> QED
  BY <1>1, <1>2, <1>3, MaxOf, MaxGrows DEF S, T

LEMMA OrderDeadGrows ==
    ASSUME NEW ls, NEW more, Larger(ls, more)
    PROVE  OrderDead(ls) \in Nat /\ OrderDead(more) \in Nat /\ OrderDead(ls) <= OrderDead(more)
<1> DEFINE f == [i \in DOMAIN ls |-> ls[i].g * ls[i].qty]
           g == [i \in DOMAIN more |-> more[i].g * more[i].qty]
<1>1. \A x, y \in OrderLine : Smaller(x, y) => /\ x.g * x.qty \in Nat /\ y.g * y.qty \in Nat
                                             /\ x.g * x.qty <= y.g * y.qty
  BY SmallerFields, ProductGrows DEF OrderLine
<1>2. f \in [DOMAIN ls -> Nat] /\ g \in [DOMAIN more -> Nat] /\ \A i \in DOMAIN ls : f[i] <= g[i]
  BY <1>1, LinesGrow
<1>3. SumFunction(f) \in Nat /\ SumFunction(g) \in Nat /\ SumFunction(f) <= SumFunction(g)
  BY <1>2, OrderSumGrows
<1> HIDE DEF f, g
<1>4. Ceil(SumFunction(f), 1000) \in Nat /\ Ceil(SumFunction(g), 1000) \in Nat
      /\ Ceil(SumFunction(f), 1000) <= Ceil(SumFunction(g), 1000)
  BY <1>3, CeilGrows
<1> QED
  BY <1>4 DEF OrderDead, f, g

LEMMA OrderCubicGrows ==
    ASSUME NEW ls, NEW more, Larger(ls, more), NEW fp
    PROVE  /\ OrderCubic(fp, ls) \in Nat /\ OrderCubic(fp, more) \in Nat
           /\ OrderCubic(fp, ls) <= OrderCubic(fp, more)
<1> DEFINE f == [i \in DOMAIN ls |-> Cubic(fp, ls[i]) * ls[i].qty]
           g == [i \in DOMAIN more |-> Cubic(fp, more[i]) * more[i].qty]
<1>1. \A x, y \in OrderLine : Smaller(x, y) =>
          /\ Cubic(fp, x) * x.qty \in Nat /\ Cubic(fp, y) * y.qty \in Nat
          /\ Cubic(fp, x) * x.qty <= Cubic(fp, y) * y.qty
  BY SmallerFields, CubicGrows, ProductGrows DEF OrderLine
<1>2. f \in [DOMAIN ls -> Nat] /\ g \in [DOMAIN more -> Nat] /\ \A i \in DOMAIN ls : f[i] <= g[i]
  BY <1>1, LinesGrow
<1>3. SumFunction(f) \in Nat /\ SumFunction(g) \in Nat /\ SumFunction(f) <= SumFunction(g)
  BY <1>2, OrderSumGrows
<1> HIDE DEF f, g
<1>4. Ceil(SumFunction(f), 1000) \in Nat /\ Ceil(SumFunction(g), 1000) \in Nat
      /\ Ceil(SumFunction(f), 1000) <= Ceil(SumFunction(g), 1000)
  BY <1>3, CeilGrows
<1> QED
  BY <1>4 DEF OrderCubic, f, g

LEMMA OrderHeavyGrows ==
    ASSUME NEW ls, NEW more, Larger(ls, more), NEW fp
    PROVE  /\ OrderHeavy(fp, ls) \in Nat /\ OrderHeavy(fp, more) \in Nat
           /\ OrderHeavy(fp, ls) <= OrderHeavy(fp, more)
  BY OrderDeadGrows, OrderCubicGrows, MaxOfTwo DEF OrderHeavy

LEMMA ItemHeavyGrows ==
    ASSUME NEW ls, NEW more, Larger(ls, more), NEW fp
    PROVE  /\ ItemHeavy(fp, ls) \in Nat /\ ItemHeavy(fp, more) \in Nat
           /\ ItemHeavy(fp, ls) <= ItemHeavy(fp, more)
<1> DEFINE f == [i \in DOMAIN ls |-> HeavyKg(fp, ls[i])]
           g == [i \in DOMAIN more |-> HeavyKg(fp, more[i])]
<1>1. f \in [DOMAIN ls -> Nat] /\ g \in [DOMAIN more -> Nat] /\ \A i \in DOMAIN ls : f[i] <= g[i]
  BY LinesGrow, HeavyKgGrows
<1> DEFINE S == {HeavyKg(fp, ls[i]) : i \in DOMAIN ls}
           T == {HeavyKg(fp, more[i]) : i \in DOMAIN more}
<1>2. S = {f[i] : i \in DOMAIN ls} /\ T = {g[i] : i \in DOMAIN more}
  OBVIOUS
<1> HIDE DEF f, g, S, T
<1>3. Max(S) \in Nat /\ Max(T) \in Nat /\ Max(S) <= Max(T)
  BY <1>1, <1>2, OrderMaxGrows
<1> QED
  BY <1>3 DEF ItemHeavy, S, T

LEMMA OrderLongestGrows ==
    ASSUME NEW ls, NEW more, Larger(ls, more)
    PROVE  /\ OrderLongest(ls) \in Nat /\ OrderLongest(more) \in Nat
           /\ OrderLongest(ls) <= OrderLongest(more)
<1> DEFINE f == [i \in DOMAIN ls |-> Longest(ls[i])]
           g == [i \in DOMAIN more |-> Longest(more[i])]
<1>1. f \in [DOMAIN ls -> Nat] /\ g \in [DOMAIN more -> Nat] /\ \A i \in DOMAIN ls : f[i] <= g[i]
  BY LinesGrow, LongestGrows
<1> DEFINE S == {Longest(ls[i]) : i \in DOMAIN ls}
           T == {Longest(more[i]) : i \in DOMAIN more}
<1>2. S = {f[i] : i \in DOMAIN ls} /\ T = {g[i] : i \in DOMAIN more}
  OBVIOUS
<1> HIDE DEF f, g, S, T
<1>3. Max(S) \in Nat /\ Max(T) \in Nat /\ Max(S) <= Max(T)
  BY <1>1, <1>2, OrderMaxGrows
<1> QED
  BY <1>3 DEF OrderLongest, S, T

LEMMA PalletsGrow ==
    ASSUME NEW ls, NEW more, Larger(ls, more)
    PROVE  Pallets(ls) \in Nat /\ Pallets(more) \in Nat /\ Pallets(ls) <= Pallets(more)
<1> DEFINE f == [i \in DOMAIN ls |-> IF ls[i].pallet THEN ls[i].qty ELSE 0]
           g == [i \in DOMAIN more |-> IF more[i].pallet THEN more[i].qty ELSE 0]
<1>1. \A x, y \in OrderLine : Smaller(x, y) => /\ x.qty \in Nat /\ y.qty \in Nat /\ x.qty <= y.qty
                                             /\ x.pallet = y.pallet
  BY SmallerFields DEF OrderLine
<1>2. f \in [DOMAIN ls -> Nat] /\ g \in [DOMAIN more -> Nat] /\ \A i \in DOMAIN ls : f[i] <= g[i]
  BY <1>1, LinesGrow
<1> HIDE DEF f, g
<1>3. SumFunction(f) \in Nat /\ SumFunction(g) \in Nat /\ SumFunction(f) <= SumFunction(g)
  BY <1>2, OrderSumGrows
<1> QED
  BY <1>3 DEF Pallets, f, g

-----------------------------------------------------------------------------
(* Surcharges of orders.                                                   *)

\* A home delivery of Allied falls into one class, unless it weighs 22 kg.
THEOREM HomeChargedOnce ==
    \A dead, cubic \in Int :
        /\ \A p, q \in AlliedHome(dead, cubic) : p = q
        /\ AlliedHome(dead, cubic) = {} => Max({dead, cubic}) = 22
<1> SUFFICES ASSUME NEW dead \in Int, NEW cubic \in Int
             PROVE  /\ \A p, q \in AlliedHome(dead, cubic) : p = q
                    /\ AlliedHome(dead, cubic) = {} => Max({dead, cubic}) = 22
    OBVIOUS
<1>1. Max({dead, cubic}) = IF dead >= cubic THEN dead ELSE cubic
    BY MaxOfTwo
<1>2. /\ Max({dead, cubic}) < 22 => AlliedHome(dead, cubic) = {5300}
      /\ Max({dead, cubic}) > 22 /\ Max({dead, cubic}) <= 55 => AlliedHome(dead, cubic) = {10595}
      /\ Max({dead, cubic}) = 22 => AlliedHome(dead, cubic) = {}
    BY <1>1 DEF AlliedHome
<1>3. Max({dead, cubic}) > 55 /\ dead <= 90 /\ cubic <= 135 => AlliedHome(dead, cubic) = {37075}
    BY <1>1 DEF AlliedHome
<1>4. dead > 90 \/ cubic > 135 => AlliedHome(dead, cubic) = {79435}
    BY <1>1 DEF AlliedHome
<1> QED
    BY <1>1, <1>2, <1>3, <1>4

LEMMA AlliedHomeIs ==
    ASSUME NEW dead \in Nat, NEW cubic \in Nat
    PROVE  SumSet(AlliedHome(dead, cubic)) =
             IF dead > 90 \/ cubic > 135 THEN 79435
             ELSE IF dead > 55 \/ cubic > 55 THEN 37075
             ELSE IF dead > 22 \/ cubic > 22 THEN 10595
             ELSE IF dead = 22 \/ cubic = 22 THEN 0
             ELSE 5300
<1>1. Max({dead, cubic}) = IF dead >= cubic THEN dead ELSE cubic
  BY MaxOfTwo
<1>2. CASE dead > 90 \/ cubic > 135
  <2>1. AlliedHome(dead, cubic) = {79435}
    BY <1>1, <1>2 DEF AlliedHome
  <2> QED
    BY <1>2, <2>1, SumSetOne
<1>3. CASE dead <= 90 /\ cubic <= 135 /\ (dead > 55 \/ cubic > 55)
  <2>1. AlliedHome(dead, cubic) = {37075}
    BY <1>1, <1>3 DEF AlliedHome
  <2> QED
    BY <1>3, <2>1, SumSetOne
<1>4. CASE dead <= 55 /\ cubic <= 55 /\ (dead > 22 \/ cubic > 22)
  <2>1. AlliedHome(dead, cubic) = {10595}
    BY <1>1, <1>4 DEF AlliedHome
  <2> QED
    BY <1>4, <2>1, SumSetOne
<1>5. CASE dead <= 22 /\ cubic <= 22 /\ (dead = 22 \/ cubic = 22)
  <2>1. AlliedHome(dead, cubic) = {}
    BY <1>1, <1>5 DEF AlliedHome
  <2>2. SumSet({}) = 0
    <3>1. 0 \in Int
      OBVIOUS
    <3> QED
      BY <3>1, SumSetOne
  <2> QED
    BY <1>5, <2>1, <2>2
<1>6. CASE dead < 22 /\ cubic < 22
  <2>1. AlliedHome(dead, cubic) = {5300}
    BY <1>1, <1>6 DEF AlliedHome
  <2> QED
    BY <1>6, <2>1, SumSetOne
<1> QED
  BY <1>2, <1>3, <1>4, <1>5, <1>6

LEMMA AlliedHomeGrows ==
    ASSUME NEW ls, NEW more, Larger(ls, more)
    PROVE  LET amount(o) == SumSet(AlliedHome(OrderDead(o), OrderCubic("Allied", o)))
           IN  /\ amount(ls) \in Nat /\ amount(more) \in Nat
               /\ OrderHeavy("Allied", more) # 22 => amount(ls) <= amount(more)
<1> DEFINE d == OrderDead(ls)
           c == OrderCubic("Allied", ls)
           dd == OrderDead(more)
           cc == OrderCubic("Allied", more)
<1>1. d \in Nat /\ dd \in Nat /\ d <= dd /\ c \in Nat /\ cc \in Nat /\ c <= cc
  BY OrderDeadGrows, OrderCubicGrows
<1>2. OrderHeavy("Allied", more) = IF dd >= cc THEN dd ELSE cc
  BY <1>1, MaxOfTwo DEF OrderHeavy
<1> HIDE DEF d, c, dd, cc
<1>3. /\ SumSet(AlliedHome(d, c)) \in Nat /\ SumSet(AlliedHome(dd, cc)) \in Nat
      /\ OrderHeavy("Allied", more) # 22
             => SumSet(AlliedHome(d, c)) <= SumSet(AlliedHome(dd, cc))
  BY <1>1, <1>2, AlliedHomeIs
<1> QED
  BY <1>3 DEF d, c, dd, cc

LEMMA AtHomeGrows ==
    ASSUME NEW ls, NEW more, Larger(ls, more), NEW fp, NEW type, NEW flat \in Nat
    PROVE  /\ AtHome(fp, type, ls, flat) \in Nat /\ AtHome(fp, type, more, flat) \in Nat
           /\ AtHome(fp, type, ls, flat) <= AtHome(fp, type, more, flat)
<1>1. ASSUME NEW bands \in {HunterHomes, TntHomes}, NEW m \in Nat, NEW n \in Nat, m <= n
      PROVE  /\ AmountIn(bands, m) \in Nat /\ AmountIn(bands, n) \in Nat
             /\ AmountIn(bands, m) <= AmountIn(bands, n)
  BY <1>1, HomeLadders, AmountInIs, AmountGrows
<1>2. CASE fp = "TNT"
  <2>1. HomeBands(fp) = TntHomes
    BY <1>2 DEF HomeBands
  <2>2. /\ AmountIn(TntHomes, OrderHeavy(fp, ls)) \in Nat
        /\ AmountIn(TntHomes, OrderHeavy(fp, more)) \in Nat
        /\ AmountIn(TntHomes, OrderHeavy(fp, ls)) <= AmountIn(TntHomes, OrderHeavy(fp, more))
    BY <1>1, OrderHeavyGrows
  <2> QED
    BY <1>2, <2>1, <2>2 DEF AtHome
<1>3. CASE fp = "Hunter"
  <2>1. HomeBands(fp) = HunterHomes
    BY <1>3 DEF HomeBands
  <2>2. /\ AmountIn(HunterHomes, ItemHeavy(fp, ls)) \in Nat
        /\ AmountIn(HunterHomes, ItemHeavy(fp, more)) \in Nat
        /\ AmountIn(HunterHomes, ItemHeavy(fp, ls)) <= AmountIn(HunterHomes, ItemHeavy(fp, more))
    BY <1>1, ItemHeavyGrows
  <2> QED
    BY <1>3, <2>1, <2>2 DEF AtHome
<1>4. CASE fp \notin {"TNT", "Hunter"}
  BY <1>4 DEF AtHome
<1> QED
  BY <1>2, <1>3, <1>4

LEMMA HomesAmountGrows ==
    ASSUME NEW ls, NEW more, Larger(ls, more), NEW fp \in Tariffed, NEW p
    PROVE  /\ HomesAmount(fp, p, ls) \in Nat /\ HomesAmount(fp, p, more) \in Nat
           /\ (fp = "Allied" => OrderHeavy(fp, more) # 22)
                 => HomesAmount(fp, p, ls) <= HomesAmount(fp, p, more)
<1> DEFINE flat == IF p.client = "JasonL" THEN 2370 ELSE 5000
           a(o) == AtHome(fp, p.from, o, 5000)
           b(o) == AtHome(fp, p.to, o, flat)
           c == IF fp = "Northline" THEN NorthlineHome(p) ELSE 0
           d(o) == IF fp = "Allied" /\ IsHome(p.to)
                   THEN SumSet(AlliedHome(OrderDead(o), OrderCubic(fp, o))) ELSE 0
<1>1. /\ a(ls) \in Nat /\ a(more) \in Nat /\ a(ls) <= a(more)
      /\ b(ls) \in Nat /\ b(more) \in Nat /\ b(ls) <= b(more)
  BY AtHomeGrows
<1>2. c \in Nat
  BY DEF NorthlineHome
<1>3. /\ d(ls) \in Nat /\ d(more) \in Nat
      /\ (fp = "Allied" => OrderHeavy(fp, more) # 22) => d(ls) <= d(more)
  BY AlliedHomeGrows
<1>4. \A o : HomesAmount(fp, p, o) = a(o) + b(o) + c + d(o)
  BY DEF HomesAmount
<1> HIDE DEF a, b, c, d
<1> QED
  BY <1>1, <1>2, <1>3, <1>4

LEMMA LiftAmountGrows ==
    ASSUME NEW ls, NEW more, Larger(ls, more), NEW fp \in Tariffed, NEW express, NEW p
    PROVE  /\ LiftAmount(fp, express, p, ls) \in Nat /\ LiftAmount(fp, express, p, more) \in Nat
           /\ LiftAmount(fp, express, p, ls) <= LiftAmount(fp, express, p, more)
<1>1. Lifts(p) \in Nat
  <2>1. IsFiniteSet({e \in {"pickup", "delivery"} : p.lift[e]})
    <3>1. IsFiniteSet({"pickup"} \cup {"delivery"})
      BY FS_Singleton, FS_Union
    <3>2. {e \in {"pickup", "delivery"} : p.lift[e]} \in SUBSET ({"pickup"} \cup {"delivery"})
      OBVIOUS
    <3> QED
      BY <3>1, <3>2, FS_Subset
  <2> QED
    BY <2>1, FS_CardinalityType DEF Lifts
<1>2. /\ TollLift(p, ls) \in Nat /\ TollLift(p, more) \in Nat
      /\ TollLift(p, ls) <= TollLift(p, more)
  BY <1>1, PalletsGrow DEF TollLift
<1>3. /\ AlliedLift(p) \in Nat /\ NorthlineLift(p) \in Nat /\ HunterLift(p) \in Nat
      /\ CameronsLift(express, p) \in Nat
  BY <1>1 DEF AlliedLift, NorthlineLift, HunterLift, CameronsLift
<1>4. CASE fp = "Toll"
  BY <1>2, <1>4 DEF LiftAmount
<1>5. CASE fp # "Toll"
  BY <1>3, <1>5 DEF LiftAmount
<1> QED
  BY <1>4, <1>5

\* The fee beyond Allied's network grows with the weight.
LEMMA OnwardGrows ==
    ASSUME NEW rows \in SUBSET OnwardRow, IsFiniteSet(rows), NEW m \in Nat, NEW n \in Nat, m <= n
    PROVE  /\ OnwardAmount(rows, m) \in Nat /\ OnwardAmount(rows, n) \in Nat
           /\ OnwardAmount(rows, m) <= OnwardAmount(rows, n)
<1>1. CASE Cardinality(rows) = 1
  <2> DEFINE row == CHOOSE row \in rows : TRUE
             b == row.base
             k == row.perKg
  <2>1. rows # {}
    BY <1>1, FS_EmptySet
  <2>2. row \in OnwardRow
    BY <2>1
  <2>3. b \in Nat /\ k \in Nat
    BY <2>2 DEF OnwardRow
  <2>4. \A kg : OnwardAmount(rows, kg) = b + k * kg
    BY <1>1 DEF OnwardAmount
  <2> HIDE DEF row, b, k
  <2>5. k * m \in Nat /\ k * n \in Nat /\ k * m <= k * n
    BY <2>3, ProductGrows
  <2> QED
    BY <2>3, <2>4, <2>5
<1>2. CASE Cardinality(rows) # 1
  BY <1>2 DEF OnwardAmount
<1> QED
  BY <1>1, <1>2

LEMMA AlliedOnwardGrows ==
    ASSUME NEW ls, NEW more, Larger(ls, more), NEW p \in Places
    PROVE  /\ AlliedOnward(p, ls) \in Nat /\ AlliedOnward(p, more) \in Nat
           /\ AlliedOnward(p, ls) <= AlliedOnward(p, more)
<1> DEFINE m == OrderHeavy("Allied", ls)
           n == OrderHeavy("Allied", more)
           a(kg) == OnwardAmount(p.onward["pickup"], kg)
           b(kg) == OnwardAmount(p.onward["delivery"], kg)
<1>1. m \in Nat /\ n \in Nat /\ m <= n
  BY OrderHeavyGrows
<1>2. /\ AlliedOnward(p, ls) = a(m) + b(m)
      /\ AlliedOnward(p, more) = a(n) + b(n)
  BY DEF AlliedOnward
<1> HIDE DEF m, n
<1>3. /\ a(m) \in Nat /\ a(n) \in Nat /\ a(m) <= a(n)
      /\ b(m) \in Nat /\ b(n) \in Nat /\ b(m) <= b(n)
  BY <1>1, PlacesAssumption, OnwardGrows
<1> HIDE DEF a, b
<1> QED
  BY <1>2, <1>3

LEMMA OrderAmountGrows ==
    ASSUME NEW ls, NEW more, Larger(ls, more), NEW fp \in Tariffed, NEW express, NEW p \in Places
    PROVE  /\ OrderAmount(fp, express, p, ls) \in Nat /\ OrderAmount(fp, express, p, more) \in Nat
           /\ (fp = "Allied" => OrderHeavy(fp, more) # 22)
                 => OrderAmount(fp, express, p, ls) <= OrderAmount(fp, express, p, more)
<1> DEFINE a(o) == IF fp = "Hunter" THEN AmountIn(LengthBands(fp), OrderLongest(o)) ELSE 0
           b(o) == IF fp = "Allied" THEN AlliedOnward(p, o) ELSE 0
<1>1. a(ls) \in Nat /\ a(more) \in Nat /\ a(ls) <= a(more)
  BY LengthLadders, OrderLongestGrows, AmountInIs, AmountGrows
<1>2. b(ls) \in Nat /\ b(more) \in Nat /\ b(ls) <= b(more)
  BY AlliedOnwardGrows
<1>3. \A o : OrderAmount(fp, express, p, o) =
               a(o) + b(o) + HomesAmount(fp, p, o) + LiftAmount(fp, express, p, o)
  BY DEF OrderAmount
<1> HIDE DEF a, b
<1> QED
  BY <1>1, <1>2, <1>3, HomesAmountGrows, LiftAmountGrows

LEMMA LineAmountNat ==
    ASSUME NEW x \in OrderLine, NEW p, NEW fp \in Tariffed
    PROVE  LineAmount(fp, p, x) \in Nat
<1>1. Smaller(x, x)
  BY DEF Smaller, OrderLine
<1>2. LengthAmount(fp, p, x) \in Nat
  BY <1>1, LongestGrows, LengthLadders, AmountInIs DEF LengthAmount
<1> QED
  BY <1>2 DEF LineAmount

LEMMA SurchargeGrows ==
    ASSUME NEW ls, NEW more, Larger(ls, more), NEW fp \in Tariffed,
           NEW express, NEW p \in Places, ~InGap(fp, ls, more)
    PROVE  /\ Surcharge(fp, express, p, ls) \in Nat /\ Surcharge(fp, express, p, more) \in Nat
           /\ Surcharge(fp, express, p, ls) <= Surcharge(fp, express, p, more)
<1> DEFINE f == [i \in DOMAIN ls |-> LineAmount(fp, p, ls[i]) * ls[i].qty]
           g == [i \in DOMAIN more |-> LineAmount(fp, p, more[i]) * more[i].qty]
<1>1. \A x \in OrderLine : x.qty \in Nat
  BY DEF OrderLine
<1>2. ASSUME NEW i \in DOMAIN more PROVE g[i] \in Nat
  BY <1>1, LinesGrow, LineAmountNat
<1>3. ASSUME NEW i \in DOMAIN ls PROVE f[i] \in Nat /\ f[i] <= g[i]
  <2> DEFINE x == ls[i]
             y == more[i]
  <2>1. x \in OrderLine /\ y \in OrderLine /\ Smaller(x, y) /\ i \in DOMAIN more
    BY LinesGrow
  <2>2. fp = "TNT" => Longest(y) < 2500 /\ TntRange(x)
    <3>1. Longest(y) \in Nat
      BY <2>1, LinesGrow, LongestGrows
    <3>2. fp = "TNT" => ~(Longest(y) >= 2500) /\ ~(x.l < 20 \/ x.w < 10 \/ x.h < 2 \/ x.g = 0)
      BY <2>1 DEF InGap
    <3> QED
      BY <2>1, <3>1, <3>2 DEF TntRange, OrderLine
  <2>3. /\ LineAmount(fp, p, x) \in Nat /\ LineAmount(fp, p, y) \in Nat
        /\ LineAmount(fp, p, x) <= LineAmount(fp, p, y)
    BY <2>1, <2>2, LineAmountGrows
  <2>4. x.qty \in Nat /\ y.qty \in Nat /\ x.qty <= y.qty
    BY <1>1, <2>1, SmallerFields
  <2>5. f[i] = LineAmount(fp, p, x) * x.qty /\ g[i] = LineAmount(fp, p, y) * y.qty
    BY <2>1
  <2> HIDE DEF f, g, x, y
  <2> QED
    BY <2>3, <2>4, <2>5, ProductGrows
<1>4. f \in [DOMAIN ls -> Nat] /\ g \in [DOMAIN more -> Nat] /\ \A i \in DOMAIN ls : f[i] <= g[i]
  BY <1>2, <1>3
<1>5. /\ OrderAmount(fp, express, p, ls) \in Nat /\ OrderAmount(fp, express, p, more) \in Nat
      /\ OrderAmount(fp, express, p, ls) <= OrderAmount(fp, express, p, more)
  BY OrderAmountGrows DEF InGap
<1>6. /\ Surcharge(fp, express, p, ls) = OrderAmount(fp, express, p, ls) + SumFunction(f)
      /\ Surcharge(fp, express, p, more) = OrderAmount(fp, express, p, more) + SumFunction(g)
  BY DEF Surcharge
<1> HIDE DEF f, g
<1>7. SumFunction(f) \in Nat /\ SumFunction(g) \in Nat /\ SumFunction(f) <= SumFunction(g)
  BY <1>4, OrderSumGrows
<1> QED
  BY <1>5, <1>6, <1>7

-----------------------------------------------------------------------------
(* The order's lines.                                                      *)

LinesInv ==
    /\ place \in Places
    /\ lines \in [Sets -> Seq(OrderLine)]
    /\ lines["original"] \in Seq(Sizes)
    /\ lines["scanned"] \in Scanned \cup {<< >>}

LEMMA SizesAreLines == \A ls \in Seq(Sizes) : ls \in Seq(OrderLine)
<1>1. Sizes \subseteq OrderLine
  BY LinesAssumption
<1> QED
  BY <1>1

LEMMA LinesStep ==
    ASSUME LinesInv, [Next]_vars
    PROVE  LinesInv'
<1>1. CASE AddLine
  <2>1. PICK x \in Sizes : lines' = [lines EXCEPT !["original"] = Append(@, x)]
    BY <1>1 DEF AddLine
  <2>2. Append(lines["original"], x) \in Seq(Sizes)
    BY DEF LinesInv
  <2> QED
    BY <1>1, <2>1, <2>2, SizesAreLines DEF AddLine, LinesInv, Sets
<1>2. CASE EditLine
  <2>1. PICK i \in DOMAIN lines["original"], x \in Sizes :
            lines' = [lines EXCEPT !["original"][i] = x]
    BY <1>2 DEF EditLine
  <2>2. [lines["original"] EXCEPT ![i] = x] \in Seq(Sizes)
    BY DEF LinesInv
  <2>3. lines' = [lines EXCEPT !["original"] = [lines["original"] EXCEPT ![i] = x]]
    BY <2>1 DEF LinesInv, Sets
  <2> QED
    BY <1>2, <2>2, <2>3, SizesAreLines DEF EditLine, LinesInv, Sets
<1>3. CASE PageRound
  BY <1>3 DEF PageRound, LinesInv
<1>4. CASE ScanRound
  <2>1. PICK picked \in Scanned : lines' = [lines EXCEPT !["scanned"] = picked]
    BY <1>4 DEF ScanRound
  <2> QED
    BY <1>4, <2>1, LinesAssumption DEF ScanRound, LinesInv, Sets
<1>5. CASE UNCHANGED vars
  BY <1>5 DEF vars, LinesInv
<1> QED
  BY <1>1, <1>2, <1>3, <1>4, <1>5 DEF Next

LEMMA LinesAlways == Spec => []LinesInv
<1>1. Init => LinesInv
  BY SizesAreLines DEF Init, LinesInv, Sets
<1> QED
  BY <1>1, LinesStep, PTL DEF Spec

\* No FP's surcharges get less when an order grows, whatever the order is and by
\* however much it grows, outside the gaps of the tables.
THEOREM LargerNeverCheaper == Spec => LargerNotCheaper
<1>1. ASSUME NEW ls \in Seq(OrderLine), NEW more \in Seq(OrderLine), Grown(ls, more), ls # << >>,
             NEW fp \in Tariffed, NEW express \in BOOLEAN, NEW p \in Places, ~InGap(fp, ls, more)
      PROVE  Surcharge(fp, express, p, ls) <= Surcharge(fp, express, p, more)
  BY <1>1, SurchargeGrows DEF Larger
<1>2. LinesInv => place \in Places /\ lines["original"] \in Seq(OrderLine)
  BY DEF LinesInv, Sets
<1>3. LinesInv' => lines'["original"] \in Seq(OrderLine)
  BY DEF LinesInv, Sets
<1>4. LinesInv /\ LinesInv' =>
        [Grown(lines["original"], lines'["original"]) =>
           \A fp \in Tariffed, express \in BOOLEAN :
               \/ lines["original"] = << >> \/ InGap(fp, lines["original"], lines'["original"])
               \/ Surcharge(fp, express, place, lines["original"])
                      <= Surcharge(fp, express, place, lines'["original"])]_(lines["original"])
  BY <1>1, <1>2, <1>3
<1> QED
  BY <1>4, LinesAlways, PTL DEF LargerNotCheaper

LEMMA AtMostOne ==
    ASSUME NEW S, \A p, q \in S : p = q
    PROVE  Cardinality(S) <= 1
<1>1. CASE S = {}
  BY <1>1, FS_EmptySet
<1>2. CASE S # {}
  <2>1. PICK p \in S : TRUE
    BY <1>2
  <2>2. S = {p}
    OBVIOUS
  <2>3. Cardinality({p}) = 1
    BY FS_Singleton
  <2> QED
    BY <2>2, <2>3
<1> QED
  BY <1>1, <1>2

\* No length and no weight is charged twice, for lines of any size.
THEOREM OneFeeEach == Spec => []OneFeePerRule
<1>1. LinesInv => OneFeePerRule
  <2> SUFFICES ASSUME LinesInv, NEW i \in DOMAIN lines["original"], NEW fp \in Tariffed
               PROVE  LET x == lines["original"][i]
                      IN  /\ Cardinality(In(LengthBands(fp), Longest(x))) <= 1
                          /\ Cardinality(In(HomeBands(fp), HeavyKg(fp, x))) <= 1
                          /\ Cardinality(AlliedHome(OrderDead(lines["original"]),
                                                    OrderCubic("Allied", lines["original"]))) <= 1
    BY DEF OneFeePerRule
  <2> DEFINE ls == lines["original"]
             x == ls[i]
  <2>1. Larger(ls, ls)
    <3>1. ls \in Seq(OrderLine) /\ ls # << >>
      BY DEF LinesInv, Sets
    <3>2. \A j \in DOMAIN ls : ls[j] \in OrderLine
      BY <3>1
    <3>3. \A y \in OrderLine : Smaller(y, y)
      BY DEF Smaller, OrderLine
    <3>4. Len(ls) \in Nat /\ \A j \in DOMAIN ls : Smaller(ls[j], ls[j])
      BY <3>1, <3>2, <3>3
    <3> HIDE DEF ls, x
    <3>5. Grown(ls, ls)
      BY <3>4 DEF Grown, Smaller
    <3> QED
      BY <3>1, <3>5 DEF Larger
  <2>2. x \in OrderLine /\ Smaller(x, x)
    BY <2>1, LinesGrow
  <2>3. Longest(x) \in Nat /\ HeavyKg(fp, x) \in Nat
    BY <2>2, LongestGrows, HeavyKgGrows
  <2>4. OrderDead(ls) \in Nat /\ OrderCubic("Allied", ls) \in Nat
    BY <2>1, OrderDeadGrows, OrderCubicGrows
  <2>5. \A a, b \in In(LengthBands(fp), Longest(x)) : a = b
    BY <2>3, LengthChargedOnce
  <2>6. \A a, b \in In(HomeBands(fp), HeavyKg(fp, x)) : a = b
    <3>1. CASE HomeBands(fp) = {}
      BY <3>1 DEF In
    <3>2. CASE HomeBands(fp) \in {HunterHomes, TntHomes}
      <4> DEFINE bands == HomeBands(fp)
                 n == HeavyKg(fp, x)
      <4> HIDE DEF bands, n
      <4>1. bands \in {HunterHomes, TntHomes} /\ n \in Nat
        BY <2>3, <3>2 DEF bands, n
      <4>2. \A a, b \in In(bands, n) : a = b
        BY <4>1, HomeLadders DEF Ladder
      <4> QED
        BY <4>2 DEF bands, n
    <3> QED
      BY <3>1, <3>2 DEF HomeBands
  <2>7. \A a, b \in AlliedHome(OrderDead(ls), OrderCubic("Allied", ls)) : a = b
    <3> DEFINE d == OrderDead(ls)
               c == OrderCubic("Allied", ls)
    <3>1. d \in Int /\ c \in Int
      BY <2>4
    <3> HIDE DEF d, c
    <3>2. \A a, b \in AlliedHome(d, c) : a = b
      BY <3>1, HomeChargedOnce, Zenon
    <3> QED
      BY <3>2 DEF d, c
  <2> HIDE DEF ls, x
  <2>8. Cardinality(In(LengthBands(fp), Longest(x))) <= 1
    BY <2>5, AtMostOne
  <2>9. Cardinality(In(HomeBands(fp), HeavyKg(fp, x))) <= 1
    BY <2>6, AtMostOne
  <2>10. Cardinality(AlliedHome(OrderDead(ls), OrderCubic("Allied", ls))) <= 1
    BY <2>7, AtMostOne
  <2> QED
    BY <2>8, <2>9, <2>10 DEF ls, x
<1> QED
  BY <1>1, LinesAlways, PTL

-----------------------------------------------------------------------------
(* Offers and special rows.                                                *)

LiveQuote ==
    [fp : DOMAIN Offers \cup SpecialFps, service : Services \cup {"none"}, set : Sets,
     offer : Nat, fee : Nat, etd : Nat, air : BOOLEAN, extra : Nat, price : Nat, marked : BOOLEAN]

\* An FP has one quote for a service it offers and a set.
OneEach(Q) ==
    /\ \A p, q \in Q : ~IsSpecial(p) /\ p.fp = q.fp /\ p.service = q.service /\ p.set = q.set => p = q
    /\ \A q \in Q : ~IsSpecial(q) => \E o \in Offers[q.fp] : q.service = o.service

\* r is q, but for its fee and what is made of it.
SameOffer(q, r) ==
    /\ r.fp = q.fp /\ r.service = q.service /\ r.set = q.set
    /\ r.offer = q.offer /\ r.etd = q.etd /\ r.air = q.air

LEMMA FpsFinite == IsFiniteSet(DOMAIN Offers) /\ DOMAIN Offers \cap SpecialFps = {}
<1>1. IsFiniteSet({"TNT"} \cup {"Allied"} \cup {"Hunter"} \cup {"Camerons"} \cup {"Northline"}
                  \cup {"Hi-Trans"} \cup {"Bluestar"} \cup {"Toll"} \cup {"StarTrack"})
  BY FS_Singleton, FS_Union
<1>2. Tariffed = {"TNT"} \cup {"Allied"} \cup {"Hunter"} \cup {"Camerons"} \cup {"Northline"}
                  \cup {"Hi-Trans"} \cup {"Bluestar"} \cup {"Toll"} \cup {"StarTrack"}
  BY DEF Tariffed
<1>3. DOMAIN Offers \in SUBSET Tariffed
  BY RatingAssumption
<1>4. IsFiniteSet(Tariffed)
  BY <1>1, <1>2
<1>5. IsFiniteSet(DOMAIN Offers)
  BY <1>3, <1>4, FS_Subset
<1>6. Tariffed \cap SpecialFps = {}
  BY DEF Tariffed, SpecialFps
<1> QED
  BY <1>3, <1>5, <1>6

\* Of Allied there is one quote for a set.
LEMMA ServicesAre ==
    ASSUME NEW Q \in SUBSET LiveQuote, OneEach(Q), NEW q \in Q, ~IsSpecial(q)
    PROVE  /\ q.fp \in DOMAIN Offers /\ q.service \in Services
           /\ \A p \in Q : p.fp = "Allied" /\ q.fp = "Allied" => p.service = q.service
<1>1. \A p \in Q : ~IsSpecial(p) => p.fp \in DOMAIN Offers
  BY DEF LiveQuote, IsSpecial
<1>2. PICK o \in Offers[q.fp] : q.service = o.service
  BY DEF OneEach
<1>3. q.service \in Services
  BY <1>1, <1>2, OffersAssumption
<1>4. ASSUME NEW p \in Q, p.fp = "Allied", q.fp = "Allied" PROVE p.service = q.service
  <2>1. ~IsSpecial(p)
    BY <1>4 DEF IsSpecial
  <2>2. PICK a \in Offers["Allied"] : p.service = a.service
    BY <1>4, <2>1 DEF OneEach
  <2> QED
    BY <1>1, <1>2, <1>4, <2>2, OffersAssumption
<1> QED
  BY <1>1, <1>3, <1>4

\* The FPs' quotes are finitely many.
LEMMA RowsFinite ==
    ASSUME NEW Q \in SUBSET LiveQuote, OneEach(Q)
    PROVE  IsFiniteSet({q \in Q : ~IsSpecial(q)})
<1> DEFINE R == {q \in Q : ~IsSpecial(q)}
           T == ((DOMAIN Offers) \X Services) \X Sets
           f == [q \in R |-> <<<<q.fp, q.service>>, q.set>>]
<1>1. IsFiniteSet(T)
  <2>1. IsFiniteSet({"original"} \cup {"scanned"})
    BY FS_Singleton, FS_Union
  <2>2. Sets = {"original"} \cup {"scanned"}
    BY DEF Sets
  <2>3. IsFiniteSet(Sets)
    BY <2>1, <2>2
  <2> DEFINE D == DOMAIN Offers
  <2>4. IsFiniteSet(D)
    BY FpsFinite
  <2> HIDE DEF D
  <2>5. IsFiniteSet(D \X Services)
    BY <2>4, OffersAssumption, FS_Product
  <2>6. IsFiniteSet((D \X Services) \X Sets)
    BY <2>3, <2>5, FS_Product
  <2> QED
    BY <2>6 DEF D
<1>2. f \in [R -> T]
  <2> SUFFICES ASSUME NEW q \in R
               PROVE  q.fp \in DOMAIN Offers /\ q.service \in Services /\ q.set \in Sets
    OBVIOUS
  <2> QED
    BY ServicesAre DEF LiveQuote
<1>3. \A p, q \in R : f[p] = f[q] => p = q
  BY DEF OneEach
<1> HIDE DEF f, T
<1>4. f \in Injection(R, T)
  BY <1>2, <1>3, Zenon DEF Injection, IsInjective
<1> QED
  BY <1>1, <1>4, FS_Injection

LEMMA OwnFeesFinite ==
    ASSUME NEW Q \in SUBSET LiveQuote, OneEach(Q)
    PROVE  OwnFees(Q) \in SUBSET Nat /\ IsFiniteSet(OwnFees(Q))
<1> DEFINE R == {q \in Q : ~IsSpecial(q)}
           S == {q \in Q : q.fp \in ClientRated}
           f == [q \in S |-> q.fee]
<1>1. S \in SUBSET R
  BY RatingAssumption, FpsFinite DEF IsSpecial
<1>2. IsFiniteSet(S)
  BY <1>1, RowsFinite, FS_Subset
<1>3. OwnFees(Q) = {f[q] : q \in S}
  BY DEF OwnFees
<1>4. OwnFees(Q) \in SUBSET Nat
  BY <1>3 DEF LiveQuote
<1> HIDE DEF S, f
<1> QED
  BY <1>2, <1>3, <1>4, ValuesFinite

\* A share of at most 100% is a part.
LEMMA ShareIsPart ==
    ASSUME NEW d \in Nat, NEW g \in 0..100
    PROVE  (d * g) \div 100 \in 0..d
<1>1. d * g \in Nat /\ d * g <= d * 100
  <2>1. d * (100 - g) \in Nat
    OBVIOUS
  <2>2. d * (100 - g) = d * 100 - d * g
    OBVIOUS
  <2>3. d * g \in Nat
    OBVIOUS
  <2> QED
    BY <2>1, <2>2, <2>3
<1> DEFINE n == d * g
<1> HIDE DEF n
<1>2. n \in Nat /\ n <= d * 100
  BY <1>1 DEF n
<1>3. n \div 100 \in 0..d
  BY <1>2
<1> QED
  BY <1>3 DEF n

\* Raising keeps each quote with its offer, and lifts none over the client's own
\* lowest rate.
LEMMA InterpolatedIs ==
    ASSUME NEW Q \in SUBSET LiveQuote, OneEach(Q)
    PROVE  /\ Interpolated(Q) \in SUBSET LiveQuote
           /\ \A r \in Interpolated(Q) : \E q \in Q :
                 /\ SameOffer(q, r) /\ r.extra = q.extra
                 /\ r.fee = q.fee \/ /\ q.fp \notin ClientRated /\ ~IsSpecial(q)
                                     /\ \E fee \in OwnFees(Q) : TRUE
                                     /\ \A fee \in OwnFees(Q) : r.fee <= fee
           /\ \A q \in Q : \E r \in Interpolated(Q) :
                 SameOffer(q, r) /\ (IsSpecial(q) \/ q.fp \in ClientRated => r = q)
           /\ OneEach(Interpolated(Q))
<1> DEFINE lowest == Min(OwnFees(Q))
           rise(q) == ((lowest - q.fee) * Gap) \div 100
           Up(q) == [q EXCEPT !.fee = @ + rise(q)]
           Stays(q) == IsSpecial(q) \/ q.fp \in ClientRated \/ q.fee >= lowest
           R == Interpolated(Q)
<1>1. CASE OwnFees(Q) = {}
  <2>1. Interpolated(Q) = Q
    BY <1>1 DEF Interpolated
  <2>2. \A q \in Q : SameOffer(q, q)
    BY DEF SameOffer
  <2> QED
    BY <2>1, <2>2
<1>2. CASE OwnFees(Q) # {}
  <2>1. lowest \in Nat /\ \A fee \in OwnFees(Q) : lowest <= fee
    <3>1. OwnFees(Q) \in SUBSET Int
      BY OwnFeesFinite
    <3> QED
      BY <1>2, <3>1, OwnFeesFinite, MinOf
  <2>2. R = {IF Stays(q) THEN q ELSE Up(q) : q \in Q}
    BY <1>2 DEF Interpolated
  <2>3. ASSUME NEW q \in Q, ~Stays(q)
        PROVE  Up(q) \in LiveQuote /\ SameOffer(q, Up(q)) /\ Up(q).fee <= lowest /\ Up(q).extra = q.extra
    <3>1. q \in LiveQuote /\ q.fee \in Nat
      BY DEF LiveQuote
    <3>2. lowest - q.fee \in Nat
      BY <2>1, <2>3, <3>1
    <3>3. rise(q) \in 0..(lowest - q.fee)
      BY <3>2, ShareIsPart, RatingAssumption
    <3> DEFINE n == rise(q)
    <3> HIDE DEF lowest, n
    <3>4. n \in 0..(lowest - q.fee)
      BY <3>3 DEF n
    <3>5. q.fee + n \in Nat /\ q.fee + n <= lowest
      BY <2>1, <3>1, <3>4
    <3>6. Up(q) = [q EXCEPT !.fee = q.fee + n]
      BY DEF n
    <3> HIDE DEF Up, rise
    <3> QED
      BY <3>1, <3>5, <3>6 DEF LiveQuote, SameOffer
  <2> HIDE DEF R, Up, rise, lowest
  <2>4. \A q \in Q : SameOffer(q, q)
    BY DEF SameOffer
  <2>5. R \in SUBSET LiveQuote
    BY <2>2, <2>3
  <2>6. ASSUME NEW r \in R
        PROVE  \E q \in Q : /\ SameOffer(q, r) /\ r.extra = q.extra
                            /\ r.fee = q.fee \/ /\ q.fp \notin ClientRated /\ ~IsSpecial(q)
                                                /\ \E fee \in OwnFees(Q) : TRUE
                                                /\ \A fee \in OwnFees(Q) : r.fee <= fee
    <3>1. PICK q \in Q : r = IF Stays(q) THEN q ELSE Up(q)
      BY <2>2
    <3>2. CASE Stays(q)
      BY <2>4, <3>1, <3>2
    <3>3. CASE ~Stays(q)
      <4>1. r = Up(q) /\ SameOffer(q, r) /\ r.fee <= lowest /\ r.extra = q.extra /\ r.fee \in Nat
        BY <2>3, <3>1, <3>3 DEF LiveQuote
      <4>2. \A fee \in OwnFees(Q) : fee \in Nat
        BY OwnFeesFinite
      <4>3. \A fee \in OwnFees(Q) : r.fee <= fee
        BY <2>1, <4>1, <4>2
      <4> QED
        BY <1>2, <3>3, <4>1, <4>3
    <3> QED
      BY <3>2, <3>3
  <2>7. \A q \in Q : \E r \in R : SameOffer(q, r) /\ (IsSpecial(q) \/ q.fp \in ClientRated => r = q)
    BY <2>2, <2>3, <2>4
  <2>8. OneEach(R)
    <3>1. ASSUME NEW p \in R, NEW r \in R, ~IsSpecial(p), p.fp = r.fp, p.service = r.service,
                 p.set = r.set
          PROVE  p = r
      <4>1. PICK a \in Q : p = IF Stays(a) THEN a ELSE Up(a)
        BY <2>2
      <4>2. PICK b \in Q : r = IF Stays(b) THEN b ELSE Up(b)
        BY <2>2
      <4>3. SameOffer(a, p) /\ SameOffer(b, r)
        BY <2>3, <2>4, <4>1, <4>2
      <4>4. a = b
        BY <3>1, <4>3 DEF OneEach, SameOffer, IsSpecial
      <4> QED
        BY <4>1, <4>2, <4>4
    <3>2. ASSUME NEW r \in R, ~IsSpecial(r) PROVE \E o \in Offers[r.fp] : r.service = o.service
      <4>1. PICK q \in Q : SameOffer(q, r)
        BY <2>6
      <4> QED
        BY <3>2, <4>1 DEF OneEach, SameOffer, IsSpecial
    <3> QED
      BY <3>1, <3>2 DEF OneEach
  <2> QED
    BY <2>5, <2>6, <2>7, <2>8 DEF R
<1> QED
  BY <1>1, <1>2

-----------------------------------------------------------------------------
(* The quotes by id.                                                       *)

\* Every quote of an FP is listed, once.
LEMMA ListedIs ==
    ASSUME NEW Q \in SUBSET LiveQuote, OneEach(Q), NEW arrival \in Arrivals
    PROVE  LET rows == {q \in Q : ~IsSpecial(q)}
               s == Listed(Q, arrival)
           IN  /\ Cardinality(rows) \in Nat /\ DOMAIN s = 1..Cardinality(rows)
               /\ \A i \in DOMAIN s : s[i] \in rows
               /\ \A i, j \in DOMAIN s : s[i] = s[j] => i = j
               /\ \A q \in rows : \E i \in DOMAIN s : s[i] = q
<1> DEFINE rows == {q \in Q : ~IsSpecial(q)}
           s == Listed(Q, arrival)
           n == Cardinality(rows)
           At(q) == arrival[q.fp][q.service]
           First(p, q) == \/ p.set = q.set /\ At(p) < At(q)
                          \/ p.set = "original" /\ q.set = "scanned"
           B == {z \in rows \X rows : First(z[1], z[2])}
           before == [q \in rows |-> {p \in rows : First(p, q)}]
           rank == [q \in rows |-> Cardinality(before[q])]
<1>1. \A p, q \in rows : <<p, q>> \in B <=> First(p, q)
  OBVIOUS
<1>2. ASSUME NEW q \in rows
      PROVE  /\ q.fp \in DOMAIN Offers /\ q.service \in Services
             /\ q.set \in {"original", "scanned"} /\ At(q) \in Nat
  <2>1. q.fp \in DOMAIN Offers /\ q.service \in Services
    BY ServicesAre
  <2>2. q.set \in {"original", "scanned"}
    BY DEF LiveQuote, Sets
  <2> QED
    BY <2>1, <2>2, OffersAssumption
<1>3. ASSUME NEW p \in rows, NEW q \in rows, p # q PROVE First(p, q) \/ First(q, p)
  <2>1. p.set # q.set \/ p.fp # q.fp \/ p.service # q.service
    BY <1>3 DEF OneEach
  <2>2. p.fp # q.fp \/ p.service # q.service => At(p) # At(q)
    BY <1>2, OffersAssumption
  <2>3. CASE p.set # q.set
    BY <1>2, <2>3
  <2>4. CASE p.set = q.set
    BY <1>2, <2>1, <2>2, <2>4
  <2> QED
    BY <2>3, <2>4
<1>4. \A p \in rows : ~First(p, p)
  BY <1>2
<1>5. \A p, q, r \in rows : First(p, q) /\ First(q, r) => First(p, r)
  BY <1>2
<1>6. /\ n \in Nat /\ \A q \in rows : rank[q] \in Nat
      /\ \A p, q \in rows : rank[p] = rank[q] => p = q
      /\ \A i \in 1..n : \E q \in rows : rank[q] = i - 1
  <2>1. IsFiniteSet(rows)
    BY RowsFinite
  <2>2. /\ \A p, q \in rows : p # q => <<p, q>> \in B \/ <<q, p>> \in B
        /\ \A p \in rows : <<p, p>> \notin B
        /\ \A p, q, r \in rows : <<p, q>> \in B /\ <<q, r>> \in B => <<p, r>> \in B
    <3> HIDE DEF rows, B, First
    <3> QED
      BY <1>1, <1>3, <1>4, <1>5
  <2> HIDE DEF rows, B, First
  <2>3. \A q \in rows : \A p : p \in before[q] <=> p \in rows /\ <<p, q>> \in B
    <3> HIDE DEF rows, B, First
    <3> QED
      BY <1>1
  <2>4. \A q \in rows : rank[q] = Cardinality(before[q])
    OBVIOUS
  <2> HIDE DEF rows, B, First, before, rank
  <2> QED
    BY <2>1, <2>2, <2>3, <2>4, Ranks
<1>7. \A q \in rows : rank[q] = Cardinality({p \in rows : First(p, q)})
  OBVIOUS
<1>8. s = [i \in 1..n |-> CHOOSE q \in rows : Cardinality({p \in rows : First(p, q)}) = i - 1]
  BY DEF Listed
<1>9. DOMAIN s = 1..n /\ \A i \in 1..n : s[i] \in rows /\ rank[s[i]] = i - 1
  <2> HIDE DEF s, before, rank, First, n, rows
  <2> SUFFICES ASSUME NEW i \in 1..n PROVE s[i] \in rows /\ rank[s[i]] = i - 1
    BY <1>8
  <2>1. s[i] = CHOOSE q \in rows : Cardinality({p \in rows : First(p, q)}) = i - 1
    BY <1>8
  <2>2. \E q \in rows : Cardinality({p \in rows : First(p, q)}) = i - 1
    BY <1>6, <1>7
  <2>3. s[i] \in rows /\ Cardinality({p \in rows : First(p, s[i])}) = i - 1
    BY <2>1, <2>2
  <2> QED
    BY <1>7, <2>3
<1>10. ASSUME NEW q \in rows PROVE \E i \in 1..n : s[i] = q
  <2> HIDE DEF s, before, rank, First, rows, B
  <2>1. IsFiniteSet(rows)
    BY RowsFinite DEF rows
  <2>2. rank[q] <= n - 1
    <3> DEFINE S == {p \in rows : First(p, q)}
    <3>1. S \in SUBSET (rows \ {q})
      BY <1>4
    <3>2. IsFiniteSet(rows \ {q}) /\ Cardinality(rows \ {q}) = n - 1
      BY <2>1, FS_RemoveElement
    <3>3. rank[q] = Cardinality(S)
      BY <1>7
    <3> HIDE DEF S, n
    <3> QED
      BY <3>1, <3>2, <3>3, FS_Subset
  <2> HIDE DEF n
  <2>3. rank[q] + 1 \in 1..n
    BY <1>6, <2>2
  <2>4. s[rank[q] + 1] \in rows /\ rank[s[rank[q] + 1]] = rank[q]
    BY <1>6, <1>9, <2>3
  <2> QED
    BY <1>6, <2>3, <2>4
<1>11. ASSUME NEW i \in 1..n, NEW j \in 1..n, s[i] = s[j] PROVE i = j
  <2> HIDE DEF rank
  <2>1. i - 1 = j - 1
    BY <1>9, <1>11
  <2> HIDE DEF s, n
  <2> QED
    BY <1>6, <2>1
<1>12. /\ n \in Nat /\ DOMAIN s = 1..n
       /\ \A i \in DOMAIN s : s[i] \in rows
       /\ \A i, j \in DOMAIN s : s[i] = s[j] => i = j
       /\ \A q \in rows : \E i \in DOMAIN s : s[i] = q
  <2> HIDE DEF s, n, rank
  <2> QED
    BY <1>6, <1>9, <1>10, <1>11
<1> HIDE DEF rows, s, n
<1> QED
  BY <1>12 DEF rows, s, n

-----------------------------------------------------------------------------
(* What becomes of the listed quotes.                                      *)

AlliedOn(s) == {i \in DOMAIN s : s[i].fp = "Allied"}

Works(s) ==
    {w \in [extra : [DOMAIN s -> Nat], hidden : SUBSET AlliedOn(s), gone : SUBSET AlliedOn(s),
            list : {"own", "query", "read"}, read : SUBSET (DOMAIN s),
            seen : [DOMAIN s -> Nat] \cup {<< >>}] :
       w.list = "read" => w.seen \in [DOMAIN s -> Nat]}

LEMMA OnListIs ==
    ASSUME NEW s, NEW w \in Works(s)
    PROVE  OnList(w, s) \in SUBSET (DOMAIN s)
  BY DEF OnList, Works

\* Saving a copy's surcharge hands on the same list, and shows no hidden row but one that
\* its copy shows.
Continues(s, w, c) ==
    c \in Works(s) /\ c.list = w.list /\ c.gone = w.gone /\ w.hidden \cap w.gone \subseteq c.hidden

LEMMA ChargedIs ==
    ASSUME NEW s, NEW w \in Works(s), NEW i \in DOMAIN s, NEW charge \in Nat
    PROVE  Continues(s, w, Charged(w, i, charge))
<1> DEFINE extra == [w.extra EXCEPT ![i] = charge]
           hidden == (w.hidden \ {i}) \cup (w.gone \cap {i})
<1>1. extra \in [DOMAIN s -> Nat] /\ hidden \in SUBSET AlliedOn(s)
  BY DEF Works
<1>2. Charged(w, i, charge) = [w EXCEPT !.extra = extra, !.hidden = hidden]
  BY DEF Charged, Works
<1>3. w.hidden \cap w.gone \subseteq hidden
  OBVIOUS
<1> HIDE DEF extra, hidden
<1> QED
  BY <1>1, <1>2, <1>3 DEF Works, Continues

LEMMA ConfirmedIs ==
    ASSUME NEW s, NEW n \in Nat, DOMAIN s = 1..n, NEW w \in Works(s), NEW bulky \in BOOLEAN
    PROVE  /\ Confirmed(w, s, bulky) \in Works(s)
           /\ /\ bulky
              /\ \A i, j \in AlliedOn(s) : i = j
              /\ w.list = "own" \/ AlliedOn(s) \subseteq w.hidden \cap w.gone
              => AlliedOn(s) \subseteq Confirmed(w, s, bulky).hidden \cap Confirmed(w, s, bulky).gone
<1> DEFINE allied == {i \in OnList(w, s) : s[i].fp = "Allied"}
           hides == [w EXCEPT !.hidden = w.hidden \cup {Min(allied)}, !.list = "query",
                              !.gone = IF w.list = "own" THEN {Min(allied)} ELSE w.gone]
           reads == [w EXCEPT !.list = "read", !.read = OnList(w, s), !.seen = w.extra]
<1>1. Confirmed(w, s, bulky) = IF bulky /\ allied # {} THEN hides
                               ELSE IF w.list = "query" THEN reads ELSE w
  BY DEF Confirmed
<1>2. allied \in SUBSET AlliedOn(s)
  BY OnListIs DEF AlliedOn
<1>3. allied # {} => Min(allied) \in allied
  <2>1. IsFiniteSet(allied) /\ allied \in SUBSET Int
    <3>1. IsFiniteSet(1..n)
      BY FS_Interval
    <3>2. allied \in SUBSET (1..n)
      BY OnListIs
    <3> HIDE DEF allied
    <3>3. IsFiniteSet(allied)
      BY <3>1, <3>2, FS_Subset
    <3>4. \A k \in 1..n : k \in Int
      OBVIOUS
    <3> QED
      BY <3>2, <3>3, <3>4
  <2> HIDE DEF allied
  <2> QED
    BY <2>1, MinOf
<1> DEFINE m == Min(allied)
<1>4. CASE bulky /\ allied # {}
  <2>1. Confirmed(w, s, bulky) = hides /\ m \in AlliedOn(s)
    BY <1>1, <1>2, <1>3, <1>4
  <2>2. hides = [w EXCEPT !.hidden = w.hidden \cup {m}, !.list = "query",
                          !.gone = IF w.list = "own" THEN {m} ELSE w.gone]
    OBVIOUS
  <2> HIDE DEF m, hides, allied
  <2> DEFINE H == w.hidden \cup {m}
             G == IF w.list = "own" THEN {m} ELSE w.gone
  <2>3. H \in SUBSET AlliedOn(s) /\ G \in SUBSET AlliedOn(s)
        /\ hides = [w EXCEPT !.hidden = H, !.list = "query", !.gone = G]
    BY <2>1, <2>2 DEF Works
  <2> HIDE DEF H, G
  <2>4. hides \in Works(s) /\ hides.hidden = H /\ hides.gone = G
    BY <2>3 DEF Works
  <2> QED
    BY <2>1, <2>4 DEF H, G
<1>5. CASE ~(bulky /\ allied # {}) /\ w.list = "query"
  <2>1. Confirmed(w, s, bulky) = reads
    BY <1>1, <1>5
  <2> DEFINE L == OnList(w, s)
  <2>2. L \in SUBSET (DOMAIN s) /\ reads = [w EXCEPT !.list = "read", !.read = L, !.seen = w.extra]
    BY OnListIs
  <2> HIDE DEF L, reads, allied
  <2>3. reads \in Works(s) /\ reads.hidden = w.hidden /\ reads.gone = w.gone
    BY <2>2 DEF Works
  <2> QED
    BY <1>5, <2>1, <2>3
<1>6. CASE ~(bulky /\ allied # {}) /\ w.list # "query"
  <2>1. Confirmed(w, s, bulky) = w
    BY <1>1, <1>6
  <2>2. w.list = "own" => allied = AlliedOn(s)
    BY DEF OnList, AlliedOn
  <2> QED
    BY <1>6, <2>1, <2>2
<1> QED
  BY <1>4, <1>5, <1>6

LEMMA WorkIs ==
    ASSUME NEW s, \A i \in DOMAIN s : s[i].extra \in Nat
    PROVE  Work(s) \in Works(s) /\ Work(s).list = "own" /\ Work(s).hidden = {} /\ Work(s).gone = {}
<1> DEFINE extra == [i \in DOMAIN s |-> s[i].extra]
<1>1. extra \in [DOMAIN s -> Nat]
  OBVIOUS
<1>2. Work(s) = [extra |-> extra, hidden |-> {}, gone |-> {}, list |-> "own", read |-> {}, seen |-> << >>]
  BY DEF Work
<1> HIDE DEF extra
<1> QED
  BY <1>1, <1>2 DEF Works

\* The pass over the quotes hides none but Allied's; where all of them are bulky
\* and picked up at a home, and Allied has one, it hides that one.
LEMMA WorkedIs ==
    ASSUME NEW s, NEW n \in Nat, DOMAIN s = 1..n, NEW extras, NEW now, NEW sets,
           \A i \in DOMAIN s : s[i].extra \in Nat,
           \A i \in DOMAIN s : s[i].set \in sets => extras[s[i].fp][s[i].service][s[i].set] \in Nat
    PROVE  /\ Worked(s, extras, now, sets) \in Works(s)
           /\ /\ \A i \in DOMAIN s : s[i].set \in sets /\ HasBulky(now[s[i].set])
              /\ place.from = "residential"
              /\ \A i, j \in AlliedOn(s) : i = j
              => AlliedOn(s) \subseteq Worked(s, extras, now, sets).hidden
<1> DEFINE D == DOMAIN s
           W == Works(s)
           Bulky(i) == place.from = "residential" /\ HasBulky(now[s[i].set])
           Step(w, i) ==
               IF s[i].set \notin sets THEN w
               ELSE Confirmed(Charged(w, i, extras[s[i].fp][s[i].service][s[i].set]), s, Bulky(i))
           op == [i \in D |-> [w \in W |-> Step(w, i)]]
           pick == [t \in SUBSET D |-> Max(t)]
           ids == [i \in D |-> i]
           Passes(h) == h = [t \in SUBSET (DOMAIN ids) |-> IF t = {} THEN Work(s)
                                                           ELSE Step(h[t \ {Max(t)}], ids[Max(t)])]
           All == /\ \A i \in D : s[i].set \in sets /\ Bulky(i)
                  /\ \A i, j \in AlliedOn(s) : i = j
<1>1. ASSUME NEW w \in W, NEW i \in D PROVE Step(w, i) \in W
  <2>1. CASE s[i].set \notin sets
    BY <2>1
  <2>2. CASE s[i].set \in sets
    <3> DEFINE c == Charged(w, i, extras[s[i].fp][s[i].service][s[i].set])
    <3>1. c \in Works(s)
      BY <2>2, ChargedIs DEF Continues
    <3>2. Bulky(i) \in BOOLEAN
      OBVIOUS
    <3> HIDE DEF c, Bulky
    <3>3. Confirmed(c, s, Bulky(i)) \in Works(s)
      BY <3>1, <3>2, ConfirmedIs
    <3> QED
      BY <2>2, <3>3 DEF c
  <2> QED
    BY <2>1, <2>2
<1>2. IsFiniteSet(D) /\ \A t \in SUBSET D : t # {} => Max(t) \in t
  <2>1. IsFiniteSet(D)
    BY FS_Interval
  <2>2. ASSUME NEW t \in SUBSET D, t # {} PROVE Max(t) \in t
    BY <2>1, <2>2, FS_Subset, MaxOf
  <2> QED
    BY <2>1, <2>2
<1>3. Work(s) \in W
  BY WorkIs
<1>4. \E h : Passes(h)
  <2> HIDE DEF W, Step
  <2>1. op \in [D -> [W -> W]]
    BY <1>1
  <2>2. \A t \in SUBSET D : t # {} => pick[t] \in t
    BY <1>2
  <2> HIDE DEF op, pick, D
  <2>3. PICK h : Iterates(D, Work(s), op, pick, h)
    BY <1>2, <2>2, IterateExists
  <2>4. h \in [SUBSET D -> W]
    BY <1>2, <1>3, <2>1, <2>2, <2>3, IterateType
  <2>5. h = [t \in SUBSET D |-> IF t = {} THEN Work(s) ELSE op[pick[t]][h[t \ {pick[t]}]]]
    BY <2>3 DEF Iterates
  <2>6. ASSUME NEW t \in SUBSET D, t # {}
        PROVE  op[pick[t]][h[t \ {pick[t]}]] = Step(h[t \ {Max(t)}], ids[Max(t)])
    <3>1. pick[t] = Max(t) /\ Max(t) \in D /\ ids[Max(t)] = Max(t)
      BY <1>2, <2>6 DEF pick
    <3>2. h[t \ {Max(t)}] \in W
      BY <2>4
    <3> QED
      BY <3>1, <3>2 DEF op
  <2>7. DOMAIN ids = D
    OBVIOUS
  <2> HIDE DEF ids
  <2>8. Passes(h)
    BY <2>5, <2>6, <2>7
  <2> HIDE DEF Passes
  <2> QED
    BY <2>8
<1> DEFINE h == CHOOSE g : Passes(g)
<1>5. Worked(s, extras, now, sets) = h[D]
  <2>1. Worked(s, extras, now, sets) = h[DOMAIN ids]
    BY Zenon DEF Worked, FoldLeft, MapThenFoldSet
  <2> QED
    BY <2>1
<1>6. Passes(h)
  <2> HIDE DEF Passes
  <2> QED
    BY <1>4
<1>7. h[{}] = Work(s) /\ \A t \in SUBSET D : t # {} => h[t] = Step(h[t \ {Max(t)}], Max(t))
  <2>1. DOMAIN ids = D /\ \A t \in SUBSET D : t # {} => ids[Max(t)] = Max(t)
    BY <1>2
  <2> HIDE DEF h, Step, ids
  <2> QED
    BY <1>6, <2>1
<1> DEFINE Good(t) == /\ h[t] \in W
                      /\ All /\ t # {} => AlliedOn(s) \subseteq h[t].hidden \cap h[t].gone
           P == {t \in SUBSET D : Good(t)}
<1>8. {} \in P
  <2> HIDE DEF h
  <2> QED
    BY <1>3, <1>7
<1>9. ASSUME NEW t \in SUBSET D, t # {}, \A x \in t : t \ {x} \in P PROVE t \in P
  <2> DEFINE i == Max(t)
             u == t \ {i}
             w == h[u]
             c == Charged(w, i, extras[s[i].fp][s[i].service][s[i].set])
  <2>1. i \in t /\ Good(u)
    BY <1>2, <1>9
  <2>2. w \in W /\ h[t] = Step(w, i)
    BY <1>7, <1>9, <2>1
  <2>3. h[t] \in W
    BY <1>1, <2>1, <2>2
  <2>4. ASSUME All PROVE AlliedOn(s) \subseteq h[t].hidden \cap h[t].gone
    <3>1. s[i].set \in sets /\ Bulky(i) /\ h[t] = Confirmed(c, s, Bulky(i))
      BY <2>1, <2>2, <2>4
    <3>2. /\ c \in Works(s) /\ c.list = w.list /\ c.gone = w.gone
          /\ w.hidden \cap w.gone \subseteq c.hidden
      <4>1. i \in DOMAIN s /\ extras[s[i].fp][s[i].service][s[i].set] \in Nat
        BY <2>1, <3>1
      <4>2. w \in Works(s)
        BY <2>2
      <4> DEFINE charge == extras[s[i].fp][s[i].service][s[i].set]
      <4>3. c = Charged(w, i, charge) /\ charge \in Nat
        BY <4>1
      <4> HIDE DEF h, i, D, w, c, charge
      <4>4. Continues(s, w, c)
        BY <4>1, <4>2, <4>3, ChargedIs
      <4> QED
        BY <4>4 DEF Continues
    <3>3. c.list = "own" \/ AlliedOn(s) \subseteq c.hidden \cap c.gone
      <4>1. CASE u = {}
        <5>1. w = Work(s)
          BY <1>7, <4>1
        <5> QED
          BY <3>2, <5>1, WorkIs
      <4>2. CASE u # {}
        BY <2>1, <2>4, <3>2, <4>2
      <4> QED
        BY <4>1, <4>2
    <3>4. Bulky(i) \in BOOLEAN /\ \A k, j \in AlliedOn(s) : k = j
      BY <2>4
    <3> HIDE DEF c, Bulky, h, i, D, W
    <3> QED
      BY <3>1, <3>2, <3>3, <3>4, ConfirmedIs DEF D
  <2> QED
    BY <2>3, <2>4
<1>10. P = SUBSET D
  <2> HIDE DEF P, D
  <2>1. P \in SUBSET SUBSET D
    BY DEF P
  <2> QED
    <3>1. \A t \in SUBSET D : t # {} /\ (\A x \in t : t \ {x} \in P) => t \in P
      BY <1>9
    <3> QED
      BY <1>2, <1>8, <2>1, <3>1, AllSubsets
<1>11. Good(D)
  BY <1>10
<1> HIDE DEF h
<1>12. h[D] \in W /\ (All => AlliedOn(s) \subseteq h[D].hidden)
  <2>1. D = {} => AlliedOn(s) = {}
    BY DEF AlliedOn
  <2> QED
    BY <1>11, <2>1
<1> QED
  BY <1>5, <1>12

-----------------------------------------------------------------------------
(* Prices.                                                                 *)

LEMMA MarkedUpIs ==
    ASSUME NEW q \in LiveQuote, ~IsSpecial(q)
    PROVE  MarkedUp(q) \in LiveQuote /\ SameOffer(q, MarkedUp(q)) /\ MarkedUp(q).fee = q.fee
<1>1. q.fp \in DOMAIN Offers /\ q.fee \in Nat /\ q.extra \in Nat /\ Levy[q.fp] \in Nat
  BY RatingAssumption DEF LiveQuote, IsSpecial
<1>2. Cost(q) \in Nat
  <2> DEFINE base == IF q.fp \in {"Hunter", "Allied", "Northline", "Camerons"} THEN q.fee + q.extra
                     ELSE q.fee
             n == base * Levy[q.fp]
  <2>1. base \in Nat
    BY <1>1
  <2> HIDE DEF base
  <2>2. n \in Nat
    BY <1>1, <2>1
  <2> HIDE DEF n
  <2>3. n \div 100 \in Nat
    BY <2>2
  <2>4. Cost(q) = q.fee + q.extra + n \div 100
    BY DEF Cost, base, n
  <2> QED
    BY <1>1, <2>3, <2>4
<1>3. PriceOf(q) \in Nat
  <2> DEFINE m == Cost(q) * ClientMarkUp(q)
             share == m \div 100
  <2>1. ClientMarkUp(q) \in Nat /\ MinMarkUp \in Nat
    BY RatingAssumption DEF ClientMarkUp
  <2>2. m \in Nat
    BY <1>2, <2>1
  <2> HIDE DEF m
  <2>3. share \in Nat
    BY <2>2
  <2> HIDE DEF share
  <2>4. Max({share, MinMarkUp}) \in Nat
    BY <2>1, <2>3, MaxOfTwo
  <2>5. PriceOf(q) = Cost(q) + (IF Cost(q) > FromCost THEN share ELSE Max({share, MinMarkUp}))
    BY DEF PriceOf, m, share
  <2> QED
    BY <1>2, <2>3, <2>4, <2>5
<1> DEFINE n == PriceOf(q)
<1>4. MarkedUp(q) = [q EXCEPT !.price = n, !.marked = TRUE]
  BY DEF MarkedUp
<1> HIDE DEF n
<1>5. n \in Nat
  BY <1>3 DEF n
<1> QED
  BY <1>4, <1>5 DEF LiveQuote, SameOffer

\* What is saved for a listed quote that is not hidden.
SavedRow(w, s, i) ==
    IF i \in OnList(w, s)
    THEN MarkedUp([s[i] EXCEPT !.extra = IF w.list = "read" THEN w.seen[i] ELSE w.extra[i]])
    ELSE [s[i] EXCEPT !.extra = w.extra[i], !.price = s[i].fee, !.marked = FALSE]

LEMMA SavedIs ==
    ASSUME NEW s, \A i \in DOMAIN s : s[i] \in LiveQuote /\ ~IsSpecial(s[i]), NEW w \in Works(s)
    PROVE  /\ Saved(w, s) = {SavedRow(w, s, i) : i \in DOMAIN s \ w.hidden}
           /\ \A i \in DOMAIN s : /\ SavedRow(w, s, i) \in LiveQuote
                                  /\ SameOffer(s[i], SavedRow(w, s, i))
                                  /\ SavedRow(w, s, i).fee = s[i].fee
<1>1. Saved(w, s) = {SavedRow(w, s, i) : i \in DOMAIN s \ w.hidden}
  BY DEF Saved, SavedRow
<1>2. ASSUME NEW i \in DOMAIN s
      PROVE  /\ SavedRow(w, s, i) \in LiveQuote
             /\ SameOffer(s[i], SavedRow(w, s, i))
             /\ SavedRow(w, s, i).fee = s[i].fee
  <2>1. w.extra[i] \in Nat /\ (w.list = "read" => w.seen[i] \in Nat)
    BY DEF Works
  <2> DEFINE q == s[i]
             e == IF w.list = "read" THEN w.seen[i] ELSE w.extra[i]
             r == [q EXCEPT !.extra = e]
  <2>2. q \in LiveQuote /\ ~IsSpecial(q) /\ e \in Nat
    BY <2>1
  <2>3. SavedRow(w, s, i) = IF i \in OnList(w, s) THEN MarkedUp(r)
                            ELSE [q EXCEPT !.extra = w.extra[i], !.price = q.fee, !.marked = FALSE]
    BY DEF SavedRow
  <2> HIDE DEF q, e
  <2>4. r \in LiveQuote /\ ~IsSpecial(r) /\ SameOffer(q, r) /\ r.fee = q.fee
    BY <2>2 DEF LiveQuote, IsSpecial, SameOffer
  <2>5. MarkedUp(r) \in LiveQuote /\ SameOffer(q, MarkedUp(r)) /\ MarkedUp(r).fee = q.fee
    <3> HIDE DEF r
    <3> QED
      BY <2>4, MarkedUpIs DEF SameOffer
  <2> DEFINE t == [q EXCEPT !.extra = w.extra[i], !.price = q.fee, !.marked = FALSE]
  <2>6. t \in LiveQuote /\ SameOffer(q, t) /\ t.fee = q.fee
    BY <2>1, <2>2 DEF LiveQuote, SameOffer
  <2> HIDE DEF t, r
  <2>7. SavedRow(w, s, i) = MarkedUp(r) \/ SavedRow(w, s, i) = t
    BY <2>3 DEF t
  <2> QED
    BY <2>5, <2>6, <2>7 DEF q
<1> QED
  BY <1>1, <1>2

LEMMA SurchargeNat ==
    ASSUME NEW ls \in Seq(OrderLine), ls # << >>, NEW fp \in Tariffed, NEW express,
           NEW p \in Places
    PROVE  Surcharge(fp, express, p, ls) \in Nat
<1>1. \A i \in DOMAIN ls : ls[i] \in OrderLine
  OBVIOUS
<1>2. \A x \in OrderLine : Smaller(x, x) /\ x.qty \in Nat
  BY DEF Smaller, OrderLine
<1>3. Larger(ls, ls)
  <2>1. Len(ls) \in Nat /\ \A j \in DOMAIN ls : Smaller(ls[j], ls[j])
    BY <1>1, <1>2
  <2>2. Grown(ls, ls)
    BY <2>1 DEF Grown, Smaller
  <2> QED
    BY <2>2 DEF Larger
<1>4. OrderAmount(fp, express, p, ls) \in Nat
  BY <1>3, OrderAmountGrows
<1> DEFINE f == [i \in DOMAIN ls |-> LineAmount(fp, p, ls[i]) * ls[i].qty]
<1>5. f \in [DOMAIN ls -> Nat]
  <2> SUFFICES ASSUME NEW i \in DOMAIN ls PROVE LineAmount(fp, p, ls[i]) * ls[i].qty \in Nat
    OBVIOUS
  <2>1. LineAmount(fp, p, ls[i]) \in Nat /\ ls[i].qty \in Nat
    BY <1>1, <1>2, LineAmountNat
  <2> QED
    BY <2>1
<1>6. Surcharge(fp, express, p, ls) = OrderAmount(fp, express, p, ls) + SumFunction(f)
  BY DEF Surcharge
<1> HIDE DEF f
<1>7. SumFunction(f) \in Nat
  <2>1. \A i \in DOMAIN ls : f[i] <= f[i]
    BY <1>5
  <2> QED
    BY <1>3, <1>5, <2>1, OrderSumGrows
<1> QED
  BY <1>4, <1>6, <1>7

LEMMA FleetPriceNat ==
    ASSUME NEW ls \in Seq(OrderLine)
    PROVE  FleetPrice(ls) \in Nat
<1> DEFINE f == [i \in DOMAIN ls |-> ls[i].qty * (IF ls[i].pallet THEN 60000 ELSE 5000)]
<1>1. \A i \in DOMAIN ls : ls[i] \in OrderLine
  OBVIOUS
<1>2. \A x \in OrderLine : x.qty \in Nat
  BY DEF OrderLine
<1>3. f \in [DOMAIN ls -> Nat]
  BY <1>1, <1>2
<1>4. IsFiniteSet(DOMAIN ls)
  <2>1. DOMAIN ls = 1..Len(ls) /\ Len(ls) \in Nat
    OBVIOUS
  <2> QED
    BY <2>1, FS_Interval
<1>5. SumFunction(f) = SumFunctionOnSet(f, DOMAIN ls)
  BY DEF SumFunction
<1>6. FleetPrice(ls) = 60000 + SumFunction(f)
  BY DEF FleetPrice
<1> HIDE DEF f
<1>7. SumFunctionOnSet(f, DOMAIN ls) \in Nat
  BY <1>3, <1>4, SumNat
<1> QED
  BY <1>5, <1>6, <1>7

-----------------------------------------------------------------------------
(* What a round asks for.                                                  *)

Asked(kept, answers, now, sets) == kept \cup answers \cup UNION {Specials(now, set) : set \in sets}

LEMMA SpecialsAre ==
    ASSUME NEW now \in [Sets -> Seq(OrderLine)], NEW set \in Sets, NEW q \in Specials(now, set)
    PROVE  q \in LiveQuote /\ IsSpecial(q) /\ q.set = set /\ q.fee = q.offer
<1>1. ASSUME NEW fp \in SpecialFps, NEW m \in Nat, q = SpecialQuote(fp, set, m)
      PROVE  q \in LiveQuote /\ IsSpecial(q) /\ q.set = set /\ q.fee = q.offer
  <2>1. q = [fp |-> fp, service |-> "none", set |-> set, offer |-> 0, fee |-> 0, etd |-> 72,
             air |-> FALSE, extra |-> 0, price |-> m, marked |-> TRUE]
    BY <1>1 DEF SpecialQuote
  <2> QED
    BY <2>1 DEF LiveQuote, IsSpecial
<1>2. "In House Fleet" \in SpecialFps /\ "Deliver-ME" \in SpecialFps /\ "Customer Collect" \in SpecialFps
  BY DEF SpecialFps
<1>3. q = FleetRow(now, set) \/ q = HaulRow(set) \/ q = CollectRow(set)
  BY DEF Specials
<1>4. CASE q = FleetRow(now, set)
  BY <1>1, <1>2, <1>4, FleetPriceNat DEF FleetRow
<1>5. CASE q = HaulRow(set)
  <2>1. PICK m \in Nat : q = SpecialQuote("Deliver-ME", set, m)
    BY <1>5 DEF HaulRow
  <2> QED
    BY <1>1, <1>2, <2>1
<1>6. CASE q = CollectRow(set)
  <2>1. PICK m \in Nat : q = SpecialQuote("Customer Collect", set, m)
    BY <1>6 DEF CollectRow
  <2> QED
    BY <1>1, <1>2, <2>1
<1> QED
  BY <1>3, <1>4, <1>5, <1>6

LEMMA AnswersAre ==
    ASSUME NEW sets \in SUBSET Sets, NEW answers \in Answers(sets)
    PROVE  /\ \A q \in answers : q \in LiveQuote /\ ~IsSpecial(q) /\ q.set \in sets /\ q.fee = q.offer
           /\ OneEach(answers)
<1>1. ASSUME NEW q \in answers
      PROVE  \E fp \in DOMAIN Offers, set \in sets : \E o \in Offers[fp] : q = Quote(fp, set, o)
  BY DEF Answers
<1>2. ASSUME NEW fp \in DOMAIN Offers, NEW set \in sets, NEW o \in Offers[fp]
      PROVE  LET q == Quote(fp, set, o)
             IN  /\ q \in LiveQuote /\ ~IsSpecial(q) /\ q.set \in sets /\ q.fee = q.offer
                 /\ q.fp = fp /\ q.service = o.service
  <2>1. o.service \in Services /\ o.fee \in Nat /\ o.etd \in Nat /\ o.air \in BOOLEAN
    BY OffersAssumption
  <2>2. fp \notin SpecialFps
    BY FpsFinite
  <2> QED
    BY <2>1, <2>2 DEF Quote, LiveQuote, IsSpecial
<1>3. \A p, q \in answers : p.fp = q.fp /\ p.service = q.service /\ p.set = q.set => p = q
  BY DEF Answers
<1>4. \A q \in answers : \E o \in Offers[q.fp] : q.service = o.service
  BY <1>1, <1>2
<1>5. OneEach(answers)
  BY <1>3, <1>4 DEF OneEach
<1> QED
  BY <1>1, <1>2, <1>5

LEMMA AskedIs ==
    ASSUME NEW now \in [Sets -> Seq(OrderLine)], NEW sets \in SUBSET Sets,
           NEW kept \in SUBSET LiveQuote, OneEach(kept), \A q \in kept : q.set \notin sets,
           NEW answers \in Answers(sets)
    PROVE  LET asked == Asked(kept, answers, now, sets)
           IN  /\ asked \in SUBSET LiveQuote /\ OneEach(asked)
               /\ \A q \in asked : q \in kept \/ (q.set \in sets /\ q.fee = q.offer)
<1> DEFINE asked == Asked(kept, answers, now, sets)
<1>1. \A q \in asked : \/ q \in kept \/ q \in answers \/ \E set \in sets : q \in Specials(now, set)
  BY DEF Asked
<1>2. \A q \in asked : \/ q \in kept
                       \/ q \in answers
                       \/ q \in LiveQuote /\ IsSpecial(q) /\ q.set \in sets /\ q.fee = q.offer
  BY <1>1, SpecialsAre
<1> HIDE DEF asked
<1>3. OneEach(asked)
  <2>1. ASSUME NEW p \in asked, NEW q \in asked, ~IsSpecial(p), p.fp = q.fp,
               p.service = q.service, p.set = q.set
        PROVE  p = q
    <3>1. ~IsSpecial(q)
      BY <2>1 DEF IsSpecial
    <3>2. \/ p \in kept /\ q \in kept
          \/ p \in answers /\ q \in answers
      BY <1>2, <2>1, <3>1, AnswersAre
    <3> QED
      BY <2>1, <3>2, AnswersAre DEF OneEach
  <2>2. ASSUME NEW q \in asked, ~IsSpecial(q) PROVE \E o \in Offers[q.fp] : q.service = o.service
    BY <1>2, <2>2, AnswersAre DEF OneEach
  <2> QED
    BY <2>1, <2>2 DEF OneEach
<1>4. asked \in SUBSET LiveQuote /\ \A q \in asked : q \in kept \/ (q.set \in sets /\ q.fee = q.offer)
  BY <1>2, AnswersAre
<1> QED
  BY <1>3, <1>4 DEF asked

-----------------------------------------------------------------------------
(* What a round leaves.                                                    *)

\* Q is what a round for these sets leaves, next to what it has kept.
Rounded(kept, answers, now, sets, Q) ==
    /\ place \in Places
    /\ now \in [Sets -> Seq(OrderLine)]
    /\ sets \in SUBSET Sets /\ \A set \in sets : now[set] # << >>
    /\ kept \in SUBSET LiveQuote /\ OneEach(kept) /\ \A q \in kept : q.set \notin sets
    /\ answers \in Answers(sets)
    /\ Q \in Results(kept, answers, Extras(now, sets), now, sets)

LEMMA ExtrasNat ==
    ASSUME NEW now \in [Sets -> Seq(OrderLine)], NEW sets \in SUBSET Sets,
           \A set \in sets : now[set] # << >>, place \in Places,
           NEW fp \in DOMAIN Offers, NEW service \in Services, NEW set \in sets
    PROVE  Extras(now, sets)[fp][service][set] \in Nat
<1>1. Extras(now, sets)[fp][service][set] = Surcharge(fp, service \in Express, place, now[set])
  BY DEF Extras
<1>2. fp \in Tariffed
  BY RatingAssumption
<1> QED
  BY <1>1, <1>2, SurchargeNat

LEMMA SameOfferChain ==
    ASSUME NEW p, NEW q, NEW r, SameOffer(p, q), SameOffer(q, r)
    PROVE  SameOffer(p, r) /\ (IsSpecial(p) <=> IsSpecial(r))
  BY DEF SameOffer, IsSpecial

LEMMA RoundedIs ==
    ASSUME NEW kept, NEW answers, NEW now, NEW sets, NEW Q, Rounded(kept, answers, now, sets, Q)
    PROVE  LET asked == Asked(kept, answers, now, sets)
           IN  /\ Q \in SUBSET LiveQuote /\ OneEach(Q)
               /\ \A x \in Q : \E q \in asked :
                     /\ SameOffer(q, x)
                     /\ x.fee = q.fee \/ /\ q.fp \notin ClientRated
                                         /\ \E fee \in OwnFees(asked) : TRUE
                                         /\ \A fee \in OwnFees(asked) : x.fee <= fee
               /\ \A q \in asked : q.fp # "Allied" =>
                     \E x \in Q : SameOffer(q, x) /\ (q.fp \in ClientRated => x.fee = q.fee)
               /\ /\ place.from = "residential"
                  /\ \A q \in asked : q.set \in sets /\ HasBulky(now[q.set])
                  /\ \A p, q \in asked : p.set = q.set
                  => AlliedIn(Q) = {}
<1> DEFINE asked == Asked(kept, answers, now, sets)
           raised == Interpolated(asked)
           rows == {q \in raised : ~IsSpecial(q)}
           extras == Extras(now, sets)
<1>1. asked \in SUBSET LiveQuote /\ OneEach(asked)
  BY AskedIs DEF Rounded
<1>2. /\ raised \in SUBSET LiveQuote /\ OneEach(raised)
      /\ \A r \in raised : \E q \in asked :
            /\ SameOffer(q, r) /\ r.extra = q.extra
            /\ r.fee = q.fee \/ /\ q.fp \notin ClientRated /\ ~IsSpecial(q)
                                /\ \E fee \in OwnFees(asked) : TRUE
                                /\ \A fee \in OwnFees(asked) : r.fee <= fee
      /\ \A q \in asked : \E r \in raised :
            SameOffer(q, r) /\ (IsSpecial(q) \/ q.fp \in ClientRated => r = q)
  <2> HIDE DEF asked
  <2> QED
    BY <1>1, InterpolatedIs
<1>3. PICK arrival \in Arrivals :
         LET s == Listed(raised, arrival)
         IN  Q = WithoutAllied({q \in raised : IsSpecial(q)}
                               \cup Saved(Worked(s, extras, now, sets), s))
  <2>1. \A a \in Orders : a \in Arrivals
    BY OffersAssumption DEF Orders
  <2>2. Q \in {WithoutAllied({q \in raised : IsSpecial(q)}
                             \cup Saved(Worked(Listed(raised, a), extras, now, sets), Listed(raised, a))) :
                  a \in Orders}
    BY DEF Rounded, Results, Asked
  <2> HIDE DEF raised, extras
  <2> QED
    BY <2>1, <2>2
<1> DEFINE s == Listed(raised, arrival)
           w == Worked(s, extras, now, sets)
           n == Cardinality(rows)
<1> HIDE DEF raised, asked
<1>4. /\ n \in Nat /\ DOMAIN s = 1..n
      /\ \A i \in DOMAIN s : s[i] \in rows
      /\ \A i, j \in DOMAIN s : s[i] = s[j] => i = j
      /\ \A q \in rows : \E i \in DOMAIN s : s[i] = q
  BY <1>2, ListedIs
<1> HIDE DEF s
<1>5. \A i \in DOMAIN s : s[i] \in raised /\ s[i] \in LiveQuote /\ ~IsSpecial(s[i])
  BY <1>2, <1>4
<1>6. /\ w \in Works(s)
      /\ /\ \A i \in DOMAIN s : s[i].set \in sets /\ HasBulky(now[s[i].set])
         /\ place.from = "residential"
         /\ \A i, j \in AlliedOn(s) : i = j
         => AlliedOn(s) \subseteq w.hidden
  <2>1. \A i \in DOMAIN s : s[i].extra \in Nat
    BY <1>5 DEF LiveQuote
  <2>2. ASSUME NEW i \in DOMAIN s, s[i].set \in sets PROVE extras[s[i].fp][s[i].service][s[i].set] \in Nat
    <3>1. s[i].fp \in DOMAIN Offers /\ s[i].service \in Services
      BY <1>2, <1>5, ServicesAre
    <3> QED
      BY <2>2, <3>1, ExtrasNat DEF Rounded
  <2> HIDE DEF extras, n
  <2> QED
    BY <1>4, <2>1, <2>2, WorkedIs
<1> HIDE DEF w
<1>7. /\ Saved(w, s) = {SavedRow(w, s, i) : i \in DOMAIN s \ w.hidden}
      /\ \A i \in DOMAIN s : /\ SavedRow(w, s, i) \in LiveQuote
                             /\ SameOffer(s[i], SavedRow(w, s, i))
                             /\ SavedRow(w, s, i).fee = s[i].fee
  BY <1>5, <1>6, SavedIs
<1> DEFINE U == {q \in raised : IsSpecial(q)} \cup Saved(w, s)
<1>8. Q = WithoutAllied(U)
  BY <1>3 DEF s, w
<1>9. Q \in SUBSET U /\ \A x \in U : x.fp # "Allied" => x \in Q
  BY <1>8 DEF WithoutAllied, AlliedIn
<1>10. ASSUME NEW x \in U
       PROVE  \/ x \in raised /\ IsSpecial(x)
              \/ \E i \in DOMAIN s \ w.hidden : x = SavedRow(w, s, i) /\ ~IsSpecial(x)
  BY <1>5, <1>7, SameOfferChain DEF SameOffer, IsSpecial
<1>11. Q \in SUBSET LiveQuote
  BY <1>2, <1>7, <1>9, <1>10
<1>12. OneEach(Q)
  <2>1. ASSUME NEW x \in Q, NEW y \in Q, ~IsSpecial(x), x.fp = y.fp, x.service = y.service,
               x.set = y.set
        PROVE  x = y
    <3>1. ~IsSpecial(y)
      BY <2>1 DEF IsSpecial
    <3>2. PICK i \in DOMAIN s \ w.hidden : x = SavedRow(w, s, i)
      BY <1>9, <1>10, <2>1
    <3>3. PICK j \in DOMAIN s \ w.hidden : y = SavedRow(w, s, j)
      BY <1>9, <1>10, <3>1
    <3>4. s[i].fp = s[j].fp /\ s[i].service = s[j].service /\ s[i].set = s[j].set
      BY <1>7, <2>1, <3>2, <3>3 DEF SameOffer
    <3>5. s[i] = s[j]
      BY <1>2, <1>5, <3>4 DEF OneEach
    <3> QED
      BY <1>4, <3>2, <3>3, <3>5
  <2>2. ASSUME NEW x \in Q, ~IsSpecial(x) PROVE \E o \in Offers[x.fp] : x.service = o.service
    <3>1. PICK i \in DOMAIN s \ w.hidden : x = SavedRow(w, s, i)
      BY <1>9, <1>10, <2>2
    <3>2. x.fp = s[i].fp /\ x.service = s[i].service
      BY <1>7, <3>1 DEF SameOffer
    <3>3. \E o \in Offers[s[i].fp] : s[i].service = o.service
      BY <1>2, <1>5 DEF OneEach
    <3> QED
      BY <3>2, <3>3
  <2> QED
    BY <2>1, <2>2 DEF OneEach
<1>13. ASSUME NEW x \in Q
       PROVE  \E q \in asked :
                 /\ SameOffer(q, x)
                 /\ x.fee = q.fee \/ /\ q.fp \notin ClientRated
                                     /\ \E fee \in OwnFees(asked) : TRUE
                                     /\ \A fee \in OwnFees(asked) : x.fee <= fee
  <2>1. PICK r \in raised : SameOffer(r, x) /\ x.fee = r.fee
    <3>1. CASE x \in raised
      BY <3>1 DEF SameOffer
    <3>2. CASE x \notin raised
      BY <1>5, <1>7, <1>9, <1>10, <3>2
    <3> QED
      BY <3>1, <3>2
  <2>2. PICK q \in asked : /\ SameOffer(q, r)
                           /\ r.fee = q.fee \/ /\ q.fp \notin ClientRated
                                               /\ \E fee \in OwnFees(asked) : TRUE
                                               /\ \A fee \in OwnFees(asked) : r.fee <= fee
    BY <1>2
  <2>3. SameOffer(q, x)
    BY <2>1, <2>2, SameOfferChain
  <2> QED
    BY <2>1, <2>2, <2>3
<1>14. ASSUME NEW q \in asked, q.fp # "Allied"
       PROVE  \E x \in Q : SameOffer(q, x) /\ (q.fp \in ClientRated => x.fee = q.fee)
  <2>1. PICK r \in raised : SameOffer(q, r) /\ (IsSpecial(q) \/ q.fp \in ClientRated => r = q)
    BY <1>2
  <2>2. CASE IsSpecial(q)
    <3>1. r = q /\ q \in U
      BY <2>1, <2>2
    <3> QED
      BY <1>9, <1>14, <2>1, <3>1
  <2>3. CASE ~IsSpecial(q)
    <3>1. r \in rows /\ r.fp # "Allied"
      BY <1>14, <2>1, <2>3 DEF SameOffer, IsSpecial
    <3>2. PICK i \in DOMAIN s : s[i] = r
      BY <1>4, <3>1
    <3>3. i \notin w.hidden
      BY <1>6, <3>1, <3>2 DEF Works, AlliedOn
    <3>4. SavedRow(w, s, i) \in U
      BY <1>7, <3>3
    <3>5. SameOffer(r, SavedRow(w, s, i)) /\ SavedRow(w, s, i).fee = r.fee
      BY <1>7, <3>2
    <3>6. SavedRow(w, s, i) \in Q
      BY <1>9, <3>1, <3>4, <3>5 DEF SameOffer
    <3>7. SameOffer(q, SavedRow(w, s, i))
      BY <2>1, <3>5, SameOfferChain
    <3> QED
      BY <2>1, <3>5, <3>6, <3>7
  <2> QED
    BY <2>2, <2>3
<1>15. ASSUME place.from = "residential", \A q \in asked : q.set \in sets /\ HasBulky(now[q.set]),
              \A p, q \in asked : p.set = q.set
       PROVE  AlliedIn(Q) = {}
  <2>1. ASSUME NEW i \in DOMAIN s PROVE \E q \in asked : SameOffer(q, s[i])
    BY <1>2, <1>5
  <2>2. \A i \in DOMAIN s : s[i].set \in sets /\ HasBulky(now[s[i].set])
    BY <1>15, <2>1 DEF SameOffer
  <2>3. \A i, j \in DOMAIN s : s[i].set = s[j].set
    BY <1>15, <2>1 DEF SameOffer
  <2>4. ASSUME NEW i \in AlliedOn(s), NEW j \in AlliedOn(s) PROVE i = j
    <3>1. i \in DOMAIN s /\ j \in DOMAIN s /\ s[i].fp = "Allied" /\ s[j].fp = "Allied"
      BY DEF AlliedOn
    <3>2. s[i].service = s[j].service
      BY <1>2, <1>5, <3>1, ServicesAre
    <3>3. s[i] = s[j]
      BY <1>2, <1>5, <2>3, <3>1, <3>2 DEF OneEach
    <3> QED
      BY <1>4, <3>1, <3>3
  <2>5. AlliedOn(s) \subseteq w.hidden
    BY <1>6, <1>15, <2>2, <2>4
  <2>6. ASSUME NEW x \in Q, x.fp = "Allied" PROVE FALSE
    <3>1. ~IsSpecial(x)
      BY <2>6 DEF IsSpecial, SpecialFps
    <3>2. PICK i \in DOMAIN s \ w.hidden : x = SavedRow(w, s, i)
      BY <1>9, <1>10, <3>1
    <3>3. s[i].fp = "Allied"
      BY <1>7, <2>6, <3>2 DEF SameOffer
    <3> QED
      BY <2>5, <3>2, <3>3 DEF AlliedOn
  <2> QED
    BY <2>6 DEF AlliedIn
<1> QED
  BY <1>11, <1>12, <1>13, <1>14, <1>15 DEF asked

-----------------------------------------------------------------------------
(* The choice.                                                             *)

Paid(Q) == {q \in Q : ~IsSpecial(q) /\ q.price > 0}

\* Of equal prices, one of the sequence is kept.
LEMMA KeptIs ==
    ASSUME NEW S, NEW s \in Seq(S), s # << >>
    PROVE  Kept(s).quote \in S
<1> DEFINE t == Tail(s)
           D == DOMAIN t
           W == [quote : S, replaced : BOOLEAN, raised : BOOLEAN]
           b == [quote |-> s[1], replaced |-> FALSE, raised |-> FALSE]
           op == [i \in D |-> [w \in W |-> Keep(w, t[i])]]
           pick == [u \in SUBSET D |-> Max(u)]
           Folds(h) == h = [u \in SUBSET D |-> IF u = {} THEN b ELSE Keep(h[u \ {Max(u)}], t[Max(u)])]
<1>1. b \in W /\ t \in Seq(S) /\ s[1] \in S
  BY DEF W
<1>2. D = 1..Len(t) /\ Len(t) \in Nat /\ \A i \in D : t[i] \in S
  BY <1>1
<1> HIDE DEF t
<1>3. IsFiniteSet(D) /\ \A u \in SUBSET D : u # {} => Max(u) \in u
  <2>1. IsFiniteSet(D)
    BY <1>2, FS_Interval
  <2>2. ASSUME NEW u \in SUBSET D, u # {} PROVE Max(u) \in u
    <3>1. D \in SUBSET Int
      BY <1>2
    <3> HIDE DEF D
    <3> QED
      BY <2>1, <2>2, <3>1, FS_Subset, MaxOf
  <2> QED
    BY <2>1, <2>2
<1>4. ASSUME NEW w \in W, NEW q \in S PROVE Keep(w, q) \in W
  BY DEF Keep, W
<1> HIDE DEF W, b
<1>5. \E h : Folds(h)
  <2>1. op \in [D -> [W -> W]]
    BY <1>2, <1>4
  <2>2. \A u \in SUBSET D : u # {} => pick[u] \in u
    BY <1>3
  <2> HIDE DEF op, pick, D
  <2>3. PICK h : Iterates(D, b, op, pick, h)
    BY <1>3, <2>2, IterateExists
  <2>4. h \in [SUBSET D -> W]
    BY <1>1, <1>3, <2>1, <2>2, <2>3, IterateType
  <2>5. h = [u \in SUBSET D |-> IF u = {} THEN b ELSE op[pick[u]][h[u \ {pick[u]}]]]
    BY <2>3 DEF Iterates
  <2>6. ASSUME NEW u \in SUBSET D, u # {}
        PROVE  op[pick[u]][h[u \ {pick[u]}]] = Keep(h[u \ {Max(u)}], t[Max(u)])
    <3>1. pick[u] = Max(u) /\ Max(u) \in D
      BY <1>3, <2>6 DEF pick
    <3>2. h[u \ {Max(u)}] \in W
      BY <2>4
    <3> QED
      BY <3>1, <3>2 DEF op
  <2>7. Folds(h)
    BY <2>5, <2>6
  <2> HIDE DEF Folds
  <2> QED
    BY <2>7
<1> DEFINE h == CHOOSE g : Folds(g)
<1>6. Kept(s) = h[D]
  BY Zenon DEF Kept, FoldLeft, MapThenFoldSet, t, b
<1>7. Folds(h)
  <2> HIDE DEF Folds
  <2> QED
    BY <1>5
<1>8. h[{}] = b /\ \A u \in SUBSET D : u # {} => h[u] = Keep(h[u \ {Max(u)}], t[Max(u)])
  <2> HIDE DEF h, D
  <2> QED
    BY <1>7
<1> DEFINE P == {u \in SUBSET D : h[u] \in W}
<1>9. {} \in P
  <2> HIDE DEF h, D
  <2> QED
    BY <1>1, <1>8
<1>10. ASSUME NEW u \in SUBSET D, u # {}, \A x \in u : u \ {x} \in P PROVE u \in P
  <2>1. h[u \ {Max(u)}] \in W /\ Max(u) \in D
    BY <1>3, <1>10
  <2>2. t[Max(u)] \in S
    BY <1>2, <2>1
  <2> HIDE DEF h, D
  <2> QED
    BY <1>4, <1>8, <1>10, <2>1, <2>2
<1>11. P = SUBSET D
  <2> HIDE DEF P, D
  <2>1. P \in SUBSET SUBSET D
    BY DEF P
  <2>2. \A u \in SUBSET D : u # {} /\ (\A x \in u : u \ {x} \in P) => u \in P
    BY <1>10
  <2> QED
    BY <1>3, <1>9, <2>1, <2>2, AllSubsets
<1>12. h[D] \in W
  <2> HIDE DEF h, D
  <2> QED
    BY <1>11
<1> QED
  BY <1>6, <1>12 DEF W

LEMMA PaidFinite ==
    ASSUME NEW Q \in SUBSET LiveQuote, OneEach(Q)
    PROVE  IsFiniteSet(Paid(Q)) /\ IsFiniteSet(Cheapest(Paid(Q)))
<1>1. Paid(Q) \in SUBSET {q \in Q : ~IsSpecial(q)} /\ Cheapest(Paid(Q)) \in SUBSET Paid(Q)
  BY DEF Paid, Cheapest
<1>2. IsFiniteSet(Paid(Q))
  BY <1>1, RowsFinite, FS_Subset
<1> QED
  BY <1>1, <1>2, FS_Subset

\* The lowest price is that of a carrier than which none is cheaper.
LEMMA LowestIs ==
    ASSUME NEW Q \in SUBSET LiveQuote, OneEach(Q), NEW b \in Lowest(Q)
    PROVE  b.quote \in Paid(Q) /\ \A p \in Paid(Q) : b.quote.price <= p.price
<1> DEFINE C == Cheapest(Paid(Q))
<1>1. Lowest(Q) = {Kept(s) : s \in SetToSeqs(C) \ {<< >>}}
  BY DEF Lowest, Paid
<1>2. PICK s \in SetToSeqs(C) : s # << >> /\ b = Kept(s)
  BY <1>1
<1>3. IsFiniteSet(C) /\ Cardinality(C) \in Nat
  BY PaidFinite, FS_CardinalityType
<1> HIDE DEF C
<1>4. s \in [1..Cardinality(C) -> C]
  BY DEF SetToSeqs
<1>5. s \in Seq(C)
  BY <1>3, <1>4
<1>6. b.quote \in C
  BY <1>2, <1>5, KeptIs
<1> QED
  BY <1>6 DEF C, Cheapest

\* Where a carrier has a price, there is a lowest one.
LEMMA LowestExists ==
    ASSUME NEW Q \in SUBSET LiveQuote, OneEach(Q), Paid(Q) # {}
    PROVE  Lowest(Q) # {}
<1> DEFINE C == Cheapest(Paid(Q))
           f == [q \in Paid(Q) |-> q.price]
           prices == {f[q] : q \in Paid(Q)}
<1>1. \A q \in Paid(Q) : q.price \in Nat
  BY DEF Paid, LiveQuote
<1>2. prices \in SUBSET Int /\ prices # {} /\ \A q \in Paid(Q) : q.price \in prices
  BY <1>1
<1>3. IsFiniteSet(prices)
  <2> HIDE DEF f
  <2> QED
    BY PaidFinite, ValuesFinite
<1>4. PICK q \in Paid(Q) : \A p \in Paid(Q) : q.price <= p.price
  <2>1. PICK q \in Paid(Q) : q.price = Min(prices)
    <3>1. Min(prices) \in prices
      BY <1>2, <1>3, MinOf
    <3> QED
      BY <3>1
  <2>2. \A x \in prices : Min(prices) <= x
    BY <1>2, <1>3, MinOf
  <2> QED
    BY <1>2, <2>1, <2>2
<1>5. q \in C
  BY <1>4 DEF Cheapest
<1>6. IsFiniteSet(C)
  BY PaidFinite
<1>7. Lowest(Q) = {Kept(s) : s \in SetToSeqs(C) \ {<< >>}}
  BY DEF Lowest, Paid
<1> HIDE DEF C
<1> DEFINE n == Cardinality(C)
<1>8. n \in Nat /\ n # 0 /\ ExistsBijection(1..n, C)
  BY <1>5, <1>6, FS_CardinalityType, FS_EmptySet
<1> HIDE DEF n
<1>9. PICK g : g \in Bijection(1..n, C)
  BY <1>8, Zenon DEF ExistsBijection
<1>10. g \in [1..n -> C] /\ \A i, j \in 1..n : g[i] = g[j] => i = j
  BY <1>9, Zenon DEF Bijection, Injection, IsInjective
<1>11. g \in SetToSeqs(C)
  BY <1>10 DEF SetToSeqs, n
<1>12. g # << >>
  <2>1. 1 \in DOMAIN g
    BY <1>8, <1>10
  <2> QED
    BY <2>1
<1> QED
  BY <1>7, <1>11, <1>12

\* Whatever the page takes, it is a candidate.
LEMMA PageTakesOne ==
    ASSUME NEW Q \in SUBSET LiveQuote, OneEach(Q), NEW by, PageTakes(Q, by), chosen' # chosen
    PROVE  \E q \in Candidates(Q) :
              /\ chosen' = Taken(q, by)
              /\ by = "lowest" /\ q.fp # "Deliver-ME" =>
                    q \in Paid(Candidates(Q)) /\ \A p \in Paid(Candidates(Q)) : q.price <= p.price
<1> DEFINE R == Candidates(Q)
           results == IF by = "lowest" THEN LowestFor(R) ELSE Fastest(R)
<1>1. PICK b \in results : chosen' = Taken(b.quote, by)
  BY DEF PageTakes
<1>2. R \in SUBSET LiveQuote /\ OneEach(R)
  BY DEF Candidates, OneEach
<1> HIDE DEF R
<1>3. CASE by = "lowest" /\ b \in Lowest(R)
  <2>1. b.quote \in Paid(R) /\ \A p \in Paid(R) : b.quote.price <= p.price
    BY <1>2, <1>3, LowestIs
  <2>2. b.quote \in R
    BY <2>1 DEF Paid
  <2> QED
    BY <1>1, <2>1, <2>2 DEF R
<1>4. CASE by = "lowest" /\ b \notin Lowest(R)
  <2>1. b.quote \in R /\ b.quote.fp = "Deliver-ME"
    BY <1>4 DEF LowestFor, DeliverMe
  <2> QED
    BY <1>1, <2>1 DEF R
<1>5. CASE by # "lowest"
  <2>1. b.quote \in R
    BY <1>5 DEF Fastest, Cheapest
  <2> QED
    BY <1>1, <1>5, <2>1 DEF R
<1> QED
  BY <1>3, <1>4, <1>5

-----------------------------------------------------------------------------
(* The invariant.                                                          *)

\* Live quotes are of sets with lines, and none is there before the first round.
QuotesInv ==
    /\ quotes \in SUBSET LiveQuote /\ OneEach(quotes)
    /\ \A q \in quotes : lines[q.set] # << >>
    /\ round = 0 => quotes = {}

\* What the booking has taken was taken in a round so far.
ChoiceInv ==
    /\ round \in 0..MaxRounds
    /\ chosen.round \in 0..round /\ chosen.by \in {"none", "lowest", "fastest", "scan"}

RatingInv ==
    /\ LinesInv /\ QuotesInv /\ ChoiceInv
    /\ FleetOffered /\ NoBulkyAllied /\ DeadlineMet /\ CheapestCarrierTaken

LEMMA SetsAre == "original" \in Sets /\ "scanned" \in Sets /\ \A set \in Sets : set = "original" \/ set = "scanned"
  BY DEF Sets

LEMMA PageRounds ==
    ASSUME LinesInv, PageRound
    PROVE  \E answers : Rounded({}, answers, lines, WithLines, quotes')
<1>1. PICK answers \in Answers(WithLines) :
         quotes' \in Results({}, answers, Extras(lines, WithLines), lines, WithLines)
  BY DEF PageRound
<1>2. {} \in SUBSET LiveQuote /\ OneEach({}) /\ WithLines \in SUBSET Sets
      /\ \A set \in WithLines : lines[set] # << >>
  BY DEF OneEach, WithLines
<1> QED
  BY <1>1, <1>2 DEF Rounded, LinesInv

LEMMA ScanRounds ==
    ASSUME LinesInv, QuotesInv, ScanRound
    PROVE  /\ lines' \in [Sets -> Seq(OrderLine)] /\ lines'["scanned"] # << >>
           /\ \A set \in Sets : set # "scanned" => lines'[set] = lines[set]
           /\ \E answers : Rounded({q \in quotes : q.set # "scanned"}, answers, lines', {"scanned"}, quotes')
<1> DEFINE kept == {q \in quotes : q.set # "scanned"}
<1>1. PICK picked \in Scanned :
         /\ lines' = [lines EXCEPT !["scanned"] = picked]
         /\ \E answers \in Answers({"scanned"}) :
               quotes' \in Results(kept, answers, Extras(lines', {"scanned"}), lines', {"scanned"})
  BY DEF ScanRound
<1>2. /\ lines' \in [Sets -> Seq(OrderLine)] /\ lines'["scanned"] # << >>
      /\ \A set \in Sets : set # "scanned" => lines'[set] = lines[set]
  BY <1>1, SetsAre, LinesAssumption DEF LinesInv
<1>3. PICK answers \in Answers({"scanned"}) :
         quotes' \in Results(kept, answers, Extras(lines', {"scanned"}), lines', {"scanned"})
  BY <1>1
<1>4. kept \in SUBSET LiveQuote /\ OneEach(kept) /\ \A q \in kept : q.set \notin {"scanned"}
  BY DEF QuotesInv, OneEach
<1>5. {"scanned"} \in SUBSET Sets /\ \A set \in {"scanned"} : lines'[set] # << >>
  BY <1>2, SetsAre
<1> HIDE DEF kept
<1>6. Rounded(kept, answers, lines', {"scanned"}, quotes')
  BY <1>2, <1>3, <1>4, <1>5 DEF Rounded, LinesInv
<1> QED
  BY <1>2, <1>6 DEF kept

\* Every carrier's quote has one of the fleet next to it.
FleetIn(Q) == \A q \in Q : IsSpecial(q) \/ \E p \in Q : p.fp = "In House Fleet" /\ p.set = q.set

\* The fleet is offered with what was asked for, and stays with what was kept.
LEMMA FleetStays ==
    ASSUME NEW kept, NEW answers, NEW now, NEW sets, NEW Q, Rounded(kept, answers, now, sets, Q),
           InHouse(place), FleetIn(kept)
    PROVE  FleetIn(Q)
<1> DEFINE asked == Asked(kept, answers, now, sets)
<1>1. ASSUME NEW set \in sets PROVE \E p \in asked : p.fp = "In House Fleet" /\ p.set = set
  <2>1. ~Linehaul(place)
    BY DEF InHouse, Linehaul, Metro
  <2>2. FleetRow(now, set) \in Specials(now, set)
    BY <2>1 DEF Specials
  <2>3. FleetRow(now, set) \in asked
    BY <2>2 DEF Asked
  <2>4. FleetRow(now, set).fp = "In House Fleet" /\ FleetRow(now, set).set = set
    BY DEF FleetRow, SpecialQuote
  <2> QED
    BY <2>3, <2>4
<1>2. \A q \in kept : q \in asked
  BY DEF Asked
<1>3. /\ \A x \in Q : \E q \in asked : SameOffer(q, x)
      /\ \A q \in asked : q.fp # "Allied" => \E x \in Q : SameOffer(q, x)
  BY RoundedIs
<1>4. \A q \in asked : q \in kept \/ q.set \in sets
  BY AskedIs DEF Rounded
<1> SUFFICES ASSUME NEW x \in Q, ~IsSpecial(x)
             PROVE  \E p \in Q : p.fp = "In House Fleet" /\ p.set = x.set
  BY DEF FleetIn
<1> HIDE DEF asked
<1>5. PICK q \in asked : SameOffer(q, x)
  BY <1>3
<1>6. PICK p \in asked : p.fp = "In House Fleet" /\ p.set = q.set
  <2>1. CASE q \in kept
    BY <1>2, <1>5, <2>1 DEF SameOffer, IsSpecial, FleetIn
  <2>2. CASE q.set \in sets
    BY <1>1, <2>2
  <2> QED
    BY <1>4, <2>1, <2>2
<1>7. PICK y \in Q : SameOffer(p, y)
  BY <1>3, <1>6
<1> QED
  BY <1>5, <1>6, <1>7 DEF SameOffer

LEMMA PageRoundKeeps ==
    ASSUME RatingInv, PageRound
    PROVE  RatingInv'
<1>1. /\ place' = place /\ lines' = lines /\ round \in Nat /\ round' = round + 1
      /\ round' \in 0..MaxRounds /\ chosen.round < round'
  BY RatingAssumption DEF PageRound, NextRound, RatingInv, ChoiceInv
<1>2. PICK answers : Rounded({}, answers, lines, WithLines, quotes')
  BY PageRounds DEF RatingInv
<1> DEFINE asked == Asked({}, answers, lines, WithLines)
<1>3. /\ quotes' \in SUBSET LiveQuote /\ OneEach(quotes')
      /\ \A x \in quotes' : \E q \in asked : SameOffer(q, x)
      /\ /\ place.from = "residential"
         /\ \A q \in asked : q.set \in WithLines /\ HasBulky(lines[q.set])
         /\ \A p, q \in asked : p.set = q.set
         => AlliedIn(quotes') = {}
  BY <1>2, RoundedIs
<1>4. \A q \in asked : q.set \in WithLines
  BY <1>2, AskedIs DEF Rounded
<1>5. QuotesInv'
  <2>1. ASSUME NEW x \in quotes' PROVE lines'[x.set] # << >>
    <3> HIDE DEF asked
    <3>1. PICK q \in asked : SameOffer(q, x)
      BY <1>3
    <3>2. x.set \in WithLines
      BY <1>4, <3>1 DEF SameOffer
    <3> QED
      BY <1>1, <3>2 DEF WithLines
  <2>2. OneEach(quotes)' /\ round' # 0
    BY <1>1, <1>3 DEF OneEach, IsSpecial
  <2> HIDE DEF asked
  <2> QED
    BY <1>3, <2>1, <2>2 DEF QuotesInv
<1>6. PICK by \in {"lowest", "fastest"} : PageTakes(quotes', by)
  BY DEF PageRound
<1>7. chosen' # chosen =>
         \E q \in Candidates(quotes') :
            /\ chosen' = Taken(q, by)
            /\ by = "lowest" /\ q.fp # "Deliver-ME" =>
                  /\ q \in Paid(Candidates(quotes'))
                  /\ \A p \in Paid(Candidates(quotes')) : q.price <= p.price
  BY <1>3, <1>6, PageTakesOne
<1>8. ASSUME chosen' = chosen
      PROVE  ChoiceInv' /\ DeadlineMet' /\ CheapestCarrierTaken'
  <2>1. ChoiceInv' /\ ~JustChosen'
    BY <1>1, <1>8 DEF RatingInv, ChoiceInv, JustChosen
  <2>2. DeadlineMet' /\ CheapestCarrierTaken'
    BY <2>1 DEF DeadlineMet, CheapestCarrierTaken
  <2> QED
    BY <2>1, <2>2
<1>9. ASSUME chosen' # chosen
      PROVE  ChoiceInv' /\ DeadlineMet' /\ CheapestCarrierTaken'
  <2>1. PICK q \in Candidates(quotes') :
           /\ chosen' = Taken(q, by)
           /\ by = "lowest" /\ q.fp # "Deliver-ME" =>
                 /\ q \in Paid(Candidates(quotes'))
                 /\ \A p \in Paid(Candidates(quotes')) : q.price <= p.price
    BY <1>7, <1>9
  <2>2. /\ chosen'.fp = q.fp /\ chosen'.service = q.service /\ chosen'.set = q.set
        /\ chosen'.price = q.price /\ chosen'.by = by /\ chosen'.round = round'
    BY <2>1 DEF Taken
  <2>3. ChoiceInv'
    BY <1>1, <2>2 DEF ChoiceInv
  <2>4. q \in quotes'
    BY <2>1 DEF Candidates
  <2>5. ASSUME NEW c \in quotes', ~c.air, InTime(c)
        PROVE  /\ InTime(q)
               /\ ~IsSpecial(c) /\ c.price > 0 => c \in Paid(Candidates(quotes'))
    <3>1. Candidates(quotes') = {x \in {r \in quotes' : ~r.air} : InTime(x)}
      BY <2>5 DEF Candidates
    <3> QED
      BY <2>1, <2>5, <3>1 DEF Paid
  <2>6. DeadlineMet'
    <3>1. \A x : InTime(x)' <=> InTime(x)
      BY <1>1 DEF InTime
    <3> QED
      BY <2>2, <2>4, <2>5, <3>1 DEF DeadlineMet, Carriers, InTime
  <2>7. CheapestCarrierTaken'
    <3>1. \A x : InTime(x)' <=> InTime(x)
      BY <1>1 DEF InTime
    <3>2. ASSUME by = "lowest", q.fp # "Deliver-ME"
          PROVE  /\ \E c \in Carriers' : /\ c.fp = chosen'.fp /\ c.service = chosen'.service
                                        /\ c.price = chosen'.price
                 /\ \A c \in Carriers' : ~c.air /\ InTime(c) => chosen'.price <= c.price
      BY <2>1, <2>2, <2>4, <2>5, <3>2 DEF Carriers, Paid
    <3> QED
      BY <2>2, <3>1, <3>2 DEF CheapestCarrierTaken, InTime
  <2> QED
    BY <2>3, <2>6, <2>7
<1>10. ChoiceInv' /\ DeadlineMet' /\ CheapestCarrierTaken'
  BY <1>8, <1>9
<1>11. FleetOffered'
  <2>1. FleetIn({})
    BY DEF FleetIn
  <2>2. InHouse(place) => FleetIn(quotes')
    BY <1>2, <2>1, FleetStays
  <2> QED
    BY <1>1, <2>2 DEF FleetOffered, FleetIn, InHouse, IsSpecial
<1>12. NoBulkyAllied'
  <2>1. ASSUME place.from = "residential", lines["scanned"] = << >>, HasBulky(lines["original"])
        PROVE  AlliedIn(quotes') = {}
    <3>1. \A set \in WithLines : set = "original"
      BY <2>1, SetsAre DEF WithLines
    <3>2. \A q \in asked : q.set \in WithLines /\ q.set = "original"
      BY <1>4, <3>1
    <3> HIDE DEF asked
    <3> QED
      BY <1>3, <2>1, <3>2
  <2> QED
    BY <1>1, <2>1 DEF NoBulkyAllied, HasBulky, IsBulky, AlliedIn
<1> QED
  BY <1>1, <1>5, <1>10, <1>11, <1>12 DEF RatingInv, LinesInv

-----------------------------------------------------------------------------
\* What a scan chooses costs no more than any carrier for the scanned set.
LEMMA ScanTakesOne ==
    ASSUME NEW Q \in SUBSET LiveQuote, OneEach(Q), ScanTakes(Q), chosen' # None
    PROVE  \E q : chosen' = Taken(q, "scan") /\ \A p \in Paid(Q) : q.price <= p.price
<1> DEFINE results == IF Lowest(Q) # {} THEN Lowest(Q) ELSE Fastest(Q)
<1>1. PICK b \in results : chosen' = Taken(b.quote, "scan")
  BY DEF ScanTakes
<1>2. \A p \in Paid(Q) : b.quote.price <= p.price
  <2>1. CASE Lowest(Q) # {}
    BY <1>1, <2>1, LowestIs
  <2>2. CASE Lowest(Q) = {}
    BY <2>2, LowestExists
  <2> QED
    BY <2>1, <2>2
<1> QED
  BY <1>1, <1>2

LEMMA ScanRoundKeeps ==
    ASSUME RatingInv, ScanRound
    PROVE  RatingInv'
<1> DEFINE kept == {q \in quotes : q.set # "scanned"}
           scan == {q \in quotes' : q.set = "scanned"}
<1>1. /\ place' = place /\ round \in Nat /\ round' = round + 1 /\ round' \in 0..MaxRounds
  BY RatingAssumption DEF ScanRound, NextRound, RatingInv, ChoiceInv
<1>2. /\ lines' \in [Sets -> Seq(OrderLine)] /\ lines'["scanned"] # << >>
      /\ \A set \in Sets : set # "scanned" => lines'[set] = lines[set]
  BY ScanRounds DEF RatingInv
<1>3. PICK answers : Rounded(kept, answers, lines', {"scanned"}, quotes')
  BY ScanRounds DEF RatingInv
<1> DEFINE asked == Asked(kept, answers, lines', {"scanned"})
<1>4. /\ quotes' \in SUBSET LiveQuote /\ OneEach(quotes')
      /\ \A x \in quotes' : \E q \in asked : SameOffer(q, x)
  BY <1>3, RoundedIs, ZenonT(30)
<1>5. \A q \in asked : q \in kept \/ q.set = "scanned"
  BY <1>3, AskedIs DEF Rounded
<1>6. QuotesInv'
  <2>1. ASSUME NEW x \in quotes' PROVE lines'[x.set] # << >>
    <3> HIDE DEF asked
    <3>1. PICK q \in asked : SameOffer(q, x)
      BY <1>4
    <3>2. CASE q \in kept
      BY <1>2, <3>1, <3>2 DEF SameOffer, RatingInv, QuotesInv, LiveQuote
    <3>3. CASE q.set = "scanned"
      BY <1>2, <3>1, <3>3 DEF SameOffer
    <3> QED
      BY <1>5, <3>2, <3>3
  <2>2. OneEach(quotes)' /\ round' # 0
    BY <1>1, <1>4 DEF OneEach, IsSpecial
  <2> HIDE DEF asked
  <2> QED
    BY <1>4, <2>1, <2>2 DEF QuotesInv
<1>7. ScanTakes(scan) /\ scan \in SUBSET LiveQuote /\ OneEach(scan)
  BY <1>4 DEF ScanRound, OneEach
<1>8. ASSUME chosen' = None
      PROVE  ChoiceInv' /\ DeadlineMet' /\ CheapestCarrierTaken'
  <2>1. ChoiceInv' /\ ~JustChosen'
    BY <1>1, <1>8 DEF ChoiceInv, JustChosen, None
  <2> QED
    BY <2>1 DEF DeadlineMet, CheapestCarrierTaken
<1>9. ASSUME chosen' # None
      PROVE  ChoiceInv' /\ DeadlineMet' /\ CheapestCarrierTaken'
  <2> HIDE DEF scan
  <2>1. PICK q : chosen' = Taken(q, "scan") /\ \A p \in Paid(scan) : q.price <= p.price
    BY <1>7, <1>9, ScanTakesOne
  <2>2. chosen'.price = q.price /\ chosen'.by = "scan" /\ chosen'.round = round'
    BY <2>1 DEF Taken
  <2>3. ChoiceInv' /\ DeadlineMet'
    BY <1>1, <2>2 DEF ChoiceInv, DeadlineMet
  <2>4. \A c \in Carriers' : c.set = "scanned" => chosen'.price <= c.price
    BY <2>1, <2>2 DEF Carriers, Paid, IsSpecial, scan
  <2>5. CheapestCarrierTaken'
    BY <2>2, <2>4 DEF CheapestCarrierTaken
  <2> QED
    BY <2>3, <2>5
<1>10. ChoiceInv' /\ DeadlineMet' /\ CheapestCarrierTaken'
  BY <1>8, <1>9
<1>11. FleetOffered'
  <2>1. InHouse(place) => FleetIn(kept)
    BY DEF FleetIn, RatingInv, FleetOffered
  <2> HIDE DEF kept
  <2>2. InHouse(place) => FleetIn(quotes')
    BY <1>3, <2>1, FleetStays
  <2> QED
    BY <1>1, <2>2 DEF FleetOffered, FleetIn, InHouse, IsSpecial
<1>12. NoBulkyAllied'
  BY <1>2 DEF NoBulkyAllied
<1>13. LinesInv'
  BY LinesStep DEF RatingInv, Next
<1> QED
  BY <1>1, <1>6, <1>10, <1>11, <1>12, <1>13 DEF RatingInv

\* The lines are edited before anything is quoted or taken.
LEMMA EditsKeep ==
    ASSUME RatingInv, AddLine \/ EditLine
    PROVE  RatingInv'
<1>1. UNCHANGED <<place, quotes, chosen, round>> /\ round = 0 /\ quotes = {}
  BY DEF AddLine, EditLine, RatingInv, QuotesInv
<1>2. LinesInv'
  BY LinesStep DEF RatingInv, Next
<1>3. QuotesInv' /\ ChoiceInv'
  BY <1>1 DEF RatingInv, QuotesInv, ChoiceInv, OneEach
<1>4. FleetOffered' /\ NoBulkyAllied' /\ DeadlineMet' /\ CheapestCarrierTaken'
  BY <1>1 DEF FleetOffered, NoBulkyAllied, AlliedIn, DeadlineMet, CheapestCarrierTaken, JustChosen
<1> QED
  BY <1>1, <1>2, <1>3, <1>4 DEF RatingInv

LEMMA RatingStarts == Init => RatingInv
<1> SUFFICES ASSUME Init PROVE RatingInv
  OBVIOUS
<1>1. place \in Places /\ quotes = {} /\ round = 0 /\ chosen = None
      /\ lines = [set \in Sets |-> << >>]
  BY DEF Init
<1>2. LinesInv
  BY <1>1, SizesAreLines DEF LinesInv, Sets
<1>3. QuotesInv /\ ChoiceInv
  BY <1>1, RatingAssumption DEF QuotesInv, ChoiceInv, OneEach, None
<1>4. FleetOffered /\ NoBulkyAllied /\ DeadlineMet /\ CheapestCarrierTaken
  BY <1>1 DEF FleetOffered, NoBulkyAllied, AlliedIn, DeadlineMet, CheapestCarrierTaken, JustChosen
<1> QED
  BY <1>1, <1>2, <1>3, <1>4 DEF RatingInv

\* Whatever is edited, priced and scanned, the invariant is kept.
LEMMA RatingAlways == Spec => []RatingInv
<1>1. ASSUME RatingInv, [Next]_vars PROVE RatingInv'
  <2>1. CASE AddLine \/ EditLine
    BY <1>1, <2>1, EditsKeep
  <2>2. CASE PageRound
    BY <1>1, <2>2, PageRoundKeeps
  <2>3. CASE ScanRound
    BY <1>1, <2>3, ScanRoundKeeps
  <2>4. CASE UNCHANGED vars
    <3>1. place' = place /\ lines' = lines /\ quotes' = quotes /\ chosen' = chosen /\ round' = round
      BY <2>4 DEF vars
    <3>2. LinesInv' /\ QuotesInv' /\ ChoiceInv'
      BY <1>1, <3>1 DEF RatingInv, LinesInv, QuotesInv, OneEach, IsSpecial, ChoiceInv
    <3>3. FleetOffered' /\ NoBulkyAllied'
      BY <1>1, <3>1 DEF RatingInv, FleetOffered, InHouse, IsSpecial, NoBulkyAllied, HasBulky, IsBulky, AlliedIn
    <3>4. DeadlineMet' /\ CheapestCarrierTaken'
      BY <1>1, <3>1 DEF RatingInv, DeadlineMet, CheapestCarrierTaken, JustChosen, Carriers, InTime, IsSpecial
    <3> QED
      BY <1>1, <3>1, <3>2, <3>3, <3>4 DEF RatingInv
  <2> QED
    BY <1>1, <2>1, <2>2, <2>3, <2>4 DEF Next
<1> QED
  BY <1>1, RatingStarts, PTL DEF Spec

\* What is live is an offer or a row of Deliver-ME and the like, for a set, with
\* amounts that are not negative; lines and choice are those of the order.
THEOREM TypeCorrect == Spec => []TypeOK
<1>1. RatingInv => TypeOK
  BY DEF RatingInv, LinesInv, QuotesInv, ChoiceInv, TypeOK, LiveQuote
<1> QED
  BY <1>1, RatingAlways, PTL

\* Whatever the rounds and their answers, JasonL's fleet is offered in its district
\* for each set that a carrier has a quote for.
THEOREM FleetIsOffered == Spec => []FleetOffered
<1>1. RatingInv => FleetOffered
  BY DEF RatingInv
<1> QED
  BY <1>1, RatingAlways, PTL

\* With one packed set, Allied never has a live quote for a bulky order that is
\* picked up at a home, in whichever order the FPs answer.
THEOREM BulkyNeverAllied == Spec => []NoBulkyAllied
<1>1. RatingInv => NoBulkyAllied
  BY DEF RatingInv
<1> QED
  BY <1>1, RatingAlways, PTL

\* The page never takes a late quote while a carrier by road is in time.
THEOREM DeadlineIsMet == Spec => []DeadlineMet
<1>1. RatingInv => DeadlineMet
  BY DEF RatingInv
<1> QED
  BY <1>1, RatingAlways, PTL

\* The lowest price is that of a carrier than which none in time is cheaper, with
\* all that is added to the FPs' fees; after a scan, none of the scanned set.
THEOREM CheapestIsTaken == Spec => []CheapestCarrierTaken
<1>1. RatingInv => CheapestCarrierTaken
  BY DEF RatingInv
<1> QED
  BY <1>1, RatingAlways, PTL

-----------------------------------------------------------------------------
\* In a round no offer is raised over the client's own lowest rate.
LEMMA RoundRaises ==
    ASSUME "Allied" \notin ClientRated, NEW kept, NEW answers, NEW now, NEW sets, NEW Q,
           Rounded(kept, answers, now, sets, Q), NEW p \in Q
    PROVE  \/ p.fee = p.offer
           \/ \E q \in kept : q.fp = p.fp /\ q.service = p.service /\ q.set = p.set /\ q.fee = p.fee
           \/ OwnFees(Q) # {} /\ \A fee \in OwnFees(Q) : p.fee <= fee
<1> DEFINE asked == Asked(kept, answers, now, sets)
<1>1. /\ \A x \in Q : \E q \in asked :
            /\ SameOffer(q, x)
            /\ x.fee = q.fee \/ /\ q.fp \notin ClientRated
                                /\ \E fee \in OwnFees(asked) : TRUE
                                /\ \A fee \in OwnFees(asked) : x.fee <= fee
      /\ \A q \in asked : q.fp # "Allied" =>
            \E x \in Q : SameOffer(q, x) /\ (q.fp \in ClientRated => x.fee = q.fee)
  BY RoundedIs
<1>2. \A q \in asked : q \in kept \/ q.fee = q.offer
  BY AskedIs DEF Rounded
<1> HIDE DEF asked
<1>3. PICK q \in asked :
         /\ SameOffer(q, p)
         /\ p.fee = q.fee \/ /\ q.fp \notin ClientRated
                             /\ \E fee \in OwnFees(asked) : TRUE
                             /\ \A fee \in OwnFees(asked) : p.fee <= fee
  BY <1>1
<1>4. CASE p.fee = q.fee
  BY <1>2, <1>3, <1>4 DEF SameOffer
<1>5. CASE p.fee # q.fee
  <2>1. PICK own \in asked : own.fp \in ClientRated
    BY <1>3, <1>5 DEF OwnFees
  <2>2. PICK x \in Q : SameOffer(own, x)
    BY <1>1, <2>1
  <2>3. x.fee \in OwnFees(Q)
    BY <2>1, <2>2 DEF OwnFees, SameOffer
  <2>4. ASSUME NEW fee \in OwnFees(Q) PROVE fee \in OwnFees(asked)
    <3>1. PICK y \in Q : y.fp \in ClientRated /\ fee = y.fee
      BY DEF OwnFees
    <3>2. PICK r \in asked : SameOffer(r, y) /\ (y.fee = r.fee \/ r.fp \notin ClientRated)
      BY <1>1
    <3> QED
      BY <3>1, <3>2 DEF OwnFees, SameOffer
  <2> QED
    BY <1>3, <1>5, <2>3, <2>4
<1> QED
  BY <1>4, <1>5

\* Unless the client's own rates are Allied's, whose quotes may be hidden: no
\* round raises an offer over the client's own lowest rate.
THEOREM NeverOverClient ==
    ASSUME "Allied" \notin ClientRated
    PROVE  Spec => RaisedToClientAtMost
<1>1. ASSUME RatingInv, [Next]_vars, quotes' # quotes, NEW p \in quotes'
      PROVE  \/ p.fee = p.offer
             \/ \E q \in quotes : q.fp = p.fp /\ q.service = p.service /\ q.set = p.set /\ q.fee = p.fee
             \/ /\ OwnFees(quotes') # {}
                /\ \A fee \in OwnFees(quotes') : p.fee <= fee
  <2>1. CASE PageRound
    <3>1. PICK answers : Rounded({}, answers, lines, WithLines, quotes')
      BY <1>1, <2>1, PageRounds DEF RatingInv
    <3> QED
      BY <3>1, RoundRaises
  <2>2. CASE ScanRound
    <3>1. PICK answers : Rounded({q \in quotes : q.set # "scanned"}, answers, lines', {"scanned"}, quotes')
      BY <1>1, <2>2, ScanRounds DEF RatingInv
    <3> DEFINE kept == {q \in quotes : q.set # "scanned"}
               Q == quotes'
    <3>2. Rounded(kept, answers, lines', {"scanned"}, Q)
      BY <3>1
    <3> HIDE DEF kept, Q
    <3>3. \/ p.fee = p.offer
          \/ \E q \in kept : q.fp = p.fp /\ q.service = p.service /\ q.set = p.set /\ q.fee = p.fee
          \/ OwnFees(Q) # {} /\ \A fee \in OwnFees(Q) : p.fee <= fee
      BY <3>2, RoundRaises DEF Q
    <3> QED
      BY <3>3 DEF kept, Q
  <2>3. CASE AddLine \/ EditLine \/ UNCHANGED vars
    BY <1>1, <2>3 DEF AddLine, EditLine, vars
  <2> QED
    BY <1>1, <2>1, <2>2, <2>3 DEF Next
<1>2. RatingInv /\ [Next]_vars =>
        [\A p \in quotes' :
           \/ p.fee = p.offer
           \/ \E q \in quotes : q.fp = p.fp /\ q.service = p.service /\ q.set = p.set /\ q.fee = p.fee
           \/ /\ OwnFees(quotes') # {}
              /\ \A fee \in OwnFees(quotes') : p.fee <= fee]_quotes
  BY <1>1
<1> QED
  BY <1>2, RatingAlways, PTL DEF Spec, RaisedToClientAtMost

=============================================================================

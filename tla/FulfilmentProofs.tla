-------------------------- MODULE FulfilmentProofs --------------------------
(***************************************************************************)
(* Fulfilment for every number of lines, FPs, sets and overlapping rounds: *)
(* the pallets of the automatic set hold what their weight was added up    *)
(* from, the scanned set is picked or copied and never both, the quote a   *)
(* booking has chosen is a live one whenever no round is in progress, and  *)
(* a round that meets no other clears away what others have left.          *)
(***************************************************************************)
EXTENDS Fulfilment, FiniteSetTheorems, TLAPS

-----------------------------------------------------------------------------
(* Counting.                                                               *)

\* The image of a finite set is finite.
LEMMA ImageFinite ==
    ASSUME NEW S, IsFiniteSet(S), NEW g, DOMAIN g = S, g = [r \in S |-> g[r]]
    PROVE  IsFiniteSet({g[r] : r \in S})
  <1> DEFINE T == {g[r] : r \in S}
  <1>1. g \in Surjection(S, T)
    BY DEF Surjection
  <1>2. QED
    BY <1>1, FS_Surjection

\* The how manieth row of S it is, going by the ids.
Rank(S, r) == Cardinality({s \in S : s.id <= r.id})

\* Ranks are given out once, from 1 on.
LEMMA Ranked ==
    ASSUME NEW S, IsFiniteSet(S), \A r \in S : r.id \in Nat,
           \A r, s \in S : r.id = s.id => r = s
    PROVE  /\ Cardinality(S) \in Nat
           /\ \A r \in S : Rank(S, r) \in 1..Cardinality(S)
           /\ \A r, s \in S : Rank(S, r) = Rank(S, s) => r = s
  <1> DEFINE upTo(r) == {s \in S : s.id <= r.id}
  <1>1. Cardinality(S) \in Nat
    BY FS_CardinalityType
  <1>2. ASSUME NEW r \in S
        PROVE  IsFiniteSet(upTo(r)) /\ r \in upTo(r) /\ Cardinality(upTo(r)) \in 1..Cardinality(S)
    <2>1. r \in upTo(r) /\ upTo(r) \in SUBSET S
      OBVIOUS
    <2>2. IsFiniteSet(upTo(r)) /\ Cardinality(upTo(r)) <= Cardinality(S)
      BY <2>1, FS_Subset
    <2>3. Cardinality(upTo(r)) \in Nat /\ Cardinality(upTo(r)) # 0
      BY <2>1, <2>2, FS_CardinalityType, FS_EmptySet
    <2> HIDE DEF upTo
    <2>4. QED
      BY <1>1, <2>1, <2>2, <2>3
  <1>3. \A r \in S : Rank(S, r) = Cardinality(upTo(r))
    BY DEF Rank
  <1>4. ASSUME NEW r \in S, NEW s \in S, r.id < s.id PROVE Rank(S, r) # Rank(S, s)
    <2>1. upTo(r) \in SUBSET upTo(s) /\ s \notin upTo(r)
      BY <1>4
    <2>2. Cardinality(upTo(r)) # Cardinality(upTo(s))
      BY <1>2, <2>1, FS_Subset
    <2> HIDE DEF upTo
    <2>3. QED
      BY <1>3, <2>2
  <1>5. \A r, s \in S : Rank(S, r) = Rank(S, s) => r = s
    <2>1. \A r, s \in S : r.id < s.id \/ s.id < r.id \/ r = s
      OBVIOUS
    <2>2. QED
      BY <1>4, <2>1
  <1>6. \A r \in S : Rank(S, r) \in 1..Cardinality(S)
    <2> HIDE DEF upTo
    <2>1. QED
      BY <1>2, <1>3
  <1>7. QED
    BY <1>1, <1>5, <1>6

-----------------------------------------------------------------------------
(* The packed sets of lines.                                               *)

\* The lines that an automatic repack has still to save, or may save again.
Waiting(job) == job.loose \cup job.pallets \cup job.again

All == rows \cup UNION {Waiting(job) : job \in repacks}

\* Lines saved and lines waiting share no id, and no line has the key of a pallet
\* but that pallet: so nothing done to another line's data touches a pallet's.
Keyed ==
    /\ \A r \in All : r.id <= serial /\ r.key <= serial /\ (r.form = "pallet" => r.key = r.id)
    /\ \A r, s \in All : r.id = s.id => r = s
    /\ \A r, s \in All : r.form = "pallet" /\ s.key = r.key => s = r
    /\ \A d \in datas : d.key <= serial

\* What an automatic repack is about to save, and what is on its pallets by now.
Prepared ==
    \A job \in repacks :
        /\ \A r \in job.loose \cup job.again : r.status = "auto" /\ r.form = "item"
        /\ \A p \in job.pallets : p.status = "auto" /\ p.form = "pallet"
        /\ \A p \in job.pallets : Contents(p.key) \subseteq p.load
        /\ IsFiniteSet(job.again)

PackInv ==
    /\ rows \subseteq Row /\ datas \subseteq Data /\ serial \in Nat /\ repacks \subseteq Job
    /\ IsFiniteSet(rows)
    /\ Keyed
    /\ RowsIn("original") = {Line(i, i, "original", "item", {i}) : i \in Originals}
    /\ Prepared
    /\ PalletsHoldTheirLoad

LEMMA PackTypes == PackInv => PackingTypeOK
  BY DEF PackInv, PackingTypeOK, Keyed, All

LEMMA AllRows == PackInv => All \subseteq Row
  BY DEF PackInv, All, Waiting, Job

\* The ids that the rows of S get when they are copied.
LEMMA NewIds ==
    ASSUME PackInv, NEW S \in SUBSET rows
    PROVE  /\ IsFiniteSet(S) /\ Cardinality(S) \in Nat
           /\ \A r \in S : NewId(S, r) \in (serial + 1)..(serial + Cardinality(S))
           /\ \A r, s \in S : NewId(S, r) = NewId(S, s) => r = s
  <1>1. IsFiniteSet(S)
    BY FS_Subset DEF PackInv
  <1>2. /\ serial \in Nat /\ \A r \in S : r.id \in Nat
        /\ \A r, s \in S : r.id = s.id => r = s
    BY DEF PackInv, Row, Keyed, All
  <1>3. /\ Cardinality(S) \in Nat
        /\ \A r \in S : Rank(S, r) \in 1..Cardinality(S)
        /\ \A r, s \in S : Rank(S, r) = Rank(S, s) => r = s
    BY <1>1, <1>2, Ranked
  <1>4. \A r \in S : NewId(S, r) = serial + Rank(S, r)
    BY DEF NewId, Rank
  <1>5. QED
    BY <1>1, <1>2, <1>3, <1>4

\* What is under a key depends on the data under this key alone.
LEMMA SameContents ==
    ASSUME NEW key, \A d \in datas \cup datas' : d.key = key => (d \in datas <=> d \in datas')
    PROVE  Contents(key)' = Contents(key)
  BY DEF Contents

\* New lines have ids of their own, and keys of their own or those of lines that
\* are no pallets.
LEMMA KeyedStill ==
    ASSUME PackInv, NEW more \in SUBSET Row, All' \subseteq All \cup more,
           serial' \in Nat, serial <= serial',
           \A m \in more : /\ serial < m.id /\ m.id <= serial'
                           /\ \/ m.key = m.id
                              \/ m.form # "pallet" /\ \E r \in All : r.form # "pallet" /\ m.key = r.key,
           \A m, n \in more : m.id = n.id => m = n,
           \A d \in datas' : d.key <= serial'
    PROVE  Keyed'
  <1>1. /\ All \subseteq Row /\ serial \in Nat
        /\ \A r \in All : r.id \in Nat /\ r.key \in Nat /\ r.id <= serial /\ r.key <= serial
                          /\ (r.form = "pallet" => r.key = r.id)
    BY AllRows DEF PackInv, Keyed, Row
  <1>2. \A m \in more : m.id \in Nat /\ m.key \in Nat
    BY DEF Row
  <1>3. \A m \in more : m.id <= serial' /\ m.key <= serial' /\ (m.form = "pallet" => m.key = m.id)
    BY <1>1, <1>2
  <1>4. \A r \in All, m \in more : r.id # m.id
    BY <1>1, <1>2
  <1>5. \A r \in All, m \in more : r.form = "pallet" => m.key # r.key
    <2>1. \A r, s \in All : r.form = "pallet" /\ s.form # "pallet" => s.key # r.key
      BY DEF PackInv, Keyed
    <2>2. QED
      BY <1>1, <1>2, <2>1
  <1>6. \A r \in All, m \in more : m.form = "pallet" => m.key # r.key
    BY <1>1, <1>2
  <1>7. \A m, n \in more : m.form = "pallet" /\ n.key = m.key => n = m
    BY <1>1, <1>2
  <1>8. \A r, s \in All' : r.id = s.id => r = s
    BY <1>4 DEF PackInv, Keyed
  <1>9. \A r, s \in All' : r.form = "pallet" /\ s.key = r.key => s = r
    BY <1>5, <1>6, <1>7 DEF PackInv, Keyed
  <1>10. \A r \in All' : r.id <= serial' /\ r.key <= serial' /\ (r.form = "pallet" => r.key = r.id)
    BY <1>1, <1>3
  <1>11. QED
    BY <1>8, <1>9, <1>10 DEF Keyed

-----------------------------------------------------------------------------
(* The operations.                                                         *)

\* Nothing waits yet, and the lines are those of the order.
LEMMA PackInit == Init => PackInv
  <1> SUFFICES ASSUME Init PROVE PackInv
    OBVIOUS
  <1>1. /\ rows = {Line(i, i, "original", "item", {i}) : i \in Originals}
        /\ datas = {[key |-> i, of |-> i] : i \in Originals} /\ serial = Items /\ Items \in Nat
        /\ repacks = {}
    BY PackingAssumption DEF Init, InitPacking
  <1>2. rows \subseteq Row /\ datas \subseteq Data /\ serial \in Nat /\ repacks \subseteq Job
    BY <1>1 DEF Row, Data, Line, PackedStatuses, Originals
  <1>3. IsFiniteSet(rows)
    <2> DEFINE g == [i \in Originals |-> Line(i, i, "original", "item", {i})]
    <2>1. IsFiniteSet(Originals)
      BY <1>1, FS_Interval DEF Originals
    <2>2. rows = {g[i] : i \in Originals}
      BY <1>1
    <2> HIDE DEF g
    <2>3. DOMAIN g = Originals /\ g = [i \in Originals |-> g[i]]
      BY DEF g
    <2>4. QED
      BY <2>1, <2>2, <2>3, ImageFinite
  <1>4. All = rows
    BY <1>1 DEF All
  <1>5. Keyed
    <2>1. \A r \in rows : /\ r.id \in Originals /\ r.key = r.id /\ r.form = "item"
                          /\ r = Line(r.id, r.id, "original", "item", {r.id})
      BY <1>1 DEF Line
    <2>2. \A r, s \in rows : r.id = s.id => r = s
      BY <2>1
    <2>3. \A d \in datas : d.key <= serial
      BY <1>1 DEF Originals
    <2>4. serial = Items /\ \A i \in Originals : i <= Items
      BY <1>1 DEF Originals
    <2>5. \A r \in rows : r.id <= serial /\ r.key <= serial /\ r.form # "pallet"
      BY <2>1, <2>4
    <2>6. QED
      BY <1>4, <2>2, <2>3, <2>5 DEF Keyed
  <1>6. RowsIn("original") = rows /\ RowsIn("auto") = {}
    BY <1>1 DEF RowsIn, Line
  <1>7. Prepared /\ PalletsHoldTheirLoad
    BY <1>1, <1>6 DEF Prepared, PalletsHoldTheirLoad
  <1>8. QED
    BY <1>1, <1>2, <1>3, <1>5, <1>6, <1>7 DEF PackInv

\* Picked lines taken away, and lines added, with data of their own, that are neither
\* of the order nor of the automatic set, leave these two alone.
LEMMA OtherSets ==
    ASSUME PackInv, NEW gone, NEW more \in SUBSET Row, rows' = (rows \ gone) \cup more,
           IsFiniteSet(more), \A r \in gone : r.form = "picked",
           serial' \in Nat, serial <= serial', repacks' = repacks,
           \A m \in more : /\ m.status # "original" /\ m.status # "auto"
                           /\ serial < m.id /\ m.id <= serial' /\ m.key = m.id,
           \A m, n \in more : m.id = n.id => m = n,
           datas \subseteq datas', datas' \subseteq Data,
           \A d \in datas' : d \in datas \/ (serial < d.key /\ d.key <= serial')
    PROVE  PackInv'
  <1>1. serial \in Nat /\ All \subseteq Row /\ \A r \in All : r.key \in Nat /\ r.key <= serial
    BY AllRows DEF PackInv, Keyed, Row
  <1>2. rows' \subseteq Row /\ IsFiniteSet(rows')
    <2>1. IsFiniteSet(rows \ gone)
      BY FS_Subset DEF PackInv
    <2>2. QED
      BY <2>1, FS_Union DEF PackInv
  <1>3. Keyed'
    <2>1. All' \subseteq All \cup more
      BY DEF All
    <2>2. \A d \in datas' : d.key <= serial'
      BY <1>1 DEF PackInv, Keyed, Data
    <2>3. QED
      BY <2>1, <2>2, KeyedStill
  <1>4. RowsIn("original")' = RowsIn("original") /\ RowsIn("auto")' \subseteq RowsIn("auto")
    <2>1. \A r \in RowsIn("original") : r.form # "picked"
      BY DEF PackInv, Line
    <2>2. QED
      BY <2>1 DEF RowsIn
  <1>5. ASSUME NEW r \in All PROVE Contents(r.key)' = Contents(r.key)
    <2>1. \A d \in datas \cup datas' : d.key = r.key => (d \in datas <=> d \in datas')
      BY <1>1
    <2>2. QED
      BY <2>1, SameContents
  <1>6. Prepared'
    <2>1. \A job \in repacks : job.pallets \subseteq All
      BY DEF All, Waiting
    <2>2. QED
      BY <1>5, <2>1 DEF PackInv, Prepared
  <1>7. PalletsHoldTheirLoad'
    <2>1. RowsIn("auto") \subseteq All
      BY DEF RowsIn, All
    <2>2. QED
      BY <1>4, <1>5, <2>1 DEF PackInv, PalletsHoldTheirLoad
  <1>8. QED
    BY <1>2, <1>3, <1>4, <1>6, <1>7 DEF PackInv, Originals

\* A copy of a set has lines and data of its own.
LEMMA DuplicatePacks ==
    ASSUME PackInv, NEW from, NEW status \in {"manual", "scanned"},
           Duplicate(RowsIn(from), status)
    PROVE  PackInv'
  <1> DEFINE S == RowsIn(from)
             n == Cardinality(S)
             copy(r) == Line(NewId(S, r), NewId(S, r), status, r.form, r.load)
             more == Copies(S, status)
  <1>1. /\ rows' = (rows \ {}) \cup more /\ datas' = datas \cup CopiedDatas(S)
        /\ serial' = serial + n /\ repacks' = repacks
        /\ S \in SUBSET rows /\ more = {copy(r) : r \in S}
    BY DEF Duplicate, RowsIn, Copies
  <1>2. /\ IsFiniteSet(S) /\ n \in Nat /\ serial \in Nat /\ serial' \in Nat
        /\ \A r \in S : NewId(S, r) \in (serial + 1)..(serial + n)
        /\ \A r, s \in S : NewId(S, r) = NewId(S, s) => r = s
    <2>1. S \in SUBSET rows
      BY <1>1
    <2> HIDE DEF S
    <2>2. /\ IsFiniteSet(S) /\ n \in Nat
          /\ \A r \in S : NewId(S, r) \in (serial + 1)..(serial + n)
          /\ \A r, s \in S : NewId(S, r) = NewId(S, s) => r = s
      BY <2>1, NewIds
    <2>3. serial \in Nat /\ serial' = serial + n
      BY <1>1 DEF PackInv
    <2>4. QED
      BY <2>2, <2>3
  <1> HIDE DEF n
  <1>3. \A r \in S : NewId(S, r) \in Nat /\ serial < NewId(S, r) /\ NewId(S, r) <= serial'
    BY <1>1, <1>2
  <1>4. \A r \in S : /\ copy(r) \in Row /\ copy(r).status = status
                     /\ copy(r).id = NewId(S, r) /\ copy(r).key = NewId(S, r)
    BY <1>1, <1>3 DEF Line, Row, PackInv, PackedStatuses
  <1> HIDE DEF copy
  <1>5. IsFiniteSet(more)
    <2> DEFINE g == [r \in S |-> copy(r)]
    <2>1. more = {g[r] : r \in S}
      BY <1>1
    <2>2. DOMAIN g = S /\ g = [r \in S |-> g[r]]
      OBVIOUS
    <2> HIDE DEF g, S, more
    <2>3. QED
      BY <1>2, <2>1, <2>2, ImageFinite
  <1>6. \A e \in CopiedDatas(S) : e \in Data /\ serial < e.key /\ e.key <= serial'
    BY <1>3 DEF CopiedDatas, PackInv, Data
  <1> HIDE DEF more, S
  <1>7. more \in SUBSET Row
    BY <1>1, <1>4
  <1>8. \A m \in more : /\ m.status # "original" /\ m.status # "auto"
                        /\ serial < m.id /\ m.id <= serial' /\ m.key = m.id
    BY <1>1, <1>3, <1>4
  <1>9. \A m, o \in more : m.id = o.id => m = o
    BY <1>1, <1>2, <1>4
  <1>10. /\ datas \subseteq datas' /\ datas' \subseteq Data /\ serial <= serial'
         /\ \A d \in datas' : d \in datas \/ (serial < d.key /\ d.key <= serial')
    BY <1>1, <1>2, <1>6 DEF PackInv
  <1>11. repacks' = repacks /\ serial' \in Nat
    BY <1>1, <1>2
  <1> DEFINE gone == {}
  <1>12. rows' = (rows \ gone) \cup more /\ \A r \in gone : r.form = "picked"
    BY <1>1
  <1> HIDE DEF gone
  <1>13. QED
    BY <1>5, <1>7, <1>8, <1>9, <1>10, <1>11, <1>12, OtherSets

\* Loose lines keep their keys; pallets get keys of their own, with nothing under them.
LEMMA AutoPacks ==
    ASSUME PackInv, AutoRepack
    PROVE  PackInv'
  <1>1. PICK looseItems \in SUBSET Originals, n \in 0..(MaxRows - serial) :
        \E loads \in [1..n -> SUBSET Originals \ {{}}] :
          LET loose == {r \in RowsIn("original") : r.load \subseteq looseItems}
              first == serial + Cardinality(loose)
              copies == {[r EXCEPT !.id = NewId(loose, r), !.status = "auto"] : r \in loose}
              onPallets == UNION {loads[k] : k \in 1..n}
          IN  /\ looseItems \cup onPallets = Originals
              /\ first + n <= MaxRows /\ Cardinality(repacks) < MaxRepacks
              /\ serial' = first + n
              /\ repacks' = repacks \cup
                     {[loose |-> copies,
                       pallets |-> {Line(first + k, first + k, "auto", "pallet", loads[k]) : k \in 1..n},
                       again |-> {r \in copies : r.load \subseteq onPallets}]}
              /\ UNCHANGED <<rows, datas>>
    BY Zenon DEF AutoRepack
  <1> DEFINE loose == {r \in RowsIn("original") : r.load \subseteq looseItems}
             m == Cardinality(loose)
             first == serial + m
             copy(r) == [r EXCEPT !.id = NewId(loose, r), !.status = "auto"]
             copies == {copy(r) : r \in loose}
  <1>2. PICK loads \in [1..n -> SUBSET Originals \ {{}}] :
          /\ serial' = first + n /\ UNCHANGED <<rows, datas>>
          /\ repacks' = repacks \cup
                 {[loose |-> copies,
                   pallets |-> {Line(first + k, first + k, "auto", "pallet", loads[k]) : k \in 1..n},
                   again |-> {r \in copies : r.load \subseteq UNION {loads[k] : k \in 1..n}}]}
    BY <1>1, Zenon
  <1> DEFINE pallet(k) == Line(first + k, first + k, "auto", "pallet", loads[k])
             pallets == {pallet(k) : k \in 1..n}
             again == {r \in copies : r.load \subseteq UNION {loads[k] : k \in 1..n}}
             job == [loose |-> copies, pallets |-> pallets, again |-> again]
             more == copies \cup pallets
  <1>3. /\ repacks' = repacks \cup {job} /\ serial' = first + n /\ UNCHANGED <<rows, datas>>
        /\ n \in Nat /\ \A k \in 1..n : loads[k] \in SUBSET Originals
    <2>1. MaxRows \in Nat /\ serial \in Nat
      BY PackingAssumption DEF PackInv
    <2>2. n \in Nat /\ \A k \in 1..n : loads[k] \in SUBSET Originals
      BY <2>1
    <2>3. QED
      BY <1>2, <2>2
  <1>4. loose \in SUBSET rows /\ \A r \in loose : r \in RowsIn("original")
    BY DEF RowsIn
  <1>5. \A r \in loose : r.form = "item" /\ r \in Row /\ r \in All
    BY <1>4 DEF PackInv, Line, All
  <1> HIDE DEF loose
  <1>6. /\ IsFiniteSet(loose) /\ m \in Nat
        /\ \A r \in loose : NewId(loose, r) \in (serial + 1)..(serial + m)
        /\ \A r, s \in loose : NewId(loose, r) = NewId(loose, s) => r = s
    BY <1>4, NewIds
  <1> HIDE DEF m
  <1>7. serial \in Nat /\ first \in Nat /\ serial' \in Nat /\ serial <= first /\ first <= serial'
    <2>1. serial \in Nat /\ m \in Nat /\ n \in Nat /\ serial' = first + n
      BY <1>3, <1>6 DEF PackInv
    <2>2. QED
      BY <2>1
  <1>8. \A r \in loose : /\ copy(r) \in Row /\ copy(r).status = "auto" /\ copy(r).form = "item"
                         /\ copy(r).id = NewId(loose, r) /\ copy(r).key = r.key
                         /\ serial < copy(r).id /\ copy(r).id <= first
    <2>1. \A r \in loose : NewId(loose, r) \in Nat /\ serial < NewId(loose, r) /\ NewId(loose, r) <= first
      BY <1>6, <1>7
    <2>2. QED
      BY <1>5, <2>1 DEF Row, PackedStatuses
  <1>9. \A k \in 1..n : /\ pallet(k) \in Row /\ pallet(k).status = "auto" /\ pallet(k).form = "pallet"
                        /\ pallet(k).id = first + k /\ pallet(k).key = first + k
                        /\ pallet(k).load = loads[k]
    <2>1. \A k \in 1..n : loads[k] \in SUBSET Originals
      BY <1>3
    <2>2. \A k \in 1..n : first + k \in Nat
      BY <1>7
    <2> HIDE DEF first
    <2>3. QED
      BY <2>1, <2>2 DEF Line, Row, PackedStatuses
  <1> HIDE DEF copy, pallet, first
  <1>10. IsFiniteSet(again)
    <2> DEFINE g == [r \in loose |-> copy(r)]
    <2>1. copies = {g[r] : r \in loose}
      OBVIOUS
    <2>2. DOMAIN g = loose /\ g = [r \in loose |-> g[r]]
      OBVIOUS
    <2>3. again \subseteq copies
      OBVIOUS
    <2> HIDE DEF g, copies, again
    <2>4. IsFiniteSet(copies)
      BY <1>6, <2>1, <2>2, ImageFinite
    <2>5. QED
      BY <2>3, <2>4, FS_Subset
  <1>11. Waiting(job) = more /\ more \in SUBSET Row /\ job \in Job
    <2>1. again \subseteq copies
      OBVIOUS
    <2>2. copies \subseteq Row /\ pallets \subseteq Row
      BY <1>8, <1>9
    <2> HIDE DEF copies, pallets, again
    <2>3. QED
      BY <2>1, <2>2 DEF Waiting, Job
  <1>12. Keyed'
    <2>1. All' \subseteq All \cup more
      <3> HIDE DEF job, more
      <3> QED
        BY <1>3, <1>11 DEF All, Waiting
    <2>2. ASSUME NEW x \in more
          PROVE  /\ serial < x.id /\ x.id <= serial'
                 /\ \/ x.key = x.id
                    \/ x.form # "pallet" /\ \E r \in All : r.form # "pallet" /\ x.key = r.key
      <3>1. CASE x \in copies
        <4>1. PICK r \in loose : x = copy(r)
          BY <3>1
        <4>2. /\ serial < x.id /\ x.id <= first /\ x.form = "item" /\ x.key = r.key
              /\ r \in All /\ r.form = "item" /\ x.id \in Nat
          BY <1>5, <1>8, <4>1 DEF Row
        <4>3. QED
          BY <1>7, <4>2
      <3>2. CASE x \in pallets
        BY <1>3, <1>7, <1>9, <3>2
      <3>3. QED
        BY <2>2, <3>1, <3>2
    <2>3. ASSUME NEW x \in more, NEW y \in more, x.id = y.id PROVE x = y
      <3>1. \A r, s \in loose : copy(r).id = copy(s).id => copy(r) = copy(s)
        BY <1>6, <1>8
      <3>2. \A j, k \in 1..n : pallet(j).id = pallet(k).id => pallet(j) = pallet(k)
        <4>1. \A j, k \in 1..n : first + j = first + k => j = k
          BY <1>3, <1>7
        <4>2. QED
          BY <1>9, <4>1
      <3>3. \A r \in loose, k \in 1..n : copy(r).id # pallet(k).id
        <4>1. \A r \in loose : copy(r).id \in Nat /\ copy(r).id <= first
          BY <1>8 DEF Row
        <4>2. QED
          BY <1>7, <1>9, <4>1
      <3>4. QED
        BY <2>3, <3>1, <3>2, <3>3
    <2>4. \A d \in datas' : d.key <= serial'
      BY <1>3, <1>7 DEF PackInv, Keyed, Data
    <2> HIDE DEF more
    <2>5. serial' \in Nat /\ serial <= serial' /\ more \in SUBSET Row
      BY <1>7, <1>11
    <2>6. QED
      BY <2>1, <2>2, <2>3, <2>4, <2>5, KeyedStill
  <1>13. Prepared'
    <2>1. \A key : Contents(key)' = Contents(key)
      BY <1>3 DEF Contents
    <2>2. \A k \in 1..n : Contents(first + k) = {}
      <3>1. \A k \in 1..n : \A d \in datas : d.key # first + k
        BY <1>7 DEF PackInv, Keyed, Data
      <3>2. QED
        BY <3>1 DEF Contents
    <2>3. /\ \A r \in copies : r.status = "auto" /\ r.form = "item"
          /\ \A p \in pallets : p.status = "auto" /\ p.form = "pallet" /\ Contents(p.key) = {}
      BY <1>8, <1>9, <2>2
    <2>4. job.loose = copies /\ job.pallets = pallets /\ job.again = again /\ again \subseteq copies
      OBVIOUS
    <2> HIDE DEF job, copies, pallets, again
    <2>5. QED
      BY <1>3, <1>10, <2>1, <2>3, <2>4 DEF PackInv, Prepared
  <1>14. PalletsHoldTheirLoad'
    BY <1>3 DEF PackInv, PalletsHoldTheirLoad, RowsIn, Contents
  <1>15. repacks' \subseteq Job
    <2> HIDE DEF job
    <2>1. QED
      BY <1>3, <1>11 DEF PackInv
  <1>16. QED
    BY <1>3, <1>7, <1>12, <1>13, <1>14, <1>15 DEF PackInv, RowsIn, Originals

\* Lines that waited are saved, and what waits becomes less.
LEMMA WaitingSaved ==
    ASSUME PackInv, NEW job \in repacks, NEW more \in SUBSET Waiting(job), IsFiniteSet(more),
           rows' = rows \cup more, serial' = serial, repacks' \subseteq Job,
           \A k \in repacks' : \/ k \in repacks
                               \/ /\ k.loose \subseteq job.loose /\ k.pallets \subseteq job.pallets
                                  /\ k.again \subseteq job.again,
           datas' \subseteq Data, \A d \in datas' : d.key <= serial,
           \A k \in repacks : \A p \in k.pallets : Contents(p.key)' \subseteq p.load,
           \A r \in RowsIn("auto") \cup more : r.form = "pallet" => Contents(r.key)' = r.load
    PROVE  PackInv'
  <1>1. All' \subseteq All /\ more \subseteq All
    BY DEF All, Waiting
  <1>2. All \subseteq Row
    BY AllRows
  <1>3. rows' \subseteq Row /\ IsFiniteSet(rows')
    <2>1. rows \subseteq Row /\ IsFiniteSet(rows)
      BY DEF PackInv
    <2>2. QED
      BY <1>1, <1>2, <2>1, FS_Union
  <1>4. Keyed'
    BY <1>1 DEF PackInv, Keyed
  <1>5. \A r \in more : r.status = "auto"
    BY DEF PackInv, Prepared, Waiting
  <1>6. RowsIn("original")' = RowsIn("original") /\ RowsIn("auto")' = RowsIn("auto") \cup more
    BY <1>5 DEF RowsIn
  <1>7. Prepared'
    <2>1. ASSUME NEW k \in repacks'
          PROVE  \E j \in repacks : /\ k.loose \subseteq j.loose /\ k.pallets \subseteq j.pallets
                                    /\ k.again \subseteq j.again
      OBVIOUS
    <2>2. \A j \in repacks : IsFiniteSet(j.again)
      BY DEF PackInv, Prepared
    <2>3. \A k \in repacks' : IsFiniteSet(k.again)
      BY <2>1, <2>2, FS_Subset
    <2>4. QED
      BY <2>1, <2>3 DEF PackInv, Prepared
  <1>8. PalletsHoldTheirLoad'
    BY <1>6 DEF PalletsHoldTheirLoad
  <1>9. QED
    BY <1>3, <1>4, <1>6, <1>7, <1>8 DEF PackInv, Originals

\* Loose lines are saved, or what waits is given up: the data stay.
LEMMA LoosePacks ==
    ASSUME PackInv, SaveLoose \/ EndAutoRepack
    PROVE  PackInv'
  <1>1. PICK job \in repacks : \E more \in SUBSET job.loose :
          /\ more = {} \/ \E r \in job.loose : more = {r}
          /\ rows' = rows \cup more /\ UNCHANGED <<datas, serial>>
          /\ \/ repacks' = repacks \ {job}
             \/ \E r \in job.loose : repacks' = (repacks \ {job}) \cup {[job EXCEPT !.loose = @ \ {r}]}
    <2>1. CASE SaveLoose
      <3>1. PICK job \in repacks : \E r \in job.loose :
              /\ rows' = rows \cup {r} /\ UNCHANGED <<datas, serial>>
              /\ repacks' = (repacks \ {job}) \cup {[job EXCEPT !.loose = @ \ {r}]}
        BY <2>1 DEF SaveLoose, Becomes
      <3>2. QED
        BY <3>1
    <2>2. CASE EndAutoRepack
      <3>1. PICK job \in repacks : repacks' = repacks \ {job} /\ UNCHANGED <<rows, datas, serial>>
        BY <2>2 DEF EndAutoRepack
      <3>2. rows' = rows \cup {} /\ {} \in SUBSET job.loose
        BY <3>1
      <3>3. QED
        BY <3>1, <3>2
    <2>3. QED
      BY <2>1, <2>2
  <1>2. PICK more \in SUBSET job.loose :
          /\ more = {} \/ \E r \in job.loose : more = {r}
          /\ rows' = rows \cup more /\ UNCHANGED <<datas, serial>>
          /\ \/ repacks' = repacks \ {job}
             \/ \E r \in job.loose : repacks' = (repacks \ {job}) \cup {[job EXCEPT !.loose = @ \ {r}]}
    BY <1>1
  <1>3. more \in SUBSET Waiting(job) /\ IsFiniteSet(more)
    <2>1. more = {} \/ \E r : more = {r}
      BY <1>2
    <2>2. more = {} => IsFiniteSet(more)
      BY FS_EmptySet
    <2>3. ASSUME NEW r, more = {r} PROVE IsFiniteSet(more)
      BY <2>3, FS_Singleton
    <2>4. IsFiniteSet(more)
      BY <2>1, <2>2, <2>3
    <2>5. QED
      BY <2>4 DEF Waiting
  <1>4. /\ repacks' \subseteq Job
        /\ \A k \in repacks' : \/ k \in repacks
                               \/ /\ k.loose \subseteq job.loose /\ k.pallets \subseteq job.pallets
                                  /\ k.again \subseteq job.again
    <2>1. repacks \subseteq Job
      BY DEF PackInv
    <2>2. ASSUME NEW r \in job.loose
          PROVE  /\ [job EXCEPT !.loose = @ \ {r}] \in Job
                 /\ [job EXCEPT !.loose = @ \ {r}].loose \subseteq job.loose
                 /\ [job EXCEPT !.loose = @ \ {r}].pallets = job.pallets
                 /\ [job EXCEPT !.loose = @ \ {r}].again = job.again
      BY <2>1 DEF Job
    <2>3. QED
      BY <1>2, <2>1, <2>2
  <1>5. \A key : Contents(key)' = Contents(key)
    BY <1>2 DEF Contents
  <1>6. \A k \in repacks : \A p \in k.pallets : Contents(p.key)' \subseteq p.load
    BY <1>5 DEF PackInv, Prepared
  <1>7. \A r \in RowsIn("auto") \cup more : r.form = "pallet" => Contents(r.key)' = r.load
    BY <1>5 DEF PackInv, Prepared, PalletsHoldTheirLoad
  <1>8. datas' \subseteq Data /\ \A d \in datas' : d.key <= serial
    BY <1>2 DEF PackInv, Keyed
  <1>9. QED
    BY <1>2, <1>3, <1>4, <1>6, <1>7, <1>8, WaitingSaved

\* What is on a pallet is saved under its key, and that is the key of no other.
LEMMA ContentsPacks ==
    ASSUME PackInv, SaveContents
    PROVE  PackInv'
  <1>1. PICK job \in repacks : \E p \in job.pallets : \E i \in p.load \ Contents(p.key) :
          /\ datas' = datas \cup {[key |-> p.key, of |-> i]}
          /\ rows' = rows \cup {r \in job.again : r.load = {i}}
          /\ UNCHANGED <<serial, repacks>>
    BY DEF SaveContents
  <1>2. PICK p \in job.pallets : \E i \in p.load \ Contents(p.key) :
          /\ datas' = datas \cup {[key |-> p.key, of |-> i]}
          /\ rows' = rows \cup {r \in job.again : r.load = {i}}
          /\ UNCHANGED <<serial, repacks>>
    BY <1>1
  <1>3. PICK i \in p.load \ Contents(p.key) :
          /\ datas' = datas \cup {[key |-> p.key, of |-> i]}
          /\ rows' = rows \cup {r \in job.again : r.load = {i}}
          /\ UNCHANGED <<serial, repacks>>
    BY <1>2
  <1> DEFINE more == {r \in job.again : r.load = {i}}
             new == [key |-> p.key, of |-> i]
  <1>4. p \in All /\ p.form = "pallet"
    BY DEF PackInv, Prepared, All, Waiting
  <1>5. p \in Row /\ p.key \in Nat /\ p.key <= serial /\ i \in Originals
    BY <1>4, AllRows DEF PackInv, Keyed, Row
  <1>6. new \in Data /\ new.key = p.key /\ new.of = i
    BY <1>5 DEF Data
  <1> HIDE DEF new
  <1>7. datas' = datas \cup {new} /\ datas' \subseteq Data /\ \A d \in datas' : d.key <= serial
    BY <1>3, <1>5, <1>6 DEF new, PackInv, Keyed
  <1>8. \A key : key # p.key => Contents(key)' = Contents(key)
    BY <1>6, <1>7 DEF Contents
  <1>9. Contents(p.key)' = Contents(p.key) \cup {i}
    BY <1>6, <1>7 DEF Contents
  <1>10. \A r \in All : r.key = p.key => r = p
    BY <1>4 DEF PackInv, Keyed
  <1>11. \A k \in repacks : \A q \in k.pallets : Contents(q.key)' \subseteq q.load
    <2>1. ASSUME NEW k \in repacks, NEW q \in k.pallets PROVE Contents(q.key)' \subseteq q.load
      <3>1. q \in All /\ Contents(q.key) \subseteq q.load
        BY DEF PackInv, Prepared, All, Waiting
      <3>2. CASE q.key = p.key
        BY <1>9, <1>10, <3>1, <3>2
      <3>3. CASE q.key # p.key
        BY <1>8, <3>1, <3>3
      <3>4. QED
        BY <3>2, <3>3
    <2>2. QED
      BY <2>1
  <1>12. more \in SUBSET Waiting(job) /\ IsFiniteSet(more) /\ \A r \in more : r.form = "item"
    <2>1. more \subseteq job.again /\ IsFiniteSet(job.again) /\ \A r \in job.again : r.form = "item"
      BY DEF PackInv, Prepared
    <2> HIDE DEF more
    <2>2. QED
      BY <2>1, FS_Subset DEF Waiting
  <1>13. \A r \in RowsIn("auto") \cup more : r.form = "pallet" => Contents(r.key)' = r.load
    <2>1. ASSUME NEW r \in RowsIn("auto"), r.form = "pallet" PROVE Contents(r.key)' = r.load
      <3>1. r \in All /\ Contents(r.key) = r.load
        BY <2>1 DEF PackInv, PalletsHoldTheirLoad, RowsIn, All
      <3>2. r.key # p.key
        BY <1>10, <3>1
      <3>3. QED
        BY <1>8, <3>1, <3>2
    <2>2. QED
      BY <1>12, <2>1
  <1>14. rows' = rows \cup more /\ serial' = serial /\ repacks' = repacks
    BY <1>3
  <1> HIDE DEF more
  <1>15. QED
    BY <1>7, <1>11, <1>12, <1>13, <1>14, WaitingSaved DEF PackInv

\* A pallet is saved after what is on it.
LEMMA PalletPacks ==
    ASSUME PackInv, SavePallet
    PROVE  PackInv'
  <1>1. PICK job \in repacks : \E p \in job.pallets :
          /\ p.load \subseteq Contents(p.key)
          /\ rows' = rows \cup {p} /\ UNCHANGED <<datas, serial>>
          /\ repacks' = (repacks \ {job}) \cup {[job EXCEPT !.pallets = @ \ {p}]}
    BY DEF SavePallet, Becomes
  <1>2. PICK p \in job.pallets :
          /\ p.load \subseteq Contents(p.key)
          /\ rows' = rows \cup {p} /\ UNCHANGED <<datas, serial>>
          /\ repacks' = (repacks \ {job}) \cup {[job EXCEPT !.pallets = @ \ {p}]}
    BY <1>1
  <1>3. {p} \in SUBSET Waiting(job) /\ IsFiniteSet({p})
    BY FS_Singleton DEF Waiting
  <1>4. /\ repacks' \subseteq Job
        /\ \A k \in repacks' : \/ k \in repacks
                               \/ /\ k.loose \subseteq job.loose /\ k.pallets \subseteq job.pallets
                                  /\ k.again \subseteq job.again
    <2>1. repacks \subseteq Job
      BY DEF PackInv
    <2>2. /\ [job EXCEPT !.pallets = @ \ {p}] \in Job
          /\ [job EXCEPT !.pallets = @ \ {p}].loose = job.loose
          /\ [job EXCEPT !.pallets = @ \ {p}].pallets \subseteq job.pallets
          /\ [job EXCEPT !.pallets = @ \ {p}].again = job.again
      BY <2>1 DEF Job
    <2>3. QED
      BY <1>2, <2>1, <2>2
  <1>5. \A key : Contents(key)' = Contents(key)
    BY <1>2 DEF Contents
  <1>6. \A k \in repacks : \A q \in k.pallets : Contents(q.key)' \subseteq q.load
    BY <1>5 DEF PackInv, Prepared
  <1>7. \A r \in RowsIn("auto") \cup {p} : r.form = "pallet" => Contents(r.key)' = r.load
    <2>1. Contents(p.key) = p.load
      BY <1>2 DEF PackInv, Prepared
    <2>2. QED
      BY <1>5, <2>1 DEF PackInv, PalletsHoldTheirLoad
  <1>8. datas' \subseteq Data /\ \A d \in datas' : d.key <= serial
    BY <1>2 DEF PackInv, Keyed
  <1>9. QED
    BY <1>2, <1>3, <1>4, <1>6, <1>7, <1>8, WaitingSaved

\* A set that is reset takes with it no pallet's data of the other sets.
LEMMA ResetPacks ==
    ASSUME PackInv, ResetRepack
    PROVE  PackInv'
  <1>1. PICK status \in {"auto", "manual"} :
          /\ rows' = rows \ RowsIn(status) /\ serial' = serial /\ repacks' = repacks
          /\ datas' = {d \in datas : d.key \notin Keys(RowsIn(status))}
    BY DEF ResetRepack
  <1>2. rows' \subseteq Row /\ IsFiniteSet(rows')
    BY <1>1, FS_Subset DEF PackInv
  <1>3. Keyed'
    BY <1>1 DEF PackInv, Keyed, All
  <1>4. RowsIn("original")' = RowsIn("original")
    BY <1>1 DEF RowsIn
  <1>5. \A key : Contents(key)' \subseteq Contents(key)
    BY <1>1 DEF Contents
  <1>6. Prepared'
    <2>1. \A job \in repacks : \A p \in job.pallets : Contents(p.key)' \subseteq p.load
      BY <1>5 DEF PackInv, Prepared
    <2>2. QED
      BY <1>1, <2>1 DEF PackInv, Prepared
  <1>7. PalletsHoldTheirLoad'
    <2>1. ASSUME NEW r \in RowsIn("auto")', r.form = "pallet" PROVE Contents(r.key)' = r.load
      <3>1. r \in rows /\ r \in RowsIn("auto") /\ r \notin RowsIn(status)
        BY <1>1 DEF RowsIn
      <3>2. \A s \in RowsIn(status) : s.key # r.key
        BY <2>1, <3>1 DEF PackInv, Keyed, All, RowsIn
      <3>3. r.key \notin Keys(RowsIn(status))
        BY <3>2 DEF Keys
      <3>4. Contents(r.key)' = Contents(r.key)
        BY <1>1, <3>3 DEF Contents
      <3>5. QED
        BY <2>1, <3>1, <3>4 DEF PackInv, PalletsHoldTheirLoad
    <2>2. QED
      BY <2>1 DEF PalletsHoldTheirLoad
  <1>8. QED
    BY <1>1, <1>2, <1>3, <1>4, <1>6, <1>7 DEF PackInv, Originals

\* What was picked is replaced by what is picked now...
LEMMA ScanPacks ==
    ASSUME PackInv, NEW r \in Rounds, Scan(r)
    PROVE  PackInv'
  <1> DEFINE p == Line(serial', serial', "scanned", "picked", {})
  <1>1. /\ serial \in Nat /\ \A s \in Picked : s.form = "picked"
        /\ serial' = serial + 1 /\ rows' = (rows \ Picked) \cup {p} /\ UNCHANGED <<datas, repacks>>
    BY DEF Scan, PackInv, Picked
  <1>2. p \in Row /\ p.status = "scanned" /\ p.id = serial' /\ p.key = p.id
    BY <1>1 DEF Line, Row, PackedStatuses
  <1> HIDE DEF p
  <1>3. serial' \in Nat /\ serial < serial' /\ serial <= serial' /\ IsFiniteSet({p})
    <2>1. IsFiniteSet({p})
      BY FS_Singleton
    <2>2. QED
      BY <1>1, <2>1
  <1>4. datas \subseteq datas' /\ datas' \subseteq Data /\ \A d \in datas' : d \in datas
    BY <1>1 DEF PackInv
  <1>5. \A m \in {p} : /\ m.status # "original" /\ m.status # "auto"
                       /\ serial < m.id /\ m.id <= serial' /\ m.key = m.id
    BY <1>2, <1>3
  <1>6. {p} \in SUBSET Row /\ \A m, n \in {p} : m.id = n.id => m = n
    BY <1>2
  <1>7. QED
    BY <1>1, <1>3, <1>4, <1>5, <1>6, OtherSets

\* ... or by nothing when the scan fails.
LEMMA ScanFailsPacks ==
    ASSUME PackInv, ScanFails
    PROVE  PackInv'
  <1>1. /\ \A s \in Picked : s.form = "picked"
        /\ rows' = (rows \ Picked) \cup {} /\ UNCHANGED <<datas, serial, repacks>>
    BY DEF ScanFails, Picked
  <1>2. datas \subseteq datas' /\ datas' \subseteq Data /\ \A d \in datas' : d \in datas
    BY <1>1 DEF PackInv
  <1>3. serial' \in Nat /\ serial <= serial' /\ {} \in SUBSET Row /\ IsFiniteSet({})
    BY <1>1, FS_EmptySet DEF PackInv
  <1>4. QED
    BY <1>1, <1>2, <1>3, OtherSets

\* Every step.
LEMMA PackStep ==
    ASSUME PackInv, [Next]_vars
    PROVE  PackInv'
  <1>1. ASSUME UNCHANGED packingVars PROVE PackInv'
    <2>1. UNCHANGED <<rows, datas, serial, repacks>>
      BY <1>1 DEF packingVars
    <2>2. All' = All /\ Keyed' = Keyed /\ RowsIn("original")' = RowsIn("original")
      BY <2>1 DEF All, Keyed, RowsIn
    <2>3. Prepared' = Prepared /\ PalletsHoldTheirLoad' = PalletsHoldTheirLoad
      BY <2>1 DEF Prepared, PalletsHoldTheirLoad, RowsIn, Contents
    <2>4. QED
      BY <2>1, <2>2, <2>3 DEF PackInv, Originals
  <1>2. CASE StaffRepacks
    <2>1. CASE ManualRepack
      <3>1. PICK from \in {"original", "auto"} : Duplicate(RowsIn(from), "manual")
        BY <2>1 DEF ManualRepack
      <3>2. QED
        BY <3>1, DuplicatePacks
    <2>2. QED
      BY <1>2, <2>1, AutoPacks, LoosePacks, ContentsPacks, PalletPacks, ResetPacks
      DEF StaffRepacks, Repack
  <1>3. CASE \E r \in Rounds : Scan(r)
    BY <1>3, ScanPacks
  <1>4. CASE ScanFails
    BY <1>4, ScanFailsPacks
  <1>5. CASE Book
    <2>1. CASE RowsIn("scanned") # {}
      BY <1>1, <1>5, <2>1 DEF Book, ScannedRepack
    <2>2. CASE RowsIn("scanned") = {}
      <3>1. PICK status \in SetToShip : Duplicate(RowsIn(status), "scanned")
        BY <1>5, <2>2 DEF Book, ScannedRepack, CopyForScanned
      <3>2. QED
        BY <3>1, DuplicatePacks
    <2>3. QED
      BY <2>1, <2>2
  <1>6. CASE (\E r \in Rounds : PricePage(r) \/ RoundStep(r)) \/ UNCHANGED vars
    BY <1>1, <1>6 DEF PricePage, RoundStep, vars
  <1>7. QED
    BY <1>2, <1>3, <1>4, <1>5, <1>6 DEF Next

-----------------------------------------------------------------------------
(* Type correctness.                                                       *)

Quotes == Quote(PackedStatuses)

\* Quotes are finitely many, under ids of their own.
QuotesNumbered ==
    /\ IsFiniteSet(quotes)
    /\ \A q \in quotes : q.id <= made
    /\ \A p, q \in quotes : p.id = q.id => p = q

TypeInv ==
    /\ TypeOK
    /\ PackInv
    /\ QuotesNumbered

\* Quotes changed one by one, under the ids they had.
LEMMA ChangedQuotes ==
    ASSUME TypeInv, NEW g, g = [q \in quotes |-> g[q]], quotes' = {g[q] : q \in quotes},
           \A q \in quotes : g[q] = q \/ \E used \in BOOLEAN : g[q] = [q EXCEPT !.used = used],
           made' = made
    PROVE  quotes' \subseteq Quotes /\ QuotesNumbered'
  <1>1. \A q \in quotes : q \in Quotes
    BY DEF TypeInv, TypeOK, Quotes
  <1>2. \A q \in quotes : g[q] \in Quotes /\ g[q].id = q.id
    BY <1>1 DEF Quotes, Quote
  <1>3. IsFiniteSet(quotes')
    <2>1. DOMAIN g = quotes /\ IsFiniteSet(quotes)
      BY DEF TypeInv, QuotesNumbered
    <2>2. QED
      BY <2>1, ImageFinite
  <1>4. QED
    BY <1>2, <1>3 DEF TypeInv, QuotesNumbered

\* A round that begins retires quotes.
LEMMA BeginTypes ==
    ASSUME TypeInv, NEW r \in Rounds, NEW kind \in {"page", "scan"},
           NEW sets \in SUBSET PackedStatuses, NEW packed \in SUBSET PackedStatuses,
           Begin(r, kind, sets, packed, booked), made' = made
    PROVE  /\ quotes' \subseteq Quotes /\ QuotesNumbered'
           /\ rounds' \in [Rounds -> Round(PackedStatuses)]
  <1> DEFINE g == [q \in quotes |-> [q EXCEPT !.used = @ \/ q.status \in sets]]
  <1>1. quotes' = {g[q] : q \in quotes}
    BY DEF Begin, Retired
  <1>2. ASSUME NEW q \in quotes
        PROVE  g[q] = q \/ \E used \in BOOLEAN : g[q] = [q EXCEPT !.used = used]
    <2>1. g[q] = [q EXCEPT !.used = @ \/ q.status \in sets]
      OBVIOUS
    <2> HIDE DEF g
    <2>2. (q.used \/ q.status \in sets) \in BOOLEAN
      OBVIOUS
    <2>3. QED
      BY <2>1, <2>2
  <1>3. g = [q \in quotes |-> g[q]]
    OBVIOUS
  <1> HIDE DEF g
  <1>4. quotes' \subseteq Quotes /\ QuotesNumbered'
    BY <1>1, <1>2, <1>3, ChangedQuotes
  <1> DEFINE round == [pc |-> "collect", kind |-> kind, sets |-> sets, packed |-> sets \cap packed,
                       copies |-> {}, booked |-> booked, alone |-> Quiet]
  <1>5. round \in Round(PackedStatuses)
    <2>1. Quiet \in BOOLEAN /\ booked \in BOOLEAN
      BY DEF Quiet, TypeInv, TypeOK
    <2>2. QED
      BY <2>1 DEF Round
  <1>6. rounds' = [s \in Rounds |-> IF s # r THEN [rounds[s] EXCEPT !.alone = FALSE] ELSE round]
    BY DEF Begin
  <1> HIDE DEF round
  <1>7. \A s \in Rounds : [rounds[s] EXCEPT !.alone = FALSE] \in Round(PackedStatuses)
    BY DEF TypeInv, TypeOK, Round
  <1>8. rounds' \in [Rounds -> Round(PackedStatuses)]
    BY <1>5, <1>6, <1>7
  <1>9. QED
    BY <1>4, <1>8

LEMMA AnswerTypes ==
    ASSUME TypeInv, NEW r \in Rounds, Answer(r)
    PROVE  quotes' \subseteq Quotes /\ QuotesNumbered' /\ made' \in Nat
  <1>1. PICK status \in rounds[r].packed, fp \in Fps, fit \in BOOLEAN :
            quotes' = quotes \cup
                {[id |-> made', fp |-> fp, status |-> status, fit |-> fit, used |-> FALSE, by |-> r]}
    BY DEF Answer
  <1>2. status \in PackedStatuses /\ made \in Nat /\ made' = made + 1
    BY DEF Answer, TypeInv, TypeOK, Round
  <1> DEFINE new == [id |-> made', fp |-> fp, status |-> status, fit |-> fit, used |-> FALSE, by |-> r]
  <1>3. new \in Quotes /\ new.id = made'
    BY <1>2 DEF Quotes, Quote
  <1>4. quotes' = quotes \cup {new}
    BY <1>1
  <1> HIDE DEF new
  <1>5. quotes' \subseteq Quotes /\ IsFiniteSet(quotes')
    BY <1>3, <1>4, FS_AddElement DEF TypeInv, TypeOK, Quotes, QuotesNumbered
  <1>6. \A q \in quotes : q.id \in Nat /\ q.id <= made
    BY DEF TypeInv, TypeOK, QuotesNumbered, Quote
  <1>7. \A q \in quotes : q.id <= made' /\ q.id # made'
    BY <1>2, <1>6
  <1>8. QuotesNumbered'
    BY <1>2, <1>3, <1>4, <1>5, <1>7 DEF TypeInv, QuotesNumbered
  <1>9. QED
    BY <1>2, <1>5, <1>8

\* What a round does with its copies.
LEMMA AfterTypes ==
    ASSUME TypeInv, NEW r \in Rounds, After(r)
    PROVE  /\ quotes' \subseteq Quotes /\ QuotesNumbered'
           /\ rounds' \in [Rounds -> Round(PackedStatuses)]
  <1>1. rounds \in [Rounds -> Round(PackedStatuses)] /\ quotes \subseteq Quotes
    BY DEF TypeInv, TypeOK, Quotes
  <1>2. made' = made
    BY DEF After, AfterReads, AfterSaves, AfterHides, AfterEnds
  <1>3. CASE AfterReads(r)
    <2>1. {q.id : q \in Live} \subseteq Nat
      BY <1>1 DEF Live, Quotes, Quote
    <2> DEFINE round == [[rounds[r] EXCEPT !.pc = "after"] EXCEPT !.copies = {q.id : q \in Live}]
    <2>2. round \in Round(PackedStatuses)
      BY <1>1, <2>1 DEF Round
    <2>3. rounds' = [rounds EXCEPT ![r] = round] /\ quotes' = quotes
      BY <1>1, <1>3 DEF AfterReads
    <2> HIDE DEF round
    <2>4. QED
      BY <1>1, <1>2, <2>2, <2>3 DEF TypeInv, QuotesNumbered
  <1>4. CASE AfterSaves(r) \/ AfterHides(r)
    <2>1. PICK id \in rounds[r].copies, left \in SUBSET rounds[r].copies :
            /\ rounds' = [rounds EXCEPT ![r].copies = left]
            /\ \/ quotes' = {IF q.id = id THEN [q EXCEPT !.used = FALSE] ELSE q : q \in quotes}
               \/ quotes' = {[q EXCEPT !.used = @ \/ (q.id = id /\ q.fp \in Allied)] : q \in quotes}
      BY <1>4 DEF AfterSaves, AfterHides
    <2>2. rounds' \in [Rounds -> Round(PackedStatuses)]
      <3>1. [rounds[r] EXCEPT !.copies = left] \in Round(PackedStatuses)
        BY <1>1 DEF Round
      <3>2. rounds' = [rounds EXCEPT ![r] = [rounds[r] EXCEPT !.copies = left]]
        BY <1>1, <2>1
      <3>3. QED
        BY <1>1, <3>1, <3>2
    <2>3. CASE quotes' = {IF q.id = id THEN [q EXCEPT !.used = FALSE] ELSE q : q \in quotes}
      <3> DEFINE g == [q \in quotes |-> IF q.id = id THEN [q EXCEPT !.used = FALSE] ELSE q]
      <3>1. quotes' = {g[q] : q \in quotes} /\ g = [q \in quotes |-> g[q]]
        BY <2>3
      <3>2. \A q \in quotes : g[q] = q \/ \E used \in BOOLEAN : g[q] = [q EXCEPT !.used = used]
        OBVIOUS
      <3> HIDE DEF g
      <3>3. QED
        BY <1>2, <2>2, <3>1, <3>2, ChangedQuotes
    <2>4. CASE quotes' = {[q EXCEPT !.used = @ \/ (q.id = id /\ q.fp \in Allied)] : q \in quotes}
      <3> DEFINE g == [q \in quotes |-> [q EXCEPT !.used = @ \/ (q.id = id /\ q.fp \in Allied)]]
      <3>1. quotes' = {g[q] : q \in quotes} /\ g = [q \in quotes |-> g[q]]
        BY <2>4
      <3>2. \A q \in quotes : g[q] = q \/ \E used \in BOOLEAN : g[q] = [q EXCEPT !.used = used]
        <4>1. ASSUME NEW q \in quotes
              PROVE  /\ (q.used \/ (q.id = id /\ q.fp \in Allied)) \in BOOLEAN
                     /\ g[q] = [q EXCEPT !.used = q.used \/ (q.id = id /\ q.fp \in Allied)]
          OBVIOUS
        <4> HIDE DEF g
        <4>2. QED
          BY <4>1
      <3> HIDE DEF g
      <3>3. QED
        BY <1>2, <2>2, <3>1, <3>2, ChangedQuotes
    <2>5. QED
      BY <2>1, <2>3, <2>4
  <1>5. CASE AfterEnds(r)
    <2>1. PICK hidden \in {{}, Allied} :
            quotes' = {[q EXCEPT !.used = @ \/ q.fp \in hidden] : q \in quotes}
      BY <1>5 DEF AfterEnds
    <2> DEFINE g == [q \in quotes |-> [q EXCEPT !.used = @ \/ q.fp \in hidden]]
    <2>2. quotes' = {g[q] : q \in quotes} /\ g = [q \in quotes |-> g[q]]
      BY <2>1
    <2>3. \A q \in quotes : g[q] = q \/ \E used \in BOOLEAN : g[q] = [q EXCEPT !.used = used]
      <3>1. ASSUME NEW q \in quotes
            PROVE  /\ (q.used \/ q.fp \in hidden) \in BOOLEAN
                   /\ g[q] = [q EXCEPT !.used = q.used \/ q.fp \in hidden]
        OBVIOUS
      <3> HIDE DEF g
      <3>2. QED
        BY <3>1
    <2> HIDE DEF g
    <2>4. quotes' \subseteq Quotes /\ QuotesNumbered'
      BY <1>2, <2>2, <2>3, ChangedQuotes
    <2> DEFINE round == [[rounds[r] EXCEPT !.pc = "select"] EXCEPT !.copies = {}]
    <2>5. round \in Round(PackedStatuses)
      BY <1>1 DEF Round
    <2>6. rounds' = [rounds EXCEPT ![r] = round]
      BY <1>1, <1>5 DEF AfterEnds
    <2> HIDE DEF round
    <2>7. QED
      BY <1>1, <2>4, <2>5, <2>6
  <1>6. QED
    BY <1>3, <1>4, <1>5 DEF After

\* The ids that copies of quotes get.
LEMMA NewQuoteIds ==
    ASSUME made \in Nat, NEW S, IsFiniteSet(S), \A q \in S : q.id \in Nat,
           \A p, q \in S : p.id = q.id => p = q
    PROVE  /\ Cardinality(S) \in Nat
           /\ \A q \in S : QuoteId(S, q) \in (made + 1)..(made + Cardinality(S))
           /\ \A p, q \in S : QuoteId(S, p) = QuoteId(S, q) => p = q
  <1>1. /\ Cardinality(S) \in Nat
        /\ \A q \in S : Rank(S, q) \in 1..Cardinality(S)
        /\ \A p, q \in S : Rank(S, p) = Rank(S, q) => p = q
    BY Ranked
  <1>2. \A q \in S : QuoteId(S, q) = made + Rank(S, q)
    BY DEF QuoteId, Rank
  <1>3. QED
    BY <1>1, <1>2

\* Quotes are copied under new ids.
LEMMA BookTypes ==
    ASSUME TypeInv, ScannedRepack
    PROVE  quotes' \subseteq Quotes /\ QuotesNumbered' /\ {made', chosen'} \subseteq Nat
  <1>1. quotes \subseteq Quotes /\ QuotesNumbered /\ {made, chosen} \subseteq Nat
    BY DEF TypeInv, TypeOK, Quotes
  <1>2. CASE RowsIn("scanned") # {}
    BY <1>1, <1>2 DEF ScannedRepack, QuotesNumbered
  <1>3. CASE RowsIn("scanned") = {}
    <2>1. PICK status \in SetToShip : CopyForScanned(status)
      BY <1>3 DEF ScannedRepack
    <2> DEFINE live == LiveIn(status)
               n == Cardinality(live)
               f == [q \in live |-> QuoteId(live, q)]
               g == [q \in live |-> [q EXCEPT !.id = f[q], !.status = "scanned", !.by = NoRound]]
    <2>2. live \in SUBSET quotes
      BY DEF LiveIn, Live
    <2>3. /\ quotes' = quotes \cup CopiedQuotes(live) /\ made' = made + n
          /\ chosen' = IF \E q \in live : q.id = chosen
                       THEN QuoteId(live, CHOOSE q \in live : q.id = chosen) ELSE chosen
      BY <2>1 DEF CopyForScanned
    <2>4. CopiedQuotes(live) = {g[q] : q \in live} /\ g = [q \in live |-> g[q]] /\ DOMAIN g = live
      BY DEF CopiedQuotes
    <2> HIDE DEF live
    <2>5. IsFiniteSet(live)
      BY <1>1, <2>2, FS_Subset DEF QuotesNumbered
    <2>8. \A q \in live : f[q] = QuoteId(live, q)
      OBVIOUS
    <2> HIDE DEF f
    <2>9. /\ n \in Nat
          /\ \A q \in live : f[q] \in (made + 1)..(made + n)
          /\ \A p, q \in live : f[p] = f[q] => p = q
      <3>1. /\ made \in Nat /\ \A q \in live : q.id \in Nat
            /\ \A p, q \in live : p.id = q.id => p = q
        BY <1>1, <2>2 DEF QuotesNumbered, Quotes, Quote
      <3>2. QED
        BY <2>5, <2>8, <3>1, NewQuoteIds DEF n
    <2> HIDE DEF n
    <2>10. \A q \in live : f[q] \in Nat /\ made < f[q] /\ f[q] <= made'
      BY <1>1, <2>3, <2>9
    <2>11. ASSUME NEW q \in live PROVE g[q] \in Quotes /\ g[q].id = f[q]
      <3>1. q \in Quotes /\ f[q] \in Nat
        BY <1>1, <2>2, <2>10
      <3>2. g[q] = [id |-> f[q], fp |-> q.fp, status |-> "scanned", fit |-> q.fit,
                    used |-> q.used, by |-> NoRound]
        BY <3>1 DEF Quotes, Quote
      <3> HIDE DEF g
      <3>3. QED
        BY <3>1, <3>2 DEF Quotes, Quote, PackedStatuses
    <2> HIDE DEF g
    <2>12. CopiedQuotes(live) \subseteq Quotes /\ IsFiniteSet(CopiedQuotes(live))
      BY <2>4, <2>5, <2>11, ImageFinite
    <2>13. /\ \A c \in CopiedQuotes(live) : c.id \in Nat /\ made < c.id /\ c.id <= made'
           /\ \A c, d \in CopiedQuotes(live) : c.id = d.id => c = d
      BY <2>4, <2>9, <2>10, <2>11
    <2>14. \A q \in quotes : q.id \in Nat /\ q.id <= made
      BY <1>1 DEF QuotesNumbered, Quotes, Quote
    <2>15. made' \in Nat /\ made <= made'
      BY <1>1, <2>3, <2>9
    <2>16. QuotesNumbered'
      <3>1. IsFiniteSet(quotes')
        BY <1>1, <2>3, <2>12, FS_Union DEF QuotesNumbered
      <3>2. \A q \in quotes' : q.id <= made'
        BY <1>1, <2>3, <2>13, <2>14, <2>15
      <3>3. \A q \in quotes, c \in CopiedQuotes(live) : q.id # c.id
        BY <1>1, <2>13, <2>14
      <3>4. \A p, q \in quotes' : p.id = q.id => p = q
        BY <1>1, <2>3, <2>13, <3>3 DEF QuotesNumbered
      <3>5. QED
        BY <3>1, <3>2, <3>4 DEF QuotesNumbered
    <2>17. chosen' \in Nat
      <3>1. CASE \E q \in live : q.id = chosen
        <4>1. (CHOOSE q \in live : q.id = chosen) \in live
          BY <3>1
        <4>2. QED
          BY <2>3, <2>8, <2>10, <3>1, <4>1
      <3>2. QED
        BY <1>1, <2>3, <3>1
    <2>18. QED
      BY <1>1, <2>3, <2>12, <2>15, <2>16, <2>17
  <1>4. QED
    BY <1>2, <1>3

\* Every step keeps the types.
LEMMA TypeStep ==
    ASSUME TypeInv, [Next]_vars
    PROVE  TypeInv'
  <1>1. /\ quotes \subseteq Quotes /\ QuotesNumbered /\ {made, chosen, failures} \subseteq Nat
        /\ rounds \in [Rounds -> Round(PackedStatuses)] /\ {booked, late} \subseteq BOOLEAN
    BY DEF TypeInv, TypeOK, Quotes
  <1>2. PackInv' /\ PackingTypeOK'
    BY PackStep, PackTypes, PTL DEF TypeInv
  <1>3. ASSUME UNCHANGED <<quotes, made>> PROVE quotes' \subseteq Quotes /\ QuotesNumbered'
    BY <1>1, <1>3 DEF QuotesNumbered
  <1>4. Idle \in Round(PackedStatuses)
    BY DEF Idle, Round
  <1>5. ASSUME NEW r \in Rounds, End(r) PROVE rounds' \in [Rounds -> Round(PackedStatuses)]
    BY <1>1, <1>4, <1>5 DEF End
  <1>6. \A q \in quotes : q.id \in Nat
    BY <1>1 DEF Quotes, Quote
  <1>7. CASE UNCHANGED vars \/ StaffRepacks
    <2>1. UNCHANGED <<quotingVars, booked, late>>
      BY <1>7 DEF vars, StaffRepacks
    <2>2. QED
      BY <1>1, <1>2, <1>3, <2>1 DEF quotingVars, TypeInv, TypeOK, Quotes
  <1>8. CASE \E r \in Rounds : PricePage(r)
    <2>1. PICK r \in Rounds : PricePage(r)
      BY <1>8
    <2>2. Packed \in SUBSET PackedStatuses
      BY DEF Packed, TypeInv, TypeOK, PackingTypeOK, Row
    <2>3. /\ Begin(r, "page", PackedStatuses, Packed, booked)
          /\ UNCHANGED <<made, chosen, failures, booked, late>>
      BY <2>1 DEF PricePage
    <2>4. /\ quotes' \subseteq Quotes /\ QuotesNumbered'
          /\ rounds' \in [Rounds -> Round(PackedStatuses)]
      BY <2>2, <2>3, BeginTypes
    <2>5. QED
      BY <1>1, <1>2, <2>3, <2>4 DEF TypeInv, TypeOK, Quotes
  <1>9. CASE \E r \in Rounds : Scan(r)
    <2>1. PICK r \in Rounds : Scan(r)
      BY <1>9
    <2>2. Begin(r, "scan", {"scanned"}, {"scanned"}, booked)
      BY <2>1 DEF Scan
    <2>3. {"scanned"} \in SUBSET PackedStatuses
      BY DEF PackedStatuses
    <2>4. /\ chosen' = 0 /\ late' \in BOOLEAN /\ UNCHANGED <<made, failures, booked>>
      BY <1>1, <2>1 DEF Scan
    <2>5. /\ quotes' \subseteq Quotes /\ QuotesNumbered'
          /\ rounds' \in [Rounds -> Round(PackedStatuses)]
      BY <2>2, <2>3, <2>4, BeginTypes
    <2>6. QED
      BY <1>1, <1>2, <2>4, <2>5 DEF TypeInv, TypeOK, Quotes
  <1>10. CASE \E r \in Rounds : RoundStep(r)
    <2>1. PICK r \in Rounds : RoundStep(r)
      BY <1>10
    <2>2. UNCHANGED <<booked, late>>
      BY <2>1 DEF RoundStep
    <2>3. CASE Answer(r)
      BY <1>1, <1>2, <2>2, <2>3, AnswerTypes DEF Answer, TypeInv, TypeOK, Quotes
    <2>4. CASE After(r)
      <3>1. UNCHANGED <<made, chosen, failures>>
        BY <2>4 DEF After, AfterReads, AfterSaves, AfterHides, AfterEnds
      <3>2. QED
        BY <1>1, <1>2, <2>2, <2>4, <3>1, AfterTypes DEF TypeInv, TypeOK, Quotes
    <2>5. CASE AfterFails(r) \/ PageSelect(r) \/ ScanSelect(r)
      <3>1. rounds' \in [Rounds -> Round(PackedStatuses)] /\ UNCHANGED <<quotes, made>>
        BY <1>5, <2>5 DEF AfterFails, PageSelect, ScanSelect
      <3>2. Live \subseteq quotes /\ LiveIn("scanned") \subseteq quotes
        BY DEF Live, LiveIn
      <3>3. chosen' = chosen \/ chosen' = 0 \/ \E best \in quotes : chosen' = best.id
        <4>1. CASE AfterFails(r)
          BY <4>1 DEF AfterFails
        <4>2. CASE PageSelect(r)
          BY <3>2, <4>2 DEF PageSelect
        <4>3. CASE ScanSelect(r)
          BY <3>2, <4>3 DEF ScanSelect
        <4>4. QED
          BY <2>5, <4>1, <4>2, <4>3
      <3>4. failures' \in Nat
        BY <1>1, <2>5 DEF AfterFails, PageSelect, ScanSelect
      <3>5. chosen' \in Nat
        BY <1>1, <1>6, <3>3
      <3>6. QED
        BY <1>1, <1>2, <1>3, <2>2, <3>1, <3>4, <3>5 DEF TypeInv, TypeOK, Quotes
    <2>6. QED
      BY <2>1, <2>3, <2>4, <2>5 DEF RoundStep
  <1>11. CASE ScanFails
    BY <1>1, <1>2, <1>3, <1>11 DEF ScanFails, TypeInv, TypeOK, Quotes
  <1>12. CASE Book
    <2>1. quotes' \subseteq Quotes /\ QuotesNumbered' /\ {made', chosen'} \subseteq Nat
      BY <1>12, BookTypes DEF Book
    <2>2. booked' \in BOOLEAN /\ UNCHANGED <<rounds, failures, late>>
      BY <1>12 DEF Book
    <2>3. QED
      BY <1>1, <1>2, <2>1, <2>2 DEF TypeInv, TypeOK, Quotes
  <1>13. QED
    BY <1>7, <1>8, <1>9, <1>10, <1>11, <1>12 DEF Next

LEMMA TypeInit == Init => TypeInv
  <1> SUFFICES ASSUME Init PROVE TypeInv
    OBVIOUS
  <1>1. PackInv /\ PackingTypeOK
    BY PackInit, PackTypes
  <1>2. Idle \in Round(PackedStatuses)
    BY DEF Idle, Round
  <1>3. /\ quotes = {} /\ made = 0 /\ chosen = 0 /\ failures = 0
        /\ rounds = [r \in Rounds |-> Idle] /\ booked = FALSE /\ late = FALSE
    BY DEF Init, InitQuoting
  <1>4. QuotesNumbered
    BY <1>3, FS_EmptySet DEF QuotesNumbered
  <1>5. rounds \in [Rounds -> Round(PackedStatuses)]
    BY <1>2, <1>3
  <1>6. {booked, late} \subseteq BOOLEAN
    BY <1>3
  <1>7. {made, chosen, failures} \subseteq Nat /\ quotes \subseteq Quote(PackedStatuses)
    BY <1>3
  <1>8. QED
    BY <1>1, <1>4, <1>5, <1>6, <1>7 DEF TypeInv, TypeOK

\* The rows, the repacks, the quotes and the rounds keep their types, and no two rows
\* of a booking have one id.
THEOREM FulfilmentTypes == Spec => []TypeOK
  <1>1. TypeInv => TypeOK
    BY DEF TypeInv
  <1>2. TypeInv /\ [Next]_vars => TypeInv'
    BY TypeStep
  <1>3. QED
    BY <1>1, <1>2, TypeInit, PTL DEF Spec

\* However automatic repacks break off, overlap, and are copied and reset meanwhile,
\* and although loose lines share the data of the original ones: a pallet of the
\* automatic set has under its key just what its weight was added up from.
THEOREM PalletsKeepTheirLoad == Spec => []PalletsHoldTheirLoad
  <1>1. TypeInv => PalletsHoldTheirLoad
    BY DEF TypeInv, PackInv
  <1>2. TypeInv /\ [Next]_vars => TypeInv'
    BY TypeStep
  <1>3. QED
    BY <1>1, <1>2, TypeInit, PTL DEF Spec

-----------------------------------------------------------------------------
(* The scanned set.                                                        *)

\* Only the scanned set has picked lines, and until the booking is booked it
\* has no others.
ScannedInv ==
    /\ \A r \in rows : r.form = "picked" => r.status = "scanned"
    /\ ~booked => RowsIn("scanned") = Picked
    /\ ScannedOnce

\* Lines added to one set, none of them picked, leave the other sets alone.
LEMMA Added ==
    ASSUME ScannedInv, NEW more, NEW status,
           rows' = rows \cup more,
           \A c \in more : c.status = status /\ c.form # "picked",
           status # "scanned" \/ RowsIn("scanned") = {},
           status = "scanned" => booked',
           late' = late, booked => booked'
    PROVE  ScannedInv'
  <1>1. (\A r \in rows : r.form = "picked" => r.status = "scanned")'
    BY DEF ScannedInv
  <1>2. Picked' = Picked
    BY DEF Picked
  <1>3. CASE status # "scanned"
    <2>1. RowsIn("scanned")' = RowsIn("scanned")
      BY <1>3 DEF RowsIn
    <2>2. QED
      BY <1>1, <1>2, <2>1 DEF ScannedInv, ScannedOnce
  <1>4. CASE status = "scanned"
    <2>1. RowsIn("scanned") = {}
      BY <1>4
    <2>2. Picked = {}
      BY <2>1 DEF Picked, RowsIn, ScannedInv
    <2>3. QED
      BY <1>1, <1>2, <1>4, <2>2 DEF ScannedInv, ScannedOnce
  <1>5. QED
    BY <1>3, <1>4

LEMMA DuplicateKeepsScanned ==
    ASSUME ScannedInv, NEW from, NEW status, Duplicate(RowsIn(from), status),
           from # "scanned" \/ RowsIn("scanned") = {},
           status # "scanned" \/ RowsIn("scanned") = {},
           status = "scanned" => booked',
           late' = late, booked => booked'
    PROVE  ScannedInv'
  <1>1. \A r \in RowsIn(from) : r.form # "picked"
    BY DEF ScannedInv, RowsIn
  <1>2. \A c \in Copies(RowsIn(from), status) : c.status = status /\ c.form # "picked"
    BY <1>1 DEF Copies, Line
  <1>3. rows' = rows \cup Copies(RowsIn(from), status)
    BY DEF Duplicate
  <1>4. QED
    BY <1>2, <1>3, Added

\* What an automatic repack saves are lines of the automatic set.
LEMMA RepackKeepsScanned ==
    ASSUME PackInv, ScannedInv, Repack, UNCHANGED <<booked, late>>
    PROVE  ScannedInv'
  <1>1. CASE AutoRepack \/ SaveLoose \/ SaveContents \/ SavePallet \/ EndAutoRepack
    <2>1. PICK more \in SUBSET UNION {Waiting(job) : job \in repacks} : rows' = rows \cup more
      <3>1. CASE AutoRepack \/ EndAutoRepack
        <4>1. rows' = rows
          BY <3>1 DEF AutoRepack, EndAutoRepack
        <4>2. {} \in SUBSET UNION {Waiting(job) : job \in repacks} /\ rows' = rows \cup {}
          BY <4>1
        <4>3. QED
          BY <4>2
      <3>2. CASE SaveLoose
        <4>1. PICK r \in UNION {job.loose : job \in repacks} : rows' = rows \cup {r}
          BY <3>2 DEF SaveLoose
        <4>2. {r} \in SUBSET UNION {Waiting(job) : job \in repacks}
          BY DEF Waiting
        <4>3. QED
          BY <4>1, <4>2
      <3>3. CASE SaveContents
        <4>1. PICK job \in repacks : \E more \in SUBSET job.again : rows' = rows \cup more
          BY <3>3 DEF SaveContents
        <4>2. QED
          BY <4>1 DEF Waiting
      <3>4. CASE SavePallet
        <4>1. PICK p \in UNION {job.pallets : job \in repacks} : rows' = rows \cup {p}
          BY <3>4 DEF SavePallet
        <4>2. {p} \in SUBSET UNION {Waiting(job) : job \in repacks}
          BY DEF Waiting
        <4>3. QED
          BY <4>1, <4>2
      <3>5. QED
        BY <1>1, <3>1, <3>2, <3>3, <3>4
    <2>2. \A r \in more : r.status = "auto" /\ r.form # "picked"
      BY DEF PackInv, Prepared, Waiting
    <2>3. QED
      BY <2>1, <2>2, Added
  <1>2. CASE ManualRepack
    <2>1. PICK from \in {"original", "auto"} : Duplicate(RowsIn(from), "manual")
      BY <1>2 DEF ManualRepack
    <2>2. QED
      BY <2>1, DuplicateKeepsScanned
  <1>3. CASE ResetRepack
    <2>1. PICK status \in {"auto", "manual"} : rows' = rows \ RowsIn(status)
      BY <1>3 DEF ResetRepack
    <2>2. RowsIn("scanned")' = RowsIn("scanned") /\ Picked' = Picked
      BY <2>1 DEF RowsIn, Picked, ScannedInv
    <2>3. QED
      BY <2>1, <2>2 DEF ScannedInv, ScannedOnce
  <1>4. QED
    BY <1>1, <1>2, <1>3 DEF Repack

LEMMA BookKeepsScanned ==
    ASSUME ScannedInv, Book
    PROVE  ScannedInv'
  <1>1. booked' = TRUE /\ late' = late
    BY DEF Book
  <1>2. CASE RowsIn("scanned") # {}
    <2>1. rows' = rows
      BY <1>2 DEF Book, ScannedRepack, packingVars
    <2>2. QED
      BY <1>1, <2>1 DEF ScannedInv, ScannedOnce, RowsIn, Picked
  <1>3. CASE RowsIn("scanned") = {}
    <2>1. PICK status \in SetToShip : Duplicate(RowsIn(status), "scanned")
      BY <1>3 DEF Book, ScannedRepack, CopyForScanned
    <2>2. QED
      BY <1>1, <1>3, <2>1, DuplicateKeepsScanned
  <1>4. QED
    BY <1>2, <1>3

LEMMA ScanKeepsScanned ==
    ASSUME ScannedInv, NEW r \in Rounds, Scan(r)
    PROVE  ScannedInv'
  <1> DEFINE p == Line(serial', serial', "scanned", "picked", {})
  <1>1. rows' = (rows \ Picked) \cup {p}
    BY DEF Scan
  <1>2. p.status = "scanned" /\ p.form = "picked"
    BY DEF Line
  <1> HIDE DEF p
  <1>3. (\A s \in rows : s.form = "picked" => s.status = "scanned")'
    BY <1>1, <1>2 DEF ScannedInv
  <1>4. late' = (late \/ booked) /\ booked' = booked
    BY DEF Scan
  <1>5. ~booked => RowsIn("scanned")' = Picked'
    BY <1>1, <1>2 DEF ScannedInv, RowsIn, Picked
  <1>6. QED
    BY <1>3, <1>4, <1>5 DEF ScannedInv, ScannedOnce

LEMMA ScanFailsKeepsScanned ==
    ASSUME ScannedInv, ScanFails
    PROVE  ScannedInv'
  <1>1. rows' = rows \ Picked /\ UNCHANGED <<booked, late>>
    BY DEF ScanFails
  <1>2. Picked' = {}
    BY <1>1 DEF Picked
  <1>3. ~booked => RowsIn("scanned")' = {}
    BY <1>1 DEF ScannedInv, RowsIn, Picked
  <1>4. (\A s \in rows : s.form = "picked" => s.status = "scanned")'
    BY <1>1 DEF ScannedInv
  <1>5. QED
    BY <1>1, <1>2, <1>3, <1>4 DEF ScannedInv, ScannedOnce

\* However repacking, scans and the booking alternate, the scanned set is what
\* was picked or a copy of another set, never both, unless the warehouse scans
\* after the booking.
THEOREM ScannedOncePreserved == Spec => []ScannedOnce
  <1>1. Init => ScannedInv
    <2> SUFFICES ASSUME Init PROVE ScannedInv
      OBVIOUS
    <2>2. \A r \in rows : r.status = "original" /\ r.form = "item"
      BY DEF Init, InitPacking, Line
    <2>3. QED
      BY <2>2 DEF Init, ScannedInv, ScannedOnce, RowsIn, Picked
  <1>2. TypeInv /\ ScannedInv /\ [Next]_vars => ScannedInv'
    <2> SUFFICES ASSUME TypeInv, ScannedInv, [Next]_vars PROVE ScannedInv'
      OBVIOUS
    <2>2. CASE StaffRepacks
      BY <2>2, RepackKeepsScanned DEF StaffRepacks, TypeInv
    <2>3. CASE (\E r \in Rounds : PricePage(r) \/ RoundStep(r)) \/ UNCHANGED vars
      <3>1. UNCHANGED <<rows, booked, late>>
        BY <2>3 DEF PricePage, RoundStep, packingVars, vars
      <3>2. QED
        BY <3>1 DEF ScannedInv, ScannedOnce, RowsIn, Picked
    <2>4. CASE \E r \in Rounds : Scan(r)
      BY <2>4, ScanKeepsScanned
    <2>5. CASE ScanFails
      BY <2>5, ScanFailsKeepsScanned
    <2>6. CASE Book
      BY <2>6, BookKeepsScanned
    <2>7. QED
      BY <2>2, <2>3, <2>4, <2>5, <2>6 DEF Next
  <1>3. ScannedInv => ScannedOnce
    BY DEF ScannedInv
  <1>4. TypeInv /\ [Next]_vars => TypeInv'
    BY TypeStep
  <1>5. QED
    BY <1>1, <1>2, <1>3, <1>4, TypeInit, PTL DEF Spec

-----------------------------------------------------------------------------
(* The chosen quote.                                                       *)

HasLiveChoice == (\A q \in Live : ~q.fit) \/ \E q \in Live : q.id = chosen

\* Until something fails or the booking is booked, the chosen quote may be stale
\* only while a round is in progress, which will then choose anew.
ChosenInv ==
    /\ ~booked => \A r \in Rounds : ~rounds[r].booked
    /\ failures = 0 /\ ~booked /\ Quiet => chosen = 0 \/ HasLiveChoice

\* A round that stays in progress is enough.
LEMMA StillInProgress ==
    ASSUME ChosenInv, NEW r \in Rounds, rounds'[r].pc # "idle",
           (~booked => \A s \in Rounds : ~rounds[s].booked)'
    PROVE  ChosenInv'
  <1>1. ~Quiet'
    BY DEF Quiet, InProgress
  <1>2. QED
    BY <1>1 DEF ChosenInv

LEMMA BeginKeepsChosen ==
    ASSUME TypeInv, ChosenInv, NEW r \in Rounds, NEW kind, NEW sets, NEW packed,
           Begin(r, kind, sets, packed, booked), booked' = booked
    PROVE  ChosenInv'
  <1> DEFINE round == [pc |-> "collect", kind |-> kind, sets |-> sets, packed |-> sets \cap packed,
                       copies |-> {}, booked |-> booked, alone |-> Quiet]
  <1>1. rounds' = [s \in Rounds |-> IF s # r THEN [rounds[s] EXCEPT !.alone = FALSE] ELSE round]
    BY DEF Begin
  <1>2. round.pc # "idle" /\ round.booked = booked
    OBVIOUS
  <1> HIDE DEF round
  <1>3. \A s \in Rounds : [rounds[s] EXCEPT !.alone = FALSE].booked = rounds[s].booked
    BY DEF TypeInv, TypeOK, Round
  <1>4. rounds'[r] = round /\ \A s \in Rounds : s # r => rounds'[s].booked = rounds[s].booked
    BY <1>1, <1>3
  <1>5. (~booked => \A s \in Rounds : ~rounds[s].booked)'
    BY <1>2, <1>4 DEF ChosenInv
  <1>6. QED
    BY <1>2, <1>4, <1>5, StillInProgress

\* Answers, and what a round does with its copies: it is still in progress.
LEMMA WorkKeepsChosen ==
    ASSUME TypeInv, ChosenInv, NEW r \in Rounds, Answer(r) \/ After(r), booked' = booked
    PROVE  ChosenInv'
  <1>1. rounds \in [Rounds -> Round(PackedStatuses)]
    BY DEF TypeInv, TypeOK
  <1>2. /\ \A s \in Rounds : rounds'[s].booked = rounds[s].booked
        /\ rounds'[r].pc # "idle"
    <2>1. CASE Answer(r)
      BY <2>1 DEF Answer
    <2>2. CASE AfterReads(r)
      BY <1>1, <2>2 DEF AfterReads, Round
    <2>3. CASE AfterSaves(r) \/ AfterHides(r)
      <3>1. PICK left : rounds' = [rounds EXCEPT ![r].copies = left] /\ rounds[r].pc = "after"
        BY <2>3 DEF AfterSaves, AfterHides
      <3>2. QED
        BY <1>1, <3>1 DEF Round
    <2>4. CASE AfterEnds(r)
      BY <1>1, <2>4 DEF AfterEnds, Round
    <2>5. QED
      BY <2>1, <2>2, <2>3, <2>4 DEF After
  <1>3. (~booked => \A s \in Rounds : ~rounds[s].booked)'
    BY <1>2 DEF ChosenInv
  <1>4. QED
    BY <1>2, <1>3, StillInProgress

\* A round that ends leaves the others, and a choice of its own.
LEMMA Ended ==
    ASSUME TypeInv, ChosenInv, NEW r \in Rounds, End(r), booked' = booked,
           (failures = 0 /\ ~booked => chosen = 0 \/ HasLiveChoice)'
    PROVE  ChosenInv'
  <1>1. \A s \in Rounds : rounds'[s].booked => rounds[s].booked
    BY DEF End, Idle, TypeInv, TypeOK
  <1>2. QED
    BY <1>1 DEF ChosenInv

LEMMA SelectKeepsChosen ==
    ASSUME TypeInv, ChosenInv, NEW r \in Rounds, PageSelect(r) \/ ScanSelect(r), booked' = booked
    PROVE  ChosenInv'
  <1>1. End(r) /\ UNCHANGED <<quotes, failures>>
    BY DEF PageSelect, ScanSelect
  <1>2. Live' = Live
    BY <1>1 DEF Live
  <1>3. ASSUME ~booked
        PROVE  (chosen = 0 \/ HasLiveChoice)'
    <2>1. ~rounds[r].booked
      BY <1>3 DEF ChosenInv
    <2>2. CASE Live = {}
      BY <1>2, <2>2 DEF HasLiveChoice
    <2>3. CASE PageSelect(r) /\ Live # {}
      <3>1. CASE {p \in Live : p.fit} = {}
        BY <1>2, <3>1 DEF HasLiveChoice
      <3>2. CASE {p \in Live : p.fit} # {}
        <4>1. \E best \in Live : chosen' = best.id
          BY <2>1, <2>3, <3>2 DEF PageSelect
        <4>2. QED
          BY <1>2, <4>1 DEF HasLiveChoice
      <3>3. QED
        BY <3>1, <3>2
    <2>4. CASE ScanSelect(r) /\ Live # {}
      <3>1. CASE LiveIn("scanned") = {}
        BY <2>4, <3>1 DEF ScanSelect
      <3>2. CASE LiveIn("scanned") # {}
        <4>1. chosen' = 0 \/ \E best \in LiveIn("scanned") : chosen' = best.id
          BY <2>4, <3>2 DEF ScanSelect
        <4>2. QED
          BY <1>2, <4>1 DEF HasLiveChoice, LiveIn
      <3>3. QED
        BY <3>1, <3>2
    <2>5. QED
      BY <2>2, <2>3, <2>4
  <1>4. QED
    BY <1>1, <1>3, Ended

LEMMA FailureKeepsChosen ==
    ASSUME TypeInv, ChosenInv, NEW r \in Rounds, AfterFails(r), booked' = booked
    PROVE  ChosenInv'
  <1>1. End(r) /\ failures' = failures + 1 /\ failures \in Nat
    BY DEF AfterFails, TypeInv, TypeOK
  <1>2. failures' # 0
    BY <1>1
  <1>3. QED
    BY <1>1, <1>2, Ended

\* However rounds of the page and of the warehouse overlap, a booking that is
\* not booked and for which no round is in progress has chosen a live quote,
\* or none, or there is no live one.
THEOREM ChosenIsLivePreserved == Spec => []ChosenIsLive
  <1>1. Init => ChosenInv
    BY DEF Init, InitQuoting, ChosenInv, Idle
  <1>2. TypeInv /\ ChosenInv /\ [Next]_vars => ChosenInv'
    <2> SUFFICES ASSUME TypeInv, ChosenInv, [Next]_vars PROVE ChosenInv'
      OBVIOUS
    <2>1. CASE StaffRepacks \/ UNCHANGED vars
      <3>1. UNCHANGED <<quotes, chosen, rounds, failures, booked>>
        BY <2>1 DEF StaffRepacks, vars, quotingVars
      <3>2. QED
        BY <3>1 DEF ChosenInv, HasLiveChoice, Live, Quiet, InProgress
    <2>2. ASSUME NEW r \in Rounds, PricePage(r) PROVE ChosenInv'
      <3>1. Begin(r, "page", PackedStatuses, Packed, booked) /\ booked' = booked
        BY <2>2 DEF PricePage
      <3>2. QED
        BY <3>1, BeginKeepsChosen
    <2>3. ASSUME NEW r \in Rounds, Scan(r) PROVE ChosenInv'
      <3>1. Begin(r, "scan", {"scanned"}, {"scanned"}, booked) /\ booked' = booked
        BY <2>3 DEF Scan
      <3>2. QED
        BY <3>1, BeginKeepsChosen
    <2>4. ASSUME NEW r \in Rounds, RoundStep(r) PROVE ChosenInv'
      <3>1. booked' = booked
        BY <2>4 DEF RoundStep
      <3>2. QED
        BY <2>4, <3>1, WorkKeepsChosen, SelectKeepsChosen, FailureKeepsChosen DEF RoundStep
    <2>5. CASE ScanFails
      <3>1. failures' = failures + 1 /\ failures \in Nat /\ UNCHANGED <<rounds, booked>>
        BY <2>5 DEF ScanFails, TypeInv, TypeOK
      <3>2. failures' # 0
        BY <3>1
      <3>3. QED
        BY <3>1, <3>2 DEF ChosenInv
    <2>6. CASE Book
      BY <2>6 DEF Book, ChosenInv
    <2>7. QED
      BY <2>1, <2>2, <2>3, <2>4, <2>5, <2>6 DEF Next
  <1>3. ChosenInv => ChosenIsLive
    BY DEF ChosenInv, ChosenIsLive, HasLiveChoice
  <1>4. TypeInv /\ [Next]_vars => TypeInv'
    BY TypeStep
  <1>5. QED
    BY <1>1, <1>2, <1>3, <1>4, TypeInit, PTL DEF Spec

-----------------------------------------------------------------------------
(* A round that meets no other.                                            *)

\* Its own quotes, or copies made for the scanned set.
Own(r, q) == q.by \in {r, NoRound}

\* No other round is in progress, and no quote of another round in its sets is live
\* or among the copies that it may make live again.
ClearsUp(r) ==
    /\ \A s \in Rounds : s # r => rounds[s].pc = "idle"
    /\ \A q \in quotes : q.status \in rounds[r].sets /\ (~q.used \/ q.id \in rounds[r].copies)
                             => Own(r, q)

LoneInv == \A r \in InProgress : rounds[r].alone => ClearsUp(r)

\* The round that begins is the only one that may be alone after it.
LEMMA BeginClearsUp ==
    ASSUME TypeInv, NEW r \in Rounds, NEW kind, NEW sets, NEW packed,
           Begin(r, kind, sets, packed, booked)
    PROVE  LoneInv'
  <1> DEFINE round == [pc |-> "collect", kind |-> kind, sets |-> sets, packed |-> sets \cap packed,
                       copies |-> {}, booked |-> booked, alone |-> Quiet]
  <1>1. rounds' = [s \in Rounds |-> IF s # r THEN [rounds[s] EXCEPT !.alone = FALSE] ELSE round]
    BY DEF Begin
  <1>2. round.copies = {} /\ round.sets = sets /\ round.alone = Quiet
    OBVIOUS
  <1> HIDE DEF round
  <1>3. \A s \in Rounds : /\ [rounds[s] EXCEPT !.alone = FALSE].alone = FALSE
                          /\ [rounds[s] EXCEPT !.alone = FALSE].pc = rounds[s].pc
    BY DEF TypeInv, TypeOK, Round
  <1>4. /\ rounds'[r] = round
        /\ \A s \in Rounds : s # r => rounds'[s].alone = FALSE /\ rounds'[s].pc = rounds[s].pc
    BY <1>1, <1>3
  <1>5. ASSUME Quiet PROVE ClearsUp(r)'
    <2>1. \A s \in Rounds : s # r => rounds'[s].pc = "idle"
      BY <1>4, <1>5 DEF Quiet, InProgress
    <2>2. \A q \in quotes' : q.status \in sets => q.used
      BY DEF Begin, Retired, TypeInv, TypeOK, Quote
    <2>3. QED
      BY <1>2, <1>4, <2>1, <2>2 DEF ClearsUp
  <1>6. ASSUME NEW s \in Rounds, rounds'[s].alone PROVE ClearsUp(s)'
    <2>1. s = r
      BY <1>4, <1>6
    <2>2. Quiet
      BY <1>2, <1>4, <1>6, <2>1
    <2>3. QED
      BY <1>5, <2>1, <2>2
  <1>7. QED
    BY <1>6 DEF LoneInv, InProgress

\* What a round in progress does can concern no other that is alone.
LEMMA OnlyOwn ==
    ASSUME LoneInv, NEW r \in InProgress, NEW s \in InProgress, rounds[s].alone
    PROVE  s = r /\ ClearsUp(r)
  BY DEF LoneInv, ClearsUp, InProgress

\* A step of a round that leaves all others as they are.
LEMMA StepClearsUp ==
    ASSUME LoneInv, NEW r \in InProgress, NEW round, rounds' = [rounds EXCEPT ![r] = round],
           rounds \in [Rounds -> Round(PackedStatuses)],
           round.pc # "idle" /\ round.alone => rounds[r].alone,
           round.pc # "idle" => round.sets = rounds[r].sets,
           ClearsUp(r) /\ round.pc # "idle" =>
               \A q \in quotes' : q.status \in rounds[r].sets /\ (~q.used \/ q.id \in round.copies)
                                      => Own(r, q)
    PROVE  LoneInv'
  <1>1. /\ r \in Rounds /\ rounds'[r] = round
        /\ \A s \in Rounds : s # r => rounds'[s] = rounds[s]
    BY DEF InProgress
  <1>2. ASSUME NEW s \in InProgress', rounds'[s].alone PROVE ClearsUp(s)'
    <2>1. CASE s # r
      <3>1. s \in InProgress /\ rounds[s].alone
        BY <1>1, <1>2, <2>1 DEF InProgress
      <3>2. QED
        BY <2>1, <3>1, OnlyOwn
    <2>2. CASE s = r
      <3>1. round.pc # "idle" /\ rounds[r].alone
        BY <1>1, <1>2, <2>2 DEF InProgress
      <3>2. ClearsUp(r)
        BY <3>1 DEF LoneInv
      <3>3. QED
        BY <1>1, <2>2, <3>1, <3>2 DEF ClearsUp, Own
    <2>3. QED
      BY <2>1, <2>2
  <1>3. QED
    BY <1>2 DEF LoneInv

\* Answers are the round's own; copies are of quotes that were live.
LEMMA WorkClearsUp ==
    ASSUME TypeInv, LoneInv, NEW r \in Rounds, Answer(r) \/ After(r)
    PROVE  LoneInv'
  <1>1. rounds \in [Rounds -> Round(PackedStatuses)]
    BY DEF TypeInv, TypeOK
  <1>2. r \in InProgress /\ rounds[r] \in Round(PackedStatuses)
    BY <1>1 DEF InProgress, Answer, After, AfterReads, AfterSaves, AfterHides, AfterEnds
  <1>3. CASE Answer(r)
    <2>1. \A q \in quotes' : q \in quotes \/ q.by = r
      BY <1>3 DEF Answer
    <2>2. rounds' = [rounds EXCEPT ![r] = rounds[r]]
      BY <1>1, <1>3 DEF Answer
    <2>3. ClearsUp(r) => \A q \in quotes' :
              q.status \in rounds[r].sets /\ (~q.used \/ q.id \in rounds[r].copies) => Own(r, q)
      BY <2>1 DEF ClearsUp, Own
    <2>4. QED
      BY <1>1, <1>2, <2>2, <2>3, StepClearsUp
  <1>4. CASE AfterReads(r)
    <2> DEFINE round == [[rounds[r] EXCEPT !.pc = "after"] EXCEPT !.copies = {q.id : q \in Live}]
    <2>1. rounds' = [rounds EXCEPT ![r] = round] /\ quotes' = quotes
      BY <1>1, <1>4 DEF AfterReads
    <2>2. /\ round.alone = rounds[r].alone /\ round.sets = rounds[r].sets
          /\ round.copies = {q.id : q \in Live}
      BY <1>2 DEF Round
    <2> HIDE DEF round
    <2>3. \A q \in quotes : q.id \in round.copies => ~q.used
      BY <2>2 DEF Live, TypeInv, QuotesNumbered
    <2>4. ClearsUp(r) => \A q \in quotes' :
              q.status \in rounds[r].sets /\ (~q.used \/ q.id \in round.copies) => Own(r, q)
      BY <2>1, <2>3 DEF ClearsUp
    <2>5. QED
      BY <1>1, <1>2, <2>1, <2>2, <2>4, StepClearsUp
  <1>5. CASE AfterSaves(r) \/ AfterHides(r)
    <2>1. PICK id \in rounds[r].copies, left \in SUBSET rounds[r].copies :
            /\ rounds' = [rounds EXCEPT ![r].copies = left]
            /\ \/ quotes' = {IF q.id = id THEN [q EXCEPT !.used = FALSE] ELSE q : q \in quotes}
               \/ quotes' = {[q EXCEPT !.used = @ \/ (q.id = id /\ q.fp \in Allied)] : q \in quotes}
      BY <1>5 DEF AfterSaves, AfterHides
    <2> DEFINE round == [rounds[r] EXCEPT !.copies = left]
    <2>2. rounds' = [rounds EXCEPT ![r] = round]
      BY <1>1, <2>1
    <2>3. round.alone = rounds[r].alone /\ round.sets = rounds[r].sets /\ round.copies = left
      BY <1>2 DEF Round
    <2> HIDE DEF round
    <2>4. \A c \in quotes' : \E q \in quotes :
              /\ c.id = q.id /\ c.status = q.status /\ c.by = q.by
              /\ ~c.used => ~q.used \/ q.id = id
      <3>1. \A q \in quotes : q \in Quote(PackedStatuses)
        BY DEF TypeInv, TypeOK
      <3>2. CASE quotes' = {IF q.id = id THEN [q EXCEPT !.used = FALSE] ELSE q : q \in quotes}
        BY <3>1, <3>2 DEF Quote
      <3>3. CASE quotes' = {[q EXCEPT !.used = @ \/ (q.id = id /\ q.fp \in Allied)] : q \in quotes}
        BY <3>1, <3>3 DEF Quote
      <3>4. QED
        BY <2>1, <3>2, <3>3
    <2>5. ClearsUp(r) => \A q \in quotes' :
              q.status \in rounds[r].sets /\ (~q.used \/ q.id \in round.copies) => Own(r, q)
      BY <2>3, <2>4 DEF ClearsUp, Own
    <2>6. QED
      BY <1>1, <1>2, <2>2, <2>3, <2>5, StepClearsUp
  <1>6. CASE AfterEnds(r)
    <2> DEFINE round == [[rounds[r] EXCEPT !.pc = "select"] EXCEPT !.copies = {}]
    <2>1. rounds' = [rounds EXCEPT ![r] = round]
      BY <1>1, <1>6 DEF AfterEnds
    <2>2. round.alone = rounds[r].alone /\ round.sets = rounds[r].sets /\ round.copies = {}
      BY <1>2 DEF Round
    <2> HIDE DEF round
    <2>3. PICK hidden \in {{}, Allied} :
            quotes' = {[q EXCEPT !.used = @ \/ q.fp \in hidden] : q \in quotes}
      BY <1>6 DEF AfterEnds
    <2>4. \A c \in quotes' : \E q \in quotes :
              c.status = q.status /\ c.by = q.by /\ (~c.used => ~q.used)
      BY <2>3 DEF TypeInv, TypeOK, Quote
    <2>5. ClearsUp(r) => \A q \in quotes' :
              q.status \in rounds[r].sets /\ (~q.used \/ q.id \in round.copies) => Own(r, q)
      BY <2>2, <2>4 DEF ClearsUp, Own
    <2>6. QED
      BY <1>1, <1>2, <2>1, <2>2, <2>5, StepClearsUp
  <1>7. QED
    BY <1>3, <1>4, <1>5, <1>6 DEF After

\* A round that is over concerns no other.
LEMMA EndClearsUp ==
    ASSUME TypeInv, LoneInv, NEW r \in Rounds, AfterFails(r) \/ PageSelect(r) \/ ScanSelect(r)
    PROVE  LoneInv'
  <1>1. /\ r \in InProgress /\ rounds' = [rounds EXCEPT ![r] = Idle]
        /\ rounds \in [Rounds -> Round(PackedStatuses)]
    BY DEF AfterFails, PageSelect, ScanSelect, End, InProgress, TypeInv, TypeOK
  <1>2. Idle.pc = "idle"
    BY DEF Idle
  <1>3. QED
    BY <1>1, <1>2, StepClearsUp

\* Quotes copied for the scanned set are nobody's.
LEMMA BookClearsUp ==
    ASSUME TypeInv, LoneInv, Book
    PROVE  LoneInv'
  <1>1. rounds' = rounds /\ \A q \in quotes' : q \in quotes \/ q.by = NoRound
    <2>1. rounds' = rounds
      BY DEF Book
    <2>2. CASE RowsIn("scanned") # {}
      BY <2>1, <2>2 DEF Book, ScannedRepack
    <2>3. CASE RowsIn("scanned") = {}
      <3>1. PICK status \in SetToShip : quotes' = quotes \cup CopiedQuotes(LiveIn(status))
        BY <2>3 DEF Book, ScannedRepack, CopyForScanned
      <3>2. \A q \in CopiedQuotes(LiveIn(status)) : q.by = NoRound
        BY DEF CopiedQuotes, LiveIn, Live, TypeInv, TypeOK, Quote
      <3>3. QED
        BY <2>1, <3>1, <3>2
    <2>4. QED
      BY <2>2, <2>3
  <1>2. \A r \in Rounds : ClearsUp(r) => ClearsUp(r)'
    BY <1>1 DEF ClearsUp, Own
  <1>3. QED
    BY <1>1, <1>2 DEF LoneInv, InProgress

\* Whatever rounds that overlapped or failed before it have left live, or made live
\* again: while a round meets no other, what is live in the sets it prices is its own,
\* or was copied for the scanned set.
THEOREM LoneRoundsClearUp == Spec => []LoneRoundClearsUp
  <1>1. Init => LoneInv
    BY DEF Init, InitQuoting, LoneInv, InProgress, Idle
  <1>2. TypeInv /\ LoneInv /\ [Next]_vars => LoneInv'
    <2> SUFFICES ASSUME TypeInv, LoneInv, [Next]_vars PROVE LoneInv'
      OBVIOUS
    <2>1. CASE StaffRepacks \/ ScanFails \/ UNCHANGED vars
      <3>1. UNCHANGED <<quotes, rounds>>
        BY <2>1 DEF StaffRepacks, ScanFails, vars, quotingVars
      <3>2. QED
        BY <3>1 DEF LoneInv, ClearsUp, Own, InProgress
    <2>2. ASSUME NEW r \in Rounds, PricePage(r) \/ Scan(r) PROVE LoneInv'
      BY <2>2, BeginClearsUp DEF PricePage, Scan
    <2>3. ASSUME NEW r \in Rounds, RoundStep(r) PROVE LoneInv'
      BY <2>3, WorkClearsUp, EndClearsUp DEF RoundStep
    <2>4. CASE Book
      BY <2>4, BookClearsUp
    <2>5. QED
      BY <2>1, <2>2, <2>3, <2>4 DEF Next
  <1>3. LoneInv => LoneRoundClearsUp
    BY DEF LoneInv, ClearsUp, Own, LoneRoundClearsUp, Live, InProgress
  <1>4. TypeInv /\ [Next]_vars => TypeInv'
    BY TypeStep
  <1>5. QED
    BY <1>1, <1>2, <1>3, <1>4, TypeInit, PTL DEF Spec

=============================================================================

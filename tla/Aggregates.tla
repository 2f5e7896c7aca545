----------------------------- MODULE Aggregates -----------------------------
(***************************************************************************)
(* Sums, folds, greatest and least elements and ranks in finite sets, as   *)
(* the community modules define them.  Sums and folds are recursions on    *)
(* sets: what they give is proved by induction on the size of the set.     *)
(***************************************************************************)
EXTENDS Integers, FiniteSets, FiniteSetsExt, Functions, FiniteSetTheorems,
        WellFoundedInduction, TLAPS

\* Induction, as a fact about sets of numbers.
LEMMA AllNumbers ==
    ASSUME NEW N \in SUBSET Nat, 0 \in N, \A n \in N : n + 1 \in N
    PROVE  N = Nat
<1> SUFFICES ASSUME Nat \ N # {} PROVE FALSE
  OBVIOUS
<1> DEFINE R == OpToRel(<, Nat)
<1>1. PICK n \in Nat \ N : \A m \in Nat \ N : ~(<<m, n>> \in R)
  BY WFMin, NatLessThanWellFounded, Zenon
<1>2. \A m \in Nat \ N : ~(m < n)
  BY <1>1 DEF OpToRel
<1>3. n \in Nat /\ n \notin N
  OBVIOUS
<1> HIDE DEF R
<1>4. n # 0 /\ n - 1 \in Nat
  BY <1>3
<1>5. n - 1 \in N
  BY <1>2, <1>4
<1> QED
  BY <1>3, <1>5

\* Induction on the size of a finite set.
LEMMA AllSubsets ==
    ASSUME NEW D, IsFiniteSet(D), NEW P \in SUBSET SUBSET D, {} \in P,
           \A s \in SUBSET D : s # {} /\ (\A x \in s : s \ {x} \in P) => s \in P
    PROVE  P = SUBSET D
<1> DEFINE N == {n \in Nat : \A s \in SUBSET D : Cardinality(s) <= n => s \in P}
<1>1. \A s \in SUBSET D : IsFiniteSet(s) /\ Cardinality(s) \in Nat
  BY FS_Subset, FS_CardinalityType
<1>2. 0 \in N
  BY <1>1, FS_EmptySet
<1>3. ASSUME NEW n \in N PROVE n + 1 \in N
  <2>1. ASSUME NEW s \in SUBSET D, Cardinality(s) <= n + 1 PROVE s \in P
    <3>1. CASE s = {}
      BY <3>1
    <3>2. CASE s # {}
      <4>1. \A x \in s : Cardinality(s \ {x}) = Cardinality(s) - 1
        BY <1>1, FS_RemoveElement
      <4>2. \A x \in s : s \ {x} \in SUBSET D /\ Cardinality(s \ {x}) <= n
        BY <1>1, <2>1, <4>1
      <4> QED
        BY <3>2, <4>2
    <3> QED
      BY <3>1, <3>2
  <2> QED
    BY <2>1
<1>4. N = Nat
  <2> HIDE DEF N
  <2>1. N \in SUBSET Nat
    BY DEF N
  <2> QED
    BY <1>2, <1>3, <2>1, AllNumbers
<1> QED
  BY <1>1, <1>4

-----------------------------------------------------------------------------
(* Sums.                                                                   *)

\* The element that a sum takes next.
OneOf(s) == CHOOSE x \in s : TRUE

\* g has the sums of f over the subsets of D.
Adds(f, D, g) ==
    g = [s \in SUBSET D |-> IF s = {} THEN 0 ELSE f[OneOf(s)] + g[s \ {OneOf(s)}]]

Sums(f, D) == CHOOSE g : Adds(f, D, g)

LEMMA SumIs ==
    ASSUME NEW f, NEW D
    PROVE  SumFunctionOnSet(f, D) = Sums(f, D)[D]
  BY DEF SumFunctionOnSet, FoldFunctionOnSet, MapThenFoldSet, Sums, Adds, OneOf

\* There is such a function: for sets of at most n elements first.
LEMMA SumsExist ==
    ASSUME NEW D, IsFiniteSet(D), NEW f
    PROVE  Adds(f, D, Sums(f, D))
<1> DEFINE Upto(n) == {s \in SUBSET D : Cardinality(s) <= n}
           Step(g, s) == IF s = {} THEN 0 ELSE f[OneOf(s)] + g[s \ {OneOf(s)}]
           N == {n \in Nat : \E g : g = [s \in Upto(n) |-> Step(g, s)]}
<1>1. \A s \in SUBSET D : IsFiniteSet(s) /\ Cardinality(s) \in Nat
  BY FS_Subset, FS_CardinalityType
<1>2. 0 \in N
  <2>1. \A s \in Upto(0) : s = {}
    BY <1>1, FS_EmptySet
  <2> DEFINE g == [s \in Upto(0) |-> 0]
  <2>2. g = [s \in Upto(0) |-> Step(g, s)]
    BY <2>1
  <2> QED
    BY <2>2
<1>3. ASSUME NEW n \in N PROVE n + 1 \in N
  <2>1. PICK g : g = [s \in Upto(n) |-> Step(g, s)]
    OBVIOUS
  <2> DEFINE h == [s \in Upto(n + 1) |-> Step(g, s)]
  <2>2. ASSUME NEW s \in Upto(n + 1), s # {} PROVE h[s \ {OneOf(s)}] = g[s \ {OneOf(s)}]
    <3>1. OneOf(s) \in s
      BY <2>2 DEF OneOf
    <3>2. Cardinality(s \ {OneOf(s)}) = Cardinality(s) - 1
      BY <1>1, <3>1, FS_RemoveElement
    <3>3. s \ {OneOf(s)} \in Upto(n) /\ s \ {OneOf(s)} \in Upto(n + 1)
      BY <1>1, <3>2
    <3> DEFINE r == s \ {OneOf(s)}
    <3>4. r \in Upto(n) /\ r \in Upto(n + 1)
      BY <3>3
    <3> HIDE DEF r, Upto, Step
    <3>5. g[r] = Step(g, r)
      BY <2>1, <3>4
    <3>6. h[r] = Step(g, r)
      BY <3>4
    <3> QED
      BY <3>5, <3>6 DEF r
  <2>3. \A s \in Upto(n + 1) : Step(g, s) = Step(h, s)
    BY <2>2
  <2>4. h = [s \in Upto(n + 1) |-> Step(h, s)]
    <3> HIDE DEF Upto, Step
    <3> QED
      BY <2>3
  <2> QED
    <3> HIDE DEF h, Upto, Step
    <3> QED
      BY <2>4
<1>4. N = Nat
  <2> HIDE DEF N
  <2>1. N \in SUBSET Nat
    BY DEF N
  <2> QED
    BY <1>2, <1>3, <2>1, AllNumbers
<1>5. Cardinality(D) \in N
  BY <1>4, FS_CardinalityType
<1>6. Upto(Cardinality(D)) = SUBSET D
  BY <1>1, FS_Subset
<1>7. \E g : Adds(f, D, g)
  <2> HIDE DEF Upto
  <2> QED
    BY <1>5, <1>6 DEF Adds
<1> QED
  BY <1>7 DEF Sums

\* A sum takes the chosen element first.
LEMMA SumAny ==
    ASSUME NEW D, IsFiniteSet(D), NEW f
    PROVE  /\ Sums(f, D)[{}] = 0
           /\ \A s \in SUBSET D : s # {} =>
                  /\ OneOf(s) \in s
                  /\ Sums(f, D)[s] = f[OneOf(s)] + Sums(f, D)[s \ {OneOf(s)}]
<1> DEFINE g == Sums(f, D)
<1>1. g = [s \in SUBSET D |-> IF s = {} THEN 0 ELSE f[OneOf(s)] + g[s \ {OneOf(s)}]]
  BY SumsExist DEF Adds
<1>2. \A s \in SUBSET D : s # {} => OneOf(s) \in s
  BY DEF OneOf
<1> HIDE DEF g
<1>3. g[{}] = 0 /\ \A s \in SUBSET D : s # {} => g[s] = f[OneOf(s)] + g[s \ {OneOf(s)}]
  BY <1>1
<1> QED
  BY <1>2, <1>3 DEF g

\* The sums over the subsets of a set are those over the subsets of a larger one.
LEMMA SumsAgree ==
    ASSUME NEW D, IsFiniteSet(D), NEW E \in SUBSET D, NEW f
    PROVE  \A s \in SUBSET E : Sums(f, E)[s] = Sums(f, D)[s]
<1> DEFINE P == {s \in SUBSET E : Sums(f, E)[s] = Sums(f, D)[s]}
<1>1. IsFiniteSet(E)
  BY FS_Subset
<1>2. {} \in P
  BY <1>1, SumAny
<1>3. ASSUME NEW s \in SUBSET E, s # {}, \A x \in s : s \ {x} \in P PROVE s \in P
  <2>1. OneOf(s) \in s /\ Sums(f, E)[s] = f[OneOf(s)] + Sums(f, E)[s \ {OneOf(s)}]
    <3> HIDE DEF P
    <3> QED
      BY <1>1, <1>3, SumAny
  <2>2. Sums(f, D)[s] = f[OneOf(s)] + Sums(f, D)[s \ {OneOf(s)}]
    <3>1. s \in SUBSET D
      OBVIOUS
    <3> HIDE DEF P
    <3> QED
      BY <1>3, <3>1, SumAny
  <2> QED
    BY <1>3, <2>1, <2>2
<1>4. P = SUBSET E
  <2> HIDE DEF P
  <2>1. P \in SUBSET SUBSET E
    BY DEF P
  <2> QED
    BY <1>1, <1>2, <1>3, <2>1, AllSubsets
<1> QED
  BY <1>4

\* Sums of integers are integers.
LEMMA SumsType ==
    ASSUME NEW D, IsFiniteSet(D), NEW f, \A x \in D : f[x] \in Int
    PROVE  \A s \in SUBSET D : Sums(f, D)[s] \in Int
<1> DEFINE P == {s \in SUBSET D : Sums(f, D)[s] \in Int}
<1>1. {} \in P
  BY SumAny
<1>2. ASSUME NEW s \in SUBSET D, s # {}, \A x \in s : s \ {x} \in P PROVE s \in P
  <2>1. OneOf(s) \in s /\ Sums(f, D)[s] = f[OneOf(s)] + Sums(f, D)[s \ {OneOf(s)}]
    <3> HIDE DEF P
    <3> QED
      BY <1>2, SumAny
  <2>2. Sums(f, D)[s \ {OneOf(s)}] \in Int /\ f[OneOf(s)] \in Int
    BY <1>2, <2>1
  <2> QED
    BY <2>1, <2>2
<1>3. P = SUBSET D
  <2> HIDE DEF P
  <2>1. P \in SUBSET SUBSET D
    BY DEF P
  <2> QED
    BY <1>1, <1>2, <2>1, AllSubsets
<1> QED
  BY <1>3

\* OneOf part can be taken out of a sum, not only the one that is chosen.
LEMMA SumsSplit ==
    ASSUME NEW D, IsFiniteSet(D), NEW f, \A x \in D : f[x] \in Int
    PROVE  \A s \in SUBSET D : \A x \in s : Sums(f, D)[s] = f[x] + Sums(f, D)[s \ {x}]
<1> DEFINE g == Sums(f, D)
           Good(s) == \A x \in s : g[s] = f[x] + g[s \ {x}]
           P == {s \in SUBSET D : Good(s)}
<1>1. \A s \in SUBSET D : s # {} => OneOf(s) \in s /\ g[s] = f[OneOf(s)] + g[s \ {OneOf(s)}]
  BY SumAny
<1>2. \A s \in SUBSET D : g[s] \in Int
  BY SumsType
<1> HIDE DEF g
<1>3. {} \in P
  OBVIOUS
<1>4. ASSUME NEW s \in SUBSET D, s # {}, \A x \in s : s \ {x} \in P PROVE s \in P
  <2>1. \A x \in s : Good(s \ {x})
    BY <1>4
  <2> HIDE DEF P
  <2> DEFINE a == OneOf(s)
  <2>2. a \in s /\ g[s] = f[a] + g[s \ {a}]
    BY <1>1, <1>4
  <2> HIDE DEF a
  <2>3. ASSUME NEW x \in s, x # a PROVE g[s] = f[x] + g[s \ {x}]
    <3> DEFINE rest == s \ {a, x}
    <3>1. (s \ {a}) \ {x} = rest /\ (s \ {x}) \ {a} = rest
      OBVIOUS
    <3>2. g[s \ {a}] = f[x] + g[rest]
      <4>1. x \in s \ {a} /\ Good(s \ {a})
        BY <2>1, <2>2, <2>3
      <4> QED
        BY <3>1, <4>1
    <3>3. g[s \ {x}] = f[a] + g[rest]
      <4>1. a \in s \ {x} /\ Good(s \ {x})
        BY <2>1, <2>2, <2>3
      <4> QED
        BY <3>1, <4>1
    <3>4. g[rest] \in Int /\ f[a] \in Int /\ f[x] \in Int
      BY <1>2, <2>2
    <3> HIDE DEF rest, Good
    <3> QED
      BY <2>2, <3>2, <3>3, <3>4
  <2> QED
    BY <2>2, <2>3 DEF P
<1>5. P = SUBSET D
  <2>1. P \in SUBSET SUBSET D
    OBVIOUS
  <2> HIDE DEF P
  <2> QED
    BY <1>3, <1>4, <2>1, AllSubsets
<1> QED
  BY <1>5 DEF g

-----------------------------------------------------------------------------
(* The operators that models use.                                          *)

\* Nothing adds up to nothing, and a sum is a part and the sum of the others.
LEMMA SumSplit ==
    ASSUME NEW D, IsFiniteSet(D), NEW f, \A x \in D : f[x] \in Int
    PROVE  /\ SumFunctionOnSet(f, {}) = 0
           /\ SumFunctionOnSet(f, D) \in Int
           /\ \A x \in D : SumFunctionOnSet(f, D) = f[x] + SumFunctionOnSet(f, D \ {x})
<1>1. SumFunctionOnSet(f, {}) = 0
  BY SumIs, SumAny, FS_EmptySet
<1>2. SumFunctionOnSet(f, D) = Sums(f, D)[D]
  BY SumIs
<1>3. ASSUME NEW x \in D PROVE SumFunctionOnSet(f, D \ {x}) = Sums(f, D)[D \ {x}]
  <2> DEFINE E == D \ {x}
  <2>1. E \in SUBSET D /\ E \in SUBSET E
    OBVIOUS
  <2> HIDE DEF E
  <2>2. Sums(f, E)[E] = Sums(f, D)[E]
    BY <2>1, SumsAgree
  <2> QED
    BY <2>2, SumIs DEF E
<1>4. D \in SUBSET D
  OBVIOUS
<1>5. Sums(f, D)[D] \in Int
  BY <1>4, SumsType
<1>6. \A x \in D : Sums(f, D)[D] = f[x] + Sums(f, D)[D \ {x}]
  BY <1>4, SumsSplit
<1> QED
  BY <1>1, <1>2, <1>3, <1>5, <1>6

\* A sum over more that is not less, of numbers that are not less, is not less.
LEMMA SumGrows ==
    ASSUME NEW E, IsFiniteSet(E), NEW D \in SUBSET E, NEW f, NEW g,
           \A x \in D : f[x] \in Int /\ f[x] <= g[x],
           \A x \in E : g[x] \in Int,
           \A x \in E \ D : g[x] >= 0
    PROVE  SumFunctionOnSet(f, D) <= SumFunctionOnSet(g, E)
<1> DEFINE F(s) == SumFunctionOnSet(f, D \cap s)
           G(s) == SumFunctionOnSet(g, s)
           P == {s \in SUBSET E : F(s) <= G(s)}
<1>1. ASSUME NEW s \in SUBSET E
      PROVE  /\ F(s) \in Int /\ G(s) \in Int
             /\ \A x \in s : G(s) = g[x] + G(s \ {x})
             /\ \A x \in D \cap s : F(s) = f[x] + F(s \ {x})
  <2>1. IsFiniteSet(s) /\ IsFiniteSet(D \cap s)
    BY FS_Subset
  <2>2. G(s) \in Int /\ \A x \in s : G(s) = g[x] + G(s \ {x})
    BY <2>1, SumSplit
  <2> DEFINE d == D \cap s
  <2>3. IsFiniteSet(d) /\ \A x \in d : f[x] \in Int
    BY <2>1
  <2> HIDE DEF d
  <2>4. SumFunctionOnSet(f, d) \in Int /\ \A x \in d : SumFunctionOnSet(f, d) = f[x] + SumFunctionOnSet(f, d \ {x})
    BY <2>3, SumSplit
  <2>5. \A x \in D \cap s : d \ {x} = D \cap (s \ {x})
    BY DEF d
  <2> QED
    BY <2>2, <2>4, <2>5 DEF d
<1>2. {} \in P
  <2>1. SumFunctionOnSet(f, {}) = 0 /\ SumFunctionOnSet(g, {}) = 0
    BY SumSplit, FS_EmptySet
  <2> QED
    BY <2>1
<1>3. ASSUME NEW s \in SUBSET E, s # {}, \A x \in s : s \ {x} \in P PROVE s \in P
  <2>1. PICK x \in s : TRUE
    BY <1>3
  <2>2. s \ {x} \in SUBSET E /\ F(s \ {x}) <= G(s \ {x})
    BY <1>3
  <2>3. F(s) \in Int /\ G(s) \in Int /\ F(s \ {x}) \in Int /\ G(s \ {x}) \in Int
    BY <1>1, <2>2
  <2>4. G(s) = g[x] + G(s \ {x}) /\ g[x] \in Int
    BY <1>1
  <2>5. CASE x \in D
    <3>1. F(s) = f[x] + F(s \ {x}) /\ f[x] \in Int /\ f[x] <= g[x]
      BY <1>1, <2>5
    <3> HIDE DEF F, G
    <3> QED
      BY <2>2, <2>3, <2>4, <3>1
  <2>6. CASE x \notin D
    <3>1. D \cap s = D \cap (s \ {x}) /\ g[x] >= 0
      BY <2>6
    <3>2. F(s) = F(s \ {x})
      BY <3>1
    <3> HIDE DEF F, G
    <3> QED
      BY <2>2, <2>3, <2>4, <3>1, <3>2
  <2> QED
    BY <2>5, <2>6
<1>4. P = SUBSET E
  <2>1. P \in SUBSET SUBSET E
    OBVIOUS
  <2> HIDE DEF P
  <2> QED
    BY <1>2, <1>3, <2>1, AllSubsets
<1>5. E \in P /\ D \cap E = D
  BY <1>4
<1> QED
  BY <1>5

\* Numbers that are not negative have a sum that is not negative.
LEMMA SumNat ==
    ASSUME NEW E, IsFiniteSet(E), NEW g, \A x \in E : g[x] \in Nat
    PROVE  SumFunctionOnSet(g, E) \in Nat
<1>1. SumFunctionOnSet(g, {}) <= SumFunctionOnSet(g, E)
  BY SumGrows
<1>2. SumFunctionOnSet(g, {}) = 0 /\ SumFunctionOnSet(g, E) \in Int
  BY SumSplit, FS_EmptySet
<1> QED
  BY <1>1, <1>2

\* The sum of the elements of a set that has at most one.
LEMMA SumSetOne ==
    ASSUME NEW a \in Int
    PROVE  SumSet({}) = 0 /\ SumSet({a}) = a
<1> DEFINE Fits(S, g) == g = [s \in SUBSET S |-> IF s = {} THEN 0 ELSE OneOf(s) + g[s \ {OneOf(s)}]]
<1>1. \A S : SumSet(S) = (CHOOSE g : Fits(S, g))[S]
  BY DEF SumSet, FoldSet, MapThenFoldSet, OneOf
<1>2. \A s \in SUBSET {a} : s = {} \/ s = {a}
  OBVIOUS
<1>3. OneOf({a}) = a
  BY DEF OneOf
<1>4. ASSUME NEW S \in SUBSET {a} PROVE \E g : Fits(S, g)
  <2> DEFINE h == [s \in SUBSET S |-> IF s = {} THEN 0 ELSE a]
  <2>1. ASSUME NEW s \in SUBSET S, s # {} PROVE h[s] = OneOf(s) + h[s \ {OneOf(s)}]
    <3>0. s = {a}
      <4>1. s \in SUBSET {a}
        OBVIOUS
      <4> HIDE DEF h
      <4> QED
        BY <1>2, <2>1, <4>1
    <3>1. OneOf(s) = a /\ s \ {a} = {}
      BY <1>3, <3>0
    <3>2. h[s] = a /\ h[{}] = 0
      BY <2>1
    <3>3. h[s \ {OneOf(s)}] = 0
      BY <3>1, <3>2
    <3> HIDE DEF h
    <3>4. OneOf(s) + h[s \ {OneOf(s)}] = a
      BY <3>1, <3>3
    <3> QED
      BY <3>2, <3>4
  <2>2. \A s \in SUBSET S : h[s] = IF s = {} THEN 0 ELSE OneOf(s) + h[s \ {OneOf(s)}]
    BY <2>1
  <2>3. Fits(S, h)
    BY <2>2
  <2> QED
    BY <2>3
<1>5. ASSUME NEW S \in SUBSET {a} PROVE SumSet(S) = IF S = {} THEN 0 ELSE a
  <2> DEFINE g == CHOOSE g : Fits(S, g)
  <2>1. g = [s \in SUBSET S |-> IF s = {} THEN 0 ELSE OneOf(s) + g[s \ {OneOf(s)}]]
    BY <1>4
  <2>2. SumSet(S) = g[S]
    BY <1>1
  <2> HIDE DEF g
  <2>3. g[{}] = 0
    BY <2>1
  <2>4. CASE S = {a}
    <3>1. g[S] = OneOf(S) + g[S \ {OneOf(S)}]
      BY <2>1, <2>4
    <3>2. OneOf(S) = a /\ S \ {a} = {}
      BY <1>3, <2>4
    <3> QED
      BY <2>2, <2>3, <2>4, <3>1, <3>2
  <2> QED
    BY <1>2, <2>2, <2>3, <2>4
<1> QED
  BY <1>5

-----------------------------------------------------------------------------
(* Greatest and least elements.                                            *)

LEMMA MaxOf ==
    ASSUME NEW S \in SUBSET Int, IsFiniteSet(S), S # {}
    PROVE  Max(S) \in S /\ \A y \in S : y <= Max(S)
<1> DEFINE P == {s \in SUBSET S : s = {} \/ \E x \in s : \A y \in s : x >= y}
<1>1. ASSUME NEW s \in SUBSET S, s # {}, \A x \in s : s \ {x} \in P PROVE s \in P
  <2>1. PICK a \in s : TRUE
    BY <1>1
  <2>2. CASE s \ {a} = {}
    BY <2>1, <2>2
  <2>3. CASE s \ {a} # {}
    <3>1. PICK x \in s \ {a} : \A y \in s \ {a} : x >= y
      BY <1>1, <2>3
    <3>2. \E z \in {a, x} : \A y \in s : z >= y
      BY <3>1
    <3> QED
      BY <3>1, <3>2
  <2> QED
    BY <2>2, <2>3
<1>2. P = SUBSET S
  <2>1. P \in SUBSET SUBSET S /\ {} \in P
    OBVIOUS
  <2> HIDE DEF P
  <2> QED
    BY <1>1, <2>1, AllSubsets
<1>3. \E x \in S : \A y \in S : x >= y
  BY <1>2
<1> QED
  BY <1>3 DEF Max

LEMMA MinOf ==
    ASSUME NEW S \in SUBSET Int, IsFiniteSet(S), S # {}
    PROVE  Min(S) \in S /\ \A y \in S : Min(S) <= y
<1> DEFINE P == {s \in SUBSET S : s = {} \/ \E x \in s : \A y \in s : x <= y}
<1>1. ASSUME NEW s \in SUBSET S, s # {}, \A x \in s : s \ {x} \in P PROVE s \in P
  <2>1. PICK a \in s : TRUE
    BY <1>1
  <2>2. CASE s \ {a} = {}
    BY <2>1, <2>2
  <2>3. CASE s \ {a} # {}
    <3>1. PICK x \in s \ {a} : \A y \in s \ {a} : x <= y
      BY <1>1, <2>3
    <3>2. \E z \in {a, x} : \A y \in s : z <= y
      BY <3>1
    <3> QED
      BY <3>1, <3>2
  <2> QED
    BY <2>2, <2>3
<1>2. P = SUBSET S
  <2>1. P \in SUBSET SUBSET S /\ {} \in P
    OBVIOUS
  <2> HIDE DEF P
  <2> QED
    BY <1>1, <2>1, AllSubsets
<1>3. \E x \in S : \A y \in S : x <= y
  BY <1>2
<1> QED
  BY <1>3 DEF Min

\* The greatest of larger things is not less.
LEMMA MaxGrows ==
    ASSUME NEW S \in SUBSET Int, IsFiniteSet(S), S # {},
           NEW T \in SUBSET Int, IsFiniteSet(T), T # {},
           \A x \in S : \E y \in T : x <= y
    PROVE  Max(S) <= Max(T)
<1>1. PICK y \in T : Max(S) <= y
  BY MaxOf
<1>2. y <= Max(T) /\ y \in Int /\ Max(S) \in Int /\ Max(T) \in Int
  BY MaxOf
<1> QED
  BY <1>1, <1>2

LEMMA MaxOfTwo ==
    \A a, b \in Int : Max({a, b}) = IF a >= b THEN a ELSE b
<1> SUFFICES ASSUME NEW a \in Int, NEW b \in Int
             PROVE  Max({a, b}) = IF a >= b THEN a ELSE b
    OBVIOUS
<1> DEFINE m == IF a >= b THEN a ELSE b
<1>1. m \in {a, b} /\ \A y \in {a, b} : m >= y
    OBVIOUS
<1>2. \A x \in {a, b} : (\A y \in {a, b} : x >= y) => x = m
    OBVIOUS
<1> QED
    BY <1>1, <1>2 DEF Max

\* The values of a function on a finite set are finitely many.
LEMMA ValuesFinite ==
    ASSUME NEW D, IsFiniteSet(D), NEW f
    PROVE  IsFiniteSet({f[x] : x \in D})
<1> DEFINE T == {f[x] : x \in D}
           g == [x \in D |-> f[x]]
<1>1. g \in [D -> T] /\ \A t \in T : \E x \in D : g[x] = t
  OBVIOUS
<1> HIDE DEF g, T
<1>2. g \in Surjection(D, T)
  BY <1>1, Zenon DEF Surjection
<1> QED
  BY <1>2, FS_Surjection DEF T

-----------------------------------------------------------------------------
(* Folds.                                                                  *)

\* g folds the subsets of D with op, each without the element that pick takes.
Iterates(D, base, op, pick, g) ==
    g = [s \in SUBSET D |-> IF s = {} THEN base ELSE op[pick[s]][g[s \ {pick[s]}]]]

LEMMA IterateExists ==
    ASSUME NEW D, IsFiniteSet(D), NEW base, NEW op, NEW pick,
           \A s \in SUBSET D : s # {} => pick[s] \in s
    PROVE  \E g : Iterates(D, base, op, pick, g)
<1> DEFINE Upto(n) == {s \in SUBSET D : Cardinality(s) <= n}
           Step(g, s) == IF s = {} THEN base ELSE op[pick[s]][g[s \ {pick[s]}]]
           N == {n \in Nat : \E g : g = [s \in Upto(n) |-> Step(g, s)]}
<1>1. \A s \in SUBSET D : IsFiniteSet(s) /\ Cardinality(s) \in Nat
  BY FS_Subset, FS_CardinalityType
<1>2. 0 \in N
  <2>1. \A s \in Upto(0) : s = {}
    BY <1>1, FS_EmptySet
  <2> DEFINE g == [s \in Upto(0) |-> base]
  <2>2. g = [s \in Upto(0) |-> Step(g, s)]
    BY <2>1
  <2> QED
    BY <2>2
<1>3. ASSUME NEW n \in N PROVE n + 1 \in N
  <2>1. PICK g : g = [s \in Upto(n) |-> Step(g, s)]
    OBVIOUS
  <2> DEFINE h == [s \in Upto(n + 1) |-> Step(g, s)]
  <2>2. ASSUME NEW s \in Upto(n + 1), s # {} PROVE h[s \ {pick[s]}] = g[s \ {pick[s]}]
    <3>1. pick[s] \in s
      BY <2>2
    <3>2. Cardinality(s \ {pick[s]}) = Cardinality(s) - 1
      BY <1>1, <3>1, FS_RemoveElement
    <3>3. s \ {pick[s]} \in Upto(n) /\ s \ {pick[s]} \in Upto(n + 1)
      BY <1>1, <3>2
    <3> DEFINE r == s \ {pick[s]}
    <3>4. r \in Upto(n) /\ r \in Upto(n + 1)
      BY <3>3
    <3> HIDE DEF r, Upto, Step
    <3>5. g[r] = Step(g, r)
      BY <2>1, <3>4
    <3>6. h[r] = Step(g, r)
      BY <3>4
    <3> QED
      BY <3>5, <3>6 DEF r
  <2>3. \A s \in Upto(n + 1) : Step(g, s) = Step(h, s)
    BY <2>2
  <2>4. h = [s \in Upto(n + 1) |-> Step(h, s)]
    <3> HIDE DEF Upto, Step
    <3> QED
      BY <2>3
  <2> QED
    <3> HIDE DEF h, Upto, Step
    <3> QED
      BY <2>4
<1>4. N = Nat
  <2> HIDE DEF N
  <2>1. N \in SUBSET Nat
    BY DEF N
  <2> QED
    BY <1>2, <1>3, <2>1, AllNumbers
<1>5. Cardinality(D) \in N
  BY <1>4, FS_CardinalityType
<1>6. Upto(Cardinality(D)) = SUBSET D
  BY <1>1, FS_Subset
<1> QED
  <2> HIDE DEF Upto
  <2> QED
    BY <1>5, <1>6 DEF Iterates

\* What op keeps in W, folds keep there.
LEMMA IterateType ==
    ASSUME NEW D, IsFiniteSet(D), NEW W, NEW base \in W, NEW op \in [D -> [W -> W]], NEW pick,
           \A s \in SUBSET D : s # {} => pick[s] \in s,
           NEW g, Iterates(D, base, op, pick, g)
    PROVE  g \in [SUBSET D -> W]
<1> DEFINE P == {s \in SUBSET D : g[s] \in W}
<1>1. /\ g = [s \in SUBSET D |-> g[s]] /\ g[{}] = base
      /\ \A s \in SUBSET D : s # {} => g[s] = op[pick[s]][g[s \ {pick[s]}]]
  BY DEF Iterates
<1>2. {} \in P
  BY <1>1
<1>3. ASSUME NEW s \in SUBSET D, s # {}, \A x \in s : s \ {x} \in P PROVE s \in P
  <2>1. pick[s] \in D /\ g[s \ {pick[s]}] \in W
    BY <1>3
  <2>2. op[pick[s]] \in [W -> W]
    BY <2>1
  <2>3. op[pick[s]][g[s \ {pick[s]}]] \in W
    BY <2>1, <2>2
  <2> QED
    BY <1>1, <1>3, <2>3
<1>4. P = SUBSET D
  <2> HIDE DEF P
  <2>1. P \in SUBSET SUBSET D
    BY DEF P
  <2> QED
    BY <1>2, <1>3, <2>1, AllSubsets
<1> QED
  BY <1>1, <1>4

-----------------------------------------------------------------------------
(* Ranks.                                                                  *)

\* In a strict order of n elements each has its own rank, and there is one for
\* every rank from 0 to n - 1.
LEMMA Ranks ==
    ASSUME NEW R, IsFiniteSet(R), NEW B,
           \A p, q \in R : p # q => <<p, q>> \in B \/ <<q, p>> \in B,
           \A p \in R : <<p, p>> \notin B,
           \A p, q, r \in R : <<p, q>> \in B /\ <<q, r>> \in B => <<p, r>> \in B,
           NEW before, \A q \in R : \A p : p \in before[q] <=> p \in R /\ <<p, q>> \in B,
           NEW rank, \A q \in R : rank[q] = Cardinality(before[q])
    PROVE  /\ Cardinality(R) \in Nat /\ \A q \in R : rank[q] \in Nat
           /\ \A p, q \in R : rank[p] = rank[q] => p = q
           /\ \A i \in 1..Cardinality(R) : \E q \in R : rank[q] = i - 1
<1> DEFINE n == Cardinality(R)
<1>1. n \in Nat
  BY FS_CardinalityType
<1>2. ASSUME NEW q \in R
      PROVE  IsFiniteSet(before[q]) /\ rank[q] = Cardinality(before[q]) /\ rank[q] \in 0..(n - 1)
  <2>1. before[q] \in SUBSET (R \ {q}) /\ rank[q] = Cardinality(before[q])
    OBVIOUS
  <2>2. IsFiniteSet(R \ {q}) /\ Cardinality(R \ {q}) = n - 1
    BY FS_RemoveElement
  <2>3. IsFiniteSet(before[q]) /\ Cardinality(before[q]) <= n - 1
    BY <2>1, <2>2, FS_Subset
  <2>4. Cardinality(before[q]) \in Nat
    BY <2>3, FS_CardinalityType
  <2> QED
    BY <1>1, <2>1, <2>3, <2>4
<1>3. ASSUME NEW p \in R, NEW q \in R, <<p, q>> \in B PROVE rank[p] < rank[q]
  <2>1. before[p] \in SUBSET (before[q] \ {p}) /\ p \in before[q]
    BY <1>3
  <2>2. IsFiniteSet(before[q] \ {p}) /\ Cardinality(before[q] \ {p}) = rank[q] - 1
    BY <1>2, <2>1, FS_RemoveElement
  <2>3. rank[p] <= rank[q] - 1
    BY <1>2, <2>1, <2>2, FS_Subset
  <2> QED
    BY <1>1, <1>2, <2>3
<1>4. \A q \in R : rank[q] \in 0..(n - 1)
  BY <1>2
<1>5. ASSUME NEW p \in R, NEW q \in R, rank[p] = rank[q] PROVE p = q
  <2> HIDE DEF n
  <2>1. ~(rank[p] < rank[q]) /\ ~(rank[q] < rank[p])
    BY <1>1, <1>4, <1>5
  <2> QED
    BY <1>3, <2>1
<1> DEFINE f == [q \in R |-> rank[q] + 1]
<1>6. f \in Injection(R, 1..n)
  <2>1. f \in [R -> 1..n]
    BY <1>1, <1>4
  <2>2. \A p, q \in R : f[p] = f[q] => p = q
    BY <1>4, <1>5
  <2> HIDE DEF f
  <2> QED
    BY <2>1, <2>2, Zenon DEF Injection, IsInjective
<1>7. IsFiniteSet(1..n) /\ Cardinality(1..n) = n
  BY <1>1, FS_Interval
<1>8. \A i \in 1..n : \E q \in R : f[q] = i
  <2> HIDE DEF f, n
  <2>1. f \in Surjection(R, 1..n)
    BY <1>6, <1>7, FS_Injection DEF n
  <2> QED
    BY <2>1, Zenon DEF Surjection
<1>9. \A i \in 1..n : \E q \in R : rank[q] = i - 1
  BY <1>1, <1>4, <1>8
<1>10. \A q \in R : rank[q] \in Nat
  BY <1>1, <1>4
<1> HIDE DEF n
<1>11. /\ n \in Nat /\ \A q \in R : rank[q] \in Nat
       /\ \A p, q \in R : rank[p] = rank[q] => p = q
       /\ \A i \in 1..n : \E q \in R : rank[q] = i - 1
  BY <1>1, <1>5, <1>9, <1>10
<1> QED
  BY <1>11 DEF n

-----------------------------------------------------------------------------
(* Products, sums of functions, and recursion along 0..N.                  *)

LEMMA IntProduct == \A a, b \in Int : a * b \in Int
  OBVIOUS

LEMMA NatProduct == \A a, b \in Nat : a * b \in Nat
  OBVIOUS

LEMMA ProductGrows ==
    ASSUME NEW a \in Nat, NEW b \in Nat, NEW c \in Nat, NEW d \in Nat, a <= b, c <= d
    PROVE  a * c \in Nat /\ b * d \in Nat /\ a * c <= b * d
<1>1. a * c <= b * c
  OBVIOUS
<1>2. b * c <= b * d
  OBVIOUS
<1> QED
  BY <1>1, <1>2

\* A sum grows with what is added up.
LEMMA SumsGrow ==
    ASSUME NEW D, IsFiniteSet(D), NEW f \in [D -> Nat], NEW g \in [D -> Nat],
           \A n \in D : f[n] <= g[n]
    PROVE  /\ SumFunction(f) \in Nat /\ SumFunction(g) \in Nat
           /\ SumFunction(f) <= SumFunction(g)
<1>1. SumFunction(f) = SumFunctionOnSet(f, D) /\ SumFunction(g) = SumFunctionOnSet(g, D)
  BY DEF SumFunction
<1>2. SumFunctionOnSet(f, D) \in Nat /\ SumFunctionOnSet(g, D) \in Nat
  BY SumNat
<1>3. \A n \in D : f[n] \in Int /\ g[n] \in Int /\ f[n] <= g[n]
  OBVIOUS
<1>4. SumFunctionOnSet(f, D) <= SumFunctionOnSet(g, D)
  <2>1. D \in SUBSET D /\ D \ D = {}
    OBVIOUS
  <2> QED
    BY <1>3, <2>1, SumGrows
<1> QED
  BY <1>1, <1>2, <1>4

\* What is begun with a and carried on by op.
Steps(N, a, op, h) == h = [n \in 0..N |-> IF n = 0 THEN a ELSE op[n][h[n - 1]]]

\* There is such a recursion, and what holds at 0 and is handed on holds all along.
LEMMA StepsExist ==
    ASSUME NEW N \in Nat, NEW a, NEW op
    PROVE  \E h : Steps(N, a, op, h)
<1> DEFINE P == {n \in Nat : \E h : Steps(n, a, op, h)}
<1>1. 0 \in P
  <2> DEFINE h == [n \in 0..0 |-> a]
  <2>1. h = [n \in 0..0 |-> IF n = 0 THEN a ELSE op[n][h[n - 1]]]
    OBVIOUS
  <2> HIDE DEF h
  <2> QED
    BY <2>1 DEF Steps
<1>2. ASSUME NEW n \in P PROVE n + 1 \in P
  <2>1. PICK h : Steps(n, a, op, h)
    OBVIOUS
  <2>2. n \in Nat
    OBVIOUS
  <2> DEFINE k == [i \in 0..(n + 1) |-> IF i = n + 1 THEN op[n + 1][h[n]] ELSE h[i]]
  <2>3. \A i \in 0..n : h[i] = IF i = 0 THEN a ELSE op[i][h[i - 1]]
    BY <2>1 DEF Steps
  <2>4. ASSUME NEW i \in 0..(n + 1)
        PROVE  k[i] = IF i = 0 THEN a ELSE op[i][k[i - 1]]
    <3>1. CASE i = n + 1
      BY <2>2, <3>1
    <3>2. CASE i \in 0..n /\ i # 0
      <4>1. i - 1 \in 0..n /\ i - 1 # n + 1 /\ i # n + 1
        BY <2>2, <3>2
      <4> QED
        BY <2>3, <3>2, <4>1
    <3>3. CASE i = 0
      BY <2>2, <2>3, <3>3
    <3> QED
      BY <2>2, <3>1, <3>2, <3>3
  <2>5. k = [i \in 0..(n + 1) |-> k[i]]
    OBVIOUS
  <2> HIDE DEF k
  <2>6. Steps(n + 1, a, op, k)
    BY <2>4, <2>5 DEF Steps
  <2> QED
    BY <2>2, <2>6
<1> HIDE DEF P
<1>3. P \in SUBSET Nat
  BY DEF P
<1>4. P = Nat
  BY <1>1, <1>2, <1>3, AllNumbers
<1> QED
  BY <1>4 DEF P

LEMMA StepsHold ==
    ASSUME NEW N \in Nat, NEW P, 0 \in P, \A n \in 1..N : n - 1 \in P => n \in P
    PROVE  0..N \in SUBSET P
<1> DEFINE R == {n \in Nat : n \in 0..N => n \in P}
<1>1. 0 \in R
  OBVIOUS
<1>2. ASSUME NEW n \in R PROVE n + 1 \in R
  <2>1. CASE n + 1 \in 0..N
    <3>1. n + 1 \in 1..N /\ n \in 0..N /\ n + 1 - 1 = n
      BY <2>1
    <3> QED
      BY <3>1
  <2>2. CASE n + 1 \notin 0..N
    BY <2>2
  <2> QED
    BY <2>1, <2>2
<1> HIDE DEF R
<1>3. R \in SUBSET Nat
  BY DEF R
<1>4. R = Nat
  BY <1>1, <1>2, <1>3, AllNumbers
<1> QED
  BY <1>4 DEF R

LEMMA StepsType ==
    ASSUME NEW N \in Nat, NEW W, NEW a \in W, NEW op \in [1..N -> [W -> W]],
           NEW h, Steps(N, a, op, h)
    PROVE  \A n \in 0..N : h[n] \in W
<1> DEFINE P == {n \in 0..N : h[n] \in W}
<1>1. \A n \in 0..N : h[n] = IF n = 0 THEN a ELSE op[n][h[n - 1]]
  BY DEF Steps
<1>2. 0 \in P
  BY <1>1
<1>3. \A n \in 1..N : n - 1 \in P => n \in P
  BY <1>1
<1> HIDE DEF P
<1>4. 0..N \in SUBSET P
  BY <1>2, <1>3, StepsHold
<1> QED
  BY <1>4 DEF P
=============================================================================

---------------------------- MODULE MCFulfilment ----------------------------
(***************************************************************************)
(* Instances of Fulfilment for TLC.                                        *)
(***************************************************************************)
EXTENDS Fulfilment, TLC

CONSTANTS fp1, fp2, page1, page2

OneFp == {fp1}
TwoRounds == {page1, page2}
SlotSymmetry == Permutations(TwoRounds)

\* Bounds: a booking without quotes is packed in all ways; rounds make quotes while
\* few lines were made, and two of them overlap before any set but one is made.
OverlapEarly ==
    \/ made = 0 /\ Quiet
    \/ made = 0 /\ Cardinality(InProgress) = 1 /\ failures = 0 /\ repacks = {}
    \/ Cardinality(InProgress) <= 1 /\ serial <= Items + 1 /\ repacks = {}
    \/ serial <= Items + 1 /\ failures = 0 /\ repacks = {}
=============================================================================

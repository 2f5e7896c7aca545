---------------------------- MODULE MCBokMapping ----------------------------
(***************************************************************************)
(* Instances of BokMapping for TLC: who has which invoice number.          *)
(***************************************************************************)
EXTENDS BokMapping, TLC

CONSTANTS h1, h2, h3

\* h1 and h2 share an invoice, any other order has one of its own.
SharedSinv == [h \in Headers |-> CASE h \in {h1, h2} -> 1 [] h = h3 -> 3 [] OTHER -> 4]

\* Invoices do not matter.
NoSinv == [h \in Headers |-> 0]

\* Every call of the clients.
AllKinds == CallKinds

Symmetric == Permutations(Runs)
=============================================================================

----------------------------- MODULE Fulfilment -----------------------------
(***************************************************************************)
(* A booking on its way out of the warehouse: its packed sets (Packing)    *)
(* and its quotes (Quoting), with the operations that change both.  Staff  *)
(* repack the lines and ask for prices, the warehouse scans what it picks, *)
(* and booking the freight provider makes the scanned set from the quoted  *)
(* one when nothing was scanned.                                           *)
(***************************************************************************)
EXTENDS Packing, Quoting

VARIABLES
    booked,   \* b_dateBookedDate is set
    late      \* the warehouse has scanned after the booking was booked

vars == <<packingVars, quotingVars, booked, late>>

Picked == {r \in rows : r.form = "picked"}

Init == InitPacking /\ InitQuoting /\ booked = FALSE /\ late = FALSE

StaffRepacks == Repack /\ UNCHANGED <<quotingVars, booked, late>>

\* The pricing page prices every set that has lines.
PricePage(r) ==
    /\ Begin(r, "page", PackedStatuses, Packed, booked)
    /\ UNCHANGED <<packingVars, made, chosen, failures, booked, late>>

RoundStep(r) ==
    /\ Answer(r) \/ After(r) \/ AfterFails(r) \/ PageSelect(r) \/ ScanSelect(r)
    /\ UNCHANGED <<packingVars, booked, late>>

-----------------------------------------------------------------------------
(* The warehouse.                                                          *)

\* scanned: what was picked before is replaced by what is picked now, the
\* booking loses its quote, and the scanned set is priced in the background.
Scan(r) ==
    /\ serial < MaxRows
    /\ serial' = serial + 1
    /\ rows' = (rows \ Picked) \cup {Line(serial', serial', "scanned", "picked", {})}
    /\ Begin(r, "scan", {"scanned"}, {"scanned"}, booked)
    /\ chosen' = 0
    /\ late' = (late \/ booked)
    /\ UNCHANGED <<datas, repacks, made, failures, booked>>

\* The lines are saved in a transaction, but the earlier ones are deleted before it.
ScanFails ==
    /\ Picked # {} /\ failures < MaxFailures
    /\ failures' = failures + 1
    /\ rows' = rows \ Picked
    /\ UNCHANGED <<datas, serial, repacks, quotes, made, chosen, rounds, booked, late>>

-----------------------------------------------------------------------------
(* Booking.                                                                *)

\* The set of the quote or, without a quote, the one changed last: the loop
\* meant for the manual set goes over the (empty) scanned one.
SetToShip ==
    IF ChosenQuotes # {} THEN {q.status : q \in ChosenQuotes}
    ELSE {s \in {"original", "auto"} : RowsIn(s) # {}}

QuoteId(S, q) == made + Cardinality({p \in S : p.id <= q.id})
CopiedQuotes(S) ==
    {[q EXCEPT !.id = QuoteId(S, q), !.status = "scanned", !.by = NoRound] : q \in S}

CopyForScanned(status) ==
    LET live == LiveIn(status)
    IN  /\ made + Cardinality(live) <= MaxQuotes
        /\ Duplicate(RowsIn(status), "scanned")
        /\ quotes' = quotes \cup CopiedQuotes(live)
        /\ made' = made + Cardinality(live)
        /\ chosen' = IF \E q \in live : q.id = chosen
                     THEN QuoteId(live, CHOOSE q \in live : q.id = chosen) ELSE chosen

\* Slip: the scanned set is made whatever was scanned.
ScannedRepackAgain == \E status \in SetToShip : CopyForScanned(status)

\* scanned_repack, called when the status becomes "Booked".
ScannedRepack ==
    IF RowsIn("scanned") # {} THEN UNCHANGED <<packingVars, quotes, made, chosen>>
    ELSE \E status \in SetToShip : CopyForScanned(status)

Book ==
    /\ ~booked
    /\ booked' = TRUE
    /\ ScannedRepack
    /\ UNCHANGED <<rounds, failures, late>>

Next ==
    \/ StaffRepacks
    \/ \E r \in Rounds : PricePage(r) \/ RoundStep(r) \/ Scan(r)
    \/ ScanFails
    \/ Book

Spec == Init /\ [][Next]_vars

-----------------------------------------------------------------------------
(* Properties.                                                             *)

TypeOK ==
    /\ PackingTypeOK
    /\ quotes \subseteq Quote(PackedStatuses)
    /\ {made, chosen, failures} \subseteq Nat
    /\ rounds \in [Rounds -> Round(PackedStatuses)]
    /\ {booked, late} \subseteq BOOLEAN

\* The scanned set is what the warehouse picked or a copy of a packed set, never
\* both (what goes to the labels and the manifest would be counted twice), as
\* long as the warehouse scans before the booking is booked.
ScannedOnce ==
    ~late => Picked = {} \/ RowsIn("scanned") = Picked

\* However rounds of the page and of the warehouse overlap: once all are over,
\* a booking not booked yet has chosen one of the live quotes, or none, or there
\* is no live quote that the page may choose.
ChosenIsLive ==
    Quiet /\ failures = 0 /\ ~booked /\ chosen # 0 =>
        \/ \A q \in Live : ~q.fit
        \/ \E q \in Live : q.id = chosen

=============================================================================

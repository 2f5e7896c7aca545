------------------------------- MODULE Rating -------------------------------
(***************************************************************************)
(* The amounts of a booking's quotes.  Each round of pricing asks the FPs  *)
(* for the packed sets it is about, adds the rows of Deliver-ME and the    *)
(* like, raises offers that lie below the client's own rates, adds         *)
(* surcharges, hides what Allied does not carry, applies levies and        *)
(* mark-ups, and chooses a quote.  Rounds follow one another here: Quoting *)
(* has what happens when they overlap.                                     *)
(***************************************************************************)
EXTENDS Tariffs, Sequences, SequencesExt

CONSTANTS
    Sizes,        \* lines an order may have
    Places,       \* addresses, client and deadline of an order
    MaxLines,     \* bound: lines of an order
    Priced,       \* bound: the orders rounds are about
    Scanned,      \* what the warehouse may pick, as lines
    Services,     \* what an FP's offers are for: a service, on one of its accounts
    Express,      \* those with "express" in their names
    Offers,       \* for each FP, what it may offer: [service, fee, etd, air]
    Arrivals,     \* bound: the orders in which offers come, as positions by FP and service
    ClientRated,  \* FPs asked with the client's own account
    Gap,          \* gap_percent
    Levy,         \* for each FP, its fuel levy in percent
    MarkUp, FromCost, MinMarkUp,  \* the client's mark-up
    MaxRounds     \* bound: rounds

ASSUME RatingAssumption ==
    /\ {MaxLines, MarkUp, FromCost, MinMarkUp, MaxRounds} \subseteq Nat
    /\ Gap \in 0..100
    /\ \A fp \in DOMAIN Offers : fp \in Tariffed /\ Levy[fp] \in Nat
    /\ ClientRated \subseteq DOMAIN Offers

\* What FP_onforwarding has for the two ends.
ASSUME PlacesAssumption ==
    \A p \in Places : \A e \in {"pickup", "delivery"} :
        p.onward[e] \subseteq OnwardRow /\ IsFiniteSet(p.onward[e])

\* A scan without items is refused.
ASSUME LinesAssumption ==
    /\ \A x \in Sizes : x \in OrderLine
    /\ \A picked \in Scanned : picked # << >> /\ picked \in Seq(OrderLine)

\* Offers come one after the other.  Allied has one service, as its account has.
ASSUME OffersAssumption ==
    /\ IsFiniteSet(Services) /\ Express \subseteq Services
    /\ \A fp \in DOMAIN Offers :
          /\ Offers[fp] \subseteq [service : Services, fee : Nat, etd : Nat, air : BOOLEAN]
          /\ fp = "Allied" => \A o, p \in Offers[fp] : o.service = p.service
    /\ Arrivals # {}
    /\ \A a \in Arrivals : \A p, q \in DOMAIN Offers : \A s, t \in Services :
          a[p][s] \in Nat /\ (a[p][s] = a[q][t] => p = q /\ s = t)

VARIABLES
    place,
    lines,     \* the lines of the sets "original" and "scanned"
    quotes,    \* the live quotes
    chosen,    \* the quote the booking took, and how
    round      \* rounds so far

vars == <<place, lines, quotes, chosen, round>>

Sets == {"original", "scanned"}
SpecialFps == {"Deliver-ME", "Customer Collect", "In House Fleet"}
IsSpecial(q) == q.fp \in SpecialFps

\* etd in hours, 0 when unknown; offer is the FP's own price; marked says that
\* the levy has been set.
Quote(fp, set, o) ==
    [fp |-> fp, service |-> o.service, set |-> set, offer |-> o.fee, fee |-> o.fee, etd |-> o.etd,
     air |-> o.air, extra |-> 0, price |-> 0, marked |-> FALSE]
SpecialQuote(fp, set, price) ==
    [fp |-> fp, service |-> "none", set |-> set, offer |-> 0, fee |-> 0, etd |-> 72, air |-> FALSE,
     extra |-> 0, price |-> price, marked |-> TRUE]

None == [fp |-> "none", service |-> "none", set |-> "none", price |-> 0, by |-> "none", round |-> 0]

Init ==
    /\ place \in Places
    /\ lines = [set \in Sets |-> << >>]
    /\ quotes = {} /\ chosen = None /\ round = 0

-----------------------------------------------------------------------------
(* The order.  Its lines are edited before the first round.                *)

AddLine ==
    /\ round = 0 /\ Len(lines["original"]) < MaxLines
    /\ \E x \in Sizes : lines' = [lines EXCEPT !["original"] = Append(@, x)]
    /\ UNCHANGED <<place, quotes, chosen, round>>

EditLine ==
    /\ round = 0
    /\ \E i \in DOMAIN lines["original"], x \in Sizes :
           lines' = [lines EXCEPT !["original"][i] = x]
    /\ UNCHANGED <<place, quotes, chosen, round>>

-----------------------------------------------------------------------------
(* Deliver-ME, In House Fleet and Customer Collect.                        *)

Metro == {"Melbourne", "Brisbane"}
StateOf(region) ==
    CASE region = "Melbourne" -> "VIC" [] region = "Brisbane" -> "QLD"
      [] region = "Sydney" -> "NSW"    [] OTHER -> "SA"

\* Slip: the linehaul goes to Sydney for everyone.
LinehaulEverywhere(p) ==
    p.state # StateOf(p.region) /\ p.client \in {"JasonL", "BSD", "Anchor"}
    /\ p.region \in Metro \cup {"Sydney"}

\* can_use_linehaul: between states, for the ways that are served.
Linehaul(p) ==
    /\ p.state # StateOf(p.region)
    /\ \/ p.client \in {"JasonL", "BSD"} /\ p.region \in Metro
       \/ p.client = "Anchor" /\ p.suburb = "chester hill" /\ p.region \in Metro
       \/ p.client = "Anchor" /\ p.suburb \in {"dandenong south", "larapinta"}
             /\ p.region = "Sydney"

InHouse(p) == p.client = "JasonL" /\ p.region = "Sydney"
Collects(p) == p.client \in {"Plum", "JasonL", "BSD", "Anchor"}

\* get_value_by_formula
FleetPrice(ls) ==
    60000 + SumFunction([i \in DOMAIN ls |-> ls[i].qty * (IF ls[i].pallet THEN 60000 ELSE 5000)])

FleetRow(now, set) == SpecialQuote("In House Fleet", set, FleetPrice(now[set]))
HaulRow(set) == SpecialQuote("Deliver-ME", set, 70000)
CollectRow(set) == SpecialQuote("Customer Collect", set, 0)

\* build_special_fp_pricings: one object is saved for each of them in turn, with
\* its key cleared for the first and the last only.
Specials(now, set) ==
    LET fleet == IF InHouse(place) THEN {FleetRow(now, set)} ELSE {}
        haul  == IF Linehaul(place) THEN {HaulRow(set)} ELSE fleet
    IN  haul \cup (IF Collects(place) THEN {CollectRow(set)} ELSE {})

-----------------------------------------------------------------------------
(* From offers to prices.                                                  *)

\* What the FPs may answer: for a set, an offer for each of their services or not.
Answers(sets) ==
    LET all == UNION {{Quote(fp, set, o) : o \in Offers[fp]} : fp \in DOMAIN Offers, set \in sets}
    IN  {A \in SUBSET all :
            \A p, q \in A : p.fp = q.fp /\ p.service = q.service /\ p.set = q.set => p = q}

OwnFees(Q) == {q.fee : q \in {p \in Q : p.fp \in ClientRated}}

\* Slip: the offer is raised by a share of the client's price, not of the gap.
RaisedByShare(Q) ==
    IF OwnFees(Q) = {} THEN Q
    ELSE {IF IsSpecial(q) \/ q.fp \in ClientRated \/ q.fee >= Min(OwnFees(Q)) THEN q
          ELSE [q EXCEPT !.fee = @ + (Min(OwnFees(Q)) * Gap) \div 100] : q \in Q}

\* Slip: the gap is taken away.
LoweredByGap(Q) ==
    IF OwnFees(Q) = {} THEN Q
    ELSE {IF IsSpecial(q) \/ q.fp \in ClientRated \/ q.fee >= Min(OwnFees(Q)) THEN q
          ELSE [q EXCEPT !.fee = @ - ((Min(OwnFees(Q)) - @) * Gap) \div 100] : q \in Q}

\* interpolate_gaps: over ALL live quotes, those raised by earlier rounds, too.
Interpolated(Q) ==
    IF OwnFees(Q) = {} THEN Q
    ELSE LET lowest == Min(OwnFees(Q))
         IN  {IF IsSpecial(q) \/ q.fp \in ClientRated \/ q.fee >= lowest THEN q
              ELSE [q EXCEPT !.fee = @ + ((lowest - @) * Gap) \div 100] : q \in Q}

\* gen_surcharges, for the quotes of the sets just priced.
Extras(now, sets) ==
    [fp \in DOMAIN Offers |-> [service \in Services |-> [set \in sets |->
        Surcharge(fp, service \in Express, place, now[set])]]]

IsBulky(x) == Cardinality({d \in {"l", "w", "h"} : x[d] > 120}) >= 2
HasBulky(ls) == \E i \in DOMAIN ls : IsBulky(ls[i])

\* The quotes by id: those of the set "original" are older or, as a bound,
\* answered first.
Listed(Q, arrival) ==
    LET rows == {q \in Q : ~IsSpecial(q)}
        Before(q) == {p \in rows : \/ p.set = q.set /\ arrival[p.fp][p.service] < arrival[q.fp][q.service]
                                   \/ p.set = "original" /\ q.set = "scanned"}
    IN  [i \in 1..Cardinality(rows) |-> CHOOSE q \in rows : Cardinality(Before(q)) = i - 1]

\* _after_process goes over its own copies of the quotes s, and hands a list of
\* them on: its own, a query not yet sent, or what a query has read.
Work(s) ==
    [extra  |-> [i \in DOMAIN s |-> s[i].extra],  \* of the rows
     hidden |-> {},                               \* of the rows
     gone   |-> {},                               \* hidden in its own copies
     list   |-> "own", read |-> {}, seen |-> << >>]

OnList(w, s) ==
    CASE w.list = "own" -> DOMAIN s
      [] w.list = "query" -> DOMAIN s \ w.hidden
      [] OTHER -> w.read

\* gen_surcharges saves its copy of the quote, whatever became of the row.
Charged(w, i, charge) ==
    [w EXCEPT !.extra[i] = charge, !.hidden = (@ \ {i}) \cup (w.gone \cap {i})]

\* Slip: nothing is hidden.
ConfirmsAll(w, s, bulky) == w

\* _confirm_visible, with the lines of one quote: if they are bulky, the first
\* quote of Allied on the list goes, of whichever set it is, and the list is
\* asked for anew.  A query is sent when the list is looked at.
Confirmed(w, s, bulky) ==
    LET allied == {i \in OnList(w, s) : s[i].fp = "Allied"}
    IN  IF bulky /\ allied # {}
        THEN [w EXCEPT !.hidden = @ \cup {Min(allied)}, !.list = "query",
                       !.gone = IF w.list = "own" THEN {Min(allied)} ELSE @]
        ELSE IF w.list = "query"
        THEN [w EXCEPT !.list = "read", !.read = OnList(w, s), !.seen = w.extra]
        ELSE w

\* Surcharges, and what is hidden, for the quotes of the sets just priced.
Worked(s, extras, now, sets) ==
    LET Step(w, i) ==
            IF s[i].set \notin sets THEN w
            ELSE Confirmed(Charged(w, i, extras[s[i].fp][s[i].service][s[i].set]), s,
                           place.from = "residential" /\ HasBulky(now[s[i].set]))
    IN  FoldLeft(Step, Work(s), [i \in DOMAIN s |-> i])

Cost(q) ==
    LET base == IF q.fp \in {"Hunter", "Allied", "Northline", "Camerons"} THEN q.fee + q.extra
                ELSE q.fee
    IN  q.fee + q.extra + (base * Levy[q.fp]) \div 100

ClientMarkUp(q) == IF q.fp \in ClientRated THEN 0 ELSE MarkUp

\* _apply_mu: the least mark-up holds for freight up to a cost.
PriceOf(q) ==
    LET share == (Cost(q) * ClientMarkUp(q)) \div 100
    IN  Cost(q) + (IF Cost(q) > FromCost THEN share ELSE Max({share, MinMarkUp}))

MarkedUp(q) == [q EXCEPT !.price = PriceOf(q), !.marked = TRUE]

\* apply_markups, for the quotes on the list: they are saved as they were read,
\* and surcharges that came later are lost.  What is not on the list is offered
\* at the FP's fee, without a levy.
Saved(w, s) ==
    {IF i \in OnList(w, s)
     THEN MarkedUp([s[i] EXCEPT !.extra = IF w.list = "read" THEN w.seen[i] ELSE w.extra[i]])
     ELSE [s[i] EXCEPT !.extra = w.extra[i], !.price = s[i].fee, !.marked = FALSE] :
        i \in DOMAIN s \ w.hidden}

AlliedIn(Q) == {q \in Q : q.fp = "Allied"}

\* JasonL does not send to South Australia with Allied.
WithoutAllied(Q) ==
    IF place.client = "JasonL" /\ StateOf(place.region) = "SA" THEN Q \ AlliedIn(Q) ELSE Q

-----------------------------------------------------------------------------
(* The choice.                                                             *)

\* Slip: surcharges, levy and mark-up are not compared.
CheapestFee(Q) == {q \in Q : \A p \in Q : q.fee <= p.fee}

Cheapest(Q) == {q \in Q : \A p \in Q : q.price <= p.price}

\* _get_lowest_price goes over equal prices in any order and keeps the earlier
\* arrival.  After such a change it has a quote in the place of the arrival, and
\* one more comparison raises TypeError.
Keep(b, q) ==
    IF b.raised \/ b.quote.etd = 0 \/ q.etd = 0 THEN b
    ELSE IF b.replaced THEN [b EXCEPT !.raised = TRUE]
    ELSE IF b.quote.etd > q.etd THEN [b EXCEPT !.quote = q, !.replaced = TRUE]
    ELSE b

Kept(s) == FoldLeft(Keep, [quote |-> s[1], replaced |-> FALSE, raised |-> FALSE], Tail(s))

Lowest(Q) ==
    LET paid == {q \in Q : ~IsSpecial(q) /\ q.price > 0}
    IN  {Kept(s) : s \in SetToSeqs(Cheapest(paid)) \ {<< >>}}

DeliverMe(Q) == {q \in Q : q.fp = "Deliver-ME"}
LowestFor(Q) ==
    IF place.client \in {"JasonL", "BSD"} /\ DeliverMe(Q) # {}
    THEN {[quote |-> q, replaced |-> FALSE, raised |-> FALSE] : q \in DeliverMe(Q)}
    ELSE Lowest(Q)

\* _get_fastest_price, in the order of prices: the first stays when its arrival
\* is unknown, and of equal arrivals the dearest is taken.
Fastest(Q) ==
    LET fp   == {q \in Q : ~IsSpecial(q)}
        best == {q \in fp : q.etd # 0 /\ \A p \in fp : p.etd = 0 \/ q.etd <= p.etd}
        take == {q \in Cheapest(fp) : q.etd = 0}
                \cup (IF \E q \in Cheapest(fp) : q.etd # 0
                      THEN {q \in best : \A p \in best : q.price >= p.price} ELSE {})
    IN  {[quote |-> q, replaced |-> FALSE, raised |-> FALSE] : q \in take}

InTime(q) == q.etd # 0 /\ place.due > q.etd

\* Slip: the deadline is not looked at.
CandidatesAny(Q) == {q \in Q : ~q.air}

\* By road, in time if anything is.
Candidates(Q) ==
    LET road == {q \in Q : ~q.air}
    IN  IF \E q \in road : InTime(q) THEN {q \in road : InTime(q)} ELSE road

Taken(q, by) ==
    [fp |-> q.fp, service |-> q.service, set |-> q.set, price |-> q.price, by |-> by, round |-> round']

\* set_booking_quote raises TypeError, too, for a quote without a levy.
Raised(b) == b.raised \/ ~b.quote.marked

\* auto_select_pricing.  Without a result, or after a TypeError, the booking
\* keeps the quote it had.
PageTakes(Q, by) ==
    LET results == IF by = "lowest" THEN LowestFor(Candidates(Q)) ELSE Fastest(Candidates(Q))
    IN  IF results = {} THEN chosen' = chosen
        ELSE \E b \in results : chosen' = IF Raised(b) THEN chosen ELSE Taken(b.quote, by)

\* quoting_in_bg takes the first of select_best_options, whatever the client;
\* the booking has lost its quote when the scan began.
ScanTakes(Q) ==
    LET results == IF Lowest(Q) # {} THEN Lowest(Q) ELSE Fastest(Q)
    IN  IF results = {} THEN chosen' = None
        ELSE \E b \in results : chosen' = IF Raised(b) THEN None ELSE Taken(b.quote, "scan")

-----------------------------------------------------------------------------
(* Rounds.                                                                 *)

\* Where nothing can be hidden, any order of the answers is as good as another.
Orders == IF place.from = "residential" THEN Arrivals ELSE {CHOOSE a \in Arrivals : TRUE}

\* pricing: the live quotes once the round is through.
Results(kept, answers, extras, now, sets) ==
    LET asked == Interpolated(kept \cup answers \cup UNION {Specials(now, set) : set \in sets})
        Rows(arrival) == LET s == Listed(asked, arrival) IN Saved(Worked(s, extras, now, sets), s)
    IN  {WithoutAllied({q \in asked : IsSpecial(q)} \cup Rows(arrival)) : arrival \in Orders}

WithLines == {set \in Sets : lines[set] # << >>}
NextRound == round < MaxRounds /\ lines["original"] \in Priced /\ round' = round + 1

PageRound ==
    /\ NextRound
    /\ UNCHANGED <<place, lines>>
    /\ \E extras \in {Extras(lines, WithLines)}, answers \in Answers(WithLines) :
           \E Q \in Results({}, answers, extras, lines, WithLines) :
               quotes' = Q /\ \E by \in {"lowest", "fastest"} : PageTakes(Q, by)

\* The page's quotes of the other set stay live.
ScanRound ==
    /\ NextRound
    /\ UNCHANGED place
    /\ \E now \in {[lines EXCEPT !["scanned"] = picked] : picked \in Scanned} :
          /\ lines' = now
          /\ \E extras \in {Extras(now, {"scanned"})}, answers \in Answers({"scanned"}) :
                \E Q \in Results({q \in quotes : q.set # "scanned"}, answers, extras, now, {"scanned"}) :
                    quotes' = Q /\ ScanTakes({q \in Q : q.set = "scanned"})

Next == AddLine \/ EditLine \/ PageRound \/ ScanRound

Spec == Init /\ [][Next]_vars

-----------------------------------------------------------------------------
(* Properties.                                                             *)

TypeOK ==
    /\ place \in Places
    /\ lines["original"] \in Seq(Sizes) /\ lines["scanned"] \in Scanned \cup {<< >>}
    /\ \A q \in quotes : /\ q.fp \in DOMAIN Offers \cup SpecialFps /\ q.set \in Sets
                          /\ q.service \in Services \cup {"none"}
                          /\ {q.offer, q.fee, q.etd, q.extra, q.price} \subseteq Nat
    /\ chosen.by \in {"none", "lowest", "fastest", "scan"}
    /\ round \in 0..MaxRounds

\* Whatever the lines, the bands of a table never charge for the same length or
\* weight twice, at their boundaries either.
OneFeePerRule ==
    round = 0 => \A i \in DOMAIN lines["original"], fp \in Tariffed :
        LET x == lines["original"][i]
        IN  /\ Cardinality(In(LengthBands(fp), Longest(x))) <= 1
            /\ Cardinality(In(HomeBands(fp), HeavyKg(fp, x))) <= 1
            /\ Cardinality(AlliedHome(OrderDead(lines["original"]), OrderCubic("Allied", lines["original"]))) <= 1

Grown(ls, more) ==
    /\ Len(ls) <= Len(more)
    /\ \A i \in DOMAIN ls : /\ ls[i].pallet = more[i].pallet
                            /\ \A d \in {"l", "w", "h", "g", "qty"} : ls[i][d] <= more[i][d]

\* The gaps of the tables: TNT has no band from 25 m on and charges for what is
\* too small for its sorter, Allied has no class for exactly 22 kg.
InGap(fp, ls, more) ==
    \/ fp = "TNT" /\ \E i \in DOMAIN more : Longest(more[i]) >= 2500
    \/ fp = "TNT" /\ \E i \in DOMAIN ls : ls[i].l < 20 \/ ls[i].w < 10 \/ ls[i].h < 2 \/ ls[i].g = 0
    \/ fp = "Allied" /\ OrderHeavy(fp, more) = 22

\* When an order grows (a line gets longer, heavier or more, or one is added), no
\* FP's surcharges get less, outside the gaps of its table.
LargerNotCheaper ==
    [][Grown(lines["original"], lines'["original"]) =>
           \A fp \in Tariffed, express \in BOOLEAN :
               \/ lines["original"] = << >> \/ InGap(fp, lines["original"], lines'["original"])
               \/ Surcharge(fp, express, place, lines["original"])
                      <= Surcharge(fp, express, place, lines'["original"])]_(lines["original"])

\* However often the offers of a set are raised again by rounds of another set,
\* no raise lifts one over the client's own lowest rate.
RaisedToClientAtMost ==
    [][\A p \in quotes' :
           \/ p.fee = p.offer
           \/ \E q \in quotes :
                 q.fp = p.fp /\ q.service = p.service /\ q.set = p.set /\ q.fee = p.fee
           \/ /\ OwnFees(quotes') # {}
              /\ \A fee \in OwnFees(quotes') : p.fee <= fee]_quotes

Carriers == {q \in quotes : ~IsSpecial(q) /\ q.price > 0}

\* The round that chose the booking's quote is the last one.
JustChosen == round > 0 /\ chosen.round = round

\* With a deadline that a carrier by road can meet, the page's choice meets it.
DeadlineMet ==
    JustChosen /\ chosen.by \in {"lowest", "fastest"} /\ (\E q \in Carriers : ~q.air /\ InTime(q))
        => \E q \in quotes : /\ q.fp = chosen.fp /\ q.service = chosen.service
                              /\ q.set = chosen.set /\ InTime(q)

\* Choosing by price takes a carrier (or Deliver-ME, where it comes first) such
\* that no carrier in time is cheaper when all that the client pays is counted;
\* after a scan, of the scanned set.
CheapestCarrierTaken ==
    /\ JustChosen /\ chosen.by = "lowest" /\ chosen.fp # "Deliver-ME" =>
           /\ \E q \in Carriers :
                 q.fp = chosen.fp /\ q.service = chosen.service /\ q.price = chosen.price
           /\ \A q \in Carriers : ~q.air /\ InTime(q) => chosen.price <= q.price
    /\ JustChosen /\ chosen.by = "scan" =>
           \A q \in Carriers : q.set = "scanned" => chosen.price <= q.price

\* JasonL's own fleet is offered next to every carrier in its district, although
\* the rows of the fleet and of Deliver-ME are saved from one object.
FleetOffered ==
    InHouse(place) =>
        \A q \in quotes : IsSpecial(q) \/ \E p \in quotes : p.fp = "In House Fleet" /\ p.set = q.set

\* While there is one packed set: what is bulky is not picked up at a home by
\* Allied, however many quotes there are.
NoBulkyAllied ==
    place.from = "residential" /\ lines["scanned"] = << >> /\ HasBulky(lines["original"])
        => AlliedIn(quotes) = {}

\* "Total of surcharges" (models.py:630): what a quote has for surcharges is
\* the total for its lines.
ExtraIsTotal ==
    \A q \in quotes : IsSpecial(q) \/ q.extra = Surcharge(q.fp, q.service \in Express, place, lines[q.set])

=============================================================================

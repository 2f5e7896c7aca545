------------------------------ MODULE Quoting ------------------------------
(***************************************************************************)
(* The quotes of one booking: rounds of pricing, each of which retires the *)
(* quotes of the packed sets it prices, asks the freight providers (FPs)   *)
(* on threads of its own, works on the quotes it then finds and chooses    *)
(* one.  Rounds are started by the pricing page and by the warehouse's     *)
(* scan, and nothing keeps two of them apart.  Here is which quotes are    *)
(* live; Rating has their amounts.                                         *)
(***************************************************************************)
EXTENDS Naturals, FiniteSets

CONSTANTS
    Fps,        \* freight providers
    Allied,     \* those whose quotes may be hidden
    Rounds,     \* slots for rounds in progress at the same time
    MaxQuotes,  \* bound: quotes ever made
    MaxFailures \* bound: rounds and scans that fail half way

ASSUME QuotingAssumption ==
    Allied \subseteq Fps /\ {MaxQuotes, MaxFailures} \subseteq Nat

VARIABLES
    quotes,     \* API_booking_quotes of the booking
    made,       \* how many there ever were
    chosen,     \* api_booking_quote, 0 for none
    rounds,     \* the rounds in progress
    failures

quotingVars == <<quotes, made, chosen, rounds, failures>>

NoRound == "none"

\* fit says that the page may choose the quote: it is neither by air nor a row
\* of Deliver-ME and the like, and of the FP the booking is tied to, if it is.
\* by is the round that asked for the quote, none for a copy.
Quote(Sets) ==
    [id : Nat, fp : Fps, status : Sets, fit : BOOLEAN, used : BOOLEAN, by : Rounds \cup {NoRound}]

Live == {q \in quotes : ~q.used}
LiveIn(status) == {q \in Live : q.status = status}
ChosenQuotes == {q \in quotes : q.id = chosen}

\* A round: what started it, the sets it prices, those that have lines, the quotes
\* it has copies of, whether its copy of the booking is booked, and whether it has
\* met no other round.
Idle == [pc |-> "idle", kind |-> "none", sets |-> {}, packed |-> {}, copies |-> {},
         booked |-> FALSE, alone |-> FALSE]

Round(Sets) ==
    [pc : {"idle", "collect", "after", "select"}, kind : {"none", "page", "scan"},
     sets : SUBSET Sets, packed : SUBSET Sets, copies : SUBSET Nat,
     booked : BOOLEAN, alone : BOOLEAN]

InProgress == {r \in Rounds : rounds[r].pc # "idle"}
Quiet == InProgress = {}

InitQuoting ==
    /\ quotes = {} /\ made = 0 /\ chosen = 0
    /\ rounds = [r \in Rounds |-> Idle]
    /\ failures = 0

End(r) == rounds' = [rounds EXCEPT ![r] = Idle]

-----------------------------------------------------------------------------
(* A round.                                                                *)

\* Slip: the quotes of earlier rounds stay.
KeptQuotes(sets) == quotes

\* Old quotes of the sets to be priced are marked as used.
Retired(sets) == {[q EXCEPT !.used = @ \/ q.status \in sets] : q \in quotes}

\* pricing: threads for the sets that have lines.
Begin(r, kind, sets, packed, booked) ==
    /\ rounds[r].pc = "idle"
    /\ quotes' = Retired(sets)
    /\ rounds' = [s \in Rounds |->
           IF s # r THEN [rounds[s] EXCEPT !.alone = FALSE]
           ELSE [pc |-> "collect", kind |-> kind, sets |-> sets, packed |-> sets \cap packed,
                 copies |-> {}, booked |-> booked, alone |-> Quiet]]

\* A thread saves a quote.  An FP may have several threads, one for each account
\* or service, and a thread several quotes, one for each service it was offered.
Answer(r) ==
    /\ rounds[r].pc = "collect" /\ made < MaxQuotes
    /\ made' = made + 1
    /\ \E status \in rounds[r].packed, fp \in Fps, fit \in BOOLEAN :
          quotes' = quotes \cup
              {[id |-> made', fp |-> fp, status |-> status, fit |-> fit, used |-> FALSE, by |-> r]}
    /\ UNCHANGED <<chosen, rounds, failures>>

\* When all threads are done: _after_process reads ALL live quotes, whichever
\* round and set they are of, and works on copies.
AfterReads(r) ==
    /\ rounds[r].pc = "collect"
    /\ rounds' = [rounds EXCEPT ![r].pc = "after", ![r].copies = {q.id : q \in Live}]
    /\ UNCHANGED <<quotes, made, chosen, failures>>

\* gen_surcharges, interpolate_gaps and apply_markups save copies, some of them
\* more than once: a quote that another round has retired meanwhile is live again.
AfterSaves(r) ==
    /\ rounds[r].pc = "after"
    /\ \E id \in rounds[r].copies : \E left \in {rounds[r].copies, rounds[r].copies \ {id}} :
          /\ quotes' = {IF q.id = id THEN [q EXCEPT !.used = FALSE] ELSE q : q \in quotes}
          /\ rounds' = [rounds EXCEPT ![r].copies = left]
    /\ UNCHANGED <<made, chosen, failures>>

\* _confirm_visible hides a quote of Allied, on its own copy (which is saved so
\* from then on) or, once the list was replaced, on another one.
AfterHides(r) ==
    /\ rounds[r].pc = "after"
    /\ \E id \in rounds[r].copies : \E left \in {rounds[r].copies, rounds[r].copies \ {id}} :
          /\ quotes' = {[q EXCEPT !.used = @ \/ (q.id = id /\ q.fp \in Allied)] : q \in quotes}
          /\ rounds' = [rounds EXCEPT ![r].copies = left]
    /\ UNCHANGED <<made, chosen, failures>>

\* The quotes of the round's sets have all been saved; those of others are when
\* they are on the list.  For JasonL in South Australia all of Allied is hidden.
AfterEnds(r) ==
    /\ rounds[r].pc = "after"
    /\ \A q \in quotes : q.id \in rounds[r].copies => q.status \notin rounds[r].packed
    /\ \E hidden \in {{}, Allied} :
          quotes' = {[q EXCEPT !.used = @ \/ q.fp \in hidden] : q \in quotes}
    /\ rounds' = [rounds EXCEPT ![r].pc = "select", ![r].copies = {}]
    /\ UNCHANGED <<made, chosen, failures>>

After(r) == AfterReads(r) \/ AfterSaves(r) \/ AfterHides(r) \/ AfterEnds(r)

\* _after_process raises, or the choice does (Rating has how): the page answers
\* with an error and the background thread dies.
AfterFails(r) ==
    /\ rounds[r].pc # "idle" /\ failures < MaxFailures
    /\ failures' = failures + 1
    /\ End(r)
    /\ UNCHANGED <<quotes, made, chosen>>

\* Slip: the quotes that earlier rounds retired are considered, too.
PageSelectUsed(r) ==
    LET q == rounds[r]
    IN  /\ q.pc = "select" /\ q.kind = "page"
        /\ IF q.booked \/ quotes = {} THEN UNCHANGED chosen
           ELSE \E best \in quotes : chosen' = best.id
        /\ End(r)
        /\ UNCHANGED <<quotes, made, failures>>

\* The page's choice, auto_select_pricing: the best of the live quotes that
\* are fit, unless the booking was booked when the round began.  Without one it
\* keeps the quote it had.
PageSelect(r) ==
    LET q == rounds[r]
    IN  /\ q.pc = "select" /\ q.kind = "page"
        /\ IF q.booked \/ {p \in Live : p.fit} = {} THEN UNCHANGED chosen
           ELSE \E best \in Live : best.fit /\ chosen' = best.id
        /\ End(r)
        /\ UNCHANGED <<quotes, made, failures>>

\* quoting_in_bg: the best quote of the scanned set, none if there are others
\* only or if none will do (a quote by air may do here).
ScanSelect(r) ==
    LET q == rounds[r]
    IN  /\ q.pc = "select" /\ q.kind = "scan"
        /\ CASE Live = {} -> UNCHANGED chosen
             [] Live # {} /\ LiveIn("scanned") = {} -> chosen' = 0
             [] OTHER -> \/ \E best \in LiveIn("scanned") : chosen' = best.id
                         \/ (\A p \in LiveIn("scanned") : ~p.fit) /\ chosen' = 0
        /\ End(r)
        /\ UNCHANGED <<quotes, made, failures>>

-----------------------------------------------------------------------------
(* Properties.                                                             *)

\* Rounds that overlap leave quotes of each other live, and bring retired ones
\* back by saving copies of them; rounds that fail leave quotes nobody chose from.
\* The next round of the sets that meets no other clears all of it away: what is
\* live and may be chosen is its own (or was copied for the scanned set).
LoneRoundClearsUp ==
    \A r \in InProgress : rounds[r].alone =>
        \A q \in Live : q.status \in rounds[r].sets => q.by \in {r, NoRound}

=============================================================================

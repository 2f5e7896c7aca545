------------------------------ MODULE BokMapping ------------------------------
(***************************************************************************)
(* How an order becomes a booking.  Clients push an order as a header with *)
(* lines (bok_1, bok_2), whose success code says how far it is; a cron job *)
(* (mapBokToBooking) maps the headers that are ready to bookings, ten at a *)
(* time.  An option row of the database says whether a run is under way.   *)
(*                                                                         *)
(* Clients and runs work on copies of the rows they have read.  One header *)
(* is mapped in one transaction; everything else is statement by statement.*)
(***************************************************************************)
EXTENDS Naturals, Sequences, FiniteSets, FiniteSetsExt

CONSTANTS
    Headers,      \* the orders
    Runs,         \* calls of mapBokToBooking at the same time
    Clients,      \* calls of the client API at the same time
    Kinds,        \* the client calls that may be made
    PushCodes,    \* the success codes that orders are pushed with
    Poison,       \* headers whose mapping raises
    Consigned,    \* orders that come with a consignment number
    Sinv,         \* the invoice number of an order, 0 for none
    BatchSize,    \* headers mapped per run
    Grace,        \* time a run is waited for
    Day,          \* length of a day: timedelta.seconds leaves whole days out
    MaxBookings,  \* bound: bookings
    MaxCrashes    \* bound: runs that die half way

Gone == 0         \* no such row
Mapped == 1       \* BOK_SUCCESS_1
Quoting == 3      \* BOK_SUCCESS_3
Accepted == 4     \* BOK_SUCCESS_4
Codes == 0..5

CallKinds == {"push", "post", "quote", "book", "select", "cancel", "duplicate"}

ASSUME KindsAssumption == Kinds \subseteq CallKinds /\ PushCodes \subseteq {2, 5}
ASSUME OrdersAssumption == /\ IsFiniteSet(Headers) /\ Poison \cup Consigned \subseteq Headers
                           /\ Sinv \in [Headers -> Nat]
ASSUME BoundsAssumption == {Grace, MaxBookings, MaxCrashes} \subseteq Nat
                           /\ Day \in Nat \ {0} /\ BatchSize \in Nat \ {0}

VARIABLES
    boks,       \* order -> its header and the success code of its lines
    pushed,     \* the orders that have been pushed
    priced,     \* the orders that have prices to choose from
    bookings,   \* dme_bookings, in the order of their ids
    option,     \* the option row of the mapping
    runs,       \* the runs in progress
    calls,      \* the client calls in progress
    now,        \* the time of day
    crashes

clientVars == <<boks, pushed, priced, calls>>
runVars == <<option, runs, crashes>>
vars == <<boks, pushed, priced, bookings, option, runs, calls, now, crashes>>

-----------------------------------------------------------------------------
(* Rows.                                                                   *)

NoOrder == "none"     \* a booking that came from no order
BookingStatuses == {"Ready for booking", "Booked", "Picking", "Imported / Integrated", "On Hold"}

\* A header: its success code and whether a price has been chosen for it.
Header == [code : Codes, quote : BOOLEAN]
Bok == [header : Header, lines : Codes]
NoBok == [header |-> [code |-> Gone, quote |-> FALSE], lines |-> Gone]

Booking == [header : Headers \cup {NoOrder}, visual : Nat,
            status : BookingStatuses, lines : BOOLEAN]

\* Headers read by a run, as they were then.
Read == [order : Headers, copy : Header]

Run == [pc : {"idle", "claim", "scan", "map", "hold", "release"},
        end   : 0..(Day - 1),    \* end_time as the run has read it
        start : Nat,             \* the first visual id of the batch
        count : Nat,             \* headers in the batch
        todo  : SUBSET Read]     \* those still to be mapped
NoRun == [pc |-> "idle", end |-> 0, start |-> 0, count |-> 0, todo |-> {}]

Call == [pc : {"idle", "addLines", "quote", "acceptHeader", "acceptLines", "bookSave",
               "bookLines", "bookHeader", "selectSave", "cancelLines", "cancelHeader", "dupInsert"},
         order  : Headers \cup {NoOrder},
         copy   : Header,        \* the header as the call has read it
         visual : Nat]           \* the visual id a duplicate will get
NoCall == [pc |-> "idle", order |-> NoOrder, copy |-> NoBok.header, visual |-> 0]

\* The codes that the mapping looks for.
ReadyCodes == {2, 4, 5}

\* Slip: a status that the tables do not know.
StatusMisspelt(h, code) ==
    CASE code = 5 -> "Imported/Integrated" [] OTHER -> "Ready for booking"

StatusOf(h, code) ==
    CASE code = 2 /\ h \in Consigned -> "Booked"
      [] code = 4                    -> "Picking"
      [] code = 5                    -> "Imported / Integrated"
      [] OTHER                       -> "Ready for booking"

Code(h) == boks[h].header.code
Copies(S) == {[order |-> h, copy |-> boks[h].header] : h \in S}

SinvOf(b) == IF b.header = NoOrder THEN 0 ELSE Sinv[b.header]

BookingsOf(h) == {i \in 1..Len(bookings) : bookings[i].header = h}

\* The next visual id: one more than the largest.
NextVisual == 1 + Max({0} \cup {bookings[i].visual : i \in 1..Len(bookings)})

Init ==
    /\ boks = [h \in Headers |-> NoBok]
    /\ pushed = {} /\ priced = {}
    /\ bookings = <<>>
    /\ option = [running |-> FALSE, end |-> 0]
    /\ runs = [r \in Runs |-> NoRun]
    /\ calls = [c \in Clients |-> NoCall]
    /\ now = 0
    /\ crashes = 0

-----------------------------------------------------------------------------
(* The client API.                                                         *)

Begin(c, pc, h, copy, visual) ==
    /\ calls[c].pc = "idle"
    /\ calls' = [calls EXCEPT ![c] = [pc |-> pc, order |-> h, copy |-> copy, visual |-> visual]]

ReadHeader(c, pc, h) == Code(h) # Gone /\ Begin(c, pc, h, boks[h].header, 0)

Goto(c, pc) == calls' = [calls EXCEPT ![c].pc = pc]
Return(c) == calls' = [calls EXCEPT ![c] = NoCall]

\* A call saves all of its copy of the header, also if the row is gone by now.
SaveHeader(c, copy) == boks' = [boks EXCEPT ![calls[c].order].header = copy]

\* A new order, its header and its lines with one code.
NewBok(code, lines) == [header |-> [code |-> code, quote |-> FALSE], lines |-> lines]

\* push_boks: the header and its lines in one transaction, ready (2) or
\* imported (5), depending on the client.
Push(h) ==
    /\ "push" \in Kinds /\ h \notin pushed
    /\ \E code \in PushCodes : boks' = [boks EXCEPT ![h] = NewBok(code, code)]
    /\ pushed' = pushed \cup {h}
    /\ UNCHANGED <<priced, bookings, runVars, calls, now>>

\* create for BioPak: a header that is ready, its lines come with further calls.
Post(c, h) ==
    /\ "post" \in Kinds /\ h \notin pushed
    /\ boks' = [boks EXCEPT ![h] = NewBok(2, Gone)]
    /\ pushed' = pushed \cup {h}
    /\ Begin(c, "addLines", h, NewBok(2, Gone).header, 0)
    /\ UNCHANGED <<priced, bookings, runVars, now>>

AddLines(c) ==
    /\ calls[c].pc = "addLines"
    /\ boks' = [boks EXCEPT ![calls[c].order].lines = 2]
    /\ Return(c)
    /\ UNCHANGED <<pushed, priced, bookings, runVars, now>>

\* push_boks of the clients with prices (Jason L in a background thread).  The
\* prices can be seen, and one chosen, as they come in.
PushQuoted(c, h) ==
    /\ "quote" \in Kinds /\ h \notin pushed
    /\ boks' = [boks EXCEPT ![h] = NewBok(Quoting, Quoting)]
    /\ pushed' = pushed \cup {h} /\ priced' = priced \cup {h}
    /\ Begin(c, "quote", h, NewBok(Quoting, Quoting).header, 0)
    /\ UNCHANGED <<bookings, runVars, now>>

\* When the prices are in, the header is saved as it was pushed, with the best
\* price or without one, and once more with other fields.  Plum's orders that
\* need no choice are then accepted at once.
QuoteSave(c) ==
    LET q == calls[c]
    IN  /\ q.pc = "quote"
        /\ \E quote \in {q.copy.quote, TRUE}, pc \in {"quote", "acceptHeader"} :
              /\ pc = "acceptHeader" => quote
              /\ SaveHeader(c, [q.copy EXCEPT !.quote = quote])
              /\ calls' = [calls EXCEPT ![c].pc = pc, ![c].copy.quote = quote]
        /\ UNCHANGED <<pushed, priced, bookings, runVars, now>>

QuoteDone(c) ==
    /\ calls[c].pc = "quote"
    /\ Return(c)
    /\ UNCHANGED <<boks, pushed, priced, bookings, runVars, now>>

AcceptHeader(c) ==
    /\ calls[c].pc = "acceptHeader"
    /\ SaveHeader(c, [calls[c].copy EXCEPT !.code = Accepted])
    /\ Goto(c, "acceptLines")
    /\ UNCHANGED <<pushed, priced, bookings, runVars, now>>

\* The lines of h that there are take a code.
MarkLines(h, code) ==
    boks' = IF boks[h].lines = Gone THEN boks ELSE [boks EXCEPT ![h].lines = code]

AcceptLines(c) ==
    /\ calls[c].pc = "acceptLines"
    /\ MarkLines(calls[c].order, Accepted)
    /\ Return(c)
    /\ UNCHANGED <<pushed, priced, bookings, runVars, now>>

\* book, for an order with a chosen price: saves the header as it was read, then
\* marks the lines, then the header.
BookLoad(c, h) ==
    /\ "book" \in Kinds /\ boks[h].header.quote
    /\ ReadHeader(c, "bookSave", h)
    /\ UNCHANGED <<boks, pushed, priced, bookings, runVars, now>>

BookSave(c) ==
    /\ calls[c].pc = "bookSave"
    /\ SaveHeader(c, calls[c].copy)
    /\ Goto(c, "bookLines")
    /\ UNCHANGED <<pushed, priced, bookings, runVars, now>>

BookLines(c) ==
    /\ calls[c].pc = "bookLines"
    /\ MarkLines(calls[c].order, Accepted)
    /\ Goto(c, "bookHeader")
    /\ UNCHANGED <<pushed, priced, bookings, runVars, now>>

BookHeader(c) ==
    /\ calls[c].pc = "bookHeader"
    /\ SaveHeader(c, [calls[c].copy EXCEPT !.code = Accepted])
    /\ Return(c)
    /\ UNCHANGED <<pushed, priced, bookings, runVars, now>>

\* select_pricing and update_freight_options: read the header, save all of it.
SelectLoad(c, h) ==
    /\ "select" \in Kinds
    /\ ReadHeader(c, "selectSave", h)
    /\ UNCHANGED <<boks, pushed, priced, bookings, runVars, now>>

SelectSave(c) ==
    LET q == calls[c]
    IN  /\ q.pc = "selectSave"
        /\ \E quote \in {q.copy.quote, q.order \in priced \/ q.copy.quote} :
              SaveHeader(c, [q.copy EXCEPT !.quote = quote])
        /\ Return(c)
        /\ UNCHANGED <<pushed, priced, bookings, runVars, now>>

\* cancel: deletes the lines, then the header, whatever its code.
CancelLoad(c, h) ==
    /\ "cancel" \in Kinds
    /\ ReadHeader(c, "cancelLines", h)
    /\ UNCHANGED <<boks, pushed, priced, bookings, runVars, now>>

CancelLines(c) ==
    /\ calls[c].pc = "cancelLines"
    /\ boks' = [boks EXCEPT ![calls[c].order].lines = Gone]
    /\ Goto(c, "cancelHeader")
    /\ UNCHANGED <<pushed, priced, bookings, runVars, now>>

CancelHeader(c) ==
    /\ calls[c].pc = "cancelHeader"
    /\ boks' = [boks EXCEPT ![calls[c].order].header = NoBok.header]
    /\ Return(c)
    /\ UNCHANGED <<pushed, priced, bookings, runVars, now>>

\* duplicate_booking: reads the largest visual id, inserts the copy later.
DupLoad(c) ==
    /\ "duplicate" \in Kinds /\ bookings # <<>>
    /\ Begin(c, "dupInsert", NoOrder, NoBok.header, NextVisual)
    /\ UNCHANGED <<boks, pushed, priced, bookings, runVars, now>>

DupInsert(c) ==
    /\ calls[c].pc = "dupInsert"
    /\ Len(bookings) < MaxBookings
    /\ bookings' = Append(bookings, [header |-> NoOrder, visual |-> calls[c].visual,
                                     status |-> "Ready for booking", lines |-> TRUE])
    /\ Return(c)
    /\ UNCHANGED <<boks, pushed, priced, runVars, now>>

-----------------------------------------------------------------------------
(* mapBokToBooking.                                                        *)

\* Slip: a run that is under way is waited for without end.
WaitsForEver(r) ==
    /\ runs[r].pc = "idle"
    /\ ~option.running
    /\ runs' = [runs EXCEPT ![r] = [NoRun EXCEPT !.pc = "claim", !.end = option.end]]
    /\ UNCHANGED <<clientVars, bookings, option, now, crashes>>

\* The option is read: a run goes ahead unless another is under way, which it
\* is taken to be for Grace after the last run's end, not after its start.
ReadOption(r) ==
    /\ runs[r].pc = "idle"
    /\ ~option.running \/ (now + Day - option.end) % Day > Grace
    /\ runs' = [runs EXCEPT ![r] = [NoRun EXCEPT !.pc = "claim", !.end = option.end]]
    /\ UNCHANGED <<clientVars, bookings, option, now, crashes>>

Claim(r) ==
    /\ runs[r].pc = "claim"
    /\ option' = [running |-> TRUE, end |-> runs[r].end]
    /\ runs' = [runs EXCEPT ![r].pc = "scan"]
    /\ UNCHANGED <<clientVars, bookings, now, crashes>>

Ready == {h \in Headers : Code(h) \in ReadyCodes}

\* Slip: the batch starts at the largest visual id.
ScansLow(r) ==
    /\ runs[r].pc = "scan"
    /\ \E batch \in SUBSET Ready :
          /\ Cardinality(batch) = Min({BatchSize, Cardinality(Ready)})
          /\ runs' = [runs EXCEPT ![r] =
                 [@ EXCEPT !.pc = "map", !.start = NextVisual - 1, !.count = Cardinality(batch),
                           !.todo = Copies(batch)]]
    /\ UNCHANGED <<clientVars, bookings, option, now, crashes>>

\* The next visual id, then the batch: as many headers as there are, up to
\* BatchSize, and in no particular order.
Scan(r) ==
    /\ runs[r].pc = "scan"
    /\ \E batch \in SUBSET Ready :
          /\ Cardinality(batch) = Min({BatchSize, Cardinality(Ready)})
          /\ runs' = [runs EXCEPT ![r] =
                 [@ EXCEPT !.pc = "map", !.start = NextVisual, !.count = Cardinality(batch),
                           !.todo = Copies(batch)]]
    /\ UNCHANGED <<clientVars, bookings, option, now, crashes>>

\* The booking that a run makes of a header it has read.
BookingOf(r, q) ==
    [header |-> q.order,
     visual |-> runs[r].start + runs[r].count - Cardinality(runs[r].todo),
     status |-> StatusOf(q.order, q.copy.code),
     lines  |-> boks[q.order].lines \in ReadyCodes]

\* Slip: the header keeps its code.
MapsUnmarked(r, q) ==
    /\ runs[r].pc = "map" /\ q \in runs[r].todo
    /\ runs' = [runs EXCEPT ![r].todo = @ \ {q}]
    /\ bookings' = Append(bookings, BookingOf(r, q))
    /\ Len(bookings) < MaxBookings
    /\ UNCHANGED <<boks, pushed, priced, calls, option, now, crashes>>

\* Slip: the header is marked outside the transaction that may fail.
MapsPoison(r, q) ==
    /\ runs[r].pc = "map" /\ q \in runs[r].todo
    /\ runs' = [runs EXCEPT ![r].todo = @ \ {q}]
    /\ IF q.order \in Poison THEN bookings' = bookings
       ELSE bookings' = Append(bookings, BookingOf(r, q))
    /\ Len(bookings) < MaxBookings
    /\ boks' = [boks EXCEPT ![q.order].header = [q.copy EXCEPT !.code = Mapped]]
    /\ UNCHANGED <<pushed, priced, calls, option, now, crashes>>

\* mapBok, one transaction: the booking and the lines that are ready, then the
\* codes.  The copy of the header is saved even if the row is gone by now.  A
\* header whose mapping raises is left as it was.
MapBok(r, q) ==
    /\ runs[r].pc = "map" /\ q \in runs[r].todo
    /\ runs' = [runs EXCEPT ![r].todo = @ \ {q}]
    /\ IF q.order \in Poison
       THEN UNCHANGED <<boks, bookings>>
       ELSE /\ Len(bookings) < MaxBookings
            /\ bookings' = Append(bookings, BookingOf(r, q))
            /\ boks' = [boks EXCEPT ![q.order] =
                   [header |-> [q.copy EXCEPT !.code = Mapped],
                    lines  |-> IF @.lines \in ReadyCodes THEN Mapped ELSE @.lines]]
    /\ UNCHANGED <<pushed, priced, calls, option, now, crashes>>

Mapping(r) == \E q \in runs[r].todo : MapBok(r, q)

BatchDone(r) ==
    /\ runs[r].pc = "map" /\ runs[r].todo = {}
    /\ runs' = [runs EXCEPT ![r].pc = "hold"]
    /\ UNCHANGED <<clientVars, bookings, option, now, crashes>>

\* The last booking of each invoice among those in S.
LastOfEach(S) ==
    {i \in S : \A j \in S : SinvOf(bookings[j]) = SinvOf(bookings[i]) => j <= i}

\* Slip: only later batches are looked at.
HeldLater(start, end) ==
    LastOfEach({i \in 1..Len(bookings) :
                  bookings[i].visual > end /\ SinvOf(bookings[i]) # 0})

\* error_bookings_1: after the first of the batch, with an invoice of the batch;
\* error_bookings_2: in the batch, with an invoice that occurs there twice.
Held(start, end) ==
    LET batch == {i \in 1..Len(bookings) :
                    bookings[i].visual \in start..end /\ SinvOf(bookings[i]) # 0}
        sinvs == {SinvOf(bookings[i]) : i \in batch}
        later == {i \in 1..Len(bookings) :
                    bookings[i].visual > start /\ SinvOf(bookings[i]) \in sinvs}
        twice == {i \in batch : \E j \in batch \ {i} :
                    SinvOf(bookings[i]) = SinvOf(bookings[j])}
    IN  LastOfEach(later) \cup LastOfEach(twice)

Hold(r) ==
    LET held == Held(runs[r].start, runs[r].start + runs[r].count - 1)
    IN  /\ runs[r].pc = "hold"
        /\ bookings' = [i \in 1..Len(bookings) |->
               IF i \in held THEN [bookings[i] EXCEPT !.status = "On Hold"] ELSE bookings[i]]
        /\ runs' = [runs EXCEPT ![r].pc = "release"]
        /\ UNCHANGED <<clientVars, option, now, crashes>>

Release(r) ==
    /\ runs[r].pc = "release"
    /\ option' = [running |-> FALSE, end |-> now]
    /\ runs' = [runs EXCEPT ![r] = NoRun]
    /\ UNCHANGED <<clientVars, bookings, now, crashes>>

\* A run dies, or raises: the option row stays as it is.
Crash(r) ==
    /\ runs[r].pc # "idle"
    /\ crashes < MaxCrashes
    /\ crashes' = crashes + 1
    /\ runs' = [runs EXCEPT ![r] = NoRun]
    /\ UNCHANGED <<clientVars, bookings, option, now>>

Tick ==
    /\ now' = (now + 1) % Day
    /\ UNCHANGED <<clientVars, bookings, runVars>>

-----------------------------------------------------------------------------
ClientStep(c) ==
    \/ AddLines(c) \/ QuoteSave(c) \/ QuoteDone(c) \/ AcceptHeader(c) \/ AcceptLines(c)
    \/ BookSave(c) \/ BookLines(c) \/ BookHeader(c)
    \/ SelectSave(c) \/ CancelLines(c) \/ CancelHeader(c) \/ DupInsert(c)

RunStep(r) ==
    \/ Claim(r) \/ Scan(r) \/ Mapping(r) \/ BatchDone(r) \/ Hold(r) \/ Release(r)

Next ==
    \/ \E h \in Headers : Push(h)
    \/ \E c \in Clients, h \in Headers :
          Post(c, h) \/ PushQuoted(c, h) \/ BookLoad(c, h) \/ SelectLoad(c, h) \/ CancelLoad(c, h)
    \/ \E c \in Clients : DupLoad(c) \/ ClientStep(c)
    \/ \E r \in Runs : ReadOption(r) \/ RunStep(r) \/ Crash(r)
    \/ Tick

Spec == Init /\ [][Next]_vars

\* Calls and runs proceed once begun, time passes, and the cron calls the
\* mapping often enough not to miss the time when it would go ahead.
FairSpec ==
    /\ Spec
    /\ \A c \in Clients : WF_vars(ClientStep(c))
    /\ \A r \in Runs : WF_vars(RunStep(r)) /\ SF_vars(ReadOption(r))
    /\ WF_vars(Tick)

-----------------------------------------------------------------------------
(* Properties.                                                             *)

TypeOK ==
    /\ boks \in [Headers -> Bok]
    /\ pushed \subseteq Headers /\ priced \subseteq Headers
    /\ bookings \in Seq(Booking)
    /\ option \in [running : BOOLEAN, end : 0..(Day - 1)]
    /\ runs \in [Runs -> Run]
    /\ calls \in [Clients -> Call]
    /\ now \in 0..(Day - 1) /\ crashes \in Nat

\* An order that is marked as mapped has its booking, whatever else saves the
\* header, or a copy of it, and however many runs overlap or die.
MappedIsBooked == \A h \in Headers : Code(h) = Mapped => BookingsOf(h) # {}

\* One run at a time gives every booking a visual id of its own, also when a
\* header of the batch fails or the run dies and another takes over.
VisualsDistinct ==
    \A i, j \in 1..Len(bookings) : bookings[i].visual = bookings[j].visual => i = j

\* When a run is done, of two bookings of its batch with one invoice the later
\* is on hold.
Batch(r) == {i \in 1..Len(bookings) :
                bookings[i].visual \in runs[r].start..(runs[r].start + runs[r].count - 1)}
DuplicatesHeld ==
    \A r \in Runs : runs[r].pc = "release" =>
        \A i, j \in Batch(r) :
            i < j /\ SinvOf(bookings[i]) = SinvOf(bookings[j]) /\ SinvOf(bookings[j]) # 0
                => \E k \in Batch(r) : /\ k >= j /\ SinvOf(bookings[k]) = SinvOf(bookings[j])
                                       /\ bookings[k].status = "On Hold"

\* The orders as a client sees them: booked once and with their lines.
Progress(h) ==
    IF h \notin pushed THEN "none"
    ELSE IF BookingsOf(h) = {} THEN "placed"
    ELSE IF Cardinality(BookingsOf(h)) = 1 /\ \A i \in BookingsOf(h) : bookings[i].lines
    THEN "booked" ELSE "broken"

Intake == INSTANCE OrderIntake WITH Orders <- Headers, orders <- [h \in Headers |-> Progress(h)]

\* Orders that are pushed ready become one booking with all its lines, whatever
\* dies on the way.
BookedOnceWithLines == Intake!Spec

\* An order that is ready gets its booking, if its mapping does not raise.
ReadyGetsBooked ==
    \A h \in Headers \ Poison : Code(h) \in ReadyCodes ~> BookingsOf(h) # {}

=============================================================================

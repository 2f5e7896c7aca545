---------------------------- MODULE BookingStatus ----------------------------
(***************************************************************************)
(* The status life cycle of one booking: its row of dme_bookings, its      *)
(* status history (Dme_status_history) and the web requests and background *)
(* threads that change them.                                               *)
(*                                                                         *)
(* A request reads the whole row into memory, works on the copy, possibly  *)
(* for minutes while a freight provider (FP) answers, and writes the copy  *)
(* back.  No request takes a lock and no request runs in a transaction:    *)
(* each database statement is a step of its own.                           *)
(***************************************************************************)
EXTENDS Naturals, Sequences, FiniteSets

CONSTANTS
    Requests,     \* slots for requests in progress at the same time
    Kinds,        \* the handlers that may be called
    Targets,      \* statuses that staff and scripts set
    FpStatuses,   \* what the FP's events map to (NoStatus: no mapping rule)
    Origins,      \* statuses a booking may be created with
    MaxHistory,   \* bound: entries of the status history
    MaxLog,       \* bound: events in the FP's tracking log
    MaxPickup,    \* bound: consignments booked with the FP
    MaxCrashes    \* bound: requests that die half way

NoStatus == "None"
Statuses == {"Ready for booking", "Ready for Booking", "Picking", "Picked",
             "Imported / Integrated", "Booked", "In Transit", "Delivered",
             "Closed", "Cancelled", "Pickup Rebooked", "Pickup Rebooked(Last)"}
AnyStatus == Statuses \cup {NoStatus}

\* Handlers that go through status_history.create, and those that do not.
CreateKinds == {"book", "rebook", "editBook", "fpCancel", "opCancel", "change",
                "saveHistory", "manual", "scan", "ready", "track"}
DirectKinds == {"plainBook", "form", "editHistory"}

ASSUME KindsAssumption == Kinds \subseteq CreateKinds \cup DirectKinds
ASSUME TargetsAssumption == Targets \subseteq Statuses /\ Origins \subseteq Statuses
ASSUME FpAssumption == FpStatuses \subseteq AnyStatus
ASSUME BoundsAssumption == {MaxHistory, MaxLog, MaxPickup, MaxCrashes} \subseteq Nat

VARIABLES
    row,          \* the booking's row in the database
    history,      \* its Dme_status_history, oldest first
    requests,     \* the requests in progress
    fpLog,        \* the FP's tracking events, oldest first
    seen,         \* how many of them FP_status_history holds
    live,         \* consignments booked with the FP and not cancelled there
    issued,       \* how many consignment ids the FP has given out
    crashes

bookingVars == <<row, history>>
fpVars == <<fpLog, live, issued>>
vars == <<row, history, requests, fpLog, seen, live, issued, crashes>>

-----------------------------------------------------------------------------
(* Types.                                                                  *)

NoCategory == "None"
Categories == {"Pre Booking", "Booked", "Transit", "Complete", "Cancelled", NoCategory}

\* Slip: a status without a category is taken for its own category.
StatusAsCategory(s) ==
    CASE s = "Delivered" -> "Complete"
      [] s \in {"Closed", "Cancelled"} -> "Cancelled"
      [] OTHER -> s

\* Utl_dme_status: which category a status belongs to.
Category(s) ==
    CASE s \in {"Ready for booking", "Ready for Booking", "Picking", "Picked",
                "Imported / Integrated"} -> "Pre Booking"
      [] s = "Booked" -> "Booked"
      [] s = "In Transit" -> "Transit"
      [] s = "Delivered" -> "Complete"
      [] s \in {"Closed", "Cancelled"} -> "Cancelled"
      [] OTHER -> NoCategory

Row == [status   : AnyStatus,    \* b_status
        category : Categories,   \* b_status_category
        lock     : BOOLEAN,      \* z_lock_status
        booked   : BOOLEAN,      \* b_dateBookedDate is set
        given    : BOOLEAN,      \* b_given_to_transport_date_time is set
        pickup   : Nat]          \* fk_fp_pickup_id, 0 for none

Entry == [old : AnyStatus, last : AnyStatus]

Phases == {"idle", "call", "print", "create", "record", "settle", "finish",
           "requote", "poll", "form", "editBooking", "editEntry"}

Request == [pc   : Phases,
            kind : CreateKinds \cup DirectKinds \cup {"none"},
            mem  : Row,                \* the copy of the row it works on
            todo : Seq(AnyStatus),     \* calls of create() still to make
            old  : AnyStatus,          \* create(): old_status
            new  : AnyStatus,          \* create(): new_status
            log  : Seq(AnyStatus),     \* the FP's answer to a tracking call
            at   : Nat]                \* the history entry being edited

NoRow == [status |-> NoStatus, category |-> NoCategory, lock |-> FALSE,
          booked |-> FALSE, given |-> FALSE, pickup |-> 0]
Idle == [pc |-> "idle", kind |-> "none", mem |-> NoRow, todo |-> <<>>,
         old |-> NoStatus, new |-> NoStatus, log |-> <<>>, at |-> 0]

Busy == {r \in Requests : requests[r].pc # "idle"}
LastOf(s) == s[Len(s)]
StatusesOf(h) == {h[i].last : i \in 1..Len(h)}

-----------------------------------------------------------------------------
(* Reading and writing the row.                                            *)

\* Bookings.save() writes the fields in which the copy differs from the row as
\* it is now: afterwards the row IS the copy, whoever wrote it in between.
Save(r) == row' = requests[r].mem

\* Slip: no date is stamped.
Unstamped(before, copy) == copy

\* pre_save_handler runs after save() has chosen the fields to write, so the
\* booked date it stamps stays in the copy until that is saved once more.
Stamped(before, copy) ==
    [copy EXCEPT !.booked = @ \/ (before.status # copy.status /\ copy.status = "Booked")]

\* A handler starts by reading the row.  Each can add two entries of history:
\* the guard keeps room for them, it bounds the model and not the program.
MayStart(r, kind) ==
    /\ requests[r].pc = "idle"
    /\ kind \in Kinds
    /\ Len(history) + 2 * (Cardinality(Busy) + 1) <= MaxHistory

Fresh(kind, pc, todo) == [Idle EXCEPT !.pc = pc, !.kind = kind, !.mem = row, !.todo = todo]

Start(r, kind, pc, todo) ==
    /\ MayStart(r, kind)
    /\ requests' = [requests EXCEPT ![r] = Fresh(kind, pc, todo)]

End(r) == requests' = [requests EXCEPT ![r] = Idle]

\* Handlers that save their copy once more after the last create().
Trailing == {"book", "rebook", "editBook", "fpCancel", "change", "manual", "scan", "track"}

AfterCreate(q, todo) ==
    IF todo # <<>> THEN [q EXCEPT !.pc = "create", !.todo = todo]
    ELSE IF q.kind \in Trailing THEN [q EXCEPT !.pc = "finish", !.todo = todo]
    ELSE Idle

Init ==
    /\ \E s \in Origins :
          row = [NoRow EXCEPT !.status = s, !.category = Category(s)]
    /\ history = <<>>
    /\ requests = [r \in Requests |-> Idle]
    /\ fpLog = <<>> /\ seen = 0
    /\ live = {} /\ issued = 0
    /\ crashes = 0

-----------------------------------------------------------------------------
(* The handlers, up to their first call of create().                       *)

\* book_oper: refuses only a booking whose status is exactly "Booked".
BookLoad(r) ==
    /\ row.status \notin {"Booked", NoStatus}
    /\ Start(r, "book", "call", <<>>)
    /\ UNCHANGED <<bookingVars, fpVars, seen, crashes>>

\* rebook: refuses a booking that is ready for booking, in either spelling.
RebookLoad(r) ==
    /\ row.status \notin {"Ready for booking", "Ready for Booking", NoStatus}
    /\ Start(r, "rebook", "call", <<>>)
    /\ UNCHANGED <<bookingVars, fpVars, seen, crashes>>

\* edit_book: no condition on the status.
EditBookLoad(r) ==
    /\ Start(r, "editBook", "call", <<>>)
    /\ UNCHANGED <<bookingVars, fpVars, seen, crashes>>

\* The FP's cancel_book: not "Closed" yet, and booked.
FpCancelLoad(r) ==
    /\ row.status # "Closed" /\ row.booked
    /\ Start(r, "fpCancel", "call", <<>>)
    /\ UNCHANGED <<bookingVars, fpVars, seen, crashes>>

TrackLoad(r) ==
    /\ Start(r, "track", "call", <<>>)
    /\ UNCHANGED <<bookingVars, fpVars, seen, crashes>>

\* book with an FP without API credentials; which FP, says the caller.
PlainBookLoad(r) ==
    /\ Start(r, "plainBook", "finish", <<>>)
    /\ UNCHANGED <<bookingVars, fpVars, seen, crashes>>

\* Plum's orders are renamed and saved before the status is set.
OpCancelLoad(r) ==
    /\ \/ Start(r, "opCancel", "create", <<"Cancelled">>)
       \/ Start(r, "opCancel", "print", <<>>)
    /\ UNCHANGED <<bookingVars, fpVars, seen, crashes>>

\* change_bookings_status takes any status; a pick-up comes with its time.
ChangeLoad(r) ==
    /\ MayStart(r, "change")
    /\ \E s \in Targets : requests' = [requests EXCEPT ![r] =
           [Fresh("change", "create", <<s>>) EXCEPT !.mem.given = @ \/ s = "In Transit"]]
    /\ UNCHANGED <<bookingVars, fpVars, seen, crashes>>

\* save_status_history, by staff or by a script that has mapped an FP's status
\* (an FP that scripts report for is not polled: their FP events are left out).
SaveHistoryLoad(r) ==
    /\ \E s \in Targets : Start(r, "saveHistory", "create", <<s>>)
    /\ UNCHANGED <<bookingVars, fpVars, seen, crashes>>

ManualBookLoad(r) ==
    /\ Start(r, "manual", "create", <<"Booked">>)
    /\ UNCHANGED <<bookingVars, fpVars, seen, crashes>>

\* The warehouse's ready(): an order with any other status (a picked one too) is
\* said to be ready already.
ReadyLoad(r) ==
    /\ row.status \in {"Picking", "Ready for Booking"}
    /\ Start(r, "ready", "create", <<"Ready for Booking">>)
    /\ UNCHANGED <<bookingVars, fpVars, seen, crashes>>

\* The warehouse's scanned(): the labels are built before the first save.
ScanLoad(r) ==
    /\ Start(r, "scan", "print", <<>>)
    /\ UNCHANGED <<bookingVars, fpVars, seen, crashes>>

ScanSave(r) ==
    LET q == requests[r]
        todo == IF ~q.mem.booked /\ q.mem.status # "Picked" THEN <<"Picked">> ELSE <<>>
    IN  /\ q.pc = "print" /\ q.kind = "scan"
        /\ Save(r)
        /\ requests' = [requests EXCEPT
               ![r] = AfterCreate([q EXCEPT !.mem = Stamped(row, q.mem)], todo)]
        /\ UNCHANGED <<history, fpVars, seen, crashes>>

CancelSave(r) ==
    LET q == requests[r]
    IN  /\ q.pc = "print" /\ q.kind = "opCancel"
        /\ Save(r)
        /\ requests' = [requests EXCEPT ![r] = [q EXCEPT
               !.pc = "create", !.todo = <<"Cancelled">>, !.mem = Stamped(row, q.mem)]]
        /\ UNCHANGED <<history, fpVars, seen, crashes>>

-----------------------------------------------------------------------------
(* The freight provider's answers.                                         *)

\* bookconsignment (book, edit_book) and rebookconsignment: the FP books a
\* consignment and the copy takes its id.  The first status of a rebooking
\* names the former id, which the model leaves out.
FpBooks(r) ==
    LET q == requests[r]
        id == issued + 1
        todo == IF q.kind = "rebook" THEN <<"Pickup Rebooked(Last)", "Pickup Rebooked">>
                ELSE <<"Booked">>
    IN  /\ q.pc = "call" /\ q.kind \in {"book", "editBook", "rebook"}
        /\ issued < MaxPickup
        /\ issued' = id
        /\ live' = live \cup {id}
        /\ requests' = [requests EXCEPT ![r] = [q EXCEPT
               !.pc = "create", !.todo = todo, !.mem.pickup = id, !.mem.booked = TRUE]]
        /\ UNCHANGED <<bookingVars, fpLog, seen, crashes>>

\* built_in_book: no truck is needed, so the FP (TNT) is not called at all.
BuiltInBook(r) ==
    /\ requests[r].pc = "call" /\ requests[r].kind = "book"
    /\ requests' = [requests EXCEPT ![r].pc = "create", ![r].todo = <<"Booked">>,
                                   ![r].mem.booked = TRUE]
    /\ UNCHANGED <<bookingVars, fpVars, seen, crashes>>

\* Slip: the FP's refusal to cancel is taken for its consent.
CancelsAnyway(r) ==
    LET q == requests[r]
    IN  /\ q.pc = "call" /\ q.kind = "fpCancel"
        /\ requests' = [requests EXCEPT ![r] = [q EXCEPT !.pc = "create", !.todo = <<"Closed">>]]
        /\ UNCHANGED <<bookingVars, fpVars, seen, crashes>>

\* cancelconsignment.
FpCancels(r) ==
    LET q == requests[r]
    IN  /\ q.pc = "call" /\ q.kind = "fpCancel"
        /\ live' = live \ {q.mem.pickup}
        /\ requests' = [requests EXCEPT ![r] = [q EXCEPT !.pc = "create", !.todo = <<"Closed">>]]
        /\ UNCHANGED <<bookingVars, fpLog, issued, seen, crashes>>

\* Any other answer: _set_error saves the copy, unless the answer, or its
\* absence, raised where nothing catches it.
FpRefuses(r) ==
    /\ requests[r].pc = "call"
    /\ Save(r) \/ row' = row
    /\ End(r)
    /\ UNCHANGED <<history, fpVars, seen, crashes>>

\* trackconsignment.
FpTracks(r) ==
    /\ requests[r].pc = "call" /\ requests[r].kind = "track"
    /\ fpLog # <<>>
    /\ requests' = [requests EXCEPT ![r].pc = "poll", ![r].log = fpLog]
    /\ UNCHANGED <<bookingVars, fpVars, seen, crashes>>

\* populate_fp_status_history: an answer is new when nothing was known, when it
\* is shorter than what was known, or when it has further events.  Recording
\* stops early at an event whose status is that of the latest event known.
FirstRepeat(log) ==
    {i \in (seen + 1)..Len(log) :
        log[i] = log[seen] /\ \A j \in (seen + 1)..(i - 1) : log[j] # log[seen]}
AllNew(log) ==
    \/ seen = 0
    \/ Len(log) < seen
    \/ seen \in 1..(Len(log) - 1) /\ FirstRepeat(log) = {}

\* The locked booking is left alone by update_booking_with_tracking_result.
PopulateNew(r) ==
    LET q == requests[r]
    IN  /\ q.pc = "poll" /\ AllNew(q.log)
        /\ seen' = Len(q.log)
        /\ requests' = [requests EXCEPT ![r] =
               IF q.mem.lock THEN [q EXCEPT !.pc = "finish", !.log = <<>>]
               ELSE [q EXCEPT !.pc = "create", !.log = <<>>, !.todo = <<LastOf(q.log)>>]]
        /\ UNCHANGED <<bookingVars, fpVars, crashes>>

\* Allied's answers save the copy (POD fields) even when nothing is new.
PopulateOld(r) ==
    LET q == requests[r]
    IN  /\ q.pc = "poll" /\ ~AllNew(q.log)
        /\ seen' \in IF FirstRepeat(q.log) = {} THEN {seen} ELSE FirstRepeat(q.log)
        /\ row' \in {row, q.mem}
        /\ End(r)
        /\ UNCHANGED <<history, fpVars, crashes>>

\* The FP records an event of the consignment; nothing follows a delivery.
FpEvent ==
    /\ "track" \in Kinds
    /\ Len(fpLog) < MaxLog
    /\ \A i \in 1..Len(fpLog) : fpLog[i] # "Delivered"
    /\ \E s \in FpStatuses : fpLog' = Append(fpLog, s)
    /\ UNCHANGED <<bookingVars, requests, seen, live, issued, crashes>>

-----------------------------------------------------------------------------
(* status_history.create and post_new_status.                              *)

\* Slip: every status is news.
AlwaysNews(new) == history = <<>> \/ new # NoStatus

\* Slip: the first status is not.
NewsIfKnown(new) == history # <<>> /\ new # NoStatus /\ LastOf(history).last # new

\* create(): a locked copy is left alone; otherwise read the last entry, set
\* the status and save (one step: a race between the reading and the saving shows
\* between this step and Record too).  An entry follows if the last one differs.
IsNews(new) == history = <<>> \/ (new # NoStatus /\ LastOf(history).last # new)

Create(r) ==
    LET q == requests[r]
        new == Head(q.todo)
        copy == [q.mem EXCEPT !.status = new]
        done == [q EXCEPT !.mem = Stamped(row, copy), !.old = q.mem.status, !.new = new,
                          !.todo = Tail(q.todo)]
    IN  /\ q.pc = "create"
        /\ IF q.mem.lock
           THEN /\ row' = row
                /\ requests' = [requests EXCEPT ![r] = AfterCreate(q, Tail(q.todo))]
           ELSE /\ row' = copy
                /\ requests' = [requests EXCEPT ![r] =
                       IF IsNews(new) THEN [done EXCEPT !.pc = "record"]
                       ELSE AfterCreate(done, done.todo)]
        /\ UNCHANGED <<history, fpVars, seen, crashes>>

Record(r) ==
    LET q == requests[r]
    IN  /\ q.pc = "record"
        /\ history' = Append(history, [old |-> q.old, last |-> q.new])
        /\ requests' = [requests EXCEPT ![r].pc = "settle"]
        /\ UNCHANGED <<row, fpVars, seen, crashes>>

\* Slip: the category is left as it was.
SettledOldCategory(q) ==
    [q.mem EXCEPT
        !.given = @ \/ (Category(q.new) = "Transit" /\ Category(q.old) # "Transit"),
        !.lock = @ \/ q.new = "Delivered"]

\* Slip: only a booked booking can be picked up.
SettledIfBooked(q) ==
    [q.mem EXCEPT
        !.given = @ \/ (Category(q.new) = "Transit" /\ Category(q.old) = "Booked"),
        !.lock = @ \/ q.new = "Delivered",
        !.category = Category(q.new)]

\* Slip: leaving "Delivered" locks too.
SettledLocksLate(q) ==
    [q.mem EXCEPT
        !.given = @ \/ (Category(q.new) = "Transit" /\ Category(q.old) # "Transit"),
        !.lock = @ \/ "Delivered" \in {q.old, q.new},
        !.category = Category(q.new)]

\* post_new_status: what entering a status entails, then save and at once
\* refresh_from_db.  It raises on a missing status, which ends the request.
Settled(q) ==
    [q.mem EXCEPT
        !.given = @ \/ (Category(q.new) = "Transit" /\ Category(q.old) # "Transit"),
        !.lock = @ \/ q.new = "Delivered",
        !.category = Category(q.new)]

Settle(r) ==
    LET q == requests[r]
    IN  /\ q.pc = "settle"
        /\ IF q.new = NoStatus
           THEN row' = row /\ End(r)
           ELSE /\ row' = Settled(q)
                /\ requests' = [requests EXCEPT ![r] =
                       AfterCreate([q EXCEPT !.mem = Settled(q)], q.todo)]
        /\ UNCHANGED <<history, fpVars, seen, crashes>>

-----------------------------------------------------------------------------
(* What the handlers do after create().                                    *)

\* Slip: the handlers set the status themselves, whatever create() did.
FinishedBooked(q) ==
    CASE q.kind = "manual" -> [q.mem EXCEPT !.status = "Booked", !.booked = TRUE]
      [] OTHER             -> q.mem
FinishedClosed(q) ==
    CASE q.kind = "fpCancel" -> [q.mem EXCEPT !.status = "Closed", !.booked = FALSE]
      [] OTHER               -> q.mem

Finished(q) ==
    CASE q.kind = "fpCancel"  -> [q.mem EXCEPT !.booked = FALSE]
      [] q.kind = "manual"    -> [q.mem EXCEPT !.booked = TRUE]
      [] q.kind = "plainBook" -> [q.mem EXCEPT !.status = "Booked", !.booked = TRUE]
      [] OTHER                -> q.mem

\* The copy is saved once more for each label that came with the FP's answer.
LabelSave(r) ==
    LET q == requests[r]
    IN  /\ q.pc = "finish" /\ q.kind \in {"book", "editBook"}
        /\ Save(r)
        /\ requests' = [requests EXCEPT ![r].mem = Stamped(row, q.mem)]
        /\ UNCHANGED <<history, fpVars, seen, crashes>>

\* The last save; after a scan a background thread keeps the copy.
Finish(r) ==
    LET q == requests[r]
    IN  /\ q.pc = "finish"
        /\ row' = Finished(q)
        /\ requests' = [requests EXCEPT ![r] =
               IF q.kind = "scan" THEN [q EXCEPT !.pc = "requote", !.mem = Stamped(row, q.mem)]
               ELSE Idle]
        /\ UNCHANGED <<history, fpVars, seen, crashes>>

\* quoting_in_bg: set_booking_quote saves the copy it was started with, once
\* the prices are in; without prices it saves nothing.
Requote(r) ==
    /\ requests[r].pc = "requote"
    /\ Save(r) \/ row' = row
    /\ End(r)
    /\ UNCHANGED <<history, fpVars, seen, crashes>>

-----------------------------------------------------------------------------
(* Handlers that write a status without create().                          *)

\* update_booking: the page was read some time ago, its form overwrites every
\* field but the category.
FormLoad(r) ==
    /\ Start(r, "form", "form", <<>>)
    /\ UNCHANGED <<bookingVars, fpVars, seen, crashes>>

FormSave(r) ==
    LET form == requests[r].mem
    IN  /\ requests[r].pc = "form"
        /\ \E s \in Targets \cup {form.status} :
              row' = [form EXCEPT !.status = s, !.category = row.category]
        /\ End(r)
        /\ UNCHANGED <<history, fpVars, seen, crashes>>

\* update_status_history: an entry gets another status; when it is the last
\* entry the booking gets it too, but neither its category nor its lock.
EditLoad(r) ==
    /\ MayStart(r, "editHistory")
    /\ \E i \in 1..Len(history) : requests' = [requests EXCEPT ![r] =
           [Fresh("editHistory", "editBooking", <<>>) EXCEPT !.at = i, !.old = history[i].last]]
    /\ UNCHANGED <<bookingVars, fpVars, seen, crashes>>

\* Slip: the booking takes the status of whichever entry is edited.
EditsAnyEntry(r) ==
    LET q == requests[r]
    IN  /\ q.pc = "editBooking"
        /\ \E s \in Targets :
              /\ row' = [q.mem EXCEPT
                     !.given = @ \/ Category(s) = "Transit",
                     !.status = IF q.old # s THEN s ELSE @]
              /\ requests' = [requests EXCEPT ![r] = [q EXCEPT !.pc = "editEntry", !.new = s]]
        /\ UNCHANGED <<history, fpVars, seen, crashes>>

EditBooking(r) ==
    LET q == requests[r]
    IN  /\ q.pc = "editBooking"
        /\ \E s \in Targets :
              /\ row' = [q.mem EXCEPT
                     !.given = @ \/ Category(s) = "Transit",
                     !.status = IF q.at = Len(history) /\ q.old # s THEN s ELSE @]
              /\ requests' = [requests EXCEPT ![r] = [q EXCEPT !.pc = "editEntry", !.new = s]]
        /\ UNCHANGED <<history, fpVars, seen, crashes>>

EditEntry(r) ==
    LET q == requests[r]
    IN  /\ q.pc = "editEntry"
        /\ history' = [history EXCEPT ![q.at].last = q.new]
        /\ End(r)
        /\ UNCHANGED <<row, fpVars, seen, crashes>>

-----------------------------------------------------------------------------
\* A worker dies between two statements: nothing is rolled back.
Crash(r) ==
    /\ requests[r].pc # "idle"
    /\ crashes < MaxCrashes
    /\ crashes' = crashes + 1
    /\ End(r)
    /\ UNCHANGED <<bookingVars, fpVars, seen>>

\* The steps of a request once it has been accepted.
Step(r) ==
    \/ ScanSave(r) \/ CancelSave(r)
    \/ FpBooks(r) \/ BuiltInBook(r) \/ FpCancels(r) \/ FpRefuses(r) \/ FpTracks(r)
    \/ PopulateNew(r) \/ PopulateOld(r)
    \/ Create(r) \/ Record(r) \/ Settle(r) \/ LabelSave(r) \/ Finish(r) \/ Requote(r)
    \/ FormSave(r) \/ EditBooking(r) \/ EditEntry(r)

Load(r) ==
    \/ BookLoad(r) \/ RebookLoad(r) \/ EditBookLoad(r) \/ FpCancelLoad(r)
    \/ TrackLoad(r) \/ PlainBookLoad(r) \/ OpCancelLoad(r) \/ ChangeLoad(r)
    \/ SaveHistoryLoad(r) \/ ManualBookLoad(r) \/ ReadyLoad(r) \/ ScanLoad(r) \/ FormLoad(r) \/ EditLoad(r)

Next ==
    \/ \E r \in Requests : Load(r) \/ Step(r) \/ Crash(r)
    \/ FpEvent

Spec == Init /\ [][Next]_vars

-----------------------------------------------------------------------------
(* Properties.                                                             *)

TypeOK ==
    /\ row \in Row
    /\ history \in Seq(Entry)
    /\ requests \in [Requests -> Request]
    /\ fpLog \in Seq(AnyStatus) /\ seen \in Nat
    /\ live \subseteq Nat /\ issued \in Nat
    /\ crashes \in Nat

-----------------------------------------------------------------------------
(* Whatever the interleaving.                                              *)

\* Only a delivery locks a booking: the copies that requests carry around
\* cannot spread a lock the history does not explain.
Delivered == "Delivered" \in StatusesOf(history)
LockImpliesDelivered == row.lock => Delivered

\* Every status the booking ever shows is one it was created with, one its
\* history records, one about to be recorded, or the missing one an unmapped
\* FP status leaves behind.  (Not for the handlers of DirectKinds.)
Explained ==
    Origins \cup {NoStatus} \cup StatusesOf(history)
        \cup {requests[r].new : r \in {s \in Requests : requests[s].pc = "record"}}
StatusAudited == row.status \in Explained

-----------------------------------------------------------------------------
(* When requests come one at a time.                                       *)

Quiet == Busy = {}

\* Each entry starts where the one before it ended, and says something new;
\* only an unmapped FP status can leave a gap.
HistoryChained ==
    \A i \in 2..Len(history) :
        /\ history[i].old \in {history[i - 1].last, NoStatus}
        /\ history[i].last # history[i - 1].last

\* Between requests the booking shows the status its history ends with.
StatusIsLast ==
    Quiet /\ history # <<>> => row.status \in {LastOf(history).last, NoStatus}

\* ... and the category of that status.
CategoryFollows ==
    Quiet /\ history # <<>> /\ LastOf(history).last # NoStatus
        => row.category = Category(LastOf(history).last)

\* ... and once the freight was in transit, when it was picked up.
TransitStamped ==
    Quiet /\ "In Transit" \in StatusesOf(history) => row.given

\* ... and when it was booked, although the date is stamped only after save()
\* has chosen what to write.
BookedHasDate == Quiet /\ row.status = "Booked" => row.booked

\* A booking closed through the FP: the consignment it names is cancelled there
\* (not the older ones, which rebook and edit_book leave behind).
ClosedAtFp == Quiet /\ row.status = "Closed" => row.pickup \notin live

\* Delivered is final: a locked booking keeps its lock and its status.
LockIsFinal == [][row.lock => row'.lock /\ row'.status = row.status]_vars

-----------------------------------------------------------------------------
(* What the program's texts say and interleavings refute.                  *)

\* "Booking is already booked." (pre_check.py:16): no consignment is booked
\* for a booking that is booked.
AlreadyBookedRefused == [][live' \subseteq live \/ row.status # "Booked"]_vars

=============================================================================

-------------------------- MODULE SequentialProofs --------------------------
(***************************************************************************)
(* Theorems about one booking whose requests come one at a time and do not *)
(* die half way: what every handler that goes through create() leaves      *)
(* behind, however many of them follow each other.                         *)
(***************************************************************************)
EXTENDS BookingStatusProofs

OneAtATime ==
    /\ \A r, s \in Requests : r = s
    /\ MaxCrashes = 0
    /\ Kinds \subseteq CreateKinds

\* The booking was not consigned before it was created: mapBok gives any other
\* order a status of this category (a consigned one is "Booked", without a date).
BornPreBooking == \A s \in Origins : Category(s) = "Pre Booking"

\* Only the FP's cancel_book closes a booking.
ClosedByFpOnly == "Closed" \notin Origins \cup Targets \cup FpStatuses

-----------------------------------------------------------------------------
(* The invariant.                                                          *)

Blank == history = <<>>
Latest == LastOf(history).last
Carried == "In Transit" \in StatusesOf(history)

\* What holds of a row whenever no call of create() is half way.
Rest(x) ==
    /\ Blank \/ x.status \in {Latest, NoStatus}
    /\ Blank \/ Latest = NoStatus \/ x.category = Category(Latest)
    /\ x.lock => ~Blank /\ Latest = "Delivered" /\ x.status = "Delivered"
    /\ BornPreBooking =>
           /\ Carried \/ x.status = "In Transit" => x.given
           /\ x.status = "Booked" \/ (~Blank /\ Latest = "Booked") => x.booked

\* The copy a request works on is the row, or has more of its dates set.
Grown(a, b) ==
    /\ b.status = a.status /\ b.lock = a.lock /\ b.category = a.category
    /\ a.given => b.given
    /\ a.booked => b.booked

\* An entry is about to be recorded ...
ToRecord(x, q) ==
    /\ x.status = q.new /\ ~x.lock
    /\ Blank \/ (q.old \in {Latest, NoStatus} /\ q.new \notin {Latest, NoStatus})
    /\ BornPreBooking => /\ Carried \/ q.old = "In Transit" => x.given
                         /\ q.new = "Booked" => q.mem.booked

\* ... and has been recorded, but the booking has not its category yet.
ToSettle(x, q) ==
    /\ ~Blank /\ Latest = q.new
    /\ x.status = q.new /\ ~x.lock
    /\ BornPreBooking => /\ Carried => x.given \/ q.new = "In Transit"
                         /\ q.old = "In Transit" => x.given
                         /\ q.new = "Booked" => q.mem.booked

\* The FP's cancel_book takes the date away at its end: the booking is closed
\* then, or was delivered before.
Closing(x, q) ==
    /\ q.pc \in {"create", "record", "settle", "finish", "call"}
    /\ q.pc = "create" => q.todo = <<"Closed">>
    /\ q.pc \in {"record", "settle"} => q.todo = <<>> /\ q.new = "Closed"
    /\ q.pc = "finish" => /\ x.status \in {"Closed", "Delivered"}
                          /\ ~Blank /\ Latest \in {"Closed", "Delivered"}

\* A request q under way, when x is the booking's row.
Working(x, q) ==
    /\ q.kind \in Kinds
    /\ Grown(x, q.mem)
    /\ q.pc = "record" => ToRecord(x, q)
    /\ q.pc = "settle" => ToSettle(x, q)
    /\ q.pc = "poll" => q.kind = "track"
    /\ q.kind = "fpCancel" => Closing(x, q)

HalfWay == \E r \in Requests : requests[r].pc \in {"record", "settle"}

SeqInv ==
    /\ HistoryChained
    /\ HalfWay \/ Rest(row)
    /\ \A r \in Requests : requests[r].pc # "idle" => Working(row, requests[r])

\* What has been done at the FP: no event closes a booking, and a closed booking
\* names a consignment that is cancelled there.
NotClosing(log) == \A i \in 1..Len(log) : log[i] # "Closed"

\* A request q under way, when l is live and n is issued.
FpWork(l, n, q) ==
    /\ NotClosing(q.log)
    /\ q.mem.pickup <= n
    /\ IF q.kind = "fpCancel"
       THEN q.pc \in {"create", "record", "settle", "finish"} => q.mem.pickup \notin l
       ELSE /\ q.pc \in {"create", "record", "settle"} => NotClosing(q.todo)
            /\ q.pc \in {"record", "settle"} => q.new # "Closed"
    /\ \/ q.mem.status # "Closed" \/ q.mem.pickup \notin l
       \/ q.pc = "create" /\ q.kind \in {"book", "editBook", "rebook"}

ClosedInv ==
    /\ NotClosing(fpLog)
    /\ live \subseteq 1..issued /\ row.pickup <= issued
    /\ row.status = "Closed" => row.pickup \notin live
    /\ \A r \in Requests : requests[r].pc # "idle" => FpWork(live, issued, requests[r])

-----------------------------------------------------------------------------
(* What the steps do, in terms of the row, the copy and the FP.            *)

Slot(r, s) == requests' = [requests EXCEPT ![r] = s] /\ fpLog' = fpLog

\* A handler starts.
Opens(r, s) ==
    /\ Slot(r, s)
    /\ UNCHANGED <<row, history, live, issued>>
    /\ requests[r].pc = "idle"
    /\ s.pc \in {"call", "print", "create"} /\ s.kind \in Kinds
    /\ s.mem \in {row, [row EXCEPT !.given = TRUE]}
    /\ s.kind = "fpCancel" => s.pc = "call"
    /\ s.log = <<>>
    /\ ClosedByFpOnly => NotClosing(s.todo)

\* What the FP is asked to do, if anything.
Asks(q, s) ==
    \/ UNCHANGED <<live, issued>> /\ s.mem.pickup = q.mem.pickup /\ s.kind # "fpCancel"
    \/ /\ issued' = issued + 1 /\ live' = live \cup {issued + 1} /\ row' = row
       /\ s.mem.pickup = issued + 1
       /\ s.pc = "create" /\ s.kind \in {"book", "editBook", "rebook"}
    \/ /\ issued' = issued /\ live' = live \ {q.mem.pickup} /\ row' = row
       /\ s.mem.pickup = q.mem.pickup
       /\ s.kind = "fpCancel"

\* A step before or after create(): the row stays or becomes the copy.
Carries(r, s) ==
    LET q == requests[r]
    IN  /\ Slot(r, s)
        /\ history' = history
        /\ q.pc \notin {"idle", "create", "record", "settle"}
        /\ row' = row \/ row' = q.mem
        /\ \/ s = Idle /\ UNCHANGED <<live, issued>>
           \/ /\ s.kind = q.kind /\ s.pc \in {"create", "finish", "poll"}
              /\ Grown(q.mem, s.mem)
              /\ s.kind = "fpCancel" => s.pc = "create" /\ s.todo = <<"Closed">>
              /\ s.pc = "poll" => s.kind = "track"
              /\ s.log \in {q.log, fpLog, <<>>}
              /\ s.pc = "create" /\ s.kind # "fpCancel" =>
                     \/ NotClosing(s.todo)
                     \/ q.pc = "poll" /\ q.log # <<>> /\ s.todo = <<LastOf(q.log)>>
              /\ Asks(q, s)

\* The last save of a handler.
Finishes(r, s) ==
    LET q == requests[r]
    IN  /\ Slot(r, s)
        /\ UNCHANGED <<history, live, issued>>
        /\ q.pc = "finish"
        /\ row' = Finished(q)
        /\ \/ s = Idle
           \/ /\ q.kind = "scan" /\ s.kind = "scan" /\ s.pc = "requote"
              /\ Grown(q.mem, s.mem) /\ s.mem.pickup = q.mem.pickup
              /\ s.log = q.log

\* What follows a call of create().
Onward(q, s, mem, todo) ==
    \/ s = Idle
    \/ /\ s.kind = q.kind /\ s.mem = mem /\ s.log = q.log /\ s.todo = todo
       /\ s.pc = IF todo # <<>> THEN "create" ELSE "finish"

Creates(r, s) ==
    LET q == requests[r]
        new == Head(q.todo)
        copy == [q.mem EXCEPT !.status = new]
        stamped == Stamped(row, copy)
    IN  /\ Slot(r, s)
        /\ UNCHANGED <<history, live, issued>>
        /\ q.pc = "create"
        /\ \/ q.mem.lock /\ row' = row /\ Onward(q, s, q.mem, Tail(q.todo))
           \/ /\ ~q.mem.lock /\ row' = copy /\ ~IsNews(new)
              /\ Onward(q, s, stamped, Tail(q.todo))
           \/ /\ ~q.mem.lock /\ row' = copy /\ IsNews(new)
              /\ s.pc = "record" /\ s.kind = q.kind /\ s.mem = stamped
              /\ s.old = q.mem.status /\ s.new = new
              /\ s.todo = Tail(q.todo) /\ s.log = q.log

Records(r, s) ==
    LET q == requests[r]
    IN  /\ Slot(r, s)
        /\ UNCHANGED <<row, live, issued>>
        /\ history' = Append(history, [old |-> q.old, last |-> q.new])
        /\ q.pc = "record" /\ s.pc = "settle"
        /\ s.kind = q.kind /\ s.mem = q.mem /\ s.old = q.old /\ s.new = q.new
        /\ s.todo = q.todo /\ s.log = q.log

Settles(r, s) ==
    LET q == requests[r]
    IN  /\ Slot(r, s)
        /\ UNCHANGED <<history, live, issued>>
        /\ q.pc = "settle"
        /\ \/ q.new = NoStatus /\ row' = row /\ s = Idle
           \/ q.new # NoStatus /\ row' = Settled(q) /\ Onward(q, s, Settled(q), q.todo)

Does(r, s) == Opens(r, s) \/ Carries(r, s) \/ Finishes(r, s)
                  \/ Creates(r, s) \/ Records(r, s) \/ Settles(r, s)

\* Lemma: what AfterCreate makes of a slot.
LEMMA OnwardShape ==
    ASSUME NEW q \in Request, NEW todo \in Seq(AnyStatus)
    PROVE  Onward(q, AfterCreate(q, todo), q.mem, todo)
<1>1. CASE todo # <<>>
  <2>1. AfterCreate(q, todo) = [q EXCEPT !.pc = "create", !.todo = todo]
    BY <1>1 DEF AfterCreate
  <2> QED
    BY <1>1, <2>1 DEF Onward, Request
<1>2. CASE todo = <<>> /\ q.kind \in Trailing
  <2>1. AfterCreate(q, todo) = [q EXCEPT !.pc = "finish", !.todo = todo]
    BY <1>2 DEF AfterCreate
  <2> QED
    BY <1>2, <2>1 DEF Onward, Request
<1>3. CASE todo = <<>> /\ q.kind \notin Trailing
  BY <1>3 DEF AfterCreate, Onward
<1> QED
  BY <1>1, <1>2, <1>3

\* Lemma: the stamp sets at most the date.
LEMMA StampedGrows ==
    ASSUME NEW before \in Row, NEW copy \in Row
    PROVE  /\ Grown(copy, Stamped(before, copy))
           /\ Stamped(before, copy).pickup = copy.pickup
           /\ Stamped(before, copy).given = copy.given
           /\ copy.status = "Booked" /\ before.status # "Booked" => Stamped(before, copy).booked
  BY DEF Stamped, Grown, Row

\* Lemma: the handlers' own statuses do not close a booking.
LEMMA OwnStatuses ==
    /\ NotClosing(<<>>)
    /\ \A s : s # "Closed" => NotClosing(<<s>>)
    /\ NotClosing(<<"Pickup Rebooked(Last)", "Pickup Rebooked">>)
<1>1. NotClosing(<<>>)
  BY DEF NotClosing
<1>2. ASSUME NEW s, s # "Closed" PROVE NotClosing(<<s>>)
  <2> DEFINE t == <<s>>
  <2>1. Len(t) = 1 /\ t[1] = s
    OBVIOUS
  <2> HIDE DEF t
  <2>2. \A i \in 1..Len(t) : t[i] # "Closed"
    BY <1>2, <2>1
  <2> QED
    BY <2>2 DEF NotClosing, t
<1>3. NotClosing(<<"Pickup Rebooked(Last)", "Pickup Rebooked">>)
  <2> DEFINE t == <<"Pickup Rebooked(Last)", "Pickup Rebooked">>
  <2>1. Len(t) = 2 /\ t[1] # "Closed" /\ t[2] # "Closed"
    OBVIOUS
  <2> HIDE DEF t
  <2>2. \A i \in 1..Len(t) : t[i] # "Closed"
    BY <2>1
  <2> QED
    BY <2>2 DEF NotClosing, t
<1> QED
  BY <1>1, <1>2, <1>3

\* Lemma: every handler that may be called starts like this.
LEMMA LoadOpens ==
    ASSUME TypeInv, Kinds \subseteq CreateKinds, NEW r \in Requests, Load(r)
    PROVE  \E s \in Request : Opens(r, s)
<1>u. UNCHANGED <<row, history, fpLog, live, issued>>
  BY LoadUnchanged
<1>a. ASSUME NEW s, Opens(r, s) PROVE \E u \in Request : Opens(r, u)
  <2>1. s = requests'[r]
    BY <1>a DEF TypeInv, TypeOK, Opens, Slot
  <2>2. s \in Request
    BY <2>1, LoadType DEF RequestsTyped
  <2> QED
    BY <1>a, <2>2
<1>s. ASSUME NEW kind, NEW pc \in {"call", "print", "create"}, NEW todo,
             Start(r, kind, pc, todo), kind = "fpCancel" => pc = "call",
             ClosedByFpOnly => NotClosing(todo)
      PROVE  \E u \in Request : Opens(r, u)
  <2> DEFINE s == Fresh(kind, pc, todo)
  <2>1. s.mem = row /\ s.kind = kind /\ s.pc = pc /\ s.log = <<>> /\ s.todo = todo
    BY DEF Fresh, Idle
  <2>2. requests' = [requests EXCEPT ![r] = s] /\ kind \in Kinds /\ requests[r].pc = "idle"
    BY <1>s DEF Start, MayStart
  <2> HIDE DEF s
  <2>3. Opens(r, s)
    BY <1>s, <1>u, <2>1, <2>2 DEF Opens, Slot
  <2> QED
    BY <1>a, <2>3
<1>t. ASSUME NEW s \in Targets PROVE ClosedByFpOnly => NotClosing(<<s>>)
  BY OwnStatuses DEF ClosedByFpOnly
<1>0. ~PlainBookLoad(r) /\ ~FormLoad(r) /\ ~EditLoad(r)
  BY DEF PlainBookLoad, FormLoad, EditLoad, Start, MayStart, CreateKinds
<1>1. CASE BookLoad(r)
  BY <1>1, <1>s, OwnStatuses DEF BookLoad
<1>2. CASE RebookLoad(r)
  BY <1>2, <1>s, OwnStatuses DEF RebookLoad
<1>3. CASE EditBookLoad(r)
  BY <1>3, <1>s, OwnStatuses DEF EditBookLoad
<1>4. CASE FpCancelLoad(r)
  BY <1>4, <1>s, OwnStatuses DEF FpCancelLoad
<1>5. CASE TrackLoad(r)
  BY <1>5, <1>s, OwnStatuses DEF TrackLoad
<1>6. CASE OpCancelLoad(r)
  <2>1. CASE Start(r, "opCancel", "create", <<"Cancelled">>)
    BY <2>1, <1>s, OwnStatuses
  <2>2. CASE Start(r, "opCancel", "print", <<>>)
    BY <2>2, <1>s, OwnStatuses
  <2> QED
    BY <1>6, <2>1, <2>2 DEF OpCancelLoad
<1>7. CASE SaveHistoryLoad(r)
  <2>1. PICK s \in Targets : Start(r, "saveHistory", "create", <<s>>)
    BY <1>7 DEF SaveHistoryLoad
  <2> QED
    BY <2>1, <1>s, <1>t
<1>8. CASE ManualBookLoad(r)
  BY <1>8, <1>s, OwnStatuses DEF ManualBookLoad
<1>9. CASE ReadyLoad(r)
  BY <1>9, <1>s, OwnStatuses DEF ReadyLoad
<1>10. CASE ScanLoad(r)
  BY <1>10, <1>s, OwnStatuses DEF ScanLoad
<1>11. CASE ChangeLoad(r)
  <2>1. PICK t \in Targets : requests' = [requests EXCEPT ![r] =
            [Fresh("change", "create", <<t>>) EXCEPT !.mem.given = @ \/ t = "In Transit"]]
    BY <1>11 DEF ChangeLoad
  <2> DEFINE u == [Fresh("change", "create", <<t>>) EXCEPT !.mem.given = @ \/ t = "In Transit"]
  <2>2. /\ u.mem = [row EXCEPT !.given = @ \/ t = "In Transit"] /\ u.kind = "change"
        /\ u.pc = "create" /\ u.log = <<>> /\ u.todo = <<t>>
    BY DEF Fresh, Idle
  <2>3. u.mem \in {row, [row EXCEPT !.given = TRUE]}
    <3>1. row \in Row
      BY DEF TypeInv, TypeOK
    <3>2. CASE t = "In Transit"
      BY <2>2, <3>1, <3>2 DEF Row
    <3>3. CASE t # "In Transit"
      <4>1. [row EXCEPT !.given = @ \/ t = "In Transit"] = row
        BY <3>1, <3>3 DEF Row
      <4> QED
        BY <2>2, <4>1
    <3> QED
      BY <3>2, <3>3
  <2>4. requests[r].pc = "idle" /\ "change" \in Kinds
    BY <1>11 DEF ChangeLoad, MayStart
  <2>5. requests' = [requests EXCEPT ![r] = u]
    BY <2>1
  <2>6. ClosedByFpOnly => NotClosing(<<t>>)
    BY <1>t
  <2> HIDE DEF u
  <2>7. Opens(r, u)
    BY <1>u, <2>2, <2>3, <2>4, <2>5, <2>6 DEF Opens, Slot
  <2> QED
    BY <1>a, <2>7
<1> QED
  BY <1>0, <1>1, <1>2, <1>3, <1>4, <1>5, <1>6, <1>7, <1>8, <1>9, <1>10, <1>11 DEF Load

\* Lemma: the steps before and after create().
LEMMA StepCarries ==
    ASSUME TypeInv, NEW r \in Requests,
           requests[r].pc = "poll" => requests[r].kind = "track",
           \/ ScanSave(r) \/ CancelSave(r) \/ LabelSave(r)
           \/ FpBooks(r) \/ BuiltInBook(r) \/ FpCancels(r)
           \/ FpRefuses(r) \/ FpTracks(r)
           \/ PopulateNew(r) \/ PopulateOld(r) \/ Requote(r)
    PROVE  \E s \in Request : Carries(r, s)
<1> DEFINE q == requests[r]
           NewSlot(s) == requests' = [requests EXCEPT ![r] = s]
<1>q. /\ q \in Request /\ q.mem \in Row
      /\ q.todo \in Seq(AnyStatus) /\ q.log \in Seq(AnyStatus) /\ PhaseOK(q)
  BY RequestFields
<1>r. row \in Row
  BY DEF TypeInv, TypeOK
<1>m. RequestsTyped'
  BY StepType DEF Step, TypeInv, TypeOK, RequestsTyped
<1>a. ASSUME NEW s, Carries(r, s) PROVE \E u \in Request : Carries(r, u)
  <2>1. s = requests'[r]
    BY <1>a DEF TypeInv, TypeOK, Carries, Slot
  <2>2. s \in Request
    BY <1>m, <2>1 DEF RequestsTyped
  <2> QED
    BY <1>a, <2>2
<1>p. q.pc = "poll" => q.kind = "track"
  OBVIOUS
<1>e. ASSUME End(r), UNCHANGED <<history, fpLog, live, issued>>, row' = row \/ row' = q.mem,
             q.pc \notin {"idle", "create", "record", "settle"}
      PROVE  \E u \in Request : Carries(r, u)
  <2>1. Carries(r, Idle)
    BY <1>e DEF Carries, Slot, End
  <2> QED
    BY <1>a, <2>1
<1> HIDE DEF q
<1>g. Grown(q.mem, q.mem)
  BY DEF Grown
<1>1. CASE ScanSave(r)
  <2> DEFINE todo == IF ~q.mem.booked /\ q.mem.status # "Picked" THEN <<"Picked">> ELSE <<>>
             t == [q EXCEPT !.mem = Stamped(row, q.mem)]
             s == AfterCreate(t, todo)
  <2>1. /\ row' = q.mem /\ UNCHANGED <<history, fpLog, live, issued>>
        /\ q.pc = "print" /\ q.kind = "scan" /\ NewSlot(s)
    BY <1>1 DEF ScanSave, Save, q, fpVars
  <2>2. /\ t \in Request /\ t.mem = Stamped(row, q.mem) /\ t.kind = q.kind /\ t.log = q.log
    BY <1>q, <1>r, StampedType DEF Request
  <2>3. Grown(q.mem, t.mem) /\ t.mem.pickup = q.mem.pickup
    BY <1>q, <1>r, <2>2, StampedGrows
  <2>p. "Picked" \in AnyStatus
    BY DEF AnyStatus, Statuses
  <2>t. <<>> \in Seq(AnyStatus) /\ <<"Picked">> \in Seq(AnyStatus)
    BY <2>p
  <2>4. todo \in Seq(AnyStatus) /\ NotClosing(todo)
    BY <2>t, OwnStatuses
  <2> HIDE DEF t, todo
  <2>5. Onward(t, s, t.mem, todo)
    BY <2>2, <2>4, OnwardShape
  <2> HIDE DEF s
  <2>6. Carries(r, s)
    BY <2>1, <2>2, <2>3, <2>4, <2>5 DEF Carries, Slot, Asks, Onward, q
  <2> QED
    BY <1>a, <2>6
<1>2. CASE CancelSave(r)
  <2> DEFINE s == [q EXCEPT !.pc = "create", !.todo = <<"Cancelled">>, !.mem = Stamped(row, q.mem)]
  <2>1. /\ row' = q.mem /\ UNCHANGED <<history, fpLog, live, issued>>
        /\ q.pc = "print" /\ q.kind = "opCancel" /\ NewSlot(s)
    BY <1>2 DEF CancelSave, Save, q, fpVars
  <2>2. /\ s.mem = Stamped(row, q.mem) /\ s.kind = q.kind /\ s.pc = "create" /\ s.log = q.log
        /\ s.todo = <<"Cancelled">>
    BY <1>q DEF Request
  <2>3. Grown(q.mem, s.mem) /\ s.mem.pickup = q.mem.pickup
    BY <1>q, <1>r, <2>2, StampedGrows
  <2>4. NotClosing(s.todo)
    BY <2>2, OwnStatuses
  <2> HIDE DEF s
  <2>5. Carries(r, s)
    BY <2>1, <2>2, <2>3, <2>4 DEF Carries, Slot, Asks, q
  <2> QED
    BY <1>a, <2>5
<1>3. CASE LabelSave(r)
  <2> DEFINE s == [q EXCEPT !.mem = Stamped(row, q.mem)]
  <2>1. /\ row' = q.mem /\ UNCHANGED <<history, fpLog, live, issued>>
        /\ q.pc = "finish" /\ q.kind \in {"book", "editBook"} /\ NewSlot(s)
    BY <1>3 DEF LabelSave, Save, q, fpVars
  <2>2. s.mem = Stamped(row, q.mem) /\ s.kind = q.kind /\ s.pc = "finish" /\ s.log = q.log
    BY <1>q, <2>1 DEF Request
  <2>3. Grown(q.mem, s.mem) /\ s.mem.pickup = q.mem.pickup
    BY <1>q, <1>r, <2>2, StampedGrows
  <2> HIDE DEF s
  <2>4. Carries(r, s)
    BY <2>1, <2>2, <2>3 DEF Carries, Slot, Asks, q
  <2> QED
    BY <1>a, <2>4
<1>4. CASE FpBooks(r)
  <2> DEFINE todo == IF q.kind = "rebook" THEN <<"Pickup Rebooked(Last)", "Pickup Rebooked">>
                     ELSE <<"Booked">>
             mem == [q.mem EXCEPT !.pickup = issued + 1, !.booked = TRUE]
             s == [q EXCEPT !.pc = "create", !.todo = todo, !.mem = mem]
  <2>1. /\ row' = row /\ history' = history /\ fpLog' = fpLog
        /\ issued' = issued + 1 /\ live' = live \cup {issued + 1}
        /\ q.pc = "call" /\ q.kind \in {"book", "editBook", "rebook"}
    BY <1>4 DEF FpBooks, q, bookingVars
  <2>n. NewSlot([q EXCEPT !.pc = "create", !.todo = todo, !.mem.pickup = issued + 1,
                          !.mem.booked = TRUE])
    BY <1>4 DEF FpBooks, q
  <2>2. NewSlot(s)
    BY <2>n, <1>q DEF Request, Row
  <2>3. s.mem = mem /\ s.kind = q.kind /\ s.pc = "create" /\ s.log = q.log /\ s.todo = todo
    BY <1>q DEF Request
  <2>4. Grown(q.mem, mem) /\ mem.pickup = issued + 1
    BY <1>q DEF Row, Grown
  <2>5. NotClosing(todo)
    BY OwnStatuses
  <2> HIDE DEF s, todo, mem
  <2>6. Carries(r, s)
    BY <2>1, <2>2, <2>3, <2>4, <2>5 DEF Carries, Slot, Asks, q
  <2> QED
    BY <1>a, <2>6
<1>5. CASE BuiltInBook(r)
  <2> DEFINE mem == [q.mem EXCEPT !.booked = TRUE]
             s == [q EXCEPT !.pc = "create", !.todo = <<"Booked">>, !.mem = mem]
  <2>1. /\ row' = row /\ UNCHANGED <<history, fpLog, live, issued>>
        /\ q.pc = "call" /\ q.kind = "book"
    BY <1>5 DEF BuiltInBook, q, bookingVars, fpVars
  <2>2. NewSlot(s)
    BY <1>5, <1>q DEF BuiltInBook, q, Request, Row
  <2>3. /\ s.mem = mem /\ s.kind = q.kind /\ s.pc = "create" /\ s.log = q.log
        /\ s.todo = <<"Booked">>
    BY <1>q DEF Request
  <2>4. Grown(q.mem, mem) /\ mem.pickup = q.mem.pickup
    BY <1>q DEF Row, Grown
  <2>5. NotClosing(s.todo)
    BY <2>3, OwnStatuses
  <2> HIDE DEF s, mem
  <2>6. Carries(r, s)
    BY <2>1, <2>2, <2>3, <2>4, <2>5 DEF Carries, Slot, Asks, q
  <2> QED
    BY <1>a, <2>6
<1>6. CASE FpCancels(r)
  <2> DEFINE s == [q EXCEPT !.pc = "create", !.todo = <<"Closed">>]
  <2>1. /\ NewSlot(s) /\ row' = row /\ history' = history /\ fpLog' = fpLog
        /\ issued' = issued /\ live' = live \ {q.mem.pickup}
        /\ q.pc = "call" /\ q.kind = "fpCancel"
    BY <1>6 DEF FpCancels, bookingVars, q
  <2>2. /\ s.pc = "create" /\ s.kind = q.kind /\ s.mem = q.mem /\ s.log = q.log
        /\ s.todo = <<"Closed">>
    BY <1>q DEF Request
  <2> HIDE DEF s
  <2>3. Carries(r, s)
    BY <1>g, <2>1, <2>2 DEF Carries, Slot, Asks, q
  <2> QED
    BY <1>a, <2>3
<1>7. CASE FpRefuses(r)
  BY <1>7, <1>e DEF FpRefuses, Save, q, fpVars
<1>8. CASE FpTracks(r)
  <2> DEFINE s == [q EXCEPT !.pc = "poll", !.log = fpLog]
  <2>1. /\ NewSlot(s) /\ row' = row /\ UNCHANGED <<history, fpLog, live, issued>>
        /\ q.pc = "call" /\ q.kind = "track"
    BY <1>8, <1>q DEF FpTracks, bookingVars, fpVars, q, Request
  <2>2. s.pc = "poll" /\ s.kind = q.kind /\ s.mem = q.mem /\ s.log = fpLog
    BY <1>q DEF Request
  <2> HIDE DEF s
  <2>3. Carries(r, s)
    BY <1>g, <2>1, <2>2 DEF Carries, Slot, Asks, q
  <2> QED
    BY <1>a, <2>3
<1>9. CASE PopulateNew(r)
  <2> DEFINE s1 == [q EXCEPT !.pc = "finish", !.log = <<>>]
             s2 == [q EXCEPT !.pc = "create", !.log = <<>>, !.todo = <<LastOf(q.log)>>]
  <2>1. /\ row' = row /\ UNCHANGED <<history, fpLog, live, issued>> /\ q.pc = "poll"
        /\ NewSlot(s1) \/ NewSlot(s2)
    BY <1>9 DEF PopulateNew, bookingVars, fpVars, q
  <2>2. /\ s1.pc = "finish" /\ s1.kind = q.kind /\ s1.mem = q.mem /\ s1.log = <<>>
        /\ s2.pc = "create" /\ s2.kind = q.kind /\ s2.mem = q.mem /\ s2.log = <<>>
        /\ s2.todo = <<LastOf(q.log)>>
    BY <1>q DEF Request
  <2>3. q.log # <<>>
    BY <1>q, <2>1 DEF PhaseOK
  <2> HIDE DEF s1, s2
  <2>4. NewSlot(s1) => Carries(r, s1)
    BY <1>g, <1>p, <2>1, <2>2 DEF Carries, Slot, Asks, q
  <2>5. NewSlot(s2) => Carries(r, s2)
    BY <1>g, <1>p, <2>1, <2>2, <2>3 DEF Carries, Slot, Asks, q
  <2> QED
    BY <1>a, <2>1, <2>4, <2>5
<1>10. CASE PopulateOld(r)
  BY <1>10, <1>e DEF PopulateOld, q, fpVars
<1>11. CASE Requote(r)
  BY <1>11, <1>e DEF Requote, Save, q, fpVars
<1> QED
  BY <1>1, <1>2, <1>3, <1>4, <1>5, <1>6, <1>7, <1>8, <1>9, <1>10, <1>11

\* Lemma: the last save.
LEMMA FinishShape ==
    ASSUME TypeInv, NEW r \in Requests, Finish(r)
    PROVE  \E s \in Request : Finishes(r, s)
<1> DEFINE q == requests[r]
           s == [q EXCEPT !.pc = "requote", !.mem = Stamped(row, q.mem)]
<1>q. q \in Request /\ q.mem \in Row /\ row \in Row
  BY RequestFields DEF TypeInv, TypeOK
<1>1. /\ row' = Finished(q) /\ UNCHANGED <<history, fpLog, live, issued>> /\ q.pc = "finish"
      /\ requests' = [requests EXCEPT ![r] = IF q.kind = "scan" THEN s ELSE Idle]
  BY DEF Finish, fpVars
<1>2. /\ s \in Request /\ s.kind = q.kind /\ s.pc = "requote" /\ s.log = q.log
      /\ s.mem = Stamped(row, q.mem)
  BY <1>q, StampedType DEF Request, Phases
<1>3. Grown(q.mem, s.mem) /\ s.mem.pickup = q.mem.pickup
  BY <1>q, <1>2, StampedGrows
<1> HIDE DEF s
<1>4. CASE q.kind = "scan"
  <2>1. Finishes(r, s)
    BY <1>1, <1>2, <1>3, <1>4 DEF Finishes, Slot
  <2> QED
    BY <1>2, <2>1
<1>5. CASE q.kind # "scan"
  <2>1. Finishes(r, Idle)
    BY <1>1, <1>5 DEF Finishes, Slot
  <2> QED
    BY <2>1, IdleType
<1> QED
  BY <1>4, <1>5

\* Lemma: create().
LEMMA CreateCreates ==
    ASSUME TypeInv, NEW r \in Requests, Create(r)
    PROVE  \E s \in Request : Creates(r, s)
<1> DEFINE q == requests[r]
           new == Head(q.todo)
           copy == [q.mem EXCEPT !.status = new]
           stamp == Stamped(row, copy)
           done == [q EXCEPT !.mem = stamp, !.old = q.mem.status,
                             !.new = new, !.todo = Tail(q.todo)]
           rec == [done EXCEPT !.pc = "record"]
           after == AfterCreate(done, done.todo)
           left == AfterCreate(q, Tail(q.todo))
           NewSlot(s) == requests' = [requests EXCEPT ![r] = s]
<1>q. /\ q \in Request /\ q.mem \in Row /\ q.todo \in Seq(AnyStatus) /\ PhaseOK(q)
      /\ row \in Row /\ q.mem.status \in AnyStatus
  BY RequestFields DEF TypeInv, TypeOK, Row
<1>1. /\ q.pc = "create" /\ UNCHANGED <<history, fpLog, live, issued>>
      /\ \/ q.mem.lock /\ row' = row /\ NewSlot(left)
         \/ ~q.mem.lock /\ row' = copy /\ IsNews(new) /\ NewSlot(rec)
         \/ ~q.mem.lock /\ row' = copy /\ ~IsNews(new) /\ NewSlot(after)
  BY DEF Create, fpVars
<1>2. new \in AnyStatus /\ Tail(q.todo) \in Seq(AnyStatus)
  BY <1>q, <1>1 DEF PhaseOK
<1>3. copy \in Row
  BY <1>q, <1>2 DEF Row
<1>4. stamp \in Row
  <2> HIDE DEF copy
  <2> QED
    BY <1>q, <1>3, StampedType
<1>5. /\ done \in Request /\ done.todo = Tail(q.todo) /\ done.mem = stamp
      /\ done.kind = q.kind /\ done.new = new /\ done.old = q.mem.status /\ done.log = q.log
  <2> HIDE DEF stamp, new
  <2> QED
    BY <1>q, <1>2, <1>4 DEF Request
<1>6. /\ rec \in Request /\ rec.pc = "record" /\ rec.mem = stamp /\ rec.kind = q.kind
      /\ rec.new = new /\ rec.old = q.mem.status /\ rec.todo = Tail(q.todo)
      /\ rec.log = q.log
  <2> HIDE DEF done, stamp, new
  <2> QED
    BY <1>5 DEF Request, Phases
<1>7. left \in Request /\ Onward(q, left, q.mem, Tail(q.todo))
  BY <1>q, <1>2, OnwardShape, AfterCreateType
<1>8. after \in Request /\ Onward(q, after, stamp, Tail(q.todo))
  <2>1. Onward(done, after, done.mem, done.todo) /\ after \in Request
    <3> HIDE DEF done
    <3> QED
      BY <1>2, <1>5, OnwardShape, AfterCreateType
  <2> HIDE DEF done, stamp
  <2> QED
    BY <2>1, <1>5 DEF Onward
<1>c. copy = [q.mem EXCEPT !.status = Head(q.todo)] /\ stamp = Stamped(row, copy)
      /\ new = Head(q.todo)
  OBVIOUS
<1> HIDE DEF new, copy, stamp, done, rec, left, after
<1>9. NewSlot(left) /\ q.mem.lock /\ row' = row => Creates(r, left)
  BY <1>1, <1>7, <1>c DEF Creates, Slot
<1>10. NewSlot(rec) /\ ~q.mem.lock /\ row' = copy /\ IsNews(new) => Creates(r, rec)
  BY <1>1, <1>6, <1>c DEF Creates, Slot
<1>11. NewSlot(after) /\ ~q.mem.lock /\ row' = copy /\ ~IsNews(new) => Creates(r, after)
  BY <1>1, <1>8, <1>c DEF Creates, Slot
<1> QED
  BY <1>1, <1>6, <1>7, <1>8, <1>9, <1>10, <1>11

\* Lemma: the new entry of the history.
LEMMA RecordRecords ==
    ASSUME TypeInv, NEW r \in Requests, Record(r)
    PROVE  \E s \in Request : Records(r, s)
<1> DEFINE q == requests[r]
           s == [q EXCEPT !.pc = "settle"]
<1>q. q \in Request
  BY RequestFields
<1>1. /\ requests' = [requests EXCEPT ![r] = s]
      /\ UNCHANGED <<row, fpLog, live, issued>> /\ q.pc = "record"
      /\ history' = Append(history, [old |-> q.old, last |-> q.new])
  BY DEF Record, fpVars
<1>2. /\ s \in Request /\ s.kind = q.kind /\ s.mem = q.mem /\ s.new = q.new /\ s.old = q.old
      /\ s.pc = "settle" /\ s.todo = q.todo /\ s.log = q.log
  BY <1>q DEF Request, Phases
<1> HIDE DEF s
<1>3. Records(r, s)
  BY <1>1, <1>2 DEF Records, Slot
<1> QED
  BY <1>2, <1>3

\* Lemma: post_new_status.
LEMMA SettleSettles ==
    ASSUME TypeInv, NEW r \in Requests, Settle(r)
    PROVE  \E s \in Request : Settles(r, s)
<1> DEFINE q == requests[r]
           mem == Settled(q)
           done == [q EXCEPT !.mem = mem]
           s == AfterCreate(done, q.todo)
<1>q. /\ q \in Request /\ q.mem \in Row /\ q.todo \in Seq(AnyStatus)
  BY RequestFields
<1>u. UNCHANGED <<history, fpLog, live, issued>> /\ q.pc = "settle"
  BY DEF Settle, fpVars
<1>1. CASE q.new = NoStatus /\ row' = row /\ End(r)
  <2>1. Settles(r, Idle)
    BY <1>1, <1>u DEF Settles, Slot, End
  <2> QED
    BY <2>1, IdleType
<1>2. CASE q.new # NoStatus /\ row' = mem /\ requests' = [requests EXCEPT ![r] = s]
  <2>c. Category(q.new) \in Categories
    BY CategoryType
  <2>2. mem \in Row
    BY <1>q, <2>c DEF Settled, Row
  <2>3. done \in Request /\ done.mem = mem /\ done.kind = q.kind /\ done.log = q.log
    <3> HIDE DEF mem
    <3> QED
      BY <1>q, <2>2 DEF Request
  <2>m. mem = Settled(q)
    OBVIOUS
  <2> HIDE DEF done, mem
  <2>4. s \in Request /\ Onward(done, s, done.mem, q.todo)
    BY <1>q, <2>3, OnwardShape, AfterCreateType
  <2> HIDE DEF s
  <2>5. Settles(r, s)
    BY <1>2, <1>u, <2>3, <2>4, <2>m DEF Settles, Slot, Onward
  <2> QED
    BY <2>4, <2>5
<1> QED
  BY <1>1, <1>2 DEF Settle

\* A step of the FP's, or of nobody.
FpStep ==
    /\ UNCHANGED <<row, history, requests, live, issued>>
    /\ \/ fpLog' = fpLog
       \/ \E s \in FpStatuses : fpLog' = Append(fpLog, s)

\* Lemma: every step of a request, when none dies and none goes past create().
LEMMA StepDoes ==
    ASSUME OneAtATime, TypeInv, KindInv, [Next]_vars,
           \A r \in Requests : requests[r].pc = "poll" => requests[r].kind = "track"
    PROVE  FpStep \/ \E r \in Requests : \E s \in Request : Does(r, s)
<1>k. \A r \in Requests : KindOK(requests[r])
  BY DEF KindInv
<1>d. Kinds \subseteq CreateKinds /\ MaxCrashes = 0
  BY DEF OneAtATime
<1>1. ASSUME NEW r \in Requests, Load(r) PROVE \E s \in Request : Does(r, s)
  BY <1>1, <1>d, LoadOpens DEF Does
<1>2. ASSUME NEW r \in Requests, Step(r) PROVE \E s \in Request : Does(r, s)
  <2>1. CASE Create(r)
    BY <2>1, CreateCreates DEF Does
  <2>2. CASE Record(r)
    BY <2>2, RecordRecords DEF Does
  <2>3. CASE Settle(r)
    BY <2>3, SettleSettles DEF Does
  <2>4. CASE Finish(r)
    BY <2>4, FinishShape DEF Does
  <2>5. ~FormSave(r) /\ ~EditBooking(r) /\ ~EditEntry(r)
    BY <1>k, <1>d DEF FormSave, EditBooking, EditEntry, KindOK, CreateKinds
  <2>6. CASE \/ ScanSave(r) \/ CancelSave(r) \/ LabelSave(r)
             \/ FpBooks(r) \/ BuiltInBook(r) \/ FpCancels(r)
             \/ FpRefuses(r) \/ FpTracks(r)
             \/ PopulateNew(r) \/ PopulateOld(r) \/ Requote(r)
    <3>1. \E s \in Request : Carries(r, s)
      BY <2>6, StepCarries
    <3> QED
      BY <3>1 DEF Does
  <2> QED
    BY <1>2, <2>1, <2>2, <2>3, <2>4, <2>5, <2>6 DEF Step
<1>3. ASSUME NEW r \in Requests, Crash(r) PROVE FALSE
  BY <1>3, <1>d DEF Crash, TypeInv, TypeOK
<1>4. CASE FpEvent
  BY <1>4 DEF FpEvent, FpStep, bookingVars
<1>5. CASE UNCHANGED vars
  BY <1>5 DEF vars, FpStep
<1> QED
  BY <1>1, <1>2, <1>3, <1>4, <1>5 DEF Next

-----------------------------------------------------------------------------
(* The invariant holds.                                                    *)

\* Lemma: the only request there is.
LEMMA Alone ==
    ASSUME OneAtATime, SeqInv, NEW r \in Requests
    PROVE  /\ requests[r].pc \notin {"record", "settle"} => Rest(row)
           /\ requests[r].pc # "idle" => Working(row, requests[r])
  BY DEF OneAtATime, SeqInv, HalfWay

\* Lemma: what can be said of a row that has grown.
LEMMA RestGrown ==
    ASSUME NEW a, NEW b, Grown(a, b), Rest(a)
    PROVE  Rest(b)
  BY DEF Grown, Rest

\* Lemma: copies of copies.
LEMMA GrownTransitive ==
    ASSUME NEW a, NEW b, NEW c, Grown(a, b), Grown(b, c)
    PROVE  Grown(a, c)
  BY DEF Grown

\* Lemma: a history that is not empty has a last entry.
LEMMA LastIndex ==
    ASSUME NEW S, NEW h \in Seq(S), h # <<>>
    PROVE  Len(h) \in 1..Len(h)
  OBVIOUS

\* Lemma: the latest status is one of the history's.
LEMMA LatestCarried ==
    ASSUME history \in Seq(Entry), ~Blank, Latest = "In Transit"
    PROVE  Carried
<1>1. history # <<>>
  BY DEF Blank
<1>2. Len(history) \in 1..Len(history)
  BY <1>1, LastIndex
<1> QED
  BY <1>2 DEF Latest, LastOf, Carried, StatusesOf

\* Lemma: the parts of the invariant speak of the row and of the history only.
LEMMA SameHistory ==
    ASSUME history' = history, NEW x, NEW q
    PROVE  /\ Rest(x)' <=> Rest(x)
           /\ Working(x, q)' <=> Working(x, q)
           /\ HistoryChained' <=> HistoryChained
  BY DEF Rest, Working, ToRecord, ToSettle, Closing, Grown, HistoryChained,
         Blank, Latest, Carried, LastOf, StatusesOf, BornPreBooking

\* Lemma: a step that leaves the history alone.
LEMMA SeqSlot ==
    ASSUME OneAtATime, TypeInv, SeqInv, NEW r \in Requests, NEW y, NEW s,
           requests' = [requests EXCEPT ![r] = s], history' = history, row' = y,
           s.pc \in {"record", "settle"} \/ Rest(y),
           s.pc = "idle" \/ Working(y, s)
    PROVE  SeqInv'
<1>0. requests'[r] = s /\ \A t \in Requests : t = r
  BY DEF OneAtATime, TypeInv, TypeOK
<1>1. HistoryChained'
  BY SameHistory DEF SeqInv
<1>2. (HalfWay \/ Rest(row))'
  <2>1. CASE s.pc \in {"record", "settle"}
    BY <1>0, <2>1 DEF HalfWay
  <2>2. CASE Rest(y)
    BY <2>2 DEF Rest, Blank, Latest, Carried, LastOf, StatusesOf, BornPreBooking
  <2> QED
    BY <2>1, <2>2
<1>3. s.pc # "idle" => Working(row, requests[r])'
  BY <1>0 DEF Working, ToRecord, ToSettle, Closing, Grown,
     Blank, Latest, Carried, LastOf, StatusesOf, BornPreBooking
<1> QED
  BY <1>0, <1>1, <1>2, <1>3 DEF SeqInv

\* Lemma: a handler starts.
LEMMA OpensStep ==
    ASSUME OneAtATime, TypeInv, SeqInv, NEW r \in Requests, NEW s, Opens(r, s)
    PROVE  SeqInv'
<1>1. Rest(row)
  BY Alone DEF Opens
<1>2. Grown(row, s.mem)
  BY DEF Opens, Grown, TypeInv, TypeOK, Row
<1>3. Working(row, s)
  BY <1>2 DEF Opens, Working, Closing
<1>4. PICK y : y = row
  OBVIOUS
<1> QED
  BY <1>1, <1>3, <1>4, SeqSlot DEF Opens, Slot

\* Lemma: a step before or after create().
LEMMA CarriesStep ==
    ASSUME OneAtATime, TypeInv, SeqInv, NEW r \in Requests, NEW s, Carries(r, s)
    PROVE  SeqInv'
<1> DEFINE q == requests[r]
<1>q. q.pc \notin {"idle", "create", "record", "settle"}
  BY DEF Carries
<1>1. Rest(row) /\ Working(row, q)
  BY <1>q, Alone
<1>2. PICK y : row' = y
  OBVIOUS
<1>3. Grown(row, q.mem) /\ Rest(q.mem) /\ q.kind \in Kinds
  BY <1>1, RestGrown DEF Working
<1>4. y \in {row, q.mem} /\ Rest(y) /\ Grown(y, q.mem)
  BY <1>1, <1>2, <1>3 DEF Carries, Grown
<1>5. s.pc = "idle" \/ Working(y, s)
  <2>1. CASE s = Idle
    BY <2>1, IdleType
  <2>2. CASE /\ s.kind = q.kind /\ s.pc \in {"create", "finish", "poll"}
             /\ Grown(q.mem, s.mem)
             /\ s.kind = "fpCancel" => s.pc = "create" /\ s.todo = <<"Closed">>
             /\ s.pc = "poll" => s.kind = "track"
    <3>1. Grown(y, s.mem)
      BY <1>4, <2>2, GrownTransitive
    <3> QED
      BY <1>3, <2>2, <3>1 DEF Working, Closing
  <2> QED
    BY <2>1, <2>2 DEF Carries
<1> QED
  BY <1>2, <1>4, <1>5, SeqSlot DEF Carries, Slot

\* Lemma: the last save of a handler.
LEMMA FinishesStep ==
    ASSUME OneAtATime, TypeInv, SeqInv, NEW r \in Requests, NEW s, Finishes(r, s)
    PROVE  SeqInv'
<1> DEFINE q == requests[r]
<1>q. q.pc = "finish" /\ q.mem \in Row
  BY RequestFields DEF Finishes
<1>1. Rest(row) /\ Working(row, q)
  BY <1>q, Alone
<1>2. Grown(row, q.mem) /\ Rest(q.mem) /\ q.kind \in CreateKinds
  BY <1>1, RestGrown DEF Working, OneAtATime
<1>3. PICK y : row' = y
  OBVIOUS
<1>4. y = Finished(q)
  BY <1>3 DEF Finishes
<1>5. Rest(y)
  <2>1. CASE q.kind = "fpCancel"
    <3>1. y = [q.mem EXCEPT !.booked = FALSE]
      BY <1>4, <2>1 DEF Finished
    <3>2. /\ y.status = q.mem.status /\ y.lock = q.mem.lock /\ y.category = q.mem.category
          /\ y.given = q.mem.given
      BY <1>q, <3>1 DEF Row
    <3>3. row.status \in {"Closed", "Delivered"} /\ ~Blank /\ Latest \in {"Closed", "Delivered"}
      BY <1>q, <1>1, <2>1 DEF Working, Closing
    <3>4. y.status # "Booked" /\ Latest # "Booked"
      BY <1>2, <3>2, <3>3 DEF Grown
    <3> QED
      BY <1>2, <3>2, <3>4 DEF Rest
  <2>2. CASE q.kind = "manual"
    <3>1. y = [q.mem EXCEPT !.booked = TRUE]
      BY <1>4, <2>2 DEF Finished
    <3>2. Grown(q.mem, y)
      BY <1>q, <3>1 DEF Grown, Row
    <3> QED
      BY <1>2, <3>2, RestGrown
  <2>3. CASE q.kind \notin {"fpCancel", "manual"}
    <3>1. y = q.mem
      BY <1>2, <1>4, <2>3 DEF Finished, CreateKinds
    <3> QED
      BY <1>2, <3>1
  <2> QED
    BY <2>1, <2>2, <2>3
<1>6. s.pc = "idle" \/ Working(y, s)
  <2>1. CASE s = Idle
    BY <2>1, IdleType
  <2>2. CASE q.kind = "scan" /\ s.kind = "scan" /\ s.pc = "requote" /\ Grown(q.mem, s.mem)
    <3>1. y = q.mem
      BY <1>4, <2>2 DEF Finished
    <3>2. q.kind \in Kinds
      BY <1>1 DEF Working
    <3> QED
      BY <2>2, <3>1, <3>2 DEF Working
  <2> QED
    BY <2>1, <2>2 DEF Finishes
<1> QED
  BY <1>3, <1>5, <1>6, SeqSlot DEF Finishes, Slot

\* Lemma: what follows a call of create() that is done.
LEMMA OnwardStep ==
    ASSUME NEW y, NEW q, NEW s, NEW mem, NEW todo, Onward(q, s, mem, todo),
           q.kind \in Kinds, Grown(y, mem),
           q.kind = "fpCancel" =>
               /\ todo = <<>> /\ y.status \in {"Closed", "Delivered"}
               /\ ~Blank /\ Latest \in {"Closed", "Delivered"}
    PROVE  s.pc = "idle" \/ Working(y, s)
<1>1. CASE s = Idle
  BY <1>1, IdleType
<1>2. CASE s.kind = q.kind /\ s.mem = mem /\ s.pc = IF todo # <<>> THEN "create" ELSE "finish"
  <2>1. s.pc \in {"create", "finish"} /\ (todo = <<>> => s.pc = "finish")
    BY <1>2
  <2>2. s.kind = "fpCancel" => Closing(y, s)
    BY <1>2, <2>1 DEF Closing
  <2> QED
    BY <1>2, <2>1, <2>2 DEF Working
<1> QED
  BY <1>1, <1>2 DEF Onward

\* Lemma: create().
LEMMA CreatesStep ==
    ASSUME OneAtATime, TypeInv, SeqInv, NEW r \in Requests, NEW s, Creates(r, s)
    PROVE  SeqInv'
<1> DEFINE q == requests[r]
<1>q. /\ q.pc = "create" /\ q.mem \in Row /\ row \in Row /\ history \in Seq(Entry)
      /\ q.todo \in Seq(AnyStatus) /\ q.todo # <<>>
  BY RequestFields DEF Creates, TypeInv, TypeOK, PhaseOK
<1>1. Rest(row) /\ Working(row, q)
  BY <1>q, Alone
<1>2. PICK new : new = Head(q.todo)
  OBVIOUS
<1>3. PICK todo : todo = Tail(q.todo)
  OBVIOUS
<1>4. q.kind = "fpCancel" => new = "Closed" /\ todo = <<>>
  <2>1. q.kind = "fpCancel" => q.todo = <<"Closed">>
    BY <1>q, <1>1 DEF Working, Closing
  <2>2. Head(<<"Closed">>) = "Closed" /\ Tail(<<"Closed">>) = <<>>
    OBVIOUS
  <2>3. CASE q.todo = <<"Closed">>
    BY <2>2, <2>3, <1>2, <1>3, Zenon
  <2> QED
    BY <2>1, <2>3
<1>5. q.kind \in Kinds /\ Grown(row, q.mem) /\ Rest(q.mem)
  BY <1>1, RestGrown DEF Working
<1>6. PICK y : row' = y
  OBVIOUS
<1>u. requests' = [requests EXCEPT ![r] = s] /\ history' = history
  BY DEF Creates, Slot
<1>n. new \in AnyStatus
  BY <1>q, <1>2
<1>7. CASE q.mem.lock
  <2>1. y = row /\ Onward(q, s, q.mem, todo)
    BY <1>7, <1>3, <1>6 DEF Creates
  <2>2. row.lock /\ row.status = "Delivered" /\ ~Blank /\ Latest = "Delivered"
    BY <1>1, <1>5, <1>7 DEF Grown, Rest
  <2>3. s.pc = "idle" \/ Working(y, s)
    BY <1>4, <1>5, <2>1, <2>2, OnwardStep
  <2> QED
    BY <1>1, <1>6, <1>u, <2>1, <2>3, SeqSlot
<1>8. CASE ~q.mem.lock
  <2> DEFINE copy == [q.mem EXCEPT !.status = new]
  <2>1. /\ y = copy /\ y.status = new /\ ~y.lock /\ y.category = q.mem.category
        /\ y.given = q.mem.given /\ y.booked = q.mem.booked /\ y \in Row
    <3>1. y = copy
      BY <1>2, <1>6, <1>8 DEF Creates
    <3> QED
      BY <1>q, <1>n, <1>8, <3>1 DEF Row
  <2>2. PICK stamp : stamp = Stamped(row, y)
    OBVIOUS
  <2>3. Grown(y, stamp) /\ (y.status = "Booked" /\ row.status # "Booked" => stamp.booked)
    BY <1>q, <2>1, <2>2, StampedGrows
  <2>4. CASE ~IsNews(new)
    <3>1. Onward(q, s, stamp, todo)
      BY <1>8, <2>4, <1>2, <1>3, <2>1, <2>2 DEF Creates
    <3>2. ~Blank /\ new \in {Latest, NoStatus}
      BY <2>4 DEF IsNews, Blank, Latest
    <3>3. Rest(y)
      <4>1. new = "In Transit" => Carried
        BY <1>q, <3>2, LatestCarried DEF NoStatus
      <4>2. new = "Booked" => Latest = "Booked"
        BY <3>2 DEF NoStatus
      <4> QED
        BY <1>5, <2>1, <3>2, <4>1, <4>2 DEF Rest
    <3>4. q.kind = "fpCancel" => y.status = "Closed" /\ Latest = "Closed"
      BY <1>4, <2>1, <3>2 DEF NoStatus
    <3>5. s.pc = "idle" \/ Working(y, s)
      BY <1>4, <1>5, <2>3, <3>1, <3>2, <3>4, OnwardStep
    <3> QED
      BY <1>6, <1>u, <3>3, <3>5, SeqSlot
  <2>5. CASE IsNews(new)
    <3>1. /\ s.pc = "record" /\ s.kind = q.kind /\ s.mem = stamp /\ s.old = q.mem.status
          /\ s.new = new /\ s.todo = todo
      BY <1>8, <2>5, <1>2, <1>3, <2>1, <2>2 DEF Creates
    <3>2. Blank \/ new \notin {Latest, NoStatus}
      BY <2>5 DEF IsNews, Blank, Latest
    <3>3. Blank \/ s.old \in {Latest, NoStatus}
      BY <1>5, <3>1 DEF Rest
    <3>4. BornPreBooking => /\ Carried \/ s.old = "In Transit" => y.given
                            /\ s.new = "Booked" => s.mem.booked
      <4> SUFFICES ASSUME BornPreBooking
                   PROVE  /\ Carried \/ s.old = "In Transit" => y.given
                          /\ s.new = "Booked" => s.mem.booked
        OBVIOUS
      <4>1. Carried \/ s.old = "In Transit" => y.given
        BY <1>5, <2>1, <3>1 DEF Rest
      <4>2. row.status = "Booked" => stamp.booked
        BY <1>1, <1>5, <2>1, <2>3 DEF Rest, Grown
      <4>3. new = "Booked" => stamp.booked
        BY <2>1, <2>3, <4>2
      <4> QED
        BY <3>1, <4>1, <4>3
    <3>5. ToRecord(y, s)
      BY <2>1, <3>1, <3>2, <3>3, <3>4 DEF ToRecord
    <3>6. s.kind = "fpCancel" => Closing(y, s)
      BY <1>4, <3>1 DEF Closing
    <3>7. Working(y, s)
      BY <1>5, <2>3, <3>1, <3>5, <3>6 DEF Working
    <3> QED
      BY <1>6, <1>u, <3>1, <3>7, SeqSlot
  <2> QED
    BY <2>4, <2>5
<1> QED
  BY <1>7, <1>8

\* Lemma: post_new_status.
LEMMA SettlesStep ==
    ASSUME OneAtATime, TypeInv, SeqInv, NEW r \in Requests, NEW s, Settles(r, s)
    PROVE  SeqInv'
<1> DEFINE q == requests[r]
<1>q. q.pc = "settle" /\ q.mem \in Row /\ row \in Row /\ history \in Seq(Entry)
  BY RequestFields DEF Settles, TypeInv, TypeOK
<1>1. Working(row, q) /\ ToSettle(row, q)
  BY <1>q, Alone DEF Working
<1>2. PICK y : row' = y
  OBVIOUS
<1>u. requests' = [requests EXCEPT ![r] = s] /\ history' = history
  BY DEF Settles, Slot
<1>3. CASE q.new = NoStatus
  <2>1. y = row /\ s = Idle
    BY <1>2, <1>3 DEF Settles
  <2>2. Rest(row)
    BY <1>1, <1>3 DEF ToSettle, Rest, NoStatus
  <2> QED
    BY <1>2, <1>u, <2>1, <2>2, IdleType, SeqSlot
<1>4. CASE q.new # NoStatus
  <2>1. y = Settled(q) /\ Onward(q, s, y, q.todo)
    BY <1>2, <1>4 DEF Settles
  <2>2. /\ y.status = q.mem.status /\ y.category = Category(q.new) /\ y.booked = q.mem.booked
        /\ y.lock <=> q.mem.lock \/ q.new = "Delivered"
        /\ y.given <=> q.mem.given \/ (Category(q.new) = "Transit" /\ Category(q.old) # "Transit")
    BY <1>q, <2>1 DEF Settled, Row
  <2>3. /\ Category("In Transit") = "Transit"
        /\ \A c : Category(c) = "Transit" => c = "In Transit"
    BY DEF Category, NoCategory
  <2>4. /\ ~Blank /\ Latest = q.new /\ row.status = q.new /\ ~row.lock /\ Grown(row, q.mem)
    BY <1>1 DEF Working, ToSettle
  <2>5. Rest(y)
    <3>1. y.status = q.new /\ (y.lock => q.new = "Delivered")
      BY <2>2, <2>4 DEF Grown
    <3>2. BornPreBooking => (Carried \/ y.status = "In Transit" => y.given)
      BY <1>1, <2>2, <2>3, <2>4, <3>1 DEF ToSettle, Grown
    <3>3. BornPreBooking => (q.new = "Booked" => y.booked)
      BY <1>1, <2>2 DEF ToSettle
    <3> QED
      BY <2>2, <2>4, <3>1, <3>2, <3>3 DEF Rest
  <2>6. q.kind = "fpCancel" => q.todo = <<>> /\ q.new = "Closed"
    BY <1>q, <1>1 DEF Working, Closing
  <2>7. Grown(y, y) /\ q.kind \in Kinds /\ y.status = q.new
    BY <1>1, <2>2, <2>4 DEF Grown, Working
  <2>8. s.pc = "idle" \/ Working(y, s)
    BY <2>1, <2>4, <2>6, <2>7, OnwardStep
  <2> QED
    BY <1>2, <1>u, <2>5, <2>8, SeqSlot
<1> QED
  BY <1>3, <1>4

\* Lemma: the new entry of the history.
LEMMA RecordsStep ==
    ASSUME OneAtATime, TypeInv, SeqInv, NEW r \in Requests, NEW s, Records(r, s)
    PROVE  SeqInv'
<1> DEFINE q == requests[r]
<1>q. /\ q.pc = "record" /\ q.old \in AnyStatus /\ q.new \in AnyStatus
      /\ history \in Seq(Entry)
  BY RequestFields DEF Records, TypeInv, TypeOK
<1>1. Working(row, q) /\ ToRecord(row, q)
  BY <1>q, Alone DEF Working
<1>2. PICK e : e = [old |-> q.old, last |-> q.new]
  OBVIOUS
<1>3. e \in Entry /\ e.old = q.old /\ e.last = q.new
  BY <1>q, <1>2 DEF Entry
<1>4. history' = Append(history, e) /\ row' = row /\ requests' = [requests EXCEPT ![r] = s]
  BY <1>2 DEF Records, Slot
<1>5. /\ Len(history') = Len(history) + 1 /\ Len(history) \in Nat
      /\ \A i \in 1..Len(history) : history'[i] = history[i]
      /\ history'[Len(history) + 1] = e
      /\ history # <<>> => Len(history) # 0
  BY <1>q, <1>3, <1>4
<1>6. StatusesOf(history)' = StatusesOf(history) \cup {q.new}
  BY <1>q, <1>3, <1>4, StatusesAppend
<1>7. Latest' = q.new /\ ~Blank' /\ (Carried' <=> Carried \/ q.new = "In Transit")
  <2>1. history' # <<>>
    BY <1>5
  <2> QED
    BY <1>3, <1>5, <1>6, <2>1 DEF Latest, LastOf, Blank, Carried
<1>8. HistoryChained'
  <2> SUFFICES ASSUME NEW i \in 2..Len(history')
               PROVE  /\ history'[i].old \in {history'[i - 1].last, NoStatus}
                      /\ history'[i].last # history'[i - 1].last
    BY DEF HistoryChained
  <2>1. CASE i \in 2..Len(history)
    <3>1. i \in 1..Len(history) /\ i - 1 \in 1..Len(history)
      BY <1>5, <2>1
    <3>2. history'[i] = history[i] /\ history'[i - 1] = history[i - 1]
      BY <1>5, <3>1
    <3> QED
      BY <2>1, <3>2 DEF SeqInv, HistoryChained
  <2>2. CASE i = Len(history) + 1
    <3>1. Len(history) \in 1..Len(history) /\ i - 1 = Len(history)
      BY <1>5, <2>2
    <3>2. history'[i] = e /\ history'[i - 1] = history[Len(history)]
      BY <1>5, <2>2, <3>1
    <3>3. ~Blank
      BY <1>5, <3>1 DEF Blank
    <3>4. q.old \in {Latest, NoStatus} /\ q.new # Latest
      BY <1>1, <3>3 DEF ToRecord
    <3> QED
      BY <1>3, <3>2, <3>4 DEF Latest, LastOf
  <2>3. i \in 2..Len(history) \/ i = Len(history) + 1
    BY <1>5
  <2> QED
    BY <2>1, <2>2, <2>3
<1>9. /\ s.pc = "settle" /\ s.kind = q.kind /\ s.mem = q.mem /\ s.old = q.old
      /\ s.new = q.new /\ s.todo = q.todo
  BY DEF Records
<1>10. requests'[r] = s /\ \A t \in Requests : t = r
  BY <1>4 DEF OneAtATime, TypeInv, TypeOK
<1>11. ToSettle(row, requests[r])'
  BY <1>1, <1>4, <1>7, <1>9, <1>10 DEF ToSettle, ToRecord, BornPreBooking
<1>12. Closing(row, requests[r])' \/ s.kind # "fpCancel"
  BY <1>q, <1>1, <1>9, <1>10 DEF Closing, Working
<1>13. Working(row, requests[r])'
  BY <1>1, <1>4, <1>9, <1>10, <1>11, <1>12 DEF Working, Grown
<1> QED
  BY <1>8, <1>9, <1>10, <1>13 DEF SeqInv, HalfWay

\* Lemma: the invariant is inductive.
LEMMA SeqInvariant ==
    ASSUME OneAtATime
    PROVE  Spec => []SeqInv
<1>1. Init => SeqInv
  <2> SUFFICES ASSUME Init PROVE SeqInv
    OBVIOUS
  <2>1. PICK s \in Origins : row = [NoRow EXCEPT !.status = s, !.category = Category(s)]
    BY DEF Init
  <2>2. row.status = s /\ row.lock = FALSE
    BY <2>1 DEF NoRow
  <2>3. history = <<>>
    BY DEF Init
  <2>4. BornPreBooking => s \notin {"In Transit", "Booked"}
    BY DEF BornPreBooking, Category
  <2>5. ~Carried
    BY <2>3 DEF Carried, StatusesOf
  <2>6. Rest(row)
    BY <2>2, <2>3, <2>4, <2>5 DEF Rest, Blank
  <2>7. HistoryChained
    BY <2>3 DEF HistoryChained
  <2>8. \A r \in Requests : requests[r].pc = "idle"
    BY IdleType DEF Init
  <2> QED
    BY <2>6, <2>7, <2>8 DEF SeqInv
<1>2. TypeInv /\ KindInv /\ SeqInv /\ [Next]_vars => SeqInv'
  <2> SUFFICES ASSUME TypeInv, KindInv, SeqInv, [Next]_vars PROVE SeqInv'
    OBVIOUS
  <2>p. \A r \in Requests : requests[r].pc = "poll" => requests[r].kind = "track"
    BY DEF SeqInv, Working
  <2>1. CASE FpStep
    <3>1. row' = row /\ history' = history /\ requests' = requests
      BY <2>1 DEF FpStep
    <3>2. /\ HistoryChained' <=> HistoryChained
          /\ Rest(row)' <=> Rest(row)
          /\ HalfWay' <=> HalfWay
      BY <3>1 DEF HistoryChained, HalfWay, Rest, Blank, Latest, Carried, LastOf, StatusesOf,
         BornPreBooking
    <3>3. ASSUME NEW r \in Requests
          PROVE  Working(row, requests[r])' <=> Working(row, requests[r])
      BY <3>1 DEF Working, ToRecord, ToSettle, Closing, Grown, Blank, Latest, Carried, LastOf,
         StatusesOf, BornPreBooking
    <3> QED
      BY <3>1, <3>2, <3>3 DEF SeqInv
  <2>2. ASSUME NEW r \in Requests, NEW s \in Request, Does(r, s) PROVE SeqInv'
    BY <2>2, OpensStep, CarriesStep, FinishesStep, CreatesStep, RecordsStep, SettlesStep
       DEF Does
  <2> QED
    BY <2>p, <2>1, <2>2, StepDoes
<1> QED
  BY <1>1, <1>2, TypeInvariant, KindInvariant, PTL DEF Spec

\* The status history is a chain: each entry starts from the status the one
\* before it ended with, or from the missing one, and no status follows itself.
THEOREM HistoryIsChained ==
    ASSUME OneAtATime
    PROVE  Spec => []HistoryChained
<1>1. SeqInv => HistoryChained
  BY DEF SeqInv
<1> QED
  BY <1>1, SeqInvariant, PTL

\* Lemma: between requests.
LEMMA Resting ==
    ASSUME SeqInv, Quiet
    PROVE  Rest(row)
  BY DEF SeqInv, Quiet, Busy, HalfWay

\* Between requests the booking shows the status its history ends with, or the
\* missing one that an unmapped event of the FP leaves.
THEOREM StatusIsTheLast ==
    ASSUME OneAtATime
    PROVE  Spec => []StatusIsLast
<1>1. SeqInv => StatusIsLast
  BY Resting DEF StatusIsLast, Rest, Blank, Latest
<1> QED
  BY <1>1, SeqInvariant, PTL

\* Between requests the booking has the category of the status its history ends
\* with: post_new_status has brought it up to date.
THEOREM CategoryIsCurrent ==
    ASSUME OneAtATime
    PROVE  Spec => []CategoryFollows
<1>1. SeqInv => CategoryFollows
  BY Resting DEF CategoryFollows, Rest, Blank, Latest
<1> QED
  BY <1>1, SeqInvariant, PTL

\* Once its history has the status "In Transit", a booking that was created
\* before it was booked says when it was given to transport, and keeps saying so.
THEOREM TransitIsStamped ==
    ASSUME OneAtATime, BornPreBooking
    PROVE  Spec => []TransitStamped
<1>1. SeqInv => TransitStamped
  BY Resting DEF TransitStamped, Rest, Carried
<1> QED
  BY <1>1, SeqInvariant, PTL

\* A booking that is booked has its booked date, whichever handler booked it,
\* although save() chooses what to write before the date is stamped.
THEOREM BookedIsDated ==
    ASSUME OneAtATime, BornPreBooking
    PROVE  Spec => []BookedHasDate
<1>1. SeqInv => BookedHasDate
  BY Resting DEF BookedHasDate, Rest
<1> QED
  BY <1>1, SeqInvariant, PTL

\* A delivered booking stays delivered and locked: no handler that goes through
\* create() gives it another status or takes the lock away.
THEOREM LockForGood ==
    ASSUME OneAtATime
    PROVE  Spec => LockIsFinal
<1>1. TypeInv /\ KindInv /\ SeqInv /\ [Next]_vars
          => [row.lock => row'.lock /\ row'.status = row.status]_vars
  <2> SUFFICES ASSUME TypeInv, KindInv, SeqInv, [Next]_vars, row.lock
               PROVE  row'.lock /\ row'.status = row.status
    OBVIOUS
  <2>p. \A r \in Requests : requests[r].pc = "poll" => requests[r].kind = "track"
    BY DEF SeqInv, Working
  <2>1. CASE FpStep
    BY <2>1 DEF FpStep
  <2>2. ASSUME NEW r \in Requests, NEW s \in Request, Does(r, s)
        PROVE  row'.lock /\ row'.status = row.status
    <3> DEFINE q == requests[r]
    <3>q. q.mem \in Row /\ row \in Row
      BY RequestFields DEF TypeInv, TypeOK
    <3>w. q.pc # "idle" =>
              /\ q.mem.lock = row.lock /\ q.mem.status = row.status /\ q.kind \in CreateKinds
              /\ q.pc # "settle"
      BY Alone DEF Working, Grown, ToSettle, OneAtATime
    <3>1. CASE Opens(r, s) \/ Records(r, s)
      BY <3>1 DEF Opens, Records
    <3>2. CASE Carries(r, s)
      BY <3>2, <3>w DEF Carries
    <3>3. CASE Finishes(r, s)
      BY <3>3, <3>q, <3>w DEF Finishes, Finished, Row, CreateKinds
    <3>4. CASE Creates(r, s)
      BY <3>4, <3>w DEF Creates
    <3>5. CASE Settles(r, s)
      BY <3>5, <3>w DEF Settles
    <3> QED
      BY <2>2, <3>1, <3>2, <3>3, <3>4, <3>5 DEF Does
  <2> QED
    BY <2>p, <2>1, <2>2, StepDoes
<1> QED
  BY <1>1, SeqInvariant, TypeInvariant, KindInvariant, PTL DEF Spec, LockIsFinal

-----------------------------------------------------------------------------
(* What has been cancelled at the FP.                                      *)

\* Lemma: what is left of a list, and what is at its head.
LEMMA NotClosingParts ==
    ASSUME NEW todo \in Seq(AnyStatus), todo # <<>>, NotClosing(todo)
    PROVE  /\ NotClosing(Tail(todo))
           /\ Head(todo) # "Closed"
           /\ LastOf(todo) # "Closed"
<1>1. Len(todo) \in 1..Len(todo) /\ 1 \in 1..Len(todo)
  <2>1. Len(todo) \in 1..Len(todo)
    BY LastIndex
  <2> QED
    BY <2>1
<1>2. Head(todo) # "Closed" /\ LastOf(todo) # "Closed"
  BY <1>1 DEF NotClosing, LastOf
<1>3. /\ Len(Tail(todo)) = Len(todo) - 1
      /\ \A i \in 1..Len(Tail(todo)) : Tail(todo)[i] = todo[i + 1] /\ i + 1 \in 1..Len(todo)
  BY <1>1
<1>4. NotClosing(Tail(todo))
  BY <1>3 DEF NotClosing
<1> QED
  BY <1>2, <1>4

\* Lemma: a step of one request.
LEMMA ClosedSlot ==
    ASSUME OneAtATime, TypeInv, NEW r \in Requests, NEW s,
           requests' = [requests EXCEPT ![r] = s], NotClosing(fpLog), fpLog' = fpLog,
           live' \subseteq 1..issued', row'.pickup <= issued',
           row'.status = "Closed" => row'.pickup \notin live',
           NEW l, NEW n, l = live', n = issued',
           s.pc = "idle" \/ FpWork(l, n, s)
    PROVE  ClosedInv'
<1>0. requests'[r] = s /\ \A t \in Requests : t = r
  BY DEF OneAtATime, TypeInv, TypeOK
<1>1. s.pc # "idle" => FpWork(live, issued, requests[r])'
  BY <1>0 DEF FpWork, NotClosing
<1>2. NotClosing(fpLog)'
  BY DEF NotClosing
<1> QED
  BY <1>0, <1>1, <1>2 DEF ClosedInv

\* Lemma: the FP's side of every step.
LEMMA ClosedStep ==
    ASSUME OneAtATime, ClosedByFpOnly, TypeInv, SeqInv, ClosedInv,
           NEW r \in Requests, NEW s \in Request, Does(r, s)
    PROVE  ClosedInv'
<1> DEFINE q == requests[r]
<1>q. /\ q.mem \in Row /\ row \in Row /\ q.todo \in Seq(AnyStatus) /\ q.log \in Seq(AnyStatus)
      /\ s.mem \in Row /\ issued \in Nat /\ live \subseteq 1..issued
      /\ row.pickup \in Nat /\ q.mem.pickup \in Nat /\ s.mem.pickup \in Nat
      /\ PhaseOK(q)
  BY RequestFields DEF TypeInv, TypeOK, ClosedInv, Row, Request
<1>c. /\ NotClosing(fpLog) /\ row.pickup <= issued
      /\ row.status = "Closed" => row.pickup \notin live
      /\ q.pc # "idle" => FpWork(live, issued, q)
  BY DEF ClosedInv
<1>w. q.pc # "idle" => Working(row, q)
  BY Alone
<1>f. requests' = [requests EXCEPT ![r] = s] /\ fpLog' = fpLog
  BY DEF Does, Opens, Carries, Finishes, Creates, Records, Settles, Slot
<1>i. Idle.pc = "idle"
  BY IdleType
<1>n. NotClosing(<<>>)
  BY OwnStatuses
<1>1. PICK l, n, y : l = live' /\ n = issued' /\ y = row'
  OBVIOUS
<1>2. SUFFICES /\ l \subseteq 1..n /\ y.pickup <= n
               /\ y.status = "Closed" => y.pickup \notin l
               /\ s.pc = "idle" \/ FpWork(l, n, s)
  BY <1>c, <1>f, <1>1, ClosedSlot
<1>3. CASE Opens(r, s)
  <2>1. y = row /\ l = live /\ n = issued /\ s.mem.pickup = row.pickup /\ s.mem.status = row.status
    BY <1>q, <1>1, <1>3 DEF Opens, Row
  <2>2. FpWork(l, n, s)
    BY <1>c, <1>n, <1>3, <2>1 DEF Opens, FpWork
  <2> QED
    BY <1>q, <1>c, <2>1, <2>2
<1>4. CASE Finishes(r, s)
  <2>1. q.pc = "finish" /\ l = live /\ n = issued /\ y = Finished(q)
    BY <1>1, <1>4 DEF Finishes
  <2>2. q.kind \in CreateKinds /\ FpWork(live, issued, q)
    BY <1>c, <1>w, <2>1 DEF Working, OneAtATime
  <2>3. y.status = q.mem.status /\ y.pickup = q.mem.pickup
    BY <1>q, <2>1, <2>2 DEF Finished, Row, CreateKinds
  <2>4. s.pc = "idle" \/ FpWork(l, n, s)
    BY <1>i, <1>4, <2>1, <2>2 DEF Finishes, FpWork, Grown
  <2> QED
    BY <1>q, <2>1, <2>2, <2>3, <2>4 DEF FpWork
<1>5. CASE Records(r, s)
  <2>1. q.pc = "record" /\ l = live /\ n = issued /\ y = row
    BY <1>1, <1>5 DEF Records
  <2>2. FpWork(l, n, s)
    BY <1>c, <1>5, <2>1 DEF Records, FpWork
  <2> QED
    BY <1>q, <1>c, <2>1, <2>2
<1>6. CASE Settles(r, s)
  <2>1. q.pc = "settle" /\ l = live /\ n = issued /\ FpWork(live, issued, q)
    BY <1>1, <1>c, <1>6 DEF Settles
  <2>2. CASE y = row /\ s = Idle
    BY <1>q, <1>c, <1>i, <2>1, <2>2
  <2>3. CASE y = Settled(q) /\ Onward(q, s, Settled(q), q.todo)
    <3>1. y.status = q.mem.status /\ y.pickup = q.mem.pickup
      BY <1>q, <2>3 DEF Settled, Row
    <3>2. s.pc = "idle" \/ FpWork(l, n, s)
      BY <1>i, <2>1, <2>3, <3>1 DEF Onward, FpWork
    <3> QED
      BY <1>q, <2>1, <3>1, <3>2 DEF FpWork
  <2> QED
    BY <1>1, <1>6, <2>2, <2>3 DEF Settles
<1>7. CASE Creates(r, s)
  <2>1. q.pc = "create" /\ l = live /\ n = issued /\ FpWork(live, issued, q) /\ Working(row, q)
    BY <1>1, <1>c, <1>w, <1>7 DEF Creates
  <2>2. PICK new, todo : new = Head(q.todo) /\ todo = Tail(q.todo)
    OBVIOUS
  <2>3. q.kind # "fpCancel" => new # "Closed" /\ NotClosing(todo)
    BY <1>q, <2>1, <2>2, NotClosingParts DEF FpWork, PhaseOK
  <2>4. q.kind = "fpCancel" => q.mem.pickup \notin l
    BY <2>1 DEF FpWork
  <2>5. CASE q.mem.lock
    <3>1. y = row /\ Onward(q, s, q.mem, todo)
      BY <1>1, <1>7, <2>2, <2>5 DEF Creates
    <3>2. q.mem.status = "Delivered"
      <4>1. Rest(row)
        BY <2>1, Alone
      <4> QED
        BY <2>1, <2>5, <4>1 DEF Working, Grown, Rest
    <3>3. s.pc = "idle" \/ FpWork(l, n, s)
      BY <1>i, <2>1, <2>3, <2>4, <3>1, <3>2 DEF Onward, FpWork
    <3> QED
      BY <1>q, <1>c, <2>1, <3>1, <3>3
  <2>6. CASE ~q.mem.lock
    <3> DEFINE copy == [q.mem EXCEPT !.status = new]
    <3>1. y = copy
      BY <1>1, <1>7, <2>2, <2>6 DEF Creates
    <3>v. new \in AnyStatus
      BY <1>q, <2>1, <2>2 DEF PhaseOK
    <3>2. y.status = new /\ y.pickup = q.mem.pickup /\ y \in Row
      BY <1>q, <3>1, <3>v DEF Row
    <3>3. PICK stamp : stamp = Stamped(row, y)
      OBVIOUS
    <3>4. stamp.status = new /\ stamp.pickup = q.mem.pickup
      BY <1>q, <3>2, <3>3, StampedGrows DEF Grown
    <3>5. \/ Onward(q, s, stamp, todo)
          \/ /\ s.pc = "record" /\ s.kind = q.kind /\ s.mem = stamp /\ s.new = new
             /\ s.todo = todo /\ s.log = q.log
      BY <1>7, <2>2, <2>6, <3>1, <3>3 DEF Creates
    <3>6. new # "Closed" \/ q.mem.pickup \notin l
      BY <2>3, <2>4
    <3>7. q.mem.pickup <= n /\ NotClosing(q.log)
      BY <2>1 DEF FpWork
    <3>8. s.pc = "idle" \/ FpWork(l, n, s)
      BY <1>i, <2>3, <2>4, <3>4, <3>5, <3>6, <3>7 DEF Onward, FpWork
    <3> QED
      BY <1>q, <2>1, <3>2, <3>6, <3>7, <3>8
  <2> QED
    BY <2>5, <2>6
<1>8. CASE Carries(r, s)
  <2>1. q.pc \notin {"idle", "create", "record", "settle"} /\ y \in {row, q.mem}
    BY <1>1, <1>8 DEF Carries
  <2>2. FpWork(live, issued, q) /\ Grown(row, q.mem)
    BY <1>c, <1>w, <2>1 DEF Working
  <2>3. q.mem.pickup <= issued /\ (q.mem.status = "Closed" => q.mem.pickup \notin live)
    BY <2>1, <2>2 DEF FpWork
  <2>4. y.pickup <= issued /\ (y.status = "Closed" => y.pickup \notin live) /\ y.pickup \in Nat
    BY <1>q, <1>c, <2>1, <2>3
  <2>5. CASE s = Idle /\ UNCHANGED <<live, issued>>
    BY <1>q, <1>i, <1>1, <2>4, <2>5
  <2>6. CASE /\ s.kind = q.kind /\ s.pc \in {"create", "finish", "poll"}
             /\ Grown(q.mem, s.mem)
             /\ s.kind = "fpCancel" => s.pc = "create" /\ s.todo = <<"Closed">>
             /\ s.log \in {q.log, fpLog, <<>>}
             /\ s.pc = "create" /\ s.kind # "fpCancel" =>
                    \/ NotClosing(s.todo)
                    \/ q.pc = "poll" /\ q.log # <<>> /\ s.todo = <<LastOf(q.log)>>
             /\ Asks(q, s)
    <3>1. NotClosing(s.log) /\ s.mem.status = q.mem.status /\ NotClosing(q.log)
      BY <1>c, <1>n, <2>2, <2>6 DEF FpWork, Grown
    <3>2. s.pc = "create" /\ s.kind # "fpCancel" => NotClosing(s.todo)
      <4>1. CASE q.log # <<>> /\ s.todo = <<LastOf(q.log)>>
        BY <1>q, <3>1, <4>1, NotClosingParts, OwnStatuses
      <4> QED
        BY <2>6, <4>1
    <3>3. CASE UNCHANGED <<live, issued>> /\ s.mem.pickup = q.mem.pickup /\ s.kind # "fpCancel"
      <4>1. FpWork(l, n, s)
        BY <1>1, <2>3, <2>6, <3>1, <3>2, <3>3 DEF FpWork
      <4> QED
        BY <1>q, <1>1, <2>4, <3>3, <4>1
    <3>4. CASE /\ issued' = issued + 1 /\ live' = live \cup {issued + 1} /\ row' = row
               /\ s.mem.pickup = issued + 1
               /\ s.pc = "create" /\ s.kind \in {"book", "editBook", "rebook"}
      <4>1. FpWork(l, n, s)
        BY <1>q, <1>1, <3>1, <3>2, <3>4 DEF FpWork
      <4>2. l \subseteq 1..n /\ y.pickup <= n /\ (y.status = "Closed" => y.pickup \notin l)
        BY <1>q, <1>1, <2>4, <3>4
      <4> QED
        BY <4>1, <4>2
    <3>5. CASE /\ issued' = issued /\ live' = live \ {q.mem.pickup} /\ row' = row
               /\ s.mem.pickup = q.mem.pickup
               /\ s.kind = "fpCancel"
      <4>1. FpWork(l, n, s)
        BY <1>1, <2>3, <2>6, <3>1, <3>5 DEF FpWork
      <4> QED
        BY <1>q, <1>1, <2>4, <3>5, <4>1
    <3> QED
      BY <2>6, <3>3, <3>4, <3>5 DEF Asks
  <2> QED
    BY <1>8, <2>5, <2>6 DEF Carries
<1> QED
  BY <1>3, <1>4, <1>5, <1>6, <1>7, <1>8 DEF Does

\* A booking that is closed names a consignment that is not live at the FP: it
\* is closed after the FP has cancelled it, and nothing opens it again but a new
\* consignment.
THEOREM ClosedIsCancelled ==
    ASSUME OneAtATime, ClosedByFpOnly
    PROVE  Spec => []ClosedAtFp
<1>1. Init => ClosedInv
  <2> SUFFICES ASSUME Init PROVE ClosedInv
    OBVIOUS
  <2>1. PICK s \in Origins : row = [NoRow EXCEPT !.status = s, !.category = Category(s)]
    BY DEF Init
  <2>2. row.status = s /\ row.pickup = 0
    BY <2>1 DEF NoRow
  <2>3. \A r \in Requests : requests[r].pc = "idle"
    BY IdleType DEF Init
  <2>4. NotClosing(fpLog)
    BY DEF Init, NotClosing
  <2> QED
    BY <2>2, <2>3, <2>4 DEF Init, ClosedInv
<1>2. TypeInv /\ KindInv /\ SeqInv /\ ClosedInv /\ [Next]_vars => ClosedInv'
  <2> SUFFICES ASSUME TypeInv, KindInv, SeqInv, ClosedInv, [Next]_vars PROVE ClosedInv'
    OBVIOUS
  <2>p. \A r \in Requests : requests[r].pc = "poll" => requests[r].kind = "track"
    BY DEF SeqInv, Working
  <2>1. CASE FpStep
    <3>1. row' = row /\ requests' = requests /\ live' = live /\ issued' = issued
      BY <2>1 DEF FpStep
    <3>2. NotClosing(fpLog)'
      <4>1. CASE fpLog' = fpLog
        BY <4>1 DEF ClosedInv, NotClosing
      <4>2. ASSUME NEW s \in FpStatuses, fpLog' = Append(fpLog, s) PROVE NotClosing(fpLog)'
        <5>1. s # "Closed" /\ s \in AnyStatus
          BY FpAssumption DEF ClosedByFpOnly, FpAssumption
        <5>2. /\ Len(fpLog') = Len(fpLog) + 1 /\ Len(fpLog) \in Nat
              /\ \A i \in 1..Len(fpLog) : fpLog'[i] = fpLog[i]
              /\ fpLog'[Len(fpLog) + 1] = s
          BY <4>2, <5>1 DEF TypeInv, TypeOK
        <5>3. \A i \in 1..Len(fpLog') : i \in 1..Len(fpLog) \/ i = Len(fpLog) + 1
          BY <5>2
        <5> QED
          BY <5>1, <5>2, <5>3 DEF ClosedInv, NotClosing
      <4> QED
        BY <2>1, <4>1, <4>2 DEF FpStep
    <3>3. ASSUME NEW r \in Requests, FpWork(live, issued, requests[r])
          PROVE  FpWork(live, issued, requests[r])'
      BY <3>1, <3>3 DEF FpWork, NotClosing
    <3> QED
      BY <3>1, <3>2, <3>3 DEF ClosedInv
  <2>2. ASSUME NEW r \in Requests, NEW s \in Request, Does(r, s) PROVE ClosedInv'
    BY <2>2, ClosedStep
  <2> QED
    BY <2>p, <2>1, <2>2, StepDoes
<1>3. ClosedInv => ClosedAtFp
  BY DEF ClosedInv, ClosedAtFp
<1> QED
  BY <1>1, <1>2, <1>3, SeqInvariant, TypeInvariant, KindInvariant, PTL DEF Spec

=============================================================================

------------------------ MODULE BookingStatusProofs ------------------------
(***************************************************************************)
(* Theorems about BookingStatus, for every value of its constants: any     *)
(* number of concurrent requests, any statuses, any bounds.                *)
(***************************************************************************)
EXTENDS BookingStatus, TLAPS

-----------------------------------------------------------------------------
(* Type correctness.                                                       *)

\* A request that is about to call create() has a status to set, and one that
\* is about to record tracking events has some.
PhaseOK(q) ==
    /\ q.pc = "create" => q.todo # <<>>
    /\ q.pc = "poll" => q.log # <<>>

TypeInv == TypeOK /\ \A r \in Requests : PhaseOK(requests[r])

\* The shape of every action on a request: one slot changes.
LEMMA SlotUpdate ==
    ASSUME requests \in [Requests -> Request],
           \A s \in Requests : PhaseOK(requests[s]),
           NEW r \in Requests, NEW q \in Request, PhaseOK(q),
           requests' = [requests EXCEPT ![r] = q]
    PROVE  /\ requests' \in [Requests -> Request]
           /\ \A s \in Requests : PhaseOK(requests[s])'
  BY DEF PhaseOK

\* The empty slot is a request.
LEMMA IdleType == Idle \in Request /\ PhaseOK(Idle) /\ Idle.pc = "idle"
  BY DEF Idle, Request, PhaseOK, Phases, NoRow, Row, AnyStatus, NoStatus, Categories,
         NoCategory

\* What a request becomes between two calls of create(), or after the last.
LEMMA AfterCreateType ==
    ASSUME NEW q \in Request, NEW todo \in Seq(AnyStatus)
    PROVE  AfterCreate(q, todo) \in Request /\ PhaseOK(AfterCreate(q, todo))
  <1>1. CASE todo # <<>>
    BY <1>1 DEF AfterCreate, Request, Phases, PhaseOK
  <1>2. CASE todo = <<>> /\ q.kind \in Trailing
    BY <1>2 DEF AfterCreate, Request, Phases, PhaseOK
  <1>3. CASE todo = <<>> /\ q.kind \notin Trailing
    BY <1>3, IdleType DEF AfterCreate
  <1>4. QED
    BY <1>1, <1>2, <1>3

\* A category is a category.
LEMMA CategoryType == \A s : Category(s) \in Categories
  BY DEF Category, Categories, NoCategory

\* The pre_save stamp keeps a row a row.
LEMMA StampedType ==
    ASSUME NEW before \in Row, NEW copy \in Row
    PROVE  Stamped(before, copy) \in Row
  BY DEF Stamped, Row

\* Starting a handler.
LEMMA FreshType ==
    ASSUME row \in Row,
           NEW kind \in CreateKinds \cup DirectKinds, NEW pc \in Phases,
           NEW todo \in Seq(AnyStatus)
    PROVE  Fresh(kind, pc, todo) \in Request
  BY IdleType DEF Fresh, Request, Idle

\* Ending a request.
LEMMA EndType ==
    ASSUME TypeInv, NEW r \in Requests, End(r)
    PROVE  /\ requests' \in [Requests -> Request]
           /\ \A s \in Requests : PhaseOK(requests[s])'
  BY IdleType, SlotUpdate DEF End, TypeInv, TypeOK

\* Starting a handler, whichever it is.
RequestsTyped ==
    requests \in [Requests -> Request] /\ \A s \in Requests : PhaseOK(requests[s])

LEMMA StartType ==
    ASSUME TypeInv, NEW r \in Requests,
           NEW kind \in CreateKinds \cup DirectKinds, NEW pc \in Phases \ {"poll"},
           NEW todo \in Seq(AnyStatus), pc = "create" => todo # <<>>,
           Start(r, kind, pc, todo)
    PROVE  RequestsTyped'
  <1>1. Fresh(kind, pc, todo) \in Request /\ PhaseOK(Fresh(kind, pc, todo))
    BY FreshType DEF PhaseOK, Fresh, Idle, TypeInv, TypeOK
  <1>2. QED
    BY <1>1, SlotUpdate DEF Start, TypeInv, TypeOK, RequestsTyped

\* The steps that start a handler change nothing but its slot.
LEMMA LoadUnchanged ==
    ASSUME NEW r \in Requests, Load(r)
    PROVE  UNCHANGED <<row, history, fpLog, live, issued, seen, crashes>>
  <1>1. CASE BookLoad(r)
    BY <1>1 DEF BookLoad, bookingVars, fpVars
  <1>2. CASE RebookLoad(r)
    BY <1>2 DEF RebookLoad, bookingVars, fpVars
  <1>3. CASE EditBookLoad(r)
    BY <1>3 DEF EditBookLoad, bookingVars, fpVars
  <1>4. CASE FpCancelLoad(r)
    BY <1>4 DEF FpCancelLoad, bookingVars, fpVars
  <1>5. CASE TrackLoad(r)
    BY <1>5 DEF TrackLoad, bookingVars, fpVars
  <1>6. CASE PlainBookLoad(r)
    BY <1>6 DEF PlainBookLoad, bookingVars, fpVars
  <1>7. CASE OpCancelLoad(r)
    BY <1>7 DEF OpCancelLoad, bookingVars, fpVars
  <1>8. CASE ChangeLoad(r)
    BY <1>8 DEF ChangeLoad, bookingVars, fpVars
  <1>15. CASE SaveHistoryLoad(r)
    BY <1>15 DEF SaveHistoryLoad, bookingVars, fpVars
  <1>9. CASE ManualBookLoad(r)
    BY <1>9 DEF ManualBookLoad, bookingVars, fpVars
  <1>10. CASE ReadyLoad(r)
    BY <1>10 DEF ReadyLoad, bookingVars, fpVars
  <1>11. CASE ScanLoad(r)
    BY <1>11 DEF ScanLoad, bookingVars, fpVars
  <1>12. CASE FormLoad(r)
    BY <1>12 DEF FormLoad, bookingVars, fpVars
  <1>13. CASE EditLoad(r)
    BY <1>13 DEF EditLoad, bookingVars, fpVars
  <1>14. QED
    BY <1>1, <1>2, <1>3, <1>4, <1>5, <1>6, <1>7, <1>8, <1>9, <1>10, <1>11, <1>12, <1>13,
       <1>15 DEF Load

LEMMA LoadType ==
    ASSUME TypeInv, NEW r \in Requests, Load(r)
    PROVE  RequestsTyped'
  <1>k. /\ {"book", "rebook", "editBook", "fpCancel", "track", "plainBook", "opCancel",
            "manual", "ready", "scan", "form", "change", "saveHistory", "editHistory"}
               \subseteq CreateKinds \cup DirectKinds
        /\ {"call", "finish", "create", "print", "form", "editBooking"} \subseteq Phases \ {"poll"}
    BY DEF CreateKinds, DirectKinds, Phases
  <1>s. /\ {"Cancelled", "Booked", "Ready for Booking"} \subseteq AnyStatus
        /\ Targets \subseteq AnyStatus
    BY TargetsAssumption DEF AnyStatus, Statuses, TargetsAssumption
  <1>t. /\ <<>> \in Seq(AnyStatus)
        /\ \A s \in AnyStatus : <<s>> \in Seq(AnyStatus)
    OBVIOUS
  <1>1. CASE BookLoad(r)
    <2>1. Start(r, "book", "call", <<>>)
      BY <1>1 DEF BookLoad
    <2>2. QED
      BY <1>k, <1>s, <1>t, <2>1, StartType
  <1>2. CASE RebookLoad(r)
    <2>1. Start(r, "rebook", "call", <<>>)
      BY <1>2 DEF RebookLoad
    <2>2. QED
      BY <1>k, <1>s, <1>t, <2>1, StartType
  <1>3. CASE EditBookLoad(r)
    <2>1. Start(r, "editBook", "call", <<>>)
      BY <1>3 DEF EditBookLoad
    <2>2. QED
      BY <1>k, <1>s, <1>t, <2>1, StartType
  <1>4. CASE FpCancelLoad(r)
    <2>1. Start(r, "fpCancel", "call", <<>>)
      BY <1>4 DEF FpCancelLoad
    <2>2. QED
      BY <1>k, <1>s, <1>t, <2>1, StartType
  <1>5. CASE TrackLoad(r)
    <2>1. Start(r, "track", "call", <<>>)
      BY <1>5 DEF TrackLoad
    <2>2. QED
      BY <1>k, <1>s, <1>t, <2>1, StartType
  <1>6. CASE PlainBookLoad(r)
    <2>1. Start(r, "plainBook", "finish", <<>>)
      BY <1>6 DEF PlainBookLoad
    <2>2. QED
      BY <1>k, <1>s, <1>t, <2>1, StartType
  <1>7. CASE OpCancelLoad(r)
    <2>1. \/ Start(r, "opCancel", "create", <<"Cancelled">>)
          \/ Start(r, "opCancel", "print", <<>>)
      BY <1>7 DEF OpCancelLoad
    <2>2. CASE Start(r, "opCancel", "create", <<"Cancelled">>)
      BY <1>k, <1>s, <1>t, <2>2, StartType
    <2>3. CASE Start(r, "opCancel", "print", <<>>)
      BY <1>k, <1>s, <1>t, <2>3, StartType
    <2>4. QED
      BY <2>1, <2>2, <2>3
  <1>8. CASE ManualBookLoad(r)
    <2>1. Start(r, "manual", "create", <<"Booked">>)
      BY <1>8 DEF ManualBookLoad
    <2>2. QED
      BY <1>k, <1>s, <1>t, <2>1, StartType
  <1>9. CASE ReadyLoad(r)
    <2>1. Start(r, "ready", "create", <<"Ready for Booking">>)
      BY <1>9 DEF ReadyLoad
    <2>2. QED
      BY <1>k, <1>s, <1>t, <2>1, StartType
  <1>10. CASE ScanLoad(r)
    <2>1. Start(r, "scan", "print", <<>>)
      BY <1>10 DEF ScanLoad
    <2>2. QED
      BY <1>k, <1>s, <1>t, <2>1, StartType
  <1>11. CASE FormLoad(r)
    <2>1. Start(r, "form", "form", <<>>)
      BY <1>11 DEF FormLoad
    <2>2. QED
      BY <1>k, <1>s, <1>t, <2>1, StartType
  <1>12. CASE ChangeLoad(r)
    <2>1. PICK s \in Targets : requests' = [requests EXCEPT ![r] =
              [Fresh("change", "create", <<s>>) EXCEPT !.mem.given = @ \/ s = "In Transit"]]
      BY <1>12 DEF ChangeLoad
    <2> DEFINE fresh == Fresh("change", "create", <<s>>)
               mem == [row EXCEPT !.given = @ \/ s = "In Transit"]
               q == [fresh EXCEPT !.mem = mem]
    <2>2. <<s>> \in Seq(AnyStatus) /\ <<s>> # <<>>
      BY <1>s, <1>t
    <2>3. /\ fresh \in Request /\ fresh.pc = "create" /\ fresh.todo = <<s>>
          /\ fresh.mem = row
      BY FreshType, <1>k, <2>2 DEF TypeInv, TypeOK, Fresh, Idle
    <2>4. mem \in Row
      BY DEF TypeInv, TypeOK, Row
    <2>5. requests' = [requests EXCEPT ![r] = q]
      <3> HIDE DEF fresh
      <3>1. [fresh EXCEPT !.mem.given = @ \/ s = "In Transit"] = q
        BY <2>3 DEF Request
      <3>2. QED
        BY <2>1, <3>1 DEF fresh
    <2> HIDE DEF fresh, mem
    <2>6. q \in Request /\ PhaseOK(q)
      BY <2>2, <2>3, <2>4 DEF Request, PhaseOK
    <2> HIDE DEF q
    <2>7. QED
      BY <2>5, <2>6, SlotUpdate DEF TypeInv, TypeOK, RequestsTyped
  <1>15. CASE SaveHistoryLoad(r)
    <2>1. PICK s \in Targets : Start(r, "saveHistory", "create", <<s>>)
      BY <1>15 DEF SaveHistoryLoad
    <2>2. QED
      BY <1>k, <1>s, <1>t, <2>1, StartType
  <1>13. CASE EditLoad(r)
    <2> DEFINE fresh == Fresh("editHistory", "editBooking", <<>>)
    <2>1. PICK i \in 1..Len(history) : requests' = [requests EXCEPT ![r] =
              [fresh EXCEPT !.at = i, !.old = history[i].last]]
      BY <1>13 DEF EditLoad
    <2>2. fresh \in Request
      BY FreshType, <1>k, <1>t DEF TypeInv, TypeOK
    <2>p. fresh.pc = "editBooking"
      BY DEF Fresh, Idle
    <2>e. history[i] \in Entry /\ i \in Nat
      BY DEF TypeInv, TypeOK
    <2>3. history[i].last \in AnyStatus /\ i \in Nat
      BY <2>e DEF Entry
    <2> DEFINE q == [fresh EXCEPT !.at = i, !.old = history[i].last]
    <2> HIDE DEF fresh
    <2>4. q \in Request /\ q.pc = "editBooking"
      BY <2>2, <2>p, <2>3 DEF Request
    <2>5. PhaseOK(q)
      BY <2>4 DEF PhaseOK
    <2>6. requests' = [requests EXCEPT ![r] = q]
      BY <2>1
    <2> HIDE DEF q
    <2>7. QED
      BY <2>4, <2>5, <2>6, SlotUpdate DEF TypeInv, TypeOK, RequestsTyped
  <1>14. QED
    BY <1>1, <1>2, <1>3, <1>4, <1>5, <1>6, <1>7, <1>8, <1>9, <1>10, <1>11, <1>12, <1>13,
       <1>15 DEF Load

\* The copies and answers a request holds.
LEMMA RequestFields ==
    ASSUME TypeInv, NEW r \in Requests
    PROVE  /\ requests[r] \in Request
           /\ requests[r].mem \in Row /\ requests[r].new \in AnyStatus
           /\ requests[r].old \in AnyStatus
           /\ requests[r].todo \in Seq(AnyStatus) /\ requests[r].log \in Seq(AnyStatus)
           /\ PhaseOK(requests[r])
  BY DEF TypeInv, TypeOK, Request

\* The later steps of a request.
LEMMA StepType ==
    ASSUME TypeInv, NEW r \in Requests, Step(r)
    PROVE  TypeInv'
  <1> DEFINE q == requests[r]
             NewSlot(s) == requests' = [requests EXCEPT ![r] = s]
  <1>q. /\ q \in Request /\ q.mem \in Row /\ q.new \in AnyStatus /\ q.old \in AnyStatus
        /\ q.todo \in Seq(AnyStatus) /\ q.log \in Seq(AnyStatus) /\ PhaseOK(q)
    BY RequestFields
  <1>t. /\ row \in Row /\ history \in Seq(Entry)
        /\ fpLog \in Seq(AnyStatus) /\ seen \in Nat
        /\ live \subseteq Nat /\ issued \in Nat
        /\ crashes \in Nat
    BY DEF TypeInv, TypeOK
  <1>s. ASSUME NEW s \in Request, PhaseOK(s), NewSlot(s)
        PROVE  RequestsTyped'
    BY <1>s, SlotUpdate DEF TypeInv, TypeOK, RequestsTyped
  <1>e. End(r) => RequestsTyped'
    BY EndType DEF RequestsTyped
  <1>c. /\ <<>> \in Seq(AnyStatus)
        /\ \A s \in AnyStatus : <<s>> \in Seq(AnyStatus) /\ <<s>> # <<>>
        /\ \A s, u \in AnyStatus : <<s, u>> \in Seq(AnyStatus) /\ <<s, u>> # <<>>
    OBVIOUS
  <1>p. "Picked" \in AnyStatus /\ "Booked" \in AnyStatus /\ "Closed" \in AnyStatus
        /\ "Pickup Rebooked" \in AnyStatus /\ "Pickup Rebooked(Last)" \in AnyStatus
    BY DEF AnyStatus, Statuses
  <1> HIDE DEF q
  <1>1. CASE ScanSave(r)
    <2> DEFINE todo == IF ~q.mem.booked /\ q.mem.status # "Picked" THEN <<"Picked">> ELSE <<>>
               s == [q EXCEPT !.mem = Stamped(row, q.mem)]
    <2>1. /\ row' = q.mem
          /\ NewSlot(AfterCreate(s, todo))
          /\ UNCHANGED <<history, fpVars, seen, crashes>>
      BY <1>1 DEF ScanSave, Save, q
    <2>2. s \in Request
      BY <1>q, <1>t, StampedType DEF Request
    <2>3. todo \in Seq(AnyStatus)
      BY <1>p, <1>c, Zenon
    <2>4. RequestsTyped'
      <3> HIDE DEF s, todo
      <3>1. QED
        BY <2>1, <2>2, <2>3, <1>s, AfterCreateType
    <2>5. QED
      BY <1>q, <1>t, <2>1, <2>4 DEF fpVars, TypeInv, TypeOK, RequestsTyped
  <1>2. CASE FpBooks(r)
    <2> DEFINE todo == IF q.kind = "rebook"
                       THEN <<"Pickup Rebooked(Last)", "Pickup Rebooked">>
                       ELSE <<"Booked">>
               mem == [q.mem EXCEPT !.pickup = issued + 1, !.booked = TRUE]
               s == [q EXCEPT !.pc = "create", !.todo = todo, !.mem.pickup = issued + 1,
                              !.mem.booked = TRUE]
    <2>1. /\ NewSlot(s)
          /\ issued' = issued + 1 /\ live' = live \cup {issued + 1}
          /\ UNCHANGED <<bookingVars, fpLog, seen, crashes>>
      BY <1>2 DEF FpBooks, q
    <2>2. todo \in Seq(AnyStatus) /\ todo # <<>>
      BY <1>p, <1>c, Zenon
    <2>i. issued + 1 \in Nat
      BY <1>t
    <2>3. mem \in Row
      BY <1>q, <2>i DEF Row
    <2>4. s = [q EXCEPT !.pc = "create", !.todo = todo, !.mem = mem]
      BY <1>q DEF Request, Row
    <2>5. s \in Request /\ PhaseOK(s)
      <3> HIDE DEF todo, mem
      <3>1. QED
        BY <1>q, <2>2, <2>3, <2>4 DEF Request, Phases, PhaseOK
    <2>6. RequestsTyped'
      <3> HIDE DEF s
      <3>1. QED
        BY <2>1, <2>5, <1>s
    <2>7. QED
      BY <1>t, <2>1, <2>6 DEF bookingVars, TypeInv, TypeOK, RequestsTyped
  <1>3. CASE FpCancels(r)
    <2> DEFINE s == [q EXCEPT !.pc = "create", !.todo = <<"Closed">>]
    <2>1. /\ NewSlot(s)
          /\ live' = live \ {q.mem.pickup}
          /\ UNCHANGED <<bookingVars, fpLog, issued, seen, crashes>>
      BY <1>3 DEF FpCancels, q
    <2>2. s \in Request /\ PhaseOK(s)
      BY <1>q, <1>c, <1>p DEF Request, Phases, PhaseOK
    <2>3. RequestsTyped'
      <3> HIDE DEF s
      <3>1. QED
        BY <2>1, <2>2, <1>s
    <2>4. QED
      BY <1>t, <2>1, <2>3 DEF bookingVars, TypeInv, TypeOK, RequestsTyped
  <1>17. CASE BuiltInBook(r)
    <2> DEFINE mem == [q.mem EXCEPT !.booked = TRUE]
               s == [q EXCEPT !.pc = "create", !.todo = <<"Booked">>, !.mem = mem]
    <2>1. UNCHANGED <<bookingVars, fpVars, seen, crashes>>
      BY <1>17 DEF BuiltInBook
    <2>2. NewSlot(s)
      BY <1>17, <1>q DEF BuiltInBook, q, Request, Row
    <2>3. mem \in Row
      BY <1>q DEF Row
    <2>4. s \in Request /\ PhaseOK(s)
      <3> HIDE DEF mem
      <3>1. QED
        BY <1>q, <1>c, <1>p, <2>3 DEF Request, Phases, PhaseOK
    <2>5. RequestsTyped'
      <3> HIDE DEF s
      <3>1. QED
        BY <2>2, <2>4, <1>s
    <2>6. QED
      BY <1>t, <2>1, <2>5 DEF bookingVars, fpVars, TypeInv, TypeOK, RequestsTyped
  <1>4. CASE FpRefuses(r)
    BY <1>4, <1>e, <1>q, <1>t
       DEF FpRefuses, Save, fpVars, TypeInv, TypeOK, RequestsTyped, q
  <1>5. CASE FpTracks(r)
    <2> DEFINE s == [q EXCEPT !.pc = "poll", !.log = fpLog]
    <2>1. /\ NewSlot(s)
          /\ fpLog # <<>>
          /\ UNCHANGED <<bookingVars, fpVars, seen, crashes>>
      BY <1>5, <1>q DEF FpTracks, q, Request
    <2>2. s \in Request /\ PhaseOK(s)
      BY <1>q, <1>t, <2>1 DEF Request, Phases, PhaseOK
    <2>3. RequestsTyped'
      <3> HIDE DEF s
      <3>1. QED
        BY <2>1, <2>2, <1>s
    <2>4. QED
      BY <1>t, <2>1, <2>3 DEF bookingVars, fpVars, TypeInv, TypeOK, RequestsTyped
  <1>6. CASE PopulateNew(r)
    <2> DEFINE s == IF q.mem.lock THEN [q EXCEPT !.pc = "finish", !.log = <<>>]
                    ELSE [q EXCEPT !.pc = "create", !.log = <<>>, !.todo = <<LastOf(q.log)>>]
    <2>1. /\ NewSlot(s)
          /\ q.pc = "poll"
          /\ seen' = Len(q.log)
          /\ UNCHANGED <<bookingVars, fpVars, crashes>>
      BY <1>6 DEF PopulateNew, q
    <2>2. q.log # <<>>
      BY <1>q, <2>1 DEF PhaseOK
    <2>3. LastOf(q.log) \in AnyStatus
      BY <1>q, <2>2 DEF LastOf
    <2>l. <<LastOf(q.log)>> \in Seq(AnyStatus) /\ <<LastOf(q.log)>> # <<>>
      BY <1>c, <2>3
    <2>4. s \in Request /\ PhaseOK(s)
      <3>1. CASE q.mem.lock
        BY <1>q, <1>c, <3>1 DEF Request, Phases, PhaseOK
      <3>2. CASE ~q.mem.lock
        BY <1>q, <1>c, <2>l, <3>2 DEF Request, Phases, PhaseOK
      <3>3. QED
        BY <3>1, <3>2
    <2>5. RequestsTyped'
      <3> HIDE DEF s
      <3>1. QED
        BY <2>1, <2>4, <1>s
    <2>6. QED
      BY <1>q, <1>t, <2>1, <2>5 DEF bookingVars, fpVars, TypeInv, TypeOK, RequestsTyped
  <1>7. CASE PopulateOld(r)
    <2>1. /\ End(r)
          /\ row' \in {row, q.mem}
          /\ seen' \in {seen} \cup FirstRepeat(q.log)
          /\ UNCHANGED <<history, fpVars, crashes>>
      BY <1>7 DEF PopulateOld, q
    <2>2. FirstRepeat(q.log) \subseteq Nat
      BY <1>q, <1>t DEF FirstRepeat
    <2>3. QED
      BY <1>e, <1>q, <1>t, <2>1, <2>2 DEF fpVars, TypeInv, TypeOK, RequestsTyped
  <1>8. CASE Create(r)
    <2> DEFINE new == Head(q.todo)
               copy == [q.mem EXCEPT !.status = new]
               done == [q EXCEPT !.mem = Stamped(row, copy), !.old = q.mem.status,
                                 !.new = new, !.todo = Tail(q.todo)]
    <2>1. /\ UNCHANGED <<history, fpVars, seen, crashes>>
          /\ row' \in {row, copy}
          /\ \/ NewSlot(AfterCreate(q, Tail(q.todo)))
             \/ NewSlot([done EXCEPT !.pc = "record"])
             \/ NewSlot(AfterCreate(done, done.todo))
          /\ q.pc = "create"
      BY <1>8 DEF Create, q
    <2>2. new \in AnyStatus /\ Tail(q.todo) \in Seq(AnyStatus)
      BY <1>q, <2>1 DEF PhaseOK
    <2>3. copy \in Row
      BY <1>q, <2>2 DEF Row
    <2>4. Stamped(row, copy) \in Row /\ q.mem.status \in AnyStatus
      <3> HIDE DEF copy
      <3>1. QED
        BY <1>t, <1>q, <2>3, StampedType DEF Row
    <2>5. done \in Request /\ done.todo = Tail(q.todo)
      <3> HIDE DEF copy, new
      <3>1. QED
        BY <1>q, <2>2, <2>4 DEF Request
    <2>6. [done EXCEPT !.pc = "record"] \in Request /\ PhaseOK([done EXCEPT !.pc = "record"])
      <3> HIDE DEF done
      <3>1. QED
        BY <2>5 DEF Request, Phases, PhaseOK
    <2>7. RequestsTyped'
      <3> DEFINE s == [done EXCEPT !.pc = "record"]
      <3>1. s \in Request /\ PhaseOK(s)
        BY <2>6
      <3>2. /\ AfterCreate(q, Tail(q.todo)) \in Request
            /\ PhaseOK(AfterCreate(q, Tail(q.todo)))
        BY <1>q, <2>2, AfterCreateType
      <3> HIDE DEF done
      <3>3. AfterCreate(done, done.todo) \in Request /\ PhaseOK(AfterCreate(done, done.todo))
        BY <2>2, <2>5, AfterCreateType
      <3>4. NewSlot(AfterCreate(q, Tail(q.todo))) \/ NewSlot(s)
            \/ NewSlot(AfterCreate(done, done.todo))
        BY <2>1
      <3> HIDE DEF s
      <3>5. QED
        BY <3>1, <3>2, <3>3, <3>4, <1>s
    <2>8. QED
      <3> HIDE DEF copy
      <3>1. QED
        BY <1>t, <2>1, <2>3, <2>7 DEF fpVars, TypeInv, TypeOK, RequestsTyped
  <1>9. CASE Record(r)
    <2> DEFINE s == [q EXCEPT !.pc = "settle"]
    <2>1. /\ requests' = [requests EXCEPT ![r].pc = "settle"]
          /\ history' = Append(history, [old |-> q.old, last |-> q.new])
          /\ UNCHANGED <<row, fpVars, seen, crashes>>
      BY <1>9 DEF Record, q
    <2>2. NewSlot(s)
      BY <2>1 DEF q
    <2>3. s \in Request /\ PhaseOK(s)
      BY <1>q DEF Request, Phases, PhaseOK
    <2>4. RequestsTyped'
      <3> HIDE DEF s
      <3>1. QED
        BY <2>2, <2>3, <1>s
    <2>5. [old |-> q.old, last |-> q.new] \in Entry
      BY <1>q DEF Entry
    <2>6. history' \in Seq(Entry)
      BY <1>t, <2>1, <2>5
    <2>7. QED
      BY <1>t, <2>1, <2>4, <2>6 DEF fpVars, TypeInv, TypeOK, RequestsTyped
  <1>10. CASE Settle(r)
    <2>1. UNCHANGED <<history, fpVars, seen, crashes>>
      BY <1>10 DEF Settle
    <2>2. CASE row' = row /\ End(r)
      BY <1>e, <1>t, <2>1, <2>2 DEF fpVars, TypeInv, TypeOK, RequestsTyped
    <2>3. CASE row' = Settled(q) /\ NewSlot(AfterCreate([q EXCEPT !.mem = Settled(q)], q.todo))
      <3>1. Category(q.new) \in Categories
        BY CategoryType
      <3>2. Settled(q) \in Row
        BY <1>q, <3>1 DEF Settled, Row
      <3> DEFINE s == [q EXCEPT !.mem = Settled(q)]
      <3>3. s \in Request
        BY <1>q, <3>2 DEF Request
      <3>4. RequestsTyped'
        <4> HIDE DEF s
        <4>1. QED
          BY <1>q, <2>3, <3>3, <1>s, AfterCreateType DEF s
      <3>5. QED
        BY <1>t, <2>1, <2>3, <3>2, <3>4 DEF fpVars, TypeInv, TypeOK, RequestsTyped
    <2>4. QED
      BY <1>10, <2>2, <2>3 DEF Settle, q
  <1>11. CASE Finish(r)
    <2> DEFINE s == [q EXCEPT !.pc = "requote", !.mem = Stamped(row, q.mem)]
    <2>1. /\ row' = Finished(q)
          /\ NewSlot(s) \/ NewSlot(Idle)
          /\ UNCHANGED <<history, fpVars, seen, crashes>>
      BY <1>11 DEF Finish, q
    <2>2. "Booked" \in AnyStatus
      BY <1>p
    <2>3. Finished(q) \in Row
      BY <1>q, <2>2 DEF Finished, Row
    <2>4. s \in Request /\ PhaseOK(s)
      BY <1>q, <1>t, StampedType DEF Request, Phases, PhaseOK
    <2>5. RequestsTyped'
      <3> HIDE DEF s
      <3>1. QED
        BY <2>1, <2>4, <1>s, IdleType
    <2>6. QED
      BY <1>t, <2>1, <2>3, <2>5 DEF fpVars, TypeInv, TypeOK, RequestsTyped
  <1>12. CASE Requote(r)
    BY <1>12, <1>e, <1>q, <1>t
       DEF Requote, Save, fpVars, TypeInv, TypeOK, RequestsTyped, q
  <1>13. CASE FormSave(r)
    <2>1. PICK s \in Targets \cup {q.mem.status} :
              row' = [q.mem EXCEPT !.status = s, !.category = row.category]
      BY <1>13 DEF FormSave, q
    <2>2. s \in AnyStatus
      BY <1>q, TargetsAssumption DEF TargetsAssumption, AnyStatus, Row
    <2>3. row.category \in Categories
      BY <1>t DEF Row
    <2>4. row' \in Row
      BY <1>q, <2>1, <2>2, <2>3 DEF Row
    <2>5. QED
      BY <1>13, <1>e, <1>t, <2>4 DEF FormSave, fpVars, TypeInv, TypeOK, RequestsTyped
  <1>14. CASE EditBooking(r)
    <2>1. PICK s \in Targets :
              /\ row' = [q.mem EXCEPT
                     !.given = @ \/ Category(s) = "Transit",
                     !.status = IF q.at = Len(history) /\ q.old # s THEN s ELSE @]
              /\ NewSlot([q EXCEPT !.pc = "editEntry", !.new = s])
      BY <1>14 DEF EditBooking, q
    <2>2. s \in AnyStatus
      BY TargetsAssumption DEF TargetsAssumption, AnyStatus
    <2>3. row' \in Row
      BY <1>q, <2>1, <2>2 DEF Row
    <2> DEFINE u == [q EXCEPT !.pc = "editEntry", !.new = s]
    <2>4. u \in Request /\ PhaseOK(u)
      BY <1>q, <2>2 DEF Request, Phases, PhaseOK
    <2>5. RequestsTyped'
      <3> HIDE DEF u
      <3>1. QED
        BY <2>1, <2>4, <1>s DEF u
    <2>6. QED
      BY <1>14, <1>t, <2>3, <2>5 DEF EditBooking, fpVars, TypeInv, TypeOK, RequestsTyped
  <1>15. CASE EditEntry(r)
    <2>1. /\ history' = [history EXCEPT ![q.at].last = q.new]
          /\ End(r)
          /\ UNCHANGED <<row, fpVars, seen, crashes>>
      BY <1>15 DEF EditEntry, q
    <2>2. history' \in Seq(Entry)
      <3>1. ASSUME NEW i \in 1..Len(history) PROVE history'[i] \in Entry
        <4>1. history[i] \in Entry
          BY <1>t
        <4>2. history'[i] \in {history[i], [history[i] EXCEPT !.last = q.new]}
          BY <1>t, <2>1
        <4>3. QED
          BY <1>q, <4>1, <4>2 DEF Entry
      <3>2. history \in [1..Len(history) -> Entry] /\ Len(history) \in Nat
        BY <1>t
      <3>3. history' \in [1..Len(history) -> Entry]
        BY <2>1, <3>1, <3>2
      <3>4. QED
        BY <3>2, <3>3
    <2>3. QED
      BY <1>e, <1>t, <2>1, <2>2 DEF fpVars, TypeInv, TypeOK, RequestsTyped
  <1>18. CASE CancelSave(r)
    <2> DEFINE s == [q EXCEPT !.pc = "create", !.todo = <<"Cancelled">>,
                              !.mem = Stamped(row, q.mem)]
    <2>1. row' = q.mem /\ NewSlot(s) /\ UNCHANGED <<history, fpVars, seen, crashes>>
      BY <1>18 DEF CancelSave, Save, q
    <2>2. "Cancelled" \in AnyStatus
      BY DEF AnyStatus, Statuses
    <2>3. <<"Cancelled">> \in Seq(AnyStatus) /\ <<"Cancelled">> # <<>>
      BY <1>c, <2>2
    <2>4. s \in Request /\ PhaseOK(s)
      BY <1>q, <1>t, <2>3, StampedType DEF Request, Phases, PhaseOK
    <2>5. RequestsTyped'
      <3> HIDE DEF s
      <3>1. QED
        BY <2>1, <2>4, <1>s
    <2>6. QED
      BY <1>q, <1>t, <2>1, <2>5 DEF fpVars, TypeInv, TypeOK, RequestsTyped
  <1>19. CASE LabelSave(r)
    <2> DEFINE s == [q EXCEPT !.mem = Stamped(row, q.mem)]
    <2>1. row' = q.mem /\ NewSlot(s) /\ UNCHANGED <<history, fpVars, seen, crashes>>
      BY <1>19 DEF LabelSave, Save, q
    <2>2. s \in Request /\ PhaseOK(s)
      BY <1>q, <1>t, StampedType DEF Request, PhaseOK
    <2>3. RequestsTyped'
      <3> HIDE DEF s
      <3>1. QED
        BY <2>1, <2>2, <1>s
    <2>4. QED
      BY <1>q, <1>t, <2>1, <2>3 DEF fpVars, TypeInv, TypeOK, RequestsTyped
  <1>16. QED
    BY <1>1, <1>2, <1>3, <1>4, <1>5, <1>6, <1>7, <1>8, <1>9, <1>10, <1>11, <1>12, <1>13,
       <1>14, <1>15, <1>17, <1>18, <1>19 DEF Step

\* The types and phases are inductive.
LEMMA TypeInvariant == Spec => []TypeInv
  <1>1. Init => TypeInv
    <2> SUFFICES ASSUME Init PROVE TypeInv
      OBVIOUS
    <2>o. Origins \subseteq AnyStatus /\ \A s : Category(s) \in Categories
      BY TargetsAssumption, CategoryType DEF TargetsAssumption, AnyStatus
    <2>i. PICK s \in Origins : row = [NoRow EXCEPT !.status = s, !.category = Category(s)]
      BY DEF Init
    <2>1. row \in Row
      BY <2>o, <2>i DEF Row, NoRow
    <2>2. RequestsTyped
      BY IdleType DEF Init, RequestsTyped
    <2>e. history = <<>> /\ fpLog = <<>>
      BY DEF Init
    <2>s. <<>> \in Seq(Entry) /\ <<>> \in Seq(AnyStatus)
      OBVIOUS
    <2>3. history \in Seq(Entry) /\ fpLog \in Seq(AnyStatus)
      BY <2>e, <2>s, Zenon
    <2>4. QED
      BY <2>1, <2>2, <2>3 DEF Init, TypeInv, TypeOK, RequestsTyped
  <1>2. TypeInv /\ [Next]_vars => TypeInv'
    <2> SUFFICES ASSUME TypeInv, [Next]_vars PROVE TypeInv'
      OBVIOUS
    <2>1. ASSUME NEW r \in Requests, Load(r) PROVE TypeInv'
      BY <2>1, LoadType, LoadUnchanged DEF TypeInv, TypeOK, RequestsTyped
    <2>2. ASSUME NEW r \in Requests, Step(r) PROVE TypeInv'
      BY <2>2, StepType
    <2>3. ASSUME NEW r \in Requests, Crash(r) PROVE TypeInv'
      BY <2>3, EndType DEF Crash, bookingVars, fpVars, TypeInv, TypeOK, RequestsTyped
    <2>4. CASE FpEvent
      <3>1. fpLog' \in Seq(AnyStatus)
        BY <2>4, FpAssumption DEF FpEvent, FpAssumption, TypeInv, TypeOK
      <3>2. QED
        BY <2>4, <3>1 DEF FpEvent, bookingVars, TypeInv, TypeOK
    <2>5. CASE UNCHANGED vars
      BY <2>5 DEF vars, TypeInv, TypeOK
    <2>6. QED
      BY <2>1, <2>2, <2>3, <2>4, <2>5 DEF Next
  <1>3. QED
    BY <1>1, <1>2, PTL DEF Spec

\* The booking's row, its history and every request always have their types:
\* in particular create() never runs without a status to set, and a tracking
\* answer that is worked on has an event in it.
THEOREM TypeCorrect == Spec => []TypeOK
  <1>1. TypeInv => TypeOK
    BY DEF TypeInv
  <1>2. QED
    BY <1>1, TypeInvariant, PTL

-----------------------------------------------------------------------------
(* What the steps do to statuses and locks.                                *)

\* Two rows that agree on the status and the lock.
Alike(a, b) == a.status = b.status /\ a.lock = b.lock

\* A step that only moves copies around: nothing is recorded, the row stays
\* or takes the copy's status and lock, the slot keeps its copy or is emptied.
Copying(r) ==
    \E s \in Request :
        /\ requests' = [requests EXCEPT ![r] = s]
        /\ history' = history
        /\ Alike(row', row) \/ Alike(row', requests[r].mem)
        /\ Alike(s.mem, requests[r].mem) \/ Alike(s.mem, NoRow)
        /\ s.kind \in {requests[r].kind, "none"}
        /\ s.pc \notin {"record", "settle", "form", "editBooking", "editEntry"}
        /\ requests[r].pc # "record"

\* The slot after the last create(), or between two.
LEMMA AfterCreateShape ==
    ASSUME NEW q \in Request, NEW todo \in Seq(AnyStatus)
    PROVE  LET s == AfterCreate(q, todo)
           IN  /\ s \in Request
               /\ s.mem \in {q.mem, NoRow}
               /\ s.kind \in {q.kind, "none"}
               /\ s.pc \in {"create", "finish", "idle"}
  <1>1. CASE todo # <<>>
    BY <1>1, AfterCreateType DEF AfterCreate, Request
  <1>2. CASE todo = <<>> /\ q.kind \in Trailing
    BY <1>2, AfterCreateType DEF AfterCreate, Request
  <1>3. CASE todo = <<>> /\ q.kind \notin Trailing
    BY <1>3, AfterCreateType DEF AfterCreate, Idle
  <1>4. QED
    BY <1>1, <1>2, <1>3

\* Ending a request empties its slot.
LEMMA IdleShape ==
    /\ Idle \in Request /\ Idle.mem = NoRow /\ Idle.kind = "none" /\ Idle.pc = "idle"
  BY IdleType DEF Idle

\* The stamp of the booked date changes neither status nor lock.
LEMMA StampedAlike ==
    ASSUME NEW before \in Row, NEW copy \in Row
    PROVE  Alike(Stamped(before, copy), copy)
  BY DEF Alike, Stamped, Row

\* The steps that only move copies around.
LEMMA CopyingSteps ==
    ASSUME TypeInv, NEW r \in Requests,
           \/ ScanSave(r) \/ CancelSave(r) \/ LabelSave(r)
           \/ FpBooks(r) \/ BuiltInBook(r) \/ FpCancels(r)
           \/ FpRefuses(r) \/ FpTracks(r)
           \/ PopulateNew(r) \/ PopulateOld(r) \/ Requote(r)
           \/ Crash(r) /\ requests[r].pc # "record"
           \/ Finish(r) /\ requests[r].kind # "plainBook"
    PROVE  Copying(r)
  <1> DEFINE q == requests[r]
             NewSlot(s) == requests' = [requests EXCEPT ![r] = s]
  <1>q. /\ q \in Request /\ q.mem \in Row /\ q.new \in AnyStatus /\ q.old \in AnyStatus
        /\ q.todo \in Seq(AnyStatus) /\ q.log \in Seq(AnyStatus) /\ PhaseOK(q)
    BY RequestFields
  <1>r. row \in Row
    BY DEF TypeInv, TypeOK
  <1>m. RequestsTyped'
    <2>1. CASE Crash(r)
      BY <2>1, EndType DEF Crash, RequestsTyped
    <2>2. CASE Step(r)
      BY <2>2, StepType DEF TypeInv, TypeOK, RequestsTyped
    <2>3. QED
      BY <2>1, <2>2 DEF Step
  <1>a. ASSUME NEW s, NewSlot(s), history' = history,
               Alike(row', row) \/ Alike(row', q.mem),
               Alike(s.mem, q.mem) \/ Alike(s.mem, NoRow),
               s.kind \in {q.kind, "none"},
               s.pc \notin {"record", "settle", "form", "editBooking", "editEntry"},
               q.pc # "record"
        PROVE  Copying(r)
    <2>1. s = requests'[r]
      BY <1>a DEF TypeInv, TypeOK
    <2>2. s \in Request
      BY <1>m, <2>1 DEF RequestsTyped
    <2>3. QED
      BY <1>a, <2>2 DEF Copying
  <1>e. ASSUME End(r), history' = history, Alike(row', row) \/ Alike(row', q.mem),
               q.pc # "record"
        PROVE  Copying(r)
    BY <1>e, <1>a, IdleShape DEF End, Alike
  <1> HIDE DEF q
  <1>1. CASE ScanSave(r)
    <2> DEFINE todo == IF ~q.mem.booked /\ q.mem.status # "Picked" THEN <<"Picked">> ELSE <<>>
               s == [q EXCEPT !.mem = Stamped(row, q.mem)]
    <2>1. /\ row' = q.mem /\ history' = history /\ q.pc = "print"
          /\ NewSlot(AfterCreate(s, todo))
      BY <1>1 DEF ScanSave, Save, q
    <2>2. /\ s \in Request /\ s.mem = Stamped(row, q.mem) /\ s.kind = q.kind
          /\ Alike(s.mem, q.mem)
      BY <1>q, <1>r, StampedType, StampedAlike DEF Request
    <2>p. "Picked" \in AnyStatus
      BY DEF AnyStatus, Statuses
    <2>t. <<>> \in Seq(AnyStatus) /\ <<"Picked">> \in Seq(AnyStatus)
      BY <2>p
    <2>3. todo \in Seq(AnyStatus)
      BY <2>t, Zenon
    <2> HIDE DEF s, todo
    <2>4. QED
      BY <1>a, <2>1, <2>2, <2>3, AfterCreateShape DEF Alike
  <1>2. CASE FpBooks(r)
    <2> DEFINE todo == IF q.kind = "rebook"
                       THEN <<"Pickup Rebooked(Last)", "Pickup Rebooked">>
                       ELSE <<"Booked">>
               s == [q EXCEPT !.pc = "create", !.todo = todo, !.mem.pickup = issued + 1,
                              !.mem.booked = TRUE]
    <2>1. /\ NewSlot(s) /\ row' = row /\ history' = history /\ q.pc = "call"
      BY <1>2 DEF FpBooks, bookingVars, q
    <2>2. s.pc = "create" /\ s.kind = q.kind /\ Alike(s.mem, q.mem)
      BY <1>q DEF Request, Row, Alike
    <2> HIDE DEF s
    <2>3. QED
      BY <1>a, <2>1, <2>2 DEF Alike
  <1>3. CASE FpCancels(r)
    <2> DEFINE s == [q EXCEPT !.pc = "create", !.todo = <<"Closed">>]
    <2>1. /\ NewSlot(s) /\ row' = row /\ history' = history /\ q.pc = "call"
      BY <1>3 DEF FpCancels, bookingVars, q
    <2>2. s.pc = "create" /\ s.kind = q.kind /\ s.mem = q.mem
      BY <1>q DEF Request
    <2> HIDE DEF s
    <2>3. QED
      BY <1>a, <2>1, <2>2 DEF Alike
  <1>12. CASE BuiltInBook(r)
    <2> DEFINE s == [q EXCEPT !.pc = "create", !.todo = <<"Booked">>, !.mem.booked = TRUE]
    <2>1. /\ NewSlot(s) /\ row' = row /\ history' = history /\ q.pc = "call"
      BY <1>12, <1>q DEF BuiltInBook, bookingVars, q, Request, Row
    <2>2. s.pc = "create" /\ s.kind = q.kind /\ Alike(s.mem, q.mem)
      BY <1>q DEF Request, Row, Alike
    <2> HIDE DEF s
    <2>3. QED
      BY <1>a, <2>1, <2>2 DEF Alike
  <1>4. CASE FpRefuses(r)
    BY <1>4, <1>e DEF FpRefuses, Save, Alike, q
  <1>5. CASE FpTracks(r)
    <2> DEFINE s == [q EXCEPT !.pc = "poll", !.log = fpLog]
    <2>1. /\ NewSlot(s) /\ row' = row /\ history' = history /\ q.pc = "call"
      BY <1>5, <1>q DEF FpTracks, bookingVars, q, Request
    <2>2. s.pc = "poll" /\ s.kind = q.kind /\ s.mem = q.mem
      BY <1>q DEF Request
    <2> HIDE DEF s
    <2>3. QED
      BY <1>a, <2>1, <2>2 DEF Alike
  <1>6. CASE PopulateNew(r)
    <2> DEFINE s1 == [q EXCEPT !.pc = "finish", !.log = <<>>]
               s2 == [q EXCEPT !.pc = "create", !.log = <<>>, !.todo = <<LastOf(q.log)>>]
    <2>1. /\ NewSlot(s1) \/ NewSlot(s2)
          /\ row' = row /\ history' = history /\ q.pc = "poll"
      BY <1>6 DEF PopulateNew, bookingVars, q
    <2>2. /\ s1.pc = "finish" /\ s1.kind = q.kind /\ s1.mem = q.mem
          /\ s2.pc = "create" /\ s2.kind = q.kind /\ s2.mem = q.mem
      BY <1>q DEF Request
    <2> HIDE DEF s1, s2
    <2>3. QED
      BY <1>a, <2>1, <2>2 DEF Alike
  <1>7. CASE PopulateOld(r)
    BY <1>7, <1>e DEF PopulateOld, Alike, q
  <1>8. CASE Requote(r)
    BY <1>8, <1>e DEF Requote, Save, Alike, q
  <1>9. CASE Crash(r) /\ requests[r].pc # "record"
    BY <1>9, <1>e DEF Crash, bookingVars, Alike, q
  <1>10. CASE Finish(r) /\ q.kind # "plainBook"
    <2> DEFINE s == [q EXCEPT !.pc = "requote", !.mem = Stamped(row, q.mem)]
    <2>1. /\ row' = Finished(q) /\ history' = history /\ q.pc = "finish"
          /\ NewSlot(s) \/ End(r)
      BY <1>10 DEF Finish, End, q
    <2>2. Alike(Finished(q), q.mem)
      BY <1>q, <1>10 DEF Finished, Row, Alike
    <2>3. s.pc = "requote" /\ s.kind = q.kind /\ s.mem = Stamped(row, q.mem)
      BY <1>q DEF Request
    <2>4. Alike(s.mem, q.mem)
      BY <1>q, <1>r, <2>3, StampedAlike
    <2> HIDE DEF s
    <2>5. QED
      BY <1>a, <1>e, <2>1, <2>2, <2>3, <2>4
  <1>13. CASE CancelSave(r)
    <2> DEFINE s == [q EXCEPT !.pc = "create", !.todo = <<"Cancelled">>,
                              !.mem = Stamped(row, q.mem)]
    <2>1. /\ row' = q.mem /\ history' = history /\ q.pc = "print"
          /\ NewSlot(s)
      BY <1>13 DEF CancelSave, Save, q
    <2>2. s.mem = Stamped(row, q.mem) /\ s.kind = q.kind /\ s.pc = "create"
      BY <1>q DEF Request
    <2>3. Alike(s.mem, q.mem)
      BY <1>q, <1>r, <2>2, StampedAlike
    <2> HIDE DEF s
    <2>4. QED
      BY <1>a, <2>1, <2>2, <2>3 DEF Alike
  <1>14. CASE LabelSave(r)
    <2> DEFINE s == [q EXCEPT !.mem = Stamped(row, q.mem)]
    <2>1. /\ row' = q.mem /\ history' = history /\ q.pc = "finish"
          /\ NewSlot(s)
      BY <1>14 DEF LabelSave, Save, q
    <2>2. s.mem = Stamped(row, q.mem) /\ s.kind = q.kind /\ s.pc = "finish"
      BY <1>q, <2>1 DEF Request
    <2>3. Alike(s.mem, q.mem)
      BY <1>q, <1>r, <2>2, StampedAlike
    <2> HIDE DEF s
    <2>4. QED
      BY <1>a, <2>1, <2>2, <2>3 DEF Alike
  <1>11. QED
    BY <1>1, <1>2, <1>3, <1>4, <1>5, <1>6, <1>7, <1>8, <1>9, <1>10, <1>12, <1>13, <1>14 DEF q

\* The steps that start a handler: a fresh copy of the row.
Starting(r, s) ==
    /\ requests' = [requests EXCEPT ![r] = s]
    /\ Alike(s.mem, row)
    /\ s.kind \in Kinds
    /\ s.pc \notin {"record", "settle", "editEntry"}
    /\ s.pc = "form" => s.kind = "form"
    /\ s.pc = "editBooking" => s.kind = "editHistory"
    /\ requests[r].pc = "idle"
    /\ row' = row /\ history' = history
Starts(r) == \E s \in Request : Starting(r, s)

LEMMA LoadShape ==
    ASSUME TypeInv, NEW r \in Requests, Load(r)
    PROVE  Starts(r)
  <1>u. row' = row /\ history' = history
    BY LoadUnchanged
  <1>a. ASSUME NEW s, Starting(r, s) PROVE Starts(r)
    <2>1. s = requests'[r]
      BY <1>a DEF TypeInv, TypeOK, Starting
    <2>2. s \in Request
      BY <2>1, LoadType DEF RequestsTyped
    <2>3. QED
      BY <1>a, <2>2 DEF Starts
  <1>s. ASSUME NEW kind, NEW pc, NEW todo, Start(r, kind, pc, todo),
               pc \notin {"record", "settle", "editEntry", "editBooking"},
               pc = "form" => kind = "form"
        PROVE  Starts(r)
    <2> DEFINE s == Fresh(kind, pc, todo)
    <2>1. s.mem = row /\ s.kind = kind /\ s.pc = pc
      BY DEF Fresh, Idle
    <2>2. requests' = [requests EXCEPT ![r] = s] /\ kind \in Kinds /\ requests[r].pc = "idle"
      BY <1>s DEF Start, MayStart
    <2> HIDE DEF s
    <2>3. Starting(r, s)
      BY <1>s, <1>u, <2>1, <2>2 DEF Starting, Alike
    <2>4. QED
      BY <1>a, <2>3
  <1>1. CASE BookLoad(r)
    <2>1. Start(r, "book", "call", <<>>)
      BY <1>1 DEF BookLoad
    <2>2. QED
      BY <1>s, <2>1
  <1>2. CASE RebookLoad(r)
    <2>1. Start(r, "rebook", "call", <<>>)
      BY <1>2 DEF RebookLoad
    <2>2. QED
      BY <1>s, <2>1
  <1>3. CASE EditBookLoad(r)
    <2>1. Start(r, "editBook", "call", <<>>)
      BY <1>3 DEF EditBookLoad
    <2>2. QED
      BY <1>s, <2>1
  <1>4. CASE FpCancelLoad(r)
    <2>1. Start(r, "fpCancel", "call", <<>>)
      BY <1>4 DEF FpCancelLoad
    <2>2. QED
      BY <1>s, <2>1
  <1>5. CASE TrackLoad(r)
    <2>1. Start(r, "track", "call", <<>>)
      BY <1>5 DEF TrackLoad
    <2>2. QED
      BY <1>s, <2>1
  <1>6. CASE PlainBookLoad(r)
    <2>1. Start(r, "plainBook", "finish", <<>>)
      BY <1>6 DEF PlainBookLoad
    <2>2. QED
      BY <1>s, <2>1
  <1>7. CASE OpCancelLoad(r)
    <2>1. \/ Start(r, "opCancel", "create", <<"Cancelled">>)
          \/ Start(r, "opCancel", "print", <<>>)
      BY <1>7 DEF OpCancelLoad
    <2>2. QED
      BY <1>s, <2>1
  <1>8. CASE ManualBookLoad(r)
    <2>1. Start(r, "manual", "create", <<"Booked">>)
      BY <1>8 DEF ManualBookLoad
    <2>2. QED
      BY <1>s, <2>1
  <1>9. CASE ReadyLoad(r)
    <2>1. Start(r, "ready", "create", <<"Ready for Booking">>)
      BY <1>9 DEF ReadyLoad
    <2>2. QED
      BY <1>s, <2>1
  <1>10. CASE ScanLoad(r)
    <2>1. Start(r, "scan", "print", <<>>)
      BY <1>10 DEF ScanLoad
    <2>2. QED
      BY <1>s, <2>1
  <1>11. CASE FormLoad(r)
    <2>1. Start(r, "form", "form", <<>>)
      BY <1>11 DEF FormLoad
    <2>2. QED
      BY <1>s, <2>1
  <1>12. CASE ChangeLoad(r)
    <2>1. PICK s \in Targets : requests' = [requests EXCEPT ![r] =
              [Fresh("change", "create", <<s>>) EXCEPT !.mem.given = @ \/ s = "In Transit"]]
      BY <1>12 DEF ChangeLoad
    <2> DEFINE u == [Fresh("change", "create", <<s>>) EXCEPT !.mem.given = @ \/ s = "In Transit"]
    <2>2. u.mem = [row EXCEPT !.given = @ \/ s = "In Transit"] /\ u.kind = "change"
          /\ u.pc = "create"
      BY DEF Fresh, Idle
    <2>3. Alike(u.mem, row)
      BY <2>2 DEF TypeInv, TypeOK, Row, Alike
    <2>4. requests[r].pc = "idle" /\ "change" \in Kinds
      BY <1>12 DEF ChangeLoad, MayStart
    <2>5. requests' = [requests EXCEPT ![r] = u]
      BY <2>1
    <2> HIDE DEF u
    <2>6. Starting(r, u)
      BY <1>u, <2>2, <2>3, <2>4, <2>5 DEF Starting
    <2>7. QED
      BY <1>a, <2>6
  <1>15. CASE SaveHistoryLoad(r)
    <2>1. PICK s \in Targets : Start(r, "saveHistory", "create", <<s>>)
      BY <1>15 DEF SaveHistoryLoad
    <2>2. QED
      BY <1>s, <2>1
  <1>13. CASE EditLoad(r)
    <2> DEFINE fresh == Fresh("editHistory", "editBooking", <<>>)
    <2>1. PICK i \in 1..Len(history) : requests' = [requests EXCEPT ![r] =
              [fresh EXCEPT !.at = i, !.old = history[i].last]]
      BY <1>13 DEF EditLoad
    <2> DEFINE s == [fresh EXCEPT !.at = i, !.old = history[i].last]
    <2>2. s.mem = row /\ s.kind = "editHistory" /\ s.pc = "editBooking"
      BY DEF Fresh, Idle
    <2>3. requests[r].pc = "idle" /\ "editHistory" \in Kinds
      BY <1>13 DEF EditLoad, MayStart
    <2>4. requests' = [requests EXCEPT ![r] = s]
      BY <2>1
    <2> HIDE DEF s
    <2>5. Starting(r, s)
      BY <1>u, <2>2, <2>3, <2>4 DEF Starting, Alike
    <2>6. QED
      BY <1>a, <2>5
  <1>14. QED
    BY <1>1, <1>2, <1>3, <1>4, <1>5, <1>6, <1>7, <1>8, <1>9, <1>10, <1>11, <1>12, <1>13,
       <1>15 DEF Load

\* A request keeps the kind it was started with, and only the form's and the
\* history editor's requests are in their phases.
KindOK(q) ==
    /\ q.kind \in Kinds \cup {"none"}
    /\ q.pc = "form" => q.kind = "form"
    /\ q.pc \in {"editBooking", "editEntry"} => q.kind = "editHistory"

KindInv == \A r \in Requests : KindOK(requests[r])

\* Replacing one slot by a good one.
LEMMA KindSlot ==
    ASSUME TypeInv, KindInv, NEW r \in Requests, NEW s,
           requests' = [requests EXCEPT ![r] = s], KindOK(s)
    PROVE  KindInv'
  BY DEF TypeInv, TypeOK, KindInv, KindOK

\* create() and what follows it: the slot, the row and the history.
Created(r, s) ==
    LET q == requests[r]
        new == Head(q.todo)
    IN  /\ requests' = [requests EXCEPT ![r] = s]
        /\ history' = history
        /\ new \in AnyStatus
        /\ q.pc = "create"
        /\ s.kind \in {q.kind, "none"}
        /\ s.pc \in {"create", "finish", "idle", "record"}
        /\ \/ /\ Alike(row', row)
              /\ Alike(s.mem, q.mem) \/ Alike(s.mem, NoRow)
              /\ s.pc # "record"
           \/ /\ row'.status = new /\ row'.lock = q.mem.lock
              /\ Alike(s.mem, row') \/ Alike(s.mem, NoRow)
              /\ \/ s.pc = "record" /\ s.new = new
                 \/ s.pc # "record" /\ ~IsNews(new)

LEMMA CreateShape ==
    ASSUME TypeInv, NEW r \in Requests, Create(r)
    PROVE  \E s \in Request : Created(r, s)
  <1> DEFINE q == requests[r]
             new == Head(q.todo)
             copy == [q.mem EXCEPT !.status = new]
             stamp == Stamped(row, copy)
             done == [q EXCEPT !.mem = stamp, !.old = q.mem.status,
                               !.new = new, !.todo = Tail(q.todo)]
             rec == [done EXCEPT !.pc = "record"]
             NewSlot(s) == requests' = [requests EXCEPT ![r] = s]
  <1>q. /\ q \in Request /\ q.mem \in Row /\ q.todo \in Seq(AnyStatus) /\ PhaseOK(q)
        /\ row \in Row /\ q.mem.status \in AnyStatus
    BY RequestFields DEF TypeInv, TypeOK, Row
  <1>1. /\ q.pc = "create" /\ history' = history
        /\ \/ /\ row' = row /\ NewSlot(AfterCreate(q, Tail(q.todo)))
           \/ row' = copy /\ IsNews(new) /\ NewSlot(rec)
           \/ row' = copy /\ ~IsNews(new) /\ NewSlot(AfterCreate(done, done.todo))
    BY DEF Create
  <1>2. new \in AnyStatus /\ Tail(q.todo) \in Seq(AnyStatus)
    BY <1>q, <1>1 DEF PhaseOK
  <1>3. copy \in Row /\ copy.status = new /\ copy.lock = q.mem.lock
    BY <1>q, <1>2 DEF Row
  <1>4. stamp \in Row /\ Alike(stamp, copy)
    <2> HIDE DEF copy
    <2>1. QED
      BY <1>q, <1>3, StampedType, StampedAlike
  <1>5. /\ done \in Request /\ done.todo = Tail(q.todo) /\ done.mem = stamp
        /\ done.kind = q.kind /\ done.new = new
    <2> HIDE DEF stamp, new
    <2>1. QED
      BY <1>q, <1>2, <1>4 DEF Request
  <1>6. /\ rec \in Request /\ rec.pc = "record" /\ rec.mem = stamp
        /\ rec.kind = q.kind /\ rec.new = new
    <2> HIDE DEF done, stamp, new
    <2>1. QED
      BY <1>5 DEF Request, Phases
  <1> HIDE DEF copy, stamp, done, rec
  <1>7. CASE row' = row /\ NewSlot(AfterCreate(q, Tail(q.todo)))
    <2> DEFINE s == AfterCreate(q, Tail(q.todo))
    <2>1. /\ s \in Request /\ s.mem \in {q.mem, NoRow} /\ s.kind \in {q.kind, "none"}
          /\ s.pc \in {"create", "finish", "idle"}
      BY <1>q, <1>2, AfterCreateShape
    <2> HIDE DEF s
    <2>2. Created(r, s)
      BY <1>1, <1>2, <1>7, <2>1 DEF Created, Alike, s
    <2>3. QED
      BY <2>1, <2>2
  <1>8. CASE row' = copy /\ IsNews(new) /\ NewSlot(rec)
    <2>1. Created(r, rec)
      BY <1>1, <1>2, <1>3, <1>4, <1>6, <1>8 DEF Created, Alike
    <2>2. QED
      BY <1>6, <2>1
  <1>9. CASE row' = copy /\ ~IsNews(new) /\ NewSlot(AfterCreate(done, done.todo))
    <2> DEFINE s == AfterCreate(done, done.todo)
    <2>1. /\ s \in Request /\ s.mem \in {stamp, NoRow} /\ s.kind \in {q.kind, "none"}
          /\ s.pc \in {"create", "finish", "idle"}
      BY <1>5, <1>2, AfterCreateShape
    <2> HIDE DEF s
    <2>2. Created(r, s)
      BY <1>1, <1>2, <1>3, <1>4, <1>9, <2>1 DEF Created, Alike, s
    <2>3. QED
      BY <2>1, <2>2
  <1>10. QED
    BY <1>1, <1>7, <1>8, <1>9

\* post_new_status: the slot and the row.
Settling(r, s) ==
    LET q == requests[r]
    IN  /\ requests' = [requests EXCEPT ![r] = s]
        /\ history' = history
        /\ q.pc = "settle"
        /\ s.kind \in {q.kind, "none"}
        /\ s.pc \in {"create", "finish", "idle"}
        /\ row'.status \in {row.status, q.mem.status}
        /\ s.mem.status \in {q.mem.status, NoStatus}
        /\ (row'.lock \/ s.mem.lock) => (row.lock \/ q.mem.lock \/ q.new = "Delivered")

LEMMA SettleShape ==
    ASSUME TypeInv, NEW r \in Requests, Settle(r)
    PROVE  \E s \in Request : Settling(r, s)
  <1> DEFINE q == requests[r]
             mem == Settled(q)
             done == [q EXCEPT !.mem = mem]
             s == AfterCreate(done, q.todo)
  <1>q. /\ q \in Request /\ q.mem \in Row /\ q.todo \in Seq(AnyStatus)
    BY RequestFields
  <1>1. CASE row' = row /\ End(r)
    <2>1. Settling(r, Idle)
      BY <1>1, IdleShape DEF Settle, End, Settling, NoRow
    <2>2. QED
      BY <2>1, IdleShape
  <1>2. CASE row' = mem /\ requests' = [requests EXCEPT ![r] = s]
    <2>1. /\ mem.status = q.mem.status
          /\ mem.lock => (q.mem.lock \/ q.new = "Delivered")
      BY <1>q DEF Settled, Row
    <2>c. Category(q.new) \in Categories
      BY CategoryType
    <2>2. mem \in Row
      BY <1>q, <2>c DEF Settled, Row
    <2>3. done \in Request /\ done.mem = mem /\ done.kind = q.kind
      <3> HIDE DEF mem
      <3>1. QED
        BY <1>q, <2>2 DEF Request
    <2> HIDE DEF done, mem
    <2>4. /\ s \in Request /\ s.mem \in {mem, NoRow} /\ s.kind \in {q.kind, "none"}
          /\ s.pc \in {"create", "finish", "idle"}
      BY <1>q, <2>3, AfterCreateShape
    <2>5. NoRow.lock = FALSE /\ NoRow.status = NoStatus
      BY DEF NoRow
    <2>6. history' = history /\ q.pc = "settle"
      BY DEF Settle
    <2> HIDE DEF s
    <2>7. Settling(r, s)
      BY <1>2, <2>1, <2>4, <2>5, <2>6 DEF Settling
    <2>8. QED
      BY <2>4, <2>7
  <1>3. QED
    BY <1>1, <1>2 DEF Settle

\* The new entry of the history.
Recording(r, s) ==
    LET q == requests[r]
    IN  /\ requests' = [requests EXCEPT ![r] = s]
        /\ history' = Append(history, [old |-> q.old, last |-> q.new])
        /\ row' = row
        /\ q.pc = "record"
        /\ s.kind = q.kind /\ s.mem = q.mem /\ s.new = q.new /\ s.pc = "settle"

LEMMA RecordShape ==
    ASSUME TypeInv, NEW r \in Requests, Record(r)
    PROVE  \E s \in Request : Recording(r, s)
  <1> DEFINE q == requests[r]
             s == [q EXCEPT !.pc = "settle"]
  <1>q. q \in Request
    BY RequestFields
  <1>1. requests' = [requests EXCEPT ![r] = s]
    BY DEF Record
  <1>2. s \in Request /\ s.kind = q.kind /\ s.mem = q.mem /\ s.new = q.new /\ s.pc = "settle"
    BY <1>q DEF Request, Phases
  <1> HIDE DEF s
  <1>3. Recording(r, s)
    BY <1>1, <1>2 DEF Record, Recording
  <1>4. QED
    BY <1>2, <1>3

\* The handlers that write a status past create(), and the request that dies
\* between the two statements of create().
Ending(r) ==
    /\ End(r)
    /\ \/ FormSave(r) \/ EditEntry(r)
       \/ Finish(r) /\ requests[r].kind = "plainBook"
       \/ Crash(r) /\ requests[r].pc = "record"

\* Every step of the system, by what it does to statuses and locks.
Shapes(r) ==
    \/ Starts(r)
    \/ Copying(r)
    \/ \E s \in Request : Created(r, s) \/ Recording(r, s) \/ Settling(r, s)
    \/ EditBooking(r)
    \/ Ending(r)

LEMMA StepShape ==
    ASSUME TypeInv, [Next]_vars
    PROVE  \/ UNCHANGED <<row, history, requests>>
           \/ \E r \in Requests : Shapes(r)
  <1>1. ASSUME NEW r \in Requests, Load(r) PROVE Shapes(r)
    BY <1>1, LoadShape DEF Shapes
  <1>2. ASSUME NEW r \in Requests, Step(r) PROVE Shapes(r)
    <2>1. CASE Create(r)
      BY <2>1, CreateShape DEF Shapes
    <2>2. CASE Record(r)
      BY <2>2, RecordShape DEF Shapes
    <2>3. CASE Settle(r)
      BY <2>3, SettleShape DEF Shapes
    <2>4. CASE FormSave(r)
      BY <2>4 DEF Shapes, Ending, FormSave
    <2>5. CASE EditEntry(r)
      BY <2>5 DEF Shapes, Ending, EditEntry
    <2>6. CASE Finish(r) /\ requests[r].kind = "plainBook"
      BY <2>6 DEF Shapes, Ending, Finish, End
    <2>7. CASE Finish(r) /\ requests[r].kind # "plainBook"
      BY <2>7, CopyingSteps DEF Shapes
    <2>8. CASE EditBooking(r)
      BY <2>8 DEF Shapes
    <2>9. QED
      BY <1>2, <2>1, <2>2, <2>3, <2>4, <2>5, <2>6, <2>7, <2>8, CopyingSteps DEF Step, Shapes
  <1>3. ASSUME NEW r \in Requests, Crash(r) PROVE Shapes(r)
    BY <1>3, CopyingSteps DEF Shapes, Ending, Crash
  <1>4. CASE FpEvent
    BY <1>4 DEF FpEvent, bookingVars
  <1>5. CASE UNCHANGED vars
    BY <1>5 DEF vars
  <1>6. QED
    BY <1>1, <1>2, <1>3, <1>4, <1>5 DEF Next

\* Requests keep their kinds.
LEMMA KindInvariant == Spec => []KindInv
  <1>1. Init => KindInv
    BY IdleShape DEF Init, KindInv, KindOK
  <1>2. TypeInv /\ KindInv /\ [Next]_vars => KindInv'
    <2> SUFFICES ASSUME TypeInv, KindInv, [Next]_vars PROVE KindInv'
      OBVIOUS
    <2>1. CASE UNCHANGED <<row, history, requests>>
      BY <2>1 DEF KindInv, KindOK
    <2>2. ASSUME NEW r \in Requests, Shapes(r) PROVE KindInv'
      <3>k. KindOK(requests[r])
        BY DEF KindInv
      <3>1. CASE Starts(r)
        <4>1. PICK s \in Request : Starting(r, s)
          BY <3>1 DEF Starts
        <4>2. QED
          BY <4>1, KindSlot DEF Starting, KindOK
      <3>2. CASE Copying(r)
        <4>1. PICK s \in Request :
                /\ requests' = [requests EXCEPT ![r] = s]
                /\ s.kind \in {requests[r].kind, "none"}
                /\ s.pc \notin {"record", "settle", "form", "editBooking", "editEntry"}
          BY <3>2 DEF Copying
        <4>2. QED
          BY <3>k, <4>1, KindSlot DEF KindOK
      <3>3. CASE \E s \in Request : Created(r, s) \/ Recording(r, s) \/ Settling(r, s)
        <4>1. PICK s \in Request : Created(r, s) \/ Recording(r, s) \/ Settling(r, s)
          BY <3>3
        <4>2. /\ requests' = [requests EXCEPT ![r] = s]
              /\ s.kind \in {requests[r].kind, "none"}
              /\ s.pc \in {"create", "finish", "idle", "record", "settle"}
          BY <4>1 DEF Created, Recording, Settling
        <4>3. QED
          BY <3>k, <4>2, KindSlot DEF KindOK
      <3>4. CASE EditBooking(r)
        <4>1. PICK v \in Targets :
                requests' = [requests EXCEPT ![r] = [requests[r] EXCEPT !.pc = "editEntry", !.new = v]]
          BY <3>4 DEF EditBooking
        <4> DEFINE s == [requests[r] EXCEPT !.pc = "editEntry", !.new = v]
        <4>2. s.kind = requests[r].kind /\ s.pc = "editEntry" /\ requests[r].pc = "editBooking"
          BY <3>4, RequestFields DEF EditBooking, Request
        <4>3. requests' = [requests EXCEPT ![r] = s]
          BY <4>1
        <4> HIDE DEF s
        <4>4. QED
          BY <3>k, <4>2, <4>3, KindSlot DEF KindOK
      <3>5. CASE Ending(r)
        BY <3>5, IdleShape, KindSlot DEF Ending, End, KindOK
      <3>6. QED
        BY <2>2, <3>1, <3>2, <3>3, <3>4, <3>5 DEF Shapes
    <2>3. QED
      BY <2>1, <2>2, StepShape
  <1>3. QED
    BY <1>1, <1>2, TypeInvariant, PTL DEF Spec

-----------------------------------------------------------------------------
(* Only a delivery locks a booking.                                        *)

\* An entry of the history never goes away, except by editing the history.
LEMMA StatusesAppend ==
    ASSUME history \in Seq(Entry), NEW e \in Entry, history' = Append(history, e)
    PROVE  StatusesOf(history)' = StatusesOf(history) \cup {e.last}
  <1>1. /\ Len(history') = Len(history) + 1
        /\ \A i \in 1..Len(history) : history'[i] = history[i]
        /\ history'[Len(history) + 1] = e
        /\ Len(history) \in Nat
    OBVIOUS
  <1>2. 1..Len(history') = 1..Len(history) \cup {Len(history) + 1}
    BY <1>1
  <1>3. QED
    BY <1>1, <1>2 DEF StatusesOf

\* The lock travels in the copies, and is about to be set by a request whose
\* entry "Delivered" is in the history already.
LockInv ==
    /\ row.lock => Delivered
    /\ \A r \in Requests : requests[r].mem.lock => Delivered
    /\ \A r \in Requests :
          requests[r].pc = "settle" /\ requests[r].new = "Delivered" => Delivered

\* A step that replaces one slot, if the history keeps its delivery.
LEMMA LockSlot ==
    ASSUME TypeInv, LockInv, NEW r \in Requests, NEW s,
           requests' = [requests EXCEPT ![r] = s],
           Delivered => Delivered',
           row'.lock => Delivered',
           s.mem.lock => Delivered',
           s.pc = "settle" /\ s.new = "Delivered" => Delivered'
    PROVE  LockInv'
  BY DEF TypeInv, TypeOK, LockInv

LEMMA LockStep ==
    ASSUME "editHistory" \notin Kinds, TypeInv, KindInv, LockInv, [Next]_vars
    PROVE  LockInv'
  <1>1. CASE UNCHANGED <<row, history, requests>>
    BY <1>1 DEF LockInv, Delivered, StatusesOf
  <1>2. ASSUME NEW r \in Requests, Shapes(r) PROVE LockInv'
    <2>k. KindOK(requests[r])
      BY DEF KindInv
    <2>d. history' = history => Delivered' = Delivered
      BY DEF Delivered, StatusesOf
    <2>l. /\ row.lock => Delivered
          /\ requests[r].mem.lock => Delivered
          /\ requests[r].pc = "settle" /\ requests[r].new = "Delivered" => Delivered
      BY DEF LockInv
    <2>n. NoRow.lock = FALSE
      BY DEF NoRow
    <2>1. CASE Starts(r)
      <3>1. PICK s \in Request : Starting(r, s)
        BY <2>1 DEF Starts
      <3>2. QED
        BY <2>d, <2>l, <3>1, LockSlot DEF Starting, Alike
    <2>2. CASE Copying(r)
      <3>1. PICK s \in Request :
              /\ requests' = [requests EXCEPT ![r] = s]
              /\ history' = history
              /\ Alike(row', row) \/ Alike(row', requests[r].mem)
              /\ Alike(s.mem, requests[r].mem) \/ Alike(s.mem, NoRow)
              /\ s.pc \notin {"record", "settle", "form", "editBooking", "editEntry"}
        BY <2>2 DEF Copying
      <3>2. QED
        BY <2>d, <2>l, <2>n, <3>1, LockSlot DEF Alike
    <2>3. CASE \E s \in Request : Created(r, s)
      <3>1. PICK s \in Request : Created(r, s)
        BY <2>3
      <3>2. QED
        BY <2>d, <2>l, <2>n, <3>1, LockSlot DEF Created, Alike
    <2>4. CASE \E s \in Request : Recording(r, s)
      <3>1. PICK s \in Request : Recording(r, s)
        BY <2>4
      <3>2. [old |-> requests[r].old, last |-> requests[r].new] \in Entry
        BY RequestFields DEF Entry
      <3>3. StatusesOf(history)' = StatusesOf(history) \cup {requests[r].new}
        BY <3>1, <3>2, StatusesAppend DEF Recording, TypeInv, TypeOK
      <3>4. QED
        BY <2>l, <3>1, <3>3, LockSlot DEF Recording, Delivered
    <2>5. CASE \E s \in Request : Settling(r, s)
      <3>1. PICK s \in Request : Settling(r, s)
        BY <2>5
      <3>2. QED
        BY <2>d, <2>l, <3>1, LockSlot DEF Settling
    <2>6. CASE EditBooking(r)
      BY <2>6, <2>k DEF EditBooking, KindOK
    <2>7. CASE Ending(r)
      <3>1. ~EditEntry(r)
        BY <2>k DEF EditEntry, KindOK
      <3>2. /\ requests' = [requests EXCEPT ![r] = Idle] /\ Idle.mem = NoRow /\ Idle.pc = "idle"
        BY <2>7, IdleShape DEF Ending, End
      <3>3. requests[r].mem \in Row
        BY RequestFields
      <3>4. CASE FormSave(r)
        <4>1. row'.lock = requests[r].mem.lock /\ history' = history
          BY <3>3, <3>4 DEF FormSave, Row
        <4>2. QED
          BY <2>d, <2>l, <2>n, <3>2, <4>1, LockSlot
      <3>5. CASE Finish(r)
        <4>1. row'.lock = requests[r].mem.lock /\ history' = history
          BY <3>3, <3>5 DEF Finish, Finished, Row
        <4>2. QED
          BY <2>d, <2>l, <2>n, <3>2, <4>1, LockSlot
      <3>6. CASE Crash(r)
        <4>1. row' = row /\ history' = history
          BY <3>6 DEF Crash, bookingVars
        <4>2. QED
          BY <2>d, <2>l, <2>n, <3>2, <4>1, LockSlot
      <3>7. QED
        BY <2>7, <3>1, <3>4, <3>5, <3>6 DEF Ending
    <2>8. QED
      BY <1>2, <2>1, <2>2, <2>3, <2>4, <2>5, <2>6, <2>7 DEF Shapes
  <1>3. QED
    BY <1>1, <1>2, StepShape

\* However many requests run, crash or overwrite each other's rows, the full
\* page form included, a booking is locked (z_lock_status) only if its history
\* has a delivery; the one handler that can take the delivery away again is the
\* edit of the history itself.
THEOREM LocksAreDeliveries ==
    ASSUME "editHistory" \notin Kinds
    PROVE  Spec => []LockImpliesDelivered
  <1>1. Init => LockInv
    <2>1. NoRow.lock = FALSE /\ NoRow \in Row
      BY DEF NoRow, Row, AnyStatus, Categories, NoCategory
    <2>2. Init => row.lock = FALSE
      BY <2>1 DEF Init, Row
    <2>3. Init => \A r \in Requests : requests[r].mem.lock = FALSE /\ requests[r].pc = "idle"
      BY <2>1, IdleShape DEF Init
    <2>4. QED
      BY <2>2, <2>3 DEF LockInv
  <1>2. TypeInv /\ KindInv /\ LockInv /\ [Next]_vars => LockInv'
    BY LockStep
  <1>3. LockInv => LockImpliesDelivered
    BY DEF LockInv, LockImpliesDelivered
  <1>4. QED
    BY <1>1, <1>2, <1>3, TypeInvariant, KindInvariant, PTL DEF Spec

-----------------------------------------------------------------------------
(* Every status is in the history.                                         *)

\* The status a request is about to record.
Pending == {requests[r].new : r \in {s \in Requests : requests[s].pc = "record"}}

LEMMA ExplainedSplit ==
    Explained = Origins \cup {NoStatus} \cup StatusesOf(history) \cup Pending
  BY DEF Explained, Pending

\* The copies that requests carry, and will write back whole, show explained
\* statuses too.
AuditInv ==
    /\ row.status \in Explained
    /\ \A r \in Requests : requests[r].mem.status \in Explained

\* A step that replaces one slot: what was explained stays explained, so only
\* the row and that slot's copy need looking at.
LEMMA AuditSlot ==
    ASSUME TypeInv, AuditInv, NEW r \in Requests, NEW s,
           requests' = [requests EXCEPT ![r] = s],
           StatusesOf(history) \subseteq StatusesOf(history)',
           requests[r].pc = "record" => requests[r].new \in StatusesOf(history)',
           row'.status \in Explained \/ row'.status \in Explained',
           s.mem.status \in Explained \/ s.mem.status \in Explained'
    PROVE  AuditInv'
  <1>1. \A u \in Requests \ {r} : requests'[u] = requests[u]
    BY DEF TypeInv, TypeOK
  <1>2. requests'[r] = s
    BY DEF TypeInv, TypeOK
  <1>3. Pending \subseteq Pending' \cup StatusesOf(history)'
    <2>1. ASSUME NEW u \in Requests, requests[u].pc = "record"
          PROVE  requests[u].new \in Pending' \cup StatusesOf(history)'
      <3>1. CASE u = r
        BY <2>1, <3>1
      <3>2. CASE u # r
        <4>1. requests'[u] = requests[u]
          BY <1>1, <3>2
        <4>2. QED
          BY <2>1, <4>1 DEF Pending
      <3>3. QED
        BY <3>1, <3>2
    <2>2. QED
      BY <2>1 DEF Pending
  <1>4. Explained \subseteq Explained'
    BY <1>3, ExplainedSplit DEF Explained, Pending
  <1>5. QED
    BY <1>1, <1>2, <1>4 DEF AuditInv

\* create() saves a status that it does not go on to record only if the history
\* ends with it, or if there is none.
LEMMA NoNews ==
    ASSUME TypeInv, NEW new \in AnyStatus, ~IsNews(new)
    PROVE  new \in {NoStatus} \cup StatusesOf(history)
  <1>1. CASE new = NoStatus
    BY <1>1
  <1>2. CASE new # NoStatus
    <2>1. history # <<>> /\ history[Len(history)].last = new
      BY <1>2 DEF IsNews, LastOf
    <2>2. Len(history) \in 1..Len(history)
      BY <2>1 DEF TypeInv, TypeOK
    <2>3. QED
      BY <2>1, <2>2 DEF StatusesOf
  <1>3. QED
    BY <1>1, <1>2

LEMMA AuditStep ==
    ASSUME MaxCrashes = 0, Kinds \subseteq CreateKinds,
           TypeInv, KindInv, AuditInv, [Next]_vars
    PROVE  AuditInv'
  <1>1. CASE UNCHANGED <<row, history, requests>>
    BY <1>1 DEF AuditInv, Explained, StatusesOf
  <1>2. ASSUME NEW r \in Requests, Shapes(r) PROVE AuditInv'
    <2>k. requests[r].kind \notin DirectKinds /\ KindOK(requests[r])
      BY DEF KindInv, KindOK, CreateKinds, DirectKinds
    <2>h. history' = history => StatusesOf(history)' = StatusesOf(history)
      BY DEF StatusesOf
    <2>l. row.status \in Explained /\ requests[r].mem.status \in Explained
      BY DEF AuditInv
    <2>n. NoRow.status \in Explained
      BY DEF NoRow, Explained
    <2>1. CASE Starts(r)
      <3>1. PICK s \in Request : Starting(r, s)
        BY <2>1 DEF Starts
      <3>2. QED
        BY <2>h, <2>l, <3>1, AuditSlot DEF Starting, Alike
    <2>2. CASE Copying(r)
      <3>1. PICK s \in Request :
              /\ requests' = [requests EXCEPT ![r] = s]
              /\ history' = history
              /\ Alike(row', row) \/ Alike(row', requests[r].mem)
              /\ Alike(s.mem, requests[r].mem) \/ Alike(s.mem, NoRow)
              /\ requests[r].pc # "record"
        BY <2>2 DEF Copying
      <3>2. QED
        BY <2>h, <2>l, <2>n, <3>1, AuditSlot DEF Alike
    <2>3. CASE \E s \in Request : Created(r, s)
      <3>1. PICK s \in Request : Created(r, s)
        BY <2>3
      <3> DEFINE new == Head(requests[r].todo)
      <3>2. /\ requests' = [requests EXCEPT ![r] = s]
            /\ history' = history /\ requests[r].pc = "create" /\ new \in AnyStatus
        BY <3>1 DEF Created
      <3>3. CASE /\ Alike(row', row)
                 /\ Alike(s.mem, requests[r].mem) \/ Alike(s.mem, NoRow)
        BY <2>h, <2>l, <2>n, <3>2, <3>3, AuditSlot DEF Alike
      <3>4. CASE /\ row'.status = new
                 /\ Alike(s.mem, row') \/ Alike(s.mem, NoRow)
                 /\ \/ s.pc = "record" /\ s.new = new
                    \/ s.pc # "record" /\ ~IsNews(new)
        <4>1. new \in Explained \/ new \in Explained'
          <5>1. CASE s.pc = "record" /\ s.new = new
            <6>1. requests'[r] = s
              BY <3>2 DEF TypeInv, TypeOK
            <6>2. QED
              BY <5>1, <6>1 DEF Explained
          <5>2. CASE ~IsNews(new)
            <6>1. new \in {NoStatus} \cup StatusesOf(history)
              BY <3>2, <5>2, NoNews
            <6>2. QED
              BY <6>1 DEF Explained
          <5>3. QED
            BY <3>4, <5>1, <5>2
        <4>2. s.mem.status \in {new, NoRow.status}
          BY <3>4 DEF Alike
        <4> HIDE DEF new
        <4>3. QED
          BY <2>h, <2>n, <3>2, <3>4, <4>1, <4>2, AuditSlot
      <3>5. QED
        BY <3>1, <3>3, <3>4 DEF Created
    <2>4. CASE \E s \in Request : Recording(r, s)
      <3>1. PICK s \in Request : Recording(r, s)
        BY <2>4
      <3>2. [old |-> requests[r].old, last |-> requests[r].new] \in Entry
        BY RequestFields DEF Entry
      <3>3. StatusesOf(history)' = StatusesOf(history) \cup {requests[r].new}
        BY <3>1, <3>2, StatusesAppend DEF Recording, TypeInv, TypeOK
      <3>4. QED
        BY <2>l, <3>1, <3>3, AuditSlot DEF Recording
    <2>5. CASE \E s \in Request : Settling(r, s)
      <3>1. PICK s \in Request : Settling(r, s)
        BY <2>5
      <3>2. NoStatus \in Explained
        BY DEF Explained
      <3>3. QED
        BY <2>h, <2>l, <3>1, <3>2, AuditSlot DEF Settling
    <2>6. CASE EditBooking(r)
      BY <2>6, <2>k DEF EditBooking, KindOK, DirectKinds
    <2>7. CASE Ending(r)
      <3>1. ~FormSave(r) /\ ~EditEntry(r) /\ requests[r].kind # "plainBook"
        BY <2>k DEF FormSave, EditEntry, KindOK, DirectKinds
      <3>2. ~Crash(r)
        BY DEF Crash, TypeInv, TypeOK
      <3>3. QED
        BY <2>7, <3>1, <3>2 DEF Ending
    <2>8. QED
      BY <1>2, <2>1, <2>2, <2>3, <2>4, <2>5, <2>6, <2>7 DEF Shapes
  <1>3. QED
    BY <1>1, <1>2, StepShape

\* However the requests interleave, as long as none dies half way and none
\* writes the status past create(), the booking never shows a status that its
\* history does not explain, not even after a stale copy is written back.
THEOREM StatusesAreAudited ==
    ASSUME MaxCrashes = 0, Kinds \subseteq CreateKinds
    PROVE  Spec => []StatusAudited
  <1>1. Init => AuditInv
    <2> SUFFICES ASSUME Init PROVE AuditInv
      OBVIOUS
    <2>1. PICK s \in Origins : row = [NoRow EXCEPT !.status = s, !.category = Category(s)]
      BY DEF Init
    <2>2. row.status = s
      BY <2>1 DEF NoRow
    <2>3. \A r \in Requests : requests[r].mem.status = NoStatus
      BY DEF Init, Idle, NoRow
    <2>4. QED
      BY <2>2, <2>3 DEF AuditInv, Explained
  <1>2. TypeInv /\ KindInv /\ AuditInv /\ [Next]_vars => AuditInv'
    BY AuditStep
  <1>3. AuditInv => StatusAudited
    BY DEF AuditInv, StatusAudited
  <1>4. QED
    BY <1>1, <1>2, <1>3, TypeInvariant, KindInvariant, PTL DEF Spec

=============================================================================

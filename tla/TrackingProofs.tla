--------------------------- MODULE TrackingProofs ---------------------------
(***************************************************************************)
(* Tracking for every provider, number of lines and bound.  It implements  *)
(* Shipment: whatever is forgotten, sorted, cut or stored again, the       *)
(* booking shows nothing that was not reported, and a delivery is final.   *)
(* It is locked with the time of a delivery in the FP's list, and Allied's *)
(* booking not before each of its lines is delivered.                      *)
(***************************************************************************)
EXTENDS Tracking, FiniteSetTheorems, WellFoundedInduction, TLAPS

FpEvent == [code : Codes, at : Nat]

\* A list of events the FP has reported.
ReportedList(s) ==
    s \in Seq(FpEvent) /\ \A i \in DOMAIN s : StatusOf(s[i].code) \in reported

\* The FP's list and the answer of a poll hold reported events only; a booking
\* that shows a delivery is locked.
Inv ==
    /\ reported \subseteq FpStatuses
    /\ ReportedList(log)
    /\ poll.pc # "idle" => ReportedList(poll.answer) /\ poll.answer # <<>>
    /\ booking.status = "Delivered" => booking.lock

-----------------------------------------------------------------------------
(* The lists that the FP's answer is made of.                              *)

\* Lemma: sorting by time, and turning round, bring in nothing new.
LEMMA OrderedLists ==
    ASSUME ReportedList(log), log # <<>>, NEW t, t \in ByTime(log) \cup {Newest(log), log}
    PROVE  ReportedList(t) /\ t # <<>>
<1>1. CASE t \in ByTime(log)
  <2>1. /\ log \in Seq(FpEvent) /\ t \in [1..Len(log) -> Range(log)]
        /\ Range(log) \subseteq FpEvent /\ Len(log) \in Nat
        /\ \A e \in Range(log) : StatusOf(e.code) \in reported
    BY <1>1 DEF ByTime, ReportedList, Range
  <2>2. t \in Seq(FpEvent) /\ Len(t) = Len(log) BY <2>1
  <2>3. Len(log) # 0 BY <2>1
  <2> QED BY <2>1, <2>2, <2>3 DEF ReportedList
<1>2. CASE t = Newest(log)
  <2>1. log \in Seq(FpEvent) /\ Len(log) \in Nat /\ Len(log) # 0 BY DEF ReportedList
  <2>2. t = [k \in 1..Len(log) |-> log[Len(log) + 1 - k]] BY <1>2, <2>1 DEF Newest
  <2>3. \A k \in 1..Len(log) : Len(log) + 1 - k \in 1..Len(log) BY <2>1
  <2>4. t \in Seq(FpEvent) /\ Len(t) = Len(log) BY <2>1, <2>2, <2>3
  <2> QED BY <2>1, <2>2, <2>3, <2>4 DEF ReportedList
<1>3. CASE t = log
  BY <1>3
<1> QED BY <1>1, <1>2, <1>3

\* Lemma: the list up to its first delivery is a non-empty part of the list.
LEMMA CutList ==
    ASSUME NEW S, NEW s \in Seq(S), s # <<>>
    PROVE  /\ Len(UpToDelivery(s)) \in 1..Len(s)
           /\ UpToDelivery(s) = SubSeq(s, 1, Len(UpToDelivery(s)))
<1> DEFINE K == {i \in DOMAIN s : DeliveriesIn(s) \cap 1..(i - 1) = {}}
<1>1. Len(s) \in Nat /\ Len(s) # 0 /\ DOMAIN s = 1..Len(s)
  OBVIOUS
<1>2. IsFiniteSet(1..Len(s)) /\ Cardinality(1..Len(s)) = Len(s)
  BY <1>1, FS_Interval
<1>3. IsFiniteSet(K) /\ Cardinality(K) <= Len(s)
  BY <1>1, <1>2, FS_Subset
<1>4. K # {}
  <2>1. 1 \in DOMAIN s /\ 1..(1 - 1) = {} BY <1>1
  <2> QED BY <2>1
<1>5. Cardinality(K) \in Nat /\ Cardinality(K) # 0
  BY <1>3, <1>4, FS_CardinalityType, FS_EmptySet
<1>6. Cardinality(K) \in 1..Len(s) BY <1>1, <1>3, <1>5
<1>7. UpToDelivery(s) = SubSeq(s, 1, Cardinality(K)) BY DEF UpToDelivery
<1> HIDE DEF K
<1>8. Len(UpToDelivery(s)) = Cardinality(K) BY <1>1, <1>6, <1>7
<1> QED BY <1>6, <1>7, <1>8

\* Lemma: what an update shows was reported, or is a partial delivery after a
\* delivery was reported.
LEMMA ShowsReported ==
    ASSUME NEW s, ReportedList(s), s # <<>>
    PROVE  LET code == Shown(Considered(s)).code
           IN  \/ StatusOf(code) \in reported
               \/ "Delivered" \in reported /\ StatusOf(code) = "Partially Delivered"
<1>1. s \in Seq(FpEvent) /\ Len(s) \in Nat /\ Len(s) # 0 /\ DOMAIN s = 1..Len(s)
  BY DEF ReportedList
<1>2. CASE provider # "allied" \/ DeliveriesIn(s) = {}
  <2>1. Considered(s) = s BY <1>2 DEF Considered
  <2>2. Shown(s) = s[1] \/ Shown(s) = s[Len(s)] BY DEF Shown
  <2>3. PICK i \in DOMAIN s : Shown(Considered(s)) = s[i] BY <1>1, <2>1, <2>2
  <2>4. StatusOf(s[i].code) \in reported BY <2>3 DEF ReportedList
  <2> QED BY <2>3, <2>4
<1>3. CASE provider = "allied" /\ DeliveriesIn(s) # {}
  <2>1. Shown(Considered(s)) = Considered(s)[Len(Considered(s))] BY <1>3 DEF Shown
  <2> DEFINE u == UpToDelivery(s)
  <2>2. /\ Len(u) \in 1..Len(s) /\ u = SubSeq(s, 1, Len(u))
    BY <1>1, CutList
  <2>3. u \in Seq(FpEvent) /\ u[Len(u)] = s[Len(u)]
    BY <1>1, <2>2
  <2>4. CASE Considered(s) = u
    BY <1>1, <2>1, <2>2, <2>3, <2>4 DEF ReportedList
  <2>5. CASE Considered(s) = Append(u, [code |-> "PARTDEL", at |-> s[Len(s)].at])
    <3> HIDE DEF u
    <3>1. Shown(Considered(s)) = [code |-> "PARTDEL", at |-> s[Len(s)].at]
      BY <2>1, <2>3, <2>5
    <3>2. StatusOf(Shown(Considered(s)).code) = "Partially Delivered"
      BY <3>1 DEF StatusOf, Deliveries
    <3>3. PICK i \in DOMAIN s : s[i].code \in Deliveries
      BY <1>3 DEF DeliveriesIn
    <3>4. StatusOf(s[i].code) = "Delivered" BY <3>3 DEF StatusOf, Deliveries
    <3>5. StatusOf(s[i].code) \in reported BY <3>3 DEF ReportedList
    <3> QED BY <3>2, <3>4, <3>5
  <2>6. Considered(s) = u \/ Considered(s) = Append(u, [code |-> "PARTDEL", at |-> s[Len(s)].at])
    BY <1>3 DEF Considered
  <2> QED BY <2>4, <2>5, <2>6
<1> QED BY <1>2, <1>3

-----------------------------------------------------------------------------
(* The invariant.                                                          *)

\* Lemma: the initial states satisfy the invariant.
LEMMA InitInv == ASSUME Init PROVE Inv
BY DEF Init, Inv, ReportedList, FpStatuses, NoPoll, NoStatus

\* Lemma: a longer list of reported statuses explains all that a shorter one did.
LEMMA MoreReported ==
    ASSUME Inv, FpReports
    PROVE  Inv'
<1>1. PICK code \in Codes, at \in 1..MaxTime :
        /\ log' = Append(log, [code |-> code, at |-> IF provider = "startrack" THEN NoTime ELSE at])
        /\ reported' = reported \cup {StatusOf(code)}
  BY DEF FpReports
<1> DEFINE e == [code |-> code, at |-> IF provider = "startrack" THEN NoTime ELSE at]
<1>2. e \in FpEvent BY DEF FpEvent, NoTime
<1>3. StatusOf(code) \in FpStatuses BY DEF FpStatuses, StatusOf, NoStatus, Codes, Deliveries
<1>4. log \in Seq(FpEvent) /\ \A i \in 1..Len(log) : StatusOf(log[i].code) \in reported
  BY DEF Inv, ReportedList
<1>5. log' = Append(log, e) /\ e.code = code BY <1>1
<1> HIDE DEF e
<1>6. /\ log' \in Seq(FpEvent) /\ Len(log') = Len(log) + 1
      /\ log'[Len(log) + 1] = e /\ \A i \in 1..Len(log) : log'[i] = log[i]
  BY <1>2, <1>4, <1>5
<1>7. \A i \in 1..Len(log') : StatusOf(log'[i].code) \in reported'
  <2> TAKE i \in 1..Len(log')
  <2>1. i \in 1..Len(log) \/ i = Len(log) + 1 BY <1>4, <1>6
  <2> QED BY <2>1, <1>1, <1>4, <1>5, <1>6
<1>8. ReportedList(log)' BY <1>6, <1>7 DEF ReportedList
<1>9. poll' = poll /\ booking' = booking BY DEF FpReports
<1>10. ReportedList(poll.answer) => ReportedList(poll.answer)'
  BY <1>1, <1>9 DEF ReportedList
<1> QED BY <1>1, <1>3, <1>8, <1>9, <1>10 DEF Inv

\* Lemma: every step keeps the invariant.
LEMMA NextInv ==
    ASSUME Inv, [Next]_vars
    PROVE  Inv'
<1>1. CASE FpReports BY <1>1, MoreReported
<1>2. CASE FpForgets
  <2>1. log \in Seq(FpEvent) /\ log # <<>> /\ log' = Tail(log) BY <1>2 DEF Inv, ReportedList, FpForgets
  <2>2. /\ log' \in Seq(FpEvent) /\ Len(log') = Len(log) - 1
        /\ \A i \in 1..Len(log') : i + 1 \in 1..Len(log) /\ log'[i] = log[i + 1]
    BY <2>1
  <2>3. ReportedList(log)' BY <2>1, <2>2, <1>2 DEF ReportedList, Inv, FpForgets
  <2>4. reported' = reported /\ poll' = poll /\ booking' = booking BY <1>2 DEF FpForgets
  <2> QED BY <2>3, <2>4 DEF Inv, ReportedList
<1>3. CASE FpTracks
  <2>1. log # <<>> /\ ReportedList(log) BY <1>3 DEF FpTracks, Inv
  <2>2. PICK t \in ByTime(log) \cup {Newest(log), log} : poll' = [pc |-> "answered", answer |-> t]
    BY <1>3 DEF FpTracks
  <2>3. ReportedList(t) /\ t # <<>> BY <2>1, <2>2, OrderedLists
  <2>4. UNCHANGED <<log, reported, booking>> BY <1>3 DEF FpTracks, fpVars
  <2> QED BY <2>2, <2>3, <2>4 DEF Inv, ReportedList
<1>4. CASE StoreAgain \/ StoreNews \/ NothingNew \/ Crash
  <2>1. UNCHANGED <<log, reported, booking>>
    BY <1>4 DEF StoreAgain, StoreNews, NothingNew, Crash, fpVars
  <2>2. \/ poll.pc # "idle" /\ poll' = [poll EXCEPT !.pc = "update"]
        \/ poll' = NoPoll
    BY <1>4 DEF StoreAgain, StoreNews, NothingNew, Crash
  <2>3. CASE poll' = NoPoll BY <2>1, <2>3 DEF Inv, ReportedList, NoPoll
  <2>4. CASE poll.pc # "idle" /\ poll' = [poll EXCEPT !.pc = "update"]
    <3>1. poll'.answer = poll.answer \/ poll'.answer = poll.answer BY <2>4
    <3> QED BY <2>1, <2>4, <3>1 DEF Inv, ReportedList
  <2> QED BY <2>2, <2>3, <2>4
<1>5. CASE Update
  <2>1. UNCHANGED <<log, reported>> /\ poll' = NoPoll BY <1>5 DEF Update, fpVars
  <2>2. booking'.status = "Delivered" => booking'.lock
    <3>1. CASE booking.lock BY <1>5, <3>1 DEF Update
    <3>2. CASE ~booking.lock BY <1>5, <3>2 DEF Update, Take
    <3> QED BY <3>1, <3>2
  <2> QED BY <2>1, <2>2 DEF Inv, ReportedList, NoPoll
<1>6. CASE UNCHANGED vars BY <1>6 DEF vars, Inv, ReportedList
<1> QED BY <1>1, <1>2, <1>3, <1>4, <1>5, <1>6 DEF Next

-----------------------------------------------------------------------------
(* The refinement.                                                         *)

\* Lemma: each step is a step of Shipment or leaves its variables alone.
LEMMA StepsArePromised ==
    ASSUME Inv, [Next]_vars
    PROVE  [Promise!Next]_(Promise!promise)
<1>1. CASE FpReports
  <2>1. PICK code \in Codes : reported' = reported \cup {StatusOf(code)}
    BY <1>1 DEF FpReports
  <2>2. StatusOf(code) \in FpStatuses BY DEF FpStatuses, StatusOf, NoStatus, Codes, Deliveries
  <2>3. booking' = booking BY <1>1 DEF FpReports
  <2>4. Promise!Report BY <2>1, <2>2, <2>3 DEF Promise!Report
  <2> QED BY <2>4 DEF Promise!Next
<1>2. CASE Update
  <2>1. reported' = reported BY <1>2 DEF Update, fpVars
  <2>2. CASE booking.lock
    BY <1>2, <2>1, <2>2 DEF Update, Promise!promise
  <2>3. CASE ~booking.lock
    <3>1. ReportedList(poll.answer) /\ poll.answer # <<>> BY <1>2 DEF Inv, Update
    <3>2. booking'.status = StatusOf(Shown(Considered(poll.answer)).code)
      BY <1>2, <2>3 DEF Update, Take
    <3>3. \/ booking'.status \in reported
          \/ "Delivered" \in reported /\ booking'.status = "Partially Delivered"
      BY <3>1, <3>2, ShowsReported
    <3>4. booking.status # "Delivered" BY <2>3 DEF Inv
    <3>5. Promise!Show BY <2>1, <3>3, <3>4 DEF Promise!Show
    <3> QED BY <3>5 DEF Promise!Next
  <2> QED BY <2>2, <2>3
<1>3. CASE FpForgets \/ FpTracks \/ StoreAgain \/ StoreNews \/ NothingNew \/ Crash
  <2>1. reported' = reported /\ booking' = booking
    BY <1>3 DEF FpForgets, FpTracks, StoreAgain, StoreNews, NothingNew, Crash, fpVars
  <2> QED BY <2>1 DEF Promise!promise
<1>4. CASE UNCHANGED vars BY <1>4 DEF vars, Promise!promise
<1> QED BY <1>1, <1>2, <1>3, <1>4 DEF Next

\* Theorem: tracking implements Shipment.  Polls show only what the FP has
\* reported and never change what they show of a whole delivery.
THEOREM TrackingKeepsPromise == Spec => KeepsPromise
<1>1. Init => Promise!Init
  BY DEF Init, Promise!Init
<1>2. Init => Inv BY InitInv
<1>3. Inv /\ [Next]_vars => Inv' BY NextInv
<1>4. Inv /\ [Next]_vars => [Promise!Next]_(Promise!promise) BY StepsArePromised
<1> QED BY <1>1, <1>2, <1>3, <1>4, PTL DEF Spec, KeepsPromise, Promise!Spec

-----------------------------------------------------------------------------
(* What a booking shows of a delivery: it is locked with the time of a     *)
(* delivery in the FP's list, and Allied's booking not before each of its  *)
(* lines is delivered.                                                     *)

\* A delivery at this time is in the FP's list.
DeliveredAt(time) == \E i \in DeliveriesIn(log) : log[i].at = time

\* Deliveries of an answer have a time, and are in the FP's list; an answer has
\* no more of them than the list.
Covered(s) ==
    /\ provider # "startrack" => \A i \in DeliveriesIn(s) : s[i].at # NoTime /\ DeliveredAt(s[i].at)
    /\ provider = "allied" => Cardinality(DeliveriesIn(s)) <= Cardinality(DeliveriesIn(log))

DeliveryInv ==
    /\ Inv
    /\ lines \in Nat
    /\ provider # "startrack" => \A i \in DOMAIN log : log[i].at # NoTime
    /\ poll.pc # "idle" => Covered(poll.answer)
    /\ NotDeliveredEarly
    /\ DeliveryIsTimed

-----------------------------------------------------------------------------
(* Counting the deliveries of a list.                                      *)

\* Lemma: the deliveries of a list are finitely many.
LEMMA FiniteDeliveries ==
    ASSUME NEW s, ReportedList(s)
    PROVE  IsFiniteSet(DeliveriesIn(s)) /\ Cardinality(DeliveriesIn(s)) \in Nat
<1>1. DOMAIN s = 1..Len(s) /\ Len(s) \in Nat
  BY DEF ReportedList
<1>2. IsFiniteSet(1..Len(s))
  BY <1>1, FS_Interval
<1>3. DeliveriesIn(s) \in SUBSET (1..Len(s))
  BY <1>1 DEF DeliveriesIn
<1> QED
  BY <1>2, <1>3, FS_Subset, FS_CardinalityType

\* Lemma: a function from one list's deliveries that reaches each of the other's
\* shows that the other has no more of them.
LEMMA NoMore ==
    ASSUME NEW S, NEW T, IsFiniteSet(S), NEW f \in [S -> T], \A t \in T : \E s \in S : f[s] = t
    PROVE  Cardinality(T) <= Cardinality(S)
<1>1. f \in Surjection(S, T)
  BY DEF Surjection
<1> QED
  BY <1>1, FS_Surjection

\* Lemma: an event has a time.
LEMMA EventsHaveTimes ==
    ASSUME NEW s, s \in Seq(FpEvent), NEW m \in DOMAIN s
    PROVE  s[m].at \in Nat
<1>1. s[m] \in FpEvent
  OBVIOUS
<1> QED
  BY <1>1 DEF FpEvent

\* Lemma: no two events have one rank.
LEMMA RanksDiffer ==
    ASSUME NEW s, s \in Seq(FpEvent), NEW i \in DOMAIN s, NEW j \in DOMAIN s,
           s[i].at < s[j].at \/ (s[i].at = s[j].at /\ i < j)
    PROVE  Rank(s, i) # Rank(s, j)
<1> DEFINE upTo(k) == {m \in DOMAIN s : s[m].at < s[k].at \/ (s[m].at = s[k].at /\ m <= k)}
<1>1. /\ DOMAIN s = 1..Len(s) /\ Len(s) \in Nat
      /\ \A m \in DOMAIN s : s[m].at \in Nat
  BY EventsHaveTimes
<1>2. IsFiniteSet(upTo(j))
  <2>1. IsFiniteSet(1..Len(s))
    BY <1>1, FS_Interval
  <2>2. upTo(j) \in SUBSET (1..Len(s))
    BY <1>1
  <2> QED
    BY <2>1, <2>2, FS_Subset
<1>3. upTo(i) \in SUBSET upTo(j)
  BY <1>1
<1>4. j \in upTo(j) /\ j \notin upTo(i)
  BY <1>1
<1>5. Cardinality(upTo(j)) # Cardinality(upTo(i))
  BY <1>2, <1>3, <1>4, FS_Subset
<1> QED
  BY <1>5 DEF Rank

\* Lemma: a rank is a position.
LEMMA RankIsPosition ==
    ASSUME NEW s, s \in Seq(FpEvent), NEW i \in DOMAIN s
    PROVE  Rank(s, i) \in DOMAIN s
<1> DEFINE upTo == {m \in DOMAIN s : s[m].at < s[i].at \/ (s[m].at = s[i].at /\ m <= i)}
<1>1. /\ DOMAIN s = 1..Len(s) /\ Len(s) \in Nat
      /\ \A m \in DOMAIN s : s[m].at \in Nat
  BY EventsHaveTimes
<1>2. IsFiniteSet(1..Len(s)) /\ Cardinality(1..Len(s)) = Len(s)
  BY <1>1, FS_Interval
<1>3. upTo \in SUBSET (1..Len(s)) /\ i \in upTo
  BY <1>1
<1> HIDE DEF upTo
<1>4. IsFiniteSet(upTo) /\ Cardinality(upTo) <= Len(s)
  BY <1>2, <1>3, FS_Subset
<1>5. Cardinality(upTo) \in Nat /\ Cardinality(upTo) # 0
  BY <1>3, <1>4, FS_CardinalityType, FS_EmptySet
<1>6. Cardinality(upTo) \in 1..Len(s)
  BY <1>1, <1>4, <1>5
<1>7. Rank(s, i) = Cardinality(upTo)
  BY DEF Rank, upTo
<1> QED
  BY <1>1, <1>6, <1>7

\* Lemma: each position is the rank of some event.
LEMMA RanksCover ==
    ASSUME NEW s, s \in Seq(FpEvent), NEW k \in DOMAIN s
    PROVE  \E i \in DOMAIN s : Rank(s, i) = k
<1> DEFINE f == [i \in DOMAIN s |-> Rank(s, i)]
<1>1. DOMAIN s = 1..Len(s) /\ Len(s) \in Nat
  OBVIOUS
<1>2. \A m \in DOMAIN s : s[m].at \in Nat
  BY EventsHaveTimes
<1>3. IsFiniteSet(DOMAIN s)
  BY <1>1, FS_Interval
<1>4. f \in [DOMAIN s -> DOMAIN s]
  BY RankIsPosition
<1>5. ASSUME NEW i \in DOMAIN s, NEW j \in DOMAIN s, i # j PROVE f[i] # f[j]
  <2>1. \/ s[i].at < s[j].at \/ (s[i].at = s[j].at /\ i < j)
        \/ s[j].at < s[i].at \/ (s[j].at = s[i].at /\ j < i)
    BY <1>1, <1>2, <1>5
  <2>2. Rank(s, i) # Rank(s, j)
    BY <2>1, RanksDiffer
  <2> QED
    BY <2>2
<1>6. f \in Injection(DOMAIN s, DOMAIN s)
  BY <1>4, <1>5 DEF Injection, IsInjective
<1>7. f \in Surjection(DOMAIN s, DOMAIN s)
  BY <1>3, <1>6, FS_Injection
<1> QED
  BY <1>7 DEF Surjection

\* Lemma: sorted by time, a list has no more deliveries than it had before.
LEMMA SortedIsCovered ==
    ASSUME ReportedList(log), NEW t \in ByTime(log)
    PROVE  Cardinality(DeliveriesIn(t)) <= Cardinality(DeliveriesIn(log))
<1>1. log \in Seq(FpEvent)
  BY DEF ReportedList
<1>2. DOMAIN t = DOMAIN log /\ \A i \in DOMAIN log : t[Rank(log, i)] = log[i]
  BY DEF ByTime
<1> DEFINE f == [i \in DeliveriesIn(log) |-> Rank(log, i)]
<1>3. f \in [DeliveriesIn(log) -> DeliveriesIn(t)]
  BY <1>1, <1>2, RankIsPosition DEF DeliveriesIn
<1>4. \A k \in DeliveriesIn(t) : \E i \in DeliveriesIn(log) : f[i] = k
  <2> TAKE k \in DeliveriesIn(t)
  <2>1. k \in DOMAIN log /\ t[k].code \in Deliveries
    BY <1>2 DEF DeliveriesIn
  <2>2. PICK i \in DOMAIN log : Rank(log, i) = k
    BY <1>1, <2>1, RanksCover
  <2>3. i \in DeliveriesIn(log)
    BY <1>2, <2>1, <2>2 DEF DeliveriesIn
  <2> QED
    BY <2>2, <2>3
<1> QED
  BY <1>3, <1>4, FiniteDeliveries, NoMore

\* Lemma: an answer of the FP covers nothing but what is in its list.
LEMMA AnswerIsCovered ==
    ASSUME DeliveryInv,
           NEW t, t \in CASE provider = "allied" -> ByTime(log)
                          [] provider = "startrack" -> {Newest(log)}
                          [] OTHER -> {log}
    PROVE  Covered(t)
<1>1. ReportedList(log)
  BY DEF DeliveryInv, Inv
<1>2. CASE provider = "startrack"
  BY <1>2 DEF Covered
<1>3. CASE provider # "startrack" /\ t = log
  <2>1. Cardinality(DeliveriesIn(log)) <= Cardinality(DeliveriesIn(log))
    BY <1>1, FiniteDeliveries
  <2> QED
    BY <1>3, <2>1 DEF Covered, DeliveryInv, DeliveredAt, DeliveriesIn
<1>4. CASE provider = "allied" /\ t \in ByTime(log)
  <2>1. Cardinality(DeliveriesIn(t)) <= Cardinality(DeliveriesIn(log))
    BY <1>1, <1>4, SortedIsCovered
  <2>2. \A k \in DOMAIN t : \E i \in DOMAIN log : t[k] = log[i]
    BY <1>4 DEF ByTime, Range
  <2>3. \A k \in DeliveriesIn(t) : t[k].at # NoTime /\ DeliveredAt(t[k].at)
    <3> TAKE k \in DeliveriesIn(t)
    <3>1. k \in DOMAIN t /\ t[k].code \in Deliveries
      BY DEF DeliveriesIn
    <3>2. PICK i \in DOMAIN log : t[k] = log[i]
      BY <2>2, <3>1
    <3> QED
      BY <1>4, <3>1, <3>2 DEF DeliveryInv, DeliveredAt, DeliveriesIn
  <2> QED
    BY <1>4, <2>1, <2>3 DEF Covered
<1> QED
  BY <1>2, <1>3, <1>4

-----------------------------------------------------------------------------
(* The FP's list.                                                          *)

\* Lemma: a list that keeps its deliveries, and has as many, keeps the invariant.
LEMMA ListGrows ==
    ASSUME DeliveryInv, Inv', UNCHANGED <<provider, lines, booking, poll>>,
           provider # "startrack" => \A i \in DOMAIN log' : log'[i].at # NoTime,
           \A time : DeliveredAt(time) => DeliveredAt(time)',
           Cardinality(DeliveriesIn(log)) <= Cardinality(DeliveriesIn(log'))
    PROVE  DeliveryInv'
<1>1. ReportedList(log) /\ log' \in Seq(FpEvent)
  BY DEF DeliveryInv, Inv, ReportedList
<1>2. /\ Cardinality(DeliveriesIn(log)) \in Nat
      /\ IsFiniteSet(DeliveriesIn(log))
  BY <1>1, FiniteDeliveries
<1>3. Cardinality(DeliveriesIn(log')) \in Nat
  <2>1. DOMAIN log' = 1..Len(log') /\ Len(log') \in Nat
    BY <1>1
  <2>2. IsFiniteSet(1..Len(log')) /\ DeliveriesIn(log') \in SUBSET (1..Len(log'))
    BY <2>1, FS_Interval DEF DeliveriesIn
  <2> QED
    BY <2>2, FS_Subset, FS_CardinalityType
<1>4. ASSUME poll.pc # "idle" PROVE Covered(poll.answer)'
  <2>1. Covered(poll.answer) /\ ReportedList(poll.answer)
    BY <1>4 DEF DeliveryInv, Inv
  <2>2. Cardinality(DeliveriesIn(poll.answer)) \in Nat
    BY <2>1, FiniteDeliveries
  <2>3. /\ provider # "startrack" => \A i \in DeliveriesIn(poll.answer) :
               poll.answer[i].at # NoTime /\ DeliveredAt(poll.answer[i].at)'
        /\ provider = "allied" =>
               Cardinality(DeliveriesIn(poll.answer)) <= Cardinality(DeliveriesIn(log'))
    BY <1>2, <1>3, <2>1, <2>2 DEF Covered
  <2> QED
    BY <2>3 DEF Covered, DeliveriesIn
<1>5. NotDeliveredEarly'
  BY <1>2, <1>3 DEF DeliveryInv, NotDeliveredEarly, DeliveriesIn
<1>6. DeliveryIsTimed'
  <2>1. DeliveryIsTimed
    BY DEF DeliveryInv
  <2>2. booking.lock /\ provider # "startrack" => DeliveredAt(booking.delivered)'
    BY <2>1 DEF DeliveryIsTimed, DeliveredAt
  <2> QED
    BY <2>1, <2>2 DEF DeliveryIsTimed, DeliveredAt
<1> QED
  BY <1>4, <1>5, <1>6 DEF DeliveryInv

\* Lemma: an event appended is the last one, and the others stay where they are.
LEMMA AppendedEvent ==
    ASSUME NEW s \in Seq(FpEvent), NEW e \in FpEvent, NEW t, t = Append(s, e)
    PROVE  /\ Len(t) = Len(s) + 1 /\ t[Len(s) + 1] = e
           /\ \A i \in 1..Len(s) : t[i] = s[i]
  OBVIOUS

\* Lemma: a report adds an event behind the others.
LEMMA ReportIsCovered ==
    ASSUME DeliveryInv, FpReports, Inv'
    PROVE  DeliveryInv'
<1>1. PICK code \in Codes, at \in 1..MaxTime :
          log' = Append(log, [code |-> code, at |-> IF provider = "startrack" THEN NoTime ELSE at])
  BY DEF FpReports
<1> DEFINE e == [code |-> code, at |-> IF provider = "startrack" THEN NoTime ELSE at]
<1>a. e \in FpEvent
  BY DEF FpEvent, NoTime
<1>b. provider # "startrack" => e.at # NoTime
  BY BoundsAssumption DEF NoTime
<1>c. log' = Append(log, e)
  BY <1>1
<1> HIDE DEF e
<1>2. log \in Seq(FpEvent) /\ log' \in Seq(FpEvent)
  BY DEF DeliveryInv, Inv, ReportedList
<1>3. /\ DOMAIN log' = 1..(Len(log) + 1) /\ DOMAIN log = 1..Len(log) /\ Len(log) \in Nat
      /\ \A i \in DOMAIN log : i \in DOMAIN log' /\ log'[i] = log[i]
      /\ log'[Len(log) + 1] = e
  <2>1. /\ Len(log') = Len(log) + 1 /\ log'[Len(log) + 1] = e
        /\ \A i \in 1..Len(log) : log'[i] = log[i]
    BY <1>a, <1>c, <1>2, AppendedEvent
  <2>2. DOMAIN log = 1..Len(log) /\ DOMAIN log' = 1..Len(log') /\ Len(log) \in Nat
    BY <1>2
  <2> QED
    BY <2>1, <2>2
<1>4. UNCHANGED <<provider, lines, booking, poll>>
  BY DEF FpReports
<1>5. provider # "startrack" => \A i \in DOMAIN log' : log'[i].at # NoTime
  <2> SUFFICES ASSUME provider # "startrack", NEW i \in DOMAIN log' PROVE log'[i].at # NoTime
    OBVIOUS
  <2>1. CASE i = Len(log) + 1
    <3>1. log'[Len(log) + 1] = e
      BY <1>3
    <3>2. log'[i] = e
      BY <2>1, <3>1, Zenon
    <3> QED
      BY <1>b, <3>2
  <2>2. CASE i \in DOMAIN log
    <3>1. log'[i] = log[i]
      BY <1>3, <2>2
    <3> QED
      BY <2>2, <3>1 DEF DeliveryInv
  <2> QED
    BY <1>3, <2>1, <2>2
<1>6. DeliveriesIn(log) \subseteq DeliveriesIn(log')
  BY <1>3 DEF DeliveriesIn
<1>7. \A time : DeliveredAt(time) => DeliveredAt(time)'
  BY <1>3 DEF DeliveredAt, DeliveriesIn
<1>8. Cardinality(DeliveriesIn(log)) <= Cardinality(DeliveriesIn(log'))
  <2>1. IsFiniteSet(DOMAIN log')
    BY <1>3, FS_Interval
  <2>2. IsFiniteSet(DeliveriesIn(log'))
    BY <2>1, FS_Subset DEF DeliveriesIn
  <2> QED
    BY <1>6, <2>2, FS_Subset
<1> QED
  BY <1>4, <1>5, <1>7, <1>8, ListGrows

\* Lemma: what the FP forgets is no delivery; the others move up.
LEMMA ForgettingIsCovered ==
    ASSUME DeliveryInv, FpForgets, Inv'
    PROVE  DeliveryInv'
<1>1. log \in Seq(FpEvent) /\ log # <<>> /\ log' = Tail(log) /\ 1 \notin DeliveriesIn(log)
  BY DEF DeliveryInv, Inv, ReportedList, FpForgets
<1>2. /\ DOMAIN log = 1..Len(log) /\ Len(log) \in Nat /\ DOMAIN log' = 1..(Len(log) - 1)
      /\ \A i \in DOMAIN log' : i + 1 \in DOMAIN log /\ log'[i] = log[i + 1]
  BY <1>1
<1>3. UNCHANGED <<provider, lines, booking, poll>>
  BY DEF FpForgets
<1>4. provider # "startrack" => \A i \in DOMAIN log' : log'[i].at # NoTime
  BY <1>2 DEF DeliveryInv
<1>5. \A j \in DeliveriesIn(log) : j - 1 \in DeliveriesIn(log') /\ log'[j - 1] = log[j]
  <2> TAKE j \in DeliveriesIn(log)
  <2>1. j \in 2..Len(log) /\ log[j].code \in Deliveries
    BY <1>1, <1>2 DEF DeliveriesIn
  <2>2. j - 1 \in DOMAIN log' /\ (j - 1) + 1 = j
    BY <1>2, <2>1
  <2>3. log'[j - 1] = log[j]
    BY <1>2, <2>2
  <2> QED
    BY <2>1, <2>2, <2>3 DEF DeliveriesIn
<1>6. \A time : DeliveredAt(time) => DeliveredAt(time)'
  BY <1>5 DEF DeliveredAt, DeliveriesIn
<1>7. Cardinality(DeliveriesIn(log)) <= Cardinality(DeliveriesIn(log'))
  <2> DEFINE T == DeliveriesIn(log)
             S == {i \in DeliveriesIn(log') : i + 1 \in T}
             f == [i \in S |-> i + 1]
  <2>1. IsFiniteSet(DOMAIN log')
    BY <1>2, FS_Interval
  <2>2. DeliveriesIn(log') \in SUBSET DOMAIN log'
    BY DEF DeliveriesIn
  <2>3. IsFiniteSet(DeliveriesIn(log'))
    BY <2>1, <2>2, FS_Subset
  <2>4. IsFiniteSet(S) /\ Cardinality(S) <= Cardinality(DeliveriesIn(log'))
    BY <2>3, FS_Subset
  <2>5. f \in [S -> T]
    OBVIOUS
  <2>6. \A t \in T : \E s \in S : f[s] = t
    <3> TAKE t \in T
    <3>1. t - 1 \in DeliveriesIn(log') /\ (t - 1) + 1 = t
      BY <1>2, <1>5 DEF DeliveriesIn
    <3> QED
      BY <3>1
  <2> HIDE DEF S, f
  <2>7. Cardinality(T) <= Cardinality(S)
    BY <2>4, <2>5, <2>6, NoMore
  <2>8. Cardinality(S) \in Nat /\ Cardinality(DeliveriesIn(log')) \in Nat
    BY <2>3, <2>4, FS_CardinalityType
  <2>9. Cardinality(T) \in Nat
    BY FiniteDeliveries DEF DeliveryInv, Inv
  <2> QED
    BY <2>4, <2>7, <2>8, <2>9
<1> QED
  BY <1>3, <1>4, <1>6, <1>7, ListGrows

-----------------------------------------------------------------------------
(* The update.                                                             *)

\* Lemma: a whole delivery is shown from a delivery of the answer, and Allied's
\* only when the answer has one for each line.
LEMMA WholeDelivery ==
    ASSUME NEW s, ReportedList(s), s # <<>>, lines \in Nat, provider # "startrack",
           StatusOf(Shown(Considered(s)).code) = "Delivered"
    PROVE  /\ \E i \in DeliveriesIn(s) : Shown(Considered(s)) = s[i]
           /\ provider = "allied" => Cardinality(DeliveriesIn(s)) >= lines
<1>1. s \in Seq(FpEvent) /\ Len(s) \in Nat /\ Len(s) # 0 /\ DOMAIN s = 1..Len(s)
  BY DEF ReportedList
<1>2. Shown(Considered(s)).code \in Deliveries
  BY DEF StatusOf, NoStatus
<1>3. Shown(Considered(s)) = Considered(s)[Len(Considered(s))]
  BY DEF Shown
<1>4. CASE provider # "allied" \/ DeliveriesIn(s) = {}
  <2>1. Considered(s) = s
    BY <1>4 DEF Considered
  <2>2. Shown(Considered(s)) = s[Len(s)] /\ Len(s) \in DOMAIN s
    BY <1>1, <1>3, <2>1
  <2>3. Len(s) \in DeliveriesIn(s)
    BY <1>2, <2>2 DEF DeliveriesIn
  <2> QED
    BY <1>4, <2>2, <2>3
<1>5. CASE provider = "allied" /\ DeliveriesIn(s) # {}
  <2> DEFINE u == UpToDelivery(s)
  <2>1. Len(u) \in 1..Len(s) /\ u = SubSeq(s, 1, Len(u))
    BY <1>1, CutList
  <2>2. u \in Seq(FpEvent) /\ u[Len(u)] = s[Len(u)] /\ Len(u) \in DOMAIN s
    BY <1>1, <2>1
  <2>3. Cardinality(DeliveriesIn(s)) \in Nat
    BY FiniteDeliveries
  <2>4. CASE Cardinality(DeliveriesIn(s)) < lines
    <3> DEFINE e == [code |-> "PARTDEL", at |-> s[Len(s)].at]
    <3>1. Considered(s) = Append(u, e)
      BY <1>5, <2>4 DEF Considered
    <3> HIDE DEF u
    <3>2. Shown(Considered(s)) = e
      BY <1>3, <2>2, <3>1
    <3> QED
      BY <1>2, <3>2 DEF Deliveries
  <2>5. CASE ~(Cardinality(DeliveriesIn(s)) < lines)
    <3>1. Considered(s) = u
      BY <1>5, <2>5 DEF Considered
    <3>2. Shown(Considered(s)) = s[Len(u)]
      BY <1>3, <2>2, <3>1
    <3>3. Len(u) \in DeliveriesIn(s)
      BY <1>2, <2>2, <3>2 DEF DeliveriesIn
    <3> QED
      BY <2>3, <2>5, <3>2, <3>3
  <2> QED
    BY <2>4, <2>5
<1> QED
  BY <1>4, <1>5

\* Lemma: an update takes the lock and the time from one delivery.
LEMMA UpdateIsTimed ==
    ASSUME DeliveryInv, Update, Inv'
    PROVE  DeliveryInv'
<1>1. UNCHANGED <<provider, lines, log>> /\ poll' = NoPoll /\ poll.pc = "update"
  BY DEF Update, fpVars
<1>2. CASE booking.lock
  <2>1. booking' = booking
    BY <1>2 DEF Update
  <2> QED
    BY <1>1, <2>1 DEF DeliveryInv, NotDeliveredEarly, DeliveryIsTimed, NoPoll, DeliveriesIn
<1>3. CASE ~booking.lock
  <2> DEFINE s == poll.answer
             event == Shown(Considered(s))
             whole == StatusOf(event.code) = "Delivered"
  <2>1. Covered(s) /\ ReportedList(s) /\ s # <<>> /\ lines \in Nat
    BY <1>1 DEF DeliveryInv, Inv
  <2>2. booking' = Take(Considered(s))
    BY <1>3 DEF Update
  <2>3. /\ booking'.status = StatusOf(event.code)
        /\ booking'.lock = whole
        /\ whole /\ event.at # NoTime => booking'.delivered = event.at
    BY <2>2 DEF Take
  <2> HIDE DEF s
  <2>4. ASSUME whole, provider # "startrack"
        PROVE  /\ DeliveredAt(booking'.delivered)
               /\ provider = "allied" => Cardinality(DeliveriesIn(log)) >= lines
    <3>1. PICK i \in DeliveriesIn(s) : event = s[i]
      BY <2>1, <2>4, WholeDelivery
    <3>2. event.at # NoTime /\ DeliveredAt(event.at)
      BY <2>1, <2>4, <3>1 DEF Covered
    <3>3. booking'.delivered = event.at
      BY <2>3, <2>4, <3>2
    <3>4. provider = "allied" => Cardinality(DeliveriesIn(s)) >= lines
      BY <2>1, <2>4, WholeDelivery
    <3>5. provider = "allied" => Cardinality(DeliveriesIn(s)) <= Cardinality(DeliveriesIn(log))
      BY <2>1 DEF Covered
    <3>6. Cardinality(DeliveriesIn(s)) \in Nat /\ Cardinality(DeliveriesIn(log)) \in Nat
      BY <2>1, FiniteDeliveries DEF DeliveryInv, Inv
    <3> QED
      BY <2>1, <3>2, <3>3, <3>4, <3>5, <3>6
  <2> HIDE DEF event
  <2>5. NotDeliveredEarly'
    BY <1>1, <2>3, <2>4 DEF NotDeliveredEarly, DeliveriesIn
  <2>6. DeliveryIsTimed'
    BY <1>1, <2>3, <2>4 DEF DeliveryIsTimed, DeliveredAt, DeliveriesIn
  <2> QED
    BY <1>1, <2>5, <2>6 DEF DeliveryInv, NoPoll
<1> QED
  BY <1>2, <1>3

-----------------------------------------------------------------------------
(* The theorems.                                                           *)

LEMMA DeliveryInvInit == Init => DeliveryInv
<1> SUFFICES ASSUME Init PROVE DeliveryInv
  OBVIOUS
<1>1. Inv
  BY InitInv
<1>2. /\ lines \in Nat /\ log = <<>> /\ poll.pc = "idle"
      /\ booking.status = "Booked" /\ booking.lock = FALSE
  BY BoundsAssumption DEF Init, NoPoll
<1> QED
  BY <1>1, <1>2 DEF DeliveryInv, NotDeliveredEarly, DeliveryIsTimed

LEMMA DeliveryInvStep ==
    ASSUME DeliveryInv, [Next]_vars
    PROVE  DeliveryInv'
<1>0. Inv'
  BY NextInv DEF DeliveryInv
<1>1. CASE FpReports
  BY <1>0, <1>1, ReportIsCovered
<1>2. CASE FpForgets
  BY <1>0, <1>2, ForgettingIsCovered
<1>3. CASE FpTracks
  <2>1. PICK t \in CASE provider = "allied" -> ByTime(log)
                     [] provider = "startrack" -> {Newest(log)}
                     [] OTHER -> {log} :
            poll' = [pc |-> "answered", answer |-> t]
    BY <1>3 DEF FpTracks
  <2>2. Covered(t)
    BY <2>1, AnswerIsCovered
  <2>3. UNCHANGED <<provider, lines, log, booking>>
    BY <1>3 DEF FpTracks, fpVars
  <2>4. Covered(poll.answer)'
    BY <2>1, <2>2, <2>3 DEF Covered, DeliveredAt, DeliveriesIn
  <2> QED
    BY <1>0, <2>3, <2>4 DEF DeliveryInv, NotDeliveredEarly, DeliveryIsTimed, DeliveriesIn
<1>4. CASE StoreAgain \/ StoreNews \/ NothingNew \/ Crash \/ UNCHANGED vars
  <2>1. UNCHANGED <<provider, lines, log, booking>>
    BY <1>4 DEF StoreAgain, StoreNews, NothingNew, Crash, fpVars, vars
  <2>2. \/ poll.pc # "idle" /\ poll' = [poll EXCEPT !.pc = "update"]
        \/ poll' = NoPoll
        \/ poll' = poll
    BY <1>4 DEF StoreAgain, StoreNews, NothingNew, Crash, vars
  <2>3. poll'.pc # "idle" => poll.pc # "idle" /\ poll'.answer = poll.answer
    <3>1. CASE poll' = NoPoll
      BY <3>1 DEF NoPoll
    <3>2. CASE poll' = poll
      BY <3>2
    <3>3. CASE poll.pc # "idle" /\ poll' = [poll EXCEPT !.pc = "update"]
      <4>1. poll'.answer = poll.answer
        BY <3>3
      <4> QED
        BY <3>3, <4>1
    <3> QED
      BY <2>2, <3>1, <3>2, <3>3
  <2>4. poll'.pc # "idle" => Covered(poll.answer)'
    BY <2>1, <2>3 DEF DeliveryInv, Covered, DeliveredAt, DeliveriesIn
  <2> QED
    BY <1>0, <2>1, <2>4 DEF DeliveryInv, NotDeliveredEarly, DeliveryIsTimed, DeliveriesIn
<1>5. CASE Update
  BY <1>0, <1>5, UpdateIsTimed
<1> QED
  BY <1>1, <1>2, <1>3, <1>4, <1>5 DEF Next

\* However Allied's list is sorted, cut, forgotten and stored again: its booking is
\* not delivered before as many deliveries are in the list as it has lines.
THEOREM NeverDeliveredEarly == Spec => []NotDeliveredEarly
<1>1. DeliveryInv => NotDeliveredEarly
  BY DEF DeliveryInv
<1> QED
  BY <1>1, DeliveryInvInit, DeliveryInvStep, PTL DEF Spec

\* A booking is locked if and only if it is delivered, and its delivery time is that
\* of a delivery in the list of its FP (StarTrack's has no times).
THEOREM DeliveriesAreTimed == Spec => []DeliveryIsTimed
<1>1. DeliveryInv => DeliveryIsTimed
  BY DEF DeliveryInv
<1> QED
  BY <1>1, DeliveryInvInit, DeliveryInvStep, PTL DEF Spec

-----------------------------------------------------------------------------
(* Type correctness.                                                       *)

\* Lemma: each of the news is an event of the answer.
LEMMA NewsAreEvents ==
    ASSUME NEW S, poll.answer \in Seq(S)
    PROVE  News \in Seq(S)
<1> DEFINE n == Len(poll.answer)
           m == Cardinality(NewsAt)
           upTo(i) == NewsAt \cap 1..i
           f == [i \in NewsAt |-> Cardinality(upTo(i))]
<1>1. n \in Nat /\ NewsAt \in SUBSET (1..n)
  BY DEF NewsAt
<1>2. IsFiniteSet(NewsAt) /\ m \in Nat
  <2>1. IsFiniteSet(1..n)
    BY <1>1, FS_Interval
  <2>2. IsFiniteSet(NewsAt)
    BY <1>1, <2>1, FS_Subset
  <2> QED
    BY <2>2, FS_CardinalityType
<1>3. ASSUME NEW i \in NewsAt PROVE f[i] \in 1..m /\ IsFiniteSet(upTo(i)) /\ i \in upTo(i)
  <2>1. upTo(i) \in SUBSET NewsAt /\ i \in upTo(i)
    BY <1>1
  <2>2. IsFiniteSet(upTo(i)) /\ Cardinality(upTo(i)) <= m
    BY <1>2, <2>1, FS_Subset
  <2>3. Cardinality(upTo(i)) \in Nat /\ Cardinality(upTo(i)) # 0
    BY <2>1, <2>2, FS_CardinalityType, FS_EmptySet
  <2> QED
    BY <1>2, <2>1, <2>2, <2>3
<1>4. ASSUME NEW i \in NewsAt, NEW j \in NewsAt, i < j PROVE f[i] # f[j]
  <2>1. upTo(i) \in SUBSET upTo(j) /\ j \notin upTo(i)
    BY <1>1, <1>4
  <2>2. IsFiniteSet(upTo(j)) /\ j \in upTo(j)
    BY <1>3
  <2> QED
    BY <2>1, <2>2, FS_Subset
<1>5. f \in Injection(NewsAt, 1..m)
  <2>1. f \in [NewsAt -> 1..m]
    BY <1>3
  <2>2. \A i, j \in NewsAt : i < j \/ j < i \/ i = j
    BY <1>1
  <2> HIDE DEF f
  <2>3. \A i, j \in NewsAt : f[i] = f[j] => i = j
    BY <1>4, <2>2
  <2> QED
    BY <2>1, <2>3 DEF Injection, IsInjective
<1> HIDE DEF m
<1>6. IsFiniteSet(1..m) /\ Cardinality(1..m) = m
  BY <1>2, FS_Interval
<1>7. f \in Surjection(NewsAt, 1..m)
  BY <1>5, <1>6, FS_Injection DEF m
<1>8. ASSUME NEW k \in 1..m
      PROVE  poll.answer[CHOOSE i \in NewsAt : Cardinality(NewsAt \cap 1..i) = k] \in S
  <2>1. PICK i \in NewsAt : f[i] = k
    BY <1>7 DEF Surjection
  <2>2. Cardinality(NewsAt \cap 1..i) = k
    BY <2>1
  <2>3. \E j \in NewsAt : Cardinality(NewsAt \cap 1..j) = k
    BY <2>2
  <2>4. (CHOOSE j \in NewsAt : Cardinality(NewsAt \cap 1..j) = k) \in NewsAt
    BY <2>3
  <2>5. \A j \in NewsAt : poll.answer[j] \in S
    BY <1>1
  <2> HIDE DEF f
  <2> QED
    BY <2>4, <2>5
<1>9. News \in [1..m -> S]
  BY <1>8 DEF News, m
<1> QED
  BY <1>2, <1>9 DEF m

\* Lemma: what is stored are events.
LEMMA StoredAreEvents ==
    ASSUME NEW S, stored \in Seq(S), poll.answer \in Seq(S), NEW latest
    PROVE  Stored(latest) \in Seq(S)
<1>1. News \in Seq(S)
  BY NewsAreEvents
<1>2. CASE Repeats(latest) = {}
  BY <1>1, <1>2 DEF Stored
<1>3. CASE Repeats(latest) # {}
  <2> DEFINE stop == CHOOSE i \in Repeats(latest) : \A j \in Repeats(latest) : i <= j
  <2>1. Repeats(latest) \in SUBSET Nat /\ Repeats(latest) \subseteq 1..Len(News)
    BY <1>1 DEF Repeats
  <2>2. PICK i \in Repeats(latest) :
            \A j \in Repeats(latest) : ~(<<j, i>> \in OpToRel(<, Nat))
    BY <1>3, <2>1, WFMin, NatLessThanWellFounded, Zenon
  <2>3. \A j \in Repeats(latest) : ~(j < i)
    BY <2>1, <2>2 DEF OpToRel
  <2>4. \A j \in Repeats(latest) : i <= j
    BY <2>1, <2>3
  <2>5. stop \in Repeats(latest)
    BY <2>4
  <2>6. stop \in 1..Len(News)
    BY <2>1, <2>5
  <2>7. Stored(latest) = stored \o SubSeq(News, 1, stop)
    BY <1>3 DEF Stored
  <2> HIDE DEF stop
  <2>8. SubSeq(News, 1, stop) \in Seq(S)
    BY <1>1, <2>6
  <2> QED
    BY <2>7, <2>8
<1> QED
  BY <1>2, <1>3

\* Lemma: what an update makes of an answer is a row.
LEMMA TakenIsRow ==
    ASSUME NEW s \in Seq(Event), s # <<>>, booking \in Row
    PROVE  Take(Considered(s)) \in Row
<1>1. Len(s) \in Nat /\ Len(s) # 0 /\ DOMAIN s = 1..Len(s)
  OBVIOUS
<1> DEFINE u == UpToDelivery(s)
           e == [code |-> "PARTDEL", at |-> s[Len(s)].at]
           c == Considered(s)
<1>2. Len(u) \in 1..Len(s) /\ u = SubSeq(s, 1, Len(u))
  BY CutList
<1>3. u \in Seq(Event) /\ u # <<>>
  <2> HIDE DEF u
  <2>1. u \in Seq(Event) /\ Len(u) # 0
    BY <1>2
  <2> QED
    BY <2>1
<1>4. e \in Event
  <2>1. s[Len(s)] \in Event
    BY <1>1
  <2> QED
    BY <2>1 DEF Event
<1>5. c \in Seq(Event) /\ c # <<>>
  <2>1. c = s \/ c = u \/ c = Append(u, e)
    BY DEF Considered
  <2> HIDE DEF u, e, c
  <2>2. Append(u, e) \in Seq(Event) /\ Append(u, e) # <<>>
    BY <1>3, <1>4
  <2> QED
    BY <1>3, <2>1, <2>2
<1> HIDE DEF c, u, e
<1>6. /\ Len(c) \in Nat /\ Len(c) # 0 /\ \A i \in 1..Len(c) : c[i] \in Event
      /\ Len(UpToDelivery(c)) \in 1..Len(c)
  <2>1. Len(UpToDelivery(c)) \in 1..Len(c)
    BY <1>5, CutList
  <2> QED
    BY <1>5, <2>1
<1>7. Shown(c) \in Event
  BY <1>6 DEF Shown
<1>8. DeliveryTime(c) \in Nat
  BY <1>6 DEF DeliveryTime, NoTime, Event
<1>9. StatusOf(Shown(c).code) \in Statuses
  BY DEF StatusOf, Statuses, FpStatuses
<1>10. booking.delivered \in Nat /\ Shown(c).at \in Nat
  BY <1>7 DEF Row, Event
<1>11. Take(c) \in Row
  BY <1>8, <1>9, <1>10 DEF Take, Row
<1> QED
  BY <1>11 DEF c

\* Lemma: every step keeps the types.
LEMMA TypeStep ==
    ASSUME TypeOK, Inv, Inv', [Next]_vars
    PROVE  TypeOK'
<1>1. /\ stored \in Seq(Event) /\ booking \in Row /\ poll \in Poll /\ poll.answer \in Seq(Event)
      /\ provider \in Providers /\ lines \in 1..MaxLines /\ forgets \in Nat /\ crashes \in Nat
  BY DEF TypeOK, Poll
<1>2. \A s : ReportedList(s) => s \in Seq(Event)
  <2>1. FpEvent \subseteq Event
    BY DEF FpEvent, Event
  <2> QED
    BY <2>1 DEF ReportedList
<1>3. log' \in Seq(Event) /\ reported' \subseteq FpStatuses
  <2>1. log' \in Seq(FpEvent)
    BY DEF Inv, ReportedList
  <2>2. FpEvent \subseteq Event
    BY DEF FpEvent, Event
  <2> QED
    BY <2>1, <2>2 DEF Inv
<1>4. NoPoll \in Poll
  BY DEF NoPoll, Poll
<1>5. CASE FpReports \/ FpForgets \/ UNCHANGED vars
  BY <1>1, <1>3, <1>5 DEF FpReports, FpForgets, vars, TypeOK
<1>6. CASE FpTracks
  <2>1. PICK t \in ByTime(log) \cup {Newest(log), log} : poll' = [pc |-> "answered", answer |-> t]
    BY <1>6 DEF FpTracks
  <2>2. t \in Seq(Event)
    BY <1>2, <1>6, <2>1, OrderedLists DEF FpTracks, Inv
  <2>3. poll' \in Poll
    BY <2>1, <2>2 DEF Poll
  <2> QED
    BY <1>1, <1>3, <1>6, <2>3 DEF FpTracks, fpVars, TypeOK
<1>7. CASE StoreAgain \/ StoreNews \/ NothingNew \/ Crash
  <2>1. poll' \in Poll
    <3>1. [poll EXCEPT !.pc = "update"] \in Poll
      BY <1>1 DEF Poll
    <3> QED
      BY <1>4, <1>7, <3>1 DEF StoreAgain, StoreNews, NothingNew, Crash
  <2>2. stored' \in Seq(Event)
    BY <1>1, <1>7, StoredAreEvents DEF StoreAgain, StoreNews, NothingNew, Crash
  <2>3. crashes' \in Nat
    BY <1>1, <1>7 DEF StoreAgain, StoreNews, NothingNew, Crash
  <2>4. UNCHANGED <<provider, lines, forgets, booking>>
    BY <1>7 DEF StoreAgain, StoreNews, NothingNew, Crash, fpVars
  <2> QED
    BY <1>1, <1>3, <2>1, <2>2, <2>3, <2>4 DEF TypeOK
<1>8. CASE Update
  <2>1. poll.answer # <<>>
    BY <1>8 DEF Update, Inv
  <2>2. booking' \in Row
    BY <1>1, <1>8, <2>1, TakenIsRow DEF Update
  <2> QED
    BY <1>1, <1>3, <1>4, <1>8, <2>2 DEF Update, fpVars, TypeOK
<1> QED
  BY <1>5, <1>6, <1>7, <1>8 DEF Next

\* The rows that are stored, the poll and the booking keep their types: news that
\* are cut short, and lists cut at a delivery, never end before their first event.
THEOREM TrackingTypes == Spec => []TypeOK
<1>1. Init => TypeOK
  BY DEF Init, TypeOK, Row, Poll, NoPoll, Statuses, NoTime, FpStatuses
<1>2. Init => Inv
  BY InitInv
<1>3. Inv /\ [Next]_vars => Inv'
  BY NextInv
<1>4. TypeOK /\ Inv /\ Inv' /\ [Next]_vars => TypeOK'
  BY TypeStep
<1> QED
  BY <1>1, <1>2, <1>3, <1>4, PTL DEF Spec
=============================================================================

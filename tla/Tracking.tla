------------------------------ MODULE Tracking ------------------------------
(***************************************************************************)
(* Tracking polls of one booking: the events the freight provider (FP)     *)
(* reports, the copy of them kept in FP_status_history, and the status,    *)
(* lock and delivery time that the booking takes from them.                *)
(*                                                                         *)
(* The FP answers every poll with its whole list.  The poll first finds    *)
(* out whether the list says anything new and stores it, and only then     *)
(* updates the booking: the two are separate saves.                        *)
(***************************************************************************)
EXTENDS Naturals, Sequences, FiniteSets, Functions

CONSTANTS
    Providers,    \* kinds of FP, see below
    MaxLines,     \* bound: lines of the booking
    MaxLog,       \* bound: events in the FP's list
    MaxTime,      \* bound: times of events
    MaxForgets,   \* bound: events that the FP takes off its list
    MaxCrashes    \* bound: polls that die half way

\* "timed" are TNT, Hunter and Sendle, whose lists are used as they come;
\* Allied's list is sorted by time; StarTrack's is newest first, without times.
ASSUME ProvidersAssumption == Providers \subseteq {"timed", "allied", "startrack"}
ASSUME BoundsAssumption ==
    {MaxLines, MaxLog, MaxTime, MaxForgets, MaxCrashes} \subseteq Nat

VARIABLES
    provider,     \* the booking's FP
    lines,        \* how many lines the booking has, as packed for its quote
    log,          \* the FP's events, in the order in which it lists them
    reported,     \* the statuses of all events the FP has ever listed
    stored,       \* the active rows of FP_status_history, by id
    booking,      \* the booking's row
    poll,         \* the poll in progress
    forgets, crashes

fpVars == <<provider, lines, log, reported, forgets>>
vars == <<provider, lines, log, reported, stored, booking, poll, forgets, crashes>>

-----------------------------------------------------------------------------
(* Types.                                                                  *)

NoStatus == "None"
NoTime == 0

\* Codes of FP events; PARTDEL is made up by the update itself.
Deliveries == {"DEL", "ATL"}
Codes == Deliveries \cup {"SCAN", "INFO"}

\* Slip: a code without a rule is shown as it is.
ShownRaw(code) ==
    CASE code \in Deliveries -> "Delivered"
      [] code = "PARTDEL" -> "Partially Delivered"
      [] code = "SCAN" -> "In Transit"
      [] OTHER -> code

\* Dme_utl_fp_statuses: the status a code maps to, if a rule knows it.
StatusOf(code) ==
    CASE code \in Deliveries -> "Delivered"
      [] code = "PARTDEL" -> "Partially Delivered"
      [] code = "SCAN" -> "In Transit"
      [] OTHER -> NoStatus

FpStatuses == {"In Transit", "Delivered", NoStatus}
Statuses == FpStatuses \cup {"Booked", "Partially Delivered"}

Event == [code : Codes \cup {"PARTDEL"}, at : Nat]

Row == [status    : Statuses,   \* b_status
        lock      : BOOLEAN,    \* z_lock_status
        delivered : Nat]        \* s_21_Actual_Delivery_TimeStamp

\* A poll that has its answer, and one that has stored something new.
Poll == [pc : {"idle", "answered", "update"}, answer : Seq(Event)]
NoPoll == [pc |-> "idle", answer |-> <<>>]

Init ==
    /\ provider \in Providers
    /\ lines \in 1..MaxLines
    /\ log = <<>> /\ reported = {}
    /\ stored = <<>>
    /\ booking = [status |-> "Booked", lock |-> FALSE, delivered |-> NoTime]
    /\ poll = NoPoll
    /\ forgets = 0 /\ crashes = 0

-----------------------------------------------------------------------------
(* The freight provider.                                                   *)

DeliveriesIn(s) == {i \in DOMAIN s : s[i].code \in Deliveries}

\* A line is delivered once.  Only Allied delivers line by line, and only its
\* events may come late, with an earlier time.
FpReports ==
    /\ Len(log) < MaxLog
    /\ \E code \in Codes, at \in 1..MaxTime :
          /\ code \in Deliveries => Cardinality(DeliveriesIn(log)) <
                                         (IF provider = "allied" THEN lines ELSE 1)
          /\ provider # "allied" /\ log # <<>> => at >= log[Len(log)].at
          /\ log' = Append(log, [code |-> code,
                                 at |-> IF provider = "startrack" THEN NoTime ELSE at])
          /\ reported' = reported \cup {StatusOf(code)}
    /\ UNCHANGED <<provider, lines, stored, booking, poll, forgets, crashes>>

\* The list may lose its oldest event, but no delivery.
FpForgets ==
    /\ forgets < MaxForgets
    /\ log # <<>> /\ 1 \notin DeliveriesIn(log)
    /\ log' = Tail(log)
    /\ forgets' = forgets + 1
    /\ UNCHANGED <<provider, lines, reported, stored, booking, poll, crashes>>

-----------------------------------------------------------------------------
(* One poll.                                                               *)

\* The position of s[i] when s is sorted by time, earlier entries first.
Rank(s, i) ==
    Cardinality({j \in DOMAIN s : s[j].at < s[i].at \/ (s[j].at = s[i].at /\ j <= i)})

\* The one list in which each event has the position of its rank.
ByTime(s) == {t \in [DOMAIN s -> Range(s)] : \A i \in DOMAIN s : t[Rank(s, i)] = s[i]}

Newest(s) == [k \in DOMAIN s |-> s[Len(s) + 1 - k]]

\* The FP answers; no answer, or an answer without a list, changes nothing.
FpTracks ==
    /\ poll.pc = "idle" /\ log # <<>>
    /\ \E answer \in CASE provider = "allied" -> ByTime(log)
                        [] provider = "startrack" -> {Newest(log)}
                        [] OTHER -> {log} :
          poll' = [pc |-> "answered", answer |-> answer]
    /\ UNCHANGED <<fpVars, stored, booking, crashes>>

\* Rows that may come first by -event_timestamp.
LatestCodes ==
    {e.code : e \in {f \in Range(stored) : \A g \in Range(stored) : g.at <= f.at}}

\* Where in the answer the events are that are not stored yet, and these events
\* in the order of the answer.
NewsAt == {i \in DOMAIN poll.answer : poll.answer[i] \notin Range(stored)}
News == [k \in 1..Cardinality(NewsAt) |->
           poll.answer[CHOOSE i \in NewsAt : Cardinality(NewsAt \cap 1..i) = k]]

\* Storing stops with the first event whose code is that of the latest row.
Repeats(latest) == {i \in DOMAIN News : News[i].code = latest}

\* An answer is new as a whole when nothing was stored, or when it is shorter
\* than what was: then all rows are deactivated and it is stored again.
StartsOver == stored = <<>> \/ Len(poll.answer) < Len(stored)

\* Slip: the rest of the list counts as stored when storing stops early.
StoresAll(latest) == stored \o News

\* What the rows are once the news are stored.
Stored(latest) ==
    IF Repeats(latest) = {} THEN stored \o News
    ELSE LET stop == CHOOSE i \in Repeats(latest) : \A j \in Repeats(latest) : i <= j
         IN  stored \o SubSeq(News, 1, stop)

\* Comparing an event without time with a row of the same code raises.
Raises ==
    /\ provider = "startrack"
    /\ \E old \in Range(stored), new \in Range(poll.answer) : old.code = new.code

StoreAgain ==
    /\ poll.pc = "answered" /\ StartsOver
    /\ stored' = poll.answer
    /\ poll' = [poll EXCEPT !.pc = "update"]
    /\ UNCHANGED <<fpVars, booking, crashes>>

StoreNews ==
    /\ poll.pc = "answered" /\ ~StartsOver /\ ~Raises /\ News # <<>>
    /\ \E latest \in LatestCodes :
          /\ stored' = Stored(latest)
          /\ poll' = IF Repeats(latest) = {} THEN [poll EXCEPT !.pc = "update"] ELSE NoPoll
    /\ UNCHANGED <<fpVars, booking, crashes>>

NothingNew ==
    /\ poll.pc = "answered" /\ ~StartsOver /\ (Raises \/ News = <<>>)
    /\ poll' = NoPoll
    /\ UNCHANGED <<fpVars, stored, booking, crashes>>

\* The list up to its first delivery, if there is one.
UpToDelivery(s) ==
    SubSeq(s, 1, Cardinality({i \in DOMAIN s : DeliveriesIn(s) \cap 1..(i - 1) = {}}))

\* Slip: one delivery is enough, however many lines there are.
FirstIsEnough(s) == UpToDelivery(s)

\* Allied's list ends with its first delivery, and with a partial delivery when
\* there are fewer deliveries than lines.
Considered(s) ==
    IF provider # "allied" \/ DeliveriesIn(s) = {} THEN s
    ELSE IF Cardinality(DeliveriesIn(s)) < lines
         THEN Append(UpToDelivery(s), [code |-> "PARTDEL", at |-> s[Len(s)].at])
         ELSE UpToDelivery(s)

\* The event that the booking shows.
Shown(s) == IF provider = "startrack" THEN s[1] ELSE s[Len(s)]

\* The time of the first delivery; set once, and not for StarTrack.
DeliveryTime(s) ==
    IF provider = "startrack" \/ DeliveriesIn(s) = {} THEN NoTime
    ELSE s[Len(UpToDelivery(s))].at

\* Slip: the lock is left to a later request.
TakeUnlocked(s) ==
    [status |-> StatusOf(Shown(s).code), lock |-> booking.lock,
     delivered |-> IF booking.delivered = NoTime THEN DeliveryTime(s) ELSE booking.delivered]

\* status_history.create saves the status, and with a whole delivery the lock
\* and, unless the event has no time, the time of the event.
Take(s) ==
    LET event == Shown(s)
        first == IF booking.delivered = NoTime THEN DeliveryTime(s) ELSE booking.delivered
        whole == StatusOf(event.code) = "Delivered"
    IN  [status    |-> StatusOf(event.code),
         lock      |-> whole,
         delivered |-> IF whole /\ event.at # NoTime THEN event.at ELSE first]

\* Slip: the lock is not looked at.
UpdatesLocked ==
    /\ poll.pc = "update"
    /\ booking' = Take(Considered(poll.answer))
    /\ poll' = NoPoll
    /\ UNCHANGED <<fpVars, stored, crashes>>

\* A locked booking is left alone.
Update ==
    /\ poll.pc = "update"
    /\ booking' = IF booking.lock THEN booking ELSE Take(Considered(poll.answer))
    /\ poll' = NoPoll
    /\ UNCHANGED <<fpVars, stored, crashes>>

Crash ==
    /\ crashes < MaxCrashes /\ poll.pc # "idle"
    /\ crashes' = crashes + 1
    /\ poll' = NoPoll
    /\ UNCHANGED <<fpVars, stored, booking>>

Next ==
    \/ FpReports \/ FpForgets
    \/ FpTracks \/ StoreAgain \/ StoreNews \/ NothingNew \/ Update
    \/ Crash

Spec == Init /\ [][Next]_vars

\* A poll that has its answer runs on.  Polls are started by a scheduler again
\* and again, and the FP answers some of them.
Fairness ==
    /\ WF_vars(StoreAgain \/ StoreNews \/ NothingNew \/ Update)
    /\ SF_vars(FpTracks)

FairSpec == Spec /\ Fairness

-----------------------------------------------------------------------------
(* Properties.                                                             *)

TypeOK ==
    /\ provider \in Providers /\ lines \in 1..MaxLines
    /\ log \in Seq(Event) /\ stored \in Seq(Event)
    /\ reported \subseteq FpStatuses
    /\ booking \in Row /\ poll \in Poll
    /\ forgets \in Nat /\ crashes \in Nat

\* Tracking shows only what the FP has reported, and a delivery is final.
Promise == INSTANCE Shipment WITH Statuses <- FpStatuses, Initial <- "Booked",
                                  shown <- booking.status
KeepsPromise == Promise!Spec

\* Allied's booking is not delivered before all its lines are, however often
\* the list is cut, sorted and stored again.
NotDeliveredEarly ==
    booking.status = "Delivered" /\ provider = "allied"
        => Cardinality(DeliveriesIn(log)) >= lines

\* The lock and the delivery time belong to one delivery in the FP's list.
DeliveryIsTimed ==
    /\ booking.lock <=> booking.status = "Delivered"
    /\ booking.lock /\ provider # "startrack" =>
           \E i \in DeliveriesIn(log) : booking.delivered = log[i].at

\* All is delivered, and this is the latest event, in the list and in time.
AllDelivered ==
    /\ log # <<>> /\ Len(log) \in DeliveriesIn(log)
    /\ provider = "allied" => Cardinality(DeliveriesIn(log)) = lines
    /\ \A i \in DOMAIN log : log[i].at <= log[Len(log)].at

ShowsDelivered == booking.status = "Delivered" /\ booking.lock

\* Polling gets a delivered booking delivered, unless further events come: for
\* the FPs that report times, for a booking of one line if the FP is Allied,
\* and unless a poll dies.
DeliveryArrives ==
    (AllDelivered /\ provider # "startrack" /\ (provider = "allied" => lines = 1))
        ~> (ShowsDelivered \/ ~AllDelivered \/ crashes > 0)

\* The same for an FP that delivers line by line: "Partially Delivered" is what
\* the booking shows only until the last line is delivered.
AllLinesArrive ==
    (AllDelivered /\ provider = "allied") ~> (ShowsDelivered \/ ~AllDelivered)

=============================================================================

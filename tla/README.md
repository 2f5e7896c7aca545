# Verification of the delivery-site API

TLA+ models of the core of this Django application, checked with TLC and, in part,
proved with TLAPS. The application takes orders of clients, prices them with freight
providers (FPs), books consignments with an FP and follows them until the delivery.

## 1. The system

| Part | Where | State it keeps | Operations |
|---|---|---|---|
| Order push | `clients/*/index.py`, `views_client.py` | headers and lines of orders (`bok_1_headers`, `bok_2_lines`) with a success code each | `push_boks`, `create`, `book`, `cancel`, `select_pricing`, `update_freight_options` |
| Order mapping | `views_cron.py` | an option row (`dme_options`), the bookings it makes | `mapBokToBooking`, `mapBok` |
| Booking status | `common/status_history.py`, `models.py` (`Bookings.save`), `signal_handlers/booking.py` | the booking's row, its status history | `create`, `post_new_status`, `pre_save_handler` |
| FP booking | `fp_apis/apis.py`, `fp_apis/operations/book.py` | consignments (at the FP), ids and dates in the booking's row | `book`, `rebook`, `edit_book`, `cancel_book` |
| Tracking | `fp_apis/apis.py`, `fp_apis/operations/tracking.py` | `FP_status_history`, status, lock and delivery time of the booking | `tracking`, `populate_fp_status_history`, `update_booking_with_tracking_result` |
| Booking web API | `views.py` | the booking's row, the status history | `change_bookings_status`, `save_status_history`, `update_status_history`, `manual_book`, `update_booking`, `duplicate_booking` |
| Warehouse API | `warehouses/index.py` | lines and SSCCs, the booking's row | `scanned`, `quoting_in_bg` (a thread), `ready`, `manifest` |
| Packing | `operations/packing/`, `common/pallet.py` | the line sets original, auto, manual, scanned and their line data | `auto_repack`, `manual_repack`, `reset_repack`, `scanned_repack` |
| Pricing | `fp_apis/operations/pricing.py`, `common/convert_price.py`, `fp_apis/utils.py` | quotes (`API_booking_quotes`), the booking's chosen quote | rounds: requests on threads, interpolation, surcharges, mark-ups, choice |
| Surcharges | `fp_apis/operations/surcharge/`, `operations/booking/surcharge.py` | surcharges of quotes and of the booking | `find_surcharges`, `gen_surcharges`, manual changes |
| Built-in prices | `fp_apis/built_in/` | rule tables: rules, costs, zones, vehicles (read only) | `get_pricing` of an FP, service by service |
| Output | `operations/labels`, `manifests`, `csv`, reports, e-mail, SMS | files and messages | layout |
| Interfaces | Pronto, Zoho, Spojit, Genesis, Paperless | state of other systems | calls |

The parts meet in the database. An order is pushed by a client's system, a cron job maps
it to a booking, staff or the warehouse repack, price and book it with an FP, a tracking poll
follows it. Every HTTP request runs in a worker process of its own; `quoting_in_bg` runs in a
thread, and a round of pricing asks each FP on a thread. There is no queue and no lock: parts
interact by reading and writing the same rows, the FP is called over HTTP in the middle of a
request, and signal handlers (`pre_save`, `post_save`) run inside `save()`.

### What is hard

* **Stale copies.** A request reads a booking, calls an FP for seconds or minutes, and then
  calls `booking.save()`. `Bookings.save` (models.py:2117-2148) reads the row again and
  writes the fields in which the copy differs: the row then *is* the old copy, and whatever
  others wrote is lost. There is no `select_for_update`, no version and, outside `mapBok` and
  `push_boks`, no transaction.
* **Guards that read copies.** "already booked", "is locked" and "already running" are
  decided on a copy, and the write that would make them true comes later.
* **Rows saved one by one.** An automatic repack saves its lines, their data and its pallets each by
  itself, and may raise between any two of them.
* **Several statements for one fact.** Status, history entry, category, lock and dates are
  written by up to four `save()`s. A worker that dies leaves the first of them.
* **Save hooks.** `pre_save_handler` stamps the booked date after `save()` has chosen
  `update_fields`; it reaches the row only with a further save.
* **Polling.** Tracking compares the FP's list of events with the stored one, stores first and
  updates later, and may stop early; lists are sorted differently per FP, grow late and shrink.
* **A hand-made lock.** The mapping cron uses an option row with `is_running` and a time.
* **Overlapping rounds.** The pricing page and the warehouse's background thread retire, add and
  choose quotes of one booking at the same time.
* **Lists changed under a loop.** `_after_process` hides quotes while it goes over them, with
  some of its copies read before and some after.
* **Order of table rows.** Price rules without dimensions are compared with those of the rule
  before them, and filters keep what the rule accepted last had left behind.
* **Bounds of tables.** Lengths and weights at the bounds of bands, combined by separate functions.

### What correctness means, per part

* Status: the status shown is explained by the history; entries chain; category, lock and dates
  follow the status; a delivery is final; only a delivery locks.
* FP booking: a closed booking is not live at the FP; a booked one is not booked again.
* Tracking: nothing is shown that was not reported; a delivery reported by the FP reaches the
  booking, with its time, and not before all lines are delivered.
* Mapping: each ready order becomes exactly one booking, with its lines, under a visual id of
  its own; duplicates of invoices are held; what is ready is mapped eventually.
* Packing: a pallet holds what its weight was added up from, whatever breaks off or is reset; what ships is
  either what was picked or a copy of a packed set.
* Pricing: the booking's quote is one of the current ones, the best by the chosen criterion among those
  that meet the deadline; what overlapping rounds leave, the next one clears up; offers are never raised beyond
  the client's own rate.
* Surcharges: a quote's total is that of its lines; bands do not overlap; a larger order is not charged less.
* Built-in prices: the rule that prices a service is one for the trip; the cheapest
  that carries the load; one more piece never costs less.

## 2. Modules

| Module | Models | Extends |
|---|---|---|
| `BookingStatus` | one booking: row, history, requests in progress, the FP | standard modules |
| `OrderIntake` | the promise to a client: placed orders become one booking | - |
| `BokMapping` | headers, lines, client calls, mapping runs, the option row | standard and community modules; refines `OrderIntake` |
| `Shipment` | the promise of tracking | - |
| `Tracking` | the FP's events, the stored ones, polls, the booking's status | standard and community modules; refines `Shipment` |
| `Packing` | the packed sets of a booking's lines | standard modules |
| `Quoting` | the quotes of a booking and rounds that overlap | standard modules |
| `Fulfilment` | both composed, with the warehouse's scans and the booking | `Packing`, `Quoting` |
| `Tariffs` | measures of lines, the surcharge tables of nine FPs | standard and community modules |
| `Rating` | the amounts of quotes over rounds of pricing, and the choice | `Tariffs` |
| `Rates` | prices from rule tables, fourteen FPs and Deliver-ME | standard and community modules |
| `BookingStatusProofs`, `SequentialProofs`, `BokMappingProofs`, `TrackingProofs`, `FulfilmentProofs`, `RatingProofs`, `RatesProofs` | theorems | their module, `TLAPS` |
| `Aggregates` | facts about sums, folds, least and greatest elements, ranks, and recursion along `0..N` | `TLAPS` |
| `MCBookingStatus`, `MCBokMapping`, `MCTracking`, `MCFulfilment`, `MCPricing`, `MCRates` | constants for TLC | their module |

Operators whose comment starts with *Slip:* are not part of the model. Each is a plausible
mistake in the code that the operator below it stands for; substituting it must break the
property it is paired with in `PROJECT.json`, which shows that the property depends on that code.

### BookingStatus

`row` is the booking in the database, reduced to what the properties tell apart: status,
category, `z_lock_status`, whether `b_dateBookedDate` and `b_given_to_transport_date_time` are set,
and the consignment (`fk_fp_pickup_id`). `history` is `Dme_status_history`. `requests[r]` is a
request: its program counter, the *copy* `mem` of the row, the calls of `create()` it has still to
make. `fpLog`, `live` and `issued` are the FP; `seen` is the number of stored FP events.

| Action | Code |
|---|---|
| `...Load` | the handler up to its first `create()` or FP call: reads the row, checks, returns early |
| `FpBooks`, `BuiltInBook`, `FpCancels`, `FpTracks`, `FpRefuses` | the FP's answers, no answer among them |
| `PopulateNew`, `PopulateOld` | `populate_fp_status_history` and the branch on its result |
| `Create`, `Record`, `Settle` | `status_history.create`: status saved; entry saved; `post_new_status` |
| `ScanSave`, `CancelSave`, `LabelSave`, `Finish`, `Requote` | the handlers' further saves of the same copy |
| `FormLoad`, `FormSave` | `update_booking`: a page loaded earlier overwrites the row |
| `EditLoad`, `EditBooking`, `EditEntry` | `update_status_history` |
| `Crash` | a worker dies between two statements |

Every save is `row' = copy`, the effect of `Bookings.save`; `Stamped` adds what `pre_save_handler`
changes in the copy (and not in the row). Whether a booking goes to an FP with an API or is booked by hand
(`PlainBookLoad`) is said by the caller's URL, so `Kinds` alone decides which handlers may run.

Coarser than the code: `create()` reads the last entry and saves the status in one step,
`post_new_status` saves and refreshes in one step. The window between `create`'s two saves is kept.
Left out: e-mails, SMS, the dates that no property names, `_set_error`'s text, and bookings with
several FPs. An FP event *is* the status it maps to here (`None` if no rule maps it); its time, its code and
partial deliveries are in `Tracking`.

### BokMapping

`boks[h]` is an order: the success code of the header, whether a price (`quote`) is chosen for it, and the code
of its lines (0: no such row). `priced` are the orders that have prices to choose from.
`bookings` is `dme_bookings` in the order of ids, `option` the row `MoveSuccess2ToBookings`.
`runs` and `calls` are mapping runs and client calls in progress with what they have read.

| Action | Code |
|---|---|
| `Push` | `push_boks` of most clients, one transaction |
| `Post`, `AddLines` | BioPak: header first, lines later |
| `PushQuoted`, `QuoteSave`, `QuoteDone` | `push_boks` of Jason L, Anchor and Plum: pushed with code 3, priced, then the copy of the header saved again (Jason L's in a background thread) |
| `AcceptHeader`, `AcceptLines` | Plum's direct orders are accepted at once |
| `BookLoad` .. `BookHeader` | the client's `book` |
| `SelectLoad`, `SelectSave` | `select_pricing`, `update_freight_options` |
| `CancelLoad` .. `CancelHeader` | the client's `cancel` |
| `DupLoad`, `DupInsert` | `duplicate_booking` |
| `ReadOption`, `Claim`, `Scan`, `MapBok`, `BatchDone`, `Hold`, `Release` | `mapBokToBooking` in the order of its statements |
| `Crash` | the run dies, or an exception ends it: the option stays set |

Coarser than the code: `Scan` reads the largest visual id and the batch in one step, `Hold` runs its
two queries and updates in one step, all lines of an order have one code. A header whose mapping
raises (`Poison`) is rolled back by `transaction.atomic`. `Sinv[h]` stands for the pair of client
and invoice number. An order that a client pushes again while it has code 3 is deleted first and gets a new
key: a `cancel` and the push of another header. Time counts modulo `Day`, because the code takes `timedelta.seconds`.

### Tracking and Shipment

`log` is the FP's own list of events, `reported` the statuses of all events it ever had,
`stored` the active rows of `FP_status_history`, `booking` the three fields of the booking that
tracking writes (`b_status`, `z_lock_status`, `s_21_Actual_Delivery_TimeStamp`), `poll` the poll in
progress with the FP's answer. `lines` is the number of lines Allied delivers one by one.

| Action | Code |
|---|---|
| `FpReports`, `FpForgets` | the FP: a new event, for Allied late or out of time order too; the list loses its oldest event |
| `FpTracks` | the answer, through `_extract` and `_extract_bulk`: as it comes (TNT, Hunter, Sendle), sorted by time (Allied), newest first and without times (StarTrack) |
| `StoreAgain` | `populate_fp_status_history` when nothing is stored, or more than the answer has: the rows are deactivated and made again |
| `StoreNews` | its loop over the news, which stops behind the first event whose code is that of the latest row |
| `NothingNew` | no news, or the comparison of an event without time raises |
| `Update` | `update_booking_with_tracking_result` with `status_history.create`: the event shown, `PARTDEL` made up for Allied, lock and delivery time |
| `Crash` | the poll dies between storing and updating |

A code is what the properties tell apart: a delivery (two codes), a scan, a code without a rule.
`Shipment` is the abstract specification: what is shown was reported, and a shown delivery stays.
`Tracking` implements it with `shown <- booking.status` (property `KeepsPromise`).
Storing is one step (its rows are saved by one loop without a call in between), and so is the update;
their interleaving with other handlers of the booking is in `BookingStatus`.

### Packing, Quoting, Fulfilment

`Packing`: `rows` are `Booking_lines` with their key `pk_booking_lines_id` and their set
(`packed_status`), `datas` their `Booking_lines_data`, tied to a line by the key, `serial` the last id.
The packing service (`get_palletized_by_ai`) is a choice of what it puts on each pallet: a line may be on several, and
partly on none. A pallet's `load` is what its weight was added up from. `repacks` are automatic repacks in progress, with the lines
they have still to save.

`Quoting`: `quotes` is `API_booking_quotes`, `chosen` the booking's `api_booking_quote`; `rounds[r]` is a round in
progress with the sets it prices and the quotes it has copies of. An FP may have several quotes of a set, one for each
service and account.

| Action | Code |
|---|---|
| `AutoRepack` | `auto_repack` up to the service's answer; lines put on no pallet keep the key of the original and share its data |
| `SaveLoose`, `SaveContents`, `SavePallet` | its two loops, save by save: loose lines; what is on a pallet, with the line it came from saved again; the pallet |
| `EndAutoRepack` | it is done, or raises: what was saved stays, there is no transaction |
| `ManualRepack`, `ResetRepack` | `operations/packing/booking.py` |
| `Begin` | `pricing`: old quotes of the sets retired, threads for the sets that have lines |
| `Answer` | a thread saves one of its quotes |
| `AfterReads` | the threads are done: `_after_process` reads *all* live quotes, whichever round made them |
| `AfterSaves` | `gen_surcharges`, `interpolate_gaps`, `apply_markups` save copies: one that was retired meanwhile is live again |
| `AfterHides` | `_confirm_visible` hides a quote of Allied, whose copy the loop may hold hidden or not |
| `AfterEnds` | all copies are saved; for JasonL in South Australia Allied's quotes are hidden |
| `AfterFails` | a round raises at any point; the page answers with an error, the background thread dies |
| `PageSelect`, `ScanSelect` | `auto_select_pricing`; the choice of `quoting_in_bg` |
| `Scan`, `ScanFails` | `scanned`: earlier picked lines deleted, new ones saved, the quote dropped, a round in the background |
| `Book` with `ScannedRepack` | the status becomes "Booked": `scanned_repack` makes the scanned set if there is none, and copies its quotes |

Which quotes are live is the subject here, and amounts are that of `Rating`. Whether a quote is fit for the page (by road, of the
booking's FP) is free. `alone` in a round says that it has met no other so far, `by` in a quote which round asked for it; both are
there for the properties. Coarser than the code: `manual_repack`, `reset_repack` and `scanned_repack` are one step each, and the death of the
process in them is left out.

### Tariffs and Rating

`Tariffs` has no state: measures of lines (cubic weight per FP, rounding), the tables as sets of bands, and
`Surcharge(fp, express, place, lines)` as `find_surcharges` adds it up, with what depends on the quote's service (Camerons charges 110%
for an express one) and on the places (`FP_onforwarding` has Allied's fees beyond its network). `Rating` runs whole rounds of pricing one after the
other, with amounts: `place` (addresses, client, deadline), `lines` of the sets original and scanned, `quotes`, `chosen`.

| Action | Code |
|---|---|
| `AddLine`, `EditLine` | the order, before the first round |
| `PageRound` | `pricing` and the page's choice: `build_special_fp_pricings`, `interpolate_gaps`, `_after_process` with `gen_surcharges` and `_confirm_visible`, `apply_markups`, `auto_select_pricing` |
| `ScanRound` | the same for the scanned set, with the choice of `quoting_in_bg` |

All quantities are integers: centimetres, grams, litres, tenths of a cent; where the code rounds up to whole kilograms,
so does the model. FPs' own offers are inputs: for a set, one for each service or account of an FP, or none. Allied has one service, as its
live account has. `_after_process` keeps the three views of a quote the code has (the row, the copy
in the loop, what a re-read list holds), because what is saved over what is the point. Left out:
dangerous goods, and with them the tables of the six other FPs, which charge for nothing else.

### Rates

`job` is what is priced (FP, client, trip, lines, rule table), `left` the services still to price, `prices` what was found.
Each action prices one service; an exception (`Raise`) takes the prices of all of them.

| Action | Code in `fp_apis/built_in/` |
|---|---|
| `VehiclePrice` | `atc.py`, `century.py`: cheapest rule with a vehicle that takes the load |
| `PiecePrice`, `NoHomes` | `camerons.py`, `dxt.py`: rules filtered by size, then weight |
| `NorthlinePrice` | `northline.py`: by weight |
| `FirstRulePrice` | `blacks.py`, `blenner.py`, `startrack.py`, `followmont.py` |
| `BandPrice` | `bluestar.py`, `hi_trans.py`, `sadleirs.py`: the first rule, its band must reach beyond the count |
| `TollPrice`, `VfsPrice` | `toll.py`, `vfs.py` |
| `LinehaulPrice` | `deliver_me.py` (Deliver-ME) |

`AddressFilter`, `DimFilter`, `WeightFilter` and `FindCost` are the functions of `operations.py`, with what they carry
from one rule to the next. Units are dm, kg and litres. A packing service outside the repository says which vehicles take
several pieces: any subset. A postal code's zone is looked up in two ways: `PostalZone` by the code itself (`address_filter`, Toll), `RangeZone`
also by the ranges of `get_zone_code` (VFS). `ByPostalCode` names those of the nine ids of operations.py:124 that the modelled FPs have. Each rule has a
cost of its own here; with a cost row shared by two rules that pass a filter, `rules.get(cost_id=...)` would raise. Left out: Allied, Hunter, TNT and Sendle (deactivated in `index.py`), `get_percentage` and what
depends on it, the client in ATC's filter, and zones that a caller hands in.

## 3. Runs

| Run | Question | Result |
|---|---|---|
| `sequential` | do status, history, category, dates, lock and FP agree when requests come one by one; is each status explained, is a lock final? | holds |
| `locked` | stale copies, forms, bookings by hand, a crash: can anything but a delivery lock a booking? | no |
| `edits` | do edits of the history keep the booking on its last entry? | holds |
| `mapping` | one run at a time, with failing headers and dying runs: is each order booked, once, with lines, under its own id; are duplicates held? (also refinement of `OrderIntake`, and liveness) | holds |
| `clients` | all client calls with stale copies, two runs, a crash: is a mapped order booked? | holds |
| `tracking` | lists that grow late and shrink, polls that die: is what is shown reported, is a delivery timed, final, not early, and does it arrive? (refinement of `Shipment`, liveness) | holds |
| `fulfilment` | repacking, overlapping and failing rounds, scans, booking: do pallets hold their load, is nothing scanned twice, is the booking's quote a current one, is what overlapping rounds left cleared up? | holds |
| `pricing` | tables around their bounds, and two rounds with every combination of offers: are charges monotone, is the choice the best one in time? | holds |
| `rates` | rule tables in several orders: is the rule that prices a service one for the trip, and the cheapest? | holds |
| `doublebook` | "Booking is already booked." | violated |
| `partdel` | partial deliveries are shown "partially" only until the last line comes | violated |
| `surcharges` | "Total of surcharges" | violated |

`pricing` takes about three minutes with two workers, `locked`, `clients` and `fulfilment` up to one, the others seconds.

### Bounds

* `MaxHistory`: a handler adds at most two entries; four or five entries allow two to three handlers
  in a row, enough for every pair of handlers to meet in every order, and for a third to
  see what the pair left. `MayStart` keeps room for the entries of requests under way, so a bound
  never stops a handler half way.
* `BookingStatus.MaxLog`: two events suffice for a repeat and a new one. `MaxPickup = 2`: a booking and a rebooking.
  `MaxCrashes = 1` (2 in `mapping`: a run dies and the run that takes over dies too).
* `Requests` has one or two slots: races between two requests need no third.
* `Headers`: two that share an invoice, and a third that fails; `BatchSize = 2` so that a batch
  neither takes all nor only one. `Day = 3`, `Grace = 1`: the times "just ended", "long ago" and the
  wrap-around occur. In `clients` `Day = 1`, time stands still: runs overlap because two
  calls read the option before either sets it, which needs no clock.
* `tracking`: two lines (the first delivery is not the last), three events (a scan or a code without a rule before or between two
  deliveries), two times (`MaxTime`; three in `partdel`, where events come one after the other), one forgotten event (an answer
  shorter than what is stored), one crash. Each kind of FP is an initial state.
* `fulfilment`: two items (one on the pallet, one not), five lines ever made (the order and three more: two pallets with the same line,
  or a copy of a pallet), one automatic repack at a time (another may follow while copies of the first are there), two quotes
  ever made, two rounds, one FP whose quotes may be hidden (several quotes of it stand for those of several services), one failure. A third
  round uses the slot of one that is over.
  `OverlapEarly` stops exploring where two rounds overlap after much repacking: rounds see only which sets there are. The theorems have neither bound.
* `pricing`: twelve sizes of lines at and beside the bounds of the tables, up to two lines (for the surcharge properties); rounds
  are priced for two orders (`Priced`), three FPs: TNT with two services, Allied, and Northline with one of two offers, any of which may be missing, the same prices among them; three orders
  of arrival, with each FP once first and once last, and TNT's services together or apart. One place is beyond Allied's network, one has two rows
  in `FP_onforwarding` (and no fee). Two rounds: a page's round before or after a scan's.
* `rates`: eleven loads around 12, 16 and 18.5 dm, 20 and 30 kg and one to three pieces; seven trips (both ways, homes, assistance,
  a place without a zone, one with two, and one whose postal code is in the range of another zone than its own); thirteen tables in which rules lack dimensions, exclude one another or are for the
  way back; three vehicles.
* `CHECK_DEADLOCK FALSE` stands in every run but those of `BokMapping`: at the bound of the history, of the rounds or of
  the services nothing more happens, and a real booking may rest for ever too. `BokMapping` checks deadlock.

### Fairness

`tracking`, `partdel`: a poll that has its answer goes on (`WF` of storing and updating), and polls are started again and again,
not all of them without an answer (`SF` of `FpTracks`: an answer may be lost, not every one). Polls are started by a
scheduler outside the repository, which exists to call this endpoint. `DeliveryArrives` makes no claim
after a crash: the events are stored by then, later polls find nothing new, and the delivery is not shown.

`mapping`: runs go on, time passes, and the cron calls often enough to meet the times at which the
option lets it go ahead (`SF` of `ReadOption`). The endpoint is called by a scheduler outside the
repository. Failing headers are fewer than a batch. With ten or more of them the database may
return the same ten each time, and nothing in the code promises progress then.

### What the violations show

* **doublebook**: two requests pass `pre_check_book` before either has saved "Booked"; the second consignment
  is booked for a booking that is booked by then and the first one is an orphan.
* **partdel**: Allied delivers two lines with the same code. With the first, the booking is "Partially Delivered"; the event of
  the second has the code of the latest stored row, so `populate_fp_status_history` says that nothing is new, the update is not
  made, and the event is stored: the booking stays partially delivered.
* **surcharges**: `_confirm_visible` hides a bulky quote of Allied and hands on a new query; surcharges of later quotes are saved to the
  rows while the list keeps what the query read before, and `apply_markups` saves that over them.

Behaviour that the models have, and that no text of the repository excludes or that has no run of its own:

* A request that read a booking before its delivery saves it without the lock (`BookingStatus` with two requests): further
  polls find nothing new, the delivery is lost.
* `error_bookings_1` (views_cron.py:84) compares with `visual id > start_id` and no count: each booking of a batch but the
  first that has an invoice number is held as a duplicate, without one.
* `is_running` is read and set in two statements and ignored 30 s after the *end* of the last run: two runs map the
  same headers to two bookings each, with equal visual ids.
* An order is accepted (code 4) while its price is being chosen or its quoting runs: the save of the header read before
  puts it back to 3 and the mapping does not see it.
* Toll's price multiplies the total weight, which has the quantity in it already, with the quantity again (`TollNet` in `Rates`;
  the docstring at toll.py:86-106 has the weight of an item).
* A two-way rule with zones raises (`built_in/operations.py:236` calls `is_in_zone` with an argument too few), and all prices of
  the FP are lost. StarTrack's second poll raises, too: its events have no time to compare.
* A scan that follows the booking adds what was picked to the copied set: both are in the scanned set.
* An automatic repack that raises half way leaves what it has saved: an auto set that lacks lines of the order, or the data of a pallet
  without the pallet. A line that is on a pallet in part is copied to the auto set as a whole, and one that was reset in the meantime is saved
  again. Resetting loose lines of the auto set deletes the data of the order's lines, whose key they have.
* While two rounds of pricing overlap, each saves copies of quotes that the other has retired: they are live again. A booking
  that is booked then keeps them (`LoneRoundClearsUp` says that the next round by itself, if there is one, clears them away).

## 4. Proofs

| Theorem | Assumption | Says |
|---|---|---|
| `BookingStatusProofs!TypeCorrect` | - | `Spec => []TypeOK` |
| `LocksAreDeliveries` | staff do not edit history entries | `Spec => []LockImpliesDelivered` |
| `StatusesAreAudited` | only handlers that use `create()`, no crash | `Spec => []StatusAudited` |
| `HistoryIsChained`, `StatusIsTheLast`, `CategoryIsCurrent` | one request at a time, no crash, only handlers that use `create()` | `Spec => []HistoryChained`, `[]StatusIsLast`, `[]CategoryFollows` |
| `LockForGood` | the same | `Spec => LockIsFinal`: no step takes a lock away or changes what is locked |
| `TransitIsStamped`, `BookedIsDated` | the same, and the booking is created before it is booked | `Spec => []TransitStamped`, `[]BookedHasDate` |
| `ClosedIsCancelled` | the same as the first, and only `cancel_book` closes | `Spec => []ClosedAtFp` |
| `BokMappingProofs!TypeCorrect` | - | `Spec => []TypeOK` |
| `MappedAreBooked` | - | `Spec => []MappedIsBooked` |
| `OneRunNumbersApart` | at most one run at a time, no `duplicate_booking` | `Spec => []VisualsDistinct` |
| `DuplicatesAreHeld` | at most one run at a time | `Spec => []DuplicatesHeld` |
| `OrdersAreTakenIn` | one run at a time, orders pushed ready, no client call but `duplicate_booking` | `Spec => BookedOnceWithLines`: `BokMapping` refines `OrderIntake` |
| `TrackingTypes` | - | `Spec => []TypeOK` (`Tracking`) |
| `TrackingKeepsPromise` | - | `Spec => KeepsPromise`: `Tracking` refines `Shipment` |
| `NeverDeliveredEarly` | - | `Spec => []NotDeliveredEarly` (`Tracking`) |
| `DeliveriesAreTimed` | - | `Spec => []DeliveryIsTimed` (`Tracking`) |
| `FulfilmentTypes` | - | `Spec => []TypeOK` (`Fulfilment`) |
| `PalletsKeepTheirLoad` | - | `Spec => []PalletsHoldTheirLoad` (`Fulfilment`) |
| `ScannedOncePreserved` | - | `Spec => []ScannedOnce` (`Fulfilment`) |
| `ChosenIsLivePreserved` | - | `Spec => []ChosenIsLive` (`Fulfilment`) |
| `LoneRoundsClearUp` | - | `Spec => []LoneRoundClearsUp` (`Fulfilment`) |
| `LengthChargedOnce` | - | for every length, each FP's bands charge it at most once |
| `HomeChargedOnce` | - | for all weights, Allied's home delivery is in at most one class, and in none only at 22 kg |
| `OneFeeEach` | - | `Spec => []OneFeePerRule` (`Rating`) |
| `LargerNeverCheaper` | - | `Spec => LargerNotCheaper` (`Rating`) |
| `RatingProofs!TypeCorrect` | - | `Spec => []TypeOK` (`Rating`) |
| `FleetIsOffered`, `BulkyNeverAllied` | - | `Spec => []FleetOffered`, `[]NoBulkyAllied` (`Rating`) |
| `DeadlineIsMet`, `CheapestIsTaken` | - | `Spec => []DeadlineMet`, `[]CheapestCarrierTaken` (`Rating`) |
| `NeverOverClient` | the client's own rates are not Allied's | `Spec => RaisedToClientAtMost` (`Rating`) |
| `PricesAreTyped` | a piece that VFS prices weighs a kg or more | `Spec => []TypeOK` (`Rates`) |
| `RulesServeTrip` | - | `Spec => []ServesTrip` (`Rates`) |
| `MoreIsNotCheaper` | - | `Spec => []MoreNotCheaper` (`Rates`) |
| `CheapestRuleTaken` | - | `Spec => []CheapestTaken` (`Rates`) |

They hold for all sets of requests, handlers, orders, runs, FPs and rounds and for all bounds. The constants satisfy the named
`ASSUME`s of their modules, which TLC evaluates in each run.

**BookingStatus.** The extra assumptions are needed: an edit can take "Delivered" out of the history of a locked booking, a
form writes a status that no entry records, and a crash after the first save of `create()` loses the entry.

* `TypeInv` strengthens `TypeOK` with what each program counter promises of its request: `create()` never
  starts without a status to set, a tracking answer being worked on has an event in it.
* Every step has one of a few *shapes* (`StepShape`): a request starts with a copy of the row; it saves or
  drops its copy; `create()` sets, records or settles a status; an edit; an end. The invariants below
  are proved against these shapes and not against each handler.
* `LockInv` adds to `LockImpliesDelivered` the same for every copy, and that the entry about to be
  settled is in the history: a stale copy can bring back a lock only if the history had the delivery
  when the copy was read, and without edits the history only grows.
* `AuditInv` says of the row *and every copy* that its status is explained, with the
  statuses about to be recorded; `KindInv` keeps requests in `Kinds`.
* `SeqInv` (`SequentialProofs`) is for requests one at a time. Between two of them the row is at rest (`Rest`): its status is
  the last of the history, its category that of the status, lock and dates are as the history says. In between, `create()` is
  `HalfWay` (the status saved, the entry or what follows it not yet), and the handler is `Working` on a copy that is the row, but for dates
  that `pre_save_handler` has set in the copy alone. The properties hold only at rest, so they are not inductive without the other two. `ClosedInv` adds what the FP has
  done for the request in progress (`FpWork`): it has cancelled before the row is closed.

The assumption of one request at a time is what the run `sequential` makes and what the violations below show to be needed. That the
booking is created before it is booked is needed too: `mapBok` creates consigned orders as "Booked", and nothing ever
dates them.

**BokMapping.** Without the assumption of the last theorem two runs, or a run and a duplicate, take the same largest id.

* `TypeInv` adds that there is a largest visual id (`LargestVisual`) and that a run has no more headers to map than its batch has (`TodoCounted`), so that
  the ids it computes are numbers.
* `MarkInv` says of the copies that client calls hold what `MappedIsBooked` says of the headers: a call may have read the mark.
  Every step takes a mark from a header or a copy, or makes it together with a booking (`MarkShape`), and none takes a booking
  away (`BookedStays`).
* `VisualInv` adds that all ids there are lie below the next one of the run that is mapping.
* `DuplicatesAreHeld`: of the duplicates of an invoice in a batch the last is held. That there is a last one is `LargestOf`, by the
  minimal counterexample of a well-founded order.
* `IntakeInv` says that no client's call has a header to save (`HeadersLeft`), that an order has at most one booking, with its lines, and
  none while it is ready (`Whole`), and that the headers a run has still to map are ready and as it read them (`Current`). `Claim` and `MapBok` are
  then steps or stutters of `OrderIntake`. With two runs, or with a client's call that saves a header read earlier, `Current` fails,
  and a header can be mapped twice.

**Tracking.** `Inv`: the FP's list and the answer a poll works with hold reported events only, the answer is not
empty, and a booking that shows a delivery is locked. `OrderedLists` and `CutList` show that sorting, turning round and cutting a list at its
first delivery bring in nothing new; with them each `Update` is a `Show` of `Shipment` (or a stutter, when the booking
is locked or stays as it is), each report a `Report`, and every other step a stutter.

`DeliveryInv` says of the answer a poll works with what the booking's properties need: its deliveries have times of deliveries in the
FP's list, and it has no more of them than the list. A sorted list has the same events because `Rank` is a
bijection (`RanksDiffer`, `RankIsPosition`, `RanksCover`), the counts are compared by a surjection (`NoMore`), and a list that grows, or
forgets an event that is no delivery, keeps both (`ListGrows`).

**Packing.** `PackInv` (`FulfilmentProofs`) says that lines saved and lines that wait to be saved (`All`) share no id, that the key of a pallet is its
own id and of no other line (`Keyed`), that the original set is as ordered, that what a repack is about to save is of the auto set, with only its own
load under a pallet's key so far (`Prepared`), and `PalletsHoldTheirLoad`. Without `Keyed` it is not inductive: a line could
share the data of a pallet, and its reset would empty the pallet. Without `Prepared`, a pallet could be saved with data under its
key that are not of its load. Loose lines do share the data of the original ones, so nothing of the kind holds for them. Each operation is a lemma (`AutoPacks`,
`LoosePacks`, `ContentsPacks`, `PalletPacks`, `DuplicatePacks`, `ResetPacks`, `ScanPacks`).

**Fulfilment.** `ScannedInv` adds to `ScannedOnce` that picked lines are in the scanned set and that, until the booking is booked, nothing
else is: the scanned set is copied once, at the booking, and only when it is empty. `ChosenInv` says that the chosen quote may be stale only while a
round is in progress: whoever retires it has started a round that will choose anew (`StillInProgress`), and a round that was started
for an unbooked booking does choose. `LoneInv` says of a round that has met no other (`ClearsUp`) that none is in progress
besides, and that of the sets it prices no quote of another round is live *or among the copies it works on*: a copy of a retired quote, saved
again, would be live. Copies of other sets' quotes may well be older. Before such a round anything may have happened: rounds that
overlapped, saved each other's quotes or failed.

**Rating.** `LargerNotCheaper` has no state to be inductive about: it is arithmetic for orders of any length, and its proof follows the
way a surcharge is computed.

* A table is a *ladder* (`Ladder`): bands that do not overlap, begin where the last one ended and never charge less further up.
  `TablesRise` and `TablesGapless` say so of each table, band by band; a greater length then never has a smaller fee (`SurchargeGrows`
  and the lemmas before it), but for the gaps that `InGap` names.
* Measures (`LongestGrows`, `HeavyKgGrows`, `OrderDeadGrows`, `OrderCubicGrows`) grow with the lines. They are sums and maxima over lines,
  recursions in the community modules. `Aggregates` proves what those give by induction *on sets*: the set of all subsets for which
  a fact holds contains the empty one and, with every smaller one, each (`AllSubsets`); that a recursion over subsets has a value at all is
  `IterateExists`. No induction theorem with an operator as a parameter is needed.

`RatingInv` holds for every round, of any FPs, offers, levies, mark-ups and orders of arrival. Next to the four properties
it says that live quotes are typed and an FP has one for a set and service (`OneEach`), only for sets with lines and not before the first round
(`QuotesInv`), and that the booking's quote is of a round so far (`ChoiceInv`).

* Without `OneEach`, "the first of Allied", which has one service, need not be the bulky one; without the sets' lines, surcharges of an empty order would be asked for; without
  `ChoiceInv`, a quote of an earlier round could pass for the choice of this one.
* A round is followed through its stages, each a lemma that says which offers survive and with which fee: `AskedIs`, `InterpolatedIs`, `ListedIs`
  (listing by arrival is a bijection, by ranks), `WorkedIs` (the pass of `_after_process` over a list that it changes: only Allied's quotes
  are hidden and, if all are bulky, its only one is), `SavedIs`, and together `RoundedIs`. The pass and `_get_lowest_price` are folds, taken
  by the same induction over subsets (`KeptIs` for ties).
* `NeverOverClient` needs its assumption: a raise is measured by the client's rates among the quotes asked for, and Allied's quotes may be hidden afterwards.

**Rates.** `RatesInv` says that the services still to price are distinct and none of them is priced, and that each price came about as
`Priced` says: by a rule of its service that `address_filter` let through, for the amount that rule charges for the lines, and for
Camerons the rule `find_cost` ends with. A price says nothing of the services priced after it, so
`Priced` stays true as long as the job does (`PricedStays`); each provider's way of pricing is a lemma (`BandPriceStep`, `TollPriceStep`,
`VfsPriceStep`, `LinehaulPriceStep` and so on) that says that it offers a `Priced` amount, passes or raises.

* `address_filter` reads its rules one after the other, each judged by the zones of the one accepted before it, and `find_cost` keeps the best rule so
  far. Both are recursions along the rules: `Steps` in `Aggregates` shows that such a recursion exists and that what holds at its start and is handed on
  holds at its end. `OnwardForTrip` then says that every accepted rule is for the trip, and `BestIs` that the best is the cheapest
  when no rule asks its oversize price. With an oversize price the pass compares that with the *normal* price of the best so far, and need not end with the
  cheapest; hence the condition in `CheapestTaken`.
* `MoreNotCheaper` is arithmetic: the count, the weights and their roundings, half to even among them (`RoundingGrows`), grow with the pieces, and
  so do minimums and deductions (`FreightGrows`, `NorthlineGrows`, `TollGrows`, and `NetGrows` of all).
* `PricesAreTyped` needs its assumption: VFS charges for the weight beyond that its rule starts at (vfs.py:119), which is below nothing for
  pallets lighter than that. The rule starts at no more than their number (`find_rule_ids_by_weight`), so a kg each is enough. The other
  theorems do not need it.

**Only model-checked** is what the prover cannot do: liveness (`DeliveryArrives`, `ReadyGetsBooked`) and `ENABLED`. Every safety and action property
of a passing run is a theorem, some of them under the assumptions of the table.
`JobsAssumption` is that of `Rates`: a booking has lines of at least one piece, rules have no negative numbers, and Deliver-ME's cities are those it names.
The assumptions of `Rating` are those of its code: FPs' answers are numbers and come one after the other, and Allied has one service
(`OffersAssumption`); the fees beyond Allied's network are no negative numbers (`PlacesAssumption`); lines have numbers for dimensions, and a scan without
items is refused (`LinesAssumption`).

## 5. Not modelled

* Labels, manifests, CSV, reports, e-mail, SMS: layout of output, no state that is read back (but for counters, see below).
* Payload builders and response parsers, Pronto, Zoho, Spojit, Genesis, Paperless: formats of other systems.
* The rows of the price tables: data of the database; `Rates` takes a table as its input.
* Packing of orders (`operations/packing/bok.py`): the same moves as those of a booking.
* Surcharges that staff enter by hand: `handle_manual_surcharge_change` saves copies of all quotes and marks them up anew. A
  quote's total is not the sum of its surcharges and these in any case: a round by itself loses surcharges (run `surcharges`).
* Dangerous goods, in surcharges.
* Commands under `management/`: repairs run by hand. Migrations, serializers, routes: declarations.
* Orphaned consignments after a lost answer or a crash, and a tracking update lost by a crash after the
  FP's events are stored: the models have these steps, but no text of the repository promises anything else.

More than half of the code is of these kinds, so a large share of its lines stays outside.

## 6. What could follow

1. The counters of consignments and manifests, which are read, used and saved without a lock.
2. `duplicate_booking` with its children and the copied lock, `get_run_out_bookings`; visual ids across both sources.
3. Surcharges by hand and for dangerous goods, and the deactivated price tables, should they be used again.
4. The warehouse's `push` and `ready` across the two spellings of statuses.

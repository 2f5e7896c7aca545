------------------------------ MODULE Packing ------------------------------
(***************************************************************************)
(* The packed sets of a booking's lines.  A booking keeps its lines as     *)
(* ordered; repacking adds further sets of lines beside them: packed on    *)
(* pallets automatically, copied for changes by hand, and as scanned.      *)
(* Line data says what a line holds; it is tied to a line by the line's    *)
(* key (pk_booking_lines_id), which is not the key of the table.           *)
(***************************************************************************)
EXTENDS Naturals, FiniteSets

CONSTANTS
    Items,      \* how many lines the booking has as ordered
    MaxRows,    \* bound: lines ever made
    MaxRepacks  \* bound: automatic repacks at a time

ASSUME PackingAssumption == {Items, MaxRows, MaxRepacks} \subseteq Nat

VARIABLES
    rows,     \* the booking's Booking_lines
    datas,    \* their Booking_lines_data
    serial,   \* the last id given to a line; a new key is the id of its line
    repacks   \* automatic repacks that are saving what the service has answered

packingVars == <<rows, datas, serial, repacks>>

Originals == 1..Items
PackedStatuses == {"original", "auto", "manual", "scanned"}

\* A line of the order, a pallet, or a box picked by the warehouse.  load is what
\* the line's weight was added up from (nothing for a box).
Row == [id : Nat, key : Nat, status : PackedStatuses,
        form : {"item", "pallet", "picked"}, load : SUBSET Originals]

Line(id, key, status, form, load) ==
    [id |-> id, key |-> key, status |-> status, form |-> form, load |-> load]

Data == [key : Nat, of : Originals]

\* The lines an automatic repack has still to save, and the loose ones it saves
\* AGAIN because the rest of their items is on a pallet.
Job == [loose : SUBSET Row, pallets : SUBSET Row, again : SUBSET Row]

RowsIn(status) == {r \in rows : r.status = status}
Packed == {r.status : r \in rows}
Keys(S) == {r.key : r \in S}
Contents(key) == {d.of : d \in {e \in datas : e.key = key}}

InitPacking ==
    /\ rows = {Line(i, i, "original", "item", {i}) : i \in Originals}
    /\ datas = {[key |-> i, of |-> i] : i \in Originals}
    /\ serial = Items
    /\ repacks = {}

-----------------------------------------------------------------------------
(* Copies.                                                                 *)

\* Slip: the copies are saved over the first of them.
NewIdSame(S, r) == serial + 1

\* The database numbers the rows of S as they are saved, one after the other.
NewId(S, r) == serial + Cardinality({s \in S : s.id <= r.id})

\* The copies of the lines S for another set, each with a key of its own...
Copies(S, status) ==
    {Line(NewId(S, r), NewId(S, r), status, r.form, r.load) : r \in S}

\* ... and the copies of what they hold.
CopiedDatas(S) ==
    UNION {{[d EXCEPT !.key = NewId(S, r)] : d \in {e \in datas : e.key = r.key}} : r \in S}

\* Adds a copy of the set S under another status.
Duplicate(S, status) ==
    /\ serial + Cardinality(S) <= MaxRows
    /\ rows' = rows \cup Copies(S, status)
    /\ datas' = datas \cup CopiedDatas(S)
    /\ serial' = serial + Cardinality(S)
    /\ UNCHANGED repacks

-----------------------------------------------------------------------------
(* The operations of views.py repack.                                      *)

\* auto_repack, up to the answer of the packing service: lines that stay loose and
\* pallets.  A line may be on several pallets and, with the rest of its items,
\* loose as well: it is then copied as a whole.  Loose lines keep the KEY of the
\* line they are copied from, and share its data.
AutoRepack ==
    \E looseItems \in SUBSET Originals, n \in 0..(MaxRows - serial) :
    \E loads \in [1..n -> SUBSET Originals \ {{}}] :
        LET loose == {r \in RowsIn("original") : r.load \subseteq looseItems}
            first == serial + Cardinality(loose)
            copies == {[r EXCEPT !.id = NewId(loose, r), !.status = "auto"] : r \in loose}
            onPallets == UNION {loads[k] : k \in 1..n}
        IN  /\ looseItems \cup onPallets = Originals
            /\ first + n <= MaxRows /\ Cardinality(repacks) < MaxRepacks
            /\ serial' = first + n
            /\ repacks' = repacks \cup
                   {[loose |-> copies,
                     pallets |-> {Line(first + k, first + k, "auto", "pallet", loads[k]) : k \in 1..n},
                     again |-> {r \in copies : r.load \subseteq onPallets}]}
            /\ UNCHANGED <<rows, datas>>

Becomes(job, rest) == repacks' = (repacks \ {job}) \cup {rest}

\* Its first loop saves the loose lines.
SaveLoose ==
    \E job \in repacks : \E r \in job.loose :
        /\ rows' = rows \cup {r}
        /\ Becomes(job, [job EXCEPT !.loose = @ \ {r}])
        /\ UNCHANGED <<datas, serial>>

\* The pallet its second loop is at.
IsNext(job, p) ==
    /\ job.loose = {} /\ p \in job.pallets
    /\ \A q \in job.pallets : p.id <= q.id

\* What is on the pallet, one data per line.  The line is saved with it: when it is
\* the loose copy by now, and the auto set was reset meanwhile, that copy is back...
SaveContents ==
    \E job \in repacks : \E p \in job.pallets : \E i \in p.load \ Contents(p.key) :
        /\ IsNext(job, p)
        /\ datas' = datas \cup {[key |-> p.key, of |-> i]}
        /\ rows' = rows \cup {r \in job.again : r.load = {i}}
        /\ UNCHANGED <<serial, repacks>>

\* Slip: the pallet before what is on it.
SavePalletFirst ==
    \E job \in repacks : \E p \in job.pallets :
        /\ IsNext(job, p)
        /\ rows' = rows \cup {p}
        /\ Becomes(job, [job EXCEPT !.pallets = @ \ {p}])
        /\ UNCHANGED <<datas, serial>>

\* ... and then the pallet.
SavePallet ==
    \E job \in repacks : \E p \in job.pallets :
        /\ IsNext(job, p) /\ p.load \subseteq Contents(p.key)
        /\ rows' = rows \cup {p}
        /\ Becomes(job, [job EXCEPT !.pallets = @ \ {p}])
        /\ UNCHANGED <<datas, serial>>

\* All is saved, or a serializer refuses a line or a data, or the database does:
\* what was saved before stays.
EndAutoRepack ==
    \E job \in repacks :
        /\ repacks' = repacks \ {job}
        /\ UNCHANGED <<rows, datas, serial>>

\* manual_repack, from the lines as ordered or from the auto set.
ManualRepack ==
    \E from \in {"original", "auto"} :
        RowsIn(from) # {} /\ Duplicate(RowsIn(from), "manual")

\* reset_repack: the lines of a set, and all data under their keys.
ResetRepack ==
    \E status \in {"auto", "manual"} :
        /\ RowsIn(status) # {}
        /\ rows' = rows \ RowsIn(status)
        /\ datas' = {d \in datas : d.key \notin Keys(RowsIn(status))}
        /\ UNCHANGED <<serial, repacks>>

Repack ==
    \/ AutoRepack \/ SaveLoose \/ SaveContents \/ SavePallet \/ EndAutoRepack
    \/ ManualRepack \/ ResetRepack

-----------------------------------------------------------------------------
(* Properties.                                                             *)

PackingTypeOK ==
    /\ rows \subseteq Row /\ datas \subseteq Data /\ serial \in Nat /\ repacks \subseteq Job
    /\ \A r, s \in rows : r.id = s.id => r = s

\* However automatic repacks break off and overlap, and are copied and reset while
\* they go on: a pallet of the auto set holds just what its weight was added up
\* from.  (Nothing of the kind holds for loose lines: they share the data of the
\* order's lines, and a reset deletes these.)
PalletsHoldTheirLoad ==
    \A r \in RowsIn("auto") : r.form = "pallet" => Contents(r.key) = r.load

=============================================================================

-------------------------- MODULE BokMappingProofs --------------------------
(***************************************************************************)
(* Theorems about BokMapping, for any number of orders, of client calls    *)
(* and of mapping runs at the same time.                                   *)
(***************************************************************************)
EXTENDS BokMapping, FiniteSetTheorems, WellFoundedInduction, TLAPS

-----------------------------------------------------------------------------
(* Type correctness.                                                       *)

\* There is a largest visual id, which is what NextVisual counts from.
Visuals == {0} \cup {bookings[i].visual : i \in 1..Len(bookings)}
LargestVisual == \E v \in Visuals : \A w \in Visuals : v >= w

\* A run has no more headers to map than its batch had.
TodoCounted ==
    \A r \in Runs : /\ IsFiniteSet(runs[r].todo)
                    /\ Cardinality(runs[r].todo) <= runs[r].count

TypeInv == TypeOK /\ LargestVisual /\ TodoCounted

\* A function on 1..n is a sequence.
LEMMA FunctionIsSequence ==
    ASSUME NEW S, NEW n \in Nat, NEW s \in [1..n -> S]
    PROVE  s \in Seq(S) /\ Len(s) = n
  OBVIOUS

\* Visual ids are numbers.
LEMMA VisualsType ==
    ASSUME bookings \in Seq(Booking)
    PROVE  /\ Len(bookings) \in Nat
           /\ \A i \in 1..Len(bookings) : bookings[i] \in Booking
           /\ Visuals \subseteq Nat
  <1>1. Len(bookings) \in Nat
    OBVIOUS
  <1>2. \A i \in 1..Len(bookings) : bookings[i] \in Booking
    OBVIOUS
  <1>3. \A i \in 1..Len(bookings) : bookings[i].visual \in Nat
    BY <1>2 DEF Booking
  <1>4. QED
    BY <1>1, <1>2, <1>3 DEF Visuals

\* The next visual id is a number.
LEMMA NextVisualType ==
    ASSUME bookings \in Seq(Booking), LargestVisual
    PROVE  NextVisual \in Nat
  <1>1. Visuals \subseteq Nat
    BY VisualsType
  <1>2. Max(Visuals) \in Visuals
    BY <1>1 DEF LargestVisual, Max
  <1>3. NextVisual = 1 + Max(Visuals)
    BY DEF NextVisual, Visuals
  <1>4. QED
    <2>1. Max(Visuals) \in Nat
      BY <1>1, <1>2
    <2>2. QED
      BY <1>3, <2>1

\* A booking added keeps the sequence typed and has its largest visual id.
LEMMA AddBooking ==
    ASSUME bookings \in Seq(Booking), LargestVisual, NEW b \in Booking,
           bookings' = Append(bookings, b)
    PROVE  bookings' \in Seq(Booking) /\ LargestVisual'
  <1>1. bookings' \in Seq(Booking)
    OBVIOUS
  <1>2. Visuals' = Visuals \cup {b.visual}
    <2>1. Len(bookings') = Len(bookings) + 1 /\ Len(bookings) \in Nat
      OBVIOUS
    <2>2. /\ \A i \in 1..Len(bookings) : bookings'[i] = bookings[i]
          /\ bookings'[Len(bookings) + 1] = b
      OBVIOUS
    <2>3. 1..Len(bookings') = 1..Len(bookings) \cup {Len(bookings) + 1}
      BY <2>1
    <2>4. {bookings'[i].visual : i \in 1..Len(bookings')}
              = {bookings[i].visual : i \in 1..Len(bookings)} \cup {b.visual}
      BY <2>2, <2>3
    <2>5. QED
      BY <2>4 DEF Visuals
  <1>3. Visuals \subseteq Nat /\ b.visual \in Nat
    BY VisualsType DEF Booking
  <1>4. PICK v \in Visuals : \A w \in Visuals : v >= w
    BY DEF LargestVisual
  <1>5. CASE v >= b.visual
    BY <1>2, <1>4, <1>5, <1>1 DEF LargestVisual
  <1>6. CASE ~(v >= b.visual)
    <2>1. \A w \in Visuals' : b.visual >= w
      BY <1>2, <1>3, <1>4, <1>6
    <2>2. QED
      BY <1>1, <1>2, <2>1 DEF LargestVisual
  <1>7. QED
    BY <1>5, <1>6

\* Putting bookings on hold keeps the visual ids.
LEMMA HoldBookings ==
    ASSUME bookings \in Seq(Booking), LargestVisual, NEW held,
           bookings' = [i \in 1..Len(bookings) |->
               IF i \in held THEN [bookings[i] EXCEPT !.status = "On Hold"] ELSE bookings[i]]
    PROVE  bookings' \in Seq(Booking) /\ LargestVisual'
  <1>1. Len(bookings) \in Nat /\ \A i \in 1..Len(bookings) : bookings[i] \in Booking
    BY VisualsType
  <1>2. \A i \in 1..Len(bookings) :
            bookings'[i] \in Booking /\ bookings'[i].visual = bookings[i].visual
    BY <1>1 DEF Booking, BookingStatuses
  <1>3. bookings' \in Seq(Booking) /\ Len(bookings') = Len(bookings)
    <2>1. bookings' \in [1..Len(bookings) -> Booking]
      BY <1>2
    <2>2. QED
      BY <1>1, <2>1, FunctionIsSequence
  <1>4. {bookings'[i].visual : i \in 1..Len(bookings')}
            = {bookings[i].visual : i \in 1..Len(bookings)}
    BY <1>2, <1>3
  <1>5. QED
    BY <1>3, <1>4 DEF LargestVisual, Visuals

\* Headers that are read by a run are counted with the batch.
LEMMA BatchCopies ==
    ASSUME boks \in [Headers -> Bok], NEW batch \in SUBSET Headers
    PROVE  /\ Copies(batch) \subseteq Read
           /\ IsFiniteSet(Copies(batch))
           /\ Cardinality(batch) \in Nat
           /\ Cardinality(Copies(batch)) <= Cardinality(batch)
  <1> DEFINE f == [h \in batch |-> [order |-> h, copy |-> boks[h].header]]
  <1>1. Copies(batch) \subseteq Read
    BY DEF Copies, Read, Bok
  <1>2. IsFiniteSet(batch)
    BY OrdersAssumption, FS_Subset
  <1>3. f \in Surjection(batch, Copies(batch))
    BY DEF Surjection, Copies
  <1>4. QED
    BY <1>1, <1>2, <1>3, FS_Surjection, FS_CardinalityType

LEMMA TypeInit == Init => TypeInv
  <1> SUFFICES ASSUME Init PROVE TypeInv
    OBVIOUS
  <1>1. TypeOK
    BY BoundsAssumption
    DEF Init, TypeOK, Bok, NoBok, Header, Codes, Gone, Run, NoRun, Call, NoCall
  <1>2. LargestVisual
    <2>1. Visuals = {0}
      BY DEF Init, Visuals
    <2>2. QED
      BY <2>1 DEF LargestVisual
  <1>3. TodoCounted
    <2>1. IsFiniteSet({}) /\ Cardinality({}) = 0
      BY FS_EmptySet
    <2>2. \A r \in Runs : runs[r].todo = {} /\ runs[r].count = 0
      BY DEF Init, NoRun
    <2>3. \A r \in Runs : IsFiniteSet(runs[r].todo) /\ Cardinality(runs[r].todo) = 0
      BY <2>1, <2>2, Zenon
    <2>4. QED
      BY <2>2, <2>3 DEF TodoCounted
  <1>4. QED
    BY <1>1, <1>2, <1>3 DEF TypeInv

-----------------------------------------------------------------------------
(* Every action keeps the types, the client calls first.                   *)

\* What a call leaves alone.
LEMMA ClientFrame ==
    ASSUME TypeInv, boks' \in [Headers -> Bok], pushed' \subseteq Headers,
           priced' \subseteq Headers, calls' \in [Clients -> Call],
           UNCHANGED <<bookings, option, runs, now, crashes>>
    PROVE  TypeInv'
  BY DEF TypeInv, TypeOK, LargestVisual, Visuals, TodoCounted

\* The code of the lines, or the header, of whatever row a call works on.
LEMMA RowTypes ==
    ASSUME boks \in [Headers -> Bok]
    PROVE  /\ \A h : \A code \in Codes :
                 [boks EXCEPT ![h].lines = code] \in [Headers -> Bok]
           /\ \A h : \A copy \in Header :
                 [boks EXCEPT ![h].header = copy] \in [Headers -> Bok]
  BY DEF Bok

\* The steps of a call on its slot.
LEMMA CallTypes ==
    ASSUME TypeInv, NEW c \in Clients
    PROVE  /\ \A pc, h, copy, visual :
                 /\ Begin(c, pc, h, copy, visual)
                 /\ [pc |-> pc, order |-> h, copy |-> copy, visual |-> visual] \in Call
                 => calls' \in [Clients -> Call]
           /\ \A pc : Goto(c, pc) /\ [calls[c] EXCEPT !.pc = pc] \in Call
                 => calls' \in [Clients -> Call]
           /\ Return(c) => calls' \in [Clients -> Call]
           /\ \A copy \in Header : SaveHeader(c, copy) => boks' \in [Headers -> Bok]
           /\ \A h, code : MarkLines(h, code) /\ code \in Codes => boks' \in [Headers -> Bok]
  <1>1. /\ calls \in [Clients -> Call]
        /\ boks \in [Headers -> Bok]
    BY DEF TypeInv, TypeOK
  <1>2. NoCall \in Call
    BY DEF NoCall, Call, NoBok, Header, Codes, Gone
  <1>3. \A copy \in Header : SaveHeader(c, copy) => boks' \in [Headers -> Bok]
    BY <1>1 DEF SaveHeader, Bok
  <1>4. \A h, code : MarkLines(h, code) /\ code \in Codes => boks' \in [Headers -> Bok]
    BY <1>1 DEF MarkLines, Bok
  <1>5. Return(c) => calls' \in [Clients -> Call]
    BY <1>1, <1>2 DEF Return
  <1>6. \A pc : Goto(c, pc) /\ [calls[c] EXCEPT !.pc = pc] \in Call => calls' \in [Clients -> Call]
    <2>1. \A pc : Goto(c, pc) => calls' = [calls EXCEPT ![c] = [calls[c] EXCEPT !.pc = pc]]
      BY <1>1 DEF Goto
    <2>2. QED
      BY <1>1, <2>1
  <1>7. \A pc, h, copy, visual :
             /\ Begin(c, pc, h, copy, visual)
             /\ [pc |-> pc, order |-> h, copy |-> copy, visual |-> visual] \in Call
             => calls' \in [Clients -> Call]
    BY <1>1 DEF Begin
  <1>8. QED
    BY <1>3, <1>4, <1>5, <1>6, <1>7

LEMMA ClientStepType ==
    ASSUME TypeInv, NEW c \in Clients, ClientStep(c)
    PROVE  TypeInv'
  <1> DEFINE q == calls[c]
  <1> USE DEF clientVars, runVars
  <1>1. /\ q \in Call /\ q.copy \in Header
        /\ calls \in [Clients -> Call]
        /\ boks \in [Headers -> Bok]
        /\ pushed \subseteq Headers /\ priced \subseteq Headers
    BY DEF TypeInv, TypeOK, Call
  <1>2. CASE AddLines(c)
    <2>1. boks' \in [Headers -> Bok]
      <3>1. 2 \in Codes
        BY DEF Codes
      <3>2. QED
        BY <1>1, <1>2, <3>1, RowTypes DEF AddLines
    <2>2. QED
      BY <1>1, <1>2, <2>1, CallTypes, ClientFrame DEF AddLines
  <1>3. CASE QuoteSave(c)
    <2>1. PICK quote \in {q.copy.quote, TRUE}, pc \in {"quote", "acceptHeader"} :
             /\ SaveHeader(c, [q.copy EXCEPT !.quote = quote])
             /\ calls' = [calls EXCEPT ![c].pc = pc, ![c].copy.quote = quote]
      BY <1>3 DEF QuoteSave
    <2>2. [q.copy EXCEPT !.quote = quote] \in Header
      BY <1>1 DEF Header
    <2>3. calls' = [calls EXCEPT ![c] = [q EXCEPT !.pc = pc,
                                                  !.copy = [q.copy EXCEPT !.quote = quote]]]
      BY <1>1, <2>1
    <2>4. calls' \in [Clients -> Call]
      BY <1>1, <2>2, <2>3 DEF Call
    <2>5. QED
      BY <1>1, <1>3, <2>1, <2>2, <2>4, CallTypes, ClientFrame DEF QuoteSave
  <1>4. CASE QuoteDone(c)
    BY <1>1, <1>4, CallTypes, ClientFrame DEF QuoteDone
  <1>5. CASE AcceptHeader(c) \/ BookSave(c) \/ BookHeader(c)
    <2>1. [q.copy EXCEPT !.code = Accepted] \in Header
      BY <1>1 DEF Header, Codes, Accepted
    <2>2. boks' \in [Headers -> Bok]
      BY <1>1, <1>5, <2>1, CallTypes DEF AcceptHeader, BookSave, BookHeader
    <2>3. \A pc \in {"acceptLines", "bookLines"} : [q EXCEPT !.pc = pc] \in Call
      BY <1>1 DEF Call
    <2>4. calls' \in [Clients -> Call]
      BY <1>5, <2>3, CallTypes DEF AcceptHeader, BookSave, BookHeader
    <2>5. QED
      BY <1>1, <1>5, <2>2, <2>4, ClientFrame DEF AcceptHeader, BookSave, BookHeader
  <1>6. CASE AcceptLines(c) \/ BookLines(c)
    <2>1. boks' \in [Headers -> Bok]
      BY <1>6, CallTypes DEF AcceptLines, BookLines, Codes, Accepted
    <2>2. [q EXCEPT !.pc = "bookHeader"] \in Call
      BY <1>1 DEF Call
    <2>3. calls' \in [Clients -> Call]
      BY <1>6, <2>2, CallTypes DEF AcceptLines, BookLines
    <2>4. QED
      BY <1>1, <1>6, <2>1, <2>3, ClientFrame DEF AcceptLines, BookLines
  <1>7. CASE SelectSave(c)
    <2>1. PICK quote \in {q.copy.quote, q.order \in priced \/ q.copy.quote} :
             SaveHeader(c, [q.copy EXCEPT !.quote = quote])
      BY <1>7 DEF SelectSave
    <2>2. quote \in BOOLEAN
      BY <1>1 DEF Header
    <2>3. [q.copy EXCEPT !.quote = quote] \in Header
      BY <1>1, <2>2 DEF Header
    <2>4. QED
      BY <1>1, <1>7, <2>1, <2>3, CallTypes, ClientFrame DEF SelectSave
  <1>8. CASE CancelLines(c) \/ CancelHeader(c)
    <2>1. boks' \in [Headers -> Bok]
      <3>1. Gone \in Codes /\ NoBok.header \in Header
        BY DEF Header, Codes, Gone, NoBok
      <3>2. QED
        BY <1>1, <1>8, <3>1, RowTypes DEF CancelLines, CancelHeader
    <2>2. [q EXCEPT !.pc = "cancelHeader"] \in Call
      BY <1>1 DEF Call
    <2>3. calls' \in [Clients -> Call]
      BY <1>8, <2>2, CallTypes DEF CancelLines, CancelHeader
    <2>4. QED
      BY <1>1, <1>8, <2>1, <2>3, ClientFrame DEF CancelLines, CancelHeader
  <1>9. CASE DupInsert(c)
    <2> DEFINE b == [header |-> NoOrder, visual |-> calls[c].visual,
                     status |-> "Ready for booking", lines |-> TRUE]
    <2>1. b \in Booking
      BY <1>1 DEF Booking, BookingStatuses, Call
    <2>2. bookings' \in Seq(Booking) /\ LargestVisual'
      BY <1>9, <2>1, AddBooking DEF DupInsert, TypeInv, TypeOK
    <2>3. QED
      BY <1>9, <2>2, CallTypes DEF DupInsert, TypeInv, TypeOK, TodoCounted
  <1>10. QED
    BY <1>2, <1>3, <1>4, <1>5, <1>6, <1>7, <1>8, <1>9 DEF ClientStep

\* The calls that begin.
LEMMA ClientBeginType ==
    ASSUME TypeInv, NEW h \in Headers, NEW c \in Clients,
           \/ Post(c, h) \/ PushQuoted(c, h) \/ BookLoad(c, h)
           \/ SelectLoad(c, h) \/ CancelLoad(c, h)
    PROVE  TypeInv'
  <1> USE DEF clientVars, runVars
  <1>1. /\ boks \in [Headers -> Bok] /\ calls \in [Clients -> Call]
        /\ boks[h].header \in Header
        /\ pushed \subseteq Headers /\ priced \subseteq Headers
    BY DEF TypeInv, TypeOK, Bok
  <1>2. \A code, lines \in Codes : /\ NewBok(code, lines) \in Bok
                                  /\ NewBok(code, lines).header \in Header
    BY DEF NewBok, Bok, Header
  <1>3. \A pc \in {"addLines", "quote", "bookSave", "selectSave", "cancelLines"} :
            \A copy \in Header :
               [pc |-> pc, order |-> h, copy |-> copy, visual |-> 0] \in Call
    BY DEF Call
  <1>4. CASE Post(c, h)
    <2>1. boks' \in [Headers -> Bok]
      BY <1>1, <1>2, <1>4 DEF Post, Codes, Gone
    <2>2. calls' \in [Clients -> Call]
      <3>1. NewBok(2, Gone).header \in Header
        BY <1>2 DEF Codes, Gone
      <3>2. Begin(c, "addLines", h, NewBok(2, Gone).header, 0)
        BY <1>4 DEF Post
      <3>3. QED
        BY <1>3, <3>1, <3>2, CallTypes
    <2>3. QED
      BY <1>1, <1>4, <2>1, <2>2, ClientFrame DEF Post
  <1>5. CASE PushQuoted(c, h)
    <2>1. boks' \in [Headers -> Bok]
      BY <1>1, <1>2, <1>5 DEF PushQuoted, Codes, Quoting
    <2>2. calls' \in [Clients -> Call]
      <3>1. NewBok(Quoting, Quoting).header \in Header
        BY <1>2 DEF Codes, Quoting
      <3>2. Begin(c, "quote", h, NewBok(Quoting, Quoting).header, 0)
        BY <1>5 DEF PushQuoted
      <3>3. QED
        BY <1>3, <3>1, <3>2, CallTypes
    <2>3. QED
      BY <1>1, <1>5, <2>1, <2>2, ClientFrame DEF PushQuoted
  <1>6. CASE BookLoad(c, h) \/ SelectLoad(c, h) \/ CancelLoad(c, h)
    <2>1. calls' \in [Clients -> Call]
      BY <1>1, <1>3, <1>6, CallTypes DEF BookLoad, SelectLoad, CancelLoad, ReadHeader
    <2>2. QED
      BY <1>1, <1>6, <2>1, ClientFrame DEF BookLoad, SelectLoad, CancelLoad
  <1>7. QED
    BY <1>4, <1>5, <1>6

LEMMA DupLoadType ==
    ASSUME TypeInv, NEW c \in Clients, DupLoad(c)
    PROVE  TypeInv'
  <1>1. NextVisual \in Nat
    BY NextVisualType DEF TypeInv, TypeOK
  <1>2. [pc |-> "dupInsert", order |-> NoOrder, copy |-> NoBok.header,
         visual |-> NextVisual] \in Call
    BY <1>1 DEF Call, NoBok, Header, Codes, Gone
  <1>3. calls' \in [Clients -> Call]
    BY <1>2, CallTypes DEF DupLoad
  <1>4. QED
    BY <1>3, ClientFrame DEF DupLoad, runVars, TypeInv, TypeOK

-----------------------------------------------------------------------------
(* The mapping.                                                            *)

\* What a run changes: its own slot, the option, and what of the time and
\* crashes stays a number.
LEMMA RunFrame ==
    ASSUME TypeInv, NEW r \in Runs, NEW run \in Run,
           IsFiniteSet(run.todo), Cardinality(run.todo) <= run.count,
           runs' = [runs EXCEPT ![r] = run],
           option' \in [running : BOOLEAN, end : 0..(Day - 1)],
           crashes' \in Nat,
           UNCHANGED <<clientVars, bookings, now>>
    PROVE  TypeInv'
  <1>1. TypeOK'
    BY DEF TypeInv, TypeOK, clientVars
  <1>2. LargestVisual'
    BY DEF TypeInv, LargestVisual, Visuals
  <1>3. TodoCounted'
    BY DEF TypeInv, TypeOK, TodoCounted
  <1>4. QED
    BY <1>1, <1>2, <1>3 DEF TypeInv

\* The empty slot of a run.
LEMMA NoRunType ==
    /\ NoRun \in Run
    /\ IsFiniteSet(NoRun.todo) /\ Cardinality(NoRun.todo) <= NoRun.count
  <1>1. IsFiniteSet({}) /\ Cardinality({}) = 0
    BY FS_EmptySet
  <1>2. NoRun \in Run /\ NoRun.todo = {} /\ NoRun.count = 0
    BY BoundsAssumption DEF NoRun, Run
  <1>3. Cardinality(NoRun.todo) = 0
    BY <1>1, <1>2, Zenon
  <1>4. IsFiniteSet(NoRun.todo)
    BY <1>1, <1>2, Zenon
  <1>5. QED
    BY <1>2, <1>3, <1>4

\* The booking made of a header that is still to be mapped.
LEMMA BookingOfType ==
    ASSUME TypeInv, NEW r \in Runs, NEW q \in runs[r].todo
    PROVE  BookingOf(r, q) \in Booking
  <1>1. /\ runs[r] \in Run /\ q \in Read
        /\ Cardinality(runs[r].todo) <= runs[r].count
        /\ IsFiniteSet(runs[r].todo)
    BY DEF TypeInv, TypeOK, TodoCounted, Run
  <1>2. /\ runs[r].start \in Nat /\ runs[r].count \in Nat
        /\ Cardinality(runs[r].todo) \in Nat
    BY <1>1, FS_CardinalityType DEF Run
  <1>3. runs[r].start + runs[r].count - Cardinality(runs[r].todo) \in Nat
    BY <1>1, <1>2
  <1>4. StatusOf(q.order, q.copy.code) \in BookingStatuses
    BY DEF StatusOf, BookingStatuses
  <1>5. q.order \in Headers
    BY <1>1 DEF Read
  <1>6. QED
    BY <1>3, <1>4, <1>5 DEF BookingOf, Booking

LEMMA MapBokType ==
    ASSUME TypeInv, NEW r \in Runs, NEW q \in runs[r].todo, MapBok(r, q)
    PROVE  TypeInv'
  <1>1. /\ runs \in [Runs -> Run] /\ runs[r] \in Run /\ q \in Read
        /\ boks \in [Headers -> Bok] /\ bookings \in Seq(Booking)
        /\ IsFiniteSet(runs[r].todo) /\ Cardinality(runs[r].todo) <= runs[r].count
    BY DEF TypeInv, TypeOK, TodoCounted, Run
  <1> DEFINE run == [runs[r] EXCEPT !.todo = @ \ {q}]
  <1>2. run \in Run /\ runs' = [runs EXCEPT ![r] = run]
    BY <1>1 DEF MapBok, Run
  <1>3. IsFiniteSet(run.todo) /\ Cardinality(run.todo) <= run.count
    <2>1. run.todo = runs[r].todo \ {q} /\ run.count = runs[r].count /\ run.count \in Nat
      BY <1>1 DEF Run
    <2>2. /\ IsFiniteSet(runs[r].todo \ {q})
          /\ Cardinality(runs[r].todo \ {q}) = Cardinality(runs[r].todo) - 1
          /\ Cardinality(runs[r].todo) \in Nat
      BY <1>1, FS_RemoveElement, FS_CardinalityType
    <2>3. QED
      BY <1>1, <2>1, <2>2
  <1>4. TodoCounted'
    BY <1>1, <1>2, <1>3 DEF TodoCounted, TypeInv
  <1>5. boks' \in [Headers -> Bok]
    <2>1. [q.copy EXCEPT !.code = Mapped] \in Header /\ Mapped \in Codes
      BY <1>1 DEF Read, Header, Codes, Mapped
    <2>2. QED
      BY <1>1, <2>1 DEF MapBok, Bok
  <1>6. bookings' \in Seq(Booking) /\ LargestVisual'
    <2>1. CASE q.order \in Poison
      BY <1>1, <2>1 DEF MapBok, TypeInv, LargestVisual, Visuals
    <2>2. CASE q.order \notin Poison
      BY <1>1, <2>2, BookingOfType, AddBooking DEF MapBok, TypeInv
    <2>3. QED
      BY <2>1, <2>2
  <1>7. QED
    BY <1>2, <1>4, <1>5, <1>6 DEF MapBok, TypeInv, TypeOK

LEMMA RunType ==
    ASSUME TypeInv, NEW r \in Runs, ReadOption(r) \/ RunStep(r) \/ Crash(r)
    PROVE  TypeInv'
  <1>1. /\ runs \in [Runs -> Run] /\ runs[r] \in Run
        /\ option \in [running : BOOLEAN, end : 0..(Day - 1)]
        /\ now \in 0..(Day - 1) /\ crashes \in Nat
        /\ boks \in [Headers -> Bok] /\ bookings \in Seq(Booking)
        /\ IsFiniteSet(runs[r].todo) /\ Cardinality(runs[r].todo) <= runs[r].count
    BY DEF TypeInv, TypeOK, TodoCounted
  <1> USE DEF clientVars
  <1>2. CASE ReadOption(r)
    <2> DEFINE run == [NoRun EXCEPT !.pc = "claim", !.end = option.end]
    <2>1. run \in Run /\ run.todo = NoRun.todo /\ run.count = NoRun.count
      BY <1>1 DEF NoRun, Run
    <2>2. IsFiniteSet(run.todo) /\ Cardinality(run.todo) <= run.count
      BY <2>1, NoRunType
    <2>3. QED
      BY <1>1, <1>2, <2>1, <2>2, RunFrame DEF ReadOption
  <1>3. CASE Claim(r)
    <2> DEFINE run == [runs[r] EXCEPT !.pc = "scan"]
    <2>1. run \in Run /\ run.todo = runs[r].todo /\ run.count = runs[r].count
      BY <1>1 DEF Run
    <2>2. runs' = [runs EXCEPT ![r] = run]
      BY <1>1, <1>3 DEF Claim
    <2>3. option' \in [running : BOOLEAN, end : 0..(Day - 1)]
      BY <1>3, <1>1 DEF Claim, Run
    <2>4. QED
      BY <1>1, <1>3, <2>1, <2>2, <2>3, RunFrame DEF Claim
  <1>4. CASE Scan(r)
    <2>1. PICK batch \in SUBSET Ready :
             runs' = [runs EXCEPT ![r] =
                 [@ EXCEPT !.pc = "map", !.start = NextVisual, !.count = Cardinality(batch),
                           !.todo = Copies(batch)]]
      BY <1>4 DEF Scan
    <2>2. batch \in SUBSET Headers
      BY DEF Ready
    <2>3. /\ Copies(batch) \subseteq Read /\ IsFiniteSet(Copies(batch))
          /\ Cardinality(batch) \in Nat
          /\ Cardinality(Copies(batch)) <= Cardinality(batch)
      BY <1>1, <2>2, BatchCopies
    <2>4. NextVisual \in Nat
      BY NextVisualType DEF TypeInv, TypeOK
    <2> DEFINE run == [runs[r] EXCEPT !.pc = "map", !.start = NextVisual,
                                      !.count = Cardinality(batch), !.todo = Copies(batch)]
    <2>5. /\ run \in Run /\ runs' = [runs EXCEPT ![r] = run]
          /\ run.todo = Copies(batch) /\ run.count = Cardinality(batch)
      BY <1>1, <2>1, <2>3, <2>4 DEF Run
    <2>6. QED
      BY <1>1, <1>4, <2>3, <2>5, RunFrame DEF Scan
  <1>5. CASE Mapping(r)
    BY <1>5, MapBokType DEF Mapping
  <1>6. CASE BatchDone(r)
    <2> DEFINE run == [runs[r] EXCEPT !.pc = "hold"]
    <2>1. run \in Run /\ run.todo = runs[r].todo /\ run.count = runs[r].count
      BY <1>1 DEF Run
    <2>2. runs' = [runs EXCEPT ![r] = run]
      BY <1>1, <1>6 DEF BatchDone
    <2>3. QED
      BY <1>1, <1>6, <2>1, <2>2, RunFrame DEF BatchDone
  <1>7. CASE Hold(r)
    <2> DEFINE run == [runs[r] EXCEPT !.pc = "release"]
               held == Held(runs[r].start, runs[r].start + runs[r].count - 1)
    <2>1. run \in Run /\ run.todo = runs[r].todo /\ run.count = runs[r].count
      BY <1>1 DEF Run
    <2>2. runs' = [runs EXCEPT ![r] = run]
      BY <1>1, <1>7 DEF Hold
    <2>3. TodoCounted'
      BY <1>1, <2>1, <2>2 DEF TodoCounted, TypeInv
    <2>4. bookings' = [i \in 1..Len(bookings) |->
             IF i \in held THEN [bookings[i] EXCEPT !.status = "On Hold"] ELSE bookings[i]]
      BY <1>7 DEF Hold
    <2> HIDE DEF held
    <2>5. bookings' \in Seq(Booking) /\ LargestVisual'
      BY <1>1, <2>4, HoldBookings DEF TypeInv
    <2> HIDE DEF run
    <2>6. QED
      BY <1>1, <1>7, <2>1, <2>2, <2>3, <2>5 DEF Hold, TypeInv, TypeOK
  <1>8. CASE Release(r)
    <2>1. option' \in [running : BOOLEAN, end : 0..(Day - 1)]
      BY <1>1, <1>8 DEF Release
    <2>2. QED
      BY <1>1, <1>8, <2>1, NoRunType, RunFrame DEF Release
  <1>9. CASE Crash(r)
    <2>1. /\ runs' = [runs EXCEPT ![r] = NoRun]
          /\ crashes' = crashes + 1
          /\ UNCHANGED <<clientVars, bookings, option, now>>
      BY <1>9 DEF Crash
    <2>2. crashes' \in Nat /\ option' \in [running : BOOLEAN, end : 0..(Day - 1)]
      BY <1>1, <2>1
    <2>3. QED
      BY <2>1, <2>2, NoRunType, RunFrame
  <1>10. QED
    BY <1>2, <1>3, <1>4, <1>5, <1>6, <1>7, <1>8, <1>9 DEF RunStep

LEMMA TypeStep == TypeInv /\ [Next]_vars => TypeInv'
  <1> SUFFICES ASSUME TypeInv, [Next]_vars PROVE TypeInv'
    OBVIOUS
  <1>1. CASE \E h \in Headers : Push(h)
    <2>1. PICK h \in Headers : Push(h)
      BY <1>1
    <2>2. boks' \in [Headers -> Bok]
      BY <2>1, KindsAssumption DEF Push, TypeInv, TypeOK, NewBok, Bok, Header, Codes
    <2>3. QED
      BY <2>1, <2>2, ClientFrame DEF Push, runVars, TypeInv, TypeOK
  <1>2. CASE \E c \in Clients, h \in Headers :
                Post(c, h) \/ PushQuoted(c, h) \/ BookLoad(c, h) \/ SelectLoad(c, h)
                \/ CancelLoad(c, h)
    BY <1>2, ClientBeginType
  <1>3. CASE \E c \in Clients : DupLoad(c)
    BY <1>3, DupLoadType
  <1>4. CASE \E c \in Clients : ClientStep(c)
    BY <1>4, ClientStepType
  <1>5. CASE \E r \in Runs : ReadOption(r) \/ RunStep(r) \/ Crash(r)
    BY <1>5, RunType
  <1>6. CASE Tick
    <2>1. now' \in 0..(Day - 1)
      BY <1>6, BoundsAssumption DEF Tick, TypeInv, TypeOK
    <2>2. QED
      BY <1>6, <2>1
      DEF Tick, clientVars, runVars, TypeInv, TypeOK, LargestVisual, Visuals, TodoCounted
  <1>7. CASE UNCHANGED vars
    BY <1>7 DEF vars, TypeInv, TypeOK, LargestVisual, Visuals, TodoCounted
  <1>8. QED
    BY <1>1, <1>2, <1>3, <1>4, <1>5, <1>6, <1>7 DEF Next

\* Every reachable state is well typed: codes, copies of headers, calls and
\* runs of the mapping, and the visual ids that bookings get.
THEOREM TypeCorrect == Spec => []TypeOK
  <1>1. TypeInv => TypeOK
    BY DEF TypeInv
  <1>2. QED
    BY <1>1, TypeInit, TypeStep, PTL DEF Spec

-----------------------------------------------------------------------------
(* An order that is marked as mapped has its booking.  A call that has     *)
(* read the mark carries it in its copy, so the invariant speaks of the    *)
(* copies too.  No step takes a booking away (BookedStays), and a mark     *)
(* comes from a mark, read or kept, or with a new booking (MarkShape).     *)

MarkInv ==
    /\ TypeInv
    /\ MappedIsBooked
    /\ \A c \in Clients : calls[c].copy.code = Mapped =>
           calls[c].order \in Headers /\ BookingsOf(calls[c].order) # {}

\* Where the marks of a step come from.
MarkShape ==
    /\ \A h \in Headers : Code(h)' = Mapped =>
           \/ Code(h) = Mapped
           \/ BookingsOf(h)' # {}
           \/ \E c \in Clients : calls[c].order = h /\ calls[c].copy.code = Mapped
    /\ \A c \in Clients : calls'[c].copy.code = Mapped =>
           \/ calls[c].copy.code = Mapped /\ calls'[c].order = calls[c].order
           \/ calls'[c].order \in Headers /\ Code(calls'[c].order) = Mapped

\* A booking added is found, and those before it still are.
LEMMA AppendFinds ==
    ASSUME bookings \in Seq(Booking), NEW b \in Booking, bookings' = Append(bookings, b)
    PROVE  /\ BookingsOf(b.header)' # {}
           /\ \A h : BookingsOf(h) # {} => BookingsOf(h)' # {}
  <1>1. Len(bookings) \in Nat /\ Len(bookings') = Len(bookings) + 1
    OBVIOUS
  <1>2. /\ \A i \in 1..Len(bookings) : bookings'[i] = bookings[i]
        /\ bookings'[Len(bookings) + 1] = b
    OBVIOUS
  <1>3. Len(bookings) + 1 \in 1..Len(bookings') /\ 1..Len(bookings) \subseteq 1..Len(bookings')
    BY <1>1
  <1>4. QED
    BY <1>2, <1>3 DEF BookingsOf

\* No step takes the booking of an order away.
LEMMA BookedStays ==
    ASSUME TypeInv, [Next]_vars
    PROVE  \A h : BookingsOf(h) # {} => BookingsOf(h)' # {}
  <1>1. bookings \in Seq(Booking)
    BY DEF TypeInv, TypeOK
  <1>2. CASE UNCHANGED bookings
    BY <1>2 DEF BookingsOf
  <1>3. CASE \E c \in Clients : DupInsert(c)
    <2>1. PICK c \in Clients : DupInsert(c)
      BY <1>3
    <2>2. calls[c].visual \in Nat
      BY DEF TypeInv, TypeOK, Call
    <2> DEFINE b == [header |-> NoOrder, visual |-> calls[c].visual,
                     status |-> "Ready for booking", lines |-> TRUE]
    <2>3. b \in Booking
      BY <2>2 DEF Booking, BookingStatuses
    <2>4. QED
      BY <1>1, <2>1, <2>3, AppendFinds DEF DupInsert
  <1>4. CASE \E r \in Runs : Mapping(r)
    <2>1. PICK r \in Runs : Mapping(r)
      BY <1>4
    <2>2. PICK q \in runs[r].todo : MapBok(r, q)
      BY <2>1 DEF Mapping
    <2>3. CASE q.order \in Poison
      BY <2>2, <2>3 DEF MapBok, BookingsOf
    <2>4. CASE q.order \notin Poison
      BY <1>1, <2>2, <2>4, BookingOfType, AppendFinds DEF MapBok
    <2>5. QED
      BY <2>3, <2>4
  <1>5. CASE \E r \in Runs : Hold(r)
    <2>1. PICK r \in Runs : Hold(r)
      BY <1>5
    <2> DEFINE held == Held(runs[r].start, runs[r].start + runs[r].count - 1)
    <2>2. bookings' = [i \in 1..Len(bookings) |->
             IF i \in held THEN [bookings[i] EXCEPT !.status = "On Hold"] ELSE bookings[i]]
      BY <2>1 DEF Hold
    <2> HIDE DEF held
    <2>3. /\ Len(bookings) \in Nat
          /\ \A i \in 1..Len(bookings) : bookings[i] \in Booking
      BY <1>1, VisualsType
    <2>4. \A i \in 1..Len(bookings) :
              bookings'[i] \in Booking /\ bookings'[i].header = bookings[i].header
      BY <2>2, <2>3 DEF Booking, BookingStatuses
    <2>5. bookings' \in [1..Len(bookings) -> Booking]
      BY <2>2, <2>4
    <2>6. Len(bookings') = Len(bookings)
      BY <2>3, <2>5, FunctionIsSequence
    <2>7. QED
      BY <2>4, <2>6 DEF BookingsOf
  <1>6. QED
    <2>1. CASE UNCHANGED vars
      BY <1>2, <2>1 DEF vars
    <2>2. CASE \E c \in Clients : ClientStep(c)
      BY <1>2, <1>3, <2>2
      DEF ClientStep, AddLines, QuoteSave, QuoteDone, AcceptHeader, AcceptLines, BookSave,
          BookLines, BookHeader, SelectSave, CancelLines, CancelHeader
    <2>3. CASE \E r \in Runs : ReadOption(r) \/ RunStep(r) \/ Crash(r)
      BY <1>2, <1>4, <1>5, <2>3
      DEF ReadOption, RunStep, Claim, Scan, BatchDone, Release, Crash
    <2>4. CASE \/ \E h \in Headers : Push(h)
               \/ \E c \in Clients, h \in Headers :
                     Post(c, h) \/ PushQuoted(c, h) \/ BookLoad(c, h) \/ SelectLoad(c, h)
                     \/ CancelLoad(c, h)
               \/ \E c \in Clients : DupLoad(c)
               \/ Tick
      BY <1>2, <2>4
      DEF Push, Post, PushQuoted, BookLoad, SelectLoad, CancelLoad, DupLoad, Tick, clientVars
    <2>5. QED
      BY <2>1, <2>2, <2>3, <2>4 DEF Next

\* A call that leaves the headers alone, or saves a header with a code that it
\* has read or that is not the mark, and keeps or forgets what it has read.
LEMMA CallShape ==
    ASSUME TypeInv, NEW c \in Clients, NEW q \in Call,
           q.copy.code = Mapped =>
               calls[c].copy.code = Mapped /\ q.order = calls[c].order,
           calls' = [calls EXCEPT ![c] = q],
           \A h \in Headers : Code(h)' = Mapped =>
               \/ Code(h) = Mapped
               \/ calls[c].order = h /\ calls[c].copy.code = Mapped
    PROVE  MarkShape
  <1>1. calls \in [Clients -> Call]
    BY DEF TypeInv, TypeOK
  <1>2. \A d \in Clients : calls'[d] = IF d = c THEN q ELSE calls[d]
    BY <1>1
  <1>3. QED
    BY <1>2 DEF MarkShape

\* Saving a copy: the code of the header is then the copy's.
LEMMA SaveCode ==
    ASSUME TypeInv, NEW c \in Clients, NEW copy \in Header, SaveHeader(c, copy)
    PROVE  \A h \in Headers :
               Code(h)' = IF h = calls[c].order THEN copy.code ELSE Code(h)
  BY DEF TypeInv, TypeOK, Bok, SaveHeader, Code

LEMMA ClientMarks ==
    ASSUME TypeInv, NEW c \in Clients, ClientStep(c)
    PROVE  MarkShape
  <1> DEFINE q == calls[c]
  <1>1. /\ q \in Call /\ q.copy \in Header
        /\ calls \in [Clients -> Call] /\ boks \in [Headers -> Bok]
    BY DEF TypeInv, TypeOK, Call
  <1>2. NoCall \in Call /\ NoCall.copy.code # Mapped /\ Accepted # Mapped
    BY DEF NoCall, Call, NoBok, Header, Codes, Gone, Mapped, Accepted
  <1>3. \A pc : calls' = [calls EXCEPT ![c].pc = pc] =>
           /\ calls' = [calls EXCEPT ![c] = [q EXCEPT !.pc = pc]]
           /\ [q EXCEPT !.pc = pc].copy = q.copy
           /\ [q EXCEPT !.pc = pc].order = q.order
    BY <1>1 DEF Call
  <1>4. \A pc \in {"acceptLines", "bookLines", "bookHeader", "cancelHeader"} :
           [q EXCEPT !.pc = pc] \in Call
    BY <1>1 DEF Call
  <1>5. CASE AddLines(c)
    <2>1. \A h \in Headers : Code(h)' = Code(h)
      BY <1>1, <1>5 DEF AddLines, Code, Bok
    <2>2. QED
      BY <1>2, <1>5, <2>1, CallShape DEF AddLines, Return
  <1>6. CASE QuoteSave(c)
    <2>1. PICK quote \in {q.copy.quote, TRUE}, pc \in {"quote", "acceptHeader"} :
             /\ SaveHeader(c, [q.copy EXCEPT !.quote = quote])
             /\ calls' = [calls EXCEPT ![c].pc = pc, ![c].copy.quote = quote]
      BY <1>6 DEF QuoteSave
    <2> DEFINE copy == [q.copy EXCEPT !.quote = quote]
               call == [q EXCEPT !.pc = pc, !.copy = copy]
    <2>2. copy \in Header /\ copy.code = q.copy.code
      BY <1>1 DEF Header
    <2>3. calls' = [calls EXCEPT ![c] = call]
      BY <1>1, <2>1
    <2>4. call \in Call /\ call.copy = copy /\ call.order = q.order
      BY <1>1, <2>2 DEF Call
    <2>5. \A h \in Headers : Code(h)' = IF h = q.order THEN copy.code ELSE Code(h)
      BY <2>1, <2>2, SaveCode
    <2> HIDE DEF call, copy
    <2>6. QED
      BY <2>2, <2>3, <2>4, <2>5, CallShape
  <1>7. CASE QuoteDone(c)
    BY <1>2, <1>7, CallShape DEF QuoteDone, Return, Code
  <1>8. CASE AcceptHeader(c) \/ BookHeader(c)
    <2> DEFINE copy == [q.copy EXCEPT !.code = Accepted]
    <2>1. copy \in Header /\ copy.code = Accepted
      BY <1>1 DEF Header, Codes, Accepted
    <2>2. \A h \in Headers : Code(h)' = IF h = q.order THEN Accepted ELSE Code(h)
      BY <1>8, <2>1, SaveCode DEF AcceptHeader, BookHeader
    <2>3. CASE AcceptHeader(c)
      BY <1>2, <1>3, <1>4, <2>2, <2>3, CallShape DEF AcceptHeader, Goto
    <2>4. CASE BookHeader(c)
      BY <1>2, <2>2, <2>4, CallShape DEF BookHeader, Return
    <2>5. QED
      BY <1>8, <2>3, <2>4
  <1>9. CASE BookSave(c)
    <2>1. \A h \in Headers : Code(h)' = IF h = q.order THEN q.copy.code ELSE Code(h)
      BY <1>1, <1>9, SaveCode DEF BookSave
    <2>2. QED
      BY <1>3, <1>4, <1>9, <2>1, CallShape DEF BookSave, Goto
  <1>10. CASE AcceptLines(c) \/ BookLines(c)
    <2>1. \A h \in Headers : Code(h)' = Code(h)
      BY <1>1, <1>10 DEF AcceptLines, BookLines, MarkLines, Code, Bok
    <2>2. CASE AcceptLines(c)
      BY <1>2, <2>1, <2>2, CallShape DEF AcceptLines, Return
    <2>3. CASE BookLines(c)
      BY <1>3, <1>4, <2>1, <2>3, CallShape DEF BookLines, Goto
    <2>4. QED
      BY <1>10, <2>2, <2>3
  <1>11. CASE SelectSave(c)
    <2>1. PICK quote \in {q.copy.quote, q.order \in priced \/ q.copy.quote} :
             SaveHeader(c, [q.copy EXCEPT !.quote = quote])
      BY <1>11 DEF SelectSave
    <2>2. quote \in BOOLEAN
      BY <1>1 DEF Header
    <2> DEFINE copy == [q.copy EXCEPT !.quote = quote]
    <2>3. copy \in Header /\ copy.code = q.copy.code
      BY <1>1, <2>2 DEF Header
    <2>4. \A h \in Headers : Code(h)' = IF h = q.order THEN copy.code ELSE Code(h)
      BY <2>1, <2>3, SaveCode
    <2> HIDE DEF copy
    <2>5. QED
      BY <1>2, <1>11, <2>3, <2>4, CallShape DEF SelectSave, Return
  <1>12. CASE CancelLines(c)
    <2>1. \A h \in Headers : Code(h)' = Code(h)
      BY <1>1, <1>12 DEF CancelLines, Code, Bok
    <2>2. QED
      BY <1>3, <1>4, <1>12, <2>1, CallShape DEF CancelLines, Goto
  <1>13. CASE CancelHeader(c)
    <2>1. \A h \in Headers : Code(h)' = Mapped => Code(h) = Mapped
      BY <1>1, <1>13 DEF CancelHeader, Code, Bok, NoBok, Gone, Mapped
    <2>2. QED
      BY <1>2, <1>13, <2>1, CallShape DEF CancelHeader, Return
  <1>14. CASE DupInsert(c)
    BY <1>2, <1>14, CallShape DEF DupInsert, Return, Code
  <1>15. QED
    BY <1>5, <1>6, <1>7, <1>8, <1>9, <1>10, <1>11, <1>12, <1>13, <1>14 DEF ClientStep

\* A call that begins has read a header as it is, or pushes a new one.
LEMMA BeginMarks ==
    ASSUME TypeInv, NEW c \in Clients, NEW h \in Headers,
           \/ Post(c, h) \/ PushQuoted(c, h) \/ BookLoad(c, h)
           \/ SelectLoad(c, h) \/ CancelLoad(c, h)
    PROVE  MarkShape
  <1>1. calls \in [Clients -> Call] /\ boks \in [Headers -> Bok]
    BY DEF TypeInv, TypeOK
  <1>2. \A pc, copy : Begin(c, pc, h, copy, 0) =>
            /\ \A d \in Clients : d # c => calls'[d] = calls[d]
            /\ calls'[c].order = h /\ calls'[c].copy = copy
    BY <1>1 DEF Begin
  <1>3. \A code, lines : NewBok(code, lines).header.code = code
    BY DEF NewBok
  <1>4. ASSUME NEW code, NEW lines, NEW pc, code # Mapped,
               boks' = [boks EXCEPT ![h] = NewBok(code, lines)],
               Begin(c, pc, h, NewBok(code, lines).header, 0)
        PROVE  MarkShape
    <2>1. \A g \in Headers : Code(g)' = IF g = h THEN code ELSE Code(g)
      BY <1>1, <1>3, <1>4 DEF Code
    <2>2. calls'[c].copy.code # Mapped
      BY <1>2, <1>3, <1>4
    <2>3. \A d \in Clients : d # c => calls'[d] = calls[d]
      BY <1>2, <1>4
    <2>4. QED
      BY <1>4, <2>1, <2>2, <2>3 DEF MarkShape
  <1>5. CASE Post(c, h)
    <2>1. 2 # Mapped
      BY DEF Mapped
    <2>2. /\ boks' = [boks EXCEPT ![h] = NewBok(2, Gone)]
          /\ Begin(c, "addLines", h, NewBok(2, Gone).header, 0)
      BY <1>5 DEF Post
    <2>3. QED
      BY <1>4, <2>1, <2>2
  <1>6. CASE PushQuoted(c, h)
    <2>1. Quoting # Mapped
      BY DEF Mapped, Quoting
    <2>2. /\ boks' = [boks EXCEPT ![h] = NewBok(Quoting, Quoting)]
          /\ Begin(c, "quote", h, NewBok(Quoting, Quoting).header, 0)
      BY <1>6 DEF PushQuoted
    <2>3. QED
      BY <1>4, <2>1, <2>2
  <1>7. CASE BookLoad(c, h) \/ SelectLoad(c, h) \/ CancelLoad(c, h)
    <2>1. PICK pc : Begin(c, pc, h, boks[h].header, 0)
      BY <1>7 DEF BookLoad, SelectLoad, CancelLoad, ReadHeader
    <2>2. boks' = boks
      BY <1>7 DEF BookLoad, SelectLoad, CancelLoad
    <2>3. calls'[c].order = h /\ calls'[c].copy.code = Code(h)
      BY <1>2, <2>1 DEF Code
    <2>4. \A d \in Clients : d # c => calls'[d] = calls[d]
      BY <1>2, <2>1
    <2>5. \A g \in Headers : Code(g)' = Code(g)
      BY <2>2 DEF Code
    <2>6. QED
      BY <2>3, <2>4, <2>5 DEF MarkShape
  <1>8. QED
    BY <1>5, <1>6, <1>7

\* The mapping marks an order in the transaction that makes its booking.
LEMMA MapBokMarks ==
    ASSUME TypeInv, NEW r \in Runs, NEW q \in runs[r].todo, MapBok(r, q)
    PROVE  MarkShape
  <1>1. /\ calls' = calls /\ boks \in [Headers -> Bok] /\ bookings \in Seq(Booking)
    BY DEF MapBok, TypeInv, TypeOK
  <1>2. CASE q.order \in Poison
    BY <1>1, <1>2 DEF MapBok, MarkShape, Code
  <1>3. CASE q.order \notin Poison
    <2>1. BookingOf(r, q).header = q.order
      BY DEF BookingOf
    <2>2. BookingsOf(q.order)' # {}
      BY <1>1, <1>3, <2>1, BookingOfType, AppendFinds DEF MapBok
    <2>3. \A h \in Headers \ {q.order} : Code(h)' = Code(h)
      BY <1>1, <1>3 DEF MapBok, Code
    <2>4. QED
      BY <1>1, <2>2, <2>3 DEF MarkShape
  <1>4. QED
    BY <1>2, <1>3

LEMMA Marks == TypeInv /\ [Next]_vars => MarkShape
  <1> SUFFICES ASSUME TypeInv, [Next]_vars PROVE MarkShape
    OBVIOUS
  <1>1. CASE UNCHANGED <<boks, calls>>
    BY <1>1 DEF MarkShape, Code
  <1>2. CASE \E h \in Headers : Push(h)
    <2>1. PICK h \in Headers : Push(h)
      BY <1>2
    <2>2. PICK code \in PushCodes : boks' = [boks EXCEPT ![h] = NewBok(code, code)]
      BY <2>1 DEF Push
    <2>3. code # Mapped
      BY KindsAssumption DEF Mapped
    <2>4. \A g \in Headers : Code(g)' = IF g = h THEN code ELSE Code(g)
      BY <2>2 DEF Code, NewBok, TypeInv, TypeOK
    <2>5. QED
      BY <2>1, <2>3, <2>4 DEF Push, MarkShape
  <1>3. CASE \E c \in Clients : DupLoad(c)
    <2>1. PICK c \in Clients : DupLoad(c)
      BY <1>3
    <2>2. [pc |-> "dupInsert", order |-> NoOrder, copy |-> NoBok.header,
           visual |-> NextVisual].copy.code # Mapped
      BY DEF NoBok, Gone, Mapped
    <2>3. \A d \in Clients : d # c => calls'[d] = calls[d]
      BY <2>1 DEF DupLoad, Begin, TypeInv, TypeOK
    <2>4. calls'[c].copy.code # Mapped
      BY <2>1, <2>2 DEF DupLoad, Begin, TypeInv, TypeOK
    <2>5. QED
      BY <2>1, <2>3, <2>4 DEF DupLoad, MarkShape, Code
  <1>4. CASE \E r \in Runs : Mapping(r)
    BY <1>4, MapBokMarks DEF Mapping
  <1>5. CASE \E c \in Clients : ClientStep(c)
    BY <1>5, ClientMarks
  <1>6. CASE \E c \in Clients, h \in Headers :
                Post(c, h) \/ PushQuoted(c, h) \/ BookLoad(c, h) \/ SelectLoad(c, h)
                \/ CancelLoad(c, h)
    BY <1>6, BeginMarks
  <1>7. CASE UNCHANGED vars \/ Tick
    BY <1>1, <1>7 DEF vars, Tick, clientVars
  <1>8. CASE \E r \in Runs : ReadOption(r) \/ RunStep(r) \/ Crash(r)
    BY <1>1, <1>4, <1>8
    DEF RunStep, ReadOption, Claim, Scan, BatchDone, Hold, Release, Crash, clientVars
  <1>9. QED
    BY <1>2, <1>3, <1>5, <1>6, <1>7, <1>8 DEF Next

LEMMA MarkStep == MarkInv /\ [Next]_vars => MarkInv'
  <1> SUFFICES ASSUME MarkInv, [Next]_vars PROVE MarkInv'
    OBVIOUS
  <1>1. TypeInv /\ TypeInv' /\ MarkShape
    BY TypeStep, Marks DEF MarkInv
  <1>2. \A h : BookingsOf(h) # {} => BookingsOf(h)' # {}
    BY <1>1, BookedStays
  <1>3. MappedIsBooked'
    BY <1>1, <1>2 DEF MarkInv, MappedIsBooked, MarkShape
  <1>4. ASSUME NEW c \in Clients, calls'[c].copy.code = Mapped
        PROVE  (calls[c].order \in Headers /\ BookingsOf(calls[c].order) # {})'
    <2> DEFINE h == calls'[c].order
    <2>1. h \in Headers /\ BookingsOf(h) # {}
      BY <1>1, <1>4 DEF MarkShape, MarkInv, MappedIsBooked
    <2>2. QED
      BY <1>2, <2>1 DEF BookingsOf
  <1>5. QED
    BY <1>1, <1>3, <1>4 DEF MarkInv

\* An order that is marked as mapped has its booking, for any number of runs
\* that overlap or die and of client calls that save stale copies.
THEOREM MappedAreBooked == Spec => []MappedIsBooked
  <1>1. Init => MarkInv
    <2> SUFFICES ASSUME Init PROVE MarkInv
      OBVIOUS
    <2>1. TypeInv
      BY TypeInit
    <2>2. \A h \in Headers : Code(h) # Mapped
      BY DEF Init, Code, NoBok, Gone, Mapped
    <2>3. \A c \in Clients : calls[c].copy.code # Mapped
      BY DEF Init, NoCall, NoBok, Gone, Mapped
    <2>4. QED
      BY <2>1, <2>2, <2>3 DEF MarkInv, MappedIsBooked
  <1>2. MarkInv => MappedIsBooked
    BY DEF MarkInv
  <1>3. QED
    BY <1>1, <1>2, MarkStep, PTL DEF Spec

-----------------------------------------------------------------------------
(* One run at a time gives distinct visual ids: whatever has become of the *)
(* headers before, the id of the next one is larger than all there are.    *)

NextOf(r) == runs[r].start + runs[r].count - Cardinality(runs[r].todo)

Below(n) == \A i \in 1..Len(bookings) : bookings[i].visual < n

NoDuplicates == \A c \in Clients : calls[c].pc # "dupInsert"

VisualInv ==
    /\ TypeInv
    /\ NoDuplicates
    /\ VisualsDistinct
    /\ \A r \in Runs : runs[r].pc = "map" => Below(NextOf(r))

\* The next visual id is larger than all others.
LEMMA NextVisualLarge ==
    ASSUME bookings \in Seq(Booking), LargestVisual
    PROVE  Below(NextVisual)
  <1>1. Visuals \subseteq Nat
    BY VisualsType
  <1>2. Max(Visuals) \in Visuals /\ \A w \in Visuals : Max(Visuals) >= w
    BY <1>1 DEF LargestVisual, Max
  <1>3. NextVisual = 1 + Max(Visuals)
    BY DEF NextVisual, Visuals
  <1>4. \A i \in 1..Len(bookings) : bookings[i].visual \in Visuals
    BY DEF Visuals
  <1>5. \A w \in Visuals : w < NextVisual
    <2>1. Max(Visuals) \in Nat
      BY <1>1, <1>2
    <2>2. QED
      BY <1>1, <1>2, <1>3, <2>1
  <1>6. QED
    BY <1>4, <1>5 DEF Below

\* Duplicates are made by duplicate_booking only.
LEMMA NoDuplicatesStep ==
    ASSUME "duplicate" \notin Kinds, TypeInv, NoDuplicates, [Next]_vars
    PROVE  NoDuplicates'
  <1>1. calls \in [Clients -> Call]
    BY DEF TypeInv, TypeOK
  <1>2. CASE UNCHANGED calls
    BY <1>2 DEF NoDuplicates
  <1>3. CASE \E c \in Clients, h \in Headers :
                Post(c, h) \/ PushQuoted(c, h) \/ BookLoad(c, h) \/ SelectLoad(c, h)
                \/ CancelLoad(c, h)
    BY <1>1, <1>3
    DEF NoDuplicates, Post, PushQuoted, BookLoad, SelectLoad, CancelLoad, ReadHeader, Begin
  <1>4. CASE \E c \in Clients : DupLoad(c)
    BY <1>4 DEF DupLoad
  <1>5. CASE \E c \in Clients : ClientStep(c)
    <2>1. PICK c \in Clients : ClientStep(c)
      BY <1>5
    <2>2. \A d \in Clients : d # c => calls'[d] = calls[d]
      BY <1>1, <2>1
      DEF ClientStep, AddLines, QuoteSave, QuoteDone, AcceptHeader, AcceptLines, BookSave,
          BookLines, BookHeader, SelectSave, CancelLines, CancelHeader, DupInsert, Return, Goto
    <2>3. calls'[c].pc # "dupInsert"
      <3>1. CASE QuoteSave(c)
        BY <1>1, <3>1 DEF QuoteSave, Call
      <3>2. CASE Return(c)
        BY <1>1, <3>2 DEF Return, NoCall
      <3>3. CASE \E pc \in {"acceptLines", "bookLines", "bookHeader", "cancelHeader"} : Goto(c, pc)
        BY <1>1, <3>3 DEF Goto, Call
      <3>4. QED
        BY <2>1, <3>1, <3>2, <3>3
        DEF ClientStep, AddLines, QuoteDone, AcceptHeader, AcceptLines, BookSave, BookLines,
            BookHeader, SelectSave, CancelLines, CancelHeader, DupInsert
    <2>4. QED
      BY <2>2, <2>3 DEF NoDuplicates
  <1>6. CASE \E r \in Runs : ReadOption(r) \/ RunStep(r) \/ Crash(r)
    BY <1>2, <1>6
    DEF RunStep, Mapping, MapBok, ReadOption, Claim, Scan, BatchDone, Hold, Release, Crash,
        clientVars
  <1>7. CASE UNCHANGED vars \/ Tick \/ \E h \in Headers : Push(h)
    BY <1>2, <1>7 DEF vars, Tick, clientVars, Push
  <1>8. QED
    BY <1>3, <1>4, <1>5, <1>6, <1>7 DEF Next

\* Steps that leave the bookings alone: a batch is numbered from above all.
LEMMA NumberStep ==
    ASSUME TypeInv, NEW r \in Runs, Claim(r) \/ Scan(r) \/ BatchDone(r) \/ Release(r)
                                   \/ ReadOption(r) \/ Crash(r),
           \A s \in Runs : runs[s].pc = "map" => Below(NextOf(s))
    PROVE  /\ bookings' = bookings
           /\ (\A s \in Runs : runs[s].pc = "map" => Below(NextOf(s)))'
  <1>1. /\ runs \in [Runs -> Run] /\ bookings \in Seq(Booking) /\ LargestVisual
        /\ boks \in [Headers -> Bok]
    BY DEF TypeInv, TypeOK
  <1>2. bookings' = bookings
    BY DEF Claim, Scan, BatchDone, Release, ReadOption, Crash
  <1>3. \A s \in Runs : s # r => runs'[s] = runs[s]
    BY <1>1 DEF Claim, Scan, BatchDone, Release, ReadOption, Crash
  <1>4. runs'[r].pc = "map" => Below(runs'[r].start + runs'[r].count - Cardinality(runs'[r].todo))
    <2>1. CASE Scan(r)
      <3>1. PICK batch \in SUBSET Ready :
               runs' = [runs EXCEPT ![r] =
                   [@ EXCEPT !.pc = "map", !.start = NextVisual, !.count = Cardinality(batch),
                             !.todo = Copies(batch)]]
        BY <2>1 DEF Scan
      <3>2. batch \in SUBSET Headers
        BY DEF Ready
      <3>3. /\ IsFiniteSet(Copies(batch)) /\ Cardinality(batch) \in Nat
            /\ Cardinality(Copies(batch)) <= Cardinality(batch)
        BY <1>1, <3>2, BatchCopies
      <3>4. /\ runs'[r].start = NextVisual /\ runs'[r].count = Cardinality(batch)
            /\ runs'[r].todo = Copies(batch)
        BY <1>1, <3>1 DEF Run
      <3>5. Cardinality(Copies(batch)) \in Nat /\ NextVisual \in Nat
        BY <1>1, <3>3, FS_CardinalityType, NextVisualType
      <3>6. NextVisual <= NextVisual + Cardinality(batch) - Cardinality(Copies(batch))
        BY <3>3, <3>5
      <3>7. \A i \in 1..Len(bookings) : bookings[i].visual \in Nat
        BY <1>1, VisualsType DEF Booking
      <3>8. Below(NextVisual + Cardinality(batch) - Cardinality(Copies(batch)))
        BY <1>1, <3>3, <3>5, <3>6, <3>7, NextVisualLarge DEF Below
      <3>9. QED
        BY <3>4, <3>8
    <2>2. CASE ~Scan(r)
      <3>1. CASE Claim(r) \/ BatchDone(r)
        BY <1>1, <3>1 DEF Claim, BatchDone, Run
      <3>2. CASE Release(r) \/ Crash(r)
        BY <1>1, <3>2 DEF Release, Crash, NoRun
      <3>3. CASE ReadOption(r)
        BY <1>1, <3>3 DEF ReadOption, NoRun
      <3>4. QED
        BY <2>2, <3>1, <3>2, <3>3
    <2>3. QED
      BY <2>1, <2>2
  <1>5. QED
    BY <1>2, <1>3, <1>4 DEF Below, NextOf

\* The only run there is adds a booking with the next number.
LEMMA NumberBok ==
    ASSUME VisualInv, NEW r \in Runs, \A s \in Runs : s = r,
           NEW q \in runs[r].todo, MapBok(r, q)
    PROVE  /\ VisualsDistinct'
           /\ (\A s \in Runs : runs[s].pc = "map" => Below(NextOf(s)))'
  <1>1. /\ runs[r] \in Run /\ runs \in [Runs -> Run] /\ bookings \in Seq(Booking)
        /\ IsFiniteSet(runs[r].todo) /\ Cardinality(runs[r].todo) <= runs[r].count
        /\ runs[r].pc = "map" /\ Below(NextOf(r)) /\ VisualsDistinct
    BY DEF VisualInv, TypeInv, TypeOK, TodoCounted, MapBok
  <1>2. /\ runs'[r].start = runs[r].start /\ runs'[r].count = runs[r].count
        /\ runs'[r].todo = runs[r].todo \ {q}
    BY <1>1 DEF MapBok, Run
  <1>3. /\ Cardinality(runs[r].todo \ {q}) = Cardinality(runs[r].todo) - 1
        /\ Cardinality(runs[r].todo) \in Nat
    BY <1>1, FS_RemoveElement, FS_CardinalityType
  <1> DEFINE n == NextOf(r)
  <1>4. n \in Nat /\ NextOf(r)' = n + 1
    <2>1. runs[r].start \in Nat /\ runs[r].count \in Nat
      BY <1>1 DEF Run
    <2>2. n \in Nat
      BY <1>1, <1>3, <2>1 DEF NextOf
    <2>3. NextOf(r)' = runs[r].start + runs[r].count - (Cardinality(runs[r].todo) - 1)
      BY <1>2, <1>3 DEF NextOf
    <2>4. QED
      BY <1>3, <2>1, <2>2, <2>3 DEF NextOf
  <1>5. /\ Len(bookings) \in Nat
        /\ \A i \in 1..Len(bookings) : bookings[i].visual \in Nat /\ bookings[i].visual < n
    BY <1>1, VisualsType DEF Below, Booking
  <1>6. CASE q.order \in Poison
    <2>1. bookings' = bookings
      BY <1>6 DEF MapBok
    <2>2. Below(NextOf(r))'
      BY <1>4, <1>5, <2>1 DEF Below
    <2>3. QED
      BY <1>1, <2>1, <2>2 DEF VisualsDistinct
  <1>7. CASE q.order \notin Poison
    <2> DEFINE b == BookingOf(r, q)
    <2>1. bookings' = Append(bookings, b) /\ b \in Booking /\ b.visual = n
      BY <1>7, BookingOfType DEF MapBok, BookingOf, NextOf, VisualInv
    <2> HIDE DEF b
    <2>2. /\ Len(bookings') = Len(bookings) + 1
          /\ \A i \in 1..Len(bookings) : bookings'[i] = bookings[i]
          /\ bookings'[Len(bookings) + 1] = b
      BY <1>1, <2>1
    <2>3. \A i \in 1..Len(bookings') : i \in 1..Len(bookings) \/ i = Len(bookings) + 1
      BY <1>5, <2>2
    <2>4. \A i \in 1..Len(bookings') : bookings'[i].visual < n + 1
      BY <1>4, <1>5, <2>1, <2>2, <2>3
    <2>5. VisualsDistinct'
      BY <1>1, <1>4, <1>5, <2>1, <2>2, <2>3 DEF VisualsDistinct
    <2>6. Below(NextOf(r))'
      BY <1>4, <2>4 DEF Below
    <2>7. QED
      BY <2>5, <2>6
  <1>8. QED
    BY <1>6, <1>7

\* Putting bookings on hold changes no visual id.
LEMMA NumberHold ==
    ASSUME VisualInv, NEW r \in Runs, \A s \in Runs : s = r, Hold(r)
    PROVE  /\ VisualsDistinct'
           /\ (\A s \in Runs : runs[s].pc = "map" => Below(NextOf(s)))'
  <1> DEFINE held == Held(runs[r].start, runs[r].start + runs[r].count - 1)
  <1>1. /\ bookings \in Seq(Booking) /\ runs \in [Runs -> Run] /\ VisualsDistinct
        /\ bookings' = [i \in 1..Len(bookings) |->
               IF i \in held THEN [bookings[i] EXCEPT !.status = "On Hold"] ELSE bookings[i]]
    BY DEF VisualInv, TypeInv, TypeOK, Hold
  <1> HIDE DEF held
  <1>2. /\ Len(bookings) \in Nat
        /\ \A i \in 1..Len(bookings) : bookings[i] \in Booking
    BY <1>1, VisualsType
  <1>3. \A i \in 1..Len(bookings) :
            bookings'[i] \in Booking /\ bookings'[i].visual = bookings[i].visual
    BY <1>1, <1>2 DEF Booking, BookingStatuses
  <1>4. Len(bookings') = Len(bookings)
    <2>1. bookings' \in [1..Len(bookings) -> Booking]
      BY <1>1, <1>3
    <2>2. QED
      BY <1>2, <2>1, FunctionIsSequence
  <1>5. VisualsDistinct'
    <2>1. \A i, j \in 1..Len(bookings) : bookings[i].visual = bookings[j].visual => i = j
      BY <1>1 DEF VisualsDistinct
    <2>2. \A i, j \in 1..Len(bookings) : bookings'[i].visual = bookings'[j].visual => i = j
      BY <1>3, <2>1
    <2>3. QED
      BY <1>4, <2>2 DEF VisualsDistinct
  <1>6. \A s \in Runs : runs'[s].pc # "map"
    BY <1>1 DEF Hold, Run
  <1>7. QED
    BY <1>5, <1>6

LEMMA VisualStep ==
    ASSUME "duplicate" \notin Kinds, \A r, s \in Runs : r = s, VisualInv, [Next]_vars
    PROVE  VisualInv'
  <1>1. TypeInv /\ NoDuplicates /\ VisualsDistinct
        /\ \A r \in Runs : runs[r].pc = "map" => Below(NextOf(r))
    BY DEF VisualInv
  <1>2. TypeInv' /\ NoDuplicates'
    BY <1>1, TypeStep, NoDuplicatesStep
  <1>3. CASE UNCHANGED <<bookings, runs>>
    BY <1>1, <1>2, <1>3 DEF VisualInv, VisualsDistinct, Below, NextOf
  <1>4. CASE \E r \in Runs : \/ Claim(r) \/ Scan(r) \/ BatchDone(r) \/ Release(r)
                              \/ ReadOption(r) \/ Crash(r)
    <2>1. /\ bookings' = bookings
          /\ (\A s \in Runs : runs[s].pc = "map" => Below(NextOf(s)))'
      BY <1>1, <1>4, NumberStep
    <2>2. VisualsDistinct'
      BY <1>1, <2>1 DEF VisualsDistinct
    <2>3. QED
      BY <1>2, <2>1, <2>2 DEF VisualInv
  <1>5. CASE \E r \in Runs : Mapping(r)
    BY <1>2, <1>5, NumberBok DEF Mapping, VisualInv
  <1>6. CASE \E r \in Runs : Hold(r)
    BY <1>2, <1>6, NumberHold DEF VisualInv
  <1>7. CASE \E c \in Clients : ClientStep(c)
    BY <1>1, <1>3, <1>7
    DEF ClientStep, AddLines, QuoteSave, QuoteDone, AcceptHeader, AcceptLines, BookSave,
        BookLines, BookHeader, SelectSave, CancelLines, CancelHeader, DupInsert, runVars,
        NoDuplicates
  <1>8. CASE \/ \E h \in Headers : Push(h)
             \/ \E c \in Clients, h \in Headers :
                   Post(c, h) \/ PushQuoted(c, h) \/ BookLoad(c, h) \/ SelectLoad(c, h)
                   \/ CancelLoad(c, h)
             \/ \E c \in Clients : DupLoad(c)
             \/ Tick
             \/ UNCHANGED vars
    BY <1>3, <1>8
    DEF Push, Post, PushQuoted, BookLoad, SelectLoad, CancelLoad, DupLoad, Tick, vars,
        clientVars, runVars
  <1>9. CASE \E r \in Runs : ReadOption(r) \/ RunStep(r) \/ Crash(r)
    BY <1>4, <1>5, <1>6, <1>9 DEF RunStep
  <1>10. QED
    BY <1>7, <1>8, <1>9 DEF Next

\* If the mapping runs once at a time and nobody duplicates bookings by hand, no
\* two bookings have one visual id, whichever headers fail and whenever a run
\* dies and another takes over.
THEOREM OneRunNumbersApart ==
    ASSUME "duplicate" \notin Kinds, \A r, s \in Runs : r = s
    PROVE  Spec => []VisualsDistinct
  <1>1. Init => VisualInv
    <2> SUFFICES ASSUME Init PROVE VisualInv
      OBVIOUS
    <2>1. TypeInv
      BY TypeInit
    <2>2. NoDuplicates
      BY DEF Init, NoDuplicates, NoCall
    <2>3. VisualsDistinct
      BY DEF Init, VisualsDistinct
    <2>4. \A r \in Runs : runs[r].pc # "map"
      BY DEF Init, NoRun
    <2>5. QED
      BY <2>1, <2>2, <2>3, <2>4 DEF VisualInv
  <1>2. VisualInv /\ [Next]_vars => VisualInv'
    BY VisualStep
  <1>3. VisualInv => VisualsDistinct
    BY DEF VisualInv
  <1>4. QED
    BY <1>1, <1>2, <1>3, PTL DEF Spec

-----------------------------------------------------------------------------
(* Of two bookings with one invoice in a batch, the later is put on hold.  *)

\* A bounded set of numbers has a largest.
LEMMA LargestOf ==
    ASSUME NEW S \in SUBSET Nat, S # {}, NEW m \in Nat, \A k \in S : k <= m
    PROVE  \E x \in S : \A y \in S : y <= x
  <1> DEFINE T == {m - k : k \in S}
  <1>1. \A k \in S : m - k \in Nat
    OBVIOUS
  <1>2. T \in SUBSET Nat /\ T # {}
    BY <1>1
  <1>3. PICK t \in T : \A u \in T : ~(<<u, t>> \in OpToRel(<, Nat))
    BY <1>2, WFMin, NatLessThanWellFounded, Zenon
  <1>4. \A u \in T : t <= u
    <2> HIDE DEF T
    <2>1. \A u \in T : ~(u < t)
      BY <1>2, <1>3 DEF OpToRel
    <2>2. QED
      BY <1>2, <2>1
  <1>5. PICK x \in S : t = m - x
    OBVIOUS
  <1>6. \A y \in S : m - x <= m - y
    BY <1>4, <1>5
  <1>7. QED
    BY <1>6

\* Once the duplicates of a batch have been looked for, they are on hold.
LEMMA HoldHolds ==
    ASSUME TypeInv, NEW r \in Runs, Hold(r),
           NEW i \in Batch(r), NEW j \in Batch(r), i < j,
           SinvOf(bookings[i]) = SinvOf(bookings[j]), SinvOf(bookings[j]) # 0
    PROVE  \E k \in Batch(r) : /\ k >= j /\ SinvOf(bookings[k]) = SinvOf(bookings[j])
                               /\ bookings'[k].status = "On Hold"
  <1>1. Len(bookings) \in Nat /\ \A k \in 1..Len(bookings) : bookings[k] \in Booking
    BY VisualsType DEF TypeInv, TypeOK
  <1> DEFINE start == runs[r].start
             end == runs[r].start + runs[r].count - 1
             batch == {k \in 1..Len(bookings) :
                         bookings[k].visual \in start..end /\ SinvOf(bookings[k]) # 0}
             twice == {k \in batch : \E l \in batch \ {k} :
                         SinvOf(bookings[k]) = SinvOf(bookings[l])}
             S == {k \in twice : SinvOf(bookings[k]) = SinvOf(bookings[j])}
  <1>2. batch \subseteq Batch(r) /\ i \in batch /\ j \in batch
    BY DEF Batch
  <1>3. j \in twice
    BY <1>2
  <1>4. j \in S /\ S \subseteq 1..Len(bookings)
    BY <1>3
  <1>5. PICK k \in S : \A l \in S : l <= k
    <2> HIDE DEF S
    <2>1. S \in SUBSET Nat /\ S # {} /\ \A l \in S : l <= Len(bookings)
      BY <1>1, <1>4
    <2>2. QED
      BY <1>1, <2>1, LargestOf
  <1>6. k \in LastOfEach(twice)
    <2>1. \A l \in twice : SinvOf(bookings[l]) = SinvOf(bookings[k]) => l <= k
      BY <1>5
    <2> HIDE DEF twice
    <2>2. QED
      BY <1>5, <2>1 DEF LastOfEach
  <1>7. k \in Held(start, end)
    BY <1>6 DEF Held
  <1>8. bookings'[k].status = "On Hold"
    <2>1. k \in 1..Len(bookings) /\ bookings[k] \in Booking
      BY <1>1, <1>4, <1>5
    <2>2. bookings' = [l \in 1..Len(bookings) |->
             IF l \in Held(start, end) THEN [bookings[l] EXCEPT !.status = "On Hold"]
             ELSE bookings[l]]
      BY DEF Hold
    <2> HIDE DEF start, end
    <2>3. QED
      BY <1>7, <2>1, <2>2 DEF Booking
  <1>9. k \in Batch(r) /\ k >= j /\ SinvOf(bookings[k]) = SinvOf(bookings[j])
    <2>1. k >= j
      <3> HIDE DEF S
      <3>1. j <= k /\ k \in Nat /\ j \in Nat
        BY <1>4, <1>5
      <3>2. QED
        BY <3>1
    <2>2. QED
      BY <1>2, <1>5, <2>1
  <1>10. QED
    BY <1>8, <1>9

\* If the mapping runs once at a time, of two bookings of a batch with one
\* invoice the later is on hold when the run is done, whoever duplicates bookings
\* meanwhile: a copy has no order and so no invoice.
THEOREM DuplicatesAreHeld ==
    ASSUME \A r, s \in Runs : r = s
    PROVE  Spec => []DuplicatesHeld
  <1>1. Init => DuplicatesHeld
    <2>1. NoRun.pc # "release"
      BY DEF NoRun
    <2>2. QED
      BY <2>1 DEF Init, DuplicatesHeld
  <1>2. TypeInv /\ DuplicatesHeld /\ [Next]_vars => DuplicatesHeld'
    <2> SUFFICES ASSUME TypeInv, DuplicatesHeld, [Next]_vars PROVE DuplicatesHeld'
      OBVIOUS
    <2>t. /\ runs \in [Runs -> Run] /\ bookings \in Seq(Booking) /\ calls \in [Clients -> Call]
          /\ Len(bookings) \in Nat /\ \A i \in 1..Len(bookings) : bookings[i] \in Booking
      BY VisualsType DEF TypeInv, TypeOK
    <2>1. CASE UNCHANGED <<bookings, runs>>
      BY <2>1 DEF DuplicatesHeld, Batch
    <2>2. CASE \E r \in Runs : \/ Claim(r) \/ Scan(r) \/ BatchDone(r) \/ Release(r)
                               \/ ReadOption(r) \/ Crash(r) \/ Mapping(r)
      <3>1. PICK r \in Runs : \/ Claim(r) \/ Scan(r) \/ BatchDone(r) \/ Release(r)
                              \/ ReadOption(r) \/ Crash(r) \/ Mapping(r)
        BY <2>2
      <3>2. runs'[r].pc # "release"
        <4>1. CASE Claim(r) \/ BatchDone(r)
          BY <2>t, <4>1 DEF Claim, BatchDone, Run
        <4>2. CASE Release(r) \/ Crash(r) \/ ReadOption(r)
          <5>1. NoRun.pc = "idle" /\ [NoRun EXCEPT !.pc = "claim", !.end = option.end].pc = "claim"
            BY DEF NoRun
          <5>2. QED
            BY <2>t, <4>2, <5>1 DEF Release, Crash, ReadOption
        <4>3. CASE Scan(r)
          BY <2>t, <4>3 DEF Scan, Run
        <4>4. CASE Mapping(r)
          BY <2>t, <4>4 DEF Mapping, MapBok, Run
        <4>5. QED
          BY <3>1, <4>1, <4>2, <4>3, <4>4
      <3>3. QED
        BY <3>2 DEF DuplicatesHeld
    <2>3. ASSUME NEW r \in Runs, Hold(r) PROVE DuplicatesHeld'
      <3>1. /\ runs'[r].start = runs[r].start /\ runs'[r].count = runs[r].count
            /\ \A s \in Runs : s = r
        BY <2>3, <2>t DEF Hold, Run
      <3> DEFINE held == Held(runs[r].start, runs[r].start + runs[r].count - 1)
      <3>2. bookings' = [i \in 1..Len(bookings) |->
               IF i \in held THEN [bookings[i] EXCEPT !.status = "On Hold"] ELSE bookings[i]]
        BY <2>3 DEF Hold
      <3> HIDE DEF held
      <3>3. \A i \in 1..Len(bookings) :
                /\ bookings'[i] \in Booking /\ bookings'[i].visual = bookings[i].visual
                /\ bookings'[i].header = bookings[i].header
        BY <2>t, <3>2 DEF Booking, BookingStatuses
      <3>4. Len(bookings') = Len(bookings)
        <4>1. bookings' \in [1..Len(bookings) -> Booking]
          BY <3>2, <3>3
        <4>2. QED
          BY <2>t, <4>1, FunctionIsSequence
      <3>5. /\ Batch(r)' = Batch(r) /\ Batch(r) \subseteq 1..Len(bookings)
            /\ \A i \in Batch(r) : SinvOf(bookings'[i]) = SinvOf(bookings[i])
        BY <3>1, <3>3, <3>4 DEF Batch, SinvOf
      <3>6. ASSUME NEW i \in Batch(r), NEW j \in Batch(r), i < j,
                   SinvOf(bookings'[i]) = SinvOf(bookings'[j]), SinvOf(bookings'[j]) # 0
            PROVE  \E k \in Batch(r) : /\ k >= j /\ SinvOf(bookings'[k]) = SinvOf(bookings'[j])
                                       /\ bookings'[k].status = "On Hold"
        BY <2>3, <3>5, <3>6, HoldHolds
      <3>7. \A s \in Runs : Batch(s)' = Batch(s)
        <4>1. ASSUME NEW s \in Runs PROVE Batch(s)' = Batch(s)
          BY <3>1, <3>3, <3>4 DEF Batch
        <4>2. QED
          BY <4>1
      <3>8. ASSUME NEW s \in Runs, NEW i \in Batch(s)', NEW j \in Batch(s)', i < j,
                   SinvOf(bookings'[i]) = SinvOf(bookings'[j]), SinvOf(bookings'[j]) # 0
            PROVE  \E k \in Batch(s)' : /\ k >= j /\ SinvOf(bookings'[k]) = SinvOf(bookings'[j])
                                        /\ bookings'[k].status = "On Hold"
        <4>1. s = r
          BY <3>1
        <4>2. Batch(s)' = Batch(r)
          BY <3>7, <4>1
        <4>3. i \in Batch(r) /\ j \in Batch(r)
          BY <4>2, <3>8
        <4>4. PICK k \in Batch(r) : /\ k >= j /\ SinvOf(bookings'[k]) = SinvOf(bookings'[j])
                                    /\ bookings'[k].status = "On Hold"
          BY <3>6, <3>8, <4>3
        <4>5. QED
          BY <4>2, <4>4
      <3>9. QED
        BY <3>8 DEF DuplicatesHeld
    <2>4. ASSUME NEW c \in Clients, DupInsert(c) PROVE DuplicatesHeld'
      <3> DEFINE b == [header |-> NoOrder, visual |-> calls[c].visual,
                       status |-> "Ready for booking", lines |-> TRUE]
      <3>1. bookings' = Append(bookings, b) /\ runs' = runs
        BY <2>4 DEF DupInsert, runVars
      <3>2. b \in Booking /\ SinvOf(b) = 0
        BY <2>t DEF Booking, BookingStatuses, SinvOf, Call
      <3> HIDE DEF b
      <3>3. /\ Len(bookings') = Len(bookings) + 1
            /\ \A i \in 1..Len(bookings) : bookings'[i] = bookings[i]
            /\ bookings'[Len(bookings) + 1] = b
        BY <2>t, <3>1, <3>2
      <3>4. \A r \in Runs : /\ Batch(r) \subseteq Batch(r)'
                            /\ Batch(r)' \subseteq Batch(r) \cup {Len(bookings) + 1}
                            /\ Batch(r) \subseteq 1..Len(bookings)
        <4>1. \A i \in 1..Len(bookings') : i \in 1..Len(bookings) \/ i = Len(bookings) + 1
          BY <2>t, <3>3
        <4>2. 1..Len(bookings) \subseteq 1..Len(bookings')
          BY <2>t, <3>3
        <4>3. QED
          BY <3>1, <3>3, <4>1, <4>2 DEF Batch
      <3>5. ASSUME NEW r \in Runs, runs[r].pc = "release",
                   NEW i \in Batch(r)', NEW j \in Batch(r)', i < j,
                   SinvOf(bookings'[i]) = SinvOf(bookings'[j]), SinvOf(bookings'[j]) # 0
            PROVE  \E k \in Batch(r)' : /\ k >= j /\ SinvOf(bookings'[k]) = SinvOf(bookings'[j])
                                        /\ bookings'[k].status = "On Hold"
        <4>1. j # Len(bookings) + 1 /\ i # Len(bookings) + 1
          BY <3>2, <3>3, <3>5
        <4>2. i \in Batch(r) /\ j \in Batch(r)
          BY <3>4, <4>1
        <4>3. bookings'[i] = bookings[i] /\ bookings'[j] = bookings[j]
          BY <3>3, <3>4, <4>2
        <4>4. PICK k \in Batch(r) : /\ k >= j /\ SinvOf(bookings[k]) = SinvOf(bookings[j])
                                    /\ bookings[k].status = "On Hold"
          BY <3>5, <4>2, <4>3 DEF DuplicatesHeld
        <4>5. k \in Batch(r)' /\ bookings'[k] = bookings[k]
          BY <3>3, <3>4
        <4>6. QED
          BY <4>3, <4>4, <4>5
      <3>6. QED
        BY <3>1, <3>5 DEF DuplicatesHeld
    <2>5. CASE \E c \in Clients : ClientStep(c)
      BY <2>1, <2>4, <2>5
      DEF ClientStep, AddLines, QuoteSave, QuoteDone, AcceptHeader, AcceptLines, BookSave,
          BookLines, BookHeader, SelectSave, CancelLines, CancelHeader, runVars
    <2>6. CASE \/ \E h \in Headers : Push(h)
               \/ \E c \in Clients, h \in Headers :
                     Post(c, h) \/ PushQuoted(c, h) \/ BookLoad(c, h) \/ SelectLoad(c, h)
                     \/ CancelLoad(c, h)
               \/ \E c \in Clients : DupLoad(c)
               \/ Tick
               \/ UNCHANGED vars
      BY <2>1, <2>6
      DEF Push, Post, PushQuoted, BookLoad, SelectLoad, CancelLoad, DupLoad, Tick, vars,
          clientVars, runVars
    <2>7. CASE \E r \in Runs : ReadOption(r) \/ RunStep(r) \/ Crash(r)
      BY <2>2, <2>3, <2>7 DEF RunStep
    <2>8. QED
      BY <2>5, <2>6, <2>7 DEF Next
  <1>3. Spec => []TypeInv
    BY TypeInit, TypeStep, PTL DEF Spec
  <1>4. QED
    BY <1>1, <1>2, <1>3, PTL DEF Spec

-----------------------------------------------------------------------------
(* Orders that are pushed ready refine OrderIntake: they become one        *)
(* booking, with its lines.                                                *)

\* The orders as OrderIntake has them.
OrdersSeen == [h \in Headers |-> Progress(h)]

\* Clients that only push ready orders and duplicate bookings leave the headers alone.
HeadersLeft == \A c \in Clients : calls[c].pc \in {"idle", "dupInsert"}

\* A header that is ready has no booking yet, and its lines are ready too.
Whole(h) ==
    /\ h \notin pushed => boks[h] = NoBok /\ BookingsOf(h) = {}
    /\ Code(h) \in ReadyCodes => BookingsOf(h) = {} /\ boks[h].lines \in ReadyCodes
    /\ BookingsOf(h) = {} \/ \E i : BookingsOf(h) = {i} /\ bookings[i].lines

\* What a run has read of the headers it still has to map is up to date.
Current(r) ==
    \A q \in runs[r].todo : Code(q.order) \in ReadyCodes /\ q.copy = boks[q.order].header

IntakeInv ==
    /\ TypeInv
    /\ HeadersLeft
    /\ \A h \in Headers : Whole(h)
    /\ \A r \in Runs : Current(r)

PushesOnly ==
    /\ Kinds \subseteq {"push", "duplicate"} /\ NoOrder \notin Headers
    /\ \A r, s \in Runs : r = s

\* The progress of an order that is whole.
LEMMA ProgressOf ==
    ASSUME NEW h, Whole(h)
    PROVE  Progress(h) = IF h \notin pushed THEN "none"
                         ELSE IF BookingsOf(h) = {} THEN "placed" ELSE "booked"
  <1>1. CASE BookingsOf(h) = {}
    BY <1>1 DEF Progress
  <1>2. CASE BookingsOf(h) # {}
    <2>1. PICK i : BookingsOf(h) = {i} /\ bookings[i].lines
      BY <1>2 DEF Whole
    <2>2. Cardinality(BookingsOf(h)) = 1
      BY <2>1, FS_Singleton
    <2>3. QED
      BY <1>2, <2>1, <2>2 DEF Progress
  <1>3. QED
    BY <1>1, <1>2

\* A booking of an order with its lines is all that is said of the order.
SameBookings(h) ==
    /\ BookingsOf(h)' = BookingsOf(h)
    /\ \A i \in BookingsOf(h) : bookings'[i].lines = bookings[i].lines

\* Whoever leaves an order and its bookings alone leaves it whole, and where it is.
LEMMA WholeStays ==
    ASSUME NEW h \in Headers, Whole(h), boks'[h] = boks[h], h \in pushed' <=> h \in pushed,
           SameBookings(h)
    PROVE  Whole(h)' /\ Progress(h)' = Progress(h)
  <1>1. BookingsOf(h)' = {} \/ \E i : BookingsOf(h)' = {i} /\ bookings'[i].lines
    BY DEF Whole, SameBookings
  <1>2. Whole(h)'
    <2>1. Code(h)' = Code(h)
      BY DEF Code
    <2>2. BookingsOf(h)' = BookingsOf(h)
      BY DEF SameBookings
    <2> HIDE DEF SameBookings
    <2>3. h \notin pushed' => boks'[h] = NoBok /\ BookingsOf(h)' = {}
      BY <2>2 DEF Whole
    <2>4. Code(h)' \in ReadyCodes => BookingsOf(h)' = {} /\ boks'[h].lines \in ReadyCodes
      BY <2>1, <2>2 DEF Whole
    <2>5. QED
      BY <1>1, <2>3, <2>4 DEF Whole
  <1>3. Progress(h)' = IF h \notin pushed' THEN "none"
                       ELSE IF BookingsOf(h)' = {} THEN "placed" ELSE "booked"
    <2>1. CASE BookingsOf(h)' = {}
      BY <2>1 DEF Progress
    <2>2. CASE BookingsOf(h)' # {}
      <3>1. PICK i : BookingsOf(h)' = {i} /\ bookings'[i].lines
        BY <1>1, <2>2
      <3>2. Cardinality(BookingsOf(h)') = 1
        BY <3>1, FS_Singleton
      <3>3. QED
        BY <2>2, <3>1, <3>2 DEF Progress
    <2>3. QED
      BY <2>1, <2>2
  <1>4. QED
    BY <1>2, <1>3, ProgressOf DEF SameBookings

\* Another booking adds to its own order, and to no other.
LEMMA AppendAdds ==
    ASSUME bookings \in Seq(Booking), NEW b \in Booking, bookings' = Append(bookings, b)
    PROVE  /\ \A h : h # b.header => SameBookings(h)
           /\ BookingsOf(b.header)' = BookingsOf(b.header) \cup {Len(bookings) + 1}
           /\ bookings'[Len(bookings) + 1] = b
  <1>1. Len(bookings) \in Nat /\ Len(bookings') = Len(bookings) + 1
    OBVIOUS
  <1>2. /\ \A i \in 1..Len(bookings) : bookings'[i] = bookings[i]
        /\ bookings'[Len(bookings) + 1] = b
    OBVIOUS
  <1>3. 1..Len(bookings') = 1..Len(bookings) \cup {Len(bookings) + 1}
    BY <1>1
  <1>4. ASSUME NEW h, h # b.header PROVE SameBookings(h)
    <2>1. BookingsOf(h)' = BookingsOf(h)
      BY <1>2, <1>3, <1>4 DEF BookingsOf
    <2>2. BookingsOf(h) \subseteq 1..Len(bookings)
      BY DEF BookingsOf
    <2>3. QED
      BY <1>2, <2>1, <2>2 DEF SameBookings
  <1>5. BookingsOf(b.header)' = BookingsOf(b.header) \cup {Len(bookings) + 1}
    BY <1>2, <1>3 DEF BookingsOf
  <1>6. QED
    BY <1>2, <1>4, <1>5

\* Putting bookings on hold takes no lines from them.
LEMMA HoldAdds ==
    ASSUME bookings \in Seq(Booking), NEW r \in Runs, Hold(r)
    PROVE  \A h : SameBookings(h)
  <1> DEFINE held == Held(runs[r].start, runs[r].start + runs[r].count - 1)
  <1>1. bookings' = [i \in 1..Len(bookings) |->
           IF i \in held THEN [bookings[i] EXCEPT !.status = "On Hold"] ELSE bookings[i]]
    BY DEF Hold
  <1> HIDE DEF held
  <1>2. Len(bookings) \in Nat /\ \A i \in 1..Len(bookings) : bookings[i] \in Booking
    BY VisualsType
  <1>3. \A i \in 1..Len(bookings) :
            /\ bookings'[i] \in Booking /\ bookings'[i].header = bookings[i].header
            /\ bookings'[i].lines = bookings[i].lines
    BY <1>1, <1>2 DEF Booking, BookingStatuses
  <1>4. bookings' \in [1..Len(bookings) -> Booking]
    BY <1>1, <1>3
  <1>5. Len(bookings') = Len(bookings)
    BY <1>2, <1>4, FunctionIsSequence
  <1>6. ASSUME NEW h PROVE SameBookings(h)
    <2>1. BookingsOf(h)' = BookingsOf(h)
      BY <1>3, <1>5 DEF BookingsOf
    <2>2. BookingsOf(h) \subseteq 1..Len(bookings)
      BY DEF BookingsOf
    <2>3. QED
      BY <1>3, <2>1, <2>2 DEF SameBookings
  <1>7. QED
    BY <1>6

\* A step of the intake, and what it keeps.
Kept == (\A h \in Headers : Whole(h)') /\ (\A r \in Runs : Current(r)')
StepTaken == [Intake!Next]_OrdersSeen

\* A step that changes no header, no lines and reads no header is none for the orders.
LEMMA QuietStep ==
    ASSUME IntakeInv, boks' = boks, pushed' = pushed,
           \A h \in Headers : SameBookings(h),
           \A r \in Runs : runs'[r].todo \subseteq runs[r].todo \/ Current(r)'
    PROVE  Kept /\ StepTaken
  <1>1. \A h \in Headers : Whole(h)' /\ Progress(h)' = Progress(h)
    <2>1. ASSUME NEW h \in Headers PROVE Whole(h)' /\ Progress(h)' = Progress(h)
      BY WholeStays DEF IntakeInv
    <2>2. QED
      BY <2>1
  <1>2. \A r \in Runs : Current(r)'
    BY DEF IntakeInv, Current, Code
  <1>3. OrdersSeen' = OrdersSeen
    BY <1>1 DEF OrdersSeen
  <1>4. QED
    BY <1>1, <1>2, <1>3 DEF Kept, StepTaken

\* One order goes a step further and the others stay.
LEMMA OneOrder ==
    ASSUME IntakeInv, NEW h \in Headers, Whole(h)',
           \A g \in Headers : g # h => Whole(g)' /\ Progress(g)' = Progress(g),
           \/ Progress(h) = "none" /\ Progress(h)' = "placed"
           \/ Progress(h) = "placed" /\ Progress(h)' = "booked"
    PROVE  (\A g \in Headers : Whole(g)') /\ StepTaken
  <1>1. OrdersSeen' = [OrdersSeen EXCEPT ![h] = Progress(h)']
    BY DEF OrdersSeen
  <1>2. OrdersSeen[h] = Progress(h)
    BY DEF OrdersSeen
  <1>3. CASE Progress(h) = "none" /\ Progress(h)' = "placed"
    BY <1>1, <1>2, <1>3 DEF StepTaken, Intake!Next, Intake!Place, OrdersSeen
  <1>4. CASE Progress(h) = "placed" /\ Progress(h)' = "booked"
    BY <1>1, <1>2, <1>4 DEF StepTaken, Intake!Next, Intake!Book, OrdersSeen
  <1>5. QED
    BY <1>3, <1>4

\* An order pushed is placed.
LEMMA PushPlaces ==
    ASSUME IntakeInv, NEW h \in Headers, Push(h)
    PROVE  Kept /\ StepTaken
  <1>1. boks \in [Headers -> Bok]
    BY DEF IntakeInv, TypeInv, TypeOK
  <1>2. PICK code \in {2, 5} : boks' = [boks EXCEPT ![h] = NewBok(code, code)]
    BY KindsAssumption DEF Push
  <1>3. bookings' = bookings /\ runs' = runs /\ h \notin pushed /\ pushed' = pushed \cup {h}
    BY DEF Push, runVars
  <1>4. \A g : SameBookings(g)
    BY <1>3 DEF SameBookings, BookingsOf
  <1>5. \A g \in Headers : g # h => boks'[g] = boks[g] /\ (g \in pushed' <=> g \in pushed)
    BY <1>1, <1>2, <1>3
  <1>6. ASSUME NEW g \in Headers, g # h PROVE Whole(g)' /\ Progress(g)' = Progress(g)
    BY <1>4, <1>5, <1>6, WholeStays DEF IntakeInv
  <1>7. Code(h) = Gone /\ BookingsOf(h) = {}
    BY <1>3 DEF IntakeInv, Whole, Code, NoBok
  <1>8. BookingsOf(h)' = {}
    BY <1>4, <1>7 DEF SameBookings
  <1>9. boks'[h].lines = code /\ code \in ReadyCodes
    BY <1>1, <1>2 DEF NewBok, ReadyCodes
  <1>10. Whole(h)'
    BY <1>3, <1>8, <1>9 DEF Whole
  <1>11. Progress(h) = "none" /\ Progress(h)' = "placed"
    BY <1>3, <1>8 DEF Progress
  <1>12. (\A g \in Headers : Whole(g)') /\ StepTaken
    BY <1>6, <1>10, <1>11, OneOrder
  <1>13. ASSUME NEW r \in Runs PROVE Current(r)'
    <2>1. ASSUME NEW q \in runs[r].todo
          PROVE  Code(q.order)' \in ReadyCodes /\ q.copy = boks'[q.order].header
      <3>1. Code(q.order) \in ReadyCodes /\ q.copy = boks[q.order].header
        BY DEF IntakeInv, Current
      <3>2. q.order # h
        BY <1>7, <3>1 DEF Gone, ReadyCodes
      <3>3. q.order \in Headers
        BY DEF IntakeInv, TypeInv, TypeOK, Run, Read
      <3>4. boks'[q.order] = boks[q.order]
        BY <1>5, <3>2, <3>3
      <3>5. QED
        BY <3>1, <3>4 DEF Code
    <2>2. QED
      BY <1>3, <2>1 DEF Current
  <1>14. QED
    BY <1>12, <1>13 DEF Kept

\* A header that is mapped becomes the booking of its order.
LEMMA MapBooks ==
    ASSUME PushesOnly, IntakeInv, NEW r \in Runs, NEW q \in runs[r].todo, MapBok(r, q),
           q.order \notin Poison
    PROVE  Kept /\ StepTaken
  <1> DEFINE h == q.order
             b == BookingOf(r, q)
             n == Len(bookings) + 1
  <1>1. /\ boks \in [Headers -> Bok] /\ runs \in [Runs -> Run] /\ bookings \in Seq(Booking)
        /\ q \in Read /\ h \in Headers /\ runs[r].todo \subseteq Read
    BY DEF IntakeInv, TypeInv, TypeOK, Run, Read
  <1>2. /\ Code(h) \in ReadyCodes /\ BookingsOf(h) = {} /\ boks[h].lines \in ReadyCodes
        /\ q.copy = boks[h].header
    BY <1>1 DEF IntakeInv, Current, Whole
  <1>3. h \in pushed
    <2>1. CASE h \notin pushed
      <3>1. Code(h) = Gone
        BY <1>1, <2>1 DEF IntakeInv, Whole, Code, NoBok
      <3>2. QED
        BY <1>2, <3>1 DEF Gone, ReadyCodes
    <2>2. QED
      BY <2>1
  <1>4. b \in Booking /\ b.header = h /\ b.lines
    <2>1. b \in Booking
      BY BookingOfType, <1>1 DEF IntakeInv, MapBok
    <2>2. QED
      BY <1>2, <2>1 DEF BookingOf
  <1>5. bookings' = Append(bookings, b) /\ pushed' = pushed
    BY DEF MapBok
  <1>6. boks'[h].header.code = Mapped /\ \A g \in Headers : g # h => boks'[g] = boks[g]
    <2>1. q.copy \in Header
      BY <1>1 DEF Read
    <2>2. QED
      BY <1>1, <2>1 DEF MapBok, Header
  <1> HIDE DEF b
  <1>7. /\ \A g : g # h => SameBookings(g)
        /\ BookingsOf(h)' = {n} /\ bookings'[n].lines
    BY <1>1, <1>2, <1>4, <1>5, AppendAdds
  <1> HIDE DEF h, n
  <1>8. ASSUME NEW g \in Headers, g # h PROVE Whole(g)' /\ Progress(g)' = Progress(g)
    BY <1>5, <1>6, <1>7, <1>8, WholeStays DEF IntakeInv
  <1>9. Whole(h)'
    <2>1. \E i : BookingsOf(h)' = {i} /\ bookings'[i].lines
      BY <1>7
    <2>2. Code(h)' \notin ReadyCodes
      BY <1>6 DEF Code, Mapped, ReadyCodes
    <2>3. QED
      BY <1>3, <1>5, <2>1, <2>2 DEF Whole
  <1>10. Progress(h) = "placed" /\ Progress(h)' = "booked"
    <2>1. Progress(h) = "placed"
      BY <1>2, <1>3 DEF Progress
    <2>2. Cardinality({n}) = 1
      BY FS_Singleton
    <2>3. Progress(h)' = "booked"
      BY <1>3, <1>5, <1>7, <2>2 DEF Progress
    <2>4. QED
      BY <2>1, <2>3
  <1>11. (\A g \in Headers : Whole(g)') /\ StepTaken
    BY <1>1, <1>8, <1>9, <1>10, OneOrder
  <1>12. ASSUME NEW s \in Runs PROVE Current(s)'
    <2>1. runs'[s].todo = runs[r].todo \ {q} /\ s = r
      BY <1>1 DEF PushesOnly, MapBok, Run
    <2>2. ASSUME NEW p \in runs[r].todo \ {q}
          PROVE  Code(p.order)' \in ReadyCodes /\ p.copy = boks'[p.order].header
      <3>1. /\ p \in Read /\ p.order \in Headers
            /\ Code(p.order) \in ReadyCodes /\ p.copy = boks[p.order].header
        BY <1>1 DEF IntakeInv, Current, Read
      <3>2. p.order # h
        <4>1. CASE p.order = h
          <5>1. p.order = q.order /\ p.copy = q.copy
            BY <1>2, <3>1, <4>1 DEF h
          <5>2. p = q
            BY <1>1, <3>1, <5>1 DEF Read
          <5>3. QED
            BY <5>2
        <4>2. QED
          BY <4>1
      <3>3. boks'[p.order] = boks[p.order]
        BY <1>6, <3>1, <3>2
      <3>4. QED
        BY <3>1, <3>3 DEF Code
    <2>3. QED
      BY <2>1, <2>2 DEF Current
  <1>13. QED
    BY <1>11, <1>12 DEF Kept

\* The calls that there are leave the headers alone.
LEMMA HeadersLeftStep ==
    ASSUME PushesOnly, IntakeInv, [Next]_vars
    PROVE  /\ HeadersLeft'
           /\ \/ \E h \in Headers : Push(h)
              \/ \E c \in Clients : DupLoad(c) \/ DupInsert(c)
              \/ \E r \in Runs : ReadOption(r) \/ RunStep(r) \/ Crash(r)
              \/ Tick \/ UNCHANGED vars
  <1>1. calls \in [Clients -> Call] /\ HeadersLeft
    BY DEF IntakeInv, TypeInv, TypeOK
  <1>2. CASE UNCHANGED vars \/ Tick \/ \E h \in Headers : Push(h)
    BY <1>1, <1>2 DEF vars, Tick, clientVars, Push, HeadersLeft
  <1>3. CASE \E r \in Runs : ReadOption(r) \/ RunStep(r) \/ Crash(r)
    BY <1>1, <1>3
    DEF RunStep, Mapping, MapBok, ReadOption, Claim, Scan, BatchDone, Hold, Release, Crash,
        clientVars, HeadersLeft
  <1>4. ASSUME NEW c \in Clients, DupLoad(c) PROVE HeadersLeft'
    <2> DEFINE q == [pc |-> "dupInsert", order |-> NoOrder, copy |-> NoBok.header,
                     visual |-> NextVisual]
    <2>1. calls' = [calls EXCEPT ![c] = q] /\ q.pc = "dupInsert"
      BY <1>4 DEF DupLoad, Begin
    <2> HIDE DEF q
    <2>2. QED
      BY <1>1, <2>1 DEF HeadersLeft
  <1>5. ASSUME NEW c \in Clients, ClientStep(c) PROVE HeadersLeft' /\ DupInsert(c)
    <2>1. calls[c].pc \in {"idle", "dupInsert"}
      BY <1>1 DEF HeadersLeft
    <2>2. DupInsert(c)
      BY <1>5, <2>1
      DEF ClientStep, AddLines, QuoteSave, QuoteDone, AcceptHeader, AcceptLines, BookSave,
          BookLines, BookHeader, SelectSave, CancelLines, CancelHeader
    <2>3. QED
      BY <1>1, <2>2 DEF DupInsert, Return, NoCall, HeadersLeft
  <1>6. CASE \E c \in Clients, h \in Headers :
                Post(c, h) \/ PushQuoted(c, h) \/ BookLoad(c, h) \/ SelectLoad(c, h)
                \/ CancelLoad(c, h)
    BY <1>6 DEF PushesOnly, Post, PushQuoted, BookLoad, SelectLoad, CancelLoad
  <1>7. QED
    BY <1>2, <1>3, <1>4, <1>5, <1>6 DEF Next

\* Every step is one of the intake, or none, and keeps what it relies on.
LEMMA IntakeStep ==
    ASSUME PushesOnly, IntakeInv, [Next]_vars
    PROVE  Kept /\ StepTaken
  <1>1. /\ bookings \in Seq(Booking) /\ runs \in [Runs -> Run]
        /\ \A r \in Runs : NoRun.todo \subseteq runs[r].todo
    BY DEF IntakeInv, TypeInv, TypeOK, NoRun
  <1>2. CASE \E h \in Headers : Push(h)
    BY <1>2, PushPlaces
  <1>3. CASE \E c \in Clients : DupLoad(c)
    BY <1>3, QuietStep DEF DupLoad, SameBookings, BookingsOf, runVars
  <1>4. ASSUME NEW c \in Clients, DupInsert(c) PROVE Kept /\ StepTaken
    <2> DEFINE b == [header |-> NoOrder, visual |-> calls[c].visual,
                     status |-> "Ready for booking", lines |-> TRUE]
    <2>1. b \in Booking /\ b.header = NoOrder
      BY DEF Booking, BookingStatuses, IntakeInv, TypeInv, TypeOK, Call
    <2>2. /\ bookings' = Append(bookings, b)
          /\ boks' = boks /\ pushed' = pushed /\ runs' = runs
      BY <1>4 DEF DupInsert, runVars
    <2> HIDE DEF b
    <2>3. \A h \in Headers : SameBookings(h)
      BY <1>1, <2>1, <2>2, AppendAdds DEF PushesOnly
    <2>4. QED
      BY <2>2, <2>3, QuietStep
  <1>5. CASE Tick \/ UNCHANGED vars
    BY <1>5, QuietStep DEF Tick, vars, clientVars, runVars, SameBookings, BookingsOf
  <1>6. ASSUME NEW r \in Runs, ReadOption(r) \/ RunStep(r) \/ Crash(r) PROVE Kept /\ StepTaken
    <2>1. CASE Mapping(r)
      <3>1. PICK q \in runs[r].todo : MapBok(r, q)
        BY <2>1 DEF Mapping
      <3>2. CASE q.order \in Poison
        <4>1. boks' = boks /\ bookings' = bookings /\ pushed' = pushed
          BY <3>1, <3>2 DEF MapBok
        <4>2. \A s \in Runs : runs'[s].todo \subseteq runs[s].todo
          BY <1>1, <3>1 DEF MapBok, Run
        <4>3. QED
          BY <4>1, <4>2, QuietStep DEF SameBookings, BookingsOf
      <3>3. CASE q.order \notin Poison
        BY <3>1, <3>3, MapBooks
      <3>4. QED
        BY <3>2, <3>3
    <2>2. CASE Scan(r)
      <3>1. PICK batch \in SUBSET Ready :
                runs' = [runs EXCEPT ![r] =
                   [@ EXCEPT !.pc = "map", !.start = NextVisual, !.count = Cardinality(batch),
                             !.todo = Copies(batch)]]
        BY <2>2 DEF Scan
      <3>2. boks' = boks /\ bookings' = bookings /\ pushed' = pushed
        BY <2>2 DEF Scan, clientVars
      <3>3. \A s \in Runs : s = r
        BY DEF PushesOnly
      <3>4. runs'[r].todo = Copies(batch)
        BY <1>1, <3>1 DEF Run
      <3>5. \A q \in Copies(batch) :
                Code(q.order) \in ReadyCodes /\ q.copy = boks[q.order].header
        BY DEF Copies, Ready
      <3>6. Current(r)'
        BY <3>2, <3>4, <3>5 DEF Current, Code
      <3>7. QED
        BY <3>2, <3>3, <3>6, QuietStep DEF SameBookings, BookingsOf
    <2>3. CASE Hold(r)
      <3>1. \A h : SameBookings(h)
        BY <1>1, <2>3, HoldAdds
      <3>2. boks' = boks /\ pushed' = pushed /\ \A s \in Runs : runs'[s].todo = runs[s].todo
        BY <1>1, <2>3 DEF Hold, clientVars, Run
      <3>3. QED
        BY <3>1, <3>2, QuietStep
    <2>4. CASE ReadOption(r) \/ Claim(r) \/ BatchDone(r) \/ Release(r) \/ Crash(r)
      <3>1. boks' = boks /\ bookings' = bookings /\ pushed' = pushed
        BY <2>4 DEF ReadOption, Claim, BatchDone, Release, Crash, clientVars
      <3>2. \A s \in Runs : runs'[s].todo \subseteq runs[s].todo
        <4>1. CASE Claim(r) \/ BatchDone(r)
          <5>1. PICK pc \in {"scan", "hold"} : runs' = [runs EXCEPT ![r].pc = pc]
            BY <4>1 DEF Claim, BatchDone
          <5>2. \A s \in Runs : runs'[s].todo = runs[s].todo
            BY <1>1, <5>1 DEF Run
          <5>3. QED
            BY <5>2
        <4>2. CASE ReadOption(r) \/ Release(r) \/ Crash(r)
          <5>1. NoRun.todo = {} /\ [NoRun EXCEPT !.pc = "claim", !.end = option.end].todo = {}
            BY DEF NoRun
          <5>2. PICK run \in {NoRun, [NoRun EXCEPT !.pc = "claim", !.end = option.end]} :
                    runs' = [runs EXCEPT ![r] = run]
            BY <4>2 DEF ReadOption, Release, Crash
          <5>3. run.todo = {}
            BY <5>1, <5>2
          <5>4. QED
            BY <1>1, <5>2, <5>3
        <4>3. QED
          BY <2>4, <4>1, <4>2
      <3>3. QED
        BY <3>1, <3>2, QuietStep DEF SameBookings, BookingsOf
    <2>5. QED
      BY <1>6, <2>1, <2>2, <2>3, <2>4 DEF RunStep
  <1>7. QED
    BY <1>2, <1>3, <1>4, <1>5, <1>6, HeadersLeftStep

\* If orders are pushed ready, the mapping runs once at a time and clients at most
\* duplicate bookings besides, BokMapping implements OrderIntake: an order becomes
\* one booking, with its lines, whatever fails or dies on the way.
THEOREM OrdersAreTakenIn ==
    ASSUME PushesOnly
    PROVE  Spec => BookedOnceWithLines
  <1>1. Init => Intake!Init
    BY DEF Init, Intake!Init, Progress
  <1>2. Init => IntakeInv
    <2> SUFFICES ASSUME Init PROVE IntakeInv
      OBVIOUS
    <2>1. TypeInv
      BY TypeInit
    <2>2. HeadersLeft
      BY DEF Init, HeadersLeft, NoCall
    <2>3. \A h \in Headers : BookingsOf(h) = {}
      BY DEF Init, BookingsOf
    <2>4. \A h \in Headers : boks[h] = NoBok /\ Code(h) \notin ReadyCodes
      BY DEF Init, Code, NoBok, Gone, ReadyCodes
    <2>5. \A r \in Runs : Current(r)
      BY DEF Init, NoRun, Current
    <2>6. QED
      BY <2>1, <2>2, <2>3, <2>4, <2>5 DEF IntakeInv, Whole
  <1>3. IntakeInv /\ [Next]_vars => IntakeInv'
    <2>1. IntakeInv /\ [Next]_vars => TypeInv'
      BY TypeStep DEF IntakeInv
    <2>2. QED
      BY <2>1, IntakeStep, HeadersLeftStep DEF Kept, IntakeInv
  <1>4. IntakeInv /\ [Next]_vars => [Intake!Next]_([h \in Headers |-> Progress(h)])
    BY IntakeStep DEF StepTaken, OrdersSeen
  <1>5. QED
    BY <1>1, <1>2, <1>3, <1>4, PTL DEF Spec, BookedOnceWithLines, Intake!Spec

=============================================================================

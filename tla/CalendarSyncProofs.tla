------------------------- MODULE CalendarSyncProofs -------------------------
(***************************************************************************)
(* What the import of Airbnb's calendar guarantees for every set of stays, *)
(* imports, requests and bookings: its rows are one reading of the feed,   *)
(* the host's own blocks survive it, and the nights Airbnb was asked about *)
(* and answered were free there.                                           *)
(***************************************************************************)
EXTENDS CalendarSync, TLAPS

LEMMA Apart ==
  /\ Null \notin Uid /\ Null \notin Event
  /\ Null \notin [Uid -> SUBSET Int]
  /\ Cron \in Importer
  BY CalendarSyncAssumption

LEMMA Days ==
  /\ \A e \in Event : e.in \in Int /\ e.out \in Int /\ e.in <= e.out
  /\ \A s \in Stay : s.in \in Int /\ s.out \in Int /\ s.in <= s.out
  /\ \A r \in BlockRange : r.first \in Int /\ r.last \in Int /\ r.first <= r.last
  BY CalendarSyncAssumption DEF IsStay, IsRange

\* What an imported block says.
LEMMA Blocks ==
  /\ \A u \in Uid, e \in Event : /\ ToBlock(u, e) \in Block
                                 /\ ToBlock(u, e).uid = u
                                 /\ ToBlock(u, e).first = e.in
                                 /\ ToBlock(u, e).last = e.out - 1
  /\ \A b \in Block : /\ b.source = "AIRBNB" /\ b.uid \in Uid
                      /\ b.first \in Int /\ b.last \in Int
  BY Days DEF Block, ToBlock

-----------------------------------------------------------------------------
(* A reading of the feed *)

LEMMA FeedIsEntries ==
  /\ \A v \in Feed : v.uid \in Uid /\ v.event \in Event /\ feed[v.uid] = v.event
  /\ SoldThere \in SUBSET Int
  <1>1. \A v \in Feed : v.uid \in Uid /\ v.event \in Event /\ feed[v.uid] = v.event
    BY DEF Feed
  <1>2. \A v \in Feed : Nights(v.event) \subseteq Int
    BY <1>1, Days DEF Nights
  <1> QED
    BY <1>1, <1>2 DEF SoldThere

LEMMA Parsed ==
  ASSUME TypeOK
  PROVE  /\ ParseIcal(Feed) \subseteq Block
         /\ IsReading(ParseIcal(Feed))
         /\ \A b : b \in ParseIcal(Feed) <=>
               \E u \in Uid : /\ feed[u] \in Event /\ b = ToBlock(u, feed[u])
                              /\ b.last >= b.first
  <1>1. \A b : b \in ParseIcal(Feed) <=>
            \E u \in Uid : /\ feed[u] \in Event /\ b = ToBlock(u, feed[u])
                           /\ b.last >= b.first
    <2>1. \A v : v \in Feed <=>
              \E u \in Uid : feed[u] \in Event /\ v = [uid |-> u, event |-> feed[u]]
      BY DEF Feed
    <2>2. \A b : b \in ParseIcal(Feed) <=>
              \E v \in Feed : b = ToBlock(v.uid, v.event) /\ b.last >= b.first
      BY DEF ParseIcal
    <2>3. ASSUME NEW b, b \in ParseIcal(Feed)
          PROVE  \E u \in Uid : /\ feed[u] \in Event /\ b = ToBlock(u, feed[u])
                                /\ b.last >= b.first
      BY <2>1, <2>2, <2>3
    <2>4. ASSUME NEW b, NEW u \in Uid, feed[u] \in Event, b = ToBlock(u, feed[u]),
                 b.last >= b.first
          PROVE  b \in ParseIcal(Feed)
      <3> DEFINE v == [uid |-> u, event |-> feed[u]]
      <3>1. v \in Feed /\ v.uid = u /\ v.event = feed[u]
        BY <2>1, <2>4
      <3> HIDE DEF v
      <3> QED
        BY <2>2, <2>4, <3>1
    <2> QED
      BY <2>3, <2>4
  <1>2. ParseIcal(Feed) \subseteq Block
    BY <1>1, Blocks
  <1>3. IsReading(ParseIcal(Feed))
    BY <1>1, <1>2, Blocks DEF IsReading
  <1> QED
    BY <1>1, <1>2, <1>3

\* To the night, the blocks that are read close what Airbnb sold.
LEMMA ReadingIsTheFeed ==
  ASSUME TypeOK, NEW u \in Uid
  PROVE  Closed(ParseIcal(Feed), u) = EventNights(u)
  <1> DEFINE of == {c \in ParseIcal(Feed) : c.uid = u}
             e == feed[u]
  <1>1. CASE e \notin Event
    <2>1. of = {}
      BY <1>1, Parsed, Blocks
    <2> QED
      BY <1>1, <2>1 DEF Closed, EventNights
  <1>2. CASE e \in Event /\ e.in = e.out
    <2>1. of = {}
      BY <1>2, Parsed, Blocks, Days
    <2>2. Nights(e) = {}
      BY <1>2, Days DEF Nights
    <2> QED
      BY <1>2, <2>1, <2>2 DEF Closed, EventNights
  <1>3. CASE e \in Event /\ e.in # e.out
    <2>1. of = {ToBlock(u, e)}
      BY <1>3, Parsed, Blocks, Days
    <2>2. BlockedNights(ToBlock(u, e)) = Nights(e)
      BY <1>3, Blocks DEF BlockedNights, Nights
    <2>3. {BlockedNights(b) : b \in of} = {Nights(e)}
      BY <2>1, <2>2
    <2> QED
      BY <1>3, <2>3 DEF Closed, EventNights
  <1> QED
    BY <1>1, <1>2, <1>3

-----------------------------------------------------------------------------
(* Type correctness *)

\* What a request is in the middle of.
LEMMA Tasks ==
  ASSUME NEW t \in Task
  PROVE  /\ t.stage \in {"idle", "ask", "insert", "move", "block"}
         /\ t.stage = "idle" <=> t = Idle
         /\ t.stage \in {"ask", "insert", "move"} => t.stay \in Stay
         /\ t.stage = "insert" => t.asked \in Question \cup {Null}
         /\ t.stage = "move" => t.b \in Booking
         /\ t.stage = "block" => t.range \in BlockRange
  <1>1. \/ t = Idle
        \/ t \in [stage : {"ask"}, stay : Stay]
        \/ t \in [stage : {"insert"}, stay : Stay, asked : Question \cup {Null}]
        \/ t \in [stage : {"move"}, b : Booking, stay : Stay]
        \/ t \in [stage : {"block"}, range : BlockRange]
    BY Zenon DEF Task
  <1>2. CASE t = Idle
    BY <1>2 DEF Idle
  <1>3. CASE t \in [stage : {"ask"}, stay : Stay]
    BY <1>3 DEF Idle
  <1>4. CASE t \in [stage : {"insert"}, stay : Stay, asked : Question \cup {Null}]
    BY <1>4 DEF Idle
  <1>6. CASE t \in [stage : {"move"}, b : Booking, stay : Stay]
    BY <1>6 DEF Idle
  <1>5. CASE t \in [stage : {"block"}, range : BlockRange]
    BY <1>5 DEF Idle
  <1> QED
    BY <1>1, <1>2, <1>3, <1>4, <1>5, <1>6

LEMMA Imports ==
  ASSUME NEW m \in Import
  PROVE  /\ m.stage = "idle" <=> m = Idle
         /\ m # Idle => m.stage \in {"apply", "collisions"} /\ m.blocks \in SUBSET Block
  BY DEF Import, Idle

\* The steps an import or a request goes on with.
LEMMA Goes ==
  /\ Idle \in Task /\ Idle \in Import
  /\ \A stage \in {"apply", "collisions"}, blocks \in SUBSET Block :
        [stage |-> stage, blocks |-> blocks] \in Import
  /\ \A s \in Stay : [stage |-> "ask", stay |-> s] \in Task
  /\ \A s \in Stay, a \in Question \cup {Null} :
        [stage |-> "insert", stay |-> s, asked |-> a] \in Task
  /\ \A b \in Booking, s \in Stay : [stage |-> "move", b |-> b, stay |-> s] \in Task
  /\ \A r \in BlockRange : [stage |-> "block", range |-> r] \in Task
  BY DEF Task, Import, Idle

\* The parts of TypeOK, a table each.
FeedOK == feed \in [Uid -> Event \cup {Null}]

RowsOK ==
  /\ \A r \in rows :
        \/ r \in Block
        \/ /\ r.source = "MANUAL" /\ r.uid = Null
           /\ [first |-> r.first, last |-> r.last] \in BlockRange
  /\ IsReading({r \in rows : r.uid # Null})

BookingOK ==
  /\ booking \in [Booking -> DirectBooking]
  /\ \A b \in Booking : booking[b].status # "NONE" => booking[b].stay \in Stay

ImportOK ==
  /\ import \in [Importer -> Import]
  /\ \A i \in Importer : import[i] # Idle => IsReading(import[i].blocks)

LEMMA Parts ==
  /\ TypeOK <=> /\ FeedOK /\ RowsOK /\ BookingOK /\ ImportOK
                /\ task \in [Request -> Task] /\ collisions \subseteq Booking
  /\ TypeOK' <=> /\ FeedOK' /\ RowsOK' /\ BookingOK' /\ ImportOK'
                 /\ task' \in [Request -> Task] /\ collisions' \subseteq Booking
  BY DEF TypeOK, FeedOK, RowsOK, BookingOK, ImportOK

\* A table that is left alone stays well formed.
LEMMA LeftAlone ==
  ASSUME TypeOK
  PROVE  /\ UNCHANGED feed => FeedOK'
         /\ UNCHANGED rows => RowsOK'
         /\ UNCHANGED booking => BookingOK'
         /\ UNCHANGED import => ImportOK'
         /\ UNCHANGED task => task' \in [Request -> Task]
         /\ UNCHANGED collisions => collisions' \subseteq Booking
  BY Parts DEF FeedOK, RowsOK, BookingOK, ImportOK

LEMMA TypeInit == Init => TypeOK
  <1> SUFFICES ASSUME Init
               PROVE  TypeOK
    OBVIOUS
  <1>1. FeedOK /\ RowsOK
    BY DEF Init, FeedOK, RowsOK, IsReading
  <1>2. BookingOK
    <2>1. [status |-> "NONE", stay |-> Null, asked |-> Null] \in DirectBooking
      BY DEF DirectBooking
    <2>2. /\ booking \in [Booking -> DirectBooking]
          /\ \A b \in Booking : booking[b].status = "NONE"
      BY <2>1 DEF Init
    <2> QED
      BY <2>2 DEF BookingOK
  <1>3. ImportOK /\ task \in [Request -> Task] /\ collisions \subseteq Booking
    BY Goes DEF Init, ImportOK
  <1> QED
    BY <1>1, <1>2, <1>3, Parts

\* An import goes on, with a reading if with anything.
LEMMA ImportGoesOn ==
  ASSUME TypeOK, NEW i \in Importer, NEW m \in Import, import' = [import EXCEPT ![i] = m],
         m # Idle => IsReading(m.blocks)
  PROVE  ImportOK'
  BY Parts DEF ImportOK

\* The rows an import leaves: the host's, and its own blocks.
LEMMA Replaced ==
  ASSUME TypeOK, NEW i \in Importer, Apply(i)
  PROVE  /\ import[i].blocks \in SUBSET Block /\ IsReading(import[i].blocks)
         /\ rows' = {r \in rows : r.uid = Null} \cup import[i].blocks
  <1> DEFINE blocks == import[i].blocks
             seen == {b.uid : b \in blocks}
  <1>1. blocks \in SUBSET Block /\ IsReading(blocks)
    BY Parts, Imports DEF Apply, ImportOK, Idle
  <1>2. rows' = {r \in Kept(seen) : r.uid \notin seen} \cup blocks
    BY DEF Apply
  <1>3. \A r \in rows : r.uid # Null => r \in Block
    BY Parts DEF RowsOK
  <1>4. \A r \in rows : r \in Kept(seen) /\ r.uid \notin seen <=> r.uid = Null
    <2>1. \A r \in rows : r.uid # Null => r.source = "AIRBNB"
      BY <1>3, Blocks
    <2>2. \A r \in rows : r.uid = Null => r.source = "MANUAL"
      BY Blocks, Apart, Parts DEF RowsOK
    <2>3. Null \notin seen
      BY <1>1, Blocks, Apart
    <2> HIDE DEF seen
    <2> QED
      BY <2>1, <2>2, <2>3 DEF Kept
  <1>5. Kept(seen) \subseteq rows
    BY DEF Kept
  <1> HIDE DEF blocks, seen
  <1>6. {r \in Kept(seen) : r.uid \notin seen} = {r \in rows : r.uid = Null}
    BY <1>4, <1>5
  <1> QED
    BY <1>1, <1>2, <1>6 DEF blocks
LEMMA ImportsKeepTypes ==
  ASSUME TypeOK, NEW i \in Importer, Fetch(i) \/ Apply(i) \/ Report(i) \/ ImportFails(i)
  PROVE  TypeOK'
  <1>1. CASE Fetch(i)
    <2> DEFINE m == [stage |-> "apply", blocks |-> ParseIcal(Feed)]
    <2>1. m \in Import /\ IsReading(m.blocks)
      BY Parsed, Goes
    <2>2. import' = [import EXCEPT ![i] = m] /\ UNCHANGED <<feed, rows, booking, task, collisions>>
      BY <1>1 DEF Fetch
    <2> HIDE DEF m
    <2> QED
      BY <2>1, <2>2, ImportGoesOn, LeftAlone, Parts
  <1>2. CASE Apply(i)
    <2> DEFINE blocks == import[i].blocks
               m == [stage |-> "collisions", blocks |-> blocks]
    <2>1. /\ blocks \in SUBSET Block /\ IsReading(blocks)
          /\ rows' = {r \in rows : r.uid = Null} \cup blocks
      BY <1>2, Replaced
    <2>2. m \in Import /\ IsReading(m.blocks)
      BY <2>1, Goes
    <2>3. import' = [import EXCEPT ![i] = m] /\ UNCHANGED <<feed, booking, task, collisions>>
      BY <1>2 DEF Apply
    <2> HIDE DEF m, blocks
    <2>4. {r \in rows' : r.uid # Null} = blocks
      BY <2>1, Blocks, Apart
    <2>5. \A r \in rows' : \/ r \in Block
                           \/ /\ r.source = "MANUAL" /\ r.uid = Null
                              /\ [first |-> r.first, last |-> r.last] \in BlockRange
      BY <2>1, Blocks, Apart, Parts DEF RowsOK
    <2>6. RowsOK'
      BY <2>1, <2>4, <2>5 DEF RowsOK
    <2> QED
      BY <2>2, <2>3, <2>6, ImportGoesOn, LeftAlone, Parts
  <1>3. CASE Report(i)
    <2>1. /\ import' = [import EXCEPT ![i] = Idle] /\ UNCHANGED <<feed, rows, booking, task>>
          /\ collisions' \subseteq Booking
      BY <1>3 DEF Report, Collisions, Live
    <2> QED
      BY <2>1, Goes, ImportGoesOn, LeftAlone, Parts
  <1>4. CASE ImportFails(i)
    <2>1. import' = [import EXCEPT ![i] = Idle] /\ UNCHANGED <<feed, rows, booking, task, collisions>>
      BY <1>4 DEF ImportFails
    <2> QED
      BY <2>1, Goes, ImportGoesOn, LeftAlone, Parts
  <1> QED
    BY <1>1, <1>2, <1>3, <1>4

\* A request that only goes on.
LEMMA RequestGoesOn ==
  ASSUME TypeOK, NEW p \in Request, NEW t \in Task, Begin(p, t)
  PROVE  task' \in [Request -> Task]
  BY Parts DEF Begin

LEMMA RequestsKeepTypes ==
  ASSUME TypeOK, NEW p \in Request,
         \/ ReadBlocks(p) \/ AskAirbnb(p) \/ AirbnbSilent(p) \/ CreateManual(p)
         \/ Update(p) \/ CheckBlock(p) \/ Abort(p)
  PROVE  TypeOK'
  <1>1. UNCHANGED <<feed, rows, booking, import, collisions>>
    BY DEF ReadBlocks, AskAirbnb, AirbnbSilent, CreateManual, Update, CheckBlock, Abort
  <1>2. task[p] \in Task
    BY Parts
  <1>3. CASE ReadBlocks(p)
    BY <1>1, <1>3, Goes, RequestGoesOn, LeftAlone, Parts DEF ReadBlocks
  <1>4. CASE AskAirbnb(p) \/ AirbnbSilent(p)
    <2>1. task[p].stay \in Stay
      BY <1>2, <1>4, Tasks DEF AskAirbnb, AirbnbSilent
    <2> DEFINE q == [stay |-> task[p].stay, sold |-> SoldThere]
    <2>2. PICK a \in {q, Null} :
              Begin(p, [stage |-> "insert", stay |-> task[p].stay, asked |-> a])
      BY <1>4 DEF AskAirbnb, AirbnbSilent
    <2>3. a \in Question \cup {Null}
      BY <2>1, <2>2, FeedIsEntries DEF Question
    <2> QED
      BY <1>1, <2>1, <2>2, <2>3, Goes, RequestGoesOn, LeftAlone, Parts
  <1>5. CASE CreateManual(p)
    BY <1>1, <1>5, Goes, RequestGoesOn, LeftAlone, Parts DEF CreateManual
  <1>6. CASE CheckBlock(p)
    BY <1>1, <1>6, Goes, RequestGoesOn, LeftAlone, Parts DEF CheckBlock
  <1>7. CASE Abort(p)
    BY <1>1, <1>7, Goes, RequestGoesOn, LeftAlone, Parts DEF Abort
  <1>8. CASE Update(p)
    <2>1. PICK b \in Live, sent \in Stay \cup {Null} :
              Begin(p, [stage |-> "move", b |-> b,
                        stay |-> IF sent = Null THEN booking[b].stay ELSE sent])
      BY <1>8 DEF Update
    <2>2. b \in Booking /\ booking[b].stay \in Stay
      BY Parts DEF BookingOK, Live
    <2>3. (IF sent = Null THEN booking[b].stay ELSE sent) \in Stay
      BY <2>2
    <2> QED
      BY <1>1, <2>1, <2>2, <2>3, Goes, RequestGoesOn, LeftAlone, Parts
  <1> QED
    BY <1>3, <1>4, <1>5, <1>6, <1>7, <1>8

\* A change to one booking that keeps it well formed.
LEMMA BookingGoesOn ==
  ASSUME TypeOK, NEW b \in Booking, NEW row \in DirectBooking,
         booking' = [booking EXCEPT ![b] = row],
         row.status # "NONE" => row.stay \in Stay
  PROVE  BookingOK'
  <1>1. \A c \in Booking : booking'[c] = IF c = b THEN row ELSE booking[c]
    BY Parts DEF BookingOK
  <1> QED
    BY <1>1, Parts DEF BookingOK

LEMMA MoveKeepsTypes ==
  ASSUME TypeOK, NEW p \in Request, MoveStay(p)
  PROVE  TypeOK'
  <1>1. PICK b \in Booking, s \in Stay : b = task[p].b /\ s = task[p].stay
    BY Parts, Tasks DEF MoveStay
  <1> DEFINE row == [booking[b] EXCEPT !.stay = s]
  <1>2. row \in DirectBooking /\ row.stay = s
    BY Parts DEF BookingOK, DirectBooking
  <1>3. booking' = [booking EXCEPT ![b] = row]
    BY <1>1 DEF MoveStay
  <1> HIDE DEF row
  <1>4. BookingOK'
    BY <1>2, <1>3, BookingGoesOn
  <1>5. Begin(p, Idle) /\ UNCHANGED <<feed, rows, import, collisions>>
    BY DEF MoveStay
  <1> QED
    BY <1>4, <1>5, Goes, RequestGoesOn, LeftAlone, Parts

LEMMA InsertKeepsTypes ==
  ASSUME TypeOK, NEW p \in Request, InsertBooking(p)
  PROVE  TypeOK'
  <1> DEFINE row == [status |-> "live", stay |-> task[p].stay, asked |-> task[p].asked]
  <1>1. task[p].stay \in Stay /\ row \in DirectBooking
    <2>1. task[p].stay \in Stay /\ task[p].asked \in Question \cup {Null}
      BY Parts, Tasks DEF InsertBooking
    <2> QED
      BY <2>1 DEF DirectBooking
  <1>2. PICK b \in Booking : booking' = [booking EXCEPT ![b] = row]
    BY DEF InsertBooking
  <1>4. row.stay \in Stay
    BY <1>1
  <1> HIDE DEF row
  <1>5. BookingOK'
    BY <1>1, <1>2, <1>4, BookingGoesOn
  <1>6. Begin(p, Idle) /\ UNCHANGED <<feed, rows, import, collisions>>
    BY DEF InsertBooking
  <1> QED
    BY <1>5, <1>6, Goes, RequestGoesOn, LeftAlone, Parts

LEMMA HostKeepsTypes ==
  ASSUME TypeOK,
         \/ \E p \in Request : InsertBlock(p)
         \/ \E r \in rows : UnblockDates(r)
  PROVE  TypeOK'
  <1>1. ASSUME NEW p \in Request, InsertBlock(p)
        PROVE  TypeOK'
    <2> DEFINE range == task[p].range
               row == [source |-> "MANUAL", uid |-> Null, first |-> range.first, last |-> range.last]
    <2>1. range \in BlockRange
      BY <1>1, Parts, Tasks DEF InsertBlock
    <2>2. [first |-> row.first, last |-> row.last] \in BlockRange
      BY <2>1, CalendarSyncAssumption DEF IsRange
    <2>3. row.source = "MANUAL" /\ row.uid = Null
      OBVIOUS
    <2>4. /\ rows' = rows \cup {row} /\ Begin(p, Idle)
          /\ UNCHANGED <<feed, booking, import, collisions>>
      BY <1>1 DEF InsertBlock
    <2> HIDE DEF row, range
    <2>5. {r \in rows' : r.uid # Null} = {r \in rows : r.uid # Null}
      BY <2>3, <2>4
    <2>6. RowsOK'
      BY <2>2, <2>3, <2>4, <2>5, Parts DEF RowsOK
    <2> QED
      BY <2>4, <2>6, Goes, RequestGoesOn, LeftAlone, Parts
  <1>2. ASSUME NEW r \in rows, UnblockDates(r)
        PROVE  TypeOK'
    <2>1. rows' \subseteq rows /\ UNCHANGED <<feed, booking, import, task, collisions>>
      BY <1>2 DEF UnblockDates
    <2>2. RowsOK'
      BY <2>1, Parts DEF RowsOK, IsReading
    <2> QED
      BY <2>1, <2>2, LeftAlone, Parts
  <1> QED
    BY <1>1, <1>2

LEMMA TypeStep == TypeOK /\ [Next]_vars => TypeOK'
  <1> SUFFICES ASSUME TypeOK, [Next]_vars
               PROVE  TypeOK'
    OBVIOUS
  <1>1. CASE UNCHANGED vars
    BY <1>1, LeftAlone, Parts DEF vars
  <1>2. ASSUME NEW u \in Uid, AirbnbSells(u) \/ AirbnbMoves(u) \/ AirbnbCancels(u)
        PROVE  TypeOK'
    <2>1. FeedOK' /\ UNCHANGED <<rows, booking, import, task, collisions>>
      BY <1>2, Parts DEF AirbnbSells, AirbnbMoves, AirbnbCancels, FeedOK
    <2> QED
      BY <2>1, LeftAlone, Parts
  <1>3. ASSUME NEW b \in Booking, BookingEnds(b) \/ BookingReturns(b)
        PROVE  TypeOK'
    <2>1. PICK status \in {"live", "gone"} :
             booking' = [booking EXCEPT ![b] = [booking[b] EXCEPT !.status = status]]
      BY <1>3 DEF BookingEnds, BookingReturns
    <2>2. booking[b].stay \in Stay /\ UNCHANGED <<feed, rows, import, task, collisions>>
      BY <1>3, Parts DEF BookingEnds, BookingReturns, BookingOK, Live
    <2> DEFINE row == [booking[b] EXCEPT !.status = status]
    <2>3. row \in DirectBooking /\ row.stay \in Stay
      BY <2>2, Parts DEF BookingOK, DirectBooking
    <2>4. booking' = [booking EXCEPT ![b] = row]
      BY <2>1
    <2> HIDE DEF row
    <2>5. BookingOK'
      BY <2>3, <2>4, BookingGoesOn
    <2> QED
      BY <2>2, <2>5, LeftAlone, Parts
  <1> QED
    BY <1>1, <1>2, <1>3, ImportsKeepTypes, RequestsKeepTypes, MoveKeepsTypes,
       InsertKeepsTypes, HostKeepsTypes
    DEF Next

\* Rows, bookings, imports and requests stay well formed: one row for each
\* event, so that the unique key never refuses an import.
THEOREM TypeCorrect == Spec => []TypeOK
  BY TypeInit, TypeStep, PTL DEF Spec
-----------------------------------------------------------------------------
(* The host's own blocks *)

\* Whatever the feed says, an import leaves the nights the host closed by hand.
THEOREM ImportsSpareTheHost == Spec => HostBlocksSurvive
  <1> DEFINE Spared == \A i \in Importer :
                           import'[i] # import[i] =>
                               {r \in rows : r.source = "MANUAL"} \subseteq rows'
  <1>1. ASSUME TypeOK, [Next]_vars
        PROVE  Spared
    <2>1. ASSUME NEW i \in Importer, Apply(i)
          PROVE  {r \in rows : r.source = "MANUAL"} \subseteq rows'
      <3>1. \A r \in rows : r.source = "MANUAL" => r.uid = Null
        BY <1>1, Blocks, Parts DEF RowsOK
      <3> QED
        BY <1>1, <2>1, <3>1, Replaced
    <2>2. \/ UNCHANGED rows
          \/ UNCHANGED import
          \/ \E i \in Importer : Apply(i)
      BY <1>1 DEF Next, vars, AirbnbSells, AirbnbMoves, AirbnbCancels, Fetch, Report,
                  ImportFails, ReadBlocks, AskAirbnb, AirbnbSilent, CreateManual,
                  InsertBooking, Update, MoveStay, CheckBlock, InsertBlock, Abort,
                  BookingEnds, BookingReturns, UnblockDates
    <2> QED
      BY <2>1, <2>2
  <1>2. TypeOK /\ [Next]_vars => [Spared]_vars
    BY <1>1
  <1> QED
    BY <1>2, TypeCorrect, PTL DEF Spec, HostBlocksSurvive

-----------------------------------------------------------------------------
(* Holds that Airbnb answered *)

\* No night that was asked about was sold to Airbnb when it answered.  What the
\* booking's nights are by now, and whether it still holds them, do not matter.
FreeOf(asked) ==
  asked # Null => asked.sold \cap Nights(asked.stay) = {}

AnswersWereFree ==
  /\ \A b \in Booking : FreeOf(booking[b].asked)
  /\ \A p \in Request : task[p].stage = "insert" => FreeOf(task[p].asked)

\* An answer that lets a hold through has none of its nights.
LEMMA AnswerIsFree ==
  ASSUME TypeOK, NEW s \in Stay, ~TakenOnAirbnb(s)
  PROVE  SoldThere \cap Nights(s) = {}
  <1> SUFFICES ASSUME NEW v \in Feed
               PROVE  Nights(v.event) \cap Nights(s) = {}
    BY DEF SoldThere
  <1> DEFINE b == ToBlock(v.uid, v.event)
             e == v.event
  <1>1. /\ e \in Event /\ feed[v.uid] = e /\ v.uid \in Uid
        /\ b.first = e.in /\ b.last = e.out - 1
        /\ e.in \in Int /\ e.out \in Int /\ e.in <= e.out
        /\ s.in \in Int /\ s.out \in Int /\ s.in <= s.out
    BY FeedIsEntries, Blocks, Days
  <1>2. CASE e.in = e.out
    BY <1>1, <1>2 DEF Nights
  <1>3. CASE e.in # e.out
    <2>1. b \in ParseIcal(Feed)
      BY <1>1, <1>3, Parsed
    <2>2. ~BlockHits(b, s)
      BY <2>1 DEF TakenOnAirbnb
    <2> HIDE DEF b, e
    <2>3. ~(e.in < s.out /\ e.out - 1 >= s.in)
      BY <1>1, <2>2 DEF BlockHits
    <2>4. Nights(e) \cap Nights(s) = {}
      BY <1>1, <2>3 DEF Nights
    <2> QED
      BY <2>4 DEF e
  <1> QED
    BY <1>2, <1>3

LEMMA AnswerStep == TypeOK /\ AnswersWereFree /\ [Next]_vars => AnswersWereFree'
  <1> SUFFICES ASSUME TypeOK, AnswersWereFree, [Next]_vars
               PROVE  AnswersWereFree'
    OBVIOUS
  <1>1. CASE UNCHANGED <<booking, task>>
    BY <1>1 DEF AnswersWereFree
  <1>2. ASSUME NEW p \in Request, NEW t, Begin(p, t),
               \A b \in Booking : booking'[b].asked = booking[b].asked,
               t.stage = "insert" => FreeOf(t.asked)
        PROVE  AnswersWereFree'
    <2>1. \A q \in Request : task'[q] = IF q = p THEN t ELSE task[q]
      BY <1>2, Parts DEF Begin
    <2> QED
      BY <1>2, <2>1 DEF AnswersWereFree
  <1>3. ASSUME NEW p \in Request, AskAirbnb(p)
        PROVE  AnswersWereFree'
    <2> DEFINE q == [stay |-> task[p].stay, sold |-> SoldThere]
               t == [stage |-> "insert", stay |-> task[p].stay, asked |-> q]
    <2>1. task[p].stay \in Stay
      BY <1>3, Parts, Tasks DEF AskAirbnb
    <2>2. FreeOf(q)
      BY <1>3, <2>1, AnswerIsFree DEF AskAirbnb, FreeOf
    <2>3. t.asked = q /\ Begin(p, t) /\ UNCHANGED booking
      BY <1>3 DEF AskAirbnb
    <2> HIDE DEF t, q
    <2> QED
      BY <1>2, <2>2, <2>3
  <1>4. ASSUME NEW p \in Request, AirbnbSilent(p) \/ CreateManual(p)
        PROVE  AnswersWereFree'
    <2>1. PICK s : Begin(p, [stage |-> "insert", stay |-> s, asked |-> Null])
      BY <1>4 DEF AirbnbSilent, CreateManual
    <2>2. UNCHANGED booking
      BY <1>4 DEF AirbnbSilent, CreateManual
    <2> QED
      BY <1>2, <2>1, <2>2 DEF FreeOf
  <1>5. ASSUME NEW p \in Request,
               ReadBlocks(p) \/ Update(p) \/ CheckBlock(p) \/ InsertBlock(p) \/ Abort(p)
        PROVE  AnswersWereFree'
    <2>1. UNCHANGED booking
      BY <1>5 DEF ReadBlocks, Update, CheckBlock, InsertBlock, Abort
    <2>2. \/ Begin(p, Idle)
          \/ \E s : Begin(p, [stage |-> "ask", stay |-> s])
          \/ \E b, s : Begin(p, [stage |-> "move", b |-> b, stay |-> s])
          \/ \E r : Begin(p, [stage |-> "block", range |-> r])
      BY <1>5 DEF ReadBlocks, Update, CheckBlock, InsertBlock, Abort
    <2>3. Idle.stage # "insert"
      BY DEF Idle
    <2> QED
      BY <1>2, <2>1, <2>2, <2>3
  <1>6. ASSUME NEW p \in Request, InsertBooking(p)
        PROVE  AnswersWereFree'
    <2> DEFINE row == [status |-> "live", stay |-> task[p].stay, asked |-> task[p].asked]
    <2>1. FreeOf(row.asked)
      BY <1>6 DEF InsertBooking, AnswersWereFree
    <2>2. PICK b \in Booking : booking' = [booking EXCEPT ![b] = row]
      BY <1>6 DEF InsertBooking
    <2> HIDE DEF row
    <2>3. \A c \in Booking : booking'[c] = IF c = b THEN row ELSE booking[c]
      BY <2>2, Parts DEF BookingOK
    <2>4. \A c \in Booking : FreeOf(booking'[c].asked)
      BY <2>1, <2>3 DEF AnswersWereFree
    <2>5. task' = [task EXCEPT ![p] = Idle] /\ Idle.stage # "insert"
      BY <1>6 DEF InsertBooking, Begin, Idle
    <2>6. \A q \in Request : task'[q].stage = "insert" => task'[q] = task[q]
      BY <2>5, Parts
    <2> QED
      BY <2>4, <2>6 DEF AnswersWereFree
  <1>7. ASSUME NEW p \in Request, MoveStay(p)
        PROVE  AnswersWereFree'
    <2>1. Begin(p, Idle) /\ Idle.stage # "insert"
      BY <1>7 DEF MoveStay, Idle
    <2>2. \A b \in Booking : booking'[b].asked = booking[b].asked
      BY <1>7, Parts DEF MoveStay, BookingOK, DirectBooking
    <2> QED
      BY <1>2, <2>1, <2>2
  <1>8. ASSUME NEW b \in Booking, BookingEnds(b) \/ BookingReturns(b)
        PROVE  AnswersWereFree'
    <2>1. \A c \in Booking : booking'[c].asked = booking[c].asked
      BY <1>8, Parts DEF BookingEnds, BookingReturns, BookingOK, DirectBooking
    <2>2. UNCHANGED task
      BY <1>8 DEF BookingEnds, BookingReturns
    <2> QED
      BY <2>1, <2>2 DEF AnswersWereFree
  <1> QED
    BY <1>1, <1>3, <1>4, <1>5, <1>6, <1>7, <1>8
    DEF Next, vars, AirbnbSells, AirbnbMoves, AirbnbCancels, Fetch, Apply, Report,
        ImportFails, UnblockDates

\* A live booking that has the nights Airbnb was asked about and answered has
\* none of those Airbnb had sold by then, whatever sweeps, late payments and
\* moves came between.
THEOREM AnswersStayGood == Spec => []AnsweredHoldsWereFree
  <1>1. Init => AnswersWereFree
    BY DEF Init, AnswersWereFree, FreeOf, Idle
  <1>2. AnswersWereFree => AnsweredHoldsWereFree
    BY DEF AnswersWereFree, AnsweredHoldsWereFree, FreeOf, Live
  <1> QED
    BY <1>1, <1>2, AnswerStep, TypeCorrect, PTL DEF Spec
-----------------------------------------------------------------------------
(* The import implements Mirror *)

\* Airbnb's nights, the nights of the imported rows, and those of the blocks
\* each import has read and not written yet.
Source0 == [u \in Uid |-> EventNights(u)]

Copy0 == [u \in Uid |-> Closed(rows, u)]

Reading0 ==
  [i \in Importer |->
     IF import[i].stage = "apply"
     THEN [u \in Uid |-> Closed(import[i].blocks, u)] ELSE Null]

\* Mirror's actions, of these three.
LEMMA MirrorSteps ==
  /\ Copy!Change <=> Source0' \in Copy!Contents /\ UNCHANGED <<Copy0, Reading0>>
  /\ \A i \in Importer :
        /\ Copy!Read(i) <=> /\ Reading0' = [Reading0 EXCEPT ![i] = Source0]
                            /\ UNCHANGED <<Source0, Copy0>>
        /\ Copy!Replace(i) <=> /\ Reading0[i] # Null /\ Copy0' = Reading0[i]
                               /\ Reading0' = [Reading0 EXCEPT ![i] = Null]
                               /\ UNCHANGED Source0
        /\ Copy!GiveUp(i) <=> /\ Reading0' = [Reading0 EXCEPT ![i] = Null]
                              /\ UNCHANGED <<Source0, Copy0>>
  /\ \A u \in Uid : Copy!Drop(u) <=> /\ Copy0' = [Copy0 EXCEPT ![u] = {}]
                                     /\ UNCHANGED <<Source0, Reading0>>
  /\ UNCHANGED Copy!vars <=> UNCHANGED <<Source0, Copy0, Reading0>>
  BY DEF Copy!Change, Copy!Read, Copy!Replace, Copy!GiveUp, Copy!Drop, Copy!vars,
         Source0, Copy0, Reading0

\* What is not touched looks the same from above.
LEMMA MirrorSame ==
  /\ UNCHANGED feed => UNCHANGED Source0
  /\ UNCHANGED rows => UNCHANGED Copy0
  /\ UNCHANGED import => UNCHANGED Reading0
  BY DEF Source0, Copy0, Reading0, EventNights, Closed

\* An import that goes on.
LEMMA ReadingGoesOn ==
  ASSUME TypeOK, NEW i \in Importer, NEW m, import' = [import EXCEPT ![i] = m]
  PROVE  Reading0' = [Reading0 EXCEPT ![i] =
                        IF m.stage = "apply" THEN [u \in Uid |-> Closed(m.blocks, u)] ELSE Null]
  <1>1. \A j \in Importer : import'[j] = IF j = i THEN m ELSE import[j]
    BY Parts DEF ImportOK
  <1> QED
    BY <1>1 DEF Reading0, Closed

LEMMA ImportMirrors ==
  ASSUME TypeOK, NEW i \in Importer, Fetch(i) \/ Apply(i) \/ Report(i) \/ ImportFails(i)
  PROVE  Copy!Next \/ UNCHANGED Copy!vars
  <1>1. CASE Fetch(i)
    <2> DEFINE m == [stage |-> "apply", blocks |-> ParseIcal(Feed)]
    <2>1. import' = [import EXCEPT ![i] = m] /\ UNCHANGED <<feed, rows>>
      BY <1>1 DEF Fetch
    <2>2. [u \in Uid |-> Closed(m.blocks, u)] = Source0
      BY ReadingIsTheFeed DEF Source0
    <2>3. m.stage = "apply"
      OBVIOUS
    <2> HIDE DEF m
    <2>4. Reading0' = [Reading0 EXCEPT ![i] = Source0]
      BY <2>1, <2>2, <2>3, ReadingGoesOn
    <2> QED
      BY <2>1, <2>4, MirrorSame, MirrorSteps DEF Copy!Next
  <1>2. CASE Apply(i)
    <2> DEFINE blocks == import[i].blocks
               m == [stage |-> "collisions", blocks |-> blocks]
    <2>1. /\ blocks \in SUBSET Block
          /\ rows' = {r \in rows : r.uid = Null} \cup blocks
      BY <1>2, Replaced
    <2>2. /\ import' = [import EXCEPT ![i] = m] /\ UNCHANGED feed
          /\ import[i].stage = "apply"
      BY <1>2 DEF Apply
    <2>3. Reading0[i] = [u \in Uid |-> Closed(blocks, u)]
      BY <2>2 DEF Reading0
    <2>4. \A u \in Uid : {c \in rows' : c.uid = u} = {c \in blocks : c.uid = u}
      BY <2>1, Apart
    <2>5. Copy0' = Reading0[i]
      <3>1. Copy0' = [u \in Uid |-> Closed(rows', u)]
        BY DEF Copy0, Closed
      <3>2. \A u \in Uid : Closed(rows', u) = Closed(blocks, u)
        BY <2>4 DEF Closed
      <3> HIDE DEF blocks
      <3> QED
        BY <2>3, <3>1, <3>2
    <2>6. Reading0[i] # Null
      <3>1. \A u \in Uid : Closed(blocks, u) \in SUBSET Int
        BY <2>1, Blocks DEF Closed, BlockedNights
      <3> HIDE DEF blocks
      <3> QED
        BY <2>3, <3>1, Apart
    <2>7. m.stage # "apply"
      OBVIOUS
    <2> HIDE DEF m, blocks
    <2>8. Reading0' = [Reading0 EXCEPT ![i] = Null]
      BY <2>2, <2>7, ReadingGoesOn
    <2> QED
      BY <2>2, <2>5, <2>6, <2>8, MirrorSame, MirrorSteps DEF Copy!Next
  <1>3. CASE Report(i) \/ ImportFails(i)
    <2>1. import' = [import EXCEPT ![i] = Idle] /\ UNCHANGED <<feed, rows>>
      BY <1>3 DEF Report, ImportFails
    <2>2. Reading0' = [Reading0 EXCEPT ![i] = Null]
      <3>1. Idle.stage # "apply"
        BY DEF Idle
      <3> QED
        BY <2>1, <3>1, ReadingGoesOn
    <2> QED
      BY <2>1, <2>2, MirrorSame, MirrorSteps DEF Copy!Next
  <1> QED
    BY <1>1, <1>2, <1>3

LEMMA HostMirrors ==
  ASSUME TypeOK,
         \/ \E p \in Request : InsertBlock(p)
         \/ \E r \in rows : UnblockDates(r)
  PROVE  Copy!Next \/ UNCHANGED Copy!vars
  <1>0. UNCHANGED <<feed, import>>
    BY DEF InsertBlock, UnblockDates
  <1>1. ASSUME NEW p \in Request, InsertBlock(p)
        PROVE  UNCHANGED Copy!vars
    <2>1. PICK row : row.uid = Null /\ rows' = rows \cup {row}
      BY <1>1 DEF InsertBlock
    <2>2. \A u \in Uid : {c \in rows' : c.uid = u} = {c \in rows : c.uid = u}
      BY <2>1, Apart
    <2>3. UNCHANGED Copy0
      BY <2>2 DEF Copy0, Closed
    <2> QED
      BY <1>0, <2>3, MirrorSame, MirrorSteps
  <1>2. ASSUME NEW r \in rows, UnblockDates(r)
        PROVE  Copy!Next \/ UNCHANGED Copy!vars
    <2>1. rows' = rows \ {r}
      BY <1>2 DEF UnblockDates
    <2>2. CASE r.uid = Null
      <3>1. \A u \in Uid : {c \in rows' : c.uid = u} = {c \in rows : c.uid = u}
        BY <2>1, <2>2, Apart
      <3>2. UNCHANGED Copy0
        BY <3>1 DEF Copy0, Closed
      <3> QED
        BY <1>0, <3>2, MirrorSame, MirrorSteps
    <2>3. CASE r.uid # Null
      <3>1. PICK u \in Uid : u = r.uid
        BY <2>3, Blocks, Parts DEF RowsOK
      <3>2. {c \in rows' : c.uid = u} = {}
        BY <2>1, <2>3, <3>1, Parts DEF RowsOK, IsReading
      <3>3. \A v \in Uid \ {u} : {c \in rows' : c.uid = v} = {c \in rows : c.uid = v}
        BY <2>1, <3>1
      <3>4. Closed(rows', u) = {} /\ \A v \in Uid \ {u} : Closed(rows', v) = Closed(rows, v)
        BY <3>2, <3>3 DEF Closed
      <3>5. Copy0' = [v \in Uid |-> Closed(rows', v)]
        BY DEF Copy0, Closed
      <3>6. Copy0' = [Copy0 EXCEPT ![u] = {}]
        BY <3>4, <3>5 DEF Copy0
      <3> QED
        BY <1>0, <3>6, MirrorSame, MirrorSteps DEF Copy!Next
    <2> QED
      BY <2>2, <2>3
  <1> QED
    BY <1>1, <1>2

\* The imported rows are one reading of the feed, never a mixture of two.
THEOREM ImportIsAMirror == Spec => ImplementsMirror
  <1>1. Init => Copy!Init
    <2> SUFFICES ASSUME Init
                 PROVE  Copy!Init
      OBVIOUS
    <2>1. \A u \in Uid : EventNights(u) = {}
      BY Apart DEF Init, EventNights
    <2>2. \A u \in Uid : Closed(rows, u) = {}
      BY DEF Init, Closed
    <2>3. \A i \in Importer : import[i].stage # "apply"
      BY DEF Init, Idle
    <2> QED
      BY <2>1, <2>2, <2>3 DEF Copy!Init, Copy!Empty
  <1>2. ASSUME TypeOK, [Next]_vars
        PROVE  Copy!Next \/ UNCHANGED Copy!vars
    <2>1. ASSUME NEW u \in Uid, AirbnbSells(u) \/ AirbnbMoves(u) \/ AirbnbCancels(u)
          PROVE  Copy!Next
      <3>1. feed' \in [Uid -> Event \cup {Null}] /\ UNCHANGED <<rows, import>>
        BY <1>2, <2>1, Parts DEF AirbnbSells, AirbnbMoves, AirbnbCancels, FeedOK
      <3>2. Source0' \in Copy!Contents
        BY <3>1 DEF Source0, EventNights, Copy!Contents
      <3> QED
        BY <3>1, <3>2, MirrorSame, MirrorSteps DEF Copy!Next
    <2>2. CASE UNCHANGED <<feed, rows, import>>
      BY <2>2, MirrorSame, MirrorSteps
    <2> QED
      BY <1>2, <2>1, <2>2, ImportMirrors, HostMirrors
      DEF Next, vars, ReadBlocks, AskAirbnb, AirbnbSilent, CreateManual, InsertBooking,
          Update, MoveStay, CheckBlock, Abort, BookingEnds, BookingReturns
  <1>3. TypeOK /\ [Next]_vars => [Copy!Next]_Copy!vars
    BY <1>2
  <1> QED
    BY <1>1, <1>3, TypeCorrect, PTL DEF Spec, ImplementsMirror, Copy!Spec
=============================================================================

---------------------------- MODULE CalendarSync ----------------------------
(***************************************************************************)
(* The house is also sold on Airbnb.  Its calendar is imported every       *)
(* quarter of an hour, or when the host asks, into the BlockedDate table,  *)
(* and is asked once more before a guest's hold takes its dates.           *)
(*                                                                         *)
(* Airbnb is outside: it sells and cancels on its own, and may not answer. *)
(* No configured calendar is a calendar that does not answer.  An import   *)
(* or a request is a task with one action per await, which may end at any  *)
(* of them.  The exclusion constraint between direct bookings is in        *)
(* Bookings; here a booking that holds its nights is "live", and one that  *)
(* was cancelled or whose hold lapsed is "gone".                           *)
(***************************************************************************)
EXTENDS Stays, FiniteSets

CONSTANTS
    Uid,        \* the ids of the events in Airbnb's calendar
    Event,      \* the DTSTART and DTEND of a stay in the feed
    Importer,   \* the imports that may be in flight together
    Cron,       \* the one of them the schedule starts
    Request,    \* the API requests that may be in flight together
    Booking,    \* the direct bookings a behaviour may create
    Stay,       \* the stays that are asked for
    BlockRange, \* the ranges the host may block by hand
    Null

ASSUME CalendarSyncAssumption ==
    /\ \A e \in Event : e \in [in : Int, out : Int] /\ e.in <= e.out
    /\ \A s \in Stay : IsStay(s)
    /\ \A r \in BlockRange : IsRange(r)
    /\ Cron \in Importer
    /\ Null \notin Uid /\ Null \notin Event
    /\ Null \notin [Uid -> SUBSET Int]

VARIABLES
    feed,       \* Airbnb's calendar: what each id stands for, Null if not listed
    rows,       \* the BlockedDate table
    booking,    \* the direct bookings
    import,     \* what each import is in the middle of
    task,       \* what each request is in the middle of
    collisions  \* the bookings the last import reported

vars == <<feed, rows, booking, import, task, collisions>>

-----------------------------------------------------------------------------
(* The feed *)

\* What fetchBlocks hands back now.
Feed == {[uid |-> u, event |-> feed[u]] : u \in {v \in Uid : feed[v] \in Event}}

\* A slip: DTEND is copied across.
ToBlockExclusive(u, e) == [source |-> "AIRBNB", uid |-> u, first |-> e.in, last |-> e.out]

\* DTEND is the morning they leave, and the last night is the one before.
ToBlock(u, e) == [source |-> "AIRBNB", uid |-> u, first |-> e.in, last |-> e.out - 1]

\* A slip: an event that covers no night is stored inside out.
ParseIcalKeepingEmpty(text) == {ToBlock(v.uid, v.event) : v \in text}

\* An event that covers no night is dropped.
ParseIcal(text) ==
    {b \in {ToBlock(v.uid, v.event) : v \in text} : b.last >= b.first}

-----------------------------------------------------------------------------
(* The tables *)

Idle == [stage |-> "idle"]

Live == {b \in Booking : booking[b].status = "live"}

Blocked(stay) == \E r \in rows : BlockHits(r, stay)

\* A slip: the block's last night is taken for the morning they leave.
CollisionsHalfOpen(blocks) ==
    {b \in Live : \E r \in blocks :
        r.first < booking[b].stay.out /\ r.last > booking[b].stay.in}

\* The direct bookings under any of these blocks, but for those that are gone.
Collisions(blocks) ==
    {b \in Live : \E r \in blocks : BlockHits(r, booking[b].stay)}

Init ==
    /\ feed = [u \in Uid |-> Null]
    /\ rows = {}
    /\ booking = [b \in Booking |-> [status |-> "NONE", stay |-> Null, asked |-> Null]]
    /\ import = [i \in Importer |-> Idle]
    /\ task = [p \in Request |-> Idle]
    /\ collisions = {}

-----------------------------------------------------------------------------
(* Airbnb *)

AirbnbSells(u) ==
    /\ feed[u] = Null
    /\ \E e \in Event :
          /\ \A v \in Uid : feed[v] \in Event => ~Overlaps(feed[v], e)
          /\ feed' = [feed EXCEPT ![u] = e]
    /\ UNCHANGED <<rows, booking, import, task, collisions>>

\* The guest changes the dates: the event keeps its id.
AirbnbMoves(u) ==
    /\ feed[u] \in Event
    /\ \E e \in Event \ {feed[u]} :
          /\ \A v \in Uid \ {u} : feed[v] \in Event => ~Overlaps(feed[v], e)
          /\ feed' = [feed EXCEPT ![u] = e]
    /\ UNCHANGED <<rows, booking, import, task, collisions>>

AirbnbCancels(u) ==
    /\ feed[u] \in Event
    /\ feed' = [feed EXCEPT ![u] = Null]
    /\ UNCHANGED <<rows, booking, import, task, collisions>>

-----------------------------------------------------------------------------
(* importAirbnb() *)

\* The calendar answers, with what it says at this moment.
Fetch(i) ==
    /\ import[i] = Idle
    /\ import' = [import EXCEPT ![i] = [stage |-> "apply", blocks |-> ParseIcal(Feed)]]
    /\ UNCHANGED <<feed, rows, booking, task, collisions>>

\* A slip: the sweep takes every row the feed does not name, whoever made it.
KeptOfAnySource(seen) == {r \in rows : r.uid \in seen}

\* A slip: merge, not replace.
KeptAll(seen) == rows

\* The rows deleteMany leaves: every AIRBNB row the feed no longer carries
\* goes.  An empty feed takes them all.
Kept(seen) == {r \in rows : ~(r.source = "AIRBNB" /\ r.uid \notin seen)}

\* The transaction of apply(): delete, then write every block, over the row
\* with its uid when there is one.
Apply(i) ==
    /\ import[i].stage = "apply"
    /\ LET blocks == import[i].blocks
           seen == {b.uid : b \in blocks}
       IN /\ rows' = {r \in Kept(seen) : r.uid \notin seen} \cup blocks
          /\ import' = [import EXCEPT ![i] = [stage |-> "collisions", blocks |-> blocks]]
    /\ UNCHANGED <<feed, booking, task, collisions>>

\* The bookings are read after the transaction, against the blocks it wrote.
Report(i) ==
    /\ import[i].stage = "collisions"
    /\ collisions' = Collisions(import[i].blocks)
    /\ import' = [import EXCEPT ![i] = Idle]
    /\ UNCHANGED <<feed, rows, booking, task>>

\* Airbnb or the database throws, or the process stops.  What was committed
\* stays, and the settings row says the import failed.
ImportFails(i) ==
    /\ import[i] # Idle
    /\ import' = [import EXCEPT ![i] = Idle]
    /\ UNCHANGED <<feed, rows, booking, task, collisions>>

-----------------------------------------------------------------------------
(* Requests *)

Begin(p, t) == task' = [task EXCEPT ![p] = t]

\* hold(): the stored blocks first.
ReadBlocks(p) ==
    /\ task[p] = Idle
    /\ \E s \in Stay : /\ ~Blocked(s)
                       /\ Begin(p, [stage |-> "ask", stay |-> s])
    /\ UNCHANGED <<feed, rows, booking, import, collisions>>

\* A slip: the stay is taken to begin after its first night.
TakenOnAirbnbLate(stay) ==
    \E b \in ParseIcal(Feed) : b.first < stay.out /\ b.last > stay.in

TakenOnAirbnb(stay) == \E b \in ParseIcal(Feed) : BlockHits(b, stay)

\* The nights Airbnb's calendar says are sold.
SoldThere == UNION {Nights(v.event) : v \in Feed}

\* Then the live calendar.  A taken night ends the request (Abort).
AskAirbnb(p) ==
    /\ task[p].stage = "ask"
    /\ ~TakenOnAirbnb(task[p].stay)
    /\ Begin(p, [stage |-> "insert", stay |-> task[p].stay,
                 asked |-> [stay |-> task[p].stay, sold |-> SoldThere]])
    /\ UNCHANGED <<feed, rows, booking, import, collisions>>

\* It takes longer than three seconds, or does not answer: null lets the
\* booking through.
AirbnbSilent(p) ==
    /\ task[p].stage = "ask"
    /\ Begin(p, [stage |-> "insert", stay |-> task[p].stay, asked |-> Null])
    /\ UNCHANGED <<feed, rows, booking, import, collisions>>

\* createManual() reads the stored blocks and never asks.
CreateManual(p) ==
    /\ task[p] = Idle
    /\ \E s \in Stay :
          /\ ~Blocked(s)
          /\ Begin(p, [stage |-> "insert", stay |-> s, asked |-> Null])
    /\ UNCHANGED <<feed, rows, booking, import, collisions>>

\* The exclusion constraint between direct bookings.
Fits(b, stay) == \A c \in Live \ {b} : ~Overlaps(booking[c].stay, stay)

\* The insert, under the constraint.  asked remembers what Airbnb was asked and
\* what it answered, and is no column.
InsertBooking(p) ==
    /\ task[p].stage = "insert"
    /\ \E b \in Booking :
          /\ Fits(b, task[p].stay)
          /\ booking[b].status = "NONE"
          /\ booking' = [booking EXCEPT ![b] =
                            [status |-> "live", stay |-> task[p].stay,
                             asked |-> task[p].asked]]
    /\ Begin(p, Idle)
    /\ UNCHANGED <<feed, rows, import, collisions>>

\* update(), up to the write: the host gives a booking other dates, or changes
\* its party on the same ones.  The stored blocks are read, whatever stay they
\* came with, and Airbnb is not asked.
Update(p) ==
    /\ task[p] = Idle
    /\ \E b \in Live, sent \in Stay \cup {Null} :
          LET stay == IF sent = Null THEN booking[b].stay ELSE sent
          IN /\ ~Blocked(stay)
             /\ Begin(p, [stage |-> "move", b |-> b, stay |-> stay])
    /\ UNCHANGED <<feed, rows, booking, import, collisions>>

\* The write, under the constraint, which does not look at a row cancelled
\* since.
MoveStay(p) ==
    /\ task[p].stage = "move"
    /\ task[p].b \in Live => Fits(task[p].b, task[p].stay)
    /\ booking' = [booking EXCEPT ![task[p].b].stay = task[p].stay]
    /\ Begin(p, Idle)
    /\ UNCHANGED <<feed, rows, import, collisions>>

\* Cancelled, or a hold that ran out.
BookingEnds(b) ==
    /\ b \in Live
    /\ booking' = [booking EXCEPT ![b].status = "gone"]
    /\ UNCHANGED <<feed, rows, import, task, collisions>>

\* Its payment is recorded after all and puts it back (confirmPayment): under
\* the constraint again, without a look at the blocks and without asking.
BookingReturns(b) ==
    /\ booking[b].status = "gone"
    /\ Fits(b, booking[b].stay)
    /\ booking' = [booking EXCEPT ![b].status = "live"]
    /\ UNCHANGED <<feed, rows, import, task, collisions>>

\* blockDates(), up to the insert: refused over a live booking.
CheckBlock(p) ==
    /\ task[p] = Idle
    /\ \E r \in BlockRange :
          /\ \A b \in Live : ~BlockHits(r, booking[b].stay)
          /\ Begin(p, [stage |-> "block", range |-> r])
    /\ UNCHANGED <<feed, rows, booking, import, collisions>>

InsertBlock(p) ==
    /\ task[p].stage = "block"
    /\ rows' = rows \cup {[source |-> "MANUAL", uid |-> Null,
                           first |-> task[p].range.first, last |-> task[p].range.last]}
    /\ Begin(p, Idle)
    /\ UNCHANGED <<feed, booking, import, collisions>>

\* unblockDates() deletes by id, an imported row as well.
UnblockDates(r) ==
    /\ r \in rows
    /\ rows' = rows \ {r}
    /\ UNCHANGED <<feed, booking, import, task, collisions>>

Abort(p) ==
    /\ task[p] # Idle
    /\ Begin(p, Idle)
    /\ UNCHANGED <<feed, rows, booking, import, collisions>>

Next ==
    \/ \E u \in Uid : AirbnbSells(u) \/ AirbnbMoves(u) \/ AirbnbCancels(u)
    \/ \E i \in Importer : Fetch(i) \/ Apply(i) \/ Report(i) \/ ImportFails(i)
    \/ \E p \in Request :
          \/ ReadBlocks(p) \/ AskAirbnb(p) \/ AirbnbSilent(p) \/ CreateManual(p)
          \/ InsertBooking(p) \/ Update(p) \/ MoveStay(p)
          \/ CheckBlock(p) \/ InsertBlock(p) \/ Abort(p)
    \/ \E b \in Booking : BookingEnds(b) \/ BookingReturns(b)
    \/ \E r \in rows : UnblockDates(r)

\* The schedule never stops, and Airbnb, the database and the process do not
\* fail every time: the scheduled import gets through again and again.
Fairness ==
    SF_vars(Fetch(Cron)) /\ SF_vars(Apply(Cron)) /\ SF_vars(Report(Cron))

Spec == Init /\ [][Next]_vars /\ Fairness

-----------------------------------------------------------------------------
(* Properties *)

Block == {ToBlock(u, e) : u \in Uid, e \in Event}

Question == [stay : Stay, sold : SUBSET Int]

DirectBooking ==
    [status : {"NONE", "live", "gone"}, stay : Stay \cup {Null},
     asked : Question \cup {Null}]

Import == {Idle} \cup [stage : {"apply", "collisions"}, blocks : SUBSET Block]

Task ==
    {Idle} \cup [stage : {"ask"}, stay : Stay]
    \cup [stage : {"insert"}, stay : Stay, asked : Question \cup {Null}]
    \cup [stage : {"move"}, b : Booking, stay : Stay]
    \cup [stage : {"block"}, range : BlockRange]

\* None of the blocks is inside out, and there is one for each event.
IsReading(blocks) ==
    /\ \A b \in blocks : b.first <= b.last
    /\ \A b, c \in blocks : b.uid = c.uid => b = c

\* Rows, bookings and tasks are well formed: one row for each event, none of
\* them inside out, and the unique key on externalId never refuses an import.
TypeOK ==
    /\ feed \in [Uid -> Event \cup {Null}]
    /\ \A r \in rows :
          \/ r \in Block
          \/ /\ r.source = "MANUAL" /\ r.uid = Null
             /\ [first |-> r.first, last |-> r.last] \in BlockRange
    /\ IsReading({r \in rows : r.uid # Null})
    /\ booking \in [Booking -> DirectBooking]
    /\ \A b \in Booking : booking[b].status # "NONE" => booking[b].stay \in Stay
    /\ import \in [Importer -> Import]
    /\ \A i \in Importer : import[i] # Idle => IsReading(import[i].blocks)
    /\ task \in [Request -> Task]
    /\ collisions \subseteq Booking

\* The nights a set of blocks closes for one event.
Closed(blocks, u) ==
    UNION {BlockedNights(b) : b \in {c \in blocks : c.uid = u}}

EventNights(u) == IF feed[u] \in Event THEN Nights(feed[u]) ELSE {}

\* The imported rows are one reading of the feed, to the night: no mixture of
\* two, no sellable night closed, and nothing but a panel's unblock in between
\* (apply's transaction, toBlock's exclusive end).
Copy ==
    INSTANCE Mirror WITH
        Entry <- Uid, Reader <- Importer, Nothing <- {}, NoReading <- Null,
        Content <- {Nights(e) : e \in Event},
        source <- [u \in Uid |-> EventNights(u)],
        copy <- [u \in Uid |-> Closed(rows, u)],
        reading <- [i \in Importer |->
                      IF import[i].stage = "apply"
                      THEN [u \in Uid |-> Closed(import[i].blocks, u)] ELSE Null]

ImplementsMirror == Copy!Spec

\* No import overrules a night the host closed by hand (apply).
HostBlocksSurvive ==
    [][\A i \in Importer :
          import'[i] # import[i] =>
              {r \in rows : r.source = "MANUAL"} \subseteq rows']_vars

\* A booking that has the nights its guest asked for, and for which Airbnb
\* answered, clashes only with what came on sale there later: the answer is
\* still good after the insert, a sweep and a late payment (takenOnAirbnb).  It
\* says nothing of a booking the host moved since, which nobody asked about.
AnsweredHoldsWereFree ==
    \A b \in Live :
        booking[b].asked # Null /\ booking[b].asked.stay = booking[b].stay =>
            booking[b].asked.sold \cap Nights(booking[b].stay) = {}

\* A night of booking b is sold on Airbnb too.
Clash(b, u) ==
    /\ b \in Live
    /\ EventNights(u) \cap Nights(booking[b].stay) # {}

\* "The import behind it will catch the overlap within the quarter hour and
\* raise it": nights sold twice are reported, whichever sale came last, as soon
\* as the stay and the event are left alone for long enough.
DoubleSaleIsRaised ==
    \A b \in Booking, u \in Uid :
        \/ []<>(b \in collisions \/ ~Clash(b, u))
        \/ []<><<feed'[u] # feed[u] \/ booking'[b] # booking[b]>>_vars

\* A cancelled Airbnb stay gives its nights back, a sold one closes them and
\* one that moved does both, even when an older reading was written over a
\* newer one, unless Airbnb changes that stay for ever.
CatchesUp ==
    \A u \in Uid :
        \/ []<>(Closed(rows, u) = EventNights(u))
        \/ []<><<feed'[u] # feed[u]>>_vars
=============================================================================

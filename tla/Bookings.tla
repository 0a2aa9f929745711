------------------------------ MODULE Bookings ------------------------------
(***************************************************************************)
(* The life of a booking: the row in Postgres, the Stripe checkout session *)
(* that pays for it, the webhook events that session produces, the dates   *)
(* the host blocked, and every request handler and job that touches them.  *)
(*                                                                         *)
(* The API is one Node process whose handlers interleave at every await.   *)
(* A handler is therefore a task carried by a worker: one action per       *)
(* database statement (or transaction) and per call to Stripe, with what   *)
(* the handler remembers between two of them kept in its task record.      *)
(* A worker may drop its task at any await (Abort): a deploy, a crash, an  *)
(* exception from the database, an overlap reported as 409.                *)
(*                                                                         *)
(* Time is a bounded clock.  Prices, guests, extras, mails and references  *)
(* are left out; the total is kept as an opaque figure.                    *)
(***************************************************************************)
EXTENDS Stays

CONSTANTS
    Booking,        \* the booking rows a behaviour may create
    Worker,         \* the API requests that may be in flight together
    Job,            \* the reconciliation runs that may be in flight together
    Stay,           \* the stays that guests and the host ask for
    BlockRange,     \* the date ranges the host may block
    Total,          \* the prices a quote may come to
    HoldTtl,        \* HOLD_TTL_MINUTES, in ticks
    PanelTtl,       \* PANEL_HOLD_TTL_MINUTES, in ticks
    Lookback,       \* LOOKBACK_HOURS of the reconciliation, in ticks
    MaxTime,        \* the clock stops here
    Null            \* SQL's null

ASSUME BookingsAssumption ==
    /\ \A s \in Stay : IsStay(s)
    /\ \A r \in BlockRange : IsRange(r)
    /\ HoldTtl \in Nat /\ PanelTtl \in Nat /\ Lookback \in Nat /\ MaxTime \in Nat
    /\ Null \notin Nat /\ Null \notin Booking /\ Null \notin Stay
    /\ Null \notin BlockRange /\ Null \notin Total
    /\ Worker \cap Job = {}

Process == Worker \cup Job

VARIABLES
    row,        \* the Booking table
    blocks,     \* the BlockedDate table
    session,    \* the Stripe checkout session opened for each booking
    event,      \* the webhook events Stripe has produced; it may repeat them
    alerted,    \* the bookings the host was told are paid but double-booked
    task,       \* what each request or job is in the middle of
    now         \* the clock

vars == <<row, blocks, session, event, alerted, task, now>>

-----------------------------------------------------------------------------
(* Rows, sessions and tasks *)

Status == {"NONE", "PENDING", "CONFIRMED", "CANCELLED"}

\* Why a row was cancelled, as cancellationReason records it.
Reason == {"lapsed", "unopened", "turnedBack", "unpaid", "host", Null}

NoRow ==
    [status |-> "NONE", stay |-> Null, total |-> Null, created |-> Null,
     expires |-> Null, paid |-> FALSE, recorded |-> FALSE, reason |-> Null]

NoSession == [state |-> "none", amount |-> Null, expires |-> Null]

Idle ==
    [stage |-> "idle", b |-> Null, stay |-> Null, total |-> Null,
     range |-> Null, expires |-> Null, ttl |-> Null, todo |-> {}]

Stage == {"idle", "insert", "open", "discard", "confirm", "move", "cancel",
          "release", "block", "list", "recover"}

Row ==
    [status : Status, stay : Stay \cup {Null}, total : Total \cup {Null},
     created : Nat \cup {Null}, expires : Nat \cup {Null}, paid : BOOLEAN,
     recorded : BOOLEAN, reason : Reason]

Session ==
    [state : {"none", "open", "paid", "expired"}, amount : Total \cup {Null},
     expires : Nat \cup {Null}]

Event == [type : {"completed", "expired"}, b : Booking]

Task ==
    [stage : Stage, b : Booking \cup {Null}, stay : Stay \cup {Null},
     total : Total \cup {Null}, range : BlockRange \cup {Null},
     expires : Nat \cup {Null}, ttl : Nat \cup {Null}, todo : SUBSET Booking]

-----------------------------------------------------------------------------
(* Reading the tables *)

\* The rows the exclusion constraint looks at: WHERE status <> 'CANCELLED'.
Occupies(r) == r.status \in {"PENDING", "CONFIRMED"}

\* A hold whose time ran out: status PENDING and expiresAt < now.
Lapsed(r) == r.status = "PENDING" /\ r.expires # Null /\ r.expires < now

\* A slip: the constraint counts only the stays that are paid for.
FitsAmongConfirmed(rows, b, stay) ==
    \A c \in Booking \ {b} :
        rows[c].status = "CONFIRMED" => ~Overlaps(rows[c].stay, stay)

\* The constraint accepts booking b on these nights, given these rows.
Fits(rows, b, stay) ==
    \A c \in Booking \ {b} : Occupies(rows[c]) => ~Overlaps(rows[c].stay, stay)

\* A slip: only holds that expired before the previous tick are swept.
SweptLate ==
    [b \in Booking |->
        IF Lapsed(row[b]) /\ row[b].expires + 1 < now
        THEN [row[b] EXCEPT !.status = "CANCELLED", !.reason = "lapsed"]
        ELSE row[b]]

\* A slip: a hold is swept on the very tick it expires.
SweptEarly ==
    [b \in Booking |->
        IF row[b].status = "PENDING" /\ row[b].expires # Null /\ row[b].expires <= now
        THEN [row[b] EXCEPT !.status = "CANCELLED", !.reason = "lapsed"]
        ELSE row[b]]

\* The updateMany that opens every inserting transaction.
Swept ==
    [b \in Booking |->
        IF Lapsed(row[b])
        THEN [row[b] EXCEPT !.status = "CANCELLED", !.reason = "lapsed"]
        ELSE row[b]]

Blocked(stay) == \E r \in blocks : BlockHits(r, stay)

\* A night of this stay is taken on the public calendar (takenNights).
ShownTaken(stay) ==
    \/ Blocked(stay)
    \/ \E b \in Booking :
          Occupies(row[b]) /\ ~Lapsed(row[b]) /\ Overlaps(row[b].stay, stay)

Begin(p, t) == task' = [task EXCEPT ![p] = t]
End(p) == Begin(p, Idle)

-----------------------------------------------------------------------------
(* Taking the dates: hold() and createManual() *)

\* The guest's request, up to the transaction.  The host's blocks are read
\* here; the live question to Airbnb either refuses the request, which leaves
\* no trace, or lets it through.  The expiry is fixed before the insert.
Hold(p) ==
    /\ task[p] = Idle
    /\ \E stay \in Stay, total \in Total :
          /\ ~Blocked(stay)
          /\ Begin(p, [Idle EXCEPT !.stage = "insert", !.stay = stay,
                                   !.total = total, !.expires = now + HoldTtl,
                                   !.ttl = HoldTtl])
    /\ UNCHANGED <<row, blocks, session, event, alerted, now>>

\* The host takes a stay by phone: paid in hand, which never expires, or by a
\* payment link that holds the dates for PanelTtl.
CreateManual(p) ==
    /\ task[p] = Idle
    /\ \E stay \in Stay, total \in Total, collected \in BOOLEAN :
          /\ ~Blocked(stay)
          /\ Begin(p, [Idle EXCEPT !.stage = "insert", !.stay = stay,
                                   !.total = total,
                                   !.expires = IF collected THEN Null
                                               ELSE now + PanelTtl,
                                   !.ttl = PanelTtl])
    /\ UNCHANGED <<row, blocks, session, event, alerted, now>>

\* A slip: the row is inserted without its creation date.
NewRowUndated(t) ==
    LET r == [NoRow EXCEPT !.stay = t.stay, !.total = t.total, !.expires = t.expires]
    IN IF t.expires = Null
       THEN [r EXCEPT !.status = "CONFIRMED", !.paid = TRUE]
       ELSE [r EXCEPT !.status = "PENDING"]

\* The row a task inserts.  A null expiry means the money is already in hand.
NewRow(t) ==
    LET r == [NoRow EXCEPT !.stay = t.stay, !.total = t.total,
                           !.expires = t.expires, !.created = now]
    IN IF t.expires = Null
       THEN [r EXCEPT !.status = "CONFIRMED", !.paid = TRUE]
       ELSE [r EXCEPT !.status = "PENDING"]

\* The transaction of createHold and insertManual: sweep the lapsed holds,
\* then insert.  An overlap rolls both back and the request ends in a 409
\* (Abort).
Insert(p) ==
    /\ task[p].stage = "insert"
    /\ \E b \in Booking :
          /\ row[b].status = "NONE"
          /\ Fits(Swept, b, task[p].stay)
          /\ row' = [Swept EXCEPT ![b] = NewRow(task[p])]
          /\ IF task[p].expires = Null
             THEN End(p)
             ELSE Begin(p, [Idle EXCEPT !.stage = "open", !.b = b,
                                        !.total = task[p].total, !.ttl = task[p].ttl])
    /\ UNCHANGED <<blocks, session, event, alerted, now>>

\* checkoutUrlFor: Stripe opens a session for the task's total, which expires
\* ttl after *this* moment.
OpenSession(p) ==
    /\ task[p].stage = "open"
    /\ session' = [session EXCEPT ![task[p].b] =
                      [state |-> "open", amount |-> task[p].total,
                       expires |-> now + task[p].ttl]]
    /\ End(p)
    /\ UNCHANGED <<row, blocks, event, alerted, now>>

\* Stripe refuses; the handler goes on to give the dates back.
OpenFails(p) ==
    /\ task[p].stage = "open"
    /\ Begin(p, [Idle EXCEPT !.stage = "discard", !.b = task[p].b])
    /\ UNCHANGED <<row, blocks, session, event, alerted, now>>

\* A slip: the guard is left to the caller, who last saw the row unpaid.
DiscardedUnguarded(b, reason) ==
    IF Occupies(row[b])
    THEN [row EXCEPT ![b].status = "CANCELLED", ![b].reason = reason,
                     ![b].expires = Null]
    ELSE row

\* discardHold: one guarded updateMany, so a paid row is never touched.
Discarded(b, reason) ==
    IF row[b].status = "PENDING" /\ ~row[b].paid
    THEN [row EXCEPT ![b].status = "CANCELLED", ![b].reason = reason,
                     ![b].expires = Null]
    ELSE row

Discard(p) ==
    /\ task[p].stage = "discard"
    /\ row' = Discarded(task[p].b, "unopened")
    /\ End(p)
    /\ UNCHANGED <<blocks, session, event, alerted, now>>

\* The guest turned back at the payment page (abandonHold).  Nothing tells
\* Stripe: the session stays open until it expires.
AbandonHold(b) ==
    /\ row[b].status # "NONE"
    /\ row' = Discarded(b, "turnedBack")
    /\ UNCHANGED <<blocks, session, event, alerted, task, now>>
-----------------------------------------------------------------------------
(* The guest pays, or does not: Stripe's side *)

\* The guest completes the payment while the session is open.  At the very
\* tick of expires_at either may come first.
Pay(b) ==
    /\ session[b].state = "open" /\ now <= session[b].expires
    /\ session' = [session EXCEPT ![b].state = "paid", ![b].expires = Null]
    /\ event' = event \cup {[type |-> "completed", b |-> b]}
    /\ UNCHANGED <<row, blocks, alerted, task, now>>

\* The session reaches expires_at unpaid.  A session never does both.
Expire(b) ==
    /\ session[b].state = "open" /\ now >= session[b].expires
    /\ session' = [session EXCEPT ![b].state = "expired", ![b].expires = Null]
    /\ event' = event \cup {[type |-> "expired", b |-> b]}
    /\ UNCHANGED <<row, blocks, alerted, task, now>>

-----------------------------------------------------------------------------
(* The money arrived: confirmPayment() and its three callers *)

\* Where a task goes when it is done with one booking: the webhook and the
\* confirmation page are finished, the reconciliation takes its next one.
Resume(p, t) ==
    Begin(p, IF t.todo = {} THEN Idle
             ELSE [Idle EXCEPT !.stage = "recover", !.todo = t.todo])

\* The row as read at the top of confirmPayment: a confirmed one is left
\* alone, a cancelled one goes on, since its dates may still be free.
ReadForConfirm(p, b, t) ==
    IF row[b].status = "CONFIRMED"
    THEN Resume(p, t)
    ELSE Begin(p, [t EXCEPT !.stage = "confirm", !.b = b])

\* The webhook hands over a completed session, possibly not for the first
\* time: an event is never removed, because Stripe redelivers what it did not
\* see acknowledged.
HandleCompleted(p, b) ==
    /\ task[p] = Idle
    /\ [type |-> "completed", b |-> b] \in event
    /\ ReadForConfirm(p, b, Idle)
    /\ UNCHANGED <<row, blocks, session, event, alerted, now>>

\* A slip: the guest's return to the site is taken as proof of payment.
FindBySessionTrusting(p, b) ==
    /\ task[p] = Idle
    /\ row[b].status # "NONE" /\ ~row[b].recorded
    /\ session[b].state # "none"
    /\ ReadForConfirm(p, b, Idle)
    /\ UNCHANGED <<row, blocks, session, event, alerted, now>>

\* The guest is back on the confirmation page before any webhook: the row
\* does not carry the session yet, so Stripe is asked whether it was paid.
FindBySession(p, b) ==
    /\ task[p] = Idle
    /\ row[b].status # "NONE" /\ ~row[b].recorded
    /\ session[b].state = "paid"
    /\ ReadForConfirm(p, b, Idle)
    /\ UNCHANGED <<row, blocks, session, event, alerted, now>>

\* What the update of confirmPayment writes, whatever the row says by now.
Confirmed(r) ==
    [r EXCEPT !.status = "CONFIRMED", !.paid = TRUE, !.recorded = TRUE,
              !.expires = Null, !.reason = Null]

\* The update, under the constraint: the booking becomes a stay, or the host
\* is alerted that money was taken for nights that are gone.
ConfirmPayment(p) ==
    /\ task[p].stage = "confirm"
    /\ LET b == task[p].b IN
          \/ /\ Fits(row, b, row[b].stay)
             /\ row' = [row EXCEPT ![b] = Confirmed(row[b])]
             /\ UNCHANGED alerted
          \/ /\ ~Fits(row, b, row[b].stay)
             /\ alerted' = alerted \cup {b}
             /\ UNCHANGED row
    /\ Resume(p, task[p])
    /\ UNCHANGED <<blocks, session, event, now>>

-----------------------------------------------------------------------------
(* The reconciliation job *)

\* A slip: cancelled holds are taken to have nothing to catch up on.
WaitingPendingOnly ==
    {b \in Booking : /\ row[b].status = "PENDING"
                     /\ ~row[b].paid
                     /\ row[b].created + Lookback >= now}

\* The unpaid rows, cancelled or not, that are recent enough to look into.
Waiting ==
    {b \in Booking : /\ row[b].status \in {"PENDING", "CANCELLED"}
                     /\ ~row[b].paid
                     /\ row[b].created + Lookback >= now}

\* Every ten minutes, and on boot: what is still unpaid here?
Reconcile(p) ==
    /\ task[p] = Idle
    /\ Waiting # {}
    /\ Begin(p, [Idle EXCEPT !.stage = "list", !.todo = Waiting])
    /\ UNCHANGED <<row, blocks, session, event, alerted, now>>

\* One list call to Stripe: which of those were paid there?
ListSessions(p) ==
    /\ task[p].stage = "list"
    /\ Resume(p, [task[p] EXCEPT
                        !.todo = {b \in @ : session[b].state = "paid"}])
    /\ UNCHANGED <<row, blocks, session, event, alerted, now>>

\* The loop: each paid session goes through confirmPayment.
Recover(p) ==
    /\ task[p].stage = "recover"
    /\ \E b \in task[p].todo :
          ReadForConfirm(p, b, [Idle EXCEPT !.todo = task[p].todo \ {b}])
    /\ UNCHANGED <<row, blocks, session, event, alerted, now>>

-----------------------------------------------------------------------------
(* The guest walked away: releaseHold(), on checkout.session.expired *)

HandleExpired(p, b) ==
    /\ task[p] = Idle
    /\ [type |-> "expired", b |-> b] \in event
    /\ row[b].status = "PENDING"
    /\ Begin(p, [Idle EXCEPT !.stage = "release", !.b = b])
    /\ UNCHANGED <<row, blocks, session, event, alerted, now>>

\* The update has no guard of its own: it overwrites what it finds.
ReleaseHold(p) ==
    /\ task[p].stage = "release"
    /\ row' = [row EXCEPT ![task[p].b].status = "CANCELLED",
                          ![task[p].b].reason = "unpaid"]
    /\ End(p)
    /\ UNCHANGED <<blocks, session, event, alerted, now>>

-----------------------------------------------------------------------------
(* The host's panel: update() and cancel() *)

\* The host moves a stay, or changes its party: the dates are the ones sent,
\* or the ones read.  The row, the new quote and the blocks are read here.
Update(p) ==
    /\ task[p] = Idle
    /\ \E b \in Booking, sent \in Stay \cup {Null}, total \in Total :
          LET stay == IF sent = Null THEN row[b].stay ELSE sent IN
          /\ Occupies(row[b])
          /\ ~Blocked(stay)
          /\ Begin(p, [Idle EXCEPT !.stage = "move", !.b = b, !.stay = stay,
                                   !.total = total])
    /\ UNCHANGED <<row, blocks, session, event, alerted, now>>

\* The write, under the constraint, which a row cancelled since is exempt
\* from.  The session keeps the amount it was opened with.
MoveStay(p) ==
    /\ task[p].stage = "move"
    /\ LET b == task[p].b IN
          /\ Occupies(row[b]) => Fits(row, b, task[p].stay)
          /\ row' = [row EXCEPT ![b].stay = task[p].stay,
                                ![b].total = task[p].total]
    /\ End(p)
    /\ UNCHANGED <<blocks, session, event, alerted, now>>

\* The host cancels; a second cancellation is ignored.
Cancel(p) ==
    /\ task[p] = Idle
    /\ \E b \in Booking :
          /\ Occupies(row[b])
          /\ Begin(p, [Idle EXCEPT !.stage = "cancel", !.b = b])
    /\ UNCHANGED <<row, blocks, session, event, alerted, now>>

\* The write.  paidAt stays, so the row still says the guest paid; the
\* session stays open at Stripe.
CancelStay(p) ==
    /\ task[p].stage = "cancel"
    /\ row' = [row EXCEPT ![task[p].b].status = "CANCELLED",
                          ![task[p].b].expires = Null,
                          ![task[p].b].reason = "host"]
    /\ End(p)
    /\ UNCHANGED <<blocks, session, event, alerted, now>>

-----------------------------------------------------------------------------
(* The host's blocked dates: blockDates() and unblockDates() *)

\* A live booking on these dates: the clash query of blockDates.
Covers(range) ==
    \E b \in Booking :
        Occupies(row[b]) /\ ~Lapsed(row[b]) /\ BlockHits(range, row[b].stay)

\* The check, read before the write.
BlockDates(p) ==
    /\ task[p] = Idle
    /\ \E range \in BlockRange \ blocks :
          /\ ~Covers(range)
          /\ Begin(p, [Idle EXCEPT !.stage = "block", !.range = range])
    /\ UNCHANGED <<row, blocks, session, event, alerted, now>>

\* The write.
AddBlock(p) ==
    /\ task[p].stage = "block"
    /\ blocks' = blocks \cup {task[p].range}
    /\ End(p)
    /\ UNCHANGED <<row, session, event, alerted, now>>

UnblockDates(range) ==
    /\ range \in blocks
    /\ blocks' = blocks \ {range}
    /\ UNCHANGED <<row, session, event, alerted, task, now>>

-----------------------------------------------------------------------------
(* Failures and the clock *)

\* A task dies at an await: the process is redeployed or crashes, a query
\* throws, an overlap is answered with a 409.  What it committed stays.
Abort(p) ==
    /\ task[p] # Idle
    /\ End(p)
    /\ UNCHANGED <<row, blocks, session, event, alerted, now>>

Tick ==
    /\ now < MaxTime
    /\ now' = now + 1
    /\ UNCHANGED <<row, blocks, session, event, alerted, task>>

-----------------------------------------------------------------------------
Init ==
    /\ row = [b \in Booking |-> NoRow]
    /\ blocks = {}
    /\ session = [b \in Booking |-> NoSession]
    /\ event = {}
    /\ alerted = {}
    /\ task = [p \in Process |-> Idle]
    /\ now = 0

GuestRequest(p) ==
    \/ Hold(p)
    \/ Insert(p)
    \/ OpenSession(p)
    \/ OpenFails(p)
    \/ Discard(p)

HostRequest(p) ==
    \/ CreateManual(p)
    \/ Update(p)
    \/ MoveStay(p)
    \/ Cancel(p)
    \/ CancelStay(p)
    \/ BlockDates(p)
    \/ AddBlock(p)

Webhook(p) ==
    \/ \E b \in Booking :
          \/ HandleCompleted(p, b)
          \/ FindBySession(p, b)
          \/ HandleExpired(p, b)
    \/ ConfirmPayment(p)
    \/ ReleaseHold(p)

Reconciliation(p) ==
    \/ Reconcile(p)
    \/ ListSessions(p)
    \/ Recover(p)
    \/ ConfirmPayment(p)

Next ==
    \/ \E p \in Worker : GuestRequest(p) \/ HostRequest(p) \/ Webhook(p)
    \/ \E p \in Job : Reconciliation(p)
    \/ \E p \in Process : Abort(p)
    \/ \E b \in Booking : AbandonHold(b) \/ Pay(b) \/ Expire(b)
    \/ \E range \in BlockRange : UnblockDates(range)
    \/ Tick

Spec == Init /\ [][Next]_vars

(***************************************************************************)
(* The job fires every ten minutes for as long as the API is up, and a     *)
(* failure does not strike the same step of it for ever: Stripe answers    *)
(* some of its list calls and Postgres some of its updates.  Nothing is    *)
(* assumed of the webhook, of the guest or of the host.                    *)
(***************************************************************************)
FairSpec ==
    /\ Spec
    /\ \A p \in Job :
          /\ SF_vars(Reconcile(p))
          /\ SF_vars(ListSessions(p))
          /\ SF_vars(Recover(p))
          /\ \A b \in Booking :
                /\ SF_vars(Recover(p) /\ task'[p].b = b)
                /\ SF_vars(ConfirmPayment(p) /\ task[p].b = b)

-----------------------------------------------------------------------------
(* Properties *)

\* A row that exists has dates and a creation time.
RowOK(r) ==
    /\ r \in Row
    /\ r.status # "NONE" => r.stay \in Stay /\ r.created \in Nat

SessionOK(s) ==
    /\ s \in Session
    /\ s.state = "open" => s.expires \in Nat

\* A task remembers what its stage needs.
TaskOK(t) ==
    /\ t \in Task
    /\ t.stage \in {"insert", "move"} => t.stay \in Stay
    /\ t.stage \in {"open", "discard", "confirm", "move", "cancel", "release"}
          => t.b \in Booking
    /\ t.stage \in {"insert", "open"} => t.ttl \in Nat
    /\ t.stage = "block" => t.range \in BlockRange

\* Nothing points to a booking that was never inserted.
References ==
    /\ \A b \in Booking : session[b].state # "none" => row[b].status # "NONE"
    /\ \A e \in event : row[e.b].status # "NONE"
    /\ \A p \in Process :
          \A b \in task[p].todo \cup ({task[p].b} \ {Null}) : row[b].status # "NONE"

\* The type invariant, foreign keys included.
TypeOK ==
    /\ row \in [Booking -> Row] /\ \A b \in Booking : RowOK(row[b])
    /\ blocks \subseteq BlockRange
    /\ session \in [Booking -> Session] /\ \A b \in Booking : SessionOK(session[b])
    /\ event \subseteq Event
    /\ alerted \subseteq Booking
    /\ task \in [Process -> Task] /\ \A p \in Process : TaskOK(task[p])
    /\ now \in Nat
    /\ References

\* No night is sold twice: holds swept and restored, manual stays, moves and
\* late payments included.  This is what Booking_no_overlap is there for.
NoDoubleSale ==
    \A b, c \in Booking :
        b # c /\ Occupies(row[b]) /\ Occupies(row[c])
            => ~Overlaps(row[b].stay, row[c].stay)

\* A stay is confirmed only by money: Stripe says its session was paid, or
\* the host entered it as collected.  A browser cannot confirm its booking.
ConfirmedIsPaid ==
    \A b \in Booking :
        row[b].status = "CONFIRMED" =>
            \/ session[b].state = "paid"
            \/ session[b].state = "none" /\ row[b].paid /\ ~row[b].recorded

\* What a task knows about the money of its bookings, although it learnt it
\* some awaits ago.
TrailOK(t) ==
    /\ t.stage = "confirm" => session[t.b].state = "paid"
    /\ t.stage \in {"confirm", "recover"} => \A b \in t.todo : session[b].state = "paid"
    /\ t.stage = "release" => session[t.b].state = "expired"
    /\ t.stage \in {"open", "discard"} => session[t.b].state = "none" /\ ~row[t.b].paid

\* No request acts on stale news about money: what confirms was paid and stays
\* paid, what releases expired and can no longer be paid, and a hold whose
\* page is being opened has no other page and no other request opening it.
PaymentTrail ==
    /\ \A e \in event :
          session[e.b].state = (IF e.type = "completed" THEN "paid" ELSE "expired")
    /\ \A p \in Process : TrailOK(task[p])
    /\ \A p, q \in Process :
          (/\ p # q
           /\ task[p].stage \in {"open", "discard"}
           /\ task[q].stage \in {"open", "discard"})
          => task[p].b # task[q].b

\* Nothing but the host's cancel() ends a confirmed stay: no late expiry
\* event, no failed checkout, no guest turning back, no sweep.
OnlyHostEndsStay ==
    [][\A b \in Booking :
          row[b].status = "CONFIRMED" /\ row'[b].status # "CONFIRMED"
              => row'[b].reason = "host"]_vars

\* A hold whose guest has paid loses its nights in three ways only: the host
\* cancels, the guest turns back, or a later insert sweeps it after its window
\* closed with the payment still unrecorded.  An expiry event, the failure of
\* its own checkout or a sweep before its time never take it.
PaidHoldIsNotReleased ==
    [][\A b \in Booking :
          (/\ row[b].status = "PENDING" /\ session[b].state = "paid"
           /\ row'[b].status = "CANCELLED")
          => \/ row'[b].reason \in {"host", "turnedBack"}
             \/ row'[b].reason = "lapsed" /\ Lapsed(row[b])]_vars

\* The two views of "taken" agree: a stay the public calendar shows as free
\* is one the inserting transaction accepts.
FreeIsSellable ==
    \A stay \in Stay, b \in Booking :
        row[b].status = "NONE" /\ ~ShownTaken(stay) => Fits(Swept, b, stay)

\* The calendar as NightLedger sees it.
Ledger == INSTANCE NightLedger WITH
    Extent <- {Nights(s) : s \in Stay},
    holder <- [b \in Booking |-> IF Occupies(row[b]) THEN Nights(row[b].stay) ELSE {}],
    sold <- {b \in Booking : row[b].status = "CONFIRMED"}

\* The booking service implements the night ledger: every step claims, sells,
\* moves or gives back whole stays, and never takes a sold night from its
\* holder to give it to another.
ImplementsLedger == Ledger!Spec

\* Money taken is never forgotten: whatever happened to the row and to the
\* webhook, a paid session ends up recorded on its booking, which was then
\* a confirmed stay, or as an alert to the host.  Reconcile looks back only
\* Lookback ticks: this is for bookings younger than that.
PaidIsSettled ==
    \A b \in Booking :
        session[b].state = "paid" ~> (row[b].recorded \/ b \in alerted)
=============================================================================

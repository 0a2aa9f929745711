--------------------------- MODULE BookingsProofs ---------------------------
(***************************************************************************)
(* What Bookings guarantees for every set of bookings, requests, stays and *)
(* blocked ranges, and for every clock: its rows are well formed, no night *)
(* is sold twice, the calendar never offers a night the database refuses,  *)
(* and the booking service implements NightLedger.                         *)
(*                                                                         *)
(* NoDoubleSale is inductive together with TypeOK.  Every step that writes *)
(* a row falls under one of four shapes, each with a lemma: it leaves the  *)
(* nights alone, gives some up, or takes nights that Fit.                  *)
(***************************************************************************)
EXTENDS Bookings, TLAPS

USE BookingsAssumption

(***************************************************************************)
(* Two facts about the values.                                             *)
(***************************************************************************)

LEMMA IdleIsTask == TaskOK(Idle)
  BY DEF TaskOK, Task, Idle, Stage

\* The sweep of createHold and insertManual touches lapsed holds only, and
\* only their status and reason.
LEMMA SweepIsMild ==
  ASSUME TypeOK, NEW b \in Booking
  PROVE  /\ Swept \in [Booking -> Row]
         /\ RowOK(Swept[b])
         /\ Swept[b].stay = row[b].stay
         /\ Occupies(Swept[b]) => Occupies(row[b])
         /\ Swept[b].status = "NONE" <=> row[b].status = "NONE"
         /\ ~Lapsed(row[b]) => Swept[b] = row[b]
  <1>1. \A c \in Booking : row[c] \in Row
    BY DEF TypeOK
  <1>2. \A c \in Booking :
          [row[c] EXCEPT !.status = "CANCELLED", !.reason = "lapsed"] \in Row
    BY <1>1 DEF Row, Status, Reason
  <1>3. Swept \in [Booking -> Row]
    BY <1>1, <1>2 DEF Swept
  <1>4. CASE Lapsed(row[b])
    <2>1. Swept[b] = [row[b] EXCEPT !.status = "CANCELLED", !.reason = "lapsed"]
      BY <1>4 DEF Swept
    <2>2. /\ Swept[b].status = "CANCELLED"
          /\ Swept[b].stay = row[b].stay
          /\ Swept[b].created = row[b].created
      BY <1>1, <2>1 DEF Row
    <2> QED
      BY <1>2, <1>3, <1>4, <2>1, <2>2 DEF TypeOK, RowOK, Occupies, Lapsed
  <1>5. CASE ~Lapsed(row[b])
    <2>1. Swept[b] = row[b]
      BY <1>5 DEF Swept
    <2> QED
      BY <1>3, <2>1, <1>5 DEF TypeOK
  <1> QED
    BY <1>4, <1>5

-----------------------------------------------------------------------------
(***************************************************************************)
(* Type correctness.  The foreign keys are part of it: a task that cancels *)
(* or moves a booking writes to a row that was inserted before.            *)
(***************************************************************************)

\* The bookings a task refers to.
Refers(t) == t.todo \cup ({t.b} \ {Null})

\* Starting, continuing or ending a task keeps the tasks well-formed, as long
\* as rows that exist go on existing.
LEMMA TaskStep ==
  ASSUME TypeOK, NEW p \in Process, NEW t,
         TaskOK(t), Begin(p, t),
         \A b \in Booking : row[b].status # "NONE" => row'[b].status # "NONE",
         \A b \in Refers(t) : row'[b].status # "NONE"
  PROVE  /\ task' \in [Process -> Task]
         /\ \A q \in Process : TaskOK(task'[q])
         /\ \A q \in Process : \A b \in Refers(task'[q]) : row'[b].status # "NONE"
  <1>1. task' = [task EXCEPT ![p] = t]
    BY DEF Begin
  <1>2. t \in Task
    BY DEF TaskOK
  <1>3. task' \in [Process -> Task]
    BY <1>1, <1>2 DEF TypeOK
  <1>4. ASSUME NEW q \in Process
        PROVE  TaskOK(task'[q]) /\ \A b \in Refers(task'[q]) : row'[b].status # "NONE"
    <2>1. CASE q = p
      <3>1. task'[q] = t
        BY <1>1, <2>1 DEF TypeOK
      <3> QED
        BY <3>1
    <2>2. CASE q # p
      <3>1. task'[q] = task[q]
        BY <1>1, <2>2 DEF TypeOK
      <3>2. Refers(task[q]) \subseteq Booking
        BY DEF TypeOK, TaskOK, Task, Refers
      <3>3. \A b \in Refers(task[q]) : row[b].status # "NONE"
        BY DEF TypeOK, References, Refers
      <3> QED
        BY <3>1, <3>2, <3>3 DEF TypeOK
    <2> QED
      BY <2>1, <2>2
  <1> QED
    BY <1>3, <1>4

\* The steps that only move a task along.
LEMMA TaskOnly ==
  ASSUME TypeOK, NEW p \in Process, NEW t,
         TaskOK(t), Begin(p, t),
         \A b \in Refers(t) : row[b].status # "NONE",
         UNCHANGED <<row, blocks, session, event, alerted, now>>
  PROVE  TypeOK'
  <1>1. /\ task' \in [Process -> Task]
        /\ \A q \in Process : TaskOK(task'[q])
        /\ \A q \in Process : \A b \in Refers(task'[q]) : row'[b].status # "NONE"
    BY TaskStep
  <1>2. References'
    BY <1>1 DEF TypeOK, References, Refers
  <1> QED
    BY <1>1, <1>2 DEF TypeOK

\* The steps that write one row of the Booking table and move a task along.
LEMMA RowWrite ==
  ASSUME TypeOK, NEW p \in Process, NEW t, NEW b \in Booking, NEW r,
         TaskOK(t), Begin(p, t),
         RowOK(r), r.status # "NONE", row' = [row EXCEPT ![b] = r],
         \A c \in Refers(t) : c \in Booking /\ row[c].status # "NONE",
         alerted' \subseteq Booking,
         UNCHANGED <<blocks, session, event, now>>
  PROVE  TypeOK'
  <1>1. /\ row' \in [Booking -> Row]
        /\ \A c \in Booking : RowOK(row'[c])
        /\ \A c \in Booking : row[c].status # "NONE" => row'[c].status # "NONE"
    BY DEF TypeOK, RowOK
  <1>2. /\ task' \in [Process -> Task]
        /\ \A q \in Process : TaskOK(task'[q])
        /\ \A q \in Process : \A c \in Refers(task'[q]) : row'[c].status # "NONE"
    BY <1>1, TaskStep
  <1>3. References'
    BY <1>1, <1>2 DEF TypeOK, References, Refers, Event
  <1> QED
    BY <1>1, <1>2, <1>3 DEF TypeOK

LEMMA ResumeIsTask ==
  ASSUME NEW T \in SUBSET Booking
  PROVE  LET t == IF T = {} THEN Idle
                  ELSE [Idle EXCEPT !.stage = "recover", !.todo = T]
         IN TaskOK(t) /\ Refers(t) \subseteq T
  BY DEF TaskOK, Task, Idle, Stage, Refers

\* The row is read at the top of confirmPayment.
LEMMA ReadStep ==
  ASSUME TypeOK, NEW p \in Process, NEW b \in Booking, NEW T \in SUBSET Booking,
         row[b].status # "NONE", \A c \in T : row[c].status # "NONE",
         ReadForConfirm(p, b, [Idle EXCEPT !.todo = T]),
         UNCHANGED <<row, blocks, session, event, alerted, now>>
  PROVE  TypeOK'
  <1> DEFINE t == [Idle EXCEPT !.todo = T]
             confirming == [t EXCEPT !.stage = "confirm", !.b = b]
             next == IF T = {} THEN Idle
                     ELSE [Idle EXCEPT !.stage = "recover", !.todo = T]
  <1>1. TaskOK(confirming) /\ Refers(confirming) \subseteq T \cup {b}
    BY DEF TaskOK, Task, Idle, Stage, Refers
  <1>2. TaskOK(next) /\ Refers(next) \subseteq T
    BY ResumeIsTask
  <1>3. t.todo = T
    BY DEF Idle
  <1>4. Begin(p, confirming) \/ Begin(p, next)
    BY <1>3 DEF ReadForConfirm, Resume
  <1> HIDE DEF confirming, next
  <1> QED
    BY <1>1, <1>2, <1>4, TaskOnly

-----------------------------------------------------------------------------
LEMMA TypeInit == Init => TypeOK
  <1> SUFFICES ASSUME Init PROVE TypeOK
    OBVIOUS
  <1>1. RowOK(NoRow)
    BY DEF RowOK, NoRow, Row, Status, Reason
  <1>2. SessionOK(NoSession)
    BY DEF SessionOK, NoSession, Session
  <1>3. References
    BY DEF Init, References, NoSession, Idle
  <1> QED
    BY <1>1, <1>2, <1>3, IdleIsTask DEF Init, TypeOK, RowOK, SessionOK, TaskOK

\* Requests that read, decide and remember.
LEMMA TypeHold ==
  ASSUME TypeOK, NEW p \in Process, Hold(p) \/ CreateManual(p)
  PROVE  TypeOK'
  <1> DEFINE t(stay, total, expires, ttl) ==
               [Idle EXCEPT !.stage = "insert", !.stay = stay, !.total = total,
                            !.expires = expires, !.ttl = ttl]
  <1>1. \A stay \in Stay, total \in Total, expires \in Nat \cup {Null}, ttl \in Nat :
          /\ TaskOK(t(stay, total, expires, ttl))
          /\ Refers(t(stay, total, expires, ttl)) = {}
    <2> TAKE stay \in Stay, total \in Total, expires \in Nat \cup {Null}, ttl \in Nat
    <2>1. TaskOK(t(stay, total, expires, ttl))
      BY DEF TaskOK, Task, Idle, Stage
    <2>2. Refers(t(stay, total, expires, ttl)) = {}
      BY DEF Refers, Idle
    <2> QED
      BY <2>1, <2>2
  <1>2. UNCHANGED <<row, blocks, session, event, alerted, now>>
    BY DEF Hold, CreateManual
  <1>3. CASE Hold(p)
    <2>1. PICK stay \in Stay, total \in Total :
            Begin(p, t(stay, total, now + HoldTtl, HoldTtl))
      BY <1>3 DEF Hold
    <2>2. now + HoldTtl \in Nat
      BY DEF TypeOK
    <2> HIDE DEF t
    <2> QED
      BY <1>1, <1>2, <2>1, <2>2, TaskOnly
  <1>4. CASE CreateManual(p)
    <2>1. PICK stay \in Stay, total \in Total, collected \in BOOLEAN :
            Begin(p, t(stay, total, IF collected THEN Null ELSE now + PanelTtl, PanelTtl))
      BY <1>4 DEF CreateManual
    <2>2. (IF collected THEN Null ELSE now + PanelTtl) \in Nat \cup {Null}
      BY DEF TypeOK
    <2> DEFINE expires == IF collected THEN Null ELSE now + PanelTtl
    <2> HIDE DEF t, expires
    <2> QED
      BY <1>1, <1>2, <2>1, <2>2, TaskOnly DEF expires
  <1> QED
    BY <1>3, <1>4

LEMMA TypeInsert ==
  ASSUME TypeOK, NEW p \in Process, Insert(p)
  PROVE  TypeOK'
  <1>1. PICK b \in Booking :
          /\ row' = [Swept EXCEPT ![b] = NewRow(task[p])]
          /\ \/ End(p)
             \/ Begin(p, [Idle EXCEPT !.stage = "open", !.b = b,
                                      !.total = task[p].total, !.ttl = task[p].ttl])
    BY DEF Insert
  <1> DEFINE opening == [Idle EXCEPT !.stage = "open", !.b = b,
                                     !.total = task[p].total, !.ttl = task[p].ttl]
  <1>2. TaskOK(task[p]) /\ task[p].stage = "insert"
    BY DEF TypeOK, Insert
  <1>3. TaskOK(opening) /\ Refers(opening) = {b}
    BY <1>2 DEF TaskOK, Task, Idle, Stage, Refers
  <1>4. RowOK(NewRow(task[p])) /\ NewRow(task[p]).status # "NONE"
    <2>1. /\ task[p].stay \in Stay /\ task[p].total \in Total \cup {Null}
          /\ task[p].expires \in Nat \cup {Null} /\ now \in Nat
      BY <1>2 DEF TypeOK, TaskOK, Task
    <2> QED
      BY <2>1 DEF RowOK, NewRow, NoRow, Row, Status, Reason
  <1>5. /\ row' \in [Booking -> Row]
        /\ \A c \in Booking : RowOK(row'[c])
        /\ \A c \in Booking : row[c].status # "NONE" => row'[c].status # "NONE"
        /\ row'[b].status # "NONE"
    BY <1>1, <1>4, SweepIsMild DEF RowOK
  <1>6. /\ task' \in [Process -> Task]
        /\ \A q \in Process : TaskOK(task'[q])
        /\ \A q \in Process : \A c \in Refers(task'[q]) : row'[c].status # "NONE"
    <2>1. Refers(Idle) = {}
      BY DEF Refers, Idle
    <2> HIDE DEF opening
    <2>2. CASE End(p)
      BY <1>5, <2>1, <2>2, IdleIsTask, TaskStep DEF End
    <2>3. CASE Begin(p, opening)
      BY <1>3, <1>5, <2>3, TaskStep
    <2> QED
      BY <1>1, <2>2, <2>3 DEF opening
  <1>7. UNCHANGED <<blocks, session, event, alerted, now>>
    BY DEF Insert
  <1>8. References'
    BY <1>5, <1>6, <1>7 DEF TypeOK, References, Refers, Event
  <1> QED
    BY <1>5, <1>6, <1>7, <1>8 DEF TypeOK

LEMMA TypeOpenSession ==
  ASSUME TypeOK, NEW p \in Process, OpenSession(p)
  PROVE  TypeOK'
  <1> DEFINE b == task[p].b
             s == [state |-> "open", amount |-> task[p].total,
                   expires |-> now + task[p].ttl]
  <1>1. TaskOK(task[p]) /\ task[p].stage = "open" /\ b \in Booking
    BY DEF TypeOK, TaskOK, OpenSession
  <1>2. row[b].status # "NONE"
    BY <1>1 DEF TypeOK, References
  <1>3. SessionOK(s)
    BY <1>1 DEF TypeOK, TaskOK, Task, SessionOK, Session
  <1>4. session' = [session EXCEPT ![b] = s]
    BY DEF OpenSession
  <1>5. End(p) /\ UNCHANGED <<row, blocks, event, alerted, now>>
    BY DEF OpenSession
  <1>6. /\ task' \in [Process -> Task]
        /\ \A q \in Process : TaskOK(task'[q])
        /\ \A q \in Process : \A c \in Refers(task'[q]) : row'[c].status # "NONE"
    BY <1>5, IdleIsTask, TaskStep DEF End, Refers, Idle
  <1> HIDE DEF s, b
  <1>7. /\ session' \in [Booking -> Session]
        /\ \A c \in Booking : SessionOK(session'[c])
    BY <1>1, <1>3, <1>4 DEF TypeOK, SessionOK
  <1>8. References'
    BY <1>1, <1>2, <1>4, <1>5, <1>6 DEF TypeOK, References, Refers, Event
  <1> QED
    BY <1>5, <1>6, <1>7, <1>8 DEF TypeOK

LEMMA TypeOpenFails ==
  ASSUME TypeOK, NEW p \in Process, OpenFails(p)
  PROVE  TypeOK'
  <1> DEFINE t == [Idle EXCEPT !.stage = "discard", !.b = task[p].b]
  <1>1. TaskOK(task[p]) /\ task[p].stage = "open" /\ task[p].b \in Booking
    BY DEF TypeOK, TaskOK, OpenFails
  <1>2. row[task[p].b].status # "NONE"
    BY <1>1 DEF TypeOK, References
  <1>3. TaskOK(t) /\ Refers(t) = {task[p].b}
    BY <1>1 DEF TaskOK, Task, Idle, Stage, Refers
  <1>4. Begin(p, t) /\ UNCHANGED <<row, blocks, session, event, alerted, now>>
    BY DEF OpenFails
  <1> HIDE DEF t
  <1> QED
    BY <1>2, <1>3, <1>4, TaskOnly

\* discardHold leaves a well-formed row, whoever calls it.
LEMMA TypeDiscarded ==
  ASSUME TypeOK, NEW b \in Booking, NEW reason \in Reason, row[b].status # "NONE",
         row' = Discarded(b, reason)
  PROVE  \E r : RowOK(r) /\ r.status # "NONE" /\ row' = [row EXCEPT ![b] = r]
  <1> DEFINE r == [row[b] EXCEPT !.status = "CANCELLED", !.reason = reason,
                                 !.expires = Null]
  <1>1. row[b] \in Row /\ RowOK(row[b])
    BY DEF TypeOK
  <1>2. RowOK(r) /\ r.status # "NONE"
    BY <1>1 DEF RowOK, Row, Status
  <1>3. CASE row[b].status = "PENDING" /\ ~row[b].paid
    <2>1. row' = [row EXCEPT ![b] = r]
      BY <1>1, <1>3 DEF Discarded, TypeOK
    <2> QED
      BY <1>2, <2>1
  <1>4. CASE ~(row[b].status = "PENDING" /\ ~row[b].paid)
    <2>1. row' = [row EXCEPT ![b] = row[b]]
      BY <1>4 DEF Discarded, TypeOK
    <2> QED
      BY <1>1, <2>1
  <1> QED
    BY <1>3, <1>4

LEMMA TypeDiscard ==
  ASSUME TypeOK, NEW p \in Process, Discard(p)
  PROVE  TypeOK'
  <1>1. TaskOK(task[p]) /\ task[p].b \in Booking /\ row[task[p].b].status # "NONE"
    BY DEF TypeOK, TaskOK, Discard, References
  <1>2. PICK r : /\ RowOK(r) /\ r.status # "NONE"
                 /\ row' = [row EXCEPT ![task[p].b] = r]
    BY <1>1, TypeDiscarded DEF Discard, Reason
  <1>3. Begin(p, Idle) /\ alerted' \subseteq Booking
        /\ UNCHANGED <<blocks, session, event, now>>
    BY DEF Discard, End, TypeOK
  <1>4. Refers(Idle) = {}
    BY DEF Refers, Idle
  <1> QED
    BY <1>1, <1>2, <1>3, <1>4, IdleIsTask, RowWrite

LEMMA TypeAbandonHold ==
  ASSUME TypeOK, NEW b \in Booking, AbandonHold(b)
  PROVE  TypeOK'
  <1>1. PICK r : RowOK(r) /\ r.status # "NONE" /\ row' = [row EXCEPT ![b] = r]
    BY TypeDiscarded DEF AbandonHold, Reason
  <1>2. /\ row' \in [Booking -> Row]
        /\ \A c \in Booking : RowOK(row'[c])
        /\ \A c \in Booking : row[c].status # "NONE" => row'[c].status # "NONE"
    BY <1>1 DEF TypeOK, RowOK
  <1>3. UNCHANGED <<blocks, session, event, alerted, task, now>>
    BY DEF AbandonHold
  <1>4. \A p \in Process : task[p].todo \cup ({task[p].b} \ {Null}) \subseteq Booking
    BY DEF TypeOK, TaskOK, Task
  <1>5. References'
    BY <1>2, <1>3, <1>4 DEF TypeOK, References, Event
  <1> QED
    BY <1>2, <1>3, <1>5 DEF TypeOK

\* Stripe closes a session, paid or not.
LEMMA TypeSessionEnds ==
  ASSUME TypeOK, NEW b \in Booking, Pay(b) \/ Expire(b)
  PROVE  TypeOK'
  <1>1. PICK state \in {"paid", "expired"}, type \in {"completed", "expired"} :
          /\ session[b].state = "open"
          /\ session' = [session EXCEPT ![b].state = state, ![b].expires = Null]
          /\ event' = event \cup {[type |-> type, b |-> b]}
          /\ UNCHANGED <<row, blocks, alerted, task, now>>
    BY DEF Pay, Expire
  <1> DEFINE s == [session[b] EXCEPT !.state = state, !.expires = Null]
  <1>2. session[b] \in Session
    BY DEF TypeOK
  <1>3. SessionOK(s)
    BY <1>2 DEF SessionOK, Session
  <1>4. session' = [session EXCEPT ![b] = s]
    BY <1>1, <1>2 DEF TypeOK, Session
  <1> HIDE DEF s
  <1>5. /\ session' \in [Booking -> Session]
        /\ \A c \in Booking : SessionOK(session'[c])
    BY <1>3, <1>4 DEF TypeOK, SessionOK
  <1>6. event' \subseteq Event
    BY <1>1 DEF TypeOK, Event
  <1>7. row[b].status # "NONE"
    BY <1>1 DEF TypeOK, References
  <1>8. References'
    BY <1>1, <1>4, <1>7 DEF TypeOK, References
  <1> QED
    BY <1>1, <1>5, <1>6, <1>8 DEF TypeOK

\* The three ways to a paid session: the webhook, the confirmation page and
\* the loop of the reconciliation.
LEMMA TypeReadForConfirm ==
  ASSUME TypeOK, NEW p \in Process,
         \/ \E b \in Booking : HandleCompleted(p, b) \/ FindBySession(p, b)
         \/ Recover(p)
  PROVE  TypeOK'
  <1>1. ASSUME NEW b \in Booking, HandleCompleted(p, b) \/ FindBySession(p, b)
        PROVE  TypeOK'
    <2>1. row[b].status # "NONE"
      BY <1>1 DEF HandleCompleted, FindBySession, TypeOK, References
    <2>2. ReadForConfirm(p, b, [Idle EXCEPT !.todo = {}])
      <3>1. [Idle EXCEPT !.todo = {}] = Idle
        BY DEF Idle
      <3> QED
        BY <1>1, <3>1 DEF HandleCompleted, FindBySession
    <2>3. UNCHANGED <<row, blocks, session, event, alerted, now>>
      BY <1>1 DEF HandleCompleted, FindBySession
    <2> QED
      BY <2>1, <2>2, <2>3, ReadStep
  <1>2. CASE Recover(p)
    <2>1. PICK b \in task[p].todo :
            ReadForConfirm(p, b, [Idle EXCEPT !.todo = task[p].todo \ {b}])
      BY <1>2 DEF Recover
    <2>2. task[p].todo \subseteq Booking /\ \A c \in task[p].todo : row[c].status # "NONE"
      BY DEF TypeOK, TaskOK, Task, References
    <2>3. UNCHANGED <<row, blocks, session, event, alerted, now>>
      BY <1>2 DEF Recover
    <2> DEFINE T == task[p].todo \ {b}
    <2>4. b \in Booking /\ T \in SUBSET Booking
      BY <2>1, <2>2
    <2>5. row[b].status # "NONE" /\ \A c \in T : row[c].status # "NONE"
      BY <2>1, <2>2
    <2>6. ReadForConfirm(p, b, [Idle EXCEPT !.todo = T])
      BY <2>1
    <2> HIDE DEF T
    <2> QED
      BY <2>3, <2>4, <2>5, <2>6, ReadStep
  <1> QED
    BY <1>1, <1>2

LEMMA TypeConfirmPayment ==
  ASSUME TypeOK, NEW p \in Process, ConfirmPayment(p)
  PROVE  TypeOK'
  <1> DEFINE b == task[p].b
             T == task[p].todo
             t == IF T = {} THEN Idle ELSE [Idle EXCEPT !.stage = "recover", !.todo = T]
  <1>1. TaskOK(task[p]) /\ b \in Booking /\ T \subseteq Booking
    BY DEF TypeOK, TaskOK, Task, ConfirmPayment
  <1>2. row[b].status # "NONE" /\ \A c \in T : row[c].status # "NONE"
    BY <1>1 DEF TypeOK, References
  <1>3. TaskOK(t) /\ Refers(t) \subseteq T
    BY <1>1, ResumeIsTask
  <1>4. Begin(p, t)
    BY DEF ConfirmPayment, Resume
  <1>5. RowOK(Confirmed(row[b])) /\ Confirmed(row[b]).status # "NONE" /\ RowOK(row[b])
    <2>1. row[b] \in Row /\ RowOK(row[b])
      BY <1>1 DEF TypeOK
    <2> HIDE DEF b
    <2> QED
      BY <1>2, <2>1 DEF RowOK, Confirmed, Row, Status, Reason
  <1>6. \/ row' = [row EXCEPT ![b] = Confirmed(row[b])]
        \/ row' = [row EXCEPT ![b] = row[b]]
    BY <1>1 DEF ConfirmPayment, TypeOK
  <1>7. alerted' \subseteq Booking /\ UNCHANGED <<blocks, session, event, now>>
    BY <1>1 DEF ConfirmPayment, TypeOK
  <1> HIDE DEF b, t, T
  <1> QED
    BY <1>1, <1>2, <1>3, <1>4, <1>5, <1>6, <1>7, RowWrite

LEMMA TypeReconcile ==
  ASSUME TypeOK, NEW p \in Process, Reconcile(p) \/ ListSessions(p)
  PROVE  TypeOK'
  <1>1. CASE Reconcile(p)
    <2> DEFINE t == [Idle EXCEPT !.stage = "list", !.todo = Waiting]
    <2>1. Waiting \subseteq Booking /\ \A b \in Waiting : row[b].status # "NONE"
      BY DEF Waiting
    <2>2. TaskOK(t) /\ Refers(t) \subseteq Waiting
      <3> HIDE DEF Waiting
      <3> QED
        BY <2>1 DEF TaskOK, Task, Idle, Stage, Refers
    <2>3. Begin(p, t) /\ UNCHANGED <<row, blocks, session, event, alerted, now>>
      BY <1>1 DEF Reconcile
    <2> HIDE DEF t
    <2> QED
      BY <2>1, <2>2, <2>3, TaskOnly
  <1>2. CASE ListSessions(p)
    <2> DEFINE T == {b \in task[p].todo : session[b].state = "paid"}
               t == IF T = {} THEN Idle
                    ELSE [Idle EXCEPT !.stage = "recover", !.todo = T]
    <2>1. T \subseteq Booking /\ \A b \in T : row[b].status # "NONE"
      BY DEF TypeOK, TaskOK, Task, References
    <2>2. [task[p] EXCEPT !.todo = {b \in @ : session[b].state = "paid"}].todo = T
      BY DEF TypeOK, Task
    <2>3. Begin(p, t)
      BY <1>2, <2>2 DEF ListSessions, Resume
    <2>4. UNCHANGED <<row, blocks, session, event, alerted, now>>
      BY <1>2 DEF ListSessions
    <2> HIDE DEF T
    <2>5. TaskOK(t) /\ Refers(t) \subseteq T
      BY <2>1, ResumeIsTask
    <2> HIDE DEF t
    <2> QED
      BY <2>1, <2>3, <2>4, <2>5, TaskOnly
  <1> QED
    BY <1>1, <1>2

\* The read half of releaseHold and of cancel.
LEMMA TypeRefer ==
  ASSUME TypeOK, NEW p \in Process, Cancel(p) \/ \E b \in Booking : HandleExpired(p, b)
  PROVE  TypeOK'
  <1>1. PICK b \in Booking, stage \in {"cancel", "release"} :
          /\ row[b].status # "NONE"
          /\ Begin(p, [Idle EXCEPT !.stage = stage, !.b = b])
    BY DEF Cancel, HandleExpired, Occupies
  <1> DEFINE t == [Idle EXCEPT !.stage = stage, !.b = b]
  <1>2. TaskOK(t) /\ Refers(t) = {b}
    BY DEF TaskOK, Task, Idle, Stage, Refers
  <1>3. UNCHANGED <<row, blocks, session, event, alerted, now>>
    BY DEF Cancel, HandleExpired
  <1> HIDE DEF t
  <1> QED
    BY <1>1, <1>2, <1>3, TaskOnly DEF t

\* The write half of both.
LEMMA TypeEndHold ==
  ASSUME TypeOK, NEW p \in Process, ReleaseHold(p) \/ CancelStay(p)
  PROVE  TypeOK'
  <1> DEFINE b == task[p].b
             released == [row[b] EXCEPT !.status = "CANCELLED", !.reason = "unpaid"]
             cancelled == [row[b] EXCEPT !.status = "CANCELLED", !.expires = Null,
                                         !.reason = "host"]
  <1>1. b \in Booking
    BY DEF ReleaseHold, CancelStay, TypeOK, TaskOK
  <1>2. row[b] \in Row /\ RowOK(row[b]) /\ row[b].status # "NONE"
    BY <1>1 DEF TypeOK, References
  <1>3. /\ RowOK(released) /\ released.status # "NONE"
        /\ RowOK(cancelled) /\ cancelled.status # "NONE"
    <2> HIDE DEF b
    <2> QED
      BY <1>2 DEF RowOK, Row, Status, Reason
  <1>4. row' = [row EXCEPT ![b] = released] \/ row' = [row EXCEPT ![b] = cancelled]
    BY <1>1, <1>2 DEF ReleaseHold, CancelStay, TypeOK
  <1>5. Begin(p, Idle) /\ alerted' \subseteq Booking
        /\ UNCHANGED <<blocks, session, event, now>>
    BY DEF ReleaseHold, CancelStay, End, TypeOK
  <1>6. Refers(Idle) = {}
    BY DEF Refers, Idle
  <1> HIDE DEF b, released, cancelled
  <1> QED
    BY <1>1, <1>3, <1>4, <1>5, <1>6, IdleIsTask, RowWrite

LEMMA TypeUpdate ==
  ASSUME TypeOK, NEW p \in Process, Update(p)
  PROVE  TypeOK'
  <1>1. PICK b \in Booking, stay \in Stay, total \in Total :
          /\ row[b].status # "NONE"
          /\ Begin(p, [Idle EXCEPT !.stage = "move", !.b = b, !.stay = stay,
                                   !.total = total])
    <2>1. PICK b \in Booking, sent \in Stay \cup {Null}, total \in Total :
            LET stay == IF sent = Null THEN row[b].stay ELSE sent IN
            /\ Occupies(row[b])
            /\ Begin(p, [Idle EXCEPT !.stage = "move", !.b = b, !.stay = stay,
                                     !.total = total])
      BY DEF Update
    <2> DEFINE stay == IF sent = Null THEN row[b].stay ELSE sent
    <2>2. row[b].status # "NONE" /\ stay \in Stay
      BY <2>1 DEF Occupies, TypeOK, RowOK
    <2> QED
      BY <2>1, <2>2
  <1> DEFINE t == [Idle EXCEPT !.stage = "move", !.b = b, !.stay = stay,
                               !.total = total]
  <1>2. TaskOK(t) /\ Refers(t) = {b}
    BY DEF TaskOK, Task, Idle, Stage, Refers
  <1>3. UNCHANGED <<row, blocks, session, event, alerted, now>>
    BY DEF Update
  <1> HIDE DEF t
  <1> QED
    BY <1>1, <1>2, <1>3, TaskOnly DEF t

LEMMA TypeMoveStay ==
  ASSUME TypeOK, NEW p \in Process, MoveStay(p)
  PROVE  TypeOK'
  <1> DEFINE b == task[p].b
             r == [row[b] EXCEPT !.stay = task[p].stay, !.total = task[p].total]
  <1>1. b \in Booking /\ task[p].stay \in Stay /\ task[p].total \in Total \cup {Null}
    BY DEF MoveStay, TypeOK, TaskOK, Task
  <1>2. row[b] \in Row /\ RowOK(row[b]) /\ row[b].status # "NONE"
    BY <1>1 DEF TypeOK, References
  <1>3. RowOK(r) /\ r.status # "NONE"
    BY <1>1, <1>2 DEF RowOK, Row
  <1>4. row' = [row EXCEPT ![b] = r]
    BY <1>1, <1>2 DEF MoveStay, TypeOK
  <1>5. Begin(p, Idle) /\ alerted' \subseteq Booking
        /\ UNCHANGED <<blocks, session, event, now>>
    BY DEF MoveStay, End, TypeOK
  <1>6. Refers(Idle) = {}
    BY DEF Refers, Idle
  <1> HIDE DEF b, r
  <1> QED
    BY <1>1, <1>3, <1>4, <1>5, <1>6, IdleIsTask, RowWrite

LEMMA TypeBlocks ==
  ASSUME TypeOK, NEW p \in Process,
         BlockDates(p) \/ AddBlock(p)
  PROVE  TypeOK'
  <1>1. CASE BlockDates(p)
    <2>1. PICK range \in BlockRange :
            Begin(p, [Idle EXCEPT !.stage = "block", !.range = range])
      BY <1>1 DEF BlockDates
    <2> DEFINE t == [Idle EXCEPT !.stage = "block", !.range = range]
    <2>2. TaskOK(t) /\ Refers(t) = {}
      BY DEF TaskOK, Task, Idle, Stage, Refers
    <2>3. UNCHANGED <<row, blocks, session, event, alerted, now>>
      BY <1>1 DEF BlockDates
    <2> HIDE DEF t
    <2> QED
      BY <2>1, <2>2, <2>3, TaskOnly DEF t
  <1>2. CASE AddBlock(p)
    <2>1. blocks' \subseteq BlockRange
      BY <1>2 DEF AddBlock, TypeOK, TaskOK
    <2>2. UNCHANGED <<row, session, event, alerted, now>> /\ Begin(p, Idle)
      BY <1>2 DEF AddBlock, End
    <2>3. /\ task' \in [Process -> Task]
          /\ \A q \in Process : TaskOK(task'[q])
          /\ \A q \in Process : \A b \in Refers(task'[q]) : row'[b].status # "NONE"
      BY <2>2, IdleIsTask, TaskStep DEF Refers, Idle
    <2>4. References'
      BY <2>2, <2>3 DEF TypeOK, References, Refers
    <2> QED
      BY <2>1, <2>2, <2>3, <2>4 DEF TypeOK
  <1> QED
    BY <1>1, <1>2

LEMMA TypeAbort ==
  ASSUME TypeOK, NEW p \in Process, Abort(p)
  PROVE  TypeOK'
  BY IdleIsTask, TaskOnly DEF Abort, End, Refers, Idle

LEMMA TypeTick ==
  ASSUME TypeOK, Tick
  PROVE  TypeOK'
  BY DEF Tick, TypeOK, References

LEMMA TypeStep == TypeOK /\ [Next]_vars => TypeOK'
  <1> SUFFICES ASSUME TypeOK, [Next]_vars PROVE TypeOK'
    OBVIOUS
  <1>1. ASSUME NEW p \in Worker, GuestRequest(p) PROVE TypeOK'
    BY <1>1, TypeHold, TypeInsert, TypeOpenSession, TypeOpenFails, TypeDiscard
       DEF GuestRequest, Process
  <1>2. ASSUME NEW p \in Worker, HostRequest(p) PROVE TypeOK'
    BY <1>2, TypeHold, TypeUpdate, TypeMoveStay, TypeRefer, TypeEndHold, TypeBlocks
       DEF HostRequest, Process
  <1>3. ASSUME NEW p \in Worker, Webhook(p) PROVE TypeOK'
    BY <1>3, TypeReadForConfirm, TypeConfirmPayment, TypeRefer, TypeEndHold
       DEF Webhook, Process
  <1>4. ASSUME NEW p \in Job, Reconciliation(p) PROVE TypeOK'
    BY <1>4, TypeReconcile, TypeReadForConfirm, TypeConfirmPayment
       DEF Reconciliation, Process
  <1>5. ASSUME NEW p \in Process, Abort(p) PROVE TypeOK'
    BY <1>5, TypeAbort
  <1>6. ASSUME NEW b \in Booking, AbandonHold(b) \/ Pay(b) \/ Expire(b) PROVE TypeOK'
    BY <1>6, TypeAbandonHold, TypeSessionEnds
  <1>7. ASSUME NEW range \in BlockRange, UnblockDates(range) PROVE TypeOK'
    BY <1>7 DEF UnblockDates, TypeOK, References
  <1>8. CASE Tick
    BY <1>8, TypeTick
  <1>9. CASE UNCHANGED vars
    BY <1>9 DEF vars, TypeOK, References
  <1> QED
    BY <1>1, <1>2, <1>3, <1>4, <1>5, <1>6, <1>7, <1>8, <1>9 DEF Next

\* Rows, sessions and tasks are always well-formed, and nothing refers to a
\* booking that does not exist.
THEOREM TypeCorrect == Spec => []TypeOK
  BY TypeInit, TypeStep, PTL DEF Spec

-----------------------------------------------------------------------------
(***************************************************************************)
(* The steps by what they do to the Booking table.                         *)
(***************************************************************************)

\* A booking keeps its nights or gives them up; nobody takes any.
Releases ==
    \A b \in Booking :
        Occupies(row'[b]) => Occupies(row[b]) /\ row'[b].stay = row[b].stay

\* Booking b takes the nights of `stay`, which fit the rows as `rows` has
\* them; the others stay as they are in `rows`.
Takes(b, stay, rows) ==
    /\ \A c \in Booking : c # b => row'[c] = rows[c]
    /\ row'[b].stay = stay
    /\ Fits(rows, b, stay)

LEMMA InsertTakes ==
  ASSUME TypeOK, NEW p \in Process, Insert(p)
  PROVE  \E b \in Booking :
            /\ row[b].status = "NONE"
            /\ Takes(b, task[p].stay, Swept)
            /\ row'[b].status = IF task[p].expires = Null THEN "CONFIRMED" ELSE "PENDING"
  <1>1. PICK b \in Booking : /\ row[b].status = "NONE"
                             /\ Fits(Swept, b, task[p].stay)
                             /\ row' = [Swept EXCEPT ![b] = NewRow(task[p])]
    BY DEF Insert
  <1>2. Swept \in [Booking -> Row]
    BY <1>1, SweepIsMild
  <1>3. row'[b] = NewRow(task[p]) /\ \A c \in Booking : c # b => row'[c] = Swept[c]
    BY <1>1, <1>2
  <1>4. /\ NewRow(task[p]).stay = task[p].stay
        /\ NewRow(task[p]).status = IF task[p].expires = Null THEN "CONFIRMED"
                                                              ELSE "PENDING"
    BY DEF NewRow, NoRow
  <1> QED
    BY <1>1, <1>3, <1>4 DEF Takes

LEMMA ConfirmTakes ==
  ASSUME TypeOK, NEW p \in Process, ConfirmPayment(p)
  PROVE  \/ UNCHANGED row
         \/ /\ task[p].b \in Booking /\ row[task[p].b].status # "NONE"
            /\ Takes(task[p].b, row[task[p].b].stay, row)
            /\ row'[task[p].b].status = "CONFIRMED"
  <1> DEFINE b == task[p].b
  <1>1. b \in Booking /\ row[b] \in Row /\ row[b].status # "NONE"
    <2>1. b \in Booking
      BY DEF ConfirmPayment, TypeOK, TaskOK
    <2>2. row[b].status # "NONE"
      BY <2>1 DEF TypeOK, References
    <2>3. row[b] \in Row
      BY <2>1 DEF TypeOK
    <2> QED
      BY <2>1, <2>2, <2>3
  <1>2. /\ Confirmed(row[b]).stay = row[b].stay
        /\ Confirmed(row[b]).status = "CONFIRMED"
    <2> HIDE DEF b
    <2> QED
      BY <1>1 DEF Confirmed, Row
  <1>3. CASE Fits(row, b, row[b].stay) /\ row' = [row EXCEPT ![b] = Confirmed(row[b])]
    <2>1. row'[b] = Confirmed(row[b]) /\ \A c \in Booking : c # b => row'[c] = row[c]
      BY <1>1, <1>3 DEF TypeOK
    <2> QED
      BY <1>1, <1>2, <1>3, <2>1 DEF Takes
  <1> QED
    BY <1>3 DEF ConfirmPayment

LEMMA MoveTakes ==
  ASSUME TypeOK, NEW p \in Process, MoveStay(p)
  PROVE  LET b == task[p].b IN
         /\ b \in Booking /\ task[p].stay \in Stay
         /\ row'[b].status = row[b].status
         /\ \/ Occupies(row[b]) /\ Takes(b, task[p].stay, row)
            \/ ~Occupies(row[b]) /\ Releases
  <1> DEFINE b == task[p].b
             r == [row[b] EXCEPT !.stay = task[p].stay, !.total = task[p].total]
  <1>1. b \in Booking /\ task[p].stay \in Stay /\ row[b] \in Row
    BY DEF MoveStay, TypeOK, TaskOK
  <1>2. r.stay = task[p].stay /\ r.status = row[b].status
    <2> HIDE DEF b
    <2> QED
      BY <1>1 DEF Row
  <1>3. row' = [row EXCEPT ![b] = r]
    BY <1>1 DEF MoveStay, TypeOK
  <1> HIDE DEF r
  <1>4. row'[b] = r /\ \A c \in Booking : c # b => row'[c] = row[c]
    BY <1>1, <1>3 DEF TypeOK
  <1>5. Occupies(row[b]) => Fits(row, b, task[p].stay)
    BY DEF MoveStay
  <1> QED
    BY <1>1, <1>2, <1>4, <1>5 DEF Takes, Releases, Occupies

\* The nights of one booking go back on sale, or none do.
LEMMA EndReleases ==
  ASSUME TypeOK, NEW b \in Booking,
         \/ \E reason \in Reason : row' = Discarded(b, reason)
         \/ \E p \in Process : task[p].b = b /\ (ReleaseHold(p) \/ CancelStay(p))
  PROVE  /\ Releases
         /\ \A c \in Booking : c # b => row'[c] = row[c]
         /\ row'[b] # row[b] => row'[b].status = "CANCELLED"
  <1>1. row \in [Booking -> Row] /\ row[b] \in Row
    BY DEF TypeOK
  <1>2. \/ row' = row
        \/ \E r \in Row : r.status = "CANCELLED" /\ row' = [row EXCEPT ![b] = r]
    <2>1. ASSUME NEW reason \in Reason, row' = Discarded(b, reason)
          PROVE  \/ row' = row
                 \/ \E r \in Row : r.status = "CANCELLED" /\ row' = [row EXCEPT ![b] = r]
      <3> DEFINE r == [row[b] EXCEPT !.status = "CANCELLED", !.reason = reason,
                                     !.expires = Null]
      <3>1. r \in Row /\ r.status = "CANCELLED"
        BY <1>1 DEF Row, Status
      <3>2. row' = row \/ row' = [row EXCEPT ![b] = r]
        BY <1>1, <2>1 DEF Discarded
      <3> QED
        BY <3>1, <3>2
    <2>2. ASSUME NEW p \in Process, task[p].b = b, ReleaseHold(p) \/ CancelStay(p)
          PROVE  \E r \in Row : r.status = "CANCELLED" /\ row' = [row EXCEPT ![b] = r]
      <3> DEFINE released == [row[b] EXCEPT !.status = "CANCELLED", !.reason = "unpaid"]
                 cancelled == [row[b] EXCEPT !.status = "CANCELLED", !.expires = Null,
                                             !.reason = "host"]
      <3>1. /\ released \in Row /\ released.status = "CANCELLED"
            /\ cancelled \in Row /\ cancelled.status = "CANCELLED"
        BY <1>1 DEF Row, Status, Reason
      <3>2. row' = [row EXCEPT ![b] = released] \/ row' = [row EXCEPT ![b] = cancelled]
        BY <1>1, <2>2 DEF ReleaseHold, CancelStay
      <3> QED
        BY <3>1, <3>2
    <2> QED
      BY <2>1, <2>2
  <1> QED
    BY <1>1, <1>2 DEF Releases, Occupies

\* Every step is one of these.
LEMMA StepShapes ==
  ASSUME TypeOK, [Next]_vars
  PROVE  \/ UNCHANGED row
         \/ \E p \in Process : Insert(p) \/ ConfirmPayment(p) \/ MoveStay(p)
         \/ \E b \in Booking :
               \/ \E reason \in Reason : row' = Discarded(b, reason)
               \/ \E p \in Process : task[p].b = b /\ (ReleaseHold(p) \/ CancelStay(p))
  <1>1. ASSUME NEW p \in Process, Discard(p) \/ ReleaseHold(p) \/ CancelStay(p)
        PROVE  task[p].b \in Booking
    BY <1>1 DEF Discard, ReleaseHold, CancelStay, TypeOK, TaskOK
  <1>2. ASSUME NEW p \in Worker, GuestRequest(p) \/ HostRequest(p) \/ Webhook(p)
        PROVE  \/ UNCHANGED row
               \/ Insert(p) \/ ConfirmPayment(p) \/ MoveStay(p)
               \/ Discard(p) \/ ReleaseHold(p) \/ CancelStay(p)
    BY <1>2 DEF GuestRequest, HostRequest, Webhook, Hold, OpenSession, OpenFails,
                CreateManual, Update, Cancel, BlockDates, AddBlock,
                HandleCompleted, FindBySession, HandleExpired
  <1>3. ASSUME NEW p \in Job, Reconciliation(p)
        PROVE  UNCHANGED row \/ ConfirmPayment(p)
    BY <1>3 DEF Reconciliation, Reconcile, ListSessions, Recover
  <1>4. ASSUME NEW b \in Booking, AbandonHold(b) \/ Pay(b) \/ Expire(b)
        PROVE  UNCHANGED row \/ row' = Discarded(b, "turnedBack")
    BY <1>4 DEF AbandonHold, Pay, Expire
  <1>5. CASE \/ \E p \in Process : Abort(p)
             \/ \E range \in BlockRange : UnblockDates(range)
             \/ Tick \/ UNCHANGED vars
    BY <1>5 DEF Abort, UnblockDates, Tick, vars
  <1>6. {"turnedBack", "unopened"} \subseteq Reason
    BY DEF Reason
  <1>7. ASSUME NEW p \in Process, Discard(p)
        PROVE  row' = Discarded(task[p].b, "unopened")
    BY <1>7 DEF Discard
  <1> QED
    BY <1>1, <1>2, <1>3, <1>4, <1>5, <1>6, <1>7 DEF Next, Process

-----------------------------------------------------------------------------
(***************************************************************************)
(* No double sale.                                                         *)
(***************************************************************************)

LEMMA OverlapsCommutes ==
  ASSUME NEW s, NEW t
  PROVE  Overlaps(s, t) <=> Overlaps(t, s)
  BY DEF Overlaps

LEMMA ReleasesKeepsApart ==
  ASSUME NoDoubleSale, Releases
  PROVE  NoDoubleSale'
  BY DEF NoDoubleSale, Releases

LEMMA TakesKeepsApart ==
  ASSUME NoDoubleSale, NEW b \in Booking, NEW stay, NEW rows,
         Takes(b, stay, rows),
         \A c \in Booking :
            Occupies(rows[c]) => Occupies(row[c]) /\ rows[c].stay = row[c].stay
  PROVE  NoDoubleSale'
  <1> SUFFICES ASSUME NEW c \in Booking, NEW d \in Booking, c # d,
                      Occupies(row'[c]), Occupies(row'[d])
               PROVE  ~Overlaps(row'[c].stay, row'[d].stay)
    BY DEF NoDoubleSale, Occupies
  <1>1. CASE c = b
    BY <1>1, OverlapsCommutes DEF Takes, Fits
  <1>2. CASE d = b
    BY <1>2, OverlapsCommutes DEF Takes, Fits
  <1>3. CASE c # b /\ d # b
    BY <1>3 DEF Takes, NoDoubleSale
  <1> QED
    BY <1>1, <1>2, <1>3

LEMMA ApartStep == TypeOK /\ NoDoubleSale /\ [Next]_vars => NoDoubleSale'
  <1> SUFFICES ASSUME TypeOK, NoDoubleSale, [Next]_vars
               PROVE  NoDoubleSale'
    OBVIOUS
  <1>1. CASE UNCHANGED row
    BY <1>1, ReleasesKeepsApart DEF Releases
  <1>2. ASSUME NEW p \in Process, Insert(p)
        PROVE  NoDoubleSale'
    <2>1. PICK b \in Booking : Takes(b, task[p].stay, Swept)
      BY <1>2, InsertTakes
    <2>2. \A c \in Booking :
             Occupies(Swept[c]) => Occupies(row[c]) /\ Swept[c].stay = row[c].stay
      BY SweepIsMild
    <2> QED
      BY <2>1, <2>2, TakesKeepsApart
  <1>3. ASSUME NEW p \in Process, ConfirmPayment(p)
        PROVE  NoDoubleSale'
    BY <1>1, <1>3, ConfirmTakes, TakesKeepsApart
  <1>4. ASSUME NEW p \in Process, MoveStay(p)
        PROVE  NoDoubleSale'
    BY <1>4, MoveTakes, TakesKeepsApart, ReleasesKeepsApart
  <1>5. ASSUME NEW b \in Booking,
               \/ \E reason \in Reason : row' = Discarded(b, reason)
               \/ \E p \in Process : task[p].b = b /\ (ReleaseHold(p) \/ CancelStay(p))
        PROVE  NoDoubleSale'
    BY <1>5, EndReleases, ReleasesKeepsApart
  <1> QED
    BY <1>1, <1>2, <1>3, <1>4, <1>5, StepShapes

\* No night is sold twice, whatever holds, manual stays, moves, sweeps and
\* late payments interleave: the promise Booking_no_overlap makes.
THEOREM NeverDoubleSold == Spec => []NoDoubleSale
  <1>1. Init => NoDoubleSale
    BY DEF Init, NoDoubleSale, Occupies, NoRow
  <1> QED
    BY <1>1, TypeInit, TypeStep, ApartStep, PTL DEF Spec

\* A stay the public calendar shows as free is never refused by the
\* constraint of the transaction that inserts it.
THEOREM CalendarIsHonest == Spec => []FreeIsSellable
  <1>1. TypeOK => FreeIsSellable
    <2> SUFFICES ASSUME TypeOK, NEW stay \in Stay, NEW b \in Booking,
                        ~ShownTaken(stay), NEW c \in Booking \ {b}, Occupies(Swept[c])
                 PROVE  ~Overlaps(Swept[c].stay, stay)
      BY DEF FreeIsSellable, Fits
    <2>1. Occupies(row[c]) /\ Swept[c].stay = row[c].stay
      BY SweepIsMild
    <2>2. ~Lapsed(row[c])
      BY DEF Swept, Occupies, TypeOK, Row
    <2> QED
      BY <2>1, <2>2 DEF ShownTaken
  <1> QED
    BY <1>1, TypeCorrect, PTL

-----------------------------------------------------------------------------
(***************************************************************************)
(* The night ledger.                                                       *)
(***************************************************************************)

\* Two stays overlap, as Postgres compares them, when they share a night.
LEMMA OverlapIsSharedNight ==
  ASSUME NEW s, NEW t, IsStay(s), IsStay(t)
  PROVE  Overlaps(s, t) <=> Nights(s) \cap Nights(t) # {}
  <1>1. s.in \in Int /\ s.out \in Int /\ t.in \in Int /\ t.out \in Int
    BY DEF IsStay
  <1>2. s.in <= s.out /\ t.in <= t.out
    BY DEF IsStay
  <1>3. ASSUME Overlaps(s, t) PROVE Nights(s) \cap Nights(t) # {}
    <2> DEFINE n == IF s.in <= t.in THEN t.in ELSE s.in
    <2>1. n \in Nights(s) /\ n \in Nights(t)
      BY <1>1, <1>2, <1>3 DEF Overlaps, Nights
    <2> QED
      BY <2>1
  <1>4. ASSUME NEW n \in Nights(s) \cap Nights(t) PROVE Overlaps(s, t)
    BY <1>1, <1>4 DEF Overlaps, Nights
  <1> QED
    BY <1>3, <1>4

LEMMA StaysAreStays ==
  ASSUME NEW s \in Stay
  PROVE  IsStay(s)
  BY BookingsAssumption

\* The nights a booking holds in the ledger.
Held(r) == IF Occupies(r) THEN Nights(r.stay) ELSE {}

Held0 == [b \in Booking |-> Held(row[b])]
Sold0 == {b \in Booking : row[b].status = "CONFIRMED"}

LEMMA OccupantsHaveStays ==
  ASSUME TypeOK, NEW b \in Booking, Occupies(row[b])
  PROVE  row[b].stay \in Stay
  BY DEF TypeOK, RowOK, Occupies

\* What Fits in the table is free in the ledger.
LEMMA FitsIsFree ==
  ASSUME TypeOK, NEW b \in Booking, NEW stay \in Stay, Fits(row, b, stay)
  PROVE  \A c \in Booking \ {b} : Held(row[c]) \cap Nights(stay) = {}
  <1> SUFFICES ASSUME NEW c \in Booking \ {b}, Occupies(row[c])
               PROVE  Nights(row[c].stay) \cap Nights(stay) = {}
    BY DEF Held
  <1>1. row[c].stay \in Stay
    BY OccupantsHaveStays
  <1> QED
    BY <1>1, StaysAreStays, OverlapIsSharedNight DEF Fits

LEMMA ClaimIsStep ==
  ASSUME NEW b \in Booking, NEW nights \in {Nights(s) : s \in Stay},
         NEW lapsed \in SUBSET Booking, NEW isSold \in BOOLEAN,
         Ledger!Claim(b, nights, lapsed, isSold)
  PROVE  Ledger!Next
  BY DEF Ledger!Next

LEMMA SellIsStep ==
  ASSUME NEW b \in Booking, NEW nights \in {Nights(s) : s \in Stay},
         Ledger!Sell(b, nights)
  PROVE  Ledger!Next
  BY DEF Ledger!Next

\* An insert is a claim; the holds it sweeps are the lapsed ones.
LEMMA InsertClaims ==
  ASSUME TypeOK, NEW p \in Process, Insert(p)
  PROVE  Ledger!Next
  <1>1. PICK b \in Booking :
          /\ row[b].status = "NONE"
          /\ Takes(b, task[p].stay, Swept)
          /\ row'[b].status = IF task[p].expires = Null THEN "CONFIRMED" ELSE "PENDING"
    BY InsertTakes
  <1> DEFINE nights == Nights(task[p].stay)
             lapsed == {c \in Booking : Lapsed(row[c])}
  <1>2. task[p].stay \in Stay /\ nights \in {Nights(s) : s \in Stay}
    BY DEF Insert, TypeOK, TaskOK
  <1>3. Held(row[b]) = {} /\ ~Lapsed(row[b]) /\ b \notin Sold0
    BY <1>1 DEF Held, Occupies, Lapsed, Sold0
  <1>4. lapsed \cap (Sold0 \cup {b}) = {}
    BY <1>3 DEF Sold0, Lapsed
  <1>5. \A c \in Booking \ {b} :
          row'[c] = Swept[c]
    BY <1>1 DEF Takes
  <1>6. \A c \in Booking :
          IF Lapsed(row[c]) THEN Swept[c].status = "CANCELLED" ELSE Swept[c] = row[c]
    BY DEF Swept, TypeOK, Row
  <1>7. \A c \in Booking \ {b} :
          Held(row'[c]) = IF Lapsed(row[c]) THEN {} ELSE Held(row[c])
    BY <1>5, <1>6 DEF Held, Occupies
  <1>8. Held(row'[b]) = nights
    BY <1>1 DEF Held, Occupies, Takes
  <1>9. \A c \in Booking \ ({b} \cup lapsed) : Held(row[c]) \cap nights = {}
    <2> SUFFICES ASSUME NEW c \in Booking, c # b, ~Lapsed(row[c]), Occupies(row[c])
                 PROVE  Nights(row[c].stay) \cap nights = {}
      BY DEF Held
    <2>1. ~Overlaps(row[c].stay, task[p].stay)
      BY <1>1, <1>6 DEF Takes, Fits
    <2> QED
      BY <1>2, <2>1, OccupantsHaveStays, StaysAreStays, OverlapIsSharedNight
  <1>10. Held0' = [c \in Booking |-> CASE c = b -> nights
                                       [] c # b /\ c \in lapsed -> {}
                                       [] OTHER -> Held0[c]]
    BY <1>7, <1>8 DEF Held0
  <1>11. Sold0' = IF task[p].expires = Null THEN Sold0 \cup {b} ELSE Sold0
    BY <1>1, <1>3, <1>5, <1>6 DEF Sold0, Lapsed
  <1>12. \/ Ledger!Claim(b, nights, lapsed, TRUE)
         \/ Ledger!Claim(b, nights, lapsed, FALSE)
    BY <1>3, <1>4, <1>9, <1>10, <1>11
       DEF Ledger!Claim, Ledger!FreeFor, Held0, Held, Sold0
  <1>13. lapsed \in SUBSET Booking
    OBVIOUS
  <1> HIDE DEF nights, lapsed
  <1> QED
    BY <1>2, <1>12, <1>13, ClaimIsStep

\* A recorded payment is a sale.
LEMMA ConfirmSells ==
  ASSUME TypeOK, NEW p \in Process, ConfirmPayment(p), row' # row
  PROVE  Ledger!Next
  <1>1. PICK b \in Booking :
          /\ row[b].status # "NONE"
          /\ Takes(b, row[b].stay, row) /\ row'[b].status = "CONFIRMED"
    BY ConfirmTakes
  <1>2. row[b].stay \in Stay
    BY <1>1 DEF TypeOK, RowOK
  <1>3. PICK nights \in {Nights(s) : s \in Stay} : nights = Nights(row[b].stay)
    BY <1>2
  <1>4. Held(row[b]) \in {{}, nights} /\ Held(row'[b]) = nights
    BY <1>1, <1>3 DEF Held, Occupies, Takes
  <1>5. \A c \in Booking \ {b} : row'[c] = row[c] /\ Held(row[c]) \cap nights = {}
    BY <1>1, <1>2, <1>3, FitsIsFree DEF Takes
  <1>6. Held0' = [Held0 EXCEPT ![b] = nights] /\ Sold0' = Sold0 \cup {b}
    BY <1>1, <1>4, <1>5 DEF Held0, Sold0
  <1>7. Ledger!Sell(b, nights)
    BY <1>1, <1>4, <1>5, <1>6 DEF Ledger!Sell, Ledger!FreeFor, Held0, Held, Sold0
  <1> QED
    BY <1>7, SellIsStep

\* A change of dates is a move, and one that comes too late is nothing.
LEMMA MoveMoves ==
  ASSUME TypeOK, NEW p \in Process, MoveStay(p)
  PROVE  Ledger!Next \/ UNCHANGED <<Held0, Sold0>>
  <1> DEFINE b == task[p].b
             nights == Nights(task[p].stay)
  <1>1. b \in Booking /\ task[p].stay \in Stay /\ row'[b].status = row[b].status
    BY MoveTakes
  <1>2. CASE Occupies(row[b]) /\ Takes(b, task[p].stay, row)
    <2>1. Held(row'[b]) = nights
      BY <1>1, <1>2 DEF Held, Occupies, Takes
    <2>2. \A c \in Booking \ {b} : row'[c] = row[c] /\ Held(row[c]) \cap nights = {}
      BY <1>1, <1>2, FitsIsFree DEF Takes
    <2>3. Held0' = [Held0 EXCEPT ![b] = nights] /\ Sold0' = Sold0
      BY <1>1, <2>1, <2>2 DEF Held0, Sold0
    <2>4. Ledger!Move(b, nights)
      BY <1>1, <2>1, <2>2, <2>3 DEF Ledger!Move, Ledger!FreeFor, Held0, Held, Sold0
    <2> HIDE DEF b
    <2> QED
      BY <1>1, <2>4 DEF Ledger!Next
  <1>3. CASE ~Occupies(row[b])
    <2>1. \A c \in Booking : c # b => row'[c] = row[c]
      BY <1>1 DEF MoveStay, TypeOK
    <2>2. \A c \in Booking : Held(row'[c]) = Held(row[c])
      BY <1>1, <1>3, <2>1 DEF Held, Occupies
    <2>3. \A c \in Booking : row'[c].status = row[c].status
      BY <1>1, <2>1
    <2> QED
      BY <2>2, <2>3 DEF Held0, Sold0
  <1> QED
    BY <1>2, <1>3, MoveTakes

\* A hold given up and a stay cancelled give their nights back.
LEMMA EndGivesBack ==
  ASSUME TypeOK, NEW b \in Booking,
         \/ \E reason \in Reason : row' = Discarded(b, reason)
         \/ \E p \in Process : task[p].b = b /\ (ReleaseHold(p) \/ CancelStay(p))
  PROVE  Ledger!Next \/ UNCHANGED <<Held0, Sold0>>
  <1>1. /\ \A c \in Booking : c # b => row'[c] = row[c]
        /\ row'[b] # row[b] => row'[b].status = "CANCELLED"
    BY EndReleases
  <1>2. CASE row'[b] # row[b] /\ Occupies(row[b])
    <2>1. Held(row'[b]) = {}
      BY <1>1, <1>2 DEF Held, Occupies
    <2>2. Held0' = [Held0 EXCEPT ![b] = {}] /\ Sold0' = Sold0 \ {b}
      BY <1>1, <1>2, <2>1 DEF Held0, Sold0
    <2>3. Ledger!GiveBack(b)
      BY <2>1, <2>2 DEF Ledger!GiveBack, Held0, Held, Sold0
    <2> QED
      BY <2>3 DEF Ledger!Next
  <1>3. CASE row'[b] = row[b] \/ ~Occupies(row[b])
    <2>1. \A c \in Booking :
             Held(row'[c]) = Held(row[c])
             /\ (row'[c].status = "CONFIRMED" <=> row[c].status = "CONFIRMED")
      BY <1>1, <1>3 DEF Held, Occupies
    <2> QED
      BY <2>1 DEF Held0, Sold0
  <1> QED
    BY <1>2, <1>3

\* The booking service implements the night ledger: whole stays are claimed,
\* sold, moved and given back, one holder per night, and no sold night is
\* taken from its holder to be given to another.
THEOREM BookingsImplementLedger == Spec => ImplementsLedger
  <1>1. Init => Ledger!Init
    BY DEF Init, Ledger!Init, Occupies, NoRow
  <1>2. ASSUME TypeOK, [Next]_vars
        PROVE  Ledger!Next \/ UNCHANGED <<Held0, Sold0>>
    <2>1. CASE UNCHANGED row
      BY <2>1 DEF Held0, Sold0
    <2> QED
      BY <1>2, <2>1, StepShapes, InsertClaims, ConfirmSells, MoveMoves, EndGivesBack
  <1>3. TypeOK /\ [Next]_vars => [Ledger!Next]_Ledger!vars
    BY <1>2 DEF Ledger!vars, Held0, Sold0, Held
  <1> QED
    BY <1>1, <1>3, TypeCorrect, PTL DEF Spec, ImplementsLedger, Ledger!Spec

-----------------------------------------------------------------------------
(***************************************************************************)
(* Money: only a payment confirms a stay, only the host ends one, and a    *)
(* paid hold is not released behind the guest's back, for every            *)
(* number of requests in flight.                                           *)
(*                                                                         *)
(* ConfirmedIsPaid is not inductive: confirmPayment writes what it learnt  *)
(* from Stripe some awaits earlier, and releaseHold writes with no guard   *)
(* at all.  PaymentTrail says why that is sound: a session that was paid   *)
(* or has expired stays so, and a row without a session has one request    *)
(* that may still open it.  The two together, with TypeOK, are inductive.  *)
(***************************************************************************)

Opening == {"open", "discard"}

\* Every handler step moves one task and leaves the others alone.
Moves(p) ==
    /\ task \in [Process -> Task]
    /\ task' = [task EXCEPT ![p] = task'[p]]

\* Such a step that touches no session keeps the trail if the task it leaves
\* is on it.  A row becomes paid only if its session is.
LEMMA TrailTask ==
  ASSUME TypeOK, PaymentTrail, NEW p \in Process,
         Moves(p), TrailOK(task[p])',
         UNCHANGED <<session, event>>,
         \A b \in Booking : row'[b].paid => row[b].paid \/ session[b].state = "paid",
         task'[p].stage \in Opening => task[p].stage \in Opening /\ task'[p].b = task[p].b
  PROVE  PaymentTrail'
  <1>1. \A q \in Process : q # p => task'[q] = task[q]
    BY DEF Moves
  <1>2. ASSUME NEW q \in Process PROVE TrailOK(task[q])'
    <2>1. CASE q = p
      BY <2>1
    <2>2. CASE q # p
      <3>1. TrailOK(task[q]) /\ TaskOK(task[q]) /\ task'[q] = task[q]
        BY <1>1, <2>2 DEF PaymentTrail, TypeOK
      <3> QED
        BY <3>1 DEF TrailOK, TaskOK
    <2> QED
      BY <2>1, <2>2
  <1>3. \A q, r \in Process :
          (q # r /\ task'[q].stage \in Opening /\ task'[r].stage \in Opening)
             => task'[q].b # task'[r].b
    BY <1>1 DEF PaymentTrail, Opening
  <1> QED
    BY <1>2, <1>3 DEF PaymentTrail, Opening

\* Stages that carry no knowledge of money.
Plain == {"idle", "insert", "move", "cancel", "block", "list"}

LEMMA PlainTrail ==
  ASSUME TypeOK, PaymentTrail, NEW p \in Process,
         Moves(p), task'[p].stage \in Plain,
         UNCHANGED <<session, event>>,
         \A b \in Booking : row'[b].paid => row[b].paid \/ session[b].state = "paid"
  PROVE  PaymentTrail'
  <1>1. TrailOK(task[p])' /\ task'[p].stage \notin Opening
    BY DEF TrailOK, Plain, Opening
  <1> QED
    BY <1>1, TrailTask

\* The first half of a handler that is not about money.
LEMMA TrailReads ==
  ASSUME TypeOK, PaymentTrail, NEW p \in Process,
         \/ Hold(p) \/ CreateManual(p) \/ Update(p) \/ Cancel(p) \/ BlockDates(p)
         \/ AddBlock(p) \/ Abort(p) \/ Reconcile(p)
  PROVE  PaymentTrail'
  <1>1. UNCHANGED <<row, session, event>>
    BY DEF Hold, CreateManual, Update, Cancel, BlockDates, AddBlock, Abort, Reconcile
  <1>2. Moves(p) /\ task'[p].stage \in Plain
    <2>1. CASE Hold(p)
      BY <2>1 DEF Moves, TypeOK, Hold, Begin, Idle, Plain
    <2>2. CASE CreateManual(p)
      BY <2>2 DEF Moves, TypeOK, CreateManual, Begin, Idle, Plain
    <2>3. CASE Update(p)
      BY <2>3 DEF Moves, TypeOK, Update, Begin, Idle, Plain
    <2>4. CASE Cancel(p)
      BY <2>4 DEF Moves, TypeOK, Cancel, Begin, Idle, Plain
    <2>5. CASE BlockDates(p)
      BY <2>5 DEF Moves, TypeOK, BlockDates, Begin, Idle, Plain
    <2>6. CASE Reconcile(p)
      BY <2>6 DEF Moves, TypeOK, Reconcile, Begin, Idle, Plain
    <2>7. CASE AddBlock(p) \/ Abort(p)
      BY <2>7 DEF Moves, TypeOK, AddBlock, Abort, End, Begin, Idle, Plain
    <2> QED
      BY <2>1, <2>2, <2>3, <2>4, <2>5, <2>6, <2>7
  <1> QED
    BY <1>1, <1>2, PlainTrail

LEMMA TrailOpenFails ==
  ASSUME TypeOK, PaymentTrail, NEW p \in Process, OpenFails(p)
  PROVE  PaymentTrail'
  <1>1. /\ Moves(p) /\ task'[p].stage = "discard" /\ task'[p].b = task[p].b
        /\ task[p].stage = "open"
    BY DEF Moves, TypeOK, OpenFails, Begin, Idle
  <1>2. TrailOK(task[p]) /\ UNCHANGED <<row, session, event>>
    BY DEF PaymentTrail, OpenFails
  <1>3. TrailOK(task[p])'
    BY <1>1, <1>2 DEF TrailOK
  <1> QED
    BY <1>1, <1>2, <1>3, TrailTask DEF Opening

LEMMA TrailHandleExpired ==
  ASSUME TypeOK, PaymentTrail, NEW p \in Process, NEW b \in Booking, HandleExpired(p, b)
  PROVE  PaymentTrail'
  <1>1. Moves(p) /\ task'[p].stage = "release" /\ task'[p].b = b
    BY DEF Moves, TypeOK, HandleExpired, Begin, Idle
  <1>2. session[b].state = "expired" /\ UNCHANGED <<row, session, event>>
    BY DEF PaymentTrail, HandleExpired
  <1>3. TrailOK(task[p])'
    BY <1>1, <1>2 DEF TrailOK
  <1> QED
    BY <1>1, <1>2, <1>3, TrailTask DEF Opening

\* What Resume and ReadForConfirm leave behind is known to be paid.
LEMMA TrailResume ==
  ASSUME TypeOK, PaymentTrail, NEW p \in Process, NEW t,
         Resume(p, t), \A b \in t.todo : session[b].state = "paid",
         UNCHANGED <<session, event>>,
         \A b \in Booking : row'[b].paid => row[b].paid \/ session[b].state = "paid"
  PROVE  PaymentTrail'
  <1>1. /\ Moves(p)
        /\ task'[p] = IF t.todo = {} THEN Idle
                      ELSE [Idle EXCEPT !.stage = "recover", !.todo = t.todo]
    BY DEF Moves, TypeOK, Resume, Begin
  <1>2. /\ task'[p].stage \in {"idle", "recover"}
        /\ task'[p].stage = "recover" => task'[p].todo = t.todo
    BY <1>1 DEF Idle
  <1>3. TrailOK(task[p])'
    BY <1>2 DEF TrailOK
  <1> QED
    BY <1>1, <1>2, <1>3, TrailTask DEF Opening

LEMMA TrailRead ==
  ASSUME TypeOK, PaymentTrail, NEW p \in Process, NEW b \in Booking,
         NEW T \in SUBSET Booking,
         session[b].state = "paid", \A c \in T : session[c].state = "paid",
         ReadForConfirm(p, b, [Idle EXCEPT !.todo = T]),
         UNCHANGED <<row, session, event>>
  PROVE  PaymentTrail'
  <1>1. [Idle EXCEPT !.todo = T].todo = T
    BY DEF Idle
  <1>2. CASE Resume(p, [Idle EXCEPT !.todo = T])
    BY <1>1, <1>2, TrailResume
  <1>3. CASE Begin(p, [[Idle EXCEPT !.todo = T] EXCEPT !.stage = "confirm", !.b = b])
    <2>1. Moves(p) /\ task'[p].stage = "confirm" /\ task'[p].b = b /\ task'[p].todo = T
      BY <1>3 DEF Moves, TypeOK, Begin, Idle
    <2>2. TrailOK(task[p])'
      BY <2>1 DEF TrailOK
    <2> QED
      BY <2>1, <2>2, TrailTask DEF Opening
  <1> QED
    BY <1>2, <1>3 DEF ReadForConfirm

LEMMA TrailReadForConfirm ==
  ASSUME TypeOK, PaymentTrail, NEW p \in Process,
         \/ \E b \in Booking : HandleCompleted(p, b) \/ FindBySession(p, b)
         \/ Recover(p) \/ ListSessions(p)
  PROVE  PaymentTrail'
  <1>1. UNCHANGED <<row, session, event>>
    BY DEF HandleCompleted, FindBySession, Recover, ListSessions
  <1>2. ASSUME NEW b \in Booking, HandleCompleted(p, b) \/ FindBySession(p, b)
        PROVE  PaymentTrail'
    <2>1. session[b].state = "paid" /\ ReadForConfirm(p, b, Idle)
      BY <1>2 DEF HandleCompleted, FindBySession, PaymentTrail
    <2>2. [Idle EXCEPT !.todo = {}] = Idle
      BY DEF Idle
    <2> QED
      BY <1>1, <2>1, <2>2, TrailRead
  <1>3. CASE Recover(p)
    <2>1. PICK b \in task[p].todo :
            ReadForConfirm(p, b, [Idle EXCEPT !.todo = task[p].todo \ {b}])
      BY <1>3 DEF Recover
    <2>2. task[p].todo \subseteq Booking
      BY DEF TypeOK, Task
    <2>3. \A c \in task[p].todo : session[c].state = "paid"
      BY <1>3 DEF Recover, PaymentTrail, TrailOK
    <2>4. PICK T \in SUBSET Booking : T = task[p].todo \ {b}
      BY <2>2
    <2> QED
      BY <1>1, <2>1, <2>2, <2>3, <2>4, TrailRead
  <1>4. CASE ListSessions(p)
    <2>1. [task[p] EXCEPT !.todo = {b \in @ : session[b].state = "paid"}].todo
          = {b \in task[p].todo : session[b].state = "paid"}
      BY DEF TypeOK, Task
    <2>2. Resume(p, [task[p] EXCEPT !.todo = {b \in @ : session[b].state = "paid"}])
      BY <1>4 DEF ListSessions
    <2> QED
      BY <1>1, <2>1, <2>2, TrailResume
  <1> QED
    BY <1>2, <1>3, <1>4

\* No row becomes paid when nights are given up or moved.
LEMMA UnpaidStays ==
  ASSUME TypeOK, NEW p \in Process, NEW c \in Booking,
         \/ MoveStay(p) \/ ReleaseHold(p) \/ CancelStay(p)
         \/ \E b \in Booking, reason \in Reason : row' = Discarded(b, reason)
  PROVE  /\ row'[c].paid <=> row[c].paid
         /\ row'[c].recorded <=> row[c].recorded
         /\ row'[c].status = "CONFIRMED" => row[c].status = "CONFIRMED"
  <1>1. row \in [Booking -> Row] /\ row[c] \in Row
    BY DEF TypeOK
  <1>2. CASE MoveStay(p)
    BY <1>1, <1>2 DEF MoveStay, Row
  <1>3. CASE ReleaseHold(p)
    BY <1>1, <1>3 DEF ReleaseHold, Row
  <1>4. CASE CancelStay(p)
    BY <1>1, <1>4 DEF CancelStay, Row
  <1>5. ASSUME NEW b \in Booking, NEW reason \in Reason, row' = Discarded(b, reason)
        PROVE  /\ row'[c].paid <=> row[c].paid
               /\ row'[c].recorded <=> row[c].recorded
               /\ row'[c].status = "CONFIRMED" => row[c].status = "CONFIRMED"
    BY <1>1, <1>5 DEF Discarded, Row
  <1> QED
    BY <1>2, <1>3, <1>4, <1>5

LEMMA TrailRowWrites ==
  ASSUME TypeOK, PaymentTrail, NEW p \in Process,
         Discard(p) \/ MoveStay(p) \/ ReleaseHold(p) \/ CancelStay(p)
  PROVE  PaymentTrail'
  <1>1. Moves(p) /\ task'[p].stage \in Plain
    BY DEF Discard, MoveStay, ReleaseHold, CancelStay, End, Begin, Idle, Plain,
           Moves, TypeOK
  <1>2. UNCHANGED <<session, event>>
    BY DEF Discard, MoveStay, ReleaseHold, CancelStay
  <1>3. Discard(p) => task[p].b \in Booking /\ row' = Discarded(task[p].b, "unopened")
    BY DEF Discard, TypeOK, TaskOK
  <1>4. "unopened" \in Reason
    BY DEF Reason
  <1>5. \A b \in Booking : row'[b].paid => row[b].paid
    BY <1>3, <1>4, UnpaidStays
  <1> QED
    BY <1>1, <1>2, <1>5, PlainTrail

LEMMA TrailAbandonHold ==
  ASSUME TypeOK, PaymentTrail, NEW b \in Booking, AbandonHold(b)
  PROVE  PaymentTrail'
  <1>1. row' = Discarded(b, "turnedBack") /\ UNCHANGED <<session, event, task>>
    BY DEF AbandonHold
  <1>2. \A c \in Booking : row'[c].paid <=> row[c].paid
    BY <1>1 DEF Discarded, TypeOK, Row
  <1>3. ASSUME NEW p \in Process PROVE TrailOK(task[p])'
    BY <1>1, <1>2 DEF PaymentTrail, TrailOK, TypeOK, TaskOK
  <1> QED
    BY <1>1, <1>3 DEF PaymentTrail

LEMMA TrailConfirmPayment ==
  ASSUME TypeOK, PaymentTrail, NEW p \in Process, ConfirmPayment(p)
  PROVE  PaymentTrail'
  <1>1. task[p].b \in Booking /\ session[task[p].b].state = "paid"
    BY DEF ConfirmPayment, TypeOK, TaskOK, PaymentTrail, TrailOK
  <1>2. \A b \in task[p].todo : session[b].state = "paid"
    BY DEF ConfirmPayment, PaymentTrail, TrailOK
  <1>3. Resume(p, task[p]) /\ UNCHANGED <<session, event>>
    BY DEF ConfirmPayment
  <1>4. \A c \in Booking : c # task[p].b => row'[c] = row[c]
    BY <1>1 DEF ConfirmPayment, TypeOK
  <1>5. \A c \in Booking : row'[c].paid => row[c].paid \/ session[c].state = "paid"
    BY <1>1, <1>4
  <1> QED
    BY <1>2, <1>3, <1>5, TrailResume

\* A row that is inserted has no session, and nobody else refers to it.
LEMMA TrailInsert ==
  ASSUME TypeOK, PaymentTrail, NEW p \in Process, Insert(p)
  PROVE  PaymentTrail'
  <1>1. PICK b \in Booking :
          /\ row[b].status = "NONE"
          /\ row' = [Swept EXCEPT ![b] = NewRow(task[p])]
          /\ IF task[p].expires = Null
             THEN End(p)
             ELSE Begin(p, [Idle EXCEPT !.stage = "open", !.b = b,
                                        !.total = task[p].total, !.ttl = task[p].ttl])
    BY DEF Insert
  <1>2. UNCHANGED <<session, event>> /\ session[b].state = "none"
    BY <1>1 DEF Insert, TypeOK, References, Session
  <1>3. row'[b] = NewRow(task[p]) /\ \A c \in Booking : c # b => row'[c] = Swept[c]
    <2>1. Swept \in [Booking -> Row]
      BY SweepIsMild, <1>1
    <2> QED
      BY <1>1, <2>1
  <1>4. \A c \in Booking : Swept[c].paid <=> row[c].paid
    BY DEF Swept, TypeOK, Row
  <1>5. \A c \in Booking : c # b => (row'[c].paid <=> row[c].paid)
    BY <1>3, <1>4
  <1>6. CASE task[p].expires = Null
    <2>1. Moves(p) /\ task'[p].stage = "idle"
      BY <1>1, <1>6 DEF End, Begin, Idle, Moves, TypeOK
    <2>2. ASSUME NEW q \in Process PROVE TrailOK(task[q])'
      <3>1. CASE q = p
        BY <2>1, <3>1 DEF TrailOK
      <3>2. CASE q # p
        <4>1. task'[q] = task[q] /\ TrailOK(task[q]) /\ TaskOK(task[q])
          BY <2>1, <3>2 DEF Moves, PaymentTrail, TypeOK
        <4>2. task[q].b \in Booking => task[q].b # b
          BY <1>1 DEF TypeOK, References
        <4> QED
          BY <1>2, <1>5, <4>1, <4>2 DEF TrailOK, TaskOK
      <3> QED
        BY <3>1, <3>2
    <2>3. \A q \in Process : q # p => task'[q] = task[q]
      BY <2>1 DEF Moves
    <2> QED
      BY <1>2, <2>1, <2>2, <2>3 DEF PaymentTrail
  <1>7. CASE task[p].expires # Null
    <2>1. Moves(p) /\ task'[p].stage = "open" /\ task'[p].b = b
      BY <1>1, <1>7 DEF Begin, Idle, Moves, TypeOK
    <2>2. ~row'[b].paid
      BY <1>3, <1>7 DEF NewRow, NoRow
    <2>3. ASSUME NEW q \in Process, q # p
          PROVE  /\ TrailOK(task[q])' /\ task'[q] = task[q]
                 /\ task[q].b \in Booking => task[q].b # b
      <3>1. task'[q] = task[q] /\ TrailOK(task[q]) /\ TaskOK(task[q])
        BY <2>1, <2>3 DEF Moves, PaymentTrail, TypeOK
      <3>2. task[q].b \in Booking => task[q].b # b
        BY <1>1 DEF TypeOK, References
      <3> QED
        BY <1>2, <1>5, <3>1, <3>2 DEF TrailOK, TaskOK
    <2>4. TrailOK(task[p])'
      BY <1>2, <2>1, <2>2 DEF TrailOK
    <2>5. \A q \in Process : task[q].stage \in Opening => task[q].b \in Booking
      BY DEF TypeOK, TaskOK, Opening
    <2> QED
      BY <1>2, <2>1, <2>3, <2>4, <2>5 DEF PaymentTrail, Opening
  <1> QED
    BY <1>6, <1>7

\* The page is opened by the one request that was opening it.
LEMMA TrailOpenSession ==
  ASSUME TypeOK, PaymentTrail, NEW p \in Process, OpenSession(p)
  PROVE  PaymentTrail'
  <1>1. /\ task[p].stage = "open" /\ task[p].b \in Booking
        /\ session[task[p].b].state = "none"
    BY DEF OpenSession, TypeOK, TaskOK, PaymentTrail, TrailOK
  <1>2. Moves(p) /\ task'[p].stage = "idle" /\ UNCHANGED <<row, event>>
    BY DEF OpenSession, End, Begin, Idle, Moves, TypeOK
  <1>3. \A c \in Booking : c # task[p].b => session'[c] = session[c]
    BY DEF OpenSession, TypeOK
  <1>4. \A c \in Booking : session[c].state \in {"paid", "expired"}
                              => session'[c] = session[c]
    BY <1>1, <1>3
  <1>5. ASSUME NEW q \in Process PROVE TrailOK(task[q])'
    <2>1. CASE q = p
      BY <1>2, <2>1 DEF TrailOK
    <2>2. CASE q # p
      <3>1. task'[q] = task[q] /\ TrailOK(task[q]) /\ TaskOK(task[q])
        BY <1>2, <2>2 DEF Moves, PaymentTrail, TypeOK
      <3>2. task[q].stage \in Opening => task[q].b # task[p].b
        BY <1>1, <2>2 DEF PaymentTrail, Opening
      <3>3. task[q].todo \subseteq Booking
        BY DEF TypeOK, Task
      <3> QED
        BY <1>2, <1>3, <1>4, <3>1, <3>2, <3>3 DEF TrailOK, TaskOK, Opening
    <2> QED
      BY <2>1, <2>2
  <1>6. \A e \in event' : session'[e.b] = session[e.b]
    BY <1>2, <1>4 DEF PaymentTrail, TypeOK, Event
  <1>7. \A q \in Process : q # p => task'[q] = task[q]
    BY <1>2 DEF Moves
  <1> QED
    BY <1>2, <1>5, <1>6, <1>7 DEF PaymentTrail

\* A session that is paid or expires was open before: no task on the trail
\* was relying on it.
LEMMA TrailSessionEnds ==
  ASSUME TypeOK, PaymentTrail, NEW b \in Booking, Pay(b) \/ Expire(b)
  PROVE  PaymentTrail'
  <1>1. session[b].state = "open" /\ UNCHANGED <<row, task>>
    BY DEF Pay, Expire
  <1>2. \A c \in Booking : c # b => session'[c] = session[c]
    BY DEF Pay, Expire, TypeOK
  <1>3. PICK type \in {"completed", "expired"} :
          /\ event' = event \cup {[type |-> type, b |-> b]}
          /\ session'[b].state = IF type = "completed" THEN "paid" ELSE "expired"
    BY DEF Pay, Expire, TypeOK, Session
  <1>4. ASSUME NEW p \in Process PROVE TrailOK(task[p])'
    <2>1. TrailOK(task[p]) /\ TaskOK(task[p]) /\ task[p].todo \subseteq Booking
      BY DEF PaymentTrail, TypeOK, Task
    <2> QED
      BY <1>1, <1>2, <2>1 DEF TrailOK, TaskOK
  <1>5. \A e \in event : e.b \in Booking /\ e.b # b
    BY <1>1 DEF PaymentTrail, TypeOK, Event
  <1>6. \A e \in event' :
          session'[e.b].state = (IF e.type = "completed" THEN "paid" ELSE "expired")
    BY <1>2, <1>3, <1>5 DEF PaymentTrail
  <1> QED
    BY <1>1, <1>4, <1>6 DEF PaymentTrail

LEMMA TrailStep == TypeOK /\ PaymentTrail /\ [Next]_vars => PaymentTrail'
  <1> SUFFICES ASSUME TypeOK, PaymentTrail, [Next]_vars PROVE PaymentTrail'
    OBVIOUS
  <1>1. ASSUME NEW p \in Worker, GuestRequest(p) PROVE PaymentTrail'
    BY <1>1, TrailReads, TrailInsert, TrailOpenSession, TrailOpenFails, TrailRowWrites
       DEF GuestRequest, Process
  <1>2. ASSUME NEW p \in Worker, HostRequest(p) PROVE PaymentTrail'
    BY <1>2, TrailReads, TrailRowWrites DEF HostRequest, Process
  <1>3. ASSUME NEW p \in Worker, Webhook(p) PROVE PaymentTrail'
    BY <1>3, TrailReadForConfirm, TrailHandleExpired, TrailConfirmPayment, TrailRowWrites
       DEF Webhook, Process
  <1>4. ASSUME NEW p \in Job, Reconciliation(p) PROVE PaymentTrail'
    BY <1>4, TrailReads, TrailReadForConfirm, TrailConfirmPayment
       DEF Reconciliation, Process
  <1>5. ASSUME NEW p \in Process, Abort(p) PROVE PaymentTrail'
    BY <1>5, TrailReads
  <1>6. ASSUME NEW b \in Booking, AbandonHold(b) \/ Pay(b) \/ Expire(b) PROVE PaymentTrail'
    BY <1>6, TrailAbandonHold, TrailSessionEnds
  <1>7. CASE UNCHANGED <<row, session, event, task>>
    BY <1>7 DEF PaymentTrail, TrailOK
  <1>8. (\E range \in BlockRange : UnblockDates(range)) \/ Tick \/ UNCHANGED vars
          => UNCHANGED <<row, session, event, task>>
    BY DEF UnblockDates, Tick, vars
  <1> QED
    BY <1>1, <1>2, <1>3, <1>4, <1>5, <1>6, <1>7, <1>8 DEF Next

-----------------------------------------------------------------------------
(***************************************************************************)
(* Only money confirms.                                                    *)
(***************************************************************************)

PaidFor(b) ==
    \/ session[b].state = "paid"
    \/ session[b].state = "none" /\ row[b].paid /\ ~row[b].recorded

\* Sessions change by being opened, for a row not paid for, or by ending.
LEMMA SessionShapes ==
  ASSUME TypeOK, PaymentTrail, ConfirmedIsPaid, [Next]_vars, NEW b \in Booking,
         PaidFor(b), row[b].status = "CONFIRMED"
  PROVE  session'[b] = session[b]
  <1>1. ASSUME NEW p \in Process, OpenSession(p) PROVE session'[b] = session[b]
    <2>1. /\ task[p].b \in Booking /\ session[task[p].b].state = "none"
          /\ ~row[task[p].b].paid
      BY <1>1 DEF OpenSession, TypeOK, TaskOK, PaymentTrail, TrailOK
    <2>2. task[p].b # b
      BY <2>1 DEF PaidFor
    <2> QED
      BY <1>1, <2>1, <2>2 DEF OpenSession, TypeOK
  <1>2. ASSUME NEW c \in Booking, Pay(c) \/ Expire(c) PROVE session'[b] = session[b]
    BY <1>2 DEF Pay, Expire, TypeOK, PaidFor
  <1>3. \/ UNCHANGED session
        \/ \E p \in Process : OpenSession(p)
        \/ \E c \in Booking : Pay(c) \/ Expire(c)
    <2>1. ASSUME NEW p \in Worker, GuestRequest(p) \/ HostRequest(p) \/ Webhook(p)
          PROVE  UNCHANGED session \/ OpenSession(p)
      BY <2>1 DEF GuestRequest, HostRequest, Webhook, Hold, Insert, OpenFails, Discard,
                  CreateManual, Update, MoveStay, Cancel, CancelStay, BlockDates, AddBlock,
                  HandleCompleted, FindBySession, HandleExpired, ConfirmPayment, ReleaseHold
    <2>2. ASSUME NEW p \in Job, Reconciliation(p)
          PROVE  UNCHANGED session
      BY <2>2 DEF Reconciliation, Reconcile, ListSessions, Recover, ConfirmPayment
    <2>3. CASE \/ \E p \in Process : Abort(p)
               \/ \E range \in BlockRange : UnblockDates(range)
               \/ \E c \in Booking : AbandonHold(c)
               \/ Tick \/ UNCHANGED vars
      BY <2>3 DEF Abort, UnblockDates, AbandonHold, Tick, vars
    <2> QED
      BY <2>1, <2>2, <2>3 DEF Next, Process
  <1> QED
    BY <1>1, <1>2, <1>3

LEMMA PaidStep == TypeOK /\ PaymentTrail /\ ConfirmedIsPaid /\ [Next]_vars
                    => ConfirmedIsPaid'
  <1> SUFFICES ASSUME TypeOK, PaymentTrail, ConfirmedIsPaid, [Next]_vars,
                      NEW b \in Booking, row'[b].status = "CONFIRMED"
               PROVE  PaidFor(b)'
    BY DEF ConfirmedIsPaid, PaidFor
  <1>1. CASE /\ row[b].status = "CONFIRMED"
             /\ row'[b].paid <=> row[b].paid
             /\ row'[b].recorded <=> row[b].recorded
    <2>1. PaidFor(b)
      BY <1>1 DEF ConfirmedIsPaid, PaidFor
    <2>2. session'[b] = session[b]
      BY <1>1, <2>1, SessionShapes
    <2> QED
      BY <1>1, <2>1, <2>2 DEF PaidFor
  <1>2. CASE UNCHANGED row
    BY <1>1, <1>2
  <1>3. ASSUME NEW p \in Process, Insert(p) PROVE PaidFor(b)'
    <2>1. PICK c \in Booking : /\ row[c].status = "NONE"
                               /\ row' = [Swept EXCEPT ![c] = NewRow(task[p])]
      BY <1>3 DEF Insert
    <2>2. Swept \in [Booking -> Row]
      BY SweepIsMild
    <2>3. CASE c = b
      <3>1. row'[b] = NewRow(task[p])
        BY <2>1, <2>2, <2>3
      <3>2. row'[b].paid /\ ~row'[b].recorded
        BY <3>1 DEF NewRow, NoRow
      <3>3. session'[b].state = "none"
        BY <1>3, <2>1, <2>3 DEF Insert, TypeOK, References
      <3> QED
        BY <3>2, <3>3 DEF PaidFor
    <2>4. CASE c # b
      <3>1. row'[b] = Swept[b]
        BY <2>1, <2>2, <2>4
      <3>2. row'[b] = row[b]
        BY <3>1 DEF Swept, TypeOK, Row
      <3> QED
        BY <1>1, <3>2
    <2> QED
      BY <2>3, <2>4
  <1>4. ASSUME NEW p \in Process, ConfirmPayment(p) PROVE PaidFor(b)'
    <2>1. task[p].b \in Booking /\ session'[task[p].b].state = "paid"
      BY <1>4 DEF ConfirmPayment, TypeOK, TaskOK, PaymentTrail, TrailOK
    <2>2. b # task[p].b => row'[b] = row[b]
      BY <1>4, <2>1 DEF ConfirmPayment, TypeOK
    <2> QED
      BY <1>1, <2>1, <2>2 DEF PaidFor
  <1>5. ASSUME NEW p \in Process, MoveStay(p) \/ ReleaseHold(p) \/ CancelStay(p)
        PROVE  PaidFor(b)'
    BY <1>1, <1>5, UnpaidStays
  <1>6. ASSUME NEW c \in Booking, NEW reason \in Reason, row' = Discarded(c, reason)
        PROVE  PaidFor(b)'
    <2>1. /\ row[b].status = "CONFIRMED"
          /\ row'[b].paid <=> row[b].paid
          /\ row'[b].recorded <=> row[b].recorded
      BY <1>6 DEF Discarded, TypeOK, Row
    <2> QED
      BY <1>1, <2>1
  <1> QED
    BY <1>2, <1>3, <1>4, <1>5, <1>6, StepShapes

\* A stay is confirmed only by money: Stripe says its session was paid, or
\* the host entered it as collected.  The strengthening is PaymentTrail.
THEOREM OnlyMoneyConfirms == Spec => [](PaymentTrail /\ ConfirmedIsPaid)
  <1>1. Init => PaymentTrail /\ ConfirmedIsPaid
    BY DEF Init, PaymentTrail, TrailOK, ConfirmedIsPaid, Idle, NoRow
  <1> QED
    BY <1>1, TypeInit, TypeStep, TrailStep, PaidStep, PTL DEF Spec

-----------------------------------------------------------------------------
(***************************************************************************)
(* Who may end a stay, and a paid hold.                                    *)
(***************************************************************************)

\* The rows that change hands for another reason than the host's.
LEMMA EndingShapes ==
  ASSUME TypeOK, PaymentTrail, [Next]_vars, NEW b \in Booking,
         Occupies(row[b]), row'[b].status \notin {row[b].status, "CONFIRMED"}
  PROVE  \/ Lapsed(row[b]) /\ row'[b].reason = "lapsed"
         \/ row[b].status = "PENDING" /\ row'[b].reason = "turnedBack"
         \/ row[b].status = "PENDING" /\ session[b].state = "none"
         \/ session[b].state = "expired"
         \/ row'[b].reason = "host"
  <1>1. row \in [Booking -> Row] /\ row[b] \in Row
    BY DEF TypeOK
  <1>2. CASE \E p \in Process : Insert(p)
    <2>1. PICK p \in Process : Insert(p)
      BY <1>2
    <2>2. PICK c \in Booking : /\ row[c].status = "NONE"
                               /\ row' = [Swept EXCEPT ![c] = NewRow(task[p])]
      BY <2>1 DEF Insert
    <2>3. c # b
      BY <2>2 DEF Occupies
    <2>4. row'[b] = Swept[b]
      BY <2>2, <2>3, SweepIsMild
    <2> QED
      BY <1>1, <2>4 DEF Swept, Row
  <1>3. CASE \E p \in Process : ConfirmPayment(p)
    BY <1>3, ConfirmTakes DEF Takes
  <1>4. CASE \E p \in Process : MoveStay(p)
    BY <1>1, <1>4 DEF MoveStay, Row
  <1>5. ASSUME NEW p \in Process, ReleaseHold(p)
        PROVE  task[p].b = b /\ session[b].state = "expired"
    BY <1>1, <1>5 DEF ReleaseHold, Row, PaymentTrail, TrailOK
  <1>6. ASSUME NEW p \in Process, CancelStay(p)
        PROVE  row'[b].reason = "host"
    BY <1>1, <1>6 DEF CancelStay, Row
  <1>7. ASSUME NEW p \in Process, Discard(p)
        PROVE  row[b].status = "PENDING" /\ session[b].state = "none"
    BY <1>1, <1>7 DEF Discard, Discarded, Row, PaymentTrail, TrailOK
  <1>8. ASSUME NEW c \in Booking, AbandonHold(c)
        PROVE  row[b].status = "PENDING" /\ row'[b].reason = "turnedBack"
    BY <1>1, <1>8 DEF AbandonHold, Discarded, Row
  <1>9. \/ UNCHANGED row
        \/ \E p \in Process : \/ Insert(p) \/ ConfirmPayment(p) \/ MoveStay(p)
                              \/ ReleaseHold(p) \/ CancelStay(p) \/ Discard(p)
        \/ \E c \in Booking : AbandonHold(c)
    <2>1. ASSUME NEW p \in Worker, GuestRequest(p) \/ HostRequest(p) \/ Webhook(p)
          PROVE  \/ UNCHANGED row
                 \/ Insert(p) \/ ConfirmPayment(p) \/ MoveStay(p)
                 \/ ReleaseHold(p) \/ CancelStay(p) \/ Discard(p)
      BY <2>1 DEF GuestRequest, HostRequest, Webhook, Hold, OpenSession, OpenFails,
                  CreateManual, Update, Cancel, BlockDates, AddBlock,
                  HandleCompleted, FindBySession, HandleExpired
    <2>2. ASSUME NEW p \in Job, Reconciliation(p)
          PROVE  UNCHANGED row \/ ConfirmPayment(p)
      BY <2>2 DEF Reconciliation, Reconcile, ListSessions, Recover
    <2>3. CASE \/ \E p \in Process : Abort(p)
               \/ \E range \in BlockRange : UnblockDates(range)
               \/ \E c \in Booking : Pay(c) \/ Expire(c)
               \/ Tick \/ UNCHANGED vars
      BY <2>3 DEF Abort, UnblockDates, Pay, Expire, Tick, vars
    <2> QED
      BY <2>1, <2>2, <2>3 DEF Next, Process
  <1> QED
    BY <1>2, <1>3, <1>4, <1>5, <1>6, <1>7, <1>8, <1>9

\* Nothing but the host's cancel() ends a confirmed stay, although two of the
\* other writers have no guard in their update.
THEOREM OnlyTheHostEndsAStay == Spec => OnlyHostEndsStay
  <1> DEFINE Kept == \A b \in Booking :
               row[b].status = "CONFIRMED" /\ row'[b].status # "CONFIRMED"
                  => row'[b].reason = "host"
  <1>1. TypeOK /\ TypeOK' /\ PaymentTrail /\ ConfirmedIsPaid /\ [Next]_vars => Kept
    <2> SUFFICES ASSUME TypeOK, TypeOK', PaymentTrail, ConfirmedIsPaid, [Next]_vars,
                        NEW b \in Booking,
                        row[b].status = "CONFIRMED", row'[b].status # "CONFIRMED"
                 PROVE  row'[b].reason = "host"
      OBVIOUS
    <2>1. ~Lapsed(row[b]) /\ session[b].state # "expired"
      BY DEF Lapsed, ConfirmedIsPaid
    <2> QED
      BY <2>1, EndingShapes DEF Occupies
  <1> QED
    BY <1>1, OnlyMoneyConfirms, TypeCorrect, PTL DEF Spec, OnlyHostEndsStay

\* A paid hold loses its nights to the host, to the guest who turns back, or
\* to a sweep once its window closed with the payment unrecorded: neither a
\* late expiry, nor a checkout that failed to open, nor an early sweep.
THEOREM PaidHoldsAreNotReleased == Spec => PaidHoldIsNotReleased
  <1> DEFINE Kept == \A b \in Booking :
               (/\ row[b].status = "PENDING" /\ session[b].state = "paid"
                /\ row'[b].status = "CANCELLED")
               => \/ row'[b].reason \in {"host", "turnedBack"}
                  \/ row'[b].reason = "lapsed" /\ Lapsed(row[b])
  <1>1. TypeOK /\ PaymentTrail /\ [Next]_vars => Kept
    BY EndingShapes DEF Occupies
  <1> QED
    BY <1>1, OnlyMoneyConfirms, TypeCorrect, PTL DEF Spec, PaidHoldIsNotReleased
=============================================================================

--------------------------- MODULE RefundsProofs ---------------------------
(***************************************************************************)
(* What Refunds guarantees for every set of rows, requests, amounts and    *)
(* prices, and whatever Stripe charged.                                    *)
(***************************************************************************)
EXTENDS Refunds, TLAPS

USE RefundsAssumption

LEMMA IdleIsTask == TaskOK(Idle) /\ Idle.r = Null /\ Idle.stage = "idle"
  BY DEF TaskOK, Task, Idle

LEMMA EmptyRow == RowOK(NoRow) /\ NoRow.status = "NONE" /\ NoRow.amount = 0 /\ ~NoRow.known
  BY DEF NoRow, Row, RowOK

LEMMA EmptyCall == NoCall \in Call /\ NoCall.state = "none" /\ NoCall.sent = 0
  BY DEF NoCall, Call

\* Catching up with Stripe fills a row in, and may find it done.
LEMMA CatchingUp ==
  ASSUME NEW row \in Row, NEW answer
  PROVE  /\ CaughtUp(row, answer) \in Row
         /\ CaughtUp(row, answer).amount = row.amount
         /\ CaughtUp(row, answer).known = row.known
         /\ \/ CaughtUp(row, answer).status = row.status
            \/ CaughtUp(row, answer).status = "SUCCEEDED" /\ answer = "succeeded"
  <1>1. CASE answer = "succeeded"
    BY <1>1 DEF CaughtUp, Row
  <1>2. CASE answer # "succeeded"
    BY <1>2 DEF CaughtUp, Row
  <1> QED
    BY <1>1, <1>2

-----------------------------------------------------------------------------
(***************************************************************************)
(* Type correctness.  Two shapes of step: one that only moves a task, and  *)
(* one that rewrites a row.                                                *)
(***************************************************************************)

\* A task that moves on keeps the types if it stays well-formed and refers to
\* a row that exists.
LEMMA TaskMoves ==
  ASSUME TypeOK, NEW p \in Request, NEW t, TaskOK(t), Begin(p, t),
         t.r # Null => ledger[t.r].status # "NONE",
         onFile' \in Payment, UNCHANGED <<total, ledger, stripe>>
  PROVE  TypeOK'
  <1>1. /\ task' \in [Request -> Task]
        /\ task'[p] = t
        /\ \A q \in Request \ {p} : task'[q] = task[q]
    BY DEF TypeOK, TaskOK, Begin
  <1>2. \A q \in Request : TaskOK(task'[q])
    BY <1>1 DEF TypeOK
  <1>3. References'
    BY <1>1 DEF TypeOK, References
  <1> QED
    BY <1>1, <1>2, <1>3 DEF TypeOK

\* A row that is rewritten keeps the types if it stays well-formed and is not
\* erased, and the task that wrote it goes on well-formed.
LEMMA RowChanges ==
  ASSUME TypeOK, NEW p \in Request, NEW t, TaskOK(t), Begin(p, t),
         NEW r \in Refund, NEW row, RowOK(row), row.status # "NONE",
         ledger' = [ledger EXCEPT ![r] = row],
         t.r \in {r, Null},
         UNCHANGED <<total, onFile, stripe>>
  PROVE  TypeOK'
  <1>1. /\ task' \in [Request -> Task]
        /\ task'[p] = t
        /\ \A q \in Request \ {p} : task'[q] = task[q]
    BY DEF TypeOK, TaskOK, Begin
  <1>2. \A q \in Request : TaskOK(task'[q])
    BY <1>1 DEF TypeOK
  <1>3. /\ ledger' \in [Refund -> Row]
        /\ ledger'[r] = row
        /\ \A s \in Refund \ {r} : ledger'[s] = ledger[s]
    BY DEF TypeOK, RowOK
  <1>4. \A s \in Refund : RowOK(ledger'[s])
    BY <1>3 DEF TypeOK
  <1>5. \A q \in Request : task[q].r \in Refund \cup {Null}
    BY DEF TypeOK, Task
  <1>6. References'
    BY <1>1, <1>3, <1>5 DEF TypeOK, References
  <1> QED
    BY <1>1, <1>2, <1>3, <1>4, <1>6 DEF TypeOK

\* What happens at Stripe to a call that was made keeps the types.
LEMMA CallChanges ==
  ASSUME TypeOK, NEW r \in Refund, NEW call \in Call,
         ledger[r].status # "NONE",
         stripe' = [stripe EXCEPT ![r] = call],
         UNCHANGED <<total, onFile, ledger, task>>
  PROVE  TypeOK'
  <1>1. /\ stripe' \in [Refund -> Call]
        /\ \A s \in Refund \ {r} : stripe'[s] = stripe[s]
    BY DEF TypeOK
  <1>2. References'
    BY <1>1 DEF TypeOK, References
  <1> QED
    BY <1>1, <1>2 DEF TypeOK

\* The steps of a request keep the types.
LEMMA RequestKeepsTypes ==
  ASSUME TypeOK, NEW p \in Request,
         Summary(p) \/ CatchUpOnStripe(p) \/ Issue(p) \/ Abort(p)
  PROVE  TypeOK'
  <1>1. /\ TaskOK(task[p])
        /\ task[p] \in Task
        /\ task[p].r # Null => task[p].r \in Refund /\ ledger[task[p].r].status # "NONE"
        /\ total \in Nat /\ onFile \in Payment
        /\ \A r \in Refund : ledger[r] \in Row /\ stripe[r] \in Call /\ RowOK(ledger[r])
    BY DEF TypeOK, TaskOK, Task, References
  <1>2. CASE End(p) /\ UNCHANGED <<total, onFile, ledger, stripe>>
    BY <1>1, <1>2, TaskMoves, IdleIsTask DEF End
  <1>3. CASE Summary(p)
    <2> DEFINE t == [Idle EXCEPT !.stage = "ask", !.total = total,
                       !.counted = Committed,
                       !.todo = {r \in Refund : ledger[r].known /\ ~ledger[r].traced}]
    <2>1. TaskOK(t) /\ t.r = Null
      BY <1>1 DEF TaskOK, Task, Idle, Committed
    <2> QED
      BY <1>1, <1>3, <2>1, TaskMoves DEF Summary
  <1>4. CASE CatchUpOnStripe(p)
    <2>1. PICK r \in task[p].todo :
             /\ \/ ledger' = [ledger EXCEPT ![r] = CaughtUp(ledger[r], stripe[r].state)]
                \/ UNCHANGED ledger
             /\ Begin(p, [task[p] EXCEPT !.todo = @ \ {r}])
      BY <1>4 DEF CatchUpOnStripe
    <2> DEFINE t == [task[p] EXCEPT !.todo = @ \ {r}]
    <2>2. task[p].stage = "ask" /\ UNCHANGED <<total, onFile, stripe>> /\ r \in Refund
      BY <1>1, <1>4 DEF CatchUpOnStripe, Task
    <2>3. TaskOK(t) /\ t.r = task[p].r
      BY <1>1, <2>2 DEF TaskOK, Task
    <2>4. CASE UNCHANGED ledger
      BY <1>1, <2>1, <2>2, <2>3, <2>4, TaskMoves
    <2>5. CASE ledger' = [ledger EXCEPT ![r] = CaughtUp(ledger[r], stripe[r].state)]
      <3>1. /\ task' \in [Request -> Task]
            /\ \A q \in Request : TaskOK(task'[q]) /\ task'[q].r = task[q].r
        BY <2>1, <2>3 DEF Begin, TypeOK, TaskOK
      <3>2. /\ ledger' \in [Refund -> Row]
            /\ \A s \in Refund : /\ ledger'[s].amount = ledger[s].amount
                                 /\ ledger[s].status # "NONE" => ledger'[s].status # "NONE"
                                 /\ s # r => ledger'[s] = ledger[s]
                                 /\ ledger'[s].status # "NONE" =>
                                       ledger[s].status # "NONE" \/ stripe[s].state = "succeeded"
        <4> DEFINE row == CaughtUp(ledger[r], stripe[r].state)
        <4>1. /\ row \in Row
              /\ row.amount = ledger[r].amount
              /\ \/ row.status = ledger[r].status
                 \/ row.status = "SUCCEEDED" /\ stripe[r].state = "succeeded"
          BY <1>1, <2>2, CatchingUp
        <4>2. ledger' = [ledger EXCEPT ![r] = row]
          BY <2>5
        <4> HIDE DEF row
        <4> QED
          BY <1>1, <2>2, <4>1, <4>2 DEF TypeOK
      <3>3. \A s \in Refund : RowOK(ledger'[s])
        BY <3>2, <1>1 DEF RowOK, TypeOK, References
      <3>4. \A q \in Request : task[q].r \in Refund \cup {Null}
        BY DEF TypeOK, Task
      <3>5. References'
        BY <2>2, <3>1, <3>2, <3>4 DEF TypeOK, References
      <3> QED
        BY <2>2, <3>1, <3>2, <3>3, <3>5 DEF TypeOK
    <2> QED
      BY <2>1, <2>4, <2>5
  <1>12. CASE FindPayment(p)
    <2> DEFINE t == [task[p] EXCEPT !.stage = "create"]
    <2>1. /\ task[p].stage = "find" /\ Begin(p, t)
          /\ onFile' = "intent" /\ UNCHANGED <<total, ledger, stripe>>
      BY <1>12 DEF FindPayment
    <2>2. TaskOK(t) /\ t.r = task[p].r
      BY <1>1, <2>1 DEF TaskOK, Task
    <2> HIDE DEF t
    <2> QED
      BY <1>1, <2>1, <2>2, TaskMoves DEF Payment
  <1>5. CASE Confirm(p)
    <2>1. PICK amount \in Amount : Begin(p, [Idle EXCEPT !.stage = "find", !.amount = amount])
      BY <1>5 DEF Confirm
    <2> DEFINE t == [Idle EXCEPT !.stage = "find", !.amount = amount]
    <2>2. TaskOK(t) /\ t.r = Null
      BY DEF TaskOK, Task, Idle
    <2> QED
      BY <1>1, <1>5, <2>1, <2>2, TaskMoves DEF Confirm
  <1>6. CASE Create(p)
    <2>1. PICK r \in Refund :
             /\ ledger' = [ledger EXCEPT ![r] = [NoRow EXCEPT !.status = "PENDING",
                                                              !.amount = task[p].amount]]
             /\ Begin(p, [Idle EXCEPT !.stage = "send", !.r = r])
      BY <1>6 DEF Create
    <2> DEFINE t == [Idle EXCEPT !.stage = "send", !.r = r]
               row == [NoRow EXCEPT !.status = "PENDING", !.amount = task[p].amount]
    <2>2. TaskOK(t) /\ t.r = r
      BY DEF TaskOK, Task, Idle
    <2>3. task[p].amount \in Amount
      BY <1>1, <1>6 DEF Create, TaskOK
    <2>4. RowOK(row) /\ row.status # "NONE"
      BY <2>3 DEF RowOK, Row, NoRow
    <2> HIDE DEF t, row
    <2>5. Begin(p, t) /\ ledger' = [ledger EXCEPT ![r] = row]
      BY <2>1 DEF t, row
    <2> QED
      BY <1>6, <2>2, <2>4, <2>5, RowChanges DEF Create
  <1>7. CASE Send(p)
    <2>1. task[p].r \in Refund /\ ledger[task[p].r].status # "NONE"
      BY <1>1, <1>7 DEF Send, TaskOK
    <2>2. /\ stripe' \in [Refund -> Call]
          /\ \A s \in Refund : s # task[p].r => stripe'[s] = stripe[s]
      BY <1>1, <1>7, <2>1 DEF Send, TypeOK, Call
    <2>3. /\ task' \in [Request -> Task]
          /\ \A q \in Request : TaskOK(task'[q]) /\ task'[q].r = task[q].r
      BY <1>1, <1>7 DEF Send, Begin, TypeOK, TaskOK, Task
    <2>4. References'
      BY <1>7, <2>1, <2>2, <2>3 DEF Send, TypeOK, References
    <2> QED
      BY <1>7, <2>2, <2>3, <2>4 DEF Send, TypeOK
  <1>8. CASE Reply(p)
    <2> DEFINE t == [task[p] EXCEPT !.stage = "save", !.answer = stripe[task[p].r].state]
    <2>1. TaskOK(t) /\ t.r = task[p].r
      BY <1>1, <1>8 DEF Reply, TaskOK, Task
    <2> QED
      BY <1>1, <1>8, <2>1, TaskMoves DEF Reply
  <1>9. CASE Save(p)
    <2>1. PICK traced \in {FALSE, stripe[task[p].r].traced} :
             ledger' = [ledger EXCEPT ![task[p].r] =
                           Saved(ledger[task[p].r], task[p].answer, traced)]
      BY <1>9 DEF Save
    <2>2. task[p].r \in Refund /\ traced \in BOOLEAN /\ ledger[task[p].r].status # "NONE"
      BY <1>1, <1>9, <2>1 DEF Save, TaskOK, Call
    <2> DEFINE r == task[p].r
               row == Saved(ledger[r], task[p].answer, traced)
               t == [task[p] EXCEPT !.stage = "notify"]
    <2>3. RowOK(row) /\ row.status # "NONE"
      BY <1>1, <2>2 DEF RowOK, Row, Saved
    <2>4. TaskOK(t) /\ t.r = r
      BY <1>1, <2>2 DEF TaskOK, Task
    <2>5. Begin(p, t) /\ UNCHANGED <<total, onFile, stripe>>
      BY <1>9 DEF Save
    <2> HIDE DEF t, row, r
    <2>6. ledger' = [ledger EXCEPT ![r] = row] /\ r \in Refund
      BY <2>1, <2>2 DEF r, row
    <2> QED
      BY <2>3, <2>4, <2>5, <2>6, RowChanges
  <1>10. CASE Throws(p)
    <2> DEFINE t == [task[p] EXCEPT !.stage = "fail"]
    <2>1. TaskOK(t) /\ t.r = task[p].r
      BY <1>1, <1>10 DEF Throws, TaskOK, Task
    <2> QED
      BY <1>1, <1>10, <2>1, TaskMoves DEF Throws
  <1>11. CASE Fail(p)
    <2>1. task[p].r \in Refund
      BY <1>1, <1>11 DEF Fail, TaskOK
    <2> DEFINE r == task[p].r
               row == [ledger[r] EXCEPT !.status = "FAILED"]
    <2>2. RowOK(row) /\ row.status # "NONE"
      BY <1>1, <1>11, <2>1 DEF RowOK, Row, Fail, TaskOK
    <2>3. ledger' = [ledger EXCEPT ![r] = row]
      BY <1>11 DEF Fail
    <2> HIDE DEF r, row
    <2>4. r \in Refund
      BY <2>1 DEF r
    <2> QED
      BY <1>11, <2>2, <2>3, <2>4, IdleIsTask, RowChanges DEF Fail, End
  <1> QED
    BY <1>2, <1>3, <1>4, <1>5, <1>6, <1>7, <1>8, <1>9, <1>10, <1>11, <1>12 DEF Issue, Notify, Abort

\* The steps of Stripe keep the types.
LEMMA StripeKeepsTypes ==
  ASSUME TypeOK, NEW r \in Refund,
         Execute(r) \/ Refuse(r) \/ Settle(r) \/ Trace(r)
  PROVE  TypeOK'
  <1>1. /\ stripe[r] \in Call /\ ledger[r] \in Row /\ ledger[r].amount \in Nat
        /\ stripe[r].state # "none"
        /\ ledger[r].status # "NONE"
    BY DEF TypeOK, Row, References, Execute, Refuse, Settle, Trace, Answer
  <1>2. PICK call \in Call : stripe' = [stripe EXCEPT ![r] = call]
    <2>1. CASE Execute(r)
      <3>1. PICK answer \in Answer \ {"failed"} :
               stripe' = [stripe EXCEPT ![r].state = answer, ![r].sent = ledger[r].amount]
        BY <2>1 DEF Execute
      <3>2. stripe' = [stripe EXCEPT ![r] = [stripe[r] EXCEPT !.state = answer,
                                                             !.sent = ledger[r].amount]]
        BY <3>1 DEF TypeOK
      <3> QED
        BY <1>1, <3>2 DEF Call
    <2>2. CASE Refuse(r)
      <3>1. PICK answer \in {"refused", "failed"} : stripe' = [stripe EXCEPT ![r].state = answer]
        BY <2>2 DEF Refuse
      <3>2. stripe' = [stripe EXCEPT ![r] = [stripe[r] EXCEPT !.state = answer]]
        BY <3>1 DEF TypeOK
      <3> QED
        BY <1>1, <3>2 DEF Call, Answer
    <2>3. CASE Settle(r)
      <3>1. \/ stripe' = [stripe EXCEPT ![r] = [stripe[r] EXCEPT !.state = "succeeded"]]
            \/ stripe' = [stripe EXCEPT ![r] = [stripe[r] EXCEPT !.state = "failed", !.sent = 0]]
        BY <2>3 DEF Settle, TypeOK
      <3> QED
        BY <1>1, <3>1 DEF Call, Answer
    <2>4. CASE Trace(r)
      <3>1. stripe' = [stripe EXCEPT ![r] = [stripe[r] EXCEPT !.traced = TRUE]]
        BY <2>4 DEF Trace, TypeOK
      <3> QED
        BY <1>1, <3>1 DEF Call
    <2> QED
      BY <2>1, <2>2, <2>3, <2>4
  <1> QED
    BY <1>1, <1>2, CallChanges DEF Execute, Refuse, Settle, Trace

\* Rows, calls and requests are always well-formed, and calls and requests
\* refer to rows that exist.
THEOREM TypeCorrect == Spec => []TypeOK
  <1>1. Init => TypeOK
    BY IdleIsTask, EmptyRow, EmptyCall DEF Init, TypeOK, TaskOK, RowOK, References
  <1>2. TypeOK /\ [Next]_vars => TypeOK'
    <2> SUFFICES ASSUME TypeOK, [Next]_vars PROVE TypeOK'
      OBVIOUS
    <2>1. CASE UNCHANGED vars
      BY <2>1 DEF vars, TypeOK, References
    <2>2. CASE Reprice \/ Backfill
      BY <2>2 DEF Reprice, Backfill, Payment, TypeOK, References
    <2> QED
      BY <2>1, <2>2, RequestKeepsTypes, StripeKeepsTypes DEF Next
  <1> QED
    BY <1>1, <1>2, PTL DEF Spec

-----------------------------------------------------------------------------
(***************************************************************************)
(* The ledger is true.  What a row says of Stripe rests on what a request  *)
(* remembers of Stripe's answer, so AnswerTrail is part of the invariant.  *)
(***************************************************************************)

Money == EveryDollarIsOnTheLedger /\ RecordedIsReal /\ AnswerTrail

\* What a task may remember of the call it made, and whose row it may hold.
Remembers(p, t) ==
    /\ t.stage = "send" => stripe[t.r].state = "none"
    /\ t.stage = "save" =>
          /\ stripe[t.r].state \in Answer
          /\ t.answer = "succeeded" => stripe[t.r].state = "succeeded"
    /\ t.r # Null => \A q \in Request \ {p} : task[q].r # t.r

\* A task that moves on with a true memory disturbs nothing.
LEMMA MovesKeepMoney ==
  ASSUME TypeOK, Money, NEW p \in Request, NEW t, Begin(p, t), Remembers(p, t),
         UNCHANGED <<ledger, stripe>>
  PROVE  Money'
  <1>1. /\ task'[p] = t
        /\ \A q \in Request \ {p} : task'[q] = task[q]
    BY DEF TypeOK, Begin
  <1>2. AnswerTrail'
    BY <1>1 DEF Money, AnswerTrail, Remembers
  <1> QED
    BY <1>2 DEF Money, EveryDollarIsOnTheLedger, RecordedIsReal

\* Nor does a row that is rewritten in agreement with Stripe.
LEMMA WritesKeepMoney ==
  ASSUME TypeOK, Money, NEW p \in Request, NEW t, Begin(p, t), Remembers(p, t),
         NEW r \in Refund, NEW row, ledger' = [ledger EXCEPT ![r] = row],
         row.amount = ledger[r].amount \/ stripe[r].state = "none",
         row.status = "SUCCEEDED" => stripe[r].state = "succeeded",
         row.known => stripe[r].state \in Answer,
         UNCHANGED stripe
  PROVE  Money'
  <1>1. /\ task'[p] = t
        /\ \A q \in Request \ {p} : task'[q] = task[q]
    BY DEF TypeOK, Begin
  <1>2. /\ ledger'[r] = row
        /\ \A s \in Refund \ {r} : ledger'[s] = ledger[s]
    BY DEF TypeOK
  <1>3. AnswerTrail'
    BY <1>1, <1>2 DEF Money, AnswerTrail, Remembers
  <1>4. EveryDollarIsOnTheLedger'
    BY <1>2 DEF Money, EveryDollarIsOnTheLedger
  <1>5. RecordedIsReal'
    BY <1>2 DEF Money, RecordedIsReal
  <1> QED
    BY <1>3, <1>4, <1>5 DEF Money

\* The steps of a request.
LEMMA RequestKeepsMoney ==
  ASSUME TypeOK, Money, NEW p \in Request,
         Summary(p) \/ CatchUpOnStripe(p) \/ Issue(p) \/ Abort(p)
  PROVE  Money'
  <1>1. /\ task[p] \in Task
        /\ task[p].stage \in {"send", "wait", "save", "notify", "fail"}
              => task[p].r \in Refund /\ ledger[task[p].r].status # "NONE"
        /\ \A r \in Refund : ledger[r] \in Row
    BY DEF TypeOK, TaskOK, Task, References
  <1>2. task[p].r # Null => \A q \in Request \ {p} : task[q].r # task[p].r
    BY DEF Money, AnswerTrail
  <1>3. Remembers(p, Idle)
    BY IdleIsTask DEF Remembers
  <1>4. CASE End(p) /\ UNCHANGED <<total, onFile, ledger, stripe>>
    BY <1>3, <1>4, MovesKeepMoney DEF End
  <1>5. CASE Summary(p)
    <2> DEFINE t == [Idle EXCEPT !.stage = "ask", !.total = total,
                       !.counted = Committed,
                       !.todo = {r \in Refund : ledger[r].known /\ ~ledger[r].traced}]
    <2>1. Remembers(p, t)
      BY DEF Remembers, Idle
    <2> QED
      BY <1>5, <2>1, MovesKeepMoney DEF Summary
  <1>6. CASE CatchUpOnStripe(p)
    <2>1. PICK r \in task[p].todo :
             /\ \/ ledger' = [ledger EXCEPT ![r] = CaughtUp(ledger[r], stripe[r].state)]
                \/ UNCHANGED ledger
             /\ Begin(p, [task[p] EXCEPT !.todo = @ \ {r}])
      BY <1>6 DEF CatchUpOnStripe
    <2> DEFINE t == [task[p] EXCEPT !.todo = @ \ {r}]
               row == CaughtUp(ledger[r], stripe[r].state)
    <2>2. task[p].stage = "ask" /\ UNCHANGED stripe /\ r \in Refund
      BY <1>1, <1>6 DEF CatchUpOnStripe, Task
    <2>3. Remembers(p, t)
      BY <1>1, <1>2, <2>2 DEF Remembers, Task
    <2>4. /\ row.amount = ledger[r].amount
          /\ row.status = "SUCCEEDED" => stripe[r].state = "succeeded"
          /\ row.known => stripe[r].state \in Answer
      <3>1. /\ row.amount = ledger[r].amount
            /\ row.known = ledger[r].known
            /\ row.status = "SUCCEEDED" =>
                  ledger[r].status = "SUCCEEDED" \/ stripe[r].state = "succeeded"
        BY <1>1, <2>2, CatchingUp
      <3> HIDE DEF row
      <3> QED
        BY <2>2, <3>1 DEF Money, RecordedIsReal, AnswerTrail
    <2> HIDE DEF t, row
    <2>5. /\ ledger' = [ledger EXCEPT ![r] = row] \/ UNCHANGED ledger
          /\ Begin(p, t)
      BY <2>1 DEF t, row
    <2> QED
      BY <2>2, <2>3, <2>4, <2>5, MovesKeepMoney, WritesKeepMoney
  <1>7. CASE Confirm(p)
    <2>1. PICK amount \in Amount : Begin(p, [Idle EXCEPT !.stage = "find", !.amount = amount])
      BY <1>7 DEF Confirm
    <2>2. Remembers(p, [Idle EXCEPT !.stage = "find", !.amount = amount])
      BY DEF Remembers, Idle
    <2> QED
      BY <1>7, <2>1, <2>2, MovesKeepMoney DEF Confirm
  <1>14. CASE FindPayment(p)
    <2>1. Remembers(p, [task[p] EXCEPT !.stage = "create"])
      BY <1>1, <1>2 DEF Remembers, Task
    <2> QED
      BY <1>14, <2>1, MovesKeepMoney DEF FindPayment
  <1>8. CASE Create(p)
    <2>1. PICK r \in Refund :
             /\ ledger[r].status = "NONE"
             /\ ledger' = [ledger EXCEPT ![r] = [NoRow EXCEPT !.status = "PENDING",
                                                              !.amount = task[p].amount]]
             /\ Begin(p, [Idle EXCEPT !.stage = "send", !.r = r])
      BY <1>8 DEF Create
    <2> DEFINE t == [Idle EXCEPT !.stage = "send", !.r = r]
               row == [NoRow EXCEPT !.status = "PENDING", !.amount = task[p].amount]
    <2>2. stripe[r].state = "none" /\ \A q \in Request : task[q].r # r
      BY <2>1 DEF TypeOK, References
    <2>3. t.stage = "send" /\ t.r = r
      BY DEF Idle
    <2>4. row.status = "PENDING" /\ ~row.known
      BY DEF NoRow
    <2> HIDE DEF t, row
    <2>5. Remembers(p, t)
      BY <2>2, <2>3 DEF Remembers
    <2>6. Begin(p, t) /\ ledger' = [ledger EXCEPT ![r] = row]
      BY <2>1 DEF t, row
    <2> QED
      BY <1>8, <2>2, <2>4, <2>5, <2>6, WritesKeepMoney DEF Create
  <1>9. CASE Send(p)
    <2> DEFINE r == task[p].r
    <2>1. r \in Refund /\ stripe[r].state = "none" /\ UNCHANGED ledger
      BY <1>1, <1>9 DEF Send, Money, AnswerTrail
    <2>2. /\ stripe'[r].state = "called" /\ stripe'[r].sent = stripe[r].sent
          /\ \A s \in Refund \ {r} : stripe'[s] = stripe[s]
      BY <1>9, <2>1 DEF Send, TypeOK, Call
    <2>3. /\ \A q \in Request : task'[q].r = task[q].r
          /\ task'[p].stage = "wait"
          /\ \A q \in Request \ {p} : task'[q] = task[q]
      BY <1>1, <1>9 DEF Send, Begin, TypeOK, Task
    <2>4. \A q \in Request \ {p} : task[q].stage \in {"send", "save"} =>
             task[q].r \in Refund \ {r}
      BY <2>1 DEF TypeOK, TaskOK, Task, Money, AnswerTrail
    <2>5. \A s \in Refund : ledger[s].known => s # r
      BY <2>1 DEF Money, AnswerTrail, Answer
    <2>6. AnswerTrail'
      BY <2>1, <2>2, <2>3, <2>4, <2>5 DEF Money, AnswerTrail
    <2>7. EveryDollarIsOnTheLedger'
      BY <2>1, <2>2 DEF Money, EveryDollarIsOnTheLedger
    <2>8. RecordedIsReal'
      BY <2>1, <2>2 DEF Money, RecordedIsReal
    <2> QED
      BY <2>6, <2>7, <2>8 DEF Money
  <1>10. CASE Reply(p)
    <2> DEFINE t == [task[p] EXCEPT !.stage = "save", !.answer = stripe[task[p].r].state]
    <2>1. Remembers(p, t)
      BY <1>1, <1>2, <1>10 DEF Remembers, Reply, Task
    <2> QED
      BY <1>10, <2>1, MovesKeepMoney DEF Reply
  <1>11. CASE Save(p)
    <2>1. PICK traced \in {FALSE, stripe[task[p].r].traced} :
             ledger' = [ledger EXCEPT ![task[p].r] =
                           Saved(ledger[task[p].r], task[p].answer, traced)]
      BY <1>11 DEF Save
    <2> DEFINE r == task[p].r
               row == Saved(ledger[r], task[p].answer, traced)
               t == [task[p] EXCEPT !.stage = "notify"]
    <2>2. /\ r \in Refund
          /\ stripe[r].state \in Answer
          /\ task[p].answer = "succeeded" => stripe[r].state = "succeeded"
      BY <1>1, <1>11 DEF Save, Money, AnswerTrail
    <2>3. /\ row.amount = ledger[r].amount
          /\ row.status = "SUCCEEDED" => task[p].answer = "succeeded"
      BY <1>1, <2>2 DEF Saved, Row
    <2>4. Remembers(p, t)
      BY <1>1, <1>2 DEF Remembers, Task
    <2>5. Begin(p, t) /\ UNCHANGED stripe
      BY <1>11 DEF Save
    <2> HIDE DEF t, row, r
    <2>6. ledger' = [ledger EXCEPT ![r] = row]
      BY <2>1 DEF r, row
    <2> QED
      BY <2>2, <2>3, <2>4, <2>5, <2>6, WritesKeepMoney
  <1>12. CASE Throws(p)
    <2>1. Remembers(p, [task[p] EXCEPT !.stage = "fail"])
      BY <1>1, <1>2 DEF Remembers, Task
    <2> QED
      BY <1>12, <2>1, MovesKeepMoney DEF Throws
  <1>13. CASE Fail(p)
    <2> DEFINE r == task[p].r
               row == [ledger[r] EXCEPT !.status = "FAILED"]
    <2>1. r \in Refund
      BY <1>1, <1>13 DEF Fail
    <2>2. /\ row.amount = ledger[r].amount
          /\ row.status = "FAILED"
          /\ row.known = ledger[r].known
      BY <1>1, <2>1 DEF Row
    <2>3. ledger[r].known => stripe[r].state \in Answer
      BY <2>1 DEF Money, AnswerTrail
    <2>4. ledger' = [ledger EXCEPT ![r] = row] /\ Begin(p, Idle) /\ UNCHANGED stripe
      BY <1>13 DEF Fail, End
    <2> HIDE DEF r, row
    <2> QED
      BY <1>3, <2>1, <2>2, <2>3, <2>4, WritesKeepMoney
  <1> QED
    BY <1>4, <1>5, <1>6, <1>7, <1>8, <1>9, <1>10, <1>11, <1>12, <1>13, <1>14
       DEF Issue, Notify, Abort

\* The steps of Stripe: a call is executed once, and only a pending refund
\* changes its mind.
LEMMA StripeKeepsMoney ==
  ASSUME TypeOK, Money, NEW r \in Refund,
         Execute(r) \/ Refuse(r) \/ Settle(r) \/ Trace(r)
  PROVE  Money'
  <1>1. /\ UNCHANGED <<ledger, task>>
        /\ \A s \in Refund \ {r} : stripe'[s] = stripe[s]
        /\ stripe'[r].state # stripe[r].state =>
              \/ /\ stripe[r].state = "called"
                 /\ stripe'[r].state \in {"refused"} \cup Answer
              \/ /\ stripe[r].state = "pending"
                 /\ stripe'[r].state \in {"succeeded", "failed"}
        /\ stripe'[r].sent = IF stripe'[r].state \in {"pending", "succeeded"}
                             THEN ledger[r].amount ELSE 0
    <2>1. stripe[r] \in Call /\ stripe \in [Refund -> Call]
      BY DEF TypeOK
    <2>2. stripe[r].sent = IF stripe[r].state \in {"pending", "succeeded"}
                           THEN ledger[r].amount ELSE 0
      BY DEF Money, EveryDollarIsOnTheLedger
    <2>3. CASE Execute(r)
      <3>1. PICK answer \in {"pending", "succeeded"} :
               stripe' = [stripe EXCEPT ![r].state = answer, ![r].sent = ledger[r].amount]
        BY <2>3 DEF Execute, Answer
      <3>2. stripe' = [stripe EXCEPT ![r] = [stripe[r] EXCEPT !.state = answer,
                                                             !.sent = ledger[r].amount]]
        BY <2>1, <3>1
      <3>3. stripe'[r].state = answer /\ stripe'[r].sent = ledger[r].amount
        BY <2>1, <3>2 DEF Call
      <3>4. /\ stripe[r].state = "called"
            /\ UNCHANGED <<ledger, task>>
            /\ \A s \in Refund \ {r} : stripe'[s] = stripe[s]
        BY <2>1, <2>3, <3>2 DEF Execute
      <3> QED
        BY <3>3, <3>4 DEF Answer
    <2>4. CASE Refuse(r)
      BY <2>1, <2>2, <2>4 DEF Refuse, Call, Answer
    <2>5. CASE Settle(r)
      BY <2>1, <2>2, <2>5 DEF Settle, Call, Answer
    <2>6. CASE Trace(r)
      BY <2>1, <2>2, <2>6 DEF Trace, Call, Answer
    <2> QED
      BY <2>3, <2>4, <2>5, <2>6
  <1>2. EveryDollarIsOnTheLedger'
    BY <1>1 DEF Money, EveryDollarIsOnTheLedger
  <1>3. RecordedIsReal'
    BY <1>1 DEF Money, RecordedIsReal
  <1>4. \A p \in Request : task[p].stage \in {"send", "save"} => task[p].r \in Refund
    BY DEF TypeOK, TaskOK, Task
  <1>5. AnswerTrail'
    BY <1>1, <1>4 DEF Money, AnswerTrail, Answer
  <1> QED
    BY <1>2, <1>3, <1>5 DEF Money

\* Whatever was lost, late, repeated or interleaved: every dollar Stripe sent
\* is on a row, once, and a row that says SUCCEEDED is true.
THEOREM TheLedgerIsTrue ==
    Spec => [](EveryDollarIsOnTheLedger /\ RecordedIsReal /\ AnswerTrail)
  <1>1. Init => Money
    BY IdleIsTask, EmptyRow, EmptyCall
    DEF Init, Money, EveryDollarIsOnTheLedger, RecordedIsReal, AnswerTrail
  <1>2. TypeOK /\ Money /\ [Next]_vars => Money'
    <2> SUFFICES ASSUME TypeOK, Money, [Next]_vars PROVE Money'
      OBVIOUS
    <2>1. CASE UNCHANGED <<ledger, stripe, task>>
      BY <2>1 DEF Money, EveryDollarIsOnTheLedger, RecordedIsReal, AnswerTrail
    <2>2. CASE UNCHANGED vars \/ Reprice \/ Backfill
      BY <2>1, <2>2 DEF vars, Reprice, Backfill
    <2> QED
      BY <2>2, RequestKeepsMoney, StripeKeepsMoney DEF Next
  <1> QED
    BY <1>1, <1>2, TypeCorrect, PTL DEF Spec, Money

\* The half of it about money alone: what the guest got is what the row says,
\* once, or nothing.
THEOREM EveryDollarIsAccountedFor == Spec => []EveryDollarIsOnTheLedger
  BY TheLedgerIsTrue, PTL

-----------------------------------------------------------------------------
(***************************************************************************)
(* The refund service implements the ledger of transfers.                  *)
(***************************************************************************)

\* The refinement mapping, by name.
Declared == [r \in Refund |-> ledger[r].amount]
Moved == [r \in Refund |-> stripe[r].sent]
Spent == {r \in Refund : stripe[r].state \notin {"none", "called"}}
Believed == {r \in Refund : ledger[r].status = "SUCCEEDED"}

Mapped == <<Declared, Moved, Spent, Believed>>

\* A row whose status is rewritten is believed or doubted.
LEMMA WritesBelieve ==
  ASSUME TypeOK, Money, NEW r \in Refund, NEW row,
         ledger' = [ledger EXCEPT ![r] = row],
         row.amount = ledger[r].amount,
         row.status = "SUCCEEDED" => stripe[r].state = "succeeded",
         UNCHANGED stripe
  PROVE  Ledger!Next \/ UNCHANGED Mapped
  <1>1. /\ ledger'[r] = row
        /\ \A s \in Refund \ {r} : ledger'[s] = ledger[s]
    BY DEF TypeOK
  <1>2. UNCHANGED <<Declared, Moved, Spent>>
    BY <1>1 DEF Declared, Moved, Spent
  <1>3. CASE row.status = "SUCCEEDED"
    <2>1. Believed' = Believed \cup {r}
      BY <1>1, <1>3 DEF Believed
    <2>2. Moved[r] = Declared[r]
      BY <1>3 DEF Money, EveryDollarIsOnTheLedger, Moved, Declared
    <2>3. Declared[r] # 0
      BY <1>3 DEF TypeOK, RowOK, References, Declared
    <2>4. Ledger!Believe(r)
      BY <1>2, <2>1, <2>2, <2>3 DEF Ledger!Believe, Declared, Moved, Spent, Believed
    <2> QED
      BY <2>4 DEF Ledger!Next
  <1>4. CASE row.status # "SUCCEEDED"
    <2>1. Believed' = Believed \ {r}
      BY <1>1, <1>4 DEF Believed
    <2>2. Ledger!Doubt(r)
      BY <1>2, <2>1 DEF Ledger!Doubt, Declared, Moved, Spent, Believed
    <2> QED
      BY <2>2 DEF Ledger!Next
  <1> QED
    BY <1>3, <1>4

LEMMA RequestRefines ==
  ASSUME TypeOK, Money, NEW p \in Request,
         Summary(p) \/ CatchUpOnStripe(p) \/ Issue(p) \/ Abort(p)
  PROVE  Ledger!Next \/ UNCHANGED Mapped
  <1>1. /\ task[p] \in Task
        /\ task[p].stage \in {"send", "wait", "save", "notify", "fail"}
              => task[p].r \in Refund /\ ledger[task[p].r].status # "NONE"
        /\ \A r \in Refund : ledger[r] \in Row
    BY DEF TypeOK, TaskOK, Task, References
  <1>2. CASE UNCHANGED <<ledger, stripe>>
    BY <1>2 DEF Mapped, Declared, Moved, Spent, Believed
  <1>3. CASE CatchUpOnStripe(p)
    <2>1. PICK r \in task[p].todo :
             \/ ledger' = [ledger EXCEPT ![r] = CaughtUp(ledger[r], stripe[r].state)]
             \/ UNCHANGED ledger
      BY <1>3 DEF CatchUpOnStripe
    <2>2. UNCHANGED stripe /\ r \in Refund
      BY <1>1, <1>3 DEF CatchUpOnStripe, Task
    <2> DEFINE row == CaughtUp(ledger[r], stripe[r].state)
    <2>3. /\ row.amount = ledger[r].amount
          /\ row.status = "SUCCEEDED" =>
                ledger[r].status = "SUCCEEDED" \/ stripe[r].state = "succeeded"
      BY <1>1, <2>2, CatchingUp
    <2> HIDE DEF row
    <2>4. row.status = "SUCCEEDED" => stripe[r].state = "succeeded"
      BY <2>2, <2>3 DEF Money, RecordedIsReal
    <2>5. ledger' = [ledger EXCEPT ![r] = row] \/ UNCHANGED ledger
      BY <2>1 DEF row
    <2> QED
      BY <1>2, <2>2, <2>3, <2>4, <2>5, WritesBelieve
  <1>4. CASE Create(p)
    <2>1. PICK r \in Refund :
             /\ ledger[r].status = "NONE"
             /\ ledger' = [ledger EXCEPT ![r] = [NoRow EXCEPT !.status = "PENDING",
                                                              !.amount = task[p].amount]]
      BY <1>4 DEF Create
    <2> DEFINE row == [NoRow EXCEPT !.status = "PENDING", !.amount = task[p].amount]
    <2>2. PICK amount \in Amount : amount = task[p].amount
      BY <1>4 DEF Create, TypeOK, TaskOK
    <2>3. row.status = "PENDING" /\ row.amount = amount
      BY <2>2 DEF NoRow
    <2> HIDE DEF row
    <2>4. /\ ledger'[r] = row
          /\ \A s \in Refund \ {r} : ledger'[s] = ledger[s]
      BY <2>1 DEF TypeOK, row
    <2>5. /\ Declared[r] = 0
          /\ Declared' = [Declared EXCEPT ![r] = amount]
          /\ Believed' = Believed
      <3>1. Declared[r] = 0
        BY <2>1 DEF TypeOK, RowOK, Declared
      <3>2. Declared' = [Declared EXCEPT ![r] = amount]
        BY <2>3, <2>4 DEF Declared
      <3>3. Believed' = Believed
        BY <2>1, <2>3, <2>4 DEF Believed
      <3> QED
        BY <3>1, <3>2, <3>3
    <2>6. Ledger!Declare(r, amount)
      BY <1>4, <2>5 DEF Create, Ledger!Declare, Declared, Moved, Spent, Believed
    <2> QED
      BY <2>6 DEF Ledger!Next
  <1>5. CASE Send(p)
    <2>1. task[p].r \in Refund /\ stripe[task[p].r].state = "none" /\ UNCHANGED ledger
      BY <1>1, <1>5 DEF Send, Money, AnswerTrail
    <2>2. /\ stripe'[task[p].r].state = "called"
          /\ stripe'[task[p].r].sent = stripe[task[p].r].sent
          /\ \A s \in Refund \ {task[p].r} : stripe'[s] = stripe[s]
      BY <1>5, <2>1 DEF Send, TypeOK, Call
    <2>3. /\ \A s \in Refund : stripe'[s].sent = stripe[s].sent
          /\ \A s \in Refund : stripe'[s].state \in {"none", "called"}
                                  <=> stripe[s].state \in {"none", "called"}
      BY <2>1, <2>2
    <2> QED
      BY <2>1, <2>3 DEF Mapped, Declared, Moved, Spent, Believed
  <1>6. CASE Save(p)
    <2>1. PICK traced \in {FALSE, stripe[task[p].r].traced} :
             ledger' = [ledger EXCEPT ![task[p].r] =
                           Saved(ledger[task[p].r], task[p].answer, traced)]
      BY <1>6 DEF Save
    <2> DEFINE r == task[p].r
               row == Saved(ledger[r], task[p].answer, traced)
    <2>2. /\ r \in Refund
          /\ task[p].answer = "succeeded" => stripe[r].state = "succeeded"
      BY <1>1, <1>6 DEF Save, Money, AnswerTrail
    <2>3. /\ row.amount = ledger[r].amount
          /\ row.status = "SUCCEEDED" => task[p].answer = "succeeded"
      BY <1>1, <2>2 DEF Saved, Row
    <2> HIDE DEF row, r
    <2>4. ledger' = [ledger EXCEPT ![r] = row]
      BY <2>1 DEF r, row
    <2> QED
      BY <1>6, <2>2, <2>3, <2>4, WritesBelieve DEF Save
  <1>7. CASE Fail(p)
    <2> DEFINE r == task[p].r
               row == [ledger[r] EXCEPT !.status = "FAILED"]
    <2>1. r \in Refund
      BY <1>1, <1>7 DEF Fail
    <2>2. row.amount = ledger[r].amount /\ row.status = "FAILED"
      BY <1>1, <2>1 DEF Row
    <2>3. ledger' = [ledger EXCEPT ![r] = row] /\ UNCHANGED stripe
      BY <1>7 DEF Fail
    <2> HIDE DEF r, row
    <2> QED
      BY <2>1, <2>2, <2>3, WritesBelieve
  <1> QED
    BY <1>2, <1>3, <1>4, <1>5, <1>6, <1>7
       DEF Summary, Issue, Confirm, FindPayment, Reply, Notify, Throws, Abort

LEMMA StripeRefines ==
  ASSUME TypeOK, Money, NEW r \in Refund,
         Execute(r) \/ Refuse(r) \/ Settle(r) \/ Trace(r)
  PROVE  Ledger!Next \/ UNCHANGED Mapped
  <1>1. /\ stripe[r] \in Call /\ stripe \in [Refund -> Call]
        /\ stripe[r].state # "none" => ledger[r].amount # 0
    BY DEF TypeOK, RowOK, References
  <1>2. stripe[r].sent = IF stripe[r].state \in {"pending", "succeeded"}
                         THEN ledger[r].amount ELSE 0
    BY DEF Money, EveryDollarIsOnTheLedger
  <1>3. CASE Execute(r)
    <2>1. PICK answer \in {"pending", "succeeded"} :
             stripe' = [stripe EXCEPT ![r].state = answer, ![r].sent = ledger[r].amount]
      BY <1>3 DEF Execute, Answer
    <2>2. stripe' = [stripe EXCEPT ![r] = [stripe[r] EXCEPT !.state = answer,
                                                           !.sent = ledger[r].amount]]
      BY <1>1, <2>1
    <2>3. /\ stripe'[r].state = answer /\ stripe'[r].sent = ledger[r].amount
          /\ stripe[r].state = "called"
          /\ UNCHANGED ledger
          /\ \A s \in Refund \ {r} : stripe'[s] = stripe[s]
      BY <1>1, <1>3, <2>2 DEF Execute, Call
    <2>4. /\ Declared[r] # 0 /\ r \notin Spent
          /\ Moved' = [Moved EXCEPT ![r] = Declared[r]]
          /\ Spent' = Spent \cup {r}
          /\ UNCHANGED <<Declared, Believed>>
      BY <1>1, <2>3 DEF Declared, Moved, Spent, Believed
    <2>5. Ledger!Move(r)
      BY <2>4 DEF Ledger!Move, Declared, Moved, Spent, Believed
    <2> QED
      BY <2>5 DEF Ledger!Next
  <1>4. CASE Refuse(r)
    <2>1. PICK answer \in {"refused", "failed"} : stripe' = [stripe EXCEPT ![r].state = answer]
      BY <1>4 DEF Refuse
    <2>2. /\ stripe'[r].state = answer /\ stripe'[r].sent = stripe[r].sent
          /\ stripe[r].state = "called"
          /\ UNCHANGED ledger
          /\ \A s \in Refund \ {r} : stripe'[s] = stripe[s]
      BY <1>1, <1>4, <2>1 DEF Refuse, Call
    <2>3. /\ Declared[r] # 0 /\ r \notin Spent
          /\ Spent' = Spent \cup {r}
          /\ UNCHANGED <<Declared, Moved, Believed>>
      BY <1>1, <2>2 DEF Declared, Moved, Spent, Believed
    <2>4. Ledger!Decline(r)
      BY <2>3 DEF Ledger!Decline, Declared, Moved, Spent, Believed
    <2> QED
      BY <2>4 DEF Ledger!Next
  <1>5. CASE Settle(r)
    <2>1. /\ stripe[r].state = "pending"
          /\ UNCHANGED ledger
          /\ \A s \in Refund \ {r} : stripe'[s] = stripe[s]
      BY <1>1, <1>5 DEF Settle
    <2>2. CASE stripe' = [stripe EXCEPT ![r].state = "succeeded"]
      <3>1. stripe'[r].state = "succeeded" /\ stripe'[r].sent = stripe[r].sent
        BY <1>1, <2>2 DEF Call
      <3> QED
        BY <2>1, <3>1 DEF Mapped, Declared, Moved, Spent, Believed
    <2>3. CASE stripe' = [stripe EXCEPT ![r].state = "failed", ![r].sent = 0]
      <3>1. stripe'[r].state = "failed" /\ stripe'[r].sent = 0
        BY <1>1, <2>3 DEF Call
      <3>2. r \notin Believed
        BY <2>1 DEF Money, RecordedIsReal, Believed
      <3>3. /\ r \in Spent
            /\ Moved' = [Moved EXCEPT ![r] = 0]
            /\ UNCHANGED <<Declared, Spent, Believed>>
        BY <2>1, <3>1 DEF Declared, Moved, Spent, Believed
      <3>4. Ledger!Return(r)
        BY <3>2, <3>3 DEF Ledger!Return, Declared, Moved, Spent, Believed
      <3> QED
        BY <3>4 DEF Ledger!Next
    <2> QED
      BY <1>5, <2>2, <2>3 DEF Settle
  <1>6. CASE Trace(r)
    <2>1. \A s \in Refund : stripe'[s].state = stripe[s].state /\ stripe'[s].sent = stripe[s].sent
      BY <1>1, <1>6 DEF Trace, Call
    <2> QED
      BY <1>6, <2>1 DEF Trace, Mapped, Declared, Moved, Spent, Believed
  <1> QED
    BY <1>3, <1>4, <1>5, <1>6

\* Money is declared before it moves, moves once and for the declared amount,
\* and is called returned only while the guest has it.
THEOREM RefundsImplementTransfers == Spec => ImplementsTransfers
  <1>1. Init => Ledger!Init
    BY EmptyRow, EmptyCall DEF Init, Ledger!Init, NoRow, NoCall
  <1>2. ASSUME TypeOK, Money, [Next]_vars
        PROVE  Ledger!Next \/ UNCHANGED Mapped
    <2>1. CASE UNCHANGED <<ledger, stripe>>
      BY <2>1 DEF Mapped, Declared, Moved, Spent, Believed
    <2>2. CASE UNCHANGED vars \/ Reprice \/ Backfill
      BY <2>1, <2>2 DEF vars, Reprice, Backfill
    <2> QED
      BY <1>2, <2>2, RequestRefines, StripeRefines DEF Next
  <1>3. TypeOK /\ Money /\ [Next]_vars => [Ledger!Next]_Ledger!vars
    BY <1>2 DEF Ledger!vars, Mapped, Declared, Moved, Spent, Believed
  <1>4. Money <=> EveryDollarIsOnTheLedger /\ RecordedIsReal /\ AnswerTrail
    BY DEF Money
  <1> QED
    BY <1>1, <1>3, <1>4, TypeCorrect, TheLedgerIsTrue, PTL
       DEF Spec, ImplementsTransfers, Ledger!Spec
=============================================================================

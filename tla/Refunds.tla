------------------------------ MODULE Refunds ------------------------------
(***************************************************************************)
(* Sending money back for one paid booking: the Refund rows, what Stripe   *)
(* did with each of them, and the host's requests in flight.               *)
(*                                                                         *)
(* A request is split at its awaits, as in Bookings: the summary, the      *)
(* catch-up with Stripe, the row, the call, its answer, the update, the    *)
(* notices, and the catch block that any failure of the last four leads    *)
(* to.  The call travels on its own: Stripe may execute it after the       *)
(* request gave up waiting.                                                *)
(*                                                                         *)
(* The booking was paid.  The ladder's proposal, the note and the guest's  *)
(* mail are left out.                                                      *)
(***************************************************************************)
EXTENDS Integers, FiniteSetsExt

CONSTANTS
    Refund,     \* the refund rows a behaviour may create
    Request,    \* the host's requests that may be in flight together
    Amount,     \* the amounts the host may confirm
    Price,      \* the totals the booking may have
    Charge,     \* what Stripe charged: it returns no more than that
    Null        \* SQL's null

ASSUME RefundsAssumption ==
    /\ Amount \subseteq Nat \ {0}
    /\ Price \subseteq Nat /\ Price # {}
    /\ Charge \in Nat
    /\ Null \notin Refund /\ Null \notin Nat
    /\ Null \notin {"pending", "succeeded", "failed"}

VARIABLES
    total,      \* the booking's totalPrice
    onFile,     \* what the booking has of its payment
    ledger,     \* the Refund table
    stripe,     \* what became of each row's call to Stripe
    task        \* what each request is in the middle of

vars == <<total, onFile, ledger, stripe, task>>

-----------------------------------------------------------------------------
(* Rows, calls and tasks *)

\* A booking has its Stripe payment on file, only the session it was paid in, or
\* neither, when the host took cash.
Payment == {"intent", "session", "none"}

\* known: the row has its stripeRefundId.  traced: its cardReference.
Row ==
    [status : {"NONE", "PENDING", "SUCCEEDED", "FAILED"},
     amount : Amount \cup {0}, known : BOOLEAN, traced : BOOLEAN]

NoRow == [status |-> "NONE", amount |-> 0, known |-> FALSE, traced |-> FALSE]

\* A call that was never made, that is on its way, that Stripe refused, or the
\* refund it created.  sent: the guest's money.  traced: the acquirer's
\* reference is available.
Answer == {"pending", "succeeded", "failed"}

Call ==
    [state : {"none", "called", "refused"} \cup Answer,
     sent : Nat, traced : BOOLEAN]

NoCall == [state |-> "none", sent |-> 0, traced |-> FALSE]

Idle ==
    [stage |-> "idle", r |-> Null, amount |-> 0, total |-> 0,
     counted |-> {}, todo |-> {}, answer |-> Null]

Task ==
    [stage : {"idle", "ask", "find", "create", "send", "wait", "save", "notify", "fail"},
     r : Refund \cup {Null}, amount : Amount \cup {0}, total : Nat,
     counted : SUBSET Refund, todo : SUBSET Refund,
     answer : Answer \cup {Null}]

Begin(p, t) == task' = [task EXCEPT ![p] = t]
End(p) == Begin(p, Idle)

\* What a set of rows adds up to.
Sum(rows) == MapThenSumSet(LAMBDA r : ledger[r].amount, rows)

\* What Stripe sent, or is about to.
SentSoFar == MapThenSumSet(LAMBDA r : stripe[r].sent, Refund)

\* A failed refund freed its money again; a pending one has not.
Committed == {r \in Refund : ledger[r].status \in {"PENDING", "SUCCEEDED"}}

-----------------------------------------------------------------------------
(* summaryFor() and catchUpOnStripe() *)

\* The booking and its refunds, read once.
Summary(p) ==
    /\ task[p] = Idle
    /\ Begin(p, [Idle EXCEPT !.stage = "ask", !.total = total,
                     !.counted = Committed,
                     !.todo = {r \in Refund : ledger[r].known /\ ~ledger[r].traced}])
    /\ UNCHANGED <<total, onFile, ledger, stripe>>

\* A slip: a refund with a reference is taken to be done.
CaughtUpTrusting(row, answer) == [row EXCEPT !.traced = TRUE, !.status = "SUCCEEDED"]

\* What the row learns once Stripe has a reference for the refund.
CaughtUp(row, answer) ==
    IF answer = "succeeded"
    THEN [row EXCEPT !.traced = TRUE, !.status = "SUCCEEDED"]
    ELSE [row EXCEPT !.traced = TRUE]

\* One of the rows that lack a reference: Stripe is asked, and may have none
\* yet or not answer.  `counted` is not touched: the status was read before.
CatchUpOnStripe(p) ==
    /\ task[p].stage = "ask"
    /\ \E r \in task[p].todo :
          /\ \/ /\ stripe[r].traced
                /\ ledger' = [ledger EXCEPT ![r] = CaughtUp(@, stripe[r].state)]
             \/ UNCHANGED ledger
          /\ Begin(p, [task[p] EXCEPT !.todo = @ \ {r}])
    /\ UNCHANGED <<total, onFile, stripe>>

-----------------------------------------------------------------------------
(* issue() *)

\* What the summary says is left to refund.
Refundable(t) == t.total - Sum(t.counted)

\* The host confirms an amount that the summary allows.
Confirm(p) ==
    /\ task[p].stage = "ask" /\ task[p].todo = {}
    /\ \E amount \in Amount :
          /\ amount <= Refundable(task[p])
          /\ Begin(p, [Idle EXCEPT !.stage = "find", !.amount = amount])
    /\ UNCHANGED <<total, onFile, ledger, stripe>>

\* paymentIntentFor(): of a booking that has only its session, Stripe is asked
\* for the payment, which is kept.  One with neither cannot be refunded, and
\* Stripe may not know it or not answer (Abort).
FindPayment(p) ==
    /\ task[p].stage = "find"
    /\ onFile # "none"
    /\ onFile' = "intent"
    /\ Begin(p, [task[p] EXCEPT !.stage = "create"])
    /\ UNCHANGED <<total, ledger, stripe>>

\* A slip: the row is left for later, when Stripe has answered.
CreateLate(p) ==
    /\ task[p].stage = "create"
    /\ \E r \in Refund :
          /\ ledger[r].status = "NONE"
          /\ Begin(p, [Idle EXCEPT !.stage = "send", !.r = r])
    /\ UNCHANGED <<total, onFile, ledger, stripe>>

\* The row, before the money moves.
Create(p) ==
    /\ task[p].stage = "create"
    /\ \E r \in Refund :
          /\ ledger[r].status = "NONE"
          /\ ledger' = [ledger EXCEPT ![r] = [NoRow EXCEPT !.status = "PENDING",
                                                           !.amount = task[p].amount]]
          /\ Begin(p, [Idle EXCEPT !.stage = "send", !.r = r])
    /\ UNCHANGED <<total, onFile, stripe>>

\* The call goes out, with the row's id as its idempotency key.
Send(p) ==
    /\ task[p].stage = "send"
    /\ stripe' = [stripe EXCEPT ![task[p].r].state = "called"]
    /\ Begin(p, [task[p] EXCEPT !.stage = "wait"])
    /\ UNCHANGED <<total, onFile, ledger>>

\* Stripe's refund, whatever its status.
Reply(p) ==
    /\ task[p].stage = "wait"
    /\ stripe[task[p].r].state \in Answer
    /\ Begin(p, [task[p] EXCEPT !.stage = "save", !.answer = stripe[task[p].r].state])
    /\ UNCHANGED <<total, onFile, ledger, stripe>>

\* A slip: an accepted refund is taken to be done.
SavedOptimistic(row, answer, traced) ==
    [row EXCEPT !.status = IF answer # "failed" THEN "SUCCEEDED" ELSE "PENDING",
                !.known = TRUE, !.traced = traced]

\* Only Stripe's own `succeeded` is treated as done.
Saved(row, answer, traced) ==
    [row EXCEPT !.status = IF answer = "succeeded" THEN "SUCCEEDED" ELSE "PENDING",
                !.known = TRUE, !.traced = traced]

\* The answer may have come with a reference, or before there was one.
Save(p) ==
    /\ task[p].stage = "save"
    /\ \E traced \in {FALSE, stripe[task[p].r].traced} :
          ledger' = [ledger EXCEPT ![task[p].r] = Saved(@, task[p].answer, traced)]
    /\ Begin(p, [task[p] EXCEPT !.stage = "notify"])
    /\ UNCHANGED <<total, onFile, stripe>>

\* Guest and host are told, and the request is done.
Notify(p) ==
    /\ task[p].stage = "notify"
    /\ End(p)
    /\ UNCHANGED <<total, onFile, ledger, stripe>>

\* The call is refused or times out, the update fails, or the lookup of whom
\* to notify does: all of them end in the same catch block.
Throws(p) ==
    /\ task[p].stage \in {"send", "wait", "save", "notify"}
    /\ Begin(p, [task[p] EXCEPT !.stage = "fail"])
    /\ UNCHANGED <<total, onFile, ledger, stripe>>

\* The catch block: whatever happened, the row is marked FAILED.
Fail(p) ==
    /\ task[p].stage = "fail"
    /\ ledger' = [ledger EXCEPT ![task[p].r].status = "FAILED"]
    /\ End(p)
    /\ UNCHANGED <<total, onFile, stripe>>

\* The dialog is closed, the amount is refused, or the process dies.
Abort(p) ==
    /\ task[p] # Idle
    /\ End(p)
    /\ UNCHANGED <<total, onFile, ledger, stripe>>

\* The stay is changed, and with it its price (Bookings!MoveStay).
Reprice ==
    /\ total' \in Price \ {total}
    /\ UNCHANGED <<onFile, ledger, stripe, task>>

\* backfillPaymentIntents(), once per boot: Stripe is asked for the payment of a
\* booking that has its session.
Backfill ==
    /\ onFile = "session"
    /\ onFile' = "intent"
    /\ UNCHANGED <<total, ledger, stripe, task>>

-----------------------------------------------------------------------------
(* Stripe's side *)

\* A slip: without the key, every delivery of the call is a refund of its own.
ExecuteUnkeyed(r) ==
    /\ stripe[r].state \in {"called"} \cup Answer
    /\ SentSoFar + ledger[r].amount <= Charge
    /\ \E answer \in Answer \ {"failed"} :
          stripe' = [stripe EXCEPT ![r].state = answer,
                                   ![r].sent = @ + ledger[r].amount]
    /\ UNCHANGED <<total, onFile, ledger, task>>

\* The refund is created, for what the charge has left.  The key makes any
\* further delivery of the same call a question about this one.
Execute(r) ==
    /\ stripe[r].state = "called"
    /\ SentSoFar + ledger[r].amount <= Charge
    /\ \E answer \in Answer \ {"failed"} :
          stripe' = [stripe EXCEPT ![r].state = answer, ![r].sent = ledger[r].amount]
    /\ UNCHANGED <<total, onFile, ledger, task>>

\* An error, or a refund that failed at once.
Refuse(r) ==
    /\ stripe[r].state = "called"
    /\ \E answer \in {"refused", "failed"} :
          stripe' = [stripe EXCEPT ![r].state = answer]
    /\ UNCHANGED <<total, onFile, ledger, task>>

\* A pending refund settles, or comes back.
Settle(r) ==
    /\ stripe[r].state = "pending"
    /\ \/ stripe' = [stripe EXCEPT ![r].state = "succeeded"]
       \/ stripe' = [stripe EXCEPT ![r].state = "failed", ![r].sent = 0]
    /\ UNCHANGED <<total, onFile, ledger, task>>

\* The acquirer hands out its reference, minutes later.
Trace(r) ==
    /\ stripe[r].state \in {"pending", "succeeded"} /\ ~stripe[r].traced
    /\ stripe' = [stripe EXCEPT ![r].traced = TRUE]
    /\ UNCHANGED <<total, onFile, ledger, task>>

-----------------------------------------------------------------------------
Init ==
    /\ total \in Price
    /\ onFile \in Payment
    /\ ledger = [r \in Refund |-> NoRow]
    /\ stripe = [r \in Refund |-> NoCall]
    /\ task = [p \in Request |-> Idle]

Issue(p) ==
    \/ Confirm(p)
    \/ FindPayment(p)
    \/ Create(p)
    \/ Send(p)
    \/ Reply(p)
    \/ Save(p)
    \/ Notify(p)
    \/ Throws(p)
    \/ Fail(p)

Next ==
    \/ \E p \in Request : Summary(p) \/ CatchUpOnStripe(p) \/ Issue(p) \/ Abort(p)
    \/ \E r \in Refund : Execute(r) \/ Refuse(r) \/ Settle(r) \/ Trace(r)
    \/ Reprice \/ Backfill

Spec == Init /\ [][Next]_vars

-----------------------------------------------------------------------------
(* Properties *)

\* A row has an amount exactly when it exists.
RowOK(row) ==
    /\ row \in Row
    /\ row.amount \in (IF row.status = "NONE" THEN {0} ELSE Amount)

\* A task remembers what its stage needs.
TaskOK(t) ==
    /\ t \in Task
    /\ t.stage \in {"find", "create"} => t.amount \in Amount
    /\ t.stage \in {"send", "wait", "save", "notify", "fail"} => t.r # Null
    /\ t.stage = "save" => t.answer \in Answer

\* A call, and a request, carry the id of a row that exists.
References ==
    /\ \A r \in Refund : stripe[r].state # "none" => ledger[r].status # "NONE"
    /\ \A p \in Request : task[p].r # Null => ledger[task[p].r].status # "NONE"

\* The type invariant, those references included.
TypeOK ==
    /\ total \in Nat
    /\ onFile \in Payment
    /\ ledger \in [Refund -> Row] /\ \A r \in Refund : RowOK(ledger[r])
    /\ stripe \in [Refund -> Call]
    /\ task \in [Request -> Task] /\ \A p \in Request : TaskOK(task[p])
    /\ References

\* refunds.service.ts:193, "The row exists before the money moves": whatever
\* the timeouts and the retries, the guest got what the row says, once, or
\* nothing.
EveryDollarIsOnTheLedger ==
    \A r \in Refund :
        stripe[r].sent = IF stripe[r].state \in {"pending", "succeeded"}
                         THEN ledger[r].amount ELSE 0

\* A row that says SUCCEEDED is true, whichever of the request, the catch-up
\* of another request and the catch block wrote it last.
RecordedIsReal ==
    \A r \in Refund :
        ledger[r].status = "SUCCEEDED" => stripe[r].state = "succeeded"

\* What a request remembers of Stripe's answer has not been undone, a row that
\* has its Stripe id was executed, and no two requests work on one row.
AnswerTrail ==
    /\ \A p \in Request :
          /\ task[p].stage = "send" => stripe[task[p].r].state = "none"
          /\ task[p].stage = "save" =>
                /\ stripe[task[p].r].state \in Answer
                /\ task[p].answer = "succeeded" => stripe[task[p].r].state = "succeeded"
    /\ \A r \in Refund : ledger[r].known => stripe[r].state \in Answer
    /\ \A p, q \in Request :
          p # q /\ task[p].r # Null => task[p].r # task[q].r

\* The ledger of transfers as Transfers sees it.
Ledger == INSTANCE Transfers WITH
    Transfer <- Refund,
    declared <- [r \in Refund |-> ledger[r].amount],
    moved <- [r \in Refund |-> stripe[r].sent],
    spent <- {r \in Refund : stripe[r].state \notin {"none", "called"}},
    believed <- {r \in Refund : ledger[r].status = "SUCCEEDED"}

\* The refund service implements the ledger of transfers: money is declared
\* before it moves, moves once, and is called returned only while it is.
ImplementsTransfers == Ledger!Spec

-----------------------------------------------------------------------------
(* What the comments say and the code does not quite do *)

\* bookings.service.ts:850, "A failed refund returned nothing, so it is not
\* money that left".
FailedReturnedNothing ==
    \A r \in Refund : ledger[r].status = "FAILED" => stripe[r].sent = 0
=============================================================================

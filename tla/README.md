# Areia Bela: verification project

Areia Bela is the booking site of one holiday house: a NestJS API over Postgres
(`src/apps/api`), a Next.js site and host panel (`src/apps/web`), and shared
rules (`src/packages/shared`). Guests hold dates and pay through a Stripe
checkout session; the host sells stays by phone, moves and cancels them, blocks
dates, and refunds. This directory holds TLA+ models of the parts that carry
the rules of the business, the TLC runs that check them, and TLAPS proofs.

Source paths below are relative to `src/apps/api/src` unless they say otherwise.

## 1. The system and its parts

| Component | Keeps | Operations | Talks to | What is hard |
|---|---|---|---|---|
| **bookings** `bookings/bookings.service.ts`, migration `20260730180000_booking_holds` | `Booking` rows: status, stay, total, expiresAt, paidAt, stripeSessionId, cancellationReason | `hold`, `createManual`, `discardHold`, `abandonHold`, `confirmPayment`, `releaseHold`, `findBySession`, `update`, `cancel` | Stripe, blocked dates, notifications, refunds | every handler awaits between reading and writing; the exclusion constraint is the only lock; holds expire by being swept lazily |
| **checkout payments** `bookings/payments.service.ts` | nothing of its own; the session lives at Stripe | `checkoutUrlFor`, `sessionStatus`, `refund`, `refundStatus`, `paymentIntentFor` | Stripe | the session outlives or dies before its hold; calls time out after taking effect |
| **stripe webhook** `bookings/stripe-webhook.service.ts` | nothing | `handle` of `checkout.session.completed` and `.expired` | bookings | events lost, late, repeated, reordered |
| **payment reconciliation** `bookings/payment-reconciliation.service.ts` | nothing | boot and ten-minute cron: `backfillPaymentIntents`, `reconcile` | Stripe, bookings | races the webhook; one exception ends a run |
| **blocked dates** `properties/properties.service.ts` | `BlockedDate` rows | `blockDates`, `unblockDates`, `takenNights` | bookings (reads) | check and write are two statements; a closed range against a half-open stay |
| **refunds** `bookings/refunds.service.ts` | `Refund` rows: amount, status, stripeRefundId, cardReference | `summaryFor`, `catchUpOnStripe`, `issue` | payments, bookings, notifications | an external transfer of money between two database writes |
| **refund policy** `src/packages/shared/src/{refund,cancellation}.ts` | pure | `proposeRefund`, the deadlines | – | boundaries in time, rounding |
| **pricing** `src/packages/shared/src/pricing.ts` | pure | `computeQuote`, `nightsOf`, `checkStayLength`, `minNightsFor`, `quantityFor` | – | integer rounding, which rule governs a night |
| **price rules** `properties/properties.service.ts` | `PriceRule` rows | create, update, delete | pricing | check-then-write of disjointness |
| **calendar sync** `calendar-sync/*` | `BlockedDate` rows with source AIRBNB | `importAirbnb` (15-minute cron, or by hand), `takenOnAirbnb`, `collisions`, the export | Airbnb's iCal feed, bookings | an external seller with no lock; an exclusive end turned into a closed range; two imports at once |
| **staff auth** `auth/auth.service.ts` | refresh tokens, TOTP secrets, recovery codes, failed attempts, reset links | login, TOTP challenge, refresh, logout, enrolment, change and reset of a password | staff accounts | each handler decides from a row it read several statements ago |
| **staff accounts** `users/users.service.ts` | users, roles | create, update, deactivate | staff auth | the last super admin |
| **cms content, translations, uploads** `cms/*` | content rows, their translations, image files | create, update, delete, feature, upload, the localized page, translation in the background | translation providers, an image store | a translation that ends late; rows and files that are written apart; two reviews featured at once |
| **notifications and mail** `notifications/*`, `mail/*` | the host's settings | one message per event, to every destination of the host or to the guest | Twilio, Meta, Telegram, a mail server | called after the commit, and must not undo its answer; files that cost a message its template |
| **booking pages** `src/apps/web` (card, checkout, confirmation) | React state, the URL | price, reserve, edit, hold, follow to Stripe, come back, wait | the API, Stripe | answers that overtake each other, clicks on what is no longer true, a tab that reloads |
| **guest sign-in** `guest/guest-auth.service.ts` | links mailed to guests | `requestLink`, `redeem` | mail | not modelled |
| guest area, customers, taxes, payments report, assistant, other pages, ui, seeds | – | single statements, reads, or presentation | – | not modelled, see section 6 |

Handlers run in one Node process and interleave at every `await`. Nothing
serialises two requests but Postgres: a single `UPDATE ... WHERE` or one
transaction is atomic, a `find` followed by an `update` is not.

What should hold, and is or will be checked:

* *bookings, payments, webhook, reconciliation, blocks*: no night is sold
  twice; only money confirms a stay; only the host ends one; a paid hold is
  taken by no expiry event, failed checkout or early sweep (a sweep after its
  window, with the webhook still on its way, does take it); money taken is
  recorded or raised; the public calendar and the constraint agree; the service
  implements a plain ledger of nights.
* *refunds*: every dollar sent is on a row; a row that says "refunded" is true;
  never more than was paid.
* *pricing, price rules, refund policy*: a night has one price, a stay costs
  what its halves cost, the settings' shortest stay is no longer than their
  longest, a refund is never more than the bill.
* *calendar sync*: the imported rows are one reading of the feed; what Airbnb
  answered for a hold is still good when it is inserted; the host's own blocks
  stay; a night sold on both sides is reported.
* *auth, accounts*: the second factor comes on only with the secret that was
  proven, and has its codes exactly while it is enabled; a code opens one
  session; the last super admin is not taken away. Two requests that overtake
  each other break the first and the last: the properties say that nothing
  else does.
* *content*: guests read no translation of another text; two reviews are featured
  only by a promotion that is unfinished; a photo has its file.
* *notifications*: a log line that says "sent" or "not delivered" is true; the
  failure of an alert's channel is never the operation's; a conflict sets out for
  every channel whatever the host switched off; one channel's failure does not
  stop another.
* *booking pages*: a price that can be clicked is for what is on the screen; what
  is charged is what was read; no page waits for ever.

## 2. Modules

Arrows from a module to what it extends or, with `=`, to the abstract
specification it instantiates and implements.

    MCBookings ------> Bookings -------> Stays        BookingsProofs --> Bookings
                          |======> NightLedger

    MCRefunds -------> Refunds =======> Transfers     RefundsProofs --> Refunds

    MCHouse ---------> House ----------> Pricing --> Stays
                          |------------> RefundPolicy HouseProofs --> House

    MCCalendarSync --> CalendarSync --> Stays         CalendarSyncProofs --> CalendarSync
                          |======> Mirror

    MCNotifications -> Notifications                  NotificationsProofs --> Notifications
    MCContent -------> Content                        ContentProofs --> Content
    MCAccounts ------> Accounts                       AccountsProofs --> Accounts
    MCReserve -------> Reserve                        ReserveProofs --> Reserve

* **`Stays`**: days, nights, and the three comparisons of ranges the code makes.
  A stay is half-open (`daterange(..., '[)')` in the constraint), a block is
  closed (`endDate >= checkIn`).
* **`NightLedger`**: the abstract specification. A booking holds a set of nights;
  some bookings are sold; `Claim`, `Sell`, `Move`, `GiveBack`. No rows, no
  Stripe, no requests, no time.
* **`Bookings`**: the detailed model, which composes the booking service, the
  checkout session, the webhook, the reconciliation and the host's blocks,
  since every one of them writes or reads the same `Booking` row.
* **`Transfers`**: the abstract specification of refunds: a transfer is declared,
  moves at most once and for what was declared, may come back, and is believed
  done only while the guest has the money.
* **`Refunds`**: the refund rows of one paid booking, the calls to Stripe they
  lead to, and the host's requests. It shares nothing with `Bookings` but the
  booking's total, which `Reprice` may change at any moment, so it is a module
  beside it and not a part of it.
* **`Pricing`, `RefundPolicy`**: the pure rules, in whole cents and hours: the rule
  that governs a night, the quantity of an extra, the quote line by line; the
  deadlines and the proposal of a refund. Operators only, none of them
  recursive.
* **`House`**: what the host edits (price rules, settings, extras), one panel
  request being a check and a later write, and stays that are quoted and booked
  with it. `Pricing` and `RefundPolicy` are evaluated in its states.
* **`Mirror`**: the abstract specification of an import: a copy is replaced by one
  reading of its source at a time, and entries may be taken off it.
* **`CalendarSync`**: the import, the holds that ask Airbnb, the manual stays, moves
  and late payments that do not, and the host's blocks, around one table of
  blocked dates.
* **`Notifications`**: which operation tells whom and in what order, over which
  channels, and what each provider makes of it.
* **`Content`**: saves and deletions of content, the translations they fire, the
  page that joins the two, and the files of the gallery.
* **`Accounts`**: sign-in, sessions, the second factor and its recovery codes, and
  the edits of the team.
* **`Reserve`**: the browser of one guest, with an API reduced to what the pages
  can see of it.
* **`MC...`**: finite values for the constants.
* **`...Proofs`**: the theorems.

Components that write the same rows are one module (`Bookings`, `CalendarSync`).
Those that share less are modules beside each other: what one does to the
other is an action that may happen at any moment, such as `Reprice` in
`Refunds`, `BookingEnds` and `BookingReturns` in `CalendarSync` or
`SellElsewhere` in `Reserve`.

### State and code: `Bookings`

| TLA+ | Code |
|---|---|
| `row[b]` | a `Booking` row; `status = "NONE"` before it is inserted. `paid` is `paidAt IS NOT NULL`, `recorded` is a non-null `stripeSessionId`, `reason` abstracts the text of `cancellationReason`. `CHECKED_IN` and `COMPLETED` are in the enum but no code sets them |
| `blocks` | the manual `BlockedDate` rows |
| `session[b]` | the checkout session at Stripe (external): none, open, paid or expired. It carries the amount and the `expires_at` it was opened with |
| `event` | the webhook events Stripe has produced. An event is never removed, so it may be delivered never, late, out of order or many times |
| `alerted` | bookings for which `bookingConflict` was sent to the host |
| `task[p]` | what one in-flight request or job remembers across an `await` |
| `now` | the clock, in ticks |

One action is one database statement or transaction, or one call to Stripe;
`task[p].stage` names the statement that comes next.

| Handler | Actions |
|---|---|
| `hold` / `createHold` | `Hold` (block check, quote, expiry), `Insert` (the transaction: sweep, insert, constraint), `OpenSession` or `OpenFails` then `Discard` |
| `createManual` / `insertManual` | `CreateManual`, then `Insert` and, with a payment link, the same session steps |
| `abandonHold` | `AbandonHold` (one guarded `updateMany`) |
| webhook `completed` | `HandleCompleted` (read), `ConfirmPayment` (write under the constraint, or the alert) |
| webhook `expired` | `HandleExpired` (read), `ReleaseHold` (unguarded write) |
| `findBySession` | `FindBySession`, then `ConfirmPayment` |
| `reconcile` | `Reconcile` (rows), `ListSessions` (Stripe), `Recover` per booking, then `ConfirmPayment` |
| `update` | `Update` (read, checks, new quote), `MoveStay` (write) |
| `cancel` | `Cancel`, `CancelStay` |
| `blockDates` / `unblockDates` | `BlockDates`, `AddBlock` / `UnblockDates` |
| crash, deploy, thrown query, 409 | `Abort`, at any stage of any task |
| Stripe | `Pay`, `Expire` |

### Abstractions in `Bookings`

* Prices are opaque figures (`Total`): only *which* figure the session carries
  matters. Guests, extras, references, customers and mails are left out.
* The check against Airbnb at the top of `hold` and `createManual` can only
  refuse a request, which leaves no trace, so it is not there.
* `OpenFails` leaves no session behind. A call that times out after Stripe made
  the session would leave one whose address nobody has, so nobody can pay it,
  and its `expired` event finds the hold discarded. The webhook takes a `completed` event as
  paid without looking at `payment_status`; the model says the same, which is
  right while the session only accepts immediate payment methods.
* `findBySession` makes several awaits before it calls `confirmPayment`. What it
  learns in them, that the session is paid and the row not yet recorded, never
  becomes false in the first case and is re-read in the second, so they are one
  action.
* `update` writes the dates it was sent or the ones it read; those are the two
  disjuncts of `Update`.
* A second host cancellation, or an `expired` event for a row that is not
  `PENDING`, has no effect in the code and no action here.

### State and code: `Refunds`

| TLA+ | Code |
|---|---|
| `total` | `booking.totalPrice` |
| `onFile` | what the booking has of its payment: the intent, only the checkout session, or neither, when the host took cash |
| `ledger[r]` | a `Refund` row; `known` is a non-null `stripeRefundId`, `traced` a non-null `cardReference` |
| `stripe[r]` | what became of the call with that row's id as its idempotency key (external): on its way, refused, or a refund that is pending, succeeded or failed, and the money that is with the guest because of it |
| `task[p]` | what one request remembers: the total and the set of committed rows the summary read, the rows still to ask Stripe about, the row it created, Stripe's answer |

| Code | Actions |
|---|---|
| `summaryFor` | `Summary` (the read), `CatchUpOnStripe` for each row that lacks its reference (asked in parallel in the code: any order), then `Abort` if the host only looked |
| `issue` | the summary, `Confirm` (the amount against what is left), `FindPayment` (the booking read again; where it has only its session Stripe is asked and the intent kept), `Create` (the row), `Send`, `Reply`, `Save`, `Notify` |
| the `catch` block | `Throws` at any of the steps from `Send` to `Notify`, then `Fail` |
| `backfillPaymentIntents`, once per boot | `Backfill` |
| crash | `Abort` |
| Stripe | `Execute` (which may come after the request gave up), `Refuse`, `Settle`, `Trace` |

The booking is a paid one, since `issue` refuses every other before it writes.
The proposal of the
ladder is only shown to the host and is not in this module. The catch-up's
question and the update that follows it are one action: nothing that happens
to the row in between changes what the update leaves behind. A refused amount
(`0`, or more than is left) leaves no trace.

### State and code: `House`

| TLA+ | Code |
|---|---|
| `rule[i]`, `extra[x]`, `house` | the `PriceRule`, `Extra` and `Property` rows; a deleted rule's id is not used again; `Fixed` holds the settings no property needs to vary |
| `booked` | the `extraId` column of `BookingExtra` |
| `task[p]` | a request between its check and its write |

| Code | Actions |
|---|---|
| `createPriceRule` | `CheckNewRule`, `InsertRule` |
| `updatePriceRule` | `CheckRulePatch` (merges the patch with the stored row, checks shape and overlap), `UpdateRule` |
| `deletePriceRule` | `DeletePriceRule` |
| `updateProperty` | `CheckSettings`, `UpdateProperty` |
| `createExtra`, `updateExtra`, `deactivateExtra` | an action each, one statement |
| `hold`, to the insert | `PriceStay`, `InsertBooking` (which the foreign key may refuse) |
| `createManual`, to the insert | `PriceManual`, which does not look at the length, `InsertBooking` |
| crash, exception | `Abort` |

Money is whole cents, and a rounded percentage is `PercentOf`. A booking in this
module is only what it references, since that is what the pricing input gets
wrong.

### State and code: `CalendarSync`

| TLA+ | Code |
|---|---|
| `feed[u]` | what an id of Airbnb's calendar stands for (external): the dates of a stay, or nothing. A stay may change its dates under its id |
| `rows` | the `BlockedDate` table, imported and manual |
| `booking[b]` | a direct booking: its stay, and whether it holds its nights ("live") or was cancelled or lapsed ("gone"); `asked` is the stay Airbnb was asked about and the nights it said were sold, or nothing if it was not asked or did not answer (history) |
| `import[i]`, `task[p]` | an import or a request between two statements |
| `collisions` | the bookings the last finished import reported |

| Code | Actions |
|---|---|
| `importAirbnb` / `apply` | `Fetch` (the feed, parsed), `Apply` (the transaction), `Report` (the read of the bookings and the answer), `ImportFails` at any step |
| `hold` | `ReadBlocks`, `AskAirbnb` or `AirbnbSilent`, `InsertBooking` |
| `createManual` | `CreateManual`, `InsertBooking` |
| `update` | `Update` (the stored blocks), `MoveStay` (the write): Airbnb is not asked |
| `blockDates`, `unblockDates` | `CheckBlock`, `InsertBlock`; `UnblockDates` |
| Airbnb | `AirbnbSells`, `AirbnbMoves`, `AirbnbCancels` |
| `cancel` and the sweep | `BookingEnds` |
| `confirmPayment` of a hold that was swept | `BookingReturns`: under the constraint, without a look at the blocks |

Airbnb does not sell a night twice itself, and knows nothing of direct bookings: the
export, which would tell it, is read whenever Airbnb likes.

### State and code: `Notifications`

| TLA+ | Code |
|---|---|
| `deploy` | the credentials and templates in the environment, fixed for a process |
| `settings` | the `SiteSettings` row, which the host may save at any moment |
| `job[j]` | an operation after its commit: which notice it is at, and each channel's call |
| `log`, `accepted` | what was logged, and what a provider took: history |

`Start` is the commit; `Resolve` the read of the settings and the list of
destinations; the channels of one alert are then called in parallel
(`FirstHalf`, then `Accept`, `Refuse` or `AnswerLost`), and a mail to a guest is
`MailAccepted`, `MailRefused` or `MailThrows`. A provider may take a message and
its answer be lost: the call throws as it does when nothing was taken, and the
log says "could not send". `Stop` is the process dying; what it had still to
tell is told by nobody.

### State and code: `Content`

| TLA+ | Code |
|---|---|
| `rows[id]` | a page, FAQ, item, review or image: its text in the host's language and whether it is featured |
| `stored[id][locale]` | a `Translation` row: of which text, and the hash it was made from |
| `files` | the images in the store (external) |
| `task[r]`, `job[r]` | the statement a request runs next, and the translation it fired and did not wait for |
| `halted` | history: reviews promoted whose demotion of the others was cut off |

| Code | Actions |
|---|---|
| upserts | `SaveFixed` |
| `create...`, `update...` | `Create`; `StartUpdate`, `Update`, then `DemoteOtherFeatured` where the row is featured, then `Reply`, which fires the job |
| `addImage`, `deleteImage`, the other deletions | `Upload`, `AddImage`; `StartDelete`, `Delete`, then `Remove` (the file) or `Forget` (the translations) |
| `syncRecord` | `Find`, then `Translate` or `Refuse`, for each language; `FindFails` is the lookup that rejects, outside the `try`, in a job nobody awaits: the process ends, and every request and job with it |
| `getLocalizedContent` | `List` (the rows), `Load` (the translations), and `Localize` |

### State and code: `Accounts`

| TLA+ | Code |
|---|---|
| `account[u]`, `code[c]`, `token[k]` | the `User`, `RecoveryCode` and `RefreshToken` rows; `by` is how a session was opened (history) |
| `challenged` | who holds a challenge token: a JWT with no row behind it |
| `task[r]` | the statement a request runs next, with what it read |

Each handler of `auth.service.ts` and `users.service.ts` is its read, its
checks and its writes as actions of their own, in the order of the code;
`Signing` lists those of a person signing in or minding the own account,
`Editing` those of an edit of the team. `saw` in a task is what it read (history,
but for the secret whose code is checked). `Fail` stops any of them.

### State and code: `Reserve`

| TLA+ | Code |
|---|---|
| `card`, `checkout`, `wait` | the React state of `AvailabilityCard`, `CheckoutForm` and `ConfirmationContent`; `checkout.url` is the query string |
| `calls` | fetches in flight, answered or not. An effect that runs again cancels the one before: its answer has no reader, so the call is dropped. A hold has no clean-up and is kept when its page goes |
| `row`, `sold`, `terms` | what the API holds that the pages can see: this guest's bookings, stays that others have, the host's prices |
| `page`, `at` | where the browser is, and with which booking |

`AnswerX` is the API deciding, `DeliverX` the page hearing of it; in between
the guest may click, leave, reload or follow a link. `Fails` is the network, an
error, or an answer the page treats as one. A hold's answer may be lost after
it was made (`AnswerHold`). The webhook, the sweep and the host are
`RowChanges`. Names, contact details, the box to agree to the terms, children
and infants (who travel like adults here) and everything drawn are left out.
`/checkout` without dates, which shows the stored quote, is left out too.

## 3. What TLC checks

| Run | Instance | Shows |
|---|---|---|
| `Bookings_safety` | 2 bookings, 1 request at a time, stays `{[0,1), [1,2), [0,2)}`, clock 0..1 | `TypeOK`, `FreeIsSellable`, and the refinement `ImplementsLedger` |
| `Bookings_races` | 2 bookings, 2 requests interleaved at every await, two adjacent nights, a block on the second, clock 0..1 | `NoDoubleSale`, `ConfirmedIsPaid`, `OnlyHostEndsStay`, `PaidHoldIsNotReleased` |
| `Bookings_liveness` | 2 bookings, 1 request, 1 reconciliation job, one night, fairness | `PaidIsSettled` |
| `Refunds_safety` | 2 rows, 2 requests, amounts 1 and 2, totals 2 and 3, a charge of 2, a payment on file or still to be found | `TypeOK`, `EveryDollarIsOnTheLedger`, `RecordedIsReal`, and the refinement `ImplementsTransfers` |
| `House_terms` | 3 price rules, 1 extra, 1 panel request; two seasons that share a night, stays of no night and of four, a party over the included heads, five moments around the deadlines | `TypeOK`, `RateIsDetermined`, `LengthsAllowed`, `SplitStayCostsTheSame`, `RefundWithinQuote` |
| `CalendarSync` | 1 Airbnb event that comes, goes and moves between two adjacent stays and one of no night, 2 imports, 1 request, 1 direct booking that may be moved, lapse and return, a block | `TypeOK`, `AnsweredHoldsWereFree`, `HostBlocksSurvive`, the refinement `ImplementsMirror`, and with fairness `DoubleSaleIsRaised`, `CatchesUp` |
| `Notifications` | 1 operation of any kind, 5 deployments, 5 settings that change at any moment | `LogsTellTheTruth`, `FileNeverCostsTheTemplate`, `NoChannelFailsAnOperation`, `ConflictIgnoresSwitches`, and with fairness `EveryDestinationIsTried` |
| `Content` | a page, two reviews, a photo, 2 requests with the translations they fire, one target language | `GuestReadsTheSource`, `OneQuote`, `RowsHaveFiles` |
| `Accounts` | 2 accounts, one of which signs in, any 2 requests or edits of the team at once, 2 secrets, 2 codes, 2 sessions | `TypeOK`, `TheLastSuperadminStays`, `EnrolmentIsProven`, `CodeOpensOneSession` |
| `Reserve` | 2 stays of which one is too short, up to 2 adults, a pet, an extra, 2 clicks, 2 holds, 1 change of prices, 2 polls | `TypeOK`, `CardPriceIsForTheDates`, `CheckoutPriceIsForTheStay`, `FigureIsCharged`, and with fairness `EveryPageAnswers` |

### Bounds

**Bookings, refunds.** `HoldTtl = 0` and `MaxTime = 1` make a hold live at tick 0
and lapsed at tick 1; `PanelTtl` is longer than `HoldTtl`, or equal, so that one
kind of hold can lapse beside the other. Two bookings are enough for every
property here: each speaks of one booking or of a pair. The proofs remove these
bounds for all the safety properties. `MaxTime` bounds the clock and nothing
else; every other variable is finite by its type. In `Refunds_safety` the totals
reach above the charge, so that Stripe refuses what the ledger allows, and the
amounts are a part and the whole of it.

**House.** Three rules are a base, a season and a second season or a weekend: the
properties speak of two rules that meet on a night. The instance has one panel
request at a time, because with two of them the check and the write of
`createPriceRule` (or `updateProperty`) interleave and `RateIsDetermined` and
`LengthsAllowed` no longer hold: see the disagreements. Prices are two values in
cents, one of which makes every percentage round.

**CalendarSync.** Two imports give every order of two readings and two writes, an
event that moves a feed that changes between them and the update branch of the
upsert, and one of no night the case `toBlock` would turn inside out. With one
id the run cannot mix the rows of two events; the theorem `ImportIsAMirror` is of
any number of them.

**Notifications.** One operation: two share only the settings, which change at any
moment anyway.

**Content.** One target language and one text per review: `Draft` has an old and a new
text where an edit must change what is translated. A request fires one
translation job at a time.

**Accounts.** `Present` is one account, the one whose requests race each other:
nothing needs two, since no handler reads two people's rows but an edit of the
team, and anybody may make those. Two edits are enough to demote each other's
last colleague. Two secrets tell the proven one from the one drawn since, and
`PerPrint` is 1 code of the ten.

**Reserve.** `MaxClicks` counts the clicks that make the state space grow (a change of
dates, heads, pets, extras, a link, a return), not those that lead on, so that
two changes race each other on either page and the whole way to the
confirmation and back is still reachable. Two polls are a first and a last one.
`Link` is a checkout address followed or reloaded.

A behaviour may stop in `Reserve`, where a guest may have no clicks left, and only
that configuration turns the deadlock check off.

### Fairness

* `Bookings_liveness` (`FairSpec`): the cron starts the reconciliation every ten
  minutes while the API is up, so `Reconcile` is taken if it is possible again
  and again; and a crash or an exception (`Abort`) does not hit the same step of
  it for ever, so its steps are strongly fair, one condition for each booking
  since a run that always fails on one booking may still serve another. Nothing
  is assumed about webhooks, guests or the host. `Lookback` covers the whole
  clock in that run: the code promises nothing for bookings older than 72 hours.
* `CalendarSync`: strong fairness on the three steps of the scheduled import, for
  the same reason: it runs every quarter of an hour and Airbnb and the database
  do not fail at the same step every time. The import by hand, requests and
  Airbnb are not fair.
* `Notifications`: weak fairness on the steps of an operation that runs; a call ends
  or fails. `Stop`, the process dying, is one of the outcomes.
* `Reserve`: a fetch ends, with an answer or an error, and its page hears of it: weak
  fairness for each kind of call that a page waits for. Nothing is asked of the
  guest, the webhook or the host.

### Disagreements between code and comments

Two have a run that checks the comment's claim and finds a counterexample:

| Run | Claim | What happens |
|---|---|---|
| `House_extras` | bookings "reference their extras through BookingExtra" (`properties.service.ts:442`) | the pricing input calls an extra's key its id, and the insert writes that where the id of an `Extra` row is wanted: a stay with an extra that costs something cannot be booked |
| `Refunds_failed_but_sent` | "A failed refund returned nothing" (`bookings.service.ts:850`) | the row is marked `FAILED` when only the answer or the notice was lost, after the money went |

The others were met while modelling, and the models have the steps they consist
of, but no run asks for them:

* *Repeated delivery.* `confirmPayment` is "Idempotent" (`bookings.service.ts:582`);
  its guard stops only at `CONFIRMED`, so a `completed` event delivered again
  after the host cancelled the paid stay confirms it again.
* *New figure.* "On an unpaid hold the guest simply pays the new figure" (`:1001`);
  the open session keeps the old amount.
* *Open session.* "The session dies with the hold" (`payments.service.ts:114`); a
  hold that is discarded or cancelled leaves its session open and payable.
* *False alert.* The constraint answers whether somebody took the dates (`:613`);
  `confirmPayment` does not sweep, so a lapsed hold nobody has any more still
  refuses the payment, and the host is told the dates were taken.
* *Blocks.* `blockDates` "Refuses to cover a live booking" (`properties.service.ts:481`);
  a hold commits between its check and its insert. A hold restored by a late
  payment may land on a later block too.
* *Promised twice.* A pending refund "must not be promised twice"
  (`refunds.service.ts:69`); `issue` checks and creates in two statements.
* *Stale summary.* "This same call returns the fresh values"
  (`refunds.service.ts:139`); the catch-up refreshes the reference in memory and
  not the status, so a refund just found to have succeeded is offered again.
* *Late webhook.* A guest who pays inside the window and whose webhook comes after
  it may be swept by another hold in between; the payment then restores the row,
  or is raised to the host if the nights are gone (`bookings.service.ts:608`).
  `PaidHoldIsNotReleased` names the case.
* *Any stay.* `hold` says it refuses impossible stays; the stay of no night and the
  party over the house's capacity are priced and held. The stay of no night takes
  no night from anybody, and a second one of the same day is let in beside it.
* *Floor over ceiling.* A season's `minNights` may be larger than the settings'
  `maxNights`, since neither save compares the two, and its nights then cannot be
  booked by a guest. `LengthsAllowed` is of the settings alone.
* *Moved without asking.* `hold` asks Airbnb's live calendar before it takes dates;
  `update` moves a booking onto others, and a late payment puts a swept one back,
  without asking, and the second without a look at the blocks either. The next
  import reports what clashes.
* *Seasons.* Two requests at once pass `assertNoOverlap`, or the check of the two
  lengths, and both write. `updatePriceRule` may switch off the base rule, after
  which no stay can be quoted.
* *A discount of everything.* The settings take any percentage up to 100 and the
  rules any price in cents, while `computeQuote` rounds the discount to whole
  dollars ("Off the nights only, the way a guest reads it",
  `src/packages/shared/src/pricing.ts:281`): all of an odd half dollar is more
  than it, and the quote of such a stay has a negative line.
* *The last super admin.* The guard is "against the two ways an admin can lose access"
  (`users/users.service.ts:166`); two edits that each count before the other writes
  may demote or close the last two super admins.
* *The second factor.* The secret stays unconfirmed "until the user proves they can
  produce a code. Otherwise a failed setup would lock them out"
  (`auth/auth.service.ts:245`). Each handler acts on the row it read: a setup
  overtaken by a confirmation replaces the proven secret by one nobody confirmed,
  and a confirmation overtaken by a switch-off leaves the factor enabled, its
  codes printed, and no secret: sign-in then asks for no second factor (`:99`) and
  a new setup is refused.
* *One quote.* "Only one review can sit in the big quote block"
  (`cms/cms.service.ts:368`); a promotion that stops before its demotion leaves
  two until the next one, and two promotions at once may demote each other and
  leave none.
* *A failed translation.* "Failures are logged inside the service"
  (`cms/cms.service.ts:383`); the lookup of the stored translation is outside the
  `try` (`cms/translation.service.ts:135`) of a job nobody awaits, so its failure is
  an unhandled rejection, which ends the process.
* *One chance to be told.* The alerts follow the commit and there is no record of
  what is still to be sent: a process that stops in between tells nobody, and a
  redelivered `completed` event finds the booking confirmed and returns.
* *Could not send.* "Sent" and "not delivered" are true in the log; "could not send"
  is also written when the provider took the message and its answer was lost.
* *Pets on the card.* A comment in `guest-picker.tsx` says "the fee follows from the
  count"; the effect that prices the card does not depend on the animals
  (`availability-card.tsx:209`), so a dog added last is not priced and goes to
  the checkout without its fee. The pets chosen in the checkout's dialog are
  never turned into the extra either.
* *Figure on screen.* "The figure on screen is the figure Stripe will charge"
  (`checkout/page.tsx:99`); a guest who pays while a newer price is on its way,
  or after the host changed the prices, is charged another. `FigureIsCharged`
  says when it holds. The holds it speaks of may carry extras; as `House_extras`
  shows, the API refuses to insert those, which this module does not repeat.
* *Dates gone.* The notice "stays until they pick other dates"
  (`checkout/page.tsx:306`); it stays after that too, since nothing resets it. A
  guest who comes back from Stripe may be told that the dates are gone because
  of their own hold, not yet abandoned.
* *Confirmed.* "A booking that exists but is not CONFIRMED yet means the webhook is
  still in flight"; the page then shows every status but `PENDING` as confirmed,
  a cancelled booking among them.

## 4. What is proved

No theorem bounds the number of rows, requests, jobs, stays, amounts, channels,
languages or accounts. Each rests on the named assumption of its module's
constants, which TLC evaluates in the runs, and on nothing else but where its
statement says so: five theorems of `House` have a hypothesis of their own
(`OneRuleEdit`, `OneSettingsEdit`, `DiscountWithinPrice`), each because the code
breaks the property without it, and so has the corollary `ASuperadminRemains`.

### Bookings

`BookingsAssumption`: stays and blocks are well-formed ranges, the durations are
naturals, `Null` is none of the values it stands beside, and no process is both a
request and a job.

| Theorem | Statement |
|---|---|
| `TypeCorrect` | `Spec => []TypeOK` |
| `NeverDoubleSold` | `Spec => []NoDoubleSale` |
| `CalendarIsHonest` | `Spec => []FreeIsSellable` |
| `BookingsImplementLedger` | `Spec => ImplementsLedger` |
| `OnlyMoneyConfirms` | `Spec => [](PaymentTrail /\ ConfirmedIsPaid)` |
| `OnlyTheHostEndsAStay` | `Spec => OnlyHostEndsStay` |
| `PaidHoldsAreNotReleased` | `Spec => PaidHoldIsNotReleased` |

* **`TypeOK`** is inductive because it carries `References`: a task's
  `ReleaseHold` or `MoveStay` writes a row without looking at it, and would
  give a booking that was never inserted a status if nothing said that tasks,
  sessions and events only name rows that exist.
* **`NoDoubleSale`** is inductive with `TypeOK`. Every step changes the rows in
  one of four ways: it leaves them, it makes a booking occupy nights that
  `Fits` accepted, it takes a booking off the calendar, or it writes a row that
  is off the calendar and stays there. `Fits` is the exclusion constraint, and
  `Swept` only takes rows off.
* **The refinement** uses the same four shapes, which are the ledger's
  `Claim`, `Sell`/`Move`, `GiveBack` and a stutter, with `Overlaps` related to the
  intersection of the two sets of nights (`OverlapIsCommonNight`).
* **`ConfirmedIsPaid`** is not inductive: a task in stage `confirm` writes
  `CONFIRMED` on the strength of something it learnt several awaits ago.
  `PaymentTrail` says that what each task knows about money is still true, that
  the events in flight agree with Stripe, and that a hold whose page is being
  opened is being opened by one request only (otherwise a second session could
  replace a paid one). `OnlyHostEndsStay` and `PaidHoldIsNotReleased` follow from
  it step by step: the unguarded write of `releaseHold` is harmless because a
  session that expired was not and cannot be paid. The second is not that a guest
  who paid in time keeps the nights, which is false of the code: a hold whose
  webhook is later than its window is swept, and then restored or raised.

### Refunds

`RefundsAssumption` asks for positive amounts, natural prices and charge, and a
`Null` apart.

| Theorem | Statement |
|---|---|
| `TypeCorrect` | `Spec => []TypeOK` |
| `TheLedgerIsTrue` | `Spec => [](EveryDollarIsOnTheLedger /\ RecordedIsReal /\ AnswerTrail)` |
| `EveryDollarIsAccountedFor` | `Spec => []EveryDollarIsOnTheLedger` |
| `RefundsImplementTransfers` | `Spec => ImplementsTransfers` |

`RecordedIsReal` is not inductive: `Save` writes `SUCCEEDED` from an answer it
received before an `await`. `AnswerTrail` says that such an answer is still
true (a refund that succeeded does not change, in this model), that a row with
a Stripe id was executed, and that no two requests work on one row, which is
what makes `Send` the first and only call for its row. Every step then either
moves a task with a true memory (`MovesKeepMoney`), or rewrites one row in
agreement with Stripe (`WritesKeepMoney`), or is Stripe's own. The refinement
maps the second kind to `Believe` or `Doubt`, `Create` to `Declare`, and Stripe's
steps to `Move`, `Decline` and `Return`. The sums (what is left, what Stripe may
still send) only guard actions; no theorem needs their value.

### House

`HouseAssumption`: prices are positive, fees and percentages natural, a discount
is at most everything, the rows sent by the panel have their columns' types,
there are finitely many kinds of extras, and ids, keys and `Null` are apart.
`PricingAssumption`: a year has a day.

| Theorem | Statement |
|---|---|
| `TypeCorrect` | `Spec /\ []OneRuleEdit => []TypeOK` |
| `OneNightOnePrice` | `Spec /\ []OneRuleEdit => []RateIsDetermined` |
| `TheSettingsLeaveALength` | `Spec /\ []OneSettingsEdit => []LengthsAllowed` |
| `HalvesCostTheSame` | `Spec => []SplitStayCostsTheSame` |
| `RefundsStayWithinTheBill` | `ASSUME DiscountWithinPrice PROVE Spec => []RefundWithinQuote` |
| `ALaterCancellationReturnsLess` | `ASSUME DiscountWithinPrice PROVE Spec => []WaitingNeverPays` |
| `DeadlinesAreKept` | for every stay and hour: where the policy has a last day of a full refund, `Rate` is full up to that day and no longer; where it has one of half, `Rate` is at least half up to that day and nothing after it, but for the hours of grace |

* **One edit at a time.** `createPriceRule` and `updatePriceRule` check a row and
  write it after an `await`, and so does `updateProperty`. Two such requests at
  once really write two seasons that overlap, move both ends of one season past
  each other, or leave a longest stay under the shortest. The first three
  theorems therefore assume that no two edits of the same kind are between their
  check and their write at once, which is one host with one window; any number of
  other requests may run beside it, and rules may be deleted under its feet.
  `RuleTrail` is the inductive part: every rule can stand beside all the others
  (`Beside`), and what an edit is about to write still can when it is written.
  `SettingsTrail` is the same of the two lengths. The run has these hypotheses
  by its instance, of one request.
* **`Shapes`** is what is true however requests interleave: every row, setting and
  task has its type, and a season has both its bounds. It carries the other
  theorems, which quantify over what can be quoted in a state.
* **Sums.** `Subtotal` and `ExtrasTotal` are folds over sets. The library's induction
  principles take a predicate as a parameter, so the module first proves
  induction in the form of sets (`NatSetInduction`, `SubsetInduction`) from the
  well-foundedness of `<`; that a fold is the sum whatever order it picks
  (`TotalStep`), and that the sum over two disjoint sets is the sum of the two
  (`TotalOfUnion`). A stay's nights are those of its halves, and the first
  theorem about money follows.
* **Bills.** `QuotesAreBills` is what a refund needs of a quote: each line is natural
  and the total is their sum. The refund's lines are then at most the bill's
  (`HalfIsWithin`), and fall with the rung of the ladder (`RateFalls`,
  `HalfGrows`).
* **`DiscountWithinPrice`**: either the nightly prices are whole dollars, or the
  discount leaves at least half a dollar of every night. `computeQuote` rounds a
  discount to whole dollars, so that a weekly discount of all of a night of
  $99.50 is $100, and a stay without extra guests costs half a dollar less than
  nothing; half of that is not within the bill. See the disagreements.

### Calendar sync

`CalendarSyncAssumption`: events and stays do not end before they start and may
cover no night, ids and values are apart.

| Theorem | Statement |
|---|---|
| `TypeCorrect` | `Spec => []TypeOK` |
| `ImportsSpareTheHost` | `Spec => HostBlocksSurvive` |
| `AnswersStayGood` | `Spec => []AnsweredHoldsWereFree` |
| `ImportIsAMirror` | `Spec => ImplementsMirror` |

`TypeOK` says that a reading has one block per event and none inside out, which
is why the transaction's deletes and inserts cannot meet the unique key.
`AnsweredHoldsWereFree` is of a live booking on the stay Airbnb was asked about,
whatever happened to it in between: it may have been inserted, swept, restored,
moved away and moved back. It needs the same claim of the requests between the
answer and the insert (`AnswersWereFree`), and says nothing of a booking that is
now on other nights, which nobody asked about. The mirror is written in nights: `Closed`
turns the blocks of one event back into a set of nights, and the lemma behind
every step is that the nights of `ToBlock` are the nights of the event, none for
an event that was dropped.

### Notifications

| Theorem | Statement |
|---|---|
| `TypeCorrect` | `Spec => []TypeOK` |
| `LogsAreTrue` | `Spec => []LogsTellTheTruth` |
| `ATemplateIsNeverLost` | `Spec => []FileNeverCostsTheTemplate` |
| `ChannelsFailNoOperation` | `Spec => NoChannelFailsAnOperation` |
| `ConflictsGoOutToAll` | `Spec => ConflictIgnoresSwitches` |

The proof first reduces every step of an operation to four facts (`Effects`): how
the job goes on, what it may have told the host, what it wrote to the log and
what a provider took. `LogTrail` adds that nothing is logged or taken for a
notice that is still to come, nor for a call still under way but the text before
a document, so one call leaves one line; `FileTrail` that a file is only on its way to Meta where it
costs no template. The last two are about the start of an alert: an operation can
fail while the settings are read and not once the channels are being called, and
a conflict sets out for all that can be reached. That it arrives is not claimed:
the channels may refuse it and the process may stop.

### Content

| Theorem | Statement |
|---|---|
| `TypeCorrect` | `Spec => []TypeOK` |
| `ReadersGetTheSource` | `Spec => []GuestReadsTheSource` |
| `ASecondQuoteIsUnfinished` | `Spec => []OneQuote` |
| `GalleryHasItsFiles` | `Spec => []RowsHaveFiles` |

`GuestReadsTheSource` follows from `TrueCopies`: every stored translation is one of
the text whose hash it carries, so an old one that is stored last is never
taken for a translation of the new text, it is just not used. `RowsHaveFiles`
needs `FilesTrail`: an upload that is about to insert has its file, an image that
is about to lose its file has no row and will have none again. `OneQuote` is
inductive with `TypeOK`; the process that ends with a failed lookup cuts off the
demotions under way, and they are counted as such.

### Accounts

| Theorem | Statement |
|---|---|
| `TypeCorrect` | `Spec => []TypeOK` |
| `AnEnrolmentIsProven` | `Spec => EnrolmentIsProven` |
| `CodesAreSingleUse` | `Spec => []CodeOpensOneSession` |
| `OnlyARaceTakesTheLastSuperadmin` | `Spec => TheLastSuperadminStays` |
| `ASuperadminRemains` | `Spec /\ [](\A r \in Request : ~EditOvertaken(r)) => [](Superadmins # {})` |

Two of the properties are false of the code if they are stated without an
exception, so they name it: the step that breaks them ends a request whose task
saw something else when it read (`SetupOvertaken`, `EditOvertaken`). `ReadTrail` is
what is true of a task until it writes: a setup began over a factor that was off,
and an edit that takes a super admin away saw another. With it, a step that is not
overtaken keeps the property, whatever the other requests do. That the codes are
there exactly while the factor is enabled is inductive: the transactions of
`enableTotp` and `disableTotp` write both sides. `CodeOpensOneSession` needs
`SessionTrail`: a request about to open a session by a code is the one that spent
it, and a code that was spent stays so.

### Reserve

| Theorem | Statement |
|---|---|
| `TypeCorrect` | `Spec => []TypeOK` |
| `CardPriceHolds` | `Spec => []CardPriceIsForTheDates` |
| `CheckoutPriceHolds` | `Spec => []CheckoutPriceIsForTheStay` |
| `ScreenIsCharged` | `Spec => []FigureIsCharged` |

None of the three properties says anything of the calls under way, and each is
broken by one of them: a late answer changes a page long after its question. The
trails say what is true of a call until it ends. `CardTrail`: a price on its way to
the card was asked for the dates and heads now on it, which is what the clean-up of
the effect is for. `CheckoutTrail`: the same of the checkout, for its address and
its extras. `HoldTrail`: a hold clicked with no newer price on its way asks for
what the price on the screen was for, also when its page is gone, and so does the
row it becomes; its one new call needs `CheckoutTrail`. Two lemmas sort the steps,
so that no trail is proved action by action: after a `Quiet` step every call was
under way before it (`Traced`), and the others ask for a price of the card, of
the checkout, or hold (`Asks`). The proof of `TypeOK` carries the shape of every
call and that what it refers to was made. The theorems hold for every number of
stays, heads, holds and clicks.

### What TLC alone checks

Liveness (`PaidIsSettled`, `DoubleSaleIsRaised`, `CatchesUp`,
`EveryDestinationIsTried`, `EveryPageAnswers`) rests on fairness, which is beyond
the prover: it takes `ENABLED`. Every safety invariant, action property and
refinement of a passing run is stated by a theorem. `OneSettingsEdit` and the
like are hypotheses of theorems and bounds of the runs, not claims about the
code. The disagreements are counterexamples and need no proof.

## 5. What is left

* Guest sign-in, invitations, reset links and the lockout of `Accounts`.
* The declarations and filings of taxes, which sum rows of `Bookings` and `Refunds`
  over a period.

## 6. Not modelled

* **Guest sign-in, reset links, invitations, failed attempts.** Rows of the same kind as
  recovery codes, with an hour to live. They would double the state of `Accounts`.
* **Customers.** Single-statement writes; the count before a deletion is repeated by a
  foreign key. Two first bookings of one guest may each create a customer at
  Stripe.
* **Taxes and payments report.** Sums over rows and frozen figures of a filing; they
  decide nothing in the rest of the system. Read while modelling: a stay paid
  on a day with no jurisdiction in force is left out of the allocation, money
  kept from a cancelled stay is not declared, a refund changes the report of a
  period already filed, and the end of a filed period is stored without its
  hour.
* **Calendar export.** Reads.
* **`updateBlockedDate`.** Rewrites the reason of a block and nothing else.
* **The hundred sessions of a list call** in the reconciliation, which would matter
  with more than a hundred sessions in 72 hours on one house.
* **Sort order and publication of content**, and image processing.
* **A refund that bounced days after it succeeded**: no code listens for it.
* **Assistant, other pages, shared ui, seeds, PDFs, wording**: presentation, or forwarding.

Facts that the models have as steps and that no property speaks of, because the
code promises nothing about them: the host's own booking of any length
(`PriceManual`); an answer with status 200 that is not a
calendar empties the import (Airbnb's feed is taken at its word); a manual stay
never asks Airbnb; unblocking may delete imported rows, which the next import
puts back; an upload to Meta that fails loses that alert on that channel; an
edit of a stay overwrites a concurrent one field by field; two requests that
refresh with one token.

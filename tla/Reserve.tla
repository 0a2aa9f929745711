------------------------------ MODULE Reserve ------------------------------
(***************************************************************************)
(* The site as one guest uses it: the card that prices a stay, the         *)
(* checkout that holds it, the return from Stripe and the page that waits  *)
(* for the booking.                                                        *)
(*                                                                         *)
(* Every call to the API is answered and then delivered, and meanwhile the *)
(* guest goes on clicking: an effect that runs again cancels the call of   *)
(* its last run, whose answer may still come.  A price is not computed     *)
(* here: it is the terms of the house when it was quoted and what it was   *)
(* quoted for.  The API is reduced to what these pages can see of it.      *)
(* Names, mails, languages and the choice of what is drawn are left out.   *)
(***************************************************************************)
EXTENDS Naturals

CONSTANTS
    Stay,       \* the dates a guest may ask for, no two of them overlapping
    Short,      \* those whose length the house does not accept
    MaxGuests,  \* how many adults the pickers go up to
    Link,       \* the checkout addresses that are followed or reloaded
    MaxHolds,   \* how many bookings this guest makes
    MaxTerms,   \* how often the host changes the prices
    MaxClicks,  \* how many clicks a guest spends
    Polls,      \* POLL_ATTEMPTS
    Null, Lost, Gone

Units == [pet : 0..1, pool : 0..1]

NoExtras == [pet |-> 0, pool |-> 0]

\* QuoteRequest, which is also what a checkout URL says.
Ask == [stay : Stay, adults : 1..MaxGuests, pets : 0..1, units : Units]

HoldId == 1..MaxHolds

\* BookingQuote: the animals of the party are on it, and not in its price.
Quote == [ask : Ask, terms : 0..MaxTerms]

ASSUME ReserveAssumption ==
    /\ Short \subseteq Stay /\ Link \subseteq Ask
    /\ {MaxHolds, MaxTerms, MaxClicks} \subseteq Nat
    /\ MaxGuests \in Nat \ {0} /\ Polls \in Nat \ {0}
    /\ Null # Lost /\ Null # Gone /\ Lost # Gone
    /\ Null \notin Stay /\ Null \notin Ask /\ Null \notin Quote
    /\ {Null, Lost, Gone} \cap HoldId = {}

VARIABLES
    terms,      \* the prices of the house: how often they have changed
    sold,       \* stays that went to others
    row,        \* the bookings this guest made
    calls,      \* fetches not yet finished, those nobody waits for included
    page,       \* where the browser is
    card,       \* the state of AvailabilityCard
    checkout,   \* the state of CheckoutForm and its URL
    wait,       \* the state of ConfirmationContent
    at,         \* the row whose payment page or confirmation is open
    clicks

server == <<terms, sold, row>>
vars == <<terms, sold, row, calls, page, card, checkout, wait, at, clicks>>

-----------------------------------------------------------------------------
(* Asking and answering *)

Price(q) == <<q.terms, q.ask.stay, q.ask.adults, q.ask.units>>

Call(kind, ask, about) ==
    [kind |-> kind, ask |-> ask, about |-> about, ans |-> Null, live |-> TRUE]

\* The clean-up of an effect: the answers of its earlier runs are for nobody.
Without(cs, kinds) == {c \in cs : c.kind \notin kinds}

\* A page goes away and its components with it.  A hold goes on, and so does
\* the page's last wish.
Unmounted(cs) ==
    {IF c.kind = "hold" THEN [c EXCEPT !.live = FALSE] ELSE c :
        c \in Without(cs, {"card", "quote", "nights", "poll"})}

\* A page load: the script that was waiting for a hold is gone as well.
Unloaded(cs) ==
    {IF c.kind = "hold" THEN [c EXCEPT !.kind = "orphan"] ELSE c :
        c \in {d \in Unmounted(cs) : d.kind = "hold" => d.ans = Null}}

NoRow == [status |-> "NONE", ask |-> Null, terms |-> 0, paid |-> FALSE,
          recorded |-> FALSE, shown |-> Null]

NewCard == [stay |-> Null, adults |-> 1, pets |-> 0, quote |-> Null,
            pricing |-> FALSE, failed |-> FALSE]

NewWait == [state |-> "loading", tries |-> 0, status |-> Null]

Closed == [url |-> Null, chosen |-> NoExtras, quote |-> Null, gone |-> FALSE,
           open |-> FALSE, busy |-> FALSE, back |-> Null]

Init ==
    /\ terms = 0
    /\ sold = {}
    /\ row = [h \in HoldId |-> NoRow]
    /\ calls = {}
    /\ page = "card"
    /\ card = NewCard
    /\ checkout = Closed
    /\ wait = NewWait
    /\ at = Null
    /\ clicks = 0

Click == clicks < MaxClicks /\ clicks' = clicks + 1

-----------------------------------------------------------------------------
(* The card *)

\* The pet fee is an extra, as many as there are animals.
CardAsk(c) == [stay |-> c.stay, adults |-> c.adults, pets |-> c.pets,
               units |-> [pet |-> c.pets, pool |-> 0]]

\* A slip: an effect that runs again leaves its last call alone.
RepricedWithoutCleanup(c) ==
    IF c.stay = Null
    THEN /\ card' = [c EXCEPT !.quote = Null]
         /\ UNCHANGED calls
    ELSE /\ card' = [c EXCEPT !.pricing = TRUE, !.failed = FALSE]
         /\ calls' = calls \cup {Call("card", CardAsk(c), Null)}

\* The pricing effect.  Half-picked dates have no price; pricing is not reset.
Repriced(c) ==
    IF c.stay = Null
    THEN /\ card' = [c EXCEPT !.quote = Null]
         /\ calls' = Without(calls, {"card"})
    ELSE /\ card' = [c EXCEPT !.pricing = TRUE, !.failed = FALSE]
         /\ calls' = Without(calls, {"card"}) \cup {Call("card", CardAsk(c), Null)}

OnCard == page = "card" /\ UNCHANGED <<server, page, checkout, wait, at>>

PickStay(s) == OnCard /\ Click /\ card.stay = Null /\ Repriced([card EXCEPT !.stay = s])

\* A click on a finished stay begins another, and either end can be cleared.
StartAgain == OnCard /\ Click /\ card.stay # Null /\ Repriced([card EXCEPT !.stay = Null])

SetAdults(n) ==
    /\ OnCard
    /\ Click
    /\ n # card.adults
    /\ Repriced([card EXCEPT !.adults = n])

\* The effect does not depend on the animals.
SetPets(n) ==
    /\ OnCard
    /\ Click
    /\ card' = [card EXCEPT !.pets = n]
    /\ UNCHANGED calls

CanReserve == card.quote # Null /\ ~card.pricing /\ card.quote.ask.stay \notin Short

-----------------------------------------------------------------------------
(* The checkout *)

CheckoutAsk(c) == [c.url EXCEPT !.units = c.chosen]

\* A slip: the price is asked for again for other dates, not for other extras.
RepricedForTheRequest(c, effects) ==
    /\ checkout' = c
    /\ calls' = IF "nights" \in effects
                THEN Without(calls, effects) \cup {Call(k, CheckoutAsk(c), Null) : k \in effects}
                ELSE calls

\* The effects that depend on what changed run again.
RepricedCheckout(c, effects) ==
    /\ checkout' = c
    /\ calls' = Without(calls, effects) \cup {Call(k, CheckoutAsk(c), Null) : k \in effects}

\* The checkout mounts: extras are seeded from the URL, and a guest who comes
\* back from Stripe hands the dates back.
Enter(url, back, others) ==
    /\ page' = "checkout"
    /\ checkout' = [Closed EXCEPT !.url = url, !.chosen = url.units, !.back = back]
    /\ calls' = others \cup {Call("quote", url, Null), Call("nights", url, Null)}
                  \cup {Call("abandon", url, b) : b \in {back} \ {Null}}
    /\ UNCHANGED <<server, wait, at>>

Reserve ==
    /\ page = "card"
    /\ CanReserve
    /\ Enter(card.quote.ask, Null, Unmounted(calls))
    /\ card' = NewCard
    /\ UNCHANGED clicks

\* A link, or a reload.
OpenLink(url) ==
    /\ page \in {"card", "checkout"}
    /\ Click
    /\ Enter(url, Null, Unloaded(calls))
    /\ card' = NewCard

GoHome == page' = "card" /\ card' = NewCard /\ checkout' = Closed

OnCheckout == page = "checkout" /\ UNCHANGED <<server, page, card, wait, at>>

\* The URL loses the booking it came back with, and is a new request.
CleanUrl ==
    /\ OnCheckout
    /\ checkout.back # Null
    /\ RepricedCheckout([checkout EXCEPT !.back = Null], {"quote", "nights"})
    /\ UNCHANGED clicks

\* The page is on screen and neither the dialog nor the overlay covers it.
Editable == checkout.quote # Null /\ ~checkout.open /\ ~checkout.busy

EditDates(s) ==
    /\ OnCheckout
    /\ Click
    /\ Editable
    /\ RepricedCheckout([checkout EXCEPT !.url.stay = s], {"quote", "nights"})

EditGuests(n, p) ==
    /\ OnCheckout
    /\ Click
    /\ Editable
    /\ RepricedCheckout([checkout EXCEPT !.url.adults = n, !.url.pets = p], {"quote", "nights"})

ChooseExtras(pool) ==
    /\ OnCheckout
    /\ Click
    /\ Editable
    /\ RepricedCheckout([checkout EXCEPT !.chosen.pool = pool], {"quote"})

OpenDialog ==
    /\ OnCheckout
    /\ Editable
    /\ ~checkout.gone
    /\ checkout' = [checkout EXCEPT !.open = TRUE]
    /\ UNCHANGED <<calls, clicks>>

CloseDialog ==
    /\ OnCheckout
    /\ Click
    /\ checkout.open
    /\ ~checkout.busy
    /\ checkout' = [checkout EXCEPT !.open = FALSE]
    /\ UNCHANGED calls

Repricing == \E c \in calls : c.kind = "quote"

\* A slip: one adult, whoever comes along.
HoldAskAlone == [checkout.quote.ask EXCEPT !.units = checkout.chosen, !.adults = 1]

\* What is held: the dates and the party of the quote, the extras chosen here.
HoldAsk == [checkout.quote.ask EXCEPT !.units = checkout.chosen]

\* startPayment().  The row will remember the price on the screen, unless a
\* newer one was on its way: nothing reads that but the properties.
StartPayment ==
    /\ OnCheckout
    /\ checkout.open
    /\ ~checkout.busy
    /\ checkout' = [checkout EXCEPT !.busy = TRUE]
    /\ calls' = calls \cup
          {Call("hold", HoldAsk, IF Repricing THEN Null ELSE checkout.quote)}
    /\ UNCHANGED clicks

\* The browser's back button, which no overlay covers.
Leave ==
    /\ page = "checkout"
    /\ Click
    /\ GoHome
    /\ calls' = Unmounted(calls)
    /\ UNCHANGED <<server, wait, at>>

-----------------------------------------------------------------------------
(* Stripe, and the way back *)

Pay ==
    /\ page = "stripe"
    /\ ~row[at].paid
    /\ row' = [row EXCEPT ![at].paid = TRUE]
    /\ page' = "confirmation"
    /\ wait' = NewWait
    /\ calls' = Unloaded(calls) \cup {Call("poll", Null, at)}
    /\ UNCHANGED <<terms, sold, card, checkout, at, clicks>>

\* The cancel URL: dates, heads and the booking.
TurnRound ==
    /\ page = "stripe"
    /\ Click
    /\ Enter([row[at].ask EXCEPT !.pets = 0, !.units = NoExtras], at, Unloaded(calls))
    /\ UNCHANGED card

-----------------------------------------------------------------------------
(* The API *)

Free(s) ==
    /\ s \notin sold
    /\ \A h \in HoldId : row[h].status \in {"PENDING", "CONFIRMED"} => row[h].ask.stay # s

\* A slip: recorded whoever paid.
RecordedUnpaid(h) ==
    IF ~row[h].recorded /\ row[h].status = "PENDING"
    THEN [row[h] EXCEPT !.status = "CONFIRMED", !.recorded = TRUE]
    ELSE row[h]

\* What recording the payment of h leaves.
Recorded(h) ==
    IF /\ row[h].paid
       /\ ~row[h].recorded
       /\ row[h].status = "CANCELLED" => Free(row[h].ask.stay)
    THEN [row[h] EXCEPT !.status = "CONFIRMED", !.recorded = TRUE]
    ELSE row[h]

\* Nobody waits for the answer to an abandoned hold.
Answer(c, a) ==
    calls' = IF c.kind \in {"abandon", "orphan"} THEN calls \ {c}
             ELSE (calls \ {c}) \cup {[c EXCEPT !.ans = a]}

Unanswered(c, kinds) == c.kind \in kinds /\ c.ans = Null

Browser == <<page, card, checkout, wait, at, clicks>>

AnswerQuote(c) ==
    /\ Unanswered(c, {"card", "quote"})
    /\ Answer(c, terms)
    /\ UNCHANGED <<server, Browser>>

AnswerNights(c) ==
    /\ Unanswered(c, {"nights"})
    /\ Answer(c, ~Free(c.ask.stay))
    /\ UNCHANGED <<server, Browser>>

\* An extra is named by its key where its row's id is wanted: a booking with
\* one cannot be written.
AnswerHold(c) ==
    /\ Unanswered(c, {"hold", "orphan"})
    /\ c.ask.units = NoExtras
    /\ c.ask.stay \notin Short
    /\ Free(c.ask.stay)
    /\ \E h \in HoldId :
          /\ row[h].status = "NONE"
          /\ \A g \in 1..(h - 1) : row[g].status # "NONE"
          /\ row' = [row EXCEPT ![h] =
                 [NoRow EXCEPT !.status = "PENDING", !.ask = c.ask, !.terms = terms,
                               !.shown = c.about]]
          /\ \E a \in {h, Lost} : Answer(c, a)
    /\ UNCHANGED <<terms, sold, Browser>>

RefuseHold(c) ==
    /\ Unanswered(c, {"hold", "orphan"})
    /\ ~Free(c.ask.stay)
    /\ Answer(c, Gone)
    /\ UNCHANGED <<server, Browser>>

\* abandonHold(), whose answer nobody waits for.
AnswerAbandon(c) ==
    /\ Unanswered(c, {"abandon"})
    /\ row' = IF row[c.about].status = "PENDING"
              THEN [row EXCEPT ![c.about].status = "CANCELLED"] ELSE row
    /\ Answer(c, Null)
    /\ UNCHANGED <<terms, sold, Browser>>

\* findBySession() records the payment if no webhook has.
AnswerPoll(c) ==
    /\ Unanswered(c, {"poll"})
    /\ row' = [row EXCEPT ![c.about] = Recorded(c.about)]
    /\ Answer(c, IF Recorded(c.about).recorded THEN Recorded(c.about).status ELSE Lost)
    /\ UNCHANGED <<terms, sold, Browser>>

\* The network, an error, or an answer the page treats as one.
Fails(c) ==
    /\ c.ans = Null
    /\ Answer(c, Lost)
    /\ UNCHANGED <<server, Browser>>

ChangeTerms ==
    /\ terms < MaxTerms
    /\ terms' = terms + 1
    /\ UNCHANGED <<sold, row, calls, Browser>>

SellElsewhere(s) ==
    /\ Free(s)
    /\ sold' = sold \cup {s}
    /\ UNCHANGED <<terms, row, calls, Browser>>

\* The webhook; a hold that lapses; the host's cancellation.
RowChanges(h) ==
    /\ row[h].status # "NONE"
    /\ \E r \in {Recorded(h), [row[h] EXCEPT !.status = "CANCELLED"]} :
          /\ r # row[h]
          /\ row' = [row EXCEPT ![h] = r]
    /\ UNCHANGED <<terms, sold, calls, Browser>>

-----------------------------------------------------------------------------
(* Answers reach the page *)

Delivered(c, kind) == c.kind = kind /\ c.ans # Null

DeliverCard(c) ==
    /\ Delivered(c, "card")
    /\ calls' = calls \ {c}
    /\ card' = [card EXCEPT
                 !.quote = IF c.ans = Lost THEN Null ELSE [ask |-> c.ask, terms |-> c.ans],
                 !.failed = (c.ans = Lost), !.pricing = FALSE]
    /\ UNCHANGED <<server, page, checkout, wait, at, clicks>>

\* A stay that cannot be priced goes back to the card.
DeliverQuote(c) ==
    /\ Delivered(c, "quote")
    /\ IF c.ans = Lost
       THEN GoHome /\ calls' = Unmounted(calls)
       ELSE /\ calls' = calls \ {c}
            /\ checkout' = [checkout EXCEPT !.quote = [ask |-> c.ask, terms |-> c.ans]]
            /\ UNCHANGED <<page, card>>
    /\ UNCHANGED <<server, wait, at, clicks>>

\* Dates once found gone stay so while the page is open.
DeliverNights(c) ==
    /\ Delivered(c, "nights")
    /\ calls' = calls \ {c}
    /\ checkout' = [checkout EXCEPT !.gone = @ \/ c.ans = TRUE]
    /\ UNCHANGED <<server, page, card, wait, at, clicks>>

\* The address of the payment page is followed wherever the guest is by then.
DeliverHold(c) ==
    /\ Delivered(c, "hold")
    /\ IF c.ans \in HoldId
       THEN /\ page' = "stripe"
            /\ at' = c.ans
            /\ calls' = Unloaded(calls \ {c})
            /\ card' = NewCard
            /\ checkout' = Closed
       ELSE /\ calls' = calls \ {c}
            /\ checkout' = IF c.live
                           THEN [checkout EXCEPT !.open = FALSE, !.busy = FALSE,
                                                 !.gone = @ \/ c.ans = Gone]
                           ELSE checkout
            /\ UNCHANGED <<page, at, card>>
    /\ UNCHANGED <<server, wait, clicks>>

\* A slip: the attempts are not counted.
DeliverPollForever(c) ==
    /\ Delivered(c, "poll")
    /\ IF c.ans # Lost
       THEN /\ wait' = [wait EXCEPT !.state = "found", !.status = c.ans]
            /\ calls' = calls \ {c}
       ELSE /\ calls' = (calls \ {c}) \cup {Call("poll", Null, at)}
            /\ UNCHANGED wait
    /\ UNCHANGED <<server, page, card, checkout, at, clicks>>

\* Asked again until the attempts are spent.
DeliverPoll(c) ==
    /\ Delivered(c, "poll")
    /\ IF c.ans # Lost
       THEN /\ wait' = [wait EXCEPT !.state = "found", !.status = c.ans]
            /\ calls' = calls \ {c}
       ELSE IF wait.tries + 1 >= Polls
       THEN /\ wait' = [wait EXCEPT !.state = "missing", !.tries = @ + 1]
            /\ calls' = calls \ {c}
       ELSE /\ wait' = [wait EXCEPT !.tries = @ + 1]
            /\ calls' = (calls \ {c}) \cup {Call("poll", Null, at)}
    /\ UNCHANGED <<server, page, card, checkout, at, clicks>>

-----------------------------------------------------------------------------
(* The site *)

Guest ==
    \/ \E s \in Stay : PickStay(s) \/ EditDates(s)
    \/ \E n \in 1..MaxGuests : SetAdults(n)
    \/ \E n \in 0..1 : SetPets(n) \/ ChooseExtras(n)
    \/ \E n \in 1..MaxGuests, p \in 0..1 : EditGuests(n, p)
    \/ \E url \in Link : OpenLink(url)
    \/ StartAgain \/ Reserve
    \/ OpenDialog \/ CloseDialog \/ StartPayment \/ Leave
    \/ Pay \/ TurnRound

Api(c) ==
    \/ AnswerQuote(c) \/ AnswerNights(c) \/ AnswerHold(c) \/ RefuseHold(c)
    \/ AnswerAbandon(c) \/ AnswerPoll(c) \/ Fails(c)

Deliver(c) ==
    \/ DeliverCard(c) \/ DeliverQuote(c) \/ DeliverNights(c)
    \/ DeliverHold(c) \/ DeliverPoll(c)

Others ==
    \/ ChangeTerms
    \/ \E s \in Stay : SellElsewhere(s)
    \/ \E h \in HoldId : RowChanges(h)

Ends(kind) == \E c \in calls : c.kind = kind /\ (Api(c) \/ Deliver(c))

Next ==
    \/ Guest \/ CleanUrl \/ Others
    \/ \E c \in calls : Api(c) \/ Deliver(c)

\* A fetch ends, with an answer or an error, and the page hears of it.  Nothing
\* is asked of the guest, the webhook or the host.
Spec == /\ Init /\ [][Next]_vars
        /\ \A kind \in {"card", "quote", "hold", "poll"} : WF_vars(Ends(kind))

-----------------------------------------------------------------------------
(* Properties *)

Status == {"PENDING", "CONFIRMED", "CANCELLED"}

Row == [status : Status \cup {"NONE"}, ask : Ask \cup {Null}, terms : 0..MaxTerms,
        paid : BOOLEAN, recorded : BOOLEAN, shown : Quote \cup {Null}]

CardState ==
    [stay : Stay \cup {Null}, adults : 1..MaxGuests, pets : 0..1,
     quote : Quote \cup {Null}, pricing : BOOLEAN, failed : BOOLEAN]

CheckoutState ==
    [url : Ask \cup {Null}, chosen : Units, quote : Quote \cup {Null}, gone : BOOLEAN,
     open : BOOLEAN, busy : BOOLEAN, back : HoldId \cup {Null}]

WaitState ==
    [state : {"loading", "found", "missing"}, tries : Nat, status : Status \cup {Null}]

PriceCall == [kind : {"card", "quote"}, ask : Ask, about : {Null},
              ans : (0..MaxTerms) \cup {Null, Lost}, live : {TRUE}]

NightsCall == [kind : {"nights"}, ask : Ask, about : {Null},
               ans : {TRUE, FALSE, Null, Lost}, live : {TRUE}]

HoldCall == [kind : {"hold", "orphan"}, ask : Ask, about : Quote \cup {Null},
             ans : HoldId \cup {Null, Lost, Gone}, live : BOOLEAN]

AbandonCall == [kind : {"abandon"}, ask : Ask, about : HoldId, ans : {Null}, live : {TRUE}]

PollCall == [kind : {"poll"}, ask : {Null}, about : HoldId,
             ans : Status \cup {Null, Lost}, live : {TRUE}]

CallOK(c) ==
    \/ c.kind \in {"card", "quote"} /\ c \in PriceCall
    \/ c.kind = "nights" /\ c \in NightsCall
    \/ c.kind \in {"hold", "orphan"} /\ c \in HoldCall
    \/ c.kind = "abandon" /\ c \in AbandonCall
    \/ c.kind = "poll" /\ c \in PollCall

Made(h) == row[h].status # "NONE"

\* A call about a booking, or answered with one, is about one that was made.
CallRefers(c) ==
    /\ c.kind \in {"abandon", "poll"} => Made(c.about)
    /\ c.kind = "poll" => at # Null
    /\ c.kind \in {"hold", "orphan"} /\ c.ans \in HoldId => Made(c.ans)

\* The pages hold requests and quotes of the right shape, calls and pages refer
\* to bookings that were made, a price is on the page before it can be paid, and
\* what is recorded was paid.
TypeOK ==
    /\ terms \in 0..MaxTerms
    /\ sold \subseteq Stay
    /\ row \in [HoldId -> Row]
    /\ \A h \in HoldId : (Made(h) => row[h].ask \in Ask) /\ (row[h].recorded => row[h].paid)
    /\ \A c \in calls : CallOK(c) /\ CallRefers(c)
    /\ page \in {"card", "checkout", "stripe", "confirmation"}
    /\ card \in CardState
    /\ checkout \in CheckoutState
    /\ page = "checkout" => checkout.url \in Ask
    /\ checkout.open => checkout.quote # Null
    /\ checkout.back # Null => Made(checkout.back)
    /\ wait \in WaitState
    /\ at \in HoldId \cup {Null}
    /\ at # Null => Made(at)
    /\ page \in {"stripe", "confirmation"} => at # Null
    /\ clicks \in 0..MaxClicks

\* However the answers of successive quotes overtake each other, a price one can
\* click "Reserve" on is for the dates and the heads on the card.  (Not for the
\* animals on it, which the effect does not watch.)
CardPriceIsForTheDates ==
    page = "card" /\ CanReserve
        => /\ card.quote.ask.stay = card.stay
           /\ card.quote.ask.adults = card.adults

\* Once no price is on its way, the one at the checkout is for the dates and the
\* party of its address and for the extras chosen there.
CheckoutPriceIsForTheStay ==
    page = "checkout" /\ ~Repricing
        => /\ checkout.quote # Null
           /\ checkout.quote.ask = CheckoutAsk(checkout)

\* "The figure on screen is the figure Stripe will charge": a hold clicked when
\* no newer price was on its way, at terms that have not changed since it was
\* quoted, is charged what the guest was reading.
FigureIsCharged ==
    \A h \in HoldId :
        /\ row[h].shown # Null
        /\ row[h].terms = row[h].shown.terms
        => Price([ask |-> row[h].ask, terms |-> row[h].terms]) = Price(row[h].shown)

\* No page waits for ever: the card gets its price or says it could not, the
\* checkout its price, the overlay goes away, and a guest back from paying is
\* told something, although the calls may fail and the booking never be found.
EveryPageAnswers ==
    /\ (page = "card" /\ card.stay # Null /\ card.quote = Null)
          ~> (page # "card" \/ card.stay = Null \/ card.quote # Null \/ card.failed)
    /\ (page = "checkout" /\ Repricing) ~> (page # "checkout" \/ ~Repricing)
    /\ (page = "checkout" /\ checkout.busy) ~> (page # "checkout" \/ ~checkout.busy)
    /\ (page = "confirmation" /\ wait.state = "loading")
          ~> (page # "confirmation" \/ wait.state # "loading")
=============================================================================

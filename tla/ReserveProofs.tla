--------------------------- MODULE ReserveProofs ---------------------------
(***************************************************************************)
(* What the booking pages guarantee for every number of stays, holds,      *)
(* calls and clicks.                                                       *)
(*                                                                         *)
(* The properties of the pages are not inductive: an answer changes a page *)
(* long after its question was asked.  The trails say what is true of      *)
(* every call while it is under way.                                       *)
(***************************************************************************)
EXTENDS Reserve, TLAPS

LEMMA Values ==
  /\ Null \notin Stay /\ Null \notin Ask /\ Null \notin Quote
  /\ Null \notin HoldId /\ Lost \notin HoldId /\ Gone \notin HoldId
  /\ Null # Lost /\ Null # Gone /\ Lost # Gone
  /\ Link \subseteq Ask
  /\ 0 \in 0..MaxTerms /\ 1 \in 1..MaxGuests
  /\ 0 \in 0..MaxClicks
  /\ NoExtras \in Units
  /\ MaxTerms \in Nat /\ MaxClicks \in Nat /\ Polls \in Nat \ {0}
  BY ReserveAssumption DEF NoExtras, Units

\* What a page starts from.
LEMMA Blank ==
  /\ NewCard \in CardState /\ NewCard.quote = Null /\ NewCard.stay = Null
  /\ NewWait \in WaitState
  /\ Closed \in CheckoutState /\ ~Closed.open /\ Closed.back = Null
  /\ NoRow \in Row /\ NoRow.status = "NONE" /\ ~NoRow.recorded /\ NoRow.shown = Null
  BY Values DEF NewCard, NewWait, Closed, NoRow, CardState, WaitState, CheckoutState, Row

-----------------------------------------------------------------------------
(* Calls *)

\* The calls whose answers a page waits for.
PageKind == {"card", "quote", "nights", "poll"}

HoldKind == {"hold", "orphan"}

\* The same question, perhaps with an answer or without a reader by now.
Same(c, d) ==
  /\ c.ask = d.ask /\ c.about = d.about
  /\ c.kind = d.kind \/ {c.kind, d.kind} \subseteq HoldKind

\* The shape of a call, by its kind.
LEMMA Shapes ==
  ASSUME NEW c, CallOK(c)
  PROVE  /\ c.kind \in PageKind \cup HoldKind \cup {"abandon"}
         /\ c.kind \in {"card", "quote"} => c \in PriceCall
         /\ c.kind = "nights" => c \in NightsCall
         /\ c.kind \in HoldKind => c \in HoldCall
         /\ c.kind = "abandon" => c \in AbandonCall
         /\ c.kind = "poll" => c \in PollCall
  BY DEF CallOK, PageKind, HoldKind

\* A call as it is made.
LEMMA Asked ==
  /\ \A kind \in {"card", "quote", "nights"}, ask \in Ask : CallOK(Call(kind, ask, Null))
  /\ \A ask \in Ask, about \in Quote \cup {Null} : CallOK(Call("hold", ask, about))
  /\ \A ask \in Ask, h \in HoldId : CallOK(Call("abandon", ask, h))
  /\ \A h \in HoldId : CallOK(Call("poll", Null, h))
  /\ \A kind, ask, about : /\ Call(kind, ask, about).kind = kind
                           /\ Call(kind, ask, about).ask = ask
                           /\ Call(kind, ask, about).about = about
                           /\ Call(kind, ask, about).ans = Null
  BY DEF Call, CallOK, PriceCall, NightsCall, HoldCall, AbandonCall, PollCall

\* The clean-up of a page that goes.
LEMMA Unmounting ==
  ASSUME NEW cs, \A d \in cs : CallOK(d), NEW c \in Unmounted(cs)
  PROVE  \E d \in cs : /\ CallOK(c) /\ Same(c, d) /\ c.ans = d.ans /\ c.kind = d.kind
                       /\ c.kind \notin PageKind
  <1>1. PICK d \in cs : /\ d.kind \notin PageKind
                        /\ c = IF d.kind = "hold" THEN [d EXCEPT !.live = FALSE] ELSE d
    BY DEF Unmounted, Without, PageKind
  <1>2. CASE d.kind = "hold"
    <2>1. d \in HoldCall
      BY <1>2, Shapes DEF HoldKind
    <2>2. c \in HoldCall /\ c.kind = "hold" /\ c.ask = d.ask /\ c.about = d.about
          /\ c.ans = d.ans
      BY <1>1, <1>2, <2>1 DEF HoldCall
    <2> QED
      BY <1>1, <1>2, <2>2 DEF CallOK, Same
  <1>3. CASE d.kind # "hold"
    BY <1>1, <1>3 DEF Same
  <1> QED
    BY <1>2, <1>3

\* The clean-up of a page load.
LEMMA Unloading ==
  ASSUME NEW cs, \A d \in cs : CallOK(d), NEW c \in Unloaded(cs)
  PROVE  \E d \in cs : /\ CallOK(c) /\ Same(c, d) /\ c.ans = d.ans
                       /\ c.kind \notin PageKind
  <1>1. PICK e \in Unmounted(cs) :
            c = IF e.kind = "hold" THEN [e EXCEPT !.kind = "orphan"] ELSE e
    BY DEF Unloaded
  <1>2. PICK d \in cs : /\ CallOK(e) /\ Same(e, d) /\ e.ans = d.ans /\ e.kind = d.kind
                        /\ e.kind \notin PageKind
    BY Unmounting
  <1>3. CASE e.kind = "hold"
    <2>1. e \in HoldCall
      BY <1>2, <1>3, Shapes DEF HoldKind
    <2>2. c \in HoldCall /\ c.kind = "orphan" /\ c.ask = e.ask /\ c.about = e.about
          /\ c.ans = e.ans
      BY <1>1, <1>3, <2>1 DEF HoldCall
    <2> QED
      BY <1>2, <1>3, <2>2 DEF CallOK, Same, HoldKind, PageKind
  <1>4. CASE e.kind # "hold"
    BY <1>1, <1>2, <1>4
  <1> QED
    BY <1>3, <1>4

\* An answer, which leaves the question as it was.
LEMMA Answering ==
  ASSUME \A d \in calls : CallOK(d), NEW c \in calls, NEW a, Answer(c, a), NEW e \in calls',
         c.kind \notin {"abandon", "orphan"} => CallOK([c EXCEPT !.ans = a])
  PROVE  \/ e \in calls
         \/ /\ e = [c EXCEPT !.ans = a] /\ c.kind \notin {"abandon", "orphan"}
            /\ CallOK(e) /\ e.kind = c.kind /\ e.ask = c.ask /\ e.about = c.about
            /\ e.ans = a
  <1>1. CASE e \notin calls
    <2>1. e = [c EXCEPT !.ans = a] /\ c.kind \notin {"abandon", "orphan"}
      BY <1>1 DEF Answer
    <2>2. c \in PriceCall \cup NightsCall \cup HoldCall \cup AbandonCall \cup PollCall
      BY DEF CallOK
    <2>3. e.kind = c.kind /\ e.ask = c.ask /\ e.about = c.about /\ e.ans = a
      BY <2>1, <2>2 DEF PriceCall, NightsCall, HoldCall, AbandonCall, PollCall
    <2> QED
      BY <2>1, <2>3
  <1> QED
    BY <1>1

-----------------------------------------------------------------------------
(* Types *)

\* Bookings stay made, and a page that has one keeps one.
Grows == (\A h \in HoldId : Made(h) => Made(h)') /\ (at # Null => at' # Null)

\* A call that is only carried on refers to what it referred to.
LEMMA Carried ==
  ASSUME TypeOK, Grows, NEW c \in calls, NEW d, CallOK(d), Same(d, c), d.ans = c.ans
  PROVE  CallRefers(d)'
  <1>1. CallOK(c) /\ CallRefers(c)
    BY DEF TypeOK
  <1>2. CASE d.kind \in HoldKind
    <2>1. c.kind \in HoldKind
      BY <1>2 DEF Same, HoldKind
    <2>2. d.ans \in HoldId => Made(d.ans)
      BY <1>1, <2>1 DEF CallRefers, HoldKind
    <2> QED
      BY <1>2, <2>2 DEF CallRefers, Grows, HoldKind
  <1>3. CASE d.kind \notin HoldKind
    <2>1. c.kind = d.kind /\ c.about = d.about
      BY <1>3 DEF Same
    <2>2. c.kind \in {"abandon", "poll"} => c \in AbandonCall \/ c \in PollCall
      BY <1>1, Shapes
    <2>3. c.kind \in {"abandon", "poll"} => c.about \in HoldId
      BY <2>2 DEF AbandonCall, PollCall
    <2> QED
      BY <1>1, <1>3, <2>1, <2>3 DEF CallRefers, Grows, HoldKind
  <1> QED
    BY <1>2, <1>3

\* A call as it is made, to a page or for one.
LEMMA Fresh ==
  /\ \A kind \in {"card", "quote", "nights"}, ask \in Ask : CallRefers(Call(kind, ask, Null))'
  /\ \A ask, about : CallRefers(Call("hold", ask, about))'
  BY Values, Asked DEF CallRefers

LEMMA SameCall == ASSUME NEW c PROVE Same(c, c)
  BY DEF Same

\* The calls after a step.
CallsFit == \A c \in calls : CallOK(c) /\ CallRefers(c)

\* Calls dropped and asked again.
LEMMA Reasked ==
  ASSUME TypeOK, Grows, NEW effects \in SUBSET {"card", "quote", "nights"}, NEW ask \in Ask,
         \A e \in calls' : e \in calls \/ \E k \in effects : e = Call(k, ask, Null)
  PROVE  CallsFit'
  <1> SUFFICES ASSUME NEW e \in calls' PROVE CallOK(e) /\ CallRefers(e)'
    BY DEF CallsFit, CallOK, PriceCall, NightsCall, HoldCall, AbandonCall, PollCall
  <1>1. CASE e \in calls
    BY <1>1, Carried, SameCall DEF TypeOK
  <1>2. CASE \E k \in effects : e = Call(k, ask, Null)
    BY <1>2, Fresh, Asked
  <1> QED
    BY <1>1, <1>2

\* Calls kept, or taken from a page that goes.
LEMMA Kept ==
  ASSUME TypeOK, Grows, \/ calls' \subseteq calls
                        \/ calls' = Unmounted(calls)
                        \/ \E cs \in SUBSET calls : calls' = Unloaded(cs)
  PROVE  CallsFit'
  <1> SUFFICES ASSUME NEW e \in calls' PROVE CallOK(e) /\ CallRefers(e)'
    BY DEF CallsFit, CallOK, PriceCall, NightsCall, HoldCall, AbandonCall, PollCall
  <1>1. \A d \in calls : CallOK(d)
    BY DEF TypeOK
  <1>2. CASE e \in calls
    BY <1>2, Carried, SameCall DEF TypeOK
  <1>3. CASE e \in Unmounted(calls)
    BY <1>1, <1>3, Unmounting, Carried
  <1>4. CASE \E cs \in SUBSET calls : e \in Unloaded(cs)
    <2>1. PICK cs \in SUBSET calls : e \in Unloaded(cs)
      BY <1>4
    <2>2. \E d \in cs : CallOK(e) /\ Same(e, d) /\ e.ans = d.ans
      BY <1>1, <2>1, Unloading
    <2> QED
      BY <2>2, Carried
  <1> QED
    BY <1>2, <1>3, <1>4

\* The checkout opens.
LEMMA Entering ==
  ASSUME TypeOK, NEW url \in Ask, NEW back \in HoldId \cup {Null}, back # Null => Made(back),
         NEW others, \A c \in others : \E d \in calls : CallOK(c) /\ Same(c, d) /\ c.ans = d.ans,
         Enter(url, back, others)
  PROVE  /\ CallsFit'
         /\ page' = "checkout" /\ checkout' \in CheckoutState
         /\ checkout'.url = url /\ checkout'.chosen = url.units /\ ~checkout'.open
         /\ checkout'.back = back /\ checkout'.quote = Null
         /\ UNCHANGED <<server, wait, at>>
  <1>1. UNCHANGED <<server, wait, at>> /\ page' = "checkout"
    BY DEF Enter
  <1>2. Grows
    BY <1>1 DEF Grows, Made, server
  <1>3. CallsFit'
    <2> SUFFICES ASSUME NEW e \in calls' PROVE CallOK(e) /\ CallRefers(e)'
      BY DEF CallsFit, CallOK, PriceCall, NightsCall, HoldCall, AbandonCall, PollCall
    <2>1. CASE e \in others
      BY <1>2, <2>1, Carried
    <2>2. CASE e = Call("quote", url, Null) \/ e = Call("nights", url, Null)
      BY <2>2, Fresh, Asked
    <2>3. CASE back # Null /\ e = Call("abandon", url, back)
      <3>1. CallOK(e) /\ e.kind = "abandon" /\ e.about = back /\ e.ans = Null
        BY <2>3, Asked
      <3> QED
        BY <1>1, <2>3, <3>1 DEF CallRefers, Made, server
    <2> QED
      BY <2>1, <2>2, <2>3 DEF Enter
  <1>4. url.units \in Units
    BY DEF Ask
  <1>5. /\ checkout' \in CheckoutState
        /\ checkout'.url = url /\ checkout'.chosen = url.units /\ ~checkout'.open
        /\ checkout'.back = back /\ checkout'.quote = Null
    BY <1>4 DEF Enter, Closed, CheckoutState
  <1> QED
    BY <1>1, <1>3, <1>5

LEMMA Clicking == ASSUME TypeOK, Click PROVE clicks' \in 0..MaxClicks
  BY Values DEF TypeOK, Click

\* What a price is asked for on the card.
LEMMA CardAsking ==
  ASSUME NEW c \in CardState, c.stay # Null
  PROVE  /\ CardAsk(c) \in Ask
         /\ CardAsk(c).stay = c.stay /\ CardAsk(c).adults = c.adults
  BY DEF CardState, CardAsk, Ask, Units

LEMMA CardRepriced ==
  ASSUME TypeOK, Grows, NEW c \in CardState, Repriced(c)
  PROVE  card' \in CardState /\ CallsFit'
  <1>1. card' \in CardState
    BY Values DEF Repriced, CardState
  <1>2. CASE c.stay = Null
    BY <1>1, <1>2, Kept DEF Repriced, Without
  <1>3. CASE c.stay # Null
    <2>1. \A e \in calls' : e \in calls \/ \E k \in {"card"} : e = Call(k, CardAsk(c), Null)
      BY <1>3 DEF Repriced, Without
    <2> QED
      BY <1>1, <1>3, <2>1, CardAsking, Reasked
  <1> QED
    BY <1>1, <1>2, <1>3

LEMMA CardTypes ==
  ASSUME TypeOK,
         \/ \E s \in Stay : PickStay(s)
         \/ StartAgain
         \/ \E n \in 1..MaxGuests : SetAdults(n)
         \/ \E n \in 0..1 : SetPets(n)
  PROVE  TypeOK'
  <1>1. OnCard /\ Click
    BY DEF PickStay, StartAgain, SetAdults, SetPets
  <1>2. Grows
    BY <1>1 DEF Grows, Made, OnCard, server
  <1>3. card' \in CardState /\ CallsFit'
    <2>1. CASE \E s \in Stay : PickStay(s)
      <3>1. PICK s \in Stay : Repriced([card EXCEPT !.stay = s])
        BY <2>1 DEF PickStay
      <3>2. [card EXCEPT !.stay = s] \in CardState
        BY DEF TypeOK, CardState
      <3> QED
        BY <1>2, <3>1, <3>2, CardRepriced
    <2>2. CASE StartAgain
      <3>1. [card EXCEPT !.stay = Null] \in CardState
        BY DEF TypeOK, CardState
      <3> QED
        BY <1>2, <2>2, <3>1, CardRepriced DEF StartAgain
    <2>3. CASE \E n \in 1..MaxGuests : SetAdults(n)
      <3>1. PICK n \in 1..MaxGuests : Repriced([card EXCEPT !.adults = n])
        BY <2>3 DEF SetAdults
      <3>2. [card EXCEPT !.adults = n] \in CardState
        BY DEF TypeOK, CardState
      <3> QED
        BY <1>2, <3>1, <3>2, CardRepriced
    <2>4. CASE \E n \in 0..1 : SetPets(n)
      <3>1. card' \in CardState /\ calls' = calls
        BY <2>4 DEF SetPets, TypeOK, CardState
      <3> QED
        BY <1>2, <3>1, Kept
    <2> QED
      BY <2>1, <2>2, <2>3, <2>4
  <1>4. clicks' \in 0..MaxClicks
    BY <1>1, Clicking
  <1> QED
    BY <1>1, <1>3, <1>4 DEF TypeOK, OnCard, server, CallsFit, Made, CallOK, CallRefers,
       PriceCall, NightsCall, HoldCall, AbandonCall, PollCall

LEMMA CheckoutRepriced ==
  ASSUME TypeOK, Grows, NEW c \in CheckoutState, c.url \in Ask,
         NEW effects \in SUBSET {"quote", "nights"}, RepricedCheckout(c, effects)
  PROVE  checkout' = c /\ CallsFit'
  <1>1. CheckoutAsk(c) \in Ask
    BY DEF CheckoutAsk, CheckoutState, Ask
  <1>2. \A e \in calls' : e \in calls \/ \E k \in effects : e = Call(k, CheckoutAsk(c), Null)
    BY DEF RepricedCheckout, Without
  <1> QED
    BY <1>1, <1>2, Reasked DEF RepricedCheckout

\* What an edit of the checkout leaves as it was.
LEMMA EditTypes ==
  ASSUME TypeOK, OnCheckout, clicks' \in 0..MaxClicks, CallsFit',
         checkout' \in CheckoutState, checkout'.url \in Ask,
         checkout'.open => checkout'.quote # Null,
         checkout'.back # Null => Made(checkout'.back)
  PROVE  TypeOK'
  BY DEF TypeOK, OnCheckout, server, CallsFit, Made, CallOK, CallRefers,
     PriceCall, NightsCall, HoldCall, AbandonCall, PollCall

LEMMA CheckoutTypes ==
  ASSUME TypeOK,
         \/ CleanUrl \/ OpenDialog \/ CloseDialog
         \/ \E s \in Stay : EditDates(s)
         \/ \E n \in 1..MaxGuests, p \in 0..1 : EditGuests(n, p)
         \/ \E n \in 0..1 : ChooseExtras(n)
  PROVE  TypeOK'
  <1>1. OnCheckout /\ clicks' \in 0..MaxClicks
    BY Clicking
    DEF TypeOK, CleanUrl, OpenDialog, CloseDialog, EditDates, EditGuests, ChooseExtras
  <1>2. Grows
    BY <1>1 DEF Grows, Made, OnCheckout, server
  <1>3. /\ checkout \in CheckoutState /\ checkout.url \in Ask
        /\ checkout.open => checkout.quote # Null
        /\ checkout.back # Null => Made(checkout.back)
    BY <1>1 DEF TypeOK, OnCheckout
  <1>4. CASE CleanUrl
    <2> DEFINE c == [checkout EXCEPT !.back = Null]
    <2>1. c \in CheckoutState /\ c.url \in Ask /\ c.back = Null /\ c.open = checkout.open
          /\ c.quote = checkout.quote
      BY <1>3 DEF CheckoutState
    <2>2. checkout' = c /\ CallsFit'
      <3> HIDE DEF c
      <3>1. RepricedCheckout(c, {"quote", "nights"})
        BY <1>4 DEF CleanUrl, c
      <3> QED
        BY <1>2, <2>1, <3>1, CheckoutRepriced
    <2> QED
      BY <1>1, <1>3, <2>1, <2>2, EditTypes
  <1>5. CASE \E s \in Stay : EditDates(s)
    <2>1. PICK s \in Stay : EditDates(s)
      BY <1>5
    <2> DEFINE c == [checkout EXCEPT !.url.stay = s]
    <2>2. c \in CheckoutState /\ c.url \in Ask /\ c.back = checkout.back
          /\ c.open = checkout.open /\ c.quote = checkout.quote
      BY <1>3 DEF CheckoutState, Ask
    <2>3. checkout' = c /\ CallsFit'
      <3> HIDE DEF c
      <3>1. RepricedCheckout(c, {"quote", "nights"})
        BY <2>1 DEF EditDates, c
      <3> QED
        BY <1>2, <2>2, <3>1, CheckoutRepriced
    <2> QED
      BY <1>1, <1>3, <2>2, <2>3, EditTypes
  <1>6. CASE \E n \in 1..MaxGuests, p \in 0..1 : EditGuests(n, p)
    <2>1. PICK n \in 1..MaxGuests, p \in 0..1 : EditGuests(n, p)
      BY <1>6
    <2> DEFINE c == [checkout EXCEPT !.url.adults = n, !.url.pets = p]
    <2>2. c \in CheckoutState /\ c.url \in Ask /\ c.back = checkout.back
          /\ c.open = checkout.open /\ c.quote = checkout.quote
      BY <1>3 DEF CheckoutState, Ask
    <2>3. checkout' = c /\ CallsFit'
      <3> HIDE DEF c
      <3>1. RepricedCheckout(c, {"quote", "nights"})
        BY <2>1 DEF EditGuests, c
      <3> QED
        BY <1>2, <2>2, <3>1, CheckoutRepriced
    <2> QED
      BY <1>1, <1>3, <2>2, <2>3, EditTypes
  <1>7. CASE \E n \in 0..1 : ChooseExtras(n)
    <2>1. PICK n \in 0..1 : ChooseExtras(n)
      BY <1>7
    <2> DEFINE c == [checkout EXCEPT !.chosen.pool = n]
    <2>2. c \in CheckoutState /\ c.url \in Ask /\ c.back = checkout.back
          /\ c.open = checkout.open /\ c.quote = checkout.quote
      BY <1>3 DEF CheckoutState, Units
    <2>3. checkout' = c /\ CallsFit'
      <3> HIDE DEF c
      <3>1. RepricedCheckout(c, {"quote"})
        BY <2>1 DEF ChooseExtras, c
      <3> QED
        BY <1>2, <2>2, <3>1, CheckoutRepriced
    <2> QED
      BY <1>1, <1>3, <2>2, <2>3, EditTypes
  <1>8. CASE OpenDialog \/ CloseDialog
    <2>1. /\ checkout' \in CheckoutState /\ checkout'.url = checkout.url
          /\ checkout'.back = checkout.back /\ checkout'.quote = checkout.quote
          /\ checkout'.open => checkout.quote # Null
          /\ calls' = calls
      BY <1>3, <1>8 DEF OpenDialog, CloseDialog, Editable, CheckoutState
    <2>2. CallsFit'
      BY <1>2, <2>1, Kept
    <2> QED
      BY <1>1, <1>3, <2>1, <2>2, EditTypes
  <1> QED
    BY <1>4, <1>5, <1>6, <1>7, <1>8

\* The calls that a page passes on when it goes.
LEMMA PassedOn ==
  ASSUME TypeOK, NEW cs, cs = Unmounted(calls) \/ cs = Unloaded(calls)
  PROVE  \A c \in cs : \E d \in calls : CallOK(c) /\ Same(c, d) /\ c.ans = d.ans
  BY Unmounting, Unloading DEF TypeOK

\* A stay whose checkout is opened again from the address of its booking.
LEMMA Cleared ==
  \A q \in Ask : [q EXCEPT !.pets = 0, !.units = NoExtras] \in Ask
  <1>1. \A q \in Ask : [q EXCEPT !.units = NoExtras] \in Ask
    <2>1. NoExtras \in Units
      BY Values
    <2> QED
      BY <2>1 DEF Ask
  <1>2. \A q \in Ask : [q EXCEPT !.pets = 0] \in Ask
    BY DEF Ask
  <1>3. \A q : [q EXCEPT !.pets = 0, !.units = NoExtras]
                 = [[q EXCEPT !.pets = 0] EXCEPT !.units = NoExtras]
    OBVIOUS
  <1> QED
    BY <1>1, <1>2, <1>3

LEMMA PageTypes ==
  ASSUME TypeOK, Reserve \/ TurnRound \/ Leave \/ Pay \/ \E url \in Link : OpenLink(url)
  PROVE  TypeOK'
  <1> DEFINE Opens(url, back) ==
        /\ CallsFit'
        /\ page' = "checkout" /\ checkout' \in CheckoutState
        /\ checkout'.url = url /\ checkout'.chosen = url.units /\ ~checkout'.open
        /\ checkout'.back = back /\ checkout'.quote = Null
        /\ UNCHANGED <<server, wait, at>>
  <1>1. ASSUME NEW url \in Ask, NEW back \in HoldId \cup {Null}, back # Null => Made(back),
               Opens(url, back), card' \in CardState, clicks' \in 0..MaxClicks
        PROVE  TypeOK'
    BY <1>1 DEF TypeOK, server, CallsFit, Made, CallOK, CallRefers,
       PriceCall, NightsCall, HoldCall, AbandonCall, PollCall
  <1>2. CASE Reserve
    <2>1. card.quote.ask \in Ask
      BY <1>2, Values DEF TypeOK, Reserve, CanReserve, CardState, Quote
    <2>2. Opens(card.quote.ask, Null)
      <3>1. Enter(card.quote.ask, Null, Unmounted(calls))
        BY <1>2 DEF Reserve
      <3> QED
        BY <2>1, <3>1, PassedOn, Entering
    <2>3. card' \in CardState /\ clicks' \in 0..MaxClicks
      BY <1>2, Blank DEF Reserve, TypeOK
    <2> QED
      BY <1>1, <2>1, <2>2, <2>3
  <1>3. CASE \E url \in Link : OpenLink(url)
    <2>1. PICK url \in Link : OpenLink(url)
      BY <1>3
    <2>2. url \in Ask
      BY Values
    <2>3. Opens(url, Null)
      <3>1. Enter(url, Null, Unloaded(calls))
        BY <2>1 DEF OpenLink
      <3> QED
        BY <2>2, <3>1, PassedOn, Entering
    <2>4. card' \in CardState /\ clicks' \in 0..MaxClicks
      BY <2>1, Blank, Clicking DEF OpenLink
    <2> QED
      BY <1>1, <2>2, <2>3, <2>4
  <1>4. CASE TurnRound
    <2> DEFINE url == [row[at].ask EXCEPT !.pets = 0, !.units = NoExtras]
    <2>1. at \in HoldId /\ Made(at) /\ row[at].ask \in Ask
      BY <1>4, Values DEF TurnRound, TypeOK
    <2>2. url \in Ask
      BY <2>1, Cleared
    <2>3. Opens(url, at)
      <3>1. Enter(url, at, Unloaded(calls))
        BY <1>4 DEF TurnRound
      <3> HIDE DEF url
      <3> QED
        BY <2>1, <2>2, <3>1, PassedOn, Entering
    <2>4. card' \in CardState /\ clicks' \in 0..MaxClicks
      BY <1>4, Clicking DEF TurnRound, TypeOK
    <2> HIDE DEF url
    <2> QED
      BY <1>1, <2>1, <2>2, <2>3, <2>4
  <1>5. CASE Leave
    <2>1. Grows
      BY <1>5 DEF Leave, Grows, Made, server
    <2>2. CallsFit'
      BY <1>5, <2>1, Kept DEF Leave
    <2>3. clicks' \in 0..MaxClicks
      BY <1>5, Clicking DEF Leave
    <2> QED
      BY <1>5, <2>2, <2>3, Blank DEF TypeOK, Leave, GoHome, server, CallsFit, Made, CallOK,
         CallRefers, PriceCall, NightsCall, HoldCall, AbandonCall, PollCall
  <1>6. CASE Pay
    <2>1. at \in HoldId /\ Made(at)
      BY <1>6, Values DEF Pay, TypeOK
    <2>2. row' \in [HoldId -> Row]
      BY <1>6, <2>1 DEF Pay, TypeOK, Row
    <2>3. \A h \in HoldId : /\ row'[h].status = row[h].status /\ row'[h].ask = row[h].ask
                            /\ row'[h].recorded = row[h].recorded
                            /\ row[h].paid => row'[h].paid
      BY <1>6, <2>1 DEF Pay, TypeOK, Row
    <2>4. Grows
      BY <1>6, <2>3 DEF Pay, Grows, Made
    <2>5. CallsFit'
      <3> SUFFICES ASSUME NEW e \in calls' PROVE CallOK(e) /\ CallRefers(e)'
        BY DEF CallsFit, CallOK, PriceCall, NightsCall, HoldCall, AbandonCall, PollCall
      <3>1. CASE e \in Unloaded(calls)
        BY <2>4, <3>1, PassedOn, Carried
      <3>2. CASE e = Call("poll", Null, at)
        <4>1. CallOK(e) /\ e.kind = "poll" /\ e.about = at /\ e.ans = Null
          BY <2>1, <3>2, Asked
        <4>2. at' = at
          BY <1>6 DEF Pay
        <4> QED
          BY <2>1, <2>4, <4>1, <4>2, Values DEF CallRefers, Grows
      <3> QED
        BY <1>6, <3>1, <3>2 DEF Pay
    <2>6. \A h \in HoldId : (Made(h)' => row'[h].ask \in Ask)
                            /\ (row'[h].recorded => row'[h].paid)
      BY <2>3 DEF TypeOK, Made
    <2>7. /\ UNCHANGED <<terms, sold, card, checkout, at, clicks>> /\ page' = "confirmation"
          /\ wait' \in WaitState
      BY <1>6, Blank DEF Pay
    <2>8. Made(at)' /\ (checkout.back # Null => Made(checkout.back)')
      BY <2>1, <2>4, <2>7 DEF Grows, TypeOK, CheckoutState
    <2>9. \A e \in calls' : CallOK(e)' /\ CallRefers(e)'
      BY <2>5 DEF CallsFit
    <2>10. /\ terms' \in 0..MaxTerms /\ sold' \subseteq Stay
           /\ card' \in CardState /\ checkout' \in CheckoutState
           /\ checkout'.open => checkout'.quote # Null
           /\ at' \in HoldId /\ clicks' \in 0..MaxClicks
      BY <2>1, <2>7 DEF TypeOK
    <2>11. Made(at)' /\ (checkout.back # Null => Made(checkout.back))'
      BY <2>7, <2>8 DEF Made
    <2> QED
      BY <2>2, <2>6, <2>7, <2>9, <2>10, <2>11, Values DEF TypeOK
  <1> QED
    BY <1>2, <1>3, <1>4, <1>5, <1>6

\* What the server does leaves the pages as they are.
LEMMA ServerTypes ==
  ASSUME TypeOK, Grows, CallsFit', UNCHANGED Browser,
         terms' \in 0..MaxTerms, sold' \subseteq Stay, row' \in [HoldId -> Row],
         \A h \in HoldId : (Made(h)' => row'[h].ask \in Ask) /\ (row'[h].recorded => row'[h].paid)
  PROVE  TypeOK'
  <1>1. /\ page' = page /\ card' = card /\ checkout' = checkout /\ wait' = wait
        /\ at' = at /\ clicks' = clicks
    BY DEF Browser
  <1>2. at' # Null => Made(at)'
    BY <1>1 DEF TypeOK, Grows
  <1>3. (checkout.back # Null => Made(checkout.back))'
    <2>1. checkout.back # Null => checkout.back \in HoldId /\ Made(checkout.back)
      BY DEF TypeOK, CheckoutState
    <2> QED
      BY <1>1, <2>1 DEF Grows, Made
  <1>4. \A e \in calls' : CallOK(e)' /\ CallRefers(e)'
    BY DEF CallsFit
  <1> QED
    BY <1>1, <1>2, <1>3, <1>4 DEF TypeOK

LEMMA Answered ==
  ASSUME TypeOK, Grows, NEW c \in calls, NEW a, Answer(c, a),
         c.kind \notin {"abandon", "orphan"} => CallOK([c EXCEPT !.ans = a]),
         c.kind = "hold" /\ a \in HoldId => Made(a)'
  PROVE  CallsFit'
  <1> SUFFICES ASSUME NEW e \in calls' PROVE CallOK(e) /\ CallRefers(e)'
    BY DEF CallsFit, CallOK, PriceCall, NightsCall, HoldCall, AbandonCall, PollCall
  <1>1. \A d \in calls : CallOK(d) /\ CallRefers(d)
    BY DEF TypeOK
  <1>2. CASE e \in calls
    BY <1>1, <1>2, Carried, SameCall
  <1>3. CASE /\ CallOK(e) /\ e.kind = c.kind /\ e.about = c.about /\ e.ans = a
             /\ c.kind \notin {"abandon", "orphan"}
    <2>1. c.kind = "poll" => c \in PollCall
      BY <1>1, Shapes
    <2>2. c.kind = "poll" => c.about \in HoldId
      BY <2>1 DEF PollCall
    <2> QED
      BY <1>1, <1>3, <2>2 DEF CallRefers, Grows
  <1> QED
    BY <1>1, <1>2, <1>3, Answering

\* What recording leaves.
LEMMA Recording ==
  ASSUME TypeOK, NEW h \in HoldId
  PROVE  /\ Recorded(h) \in Row /\ Recorded(h).ask = row[h].ask
         /\ Recorded(h).recorded => Recorded(h).paid
         /\ row[h].status # "NONE" => Recorded(h).status # "NONE"
         /\ Recorded(h).recorded => Recorded(h).status \in Status \cup {"NONE"}
  <1>1. row[h] \in Row /\ (row[h].recorded => row[h].paid)
    BY DEF TypeOK
  <1>2. \A r \in Row : [r EXCEPT !.status = "CONFIRMED", !.recorded = TRUE] \in Row
    BY DEF Row, Status
  <1>3. Recorded(h) \in Row
    BY <1>1, <1>2 DEF Recorded
  <1>4. Recorded(h) = row[h] \/ (row[h].paid /\ Recorded(h) = [row[h] EXCEPT !.status = "CONFIRMED", !.recorded = TRUE])
    BY DEF Recorded
  <1> QED
    BY <1>1, <1>3, <1>4 DEF Row

\* One row changes to another that was made.
LEMMA RowTypes ==
  ASSUME TypeOK, NEW h \in HoldId, NEW r \in Row, r.status # "NONE", r.ask \in Ask,
         r.recorded => r.paid, row' = [row EXCEPT ![h] = r], at' = at
  PROVE  /\ Grows /\ row' \in [HoldId -> Row] /\ Made(h)'
         /\ \A g \in HoldId : /\ Made(g)' => row'[g].ask \in Ask
                              /\ row'[g].recorded => row'[g].paid
  <1>1. row' \in [HoldId -> Row]
    BY DEF TypeOK
  <1>2. \A g \in HoldId : row'[g] = IF g = h THEN r ELSE row[g]
    BY DEF TypeOK
  <1> QED
    BY <1>1, <1>2 DEF Grows, Made, TypeOK

LEMMA ApiTypes ==
  ASSUME TypeOK, NEW c \in calls, Api(c)
  PROVE  TypeOK'
  <1>1. CallOK(c) /\ CallRefers(c)
    BY DEF TypeOK
  <1>2. ASSUME UNCHANGED <<server, Browser>>, NEW a, Answer(c, a), a \notin HoldId,
               c.kind \notin {"abandon", "orphan"} => CallOK([c EXCEPT !.ans = a])
        PROVE  TypeOK'
    <2>1. Grows
      BY <1>2 DEF Grows, Made, server, Browser
    <2>2. CallsFit'
      BY <1>2, <2>1, Answered
    <2> QED
      BY <1>2, <2>1, <2>2, ServerTypes DEF server, TypeOK, Made
  <1>3. CASE AnswerQuote(c)
    <2>1. c \in PriceCall /\ c.kind \in {"card", "quote"}
      BY <1>1, <1>3, Shapes DEF AnswerQuote, Unanswered
    <2>2. [c EXCEPT !.ans = terms] \in PriceCall
          /\ [c EXCEPT !.ans = terms].kind \in {"card", "quote"}
      BY <2>1 DEF PriceCall, TypeOK
    <2>3. CallOK([c EXCEPT !.ans = terms])
      BY <2>2 DEF CallOK
    <2>4. \A a : a \in HoldId => c.kind # "hold"
      BY <2>1
    <2>5. Grows
      BY <1>3 DEF AnswerQuote, Grows, Made, server, Browser
    <2>6. CallsFit'
      BY <1>3, <2>1, <2>3, <2>5, Answered DEF AnswerQuote
    <2> QED
      BY <1>3, <2>5, <2>6, ServerTypes DEF AnswerQuote, server, TypeOK, Made
  <1>4. CASE AnswerNights(c)
    <2>1. c \in NightsCall /\ c.kind = "nights"
      BY <1>1, <1>4, Shapes DEF AnswerNights, Unanswered
    <2> DEFINE a == ~Free(c.ask.stay)
    <2>2. a \in BOOLEAN
      BY DEF Free
    <2>3. [c EXCEPT !.ans = a] \in NightsCall /\ [c EXCEPT !.ans = a].kind = "nights"
      <3> HIDE DEF a
      <3> QED
        BY <2>1, <2>2 DEF NightsCall
    <2>4. CallOK([c EXCEPT !.ans = a])
      BY <2>3 DEF CallOK
    <2>5. Grows
      BY <1>4 DEF AnswerNights, Grows, Made, server, Browser
    <2>6. Answer(c, a)
      BY <1>4 DEF AnswerNights
    <2>7. CallsFit'
      <3> HIDE DEF a
      <3> QED
        BY <2>1, <2>4, <2>5, <2>6, Answered
    <2> QED
      BY <1>4, <2>5, <2>7, ServerTypes DEF AnswerNights, server, TypeOK, Made
  <1>5. CASE AnswerHold(c)
    <2>1. c \in HoldCall
      BY <1>1, <1>5, Shapes DEF AnswerHold, Unanswered, HoldKind
    <2>2. PICK h \in HoldId :
            /\ row' = [row EXCEPT ![h] = [NoRow EXCEPT !.status = "PENDING", !.ask = c.ask,
                                                        !.terms = terms, !.shown = c.about]]
            /\ \E a \in {h, Lost} : Answer(c, a)
      BY <1>5 DEF AnswerHold
    <2> DEFINE r == [NoRow EXCEPT !.status = "PENDING", !.ask = c.ask,
                                  !.terms = terms, !.shown = c.about]
    <2>3. /\ r \in Row /\ r.status # "NONE" /\ r.ask \in Ask /\ (r.recorded => r.paid)
      BY <2>1, Values DEF NoRow, Row, Status, HoldCall, TypeOK
    <2>4. /\ UNCHANGED <<terms, sold>> /\ UNCHANGED Browser /\ at' = at
      BY <1>5 DEF AnswerHold, Browser
    <2>5. /\ Grows /\ row' \in [HoldId -> Row] /\ Made(h)'
          /\ \A g \in HoldId : /\ Made(g)' => row'[g].ask \in Ask
                               /\ row'[g].recorded => row'[g].paid
      <3>1. row' = [row EXCEPT ![h] = r]
        BY <2>2
      <3> HIDE DEF r
      <3> QED
        BY <2>3, <2>4, <3>1, RowTypes
    <2>6. PICK a \in {h, Lost} : Answer(c, a)
      BY <2>2
    <2>7. c.kind = "hold" => CallOK([c EXCEPT !.ans = a])
      <3>1. [c EXCEPT !.ans = a] \in HoldCall /\ [c EXCEPT !.ans = a].kind = c.kind
        BY <2>1, <2>6 DEF HoldCall
      <3> QED
        BY <2>1, <3>1 DEF CallOK, HoldCall
    <2>8. c.kind \in {"hold", "orphan"}
      BY <2>1 DEF HoldCall
    <2>9. CallsFit'
      BY <2>5, <2>6, <2>7, <2>8, Values, Answered
    <2> QED
      BY <2>4, <2>5, <2>9, ServerTypes DEF TypeOK
  <1>6. CASE RefuseHold(c)
    <2>1. c \in HoldCall
      BY <1>1, <1>6, Shapes DEF RefuseHold, Unanswered, HoldKind
    <2>2. [c EXCEPT !.ans = Gone] \in HoldCall /\ [c EXCEPT !.ans = Gone].kind = c.kind
      BY <2>1 DEF HoldCall
    <2>3. c.kind \in {"hold", "orphan"} /\ CallOK([c EXCEPT !.ans = Gone])
      BY <2>1, <2>2 DEF HoldCall, CallOK
    <2> QED
      BY <1>2, <1>6, <2>3, Values DEF RefuseHold
  <1>7. CASE AnswerAbandon(c)
    <2>1. c \in AbandonCall /\ c.kind = "abandon"
      BY <1>1, <1>7, Shapes DEF AnswerAbandon, Unanswered
    <2>2. c.about \in HoldId /\ Made(c.about)
      BY <1>1, <2>1 DEF AbandonCall, CallRefers
    <2>3. /\ UNCHANGED <<terms, sold>> /\ UNCHANGED Browser /\ at' = at /\ Answer(c, Null)
      BY <1>7 DEF AnswerAbandon, Browser
    <2>4. /\ Grows /\ row' \in [HoldId -> Row]
          /\ \A g \in HoldId : /\ Made(g)' => row'[g].ask \in Ask
                               /\ row'[g].recorded => row'[g].paid
      <3>1. CASE row' = row
        BY <2>3, <3>1 DEF Grows, TypeOK, Made
      <3>2. CASE row' = [row EXCEPT ![c.about].status = "CANCELLED"]
        <4> DEFINE r == [row[c.about] EXCEPT !.status = "CANCELLED"]
        <4>1. r \in Row /\ r.status # "NONE" /\ r.ask \in Ask /\ (r.recorded => r.paid)
          BY <2>2 DEF TypeOK, Made, Row, Status
        <4>2. row' = [row EXCEPT ![c.about] = r]
          BY <2>2, <3>2 DEF TypeOK
        <4> HIDE DEF r
        <4> QED
          BY <2>2, <2>3, <4>1, <4>2, RowTypes
      <3> QED
        BY <1>7, <3>1, <3>2 DEF AnswerAbandon
    <2>5. CallsFit'
      BY <2>1, <2>3, <2>4, Answered
    <2> QED
      BY <2>3, <2>4, <2>5, ServerTypes DEF TypeOK
  <1>8. CASE AnswerPoll(c)
    <2>1. c \in PollCall /\ c.kind = "poll"
      BY <1>1, <1>8, Shapes DEF AnswerPoll, Unanswered
    <2>2. c.about \in HoldId /\ Made(c.about)
      BY <1>1, <2>1 DEF PollCall, CallRefers
    <2> DEFINE r == Recorded(c.about)
    <2>3. /\ r \in Row /\ r.status # "NONE" /\ r.ask \in Ask /\ (r.recorded => r.paid)
      BY <2>2, Recording DEF TypeOK, Made
    <2> DEFINE a == IF r.recorded THEN r.status ELSE Lost
    <2>4. /\ UNCHANGED <<terms, sold>> /\ UNCHANGED Browser /\ at' = at
          /\ row' = [row EXCEPT ![c.about] = r] /\ Answer(c, a)
      BY <1>8 DEF AnswerPoll, Browser
    <2>5. a \in Status \cup {Lost}
      BY <2>3 DEF Row
    <2> HIDE DEF r, a
    <2>6. /\ Grows /\ row' \in [HoldId -> Row]
          /\ \A g \in HoldId : /\ Made(g)' => row'[g].ask \in Ask
                               /\ row'[g].recorded => row'[g].paid
      BY <2>2, <2>3, <2>4, RowTypes
    <2>7. [c EXCEPT !.ans = a] \in PollCall /\ [c EXCEPT !.ans = a].kind = "poll"
      BY <2>1, <2>5 DEF PollCall
    <2>8. CallOK([c EXCEPT !.ans = a])
      BY <2>7 DEF CallOK
    <2>9. CallsFit'
      BY <2>1, <2>4, <2>6, <2>8, Answered
    <2> QED
      BY <2>4, <2>6, <2>9, ServerTypes DEF TypeOK
  <1>9. CASE Fails(c)
    <2>1. c.kind \notin {"abandon", "orphan"} => CallOK([c EXCEPT !.ans = Lost])
      <3>1. CASE c \in PriceCall
        BY <3>1 DEF PriceCall, CallOK
      <3>2. CASE c \in NightsCall
        BY <3>2 DEF NightsCall, CallOK
      <3>3. CASE c \in HoldCall
        BY <3>3 DEF HoldCall, CallOK
      <3>4. CASE c \in AbandonCall
        BY <3>4 DEF AbandonCall
      <3>5. CASE c \in PollCall
        BY <3>5 DEF PollCall, CallOK
      <3> QED
        BY <1>1, <3>1, <3>2, <3>3, <3>4, <3>5 DEF CallOK
    <2> QED
      BY <1>2, <1>9, <2>1, Values DEF Fails
  <1> QED
    BY <1>3, <1>4, <1>5, <1>6, <1>7, <1>8, <1>9 DEF Api

LEMMA StartPaymentTypes == ASSUME TypeOK, StartPayment PROVE TypeOK'
  <1>1. /\ OnCheckout /\ clicks' = clicks /\ checkout.quote \in Quote
        /\ checkout \in CheckoutState /\ checkout.url \in Ask
        /\ checkout.back # Null => Made(checkout.back)
    BY Values DEF StartPayment, TypeOK, CheckoutState, OnCheckout
  <1>2. checkout' \in CheckoutState /\ checkout'.url = checkout.url
        /\ checkout'.back = checkout.back /\ checkout'.quote = checkout.quote
    BY <1>1 DEF StartPayment, CheckoutState
  <1>3. HoldAsk \in Ask
    BY <1>1 DEF HoldAsk, CheckoutState, Quote, Ask
  <1>4. Grows
    BY <1>1 DEF Grows, Made, OnCheckout, server
  <1>5. CallsFit'
    <2> SUFFICES ASSUME NEW d \in calls' PROVE CallOK(d) /\ CallRefers(d)'
      BY DEF CallsFit, CallOK, PriceCall, NightsCall, HoldCall, AbandonCall, PollCall
    <2>1. CASE d \in calls
      BY <1>4, <2>1, Carried, SameCall DEF TypeOK
    <2>2. CASE \E ask \in Ask, about \in Quote \cup {Null} : d = Call("hold", ask, about)
      BY <2>2, Asked, Fresh
    <2> QED
      BY <1>1, <1>3, <2>1, <2>2 DEF StartPayment
  <1>6. clicks' \in 0..MaxClicks /\ checkout.quote # Null
    BY <1>1, Values DEF TypeOK
  <1> QED
    BY <1>1, <1>2, <1>5, <1>6, EditTypes

LEMMA OtherTypes ==
  ASSUME TypeOK, Others
  PROVE  TypeOK'
  <1>1. UNCHANGED Browser /\ calls' = calls /\ at' = at
    BY DEF Others, ChangeTerms, SellElsewhere, RowChanges, Browser
  <1>2. CASE ChangeTerms \/ \E s \in Stay : SellElsewhere(s)
    <2>1. terms' \in 0..MaxTerms /\ sold' \subseteq Stay /\ row' = row
      BY <1>2, Values DEF ChangeTerms, SellElsewhere, TypeOK
    <2>2. Grows
      BY <1>1, <2>1 DEF Grows, Made
    <2>3. CallsFit'
      BY <1>1, <2>2, Kept
    <2> QED
      BY <1>1, <2>1, <2>2, <2>3, ServerTypes DEF TypeOK, Made
  <1>3. CASE \E h \in HoldId : RowChanges(h)
    <2>1. PICK h \in HoldId : RowChanges(h)
      BY <1>3
    <2>2. PICK r \in {Recorded(h), [row[h] EXCEPT !.status = "CANCELLED"]} :
              row' = [row EXCEPT ![h] = r]
      BY <2>1 DEF RowChanges
    <2>3. Made(h) /\ UNCHANGED <<terms, sold>>
      BY <2>1 DEF RowChanges, Made
    <2>4. /\ r \in Row /\ r.status # "NONE" /\ r.ask \in Ask /\ (r.recorded => r.paid)
      <3>1. CASE r = Recorded(h)
        BY <2>3, <3>1, Recording DEF TypeOK, Made
      <3>2. CASE r = [row[h] EXCEPT !.status = "CANCELLED"]
        BY <2>3, <3>2 DEF TypeOK, Made, Row, Status
      <3> QED
        BY <2>2, <3>1, <3>2
    <2>5. /\ Grows /\ row' \in [HoldId -> Row]
          /\ \A g \in HoldId : /\ Made(g)' => row'[g].ask \in Ask
                               /\ row'[g].recorded => row'[g].paid
      BY <1>1, <2>2, <2>4, RowTypes
    <2>6. CallsFit'
      BY <1>1, <2>5, Kept
    <2> QED
      BY <1>1, <2>3, <2>5, <2>6, ServerTypes DEF TypeOK
  <1> QED
    BY <1>2, <1>3 DEF Others

\* What a page hears leaves the server as it is.
LEMMA PageHears ==
  ASSUME TypeOK, Grows, CallsFit', UNCHANGED server, clicks' = clicks,
         page' \in {"card", "checkout", "stripe", "confirmation"},
         card' \in CardState, checkout' \in CheckoutState, wait' \in WaitState,
         at' \in HoldId \cup {Null}, at' # Null => Made(at'),
         page' \in {"stripe", "confirmation"} => at' # Null,
         page' = "checkout" => checkout'.url \in Ask,
         checkout'.open => checkout'.quote # Null,
         checkout'.back # Null => Made(checkout'.back)
  PROVE  TypeOK'
  <1>1. \A e \in calls' : CallOK(e)' /\ CallRefers(e)'
    BY DEF CallsFit
  <1>2. /\ at' # Null => Made(at)'
        /\ (checkout.back # Null => Made(checkout.back))'
    BY DEF Made, server
  <1> QED
    BY <1>1, <1>2 DEF TypeOK, server, Made

LEMMA DeliverTypes ==
  ASSUME TypeOK, NEW c \in calls, Deliver(c)
  PROVE  TypeOK'
  <1>1. CallOK(c) /\ CallRefers(c)
    BY DEF TypeOK
  <1>2. UNCHANGED server /\ clicks' = clicks
    BY DEF Deliver, DeliverCard, DeliverQuote, DeliverNights, DeliverHold, DeliverPoll
  <1>3. ASSUME at' # Null \/ at' = at PROVE Grows
    BY <1>2, <1>3 DEF Grows, Made, server
  <1>4. CASE DeliverCard(c)
    <2>1. c \in PriceCall
      BY <1>1, <1>4, Shapes DEF DeliverCard, Delivered
    <2>2. c.ans # Lost => [ask |-> c.ask, terms |-> c.ans] \in Quote
      BY <1>4, <2>1 DEF DeliverCard, Delivered, PriceCall, Quote
    <2>3. card' \in CardState
      BY <1>4, <2>2 DEF DeliverCard, TypeOK, CardState
    <2>4. CallsFit'
      BY <1>3, <1>4, Kept DEF DeliverCard
    <2> QED
      BY <1>2, <1>3, <1>4, <2>3, <2>4, PageHears DEF DeliverCard, TypeOK
  <1>5. CASE DeliverQuote(c)
    <2>1. c \in PriceCall
      BY <1>1, <1>5, Shapes DEF DeliverQuote, Delivered
    <2>2. at' = at /\ wait' = wait /\ Grows
      BY <1>3, <1>5 DEF DeliverQuote
    <2>3. CASE c.ans = Lost
      <3>1. GoHome /\ calls' = Unmounted(calls)
        BY <1>5, <2>3 DEF DeliverQuote
      <3>2. CallsFit'
        BY <2>2, <3>1, Kept
      <3> QED
        BY <1>2, <2>2, <3>1, <3>2, Blank, PageHears DEF GoHome, TypeOK
    <2>4. CASE c.ans # Lost
      <3>1. [ask |-> c.ask, terms |-> c.ans] \in Quote
        BY <1>5, <2>1, <2>4 DEF DeliverQuote, Delivered, PriceCall, Quote
      <3>2. /\ checkout' = [checkout EXCEPT !.quote = [ask |-> c.ask, terms |-> c.ans]]
            /\ page' = page /\ card' = card /\ calls' \subseteq calls
        BY <1>5, <2>4 DEF DeliverQuote
      <3>3. /\ checkout' \in CheckoutState /\ checkout'.url = checkout.url
            /\ checkout'.back = checkout.back /\ checkout'.quote # Null
        BY <3>1, <3>2, Values DEF TypeOK, CheckoutState
      <3>4. CallsFit'
        BY <2>2, <3>2, Kept
      <3> QED
        BY <1>2, <2>2, <3>2, <3>3, <3>4, PageHears DEF TypeOK
    <2> QED
      BY <2>3, <2>4
  <1>6. CASE DeliverNights(c)
    <2>1. c \in NightsCall /\ (c.ans = TRUE) \in BOOLEAN
      BY <1>1, <1>6, Shapes DEF DeliverNights, Delivered
    <2>2. /\ checkout' \in CheckoutState /\ checkout'.url = checkout.url
          /\ checkout'.back = checkout.back /\ checkout'.quote = checkout.quote
          /\ checkout'.open = checkout.open
      BY <1>6, <2>1 DEF DeliverNights, TypeOK, CheckoutState
    <2>3. CallsFit' /\ Grows
      BY <1>3, <1>6, Kept DEF DeliverNights
    <2> QED
      BY <1>2, <1>6, <2>2, <2>3, PageHears DEF DeliverNights, TypeOK
  <1>7. CASE DeliverHold(c)
    <2>1. c \in HoldCall /\ c.kind = "hold" /\ wait' = wait
      BY <1>1, <1>7, Shapes DEF DeliverHold, Delivered, HoldKind
    <2>2. CASE c.ans \in HoldId
      <3>1. /\ page' = "stripe" /\ at' = c.ans /\ calls' = Unloaded(calls \ {c})
            /\ card' = NewCard /\ checkout' = Closed
        BY <1>7, <2>2 DEF DeliverHold
      <3>2. Made(c.ans) /\ at' # Null
        BY <1>1, <2>1, <2>2, <3>1, Values DEF CallRefers
      <3>3. CallsFit' /\ Grows
        BY <1>3, <3>1, <3>2, Kept
      <3> QED
        BY <1>2, <2>1, <2>2, <3>1, <3>2, <3>3, Blank, PageHears DEF TypeOK
    <2>3. CASE c.ans \notin HoldId
      <3>1. /\ UNCHANGED <<page, at, card>> /\ calls' \subseteq calls
            /\ \/ checkout' = [checkout EXCEPT !.open = FALSE, !.busy = FALSE,
                                               !.gone = @ \/ c.ans = Gone]
               \/ checkout' = checkout
        BY <1>7, <2>3 DEF DeliverHold
      <3>2. (c.ans = Gone) \in BOOLEAN
        OBVIOUS
      <3>3. /\ checkout' \in CheckoutState /\ checkout'.url = checkout.url
            /\ checkout'.back = checkout.back /\ checkout'.quote = checkout.quote
            /\ checkout'.open => checkout.open
        BY <3>1, <3>2 DEF TypeOK, CheckoutState
      <3>4. CallsFit' /\ Grows
        BY <1>3, <3>1, Kept
      <3> QED
        BY <1>2, <2>1, <3>1, <3>3, <3>4, PageHears DEF TypeOK
    <2> QED
      BY <2>2, <2>3
  <1>8. CASE DeliverPoll(c)
    <2>1. /\ c \in PollCall /\ c.kind = "poll" /\ at \in HoldId /\ Made(at)
      BY <1>1, <1>8, Shapes DEF DeliverPoll, Delivered, CallRefers, TypeOK
    <2>2. UNCHANGED <<page, card, checkout, at>> /\ Grows
      BY <1>3, <1>8 DEF DeliverPoll
    <2>3. wait' \in WaitState
      <3>1. CASE c.ans # Lost
        <4>1. c.ans \in Status
          BY <1>8, <2>1, <3>1 DEF DeliverPoll, Delivered, PollCall
        <4>2. wait' = [wait EXCEPT !.state = "found", !.status = c.ans]
          BY <1>8, <3>1 DEF DeliverPoll
        <4>3. wait \in WaitState
          BY DEF TypeOK
        <4> QED
          BY <4>1, <4>2, <4>3 DEF WaitState
      <3>2. CASE c.ans = Lost
        <4>1. wait \in WaitState /\ wait.tries + 1 \in Nat
          BY DEF TypeOK, WaitState
        <4>2. \/ wait' = [wait EXCEPT !.state = "missing", !.tries = wait.tries + 1]
              \/ wait' = [wait EXCEPT !.tries = wait.tries + 1]
          BY <1>8, <3>2 DEF DeliverPoll
        <4> QED
          BY <4>1, <4>2 DEF WaitState
      <3> QED
        BY <3>1, <3>2
    <2>4. CallsFit'
      <3> SUFFICES ASSUME NEW e \in calls' PROVE CallOK(e) /\ CallRefers(e)'
        BY DEF CallsFit, CallOK, PriceCall, NightsCall, HoldCall, AbandonCall, PollCall
      <3>1. CASE e \in calls
        BY <2>2, <3>1, Carried, SameCall DEF TypeOK
      <3>2. CASE e = Call("poll", Null, at)
        <4>1. CallOK(e) /\ e.kind = "poll" /\ e.about = at /\ e.ans = Null
          BY <2>1, <3>2, Asked
        <4> QED
          BY <2>1, <2>2, <4>1, Values DEF CallRefers, Grows
      <3> QED
        BY <1>8, <3>1, <3>2 DEF DeliverPoll
    <2> QED
      BY <1>2, <2>1, <2>2, <2>3, <2>4, PageHears DEF TypeOK
  <1> QED
    BY <1>4, <1>5, <1>6, <1>7, <1>8 DEF Deliver

LEMMA TypeInit == Init => TypeOK
  BY Blank, Values DEF Init, TypeOK, Made, CheckoutState

LEMMA TypeStep == ASSUME TypeOK, [Next]_vars PROVE TypeOK'
  <1>1. CASE Guest
    BY <1>1, CardTypes, CheckoutTypes, StartPaymentTypes, PageTypes DEF Guest
  <1>2. CASE UNCHANGED vars
    BY <1>2 DEF vars, TypeOK, Made, CallOK, CallRefers,
       PriceCall, NightsCall, HoldCall, AbandonCall, PollCall
  <1> QED
    BY <1>1, <1>2, CheckoutTypes, OtherTypes, ApiTypes, DeliverTypes DEF Next

\* The pages hold requests and quotes of the right shape, refer to bookings that
\* were made, and what is recorded was paid, whatever the guest clicks and
\* however late the answers come.
THEOREM TypeCorrect == Spec => []TypeOK
  BY TypeInit, TypeStep, PTL DEF Spec

-----------------------------------------------------------------------------
(* Which calls a step leaves *)

\* The steps that ask for no price and hold nothing.
Quiet ==
  \/ Leave \/ Pay \/ OpenDialog \/ CloseDialog \/ Others
  \/ \E n \in 0..1 : SetPets(n)
  \/ \E c \in calls : Api(c) \/ Deliver(c)

\* The pages go on asking for the same.
Stays ==
  /\ page' = page
  /\ card'.stay = card.stay /\ card'.adults = card.adults
  /\ checkout'.url = checkout.url /\ checkout'.chosen = checkout.chosen

\* After those the calls are some that were under way, and a page that has any
\* still asks for the same.
LEMMA Traced ==
  ASSUME TypeOK, Quiet, NEW e \in calls', e.kind # "poll"
  PROVE  \E d \in calls : /\ Same(e, d)
                          /\ e.kind \in PageKind => e.kind = d.kind /\ Stays
  <1>1. \A d \in calls : CallOK(d)
    BY DEF TypeOK
  <1>2. card \in CardState /\ checkout \in CheckoutState
    BY DEF TypeOK
  <1>3. CASE e \in calls /\ Stays
    BY <1>3, SameCall
  <1>4. CASE Leave \/ Pay
    <2>1. e \in Unmounted(calls) \/ e \in Unloaded(calls)
      BY <1>4, Asked DEF Leave, Pay
    <2> QED
      BY <1>1, <2>1, Unmounting, Unloading
  <1>5. CASE OpenDialog \/ CloseDialog \/ Others \/ \E n \in 0..1 : SetPets(n)
    <2>1. calls' = calls
      BY <1>5 DEF OpenDialog, CloseDialog, Others, ChangeTerms, SellElsewhere, RowChanges, SetPets
    <2>2. Stays
      BY <1>2, <1>5 DEF OpenDialog, CloseDialog, Others, ChangeTerms, SellElsewhere, RowChanges,
         SetPets, Stays, OnCheckout, OnCard, Browser, CardState, CheckoutState
    <2> QED
      BY <1>3, <2>1, <2>2
  <1>6. CASE \E c \in calls : Api(c)
    <2>1. PICK c \in calls : \E a : Answer(c, a)
      BY <1>6 DEF Api, AnswerQuote, AnswerNights, AnswerHold, RefuseHold, AnswerAbandon,
         AnswerPoll, Fails
    <2>2. PICK a : Answer(c, a)
      BY <2>1
    <2>3. Stays
      BY <1>6 DEF Api, AnswerQuote, AnswerNights, AnswerHold, RefuseHold, AnswerAbandon,
         AnswerPoll, Fails, Stays, Browser
    <2>4. CASE e = [c EXCEPT !.ans = a]
      <3>1. c \in PriceCall \cup NightsCall \cup HoldCall \cup AbandonCall \cup PollCall
        BY <1>1 DEF CallOK
      <3>2. e.kind = c.kind /\ e.ask = c.ask /\ e.about = c.about
        BY <2>4, <3>1 DEF PriceCall, NightsCall, HoldCall, AbandonCall, PollCall
      <3> QED
        BY <2>3, <3>2 DEF Same
    <2> QED
      BY <1>3, <2>2, <2>3, <2>4 DEF Answer
  <1>7. CASE \E c \in calls : Deliver(c)
    <2>1. PICK c \in calls : Deliver(c)
      BY <1>7
    <2>2. \/ e \in calls /\ Stays
          \/ e \in Unmounted(calls)
          \/ e \in Unloaded(calls \ {c})
      <3>1. CASE DeliverCard(c) \/ DeliverNights(c) \/ DeliverPoll(c)
        <4>1. e \in calls
          BY <3>1, Asked DEF DeliverCard, DeliverNights, DeliverPoll
        <4>2. CASE DeliverCard(c)
          BY <1>2, <4>1, <4>2 DEF DeliverCard, Stays, CardState
        <4>3. CASE DeliverNights(c)
          BY <1>2, <4>1, <4>3 DEF DeliverNights, Stays, CheckoutState
        <4>4. CASE DeliverPoll(c)
          BY <4>1, <4>4 DEF DeliverPoll, Stays
        <4> QED
          BY <3>1, <4>2, <4>3, <4>4
      <3>2. CASE DeliverQuote(c)
        BY <1>2, <3>2 DEF DeliverQuote, Stays, CheckoutState
      <3>3. CASE DeliverHold(c)
        BY <1>2, <3>3 DEF DeliverHold, Stays, CheckoutState
      <3> QED
        BY <2>1, <3>1, <3>2, <3>3 DEF Deliver
    <2>3. CASE e \in Unmounted(calls)
      BY <1>1, <2>3, Unmounting
    <2>4. CASE e \in Unloaded(calls \ {c})
      <3>1. \E d \in calls \ {c} : Same(e, d) /\ e.kind \notin PageKind
        BY <1>1, <2>4, Unloading
      <3> QED
        BY <3>1
    <2> QED
      BY <1>3, <2>2, <2>3, <2>4
  <1> QED
    BY <1>4, <1>5, <1>6, <1>7 DEF Quiet

\* The other steps, by what they ask.
LEMMA Asks ==
  ASSUME TypeOK, Next, ~Quiet
  PROVE  \/ \E c \in CardState : OnCard /\ Repriced(c)
         \/ \E c \in CheckoutState, effects \in SUBSET {"quote", "nights"} :
               OnCheckout /\ RepricedCheckout(c, effects) /\ "quote" \in effects
         \/ \E url \in Ask : \E back, others :
               /\ Enter(url, back, others)
               /\ others = Unmounted(calls) \/ others = Unloaded(calls)
         \/ StartPayment
  <1> USE Values DEF TypeOK
  <1>1. CASE \E s \in Stay : PickStay(s)
    <2>1. PICK s \in Stay : OnCard /\ Repriced([card EXCEPT !.stay = s])
      BY <1>1 DEF PickStay
    <2>2. [card EXCEPT !.stay = s] \in CardState
      BY DEF CardState
    <2> QED
      BY <2>1, <2>2
  <1>2. CASE StartAgain
    <2>1. [card EXCEPT !.stay = Null] \in CardState
      BY DEF CardState
    <2> QED
      BY <1>2, <2>1 DEF StartAgain
  <1>3. CASE \E n \in 1..MaxGuests : SetAdults(n)
    <2>1. PICK n \in 1..MaxGuests : OnCard /\ Repriced([card EXCEPT !.adults = n])
      BY <1>3 DEF SetAdults
    <2>2. [card EXCEPT !.adults = n] \in CardState
      BY DEF CardState
    <2> QED
      BY <2>1, <2>2
  <1>4. CASE CleanUrl
    <2>1. [checkout EXCEPT !.back = Null] \in CheckoutState
      BY DEF CheckoutState
    <2> QED
      BY <1>4, <2>1 DEF CleanUrl
  <1>5. CASE \E s \in Stay : EditDates(s)
    <2>1. PICK s \in Stay :
            OnCheckout /\ RepricedCheckout([checkout EXCEPT !.url.stay = s], {"quote", "nights"})
      BY <1>5 DEF EditDates
    <2>2. [checkout EXCEPT !.url.stay = s] \in CheckoutState
      BY <2>1 DEF OnCheckout, CheckoutState, Ask
    <2> QED
      BY <2>1, <2>2
  <1>6. CASE \E n \in 1..MaxGuests, p \in 0..1 : EditGuests(n, p)
    <2>1. PICK n \in 1..MaxGuests, p \in 0..1 :
            /\ OnCheckout
            /\ RepricedCheckout([checkout EXCEPT !.url.adults = n, !.url.pets = p],
                                {"quote", "nights"})
      BY <1>6 DEF EditGuests
    <2>2. [checkout EXCEPT !.url.adults = n, !.url.pets = p] \in CheckoutState
      BY <2>1 DEF OnCheckout, CheckoutState, Ask
    <2> QED
      BY <2>1, <2>2
  <1>7. CASE \E n \in 0..1 : ChooseExtras(n)
    <2>1. PICK n \in 0..1 :
            OnCheckout /\ RepricedCheckout([checkout EXCEPT !.chosen.pool = n], {"quote"})
      BY <1>7 DEF ChooseExtras
    <2>2. [checkout EXCEPT !.chosen.pool = n] \in CheckoutState
      BY DEF CheckoutState, Units
    <2> QED
      BY <2>1, <2>2
  <1>8. CASE Reserve
    <2>1. card.quote.ask \in Ask
      BY <1>8 DEF Reserve, CanReserve, CardState, Quote
    <2> QED
      BY <1>8, <2>1 DEF Reserve
  <1>9. CASE TurnRound
    <2>1. row[at].ask \in Ask
      BY <1>9 DEF TurnRound
    <2>2. [row[at].ask EXCEPT !.pets = 0, !.units = NoExtras] \in Ask
      BY <2>1, Cleared
    <2> QED
      BY <1>9, <2>2 DEF TurnRound
  <1>10. CASE \E url \in Link : OpenLink(url)
    BY <1>10 DEF OpenLink
  <1> QED
    BY <1>1, <1>2, <1>3, <1>4, <1>5, <1>6, <1>7, <1>8, <1>9, <1>10 DEF Next, Guest, Quiet

-----------------------------------------------------------------------------
(* The card *)

\* A price that is on its way, or there, is for what the card shows.
CardTrail ==
  /\ \A c \in calls : c.kind = "card" => /\ page = "card" /\ card.stay # Null
                                         /\ c.ask.stay = card.stay
                                         /\ c.ask.adults = card.adults
  /\ page = "card" /\ card.quote # Null /\ ~card.pricing
        => card.quote.ask.stay = card.stay /\ card.quote.ask.adults = card.adults

LEMMA CardCalls ==
  ASSUME TypeOK, CardTrail, Next, NEW e \in calls', e.kind = "card"
  PROVE  /\ page' = "card" /\ card'.stay # Null
         /\ e.ask.stay = card'.stay /\ e.ask.adults = card'.adults
  <1>1. CASE Quiet
    <2>1. \E d \in calls : Same(e, d) /\ e.kind = d.kind /\ Stays
      BY <1>1, Traced DEF PageKind
    <2> QED
      BY <2>1 DEF Same, Stays, CardTrail
  <1>2. CASE \E c \in CardState : OnCard /\ Repriced(c)
    <2>1. PICK c \in CardState : OnCard /\ Repriced(c)
      BY <1>2
    <2>2. c.stay # Null /\ e = Call("card", CardAsk(c), Null)
      BY <2>1 DEF Repriced, Without
    <2>3. page' = "card" /\ card'.stay = c.stay /\ card'.adults = c.adults
      BY <2>1, <2>2 DEF OnCard, Repriced, CardState
    <2>4. e.ask = CardAsk(c)
      BY <2>2, Asked
    <2> QED
      BY <2>2, <2>3, <2>4, CardAsking
  <1>3. CASE \E c \in CheckoutState, effects \in SUBSET {"quote", "nights"} :
               OnCheckout /\ RepricedCheckout(c, effects)
    <2>1. e \in calls
      BY <1>3, Asked DEF RepricedCheckout, Without
    <2> QED
      BY <1>3, <2>1 DEF CardTrail, OnCheckout
  <1>4. CASE \E url, back, others : /\ Enter(url, back, others)
                                    /\ others = Unmounted(calls) \/ others = Unloaded(calls)
    <2>1. e \in Unmounted(calls) \/ e \in Unloaded(calls)
      BY <1>4, Asked DEF Enter
    <2> QED
      BY <2>1, Unmounting, Unloading DEF PageKind, TypeOK
  <1>5. CASE StartPayment
    <2>1. e \in calls
      BY <1>5, Asked DEF StartPayment
    <2> QED
      BY <1>5, <2>1 DEF CardTrail, StartPayment, OnCheckout
  <1> QED
    BY <1>1, <1>2, <1>3, <1>4, <1>5, Asks

LEMMA CardPriced ==
  ASSUME TypeOK, CardTrail, Next, page' = "card", card'.quote # Null, ~card'.pricing
  PROVE  card'.quote.ask.stay = card'.stay /\ card'.quote.ask.adults = card'.adults
  <1> USE DEF CardTrail
  <1>1. card \in CardState
    BY DEF TypeOK
  <1>2. CASE page = "card" /\ card' = card
    BY <1>2
  <1>3. card' # NewCard
    BY Blank
  <1>4. CASE \E c \in calls : DeliverCard(c)
    <2>1. PICK c \in calls : DeliverCard(c)
      BY <1>4
    <2>2. c.ask.stay = card.stay /\ c.ask.adults = card.adults
      BY <2>1 DEF DeliverCard, Delivered
    <2>3. card'.quote.ask = c.ask /\ card'.stay = card.stay /\ card'.adults = card.adults
      BY <1>1, <2>1 DEF DeliverCard, CardState
    <2> QED
      BY <2>2, <2>3
  <1>5. CASE \E n \in 0..1 : SetPets(n)
    <2>1. /\ card'.stay = card.stay /\ card'.adults = card.adults
          /\ card'.quote = card.quote /\ card'.pricing = card.pricing /\ page = "card"
      BY <1>1, <1>5 DEF SetPets, OnCard, CardState
    <2> QED
      BY <2>1
  <1>6. CASE Quiet
    <2>1. CASE Leave \/ Pay \/ OpenDialog \/ CloseDialog
      BY <1>2, <1>3, <2>1 DEF Leave, GoHome, Pay, OpenDialog, CloseDialog, OnCheckout
    <2>2. CASE Others \/ \E c \in calls : Api(c)
      BY <1>2, <2>2 DEF Others, ChangeTerms, SellElsewhere, RowChanges, Api, AnswerQuote,
         AnswerNights, AnswerHold, RefuseHold, AnswerAbandon, AnswerPoll, Fails, Browser
    <2>3. CASE \E c \in calls : DeliverQuote(c) \/ DeliverNights(c) \/ DeliverHold(c)
                                  \/ DeliverPoll(c)
      BY <1>2, <1>3, <2>3 DEF DeliverQuote, GoHome, DeliverNights, DeliverHold, DeliverPoll
    <2> QED
      BY <1>4, <1>5, <1>6, <2>1, <2>2, <2>3 DEF Quiet, Deliver
  <1>7. CASE \E c \in CardState : Repriced(c)
    BY <1>7 DEF Repriced, CardState
  <1>8. CASE OnCheckout \/ \E url, back, others : Enter(url, back, others)
    BY <1>8 DEF OnCheckout, Enter
  <1> QED
    BY <1>6, <1>7, <1>8, Asks DEF StartPayment

LEMMA CardStep == ASSUME TypeOK, CardTrail, [Next]_vars PROVE CardTrail'
  <1>1. CASE Next
    <2>1. \A e \in calls' : e.kind = "card" => /\ page' = "card" /\ card'.stay # Null
                                               /\ e.ask.stay = card'.stay
                                               /\ e.ask.adults = card'.adults
      BY <1>1, CardCalls
    <2>2. page' = "card" /\ card'.quote # Null /\ ~card'.pricing
            => card'.quote.ask.stay = card'.stay /\ card'.quote.ask.adults = card'.adults
      BY <1>1, CardPriced
    <2> QED
      BY <2>1, <2>2 DEF CardTrail
  <1>2. CASE UNCHANGED vars
    BY <1>2 DEF vars, CardTrail
  <1> QED
    BY <1>1, <1>2

\* However the answers of successive quotes overtake each other, a price one can
\* click "Reserve" on is for the dates and the heads on the card.
THEOREM CardPriceHolds == Spec => []CardPriceIsForTheDates
  <1>1. Init => CardTrail
    BY Blank DEF Init, CardTrail
  <1>2. CardTrail => CardPriceIsForTheDates
    BY DEF CardTrail, CardPriceIsForTheDates, CanReserve
  <1> QED
    BY <1>1, <1>2, CardStep, TypeCorrect, PTL DEF Spec

-----------------------------------------------------------------------------
(* The checkout *)

\* A price that is on its way, or there with none on its way, is for the address
\* and the extras of the page.
CheckoutTrail ==
  /\ \A c \in calls : c.kind = "quote" => page = "checkout" /\ c.ask = CheckoutAsk(checkout)
  /\ page = "checkout" /\ ~Repricing
        => checkout.quote # Null /\ checkout.quote.ask = CheckoutAsk(checkout)

LEMMA CheckoutCalls ==
  ASSUME TypeOK, CheckoutTrail, Next, NEW e \in calls', e.kind = "quote"
  PROVE  page' = "checkout" /\ e.ask = CheckoutAsk(checkout')
  <1>1. CASE Quiet
    <2>1. \E d \in calls : Same(e, d) /\ e.kind = d.kind /\ Stays
      BY <1>1, Traced DEF PageKind
    <2> QED
      BY <2>1 DEF Same, Stays, CheckoutTrail, CheckoutAsk
  <1>2. CASE \E c \in CardState : OnCard /\ Repriced(c)
    <2>1. e \in calls
      BY <1>2, Asked DEF Repriced, Without
    <2> QED
      BY <1>2, <2>1 DEF CheckoutTrail, OnCard
  <1>3. CASE \E c \in CheckoutState, effects \in SUBSET {"quote", "nights"} :
               OnCheckout /\ RepricedCheckout(c, effects) /\ "quote" \in effects
    <2>1. PICK c \in CheckoutState, effects \in SUBSET {"quote", "nights"} :
                 OnCheckout /\ RepricedCheckout(c, effects) /\ "quote" \in effects
      BY <1>3
    <2>2. e = Call("quote", CheckoutAsk(c), Null)
      BY <2>1, Asked DEF RepricedCheckout, Without
    <2>3. checkout' = c /\ page' = "checkout"
      BY <2>1 DEF RepricedCheckout, OnCheckout
    <2> QED
      BY <2>2, <2>3, Asked
  <1>4. CASE \E url \in Ask : \E back, others :
               /\ Enter(url, back, others)
               /\ others = Unmounted(calls) \/ others = Unloaded(calls)
    <2>1. PICK url \in Ask : \E back, others :
               /\ Enter(url, back, others)
               /\ others = Unmounted(calls) \/ others = Unloaded(calls)
      BY <1>4
    <2>2. e \notin Unmounted(calls) /\ e \notin Unloaded(calls)
      BY Unmounting, Unloading DEF PageKind, TypeOK
    <2>3. e = Call("quote", url, Null)
      BY <2>1, <2>2, Asked DEF Enter
    <2>4. page' = "checkout" /\ checkout'.url = url /\ checkout'.chosen = url.units
      BY <2>1 DEF Enter, Closed
    <2>5. [url EXCEPT !.units = url.units] = url
      BY DEF Ask
    <2> QED
      BY <2>3, <2>4, <2>5, Asked DEF CheckoutAsk
  <1>5. CASE StartPayment
    <2>1. e \in calls
      BY <1>5, Asked DEF StartPayment
    <2>2. /\ page' = page /\ checkout'.url = checkout.url
          /\ checkout'.chosen = checkout.chosen
      BY <1>5 DEF StartPayment, OnCheckout, TypeOK, CheckoutState
    <2> QED
      BY <2>1, <2>2 DEF CheckoutTrail, CheckoutAsk
  <1> QED
    BY <1>1, <1>2, <1>3, <1>4, <1>5, Asks

\* The checkout keeps its price, and a newer one under way stays under way.
PriceStays ==
  /\ page = "checkout"
  /\ checkout'.quote = checkout.quote
  /\ checkout'.url = checkout.url /\ checkout'.chosen = checkout.chosen
  /\ Repricing => Repricing'

LEMMA CheckoutQuiet ==
  ASSUME TypeOK, Quiet, page' = "checkout", ~\E c \in calls : DeliverQuote(c)
  PROVE  PriceStays
  <1>1. checkout \in CheckoutState /\ \A d \in calls : CallOK(d)
    BY DEF TypeOK
  <1>2. ASSUME page' = page, checkout' = checkout, Repricing => Repricing' PROVE PriceStays
    BY <1>2 DEF PriceStays
  <1>3. CASE Others \/ \E n \in 0..1 : SetPets(n)
    BY <1>2, <1>3 DEF Others, ChangeTerms, SellElsewhere, RowChanges, Browser, SetPets, OnCard,
       Repricing
  <1>4. CASE OpenDialog \/ CloseDialog
    BY <1>1, <1>4 DEF OpenDialog, CloseDialog, OnCheckout, CheckoutState, PriceStays, Repricing
  <1>5. CASE Leave \/ Pay
    BY <1>5 DEF Leave, GoHome, Pay
  <1>6. CASE \E c \in calls : Api(c)
    <2>1. PICK c \in calls : \E a : Answer(c, a)
      BY <1>6 DEF Api, AnswerQuote, AnswerNights, AnswerHold, RefuseHold, AnswerAbandon,
         AnswerPoll, Fails
    <2>2. PICK a : Answer(c, a)
      BY <2>1
    <2>3. [c EXCEPT !.ans = a].kind = c.kind
      BY <1>1 DEF CallOK, PriceCall, NightsCall, HoldCall, AbandonCall, PollCall
    <2>4. Repricing => Repricing'
      BY <2>2, <2>3 DEF Repricing, Answer
    <2> QED
      BY <1>2, <1>6, <2>4 DEF Api, AnswerQuote, AnswerNights, AnswerHold, RefuseHold,
         AnswerAbandon, AnswerPoll, Fails, Browser
  <1>7. CASE \E c \in calls : DeliverCard(c) \/ DeliverPoll(c)
    <2>1. PICK c \in calls : DeliverCard(c) \/ DeliverPoll(c)
      BY <1>7
    <2>2. Repricing => Repricing'
      BY <2>1 DEF Repricing, DeliverCard, DeliverPoll, Delivered
    <2> QED
      BY <1>2, <2>1, <2>2 DEF DeliverCard, DeliverPoll
  <1>8. CASE \E c \in calls : DeliverNights(c) \/ DeliverHold(c)
    <2>1. PICK c \in calls : DeliverNights(c) \/ DeliverHold(c)
      BY <1>8
    <2>2. /\ page' = page /\ calls' = calls \ {c}
          /\ \/ checkout' = checkout
             \/ checkout' = [checkout EXCEPT !.gone = @ \/ c.ans = TRUE]
             \/ checkout' = [checkout EXCEPT !.open = FALSE, !.busy = FALSE,
                                             !.gone = @ \/ c.ans = Gone]
      BY <2>1 DEF DeliverNights, DeliverHold
    <2>3. c.kind # "quote"
      BY <2>1 DEF DeliverNights, DeliverHold, Delivered
    <2>4. Repricing => Repricing'
      BY <2>2, <2>3 DEF Repricing
    <2> QED
      BY <1>1, <2>2, <2>4 DEF CheckoutState, PriceStays
  <1> QED
    BY <1>3, <1>4, <1>5, <1>6, <1>7, <1>8 DEF Quiet, Deliver

LEMMA CheckoutPriced ==
  ASSUME TypeOK, CheckoutTrail, Next, page' = "checkout", ~Repricing'
  PROVE  checkout'.quote # Null /\ checkout'.quote.ask = CheckoutAsk(checkout')
  <1>1. CASE PriceStays
    BY <1>1 DEF PriceStays, CheckoutTrail, CheckoutAsk
  <1>2. CASE \E c \in calls : DeliverQuote(c)
    <2>1. PICK c \in calls : DeliverQuote(c)
      BY <1>2
    <2>2. c \in PriceCall /\ c.ask = CheckoutAsk(checkout) /\ c.ans # Null
      BY <2>1, Shapes DEF DeliverQuote, Delivered, CheckoutTrail, TypeOK
    <2>3. c.ans # Lost /\ checkout' = [checkout EXCEPT !.quote = [ask |-> c.ask, terms |-> c.ans]]
      BY <2>1 DEF DeliverQuote, GoHome
    <2>4. [ask |-> c.ask, terms |-> c.ans] \in Quote
      BY <2>2, <2>3 DEF PriceCall, Quote
    <2>5. /\ checkout'.quote = [ask |-> c.ask, terms |-> c.ans]
          /\ checkout'.url = checkout.url /\ checkout'.chosen = checkout.chosen
      BY <2>3 DEF TypeOK, CheckoutState
    <2> QED
      BY <2>2, <2>4, <2>5, Values DEF CheckoutAsk
  <1>3. CASE Quiet
    BY <1>1, <1>2, <1>3, CheckoutQuiet
  <1>4. CASE \E c \in CardState : OnCard /\ Repriced(c)
    BY <1>4 DEF OnCard
  <1>5. CASE \E c \in CheckoutState, effects \in SUBSET {"quote", "nights"} :
               OnCheckout /\ RepricedCheckout(c, effects) /\ "quote" \in effects
    BY <1>5, Asked DEF RepricedCheckout, Repricing
  <1>6. CASE \E url, back, others : Enter(url, back, others)
    BY <1>6, Asked DEF Enter, Repricing
  <1>7. CASE StartPayment
    <2>1. PriceStays
      BY <1>7 DEF StartPayment, OnCheckout, TypeOK, CheckoutState, PriceStays, Repricing
    <2> QED
      BY <1>1, <2>1
  <1> QED
    BY <1>3, <1>4, <1>5, <1>6, <1>7, Asks

LEMMA CheckoutStep == ASSUME TypeOK, CheckoutTrail, [Next]_vars PROVE CheckoutTrail'
  <1>1. CASE Next
    <2>1. \A e \in calls' : e.kind = "quote"
            => page' = "checkout" /\ e.ask = CheckoutAsk(checkout')
      BY <1>1, CheckoutCalls
    <2>2. page' = "checkout" /\ ~Repricing'
            => checkout'.quote # Null /\ checkout'.quote.ask = CheckoutAsk(checkout')
      BY <1>1, CheckoutPriced
    <2> QED
      BY <2>1, <2>2 DEF CheckoutTrail, CheckoutAsk
  <1>2. CASE UNCHANGED vars
    BY <1>2 DEF vars, CheckoutTrail, CheckoutAsk, Repricing
  <1> QED
    BY <1>1, <1>2

\* Once no price is on its way, the one at the checkout is for the dates and the
\* party of its address and for the extras chosen there.
THEOREM CheckoutPriceHolds == Spec => []CheckoutPriceIsForTheStay
  <1>1. Init => CheckoutTrail
    BY DEF Init, CheckoutTrail
  <1>2. CheckoutTrail => CheckoutPriceIsForTheStay
    BY DEF CheckoutTrail, CheckoutPriceIsForTheStay
  <1> QED
    BY <1>1, <1>2, CheckoutStep, TypeCorrect, PTL DEF Spec

-----------------------------------------------------------------------------
(* The hold *)

\* A hold whose row will remember a price asks for what that price was for, and
\* so does the row that remembers one.
HoldTrail ==
  /\ \A c \in calls : c.kind \in HoldKind /\ c.about # Null => c.ask = c.about.ask
  /\ \A h \in HoldId : row[h].shown # Null => row[h].ask = row[h].shown.ask

LEMMA HoldCalls ==
  ASSUME TypeOK, CheckoutTrail, HoldTrail, Next, NEW e \in calls', e.kind \in HoldKind,
         e.about # Null
  PROVE  e.ask = e.about.ask
  <1>1. CASE \E d \in calls : Same(e, d)
    BY <1>1 DEF Same, HoldTrail, HoldKind
  <1>2. CASE Quiet
    BY <1>1, <1>2, Traced DEF HoldKind
  <1>3. CASE e \in calls
    BY <1>1, <1>3, SameCall
  <1>4. CASE \E c \in CardState : OnCard /\ Repriced(c)
    BY <1>3, <1>4, Asked DEF Repriced, Without, HoldKind
  <1>5. CASE \E c \in CheckoutState, effects \in SUBSET {"quote", "nights"} :
               OnCheckout /\ RepricedCheckout(c, effects)
    BY <1>3, <1>5, Asked DEF RepricedCheckout, Without, HoldKind
  <1>6. CASE \E url \in Ask : \E back, others :
               /\ Enter(url, back, others)
               /\ others = Unmounted(calls) \/ others = Unloaded(calls)
    <2>1. e \in Unmounted(calls) \/ e \in Unloaded(calls)
      BY <1>6, Asked DEF Enter, HoldKind
    <2> QED
      BY <1>1, <2>1, Unmounting, Unloading DEF TypeOK
  <1>7. CASE StartPayment
    <2>1. CASE e = Call("hold", HoldAsk, IF Repricing THEN Null ELSE checkout.quote)
      <3>1. e.ask = HoldAsk /\ e.about = checkout.quote /\ ~Repricing /\ page = "checkout"
        BY <1>7, <2>1, Asked DEF StartPayment, OnCheckout
      <3>2. checkout.quote \in Quote /\ checkout.quote.ask = [checkout.url EXCEPT !.units = checkout.chosen]
        BY <3>1 DEF CheckoutTrail, CheckoutAsk, TypeOK, CheckoutState
      <3>3. checkout.url \in Ask /\ checkout.quote.ask \in Ask
        BY <3>1, <3>2 DEF TypeOK, Quote
      <3>4. checkout.quote.ask.units = checkout.chosen
        BY <3>2, <3>3 DEF Ask
      <3>5. [checkout.quote.ask EXCEPT !.units = checkout.chosen] = checkout.quote.ask
        BY <3>3, <3>4 DEF Ask
      <3> QED
        BY <3>1, <3>5 DEF HoldAsk
    <2> QED
      BY <1>3, <1>7, <2>1 DEF StartPayment
  <1> QED
    BY <1>2, <1>4, <1>5, <1>6, <1>7, Asks

LEMMA HoldRows ==
  ASSUME TypeOK, HoldTrail, Next, NEW h \in HoldId, row'[h].shown # Null
  PROVE  row'[h].ask = row'[h].shown.ask
  <1>1. row \in [HoldId -> Row]
    BY DEF TypeOK
  <1>2. CASE row'[h].shown = row[h].shown /\ row'[h].ask = row[h].ask
    BY <1>2 DEF HoldTrail
  <1>3. CASE row' = row
    BY <1>2, <1>3
  <1>4. CASE \E c \in calls : AnswerHold(c)
    <2>1. PICK c \in calls : AnswerHold(c)
      BY <1>4
    <2>2. c \in HoldCall /\ c.kind \in HoldKind
      BY <2>1, Shapes DEF AnswerHold, Unanswered, HoldKind, TypeOK
    <2>3. PICK g \in HoldId :
            row' = [row EXCEPT ![g] = [NoRow EXCEPT !.status = "PENDING", !.ask = c.ask,
                                                    !.terms = terms, !.shown = c.about]]
      BY <2>1 DEF AnswerHold
    <2>4. CASE h = g
      <3>1. row'[h].ask = c.ask /\ row'[h].shown = c.about
        BY <1>1, <2>3, <2>4 DEF NoRow
      <3> QED
        BY <2>2, <3>1 DEF HoldTrail
    <2>5. CASE h # g
      BY <1>1, <1>2, <2>3, <2>5
    <2> QED
      BY <2>4, <2>5
  <1>5. ASSUME NEW g \in HoldId, NEW r, r.ask = row[g].ask, r.shown = row[g].shown,
               row' = [row EXCEPT ![g] = r]
        PROVE  row'[h].ask = row'[h].shown.ask
    BY <1>1, <1>2, <1>5
  <1>6. \A g \in HoldId : Recorded(g).ask = row[g].ask /\ Recorded(g).shown = row[g].shown
    BY <1>1 DEF Recorded, Row
  <1>7. CASE \E c \in calls : AnswerPoll(c)
    <2>1. PICK c \in calls : AnswerPoll(c)
      BY <1>7
    <2>2. c.about \in HoldId
      <3>1. c \in PollCall
        BY <2>1, Shapes DEF AnswerPoll, Unanswered, TypeOK
      <3> QED
        BY <3>1 DEF PollCall
    <2> QED
      BY <1>5, <1>6, <2>1, <2>2 DEF AnswerPoll
  <1>8. CASE \E c \in calls : AnswerAbandon(c)
    <2>1. PICK c \in calls : AnswerAbandon(c)
      BY <1>8
    <2>2. row' = row \/ row' = [row EXCEPT ![c.about].status = "CANCELLED"]
      BY <2>1 DEF AnswerAbandon
    <2> QED
      BY <1>1, <1>2, <1>3, <2>2 DEF Row
  <1>9. CASE \E g \in HoldId : RowChanges(g)
    <2>1. PICK g \in HoldId : RowChanges(g)
      BY <1>9
    <2>2. PICK r \in {Recorded(g), [row[g] EXCEPT !.status = "CANCELLED"]} :
             row' = [row EXCEPT ![g] = r]
      BY <2>1 DEF RowChanges
    <2>3. r.ask = row[g].ask /\ r.shown = row[g].shown
      BY <1>1, <1>6, <2>2 DEF Row
    <2> QED
      BY <1>5, <2>2, <2>3
  <1>10. CASE Pay
    <2>1. row' = [row EXCEPT ![at].paid = TRUE]
      BY <1>10 DEF Pay
    <2> QED
      BY <1>1, <1>2, <2>1 DEF Row
  <1>11. CASE ChangeTerms \/ \E s \in Stay : SellElsewhere(s)
    BY <1>3, <1>11 DEF ChangeTerms, SellElsewhere
  <1>12. CASE \E c \in calls : Deliver(c)
    BY <1>3, <1>12 DEF Deliver, DeliverCard, DeliverQuote, DeliverNights, DeliverHold,
       DeliverPoll, server
  <1>13. CASE \E c \in calls : AnswerQuote(c) \/ AnswerNights(c) \/ RefuseHold(c) \/ Fails(c)
    BY <1>3, <1>13 DEF AnswerQuote, AnswerNights, RefuseHold, Fails, server
  <1>14. CASE Guest \/ CleanUrl
    BY <1>3, <1>10, <1>14 DEF Guest, PickStay, StartAgain, SetAdults, SetPets, Reserve, OpenLink,
       CleanUrl, EditDates, EditGuests, ChooseExtras, OpenDialog, CloseDialog, StartPayment,
       Leave, TurnRound, Enter, OnCard, OnCheckout, server
  <1> QED
    BY <1>4, <1>7, <1>8, <1>9, <1>11, <1>12, <1>13, <1>14 DEF Next, Others, Api

LEMMA HoldStep == ASSUME TypeOK, CheckoutTrail, HoldTrail, [Next]_vars PROVE HoldTrail'
  <1>1. CASE Next
    BY <1>1, HoldCalls, HoldRows DEF HoldTrail
  <1>2. CASE UNCHANGED vars
    BY <1>2 DEF vars, HoldTrail
  <1> QED
    BY <1>1, <1>2

\* "The figure on screen is the figure Stripe will charge": a hold clicked when
\* no newer price was on its way, at terms that have not changed since it was
\* quoted, is charged what the guest was reading.
THEOREM ScreenIsCharged == Spec => []FigureIsCharged
  <1>1. Init => CheckoutTrail /\ HoldTrail
    BY Blank DEF Init, CheckoutTrail, HoldTrail
  <1>2. HoldTrail => FigureIsCharged
    BY DEF HoldTrail, FigureIsCharged, Price
  <1> QED
    BY <1>1, <1>2, CheckoutStep, HoldStep, TypeCorrect, PTL DEF Spec

=============================================================================

------------------------------- MODULE House -------------------------------
(***************************************************************************)
(* The host sets the terms of the house while guests ask what a stay       *)
(* costs: the price rules, the settings and the extras of one property,    *)
(* and the quote made from them.                                           *)
(*                                                                         *)
(* A panel request that reads, checks and then writes is two actions, with *)
(* what it carries in task.  One whose check cannot be undone by anybody   *)
(* else is one action.  Names and descriptions are left out.               *)
(***************************************************************************)
EXTENDS Pricing, RefundPolicy

CONSTANTS
    RuleId, ExtraId,    \* the rows a behaviour may create
    Request,            \* the panel's requests that may be in flight together
    Price,              \* the nightly rates the host may set, in cents
    Season,             \* the ranges [first, last] a HIGH rule may have
    Floor,              \* the minimum lengths a rule may ask for
    Length,             \* the values of minNights and maxNights
    ExtraKey,           \* the keys of the extras, which are not their ids
    ExtraRow,           \* the price, charge, window and offer of an extra
    Patch,              \* the updates of a price rule the host may send
    Fixed,              \* the settings no property here needs to vary
    Stay,               \* the stays that are quoted and booked
    Party, Hour         \* the parties and instants a quote is looked at with

ASSUME HouseAssumption ==
    /\ Price \subseteq Nat \ {0}
    /\ \A s \in Season : s \in [first : Int, last : Int]
    /\ \A patch \in Patch :
          patch \in [rate : Price \cup {Null}, first : Int \cup {Null},
                    last : Int \cup {Null}, minNights : Floor \cup {0, Null},
                    active : BOOLEAN \cup {Null}]
    /\ Floor \subseteq Nat \ {0} /\ Length \subseteq Nat \ {0}
    /\ Null \notin RuleId
    /\ ExtraId \cap ExtraKey = {} /\ IsFiniteSet(ExtraKey) /\ Null \notin ExtraKey
    /\ \A row \in ExtraRow :
          row \in [key : ExtraKey, price : Nat,
                  charged : {"PER_NIGHT", "PER_HOUR", "PER_STAY"},
                  from : Int \cup {Null}, to : Int \cup {Null}, active : BOOLEAN]
    /\ Fixed \in [discountPercent : 0 .. 100, discountNights : Nat,
                 maxGuests : Nat, guestFee : Nat, cleaningFee : Nat,
                 servicePercent : Nat, taxesPercent : Nat]
    /\ \A s \in Stay : s \in [in : Int, out : Int]
    /\ Party \subseteq Int /\ Hour \subseteq Int

VARIABLES
    rule,       \* the PriceRule table
    house,      \* the Property row: minNights, maxNights
    extra,      \* the Extra table
    booked,     \* the extraId column of the BookingExtra table
    task        \* what each request is in the middle of

vars == <<rule, house, extra, booked, task>>

-----------------------------------------------------------------------------
(* Rows *)

RuleType == {"LOW", "HIGH", "WEEKEND"}

\* A row that was never there, or was deleted: ids are not used twice.
NoRule(state) ==
    [type |-> state, rate |-> 0, first |-> Null, last |-> Null,
     minNights |-> 0, active |-> FALSE]

Exists(i) == rule[i].type \in RuleType

RuleRow ==
    [type : RuleType \cup {"NONE", "DELETED"}, rate : Price \cup {0},
     first : Int \cup {Null}, last : Int \cup {Null},
     minNights : Floor \cup {0}, active : BOOLEAN]

\* A slip: the bounds are looked at one by one.
AssertShapeUnordered(type, first, last) ==
    IF type = "HIGH"
    THEN first # Null /\ last # Null
    ELSE first = Null /\ last = Null

\* A dated range for HIGH and no dates for the others.
AssertShape(type, first, last) ==
    IF type = "HIGH"
    THEN first # Null /\ last # Null /\ first <= last
    ELSE first = Null /\ last = Null

\* A slip: two seasons that share one night are taken to be disjoint.
AssertNoOverlapOpen(others, first, last) ==
    \A i \in others : rule[i].type = "HIGH" =>
        ~(first < rule[i].last /\ last > rule[i].first)

\* No other season, active or not, shares a night with this range.
AssertNoOverlap(others, first, last) ==
    \A i \in others : rule[i].type = "HIGH" =>
        ~(first <= rule[i].last /\ last >= rule[i].first)

\* What getQuote reads: the settings, the active rules and active extras.
PricingInput ==
    [minNights |-> house.minNights, maxNights |-> house.maxNights,
     discountPercent |-> Fixed.discountPercent,
     discountNights |-> Fixed.discountNights, maxGuests |-> Fixed.maxGuests,
     guestFee |-> Fixed.guestFee, cleaningFee |-> Fixed.cleaningFee,
     servicePercent |-> Fixed.servicePercent,
     taxesPercent |-> Fixed.taxesPercent,
     rules |-> {rule[i] : i \in {j \in RuleId : rule[j].active}},
     extras |-> [k \in {extra[x].key : x \in {y \in ExtraId : extra[y].active}} |->
                   extra[CHOOSE x \in ExtraId : extra[x].key = k]]]

\* getQuote answers with an error, not a price, when no base rule is active.
HasBase == Of("LOW", PricingInput.rules) # {}

Quote(stay, guests, picked, units) ==
    ComputeQuote(stay, guests, picked, units, PricingInput)

\* One of each.
NoUnits == [k \in ExtraKey |-> Null]

\* What hold() goes on with, before it looks at the calendar.
Accepted(quote) ==
    HasBase /\ CheckStayLength(quote.nights, quote.minNights, house.maxNights) = "fits"

-----------------------------------------------------------------------------
(* Tasks *)

Idle == [stage |-> "idle"]

\* What a change of the settings sends: Null is a field that was not sent.
Settings == [minNights : Length \cup {Null}, maxNights : Length \cup {Null}]

Begin(p, t) == task' = [task EXCEPT ![p] = t]
End(p) == Begin(p, Idle)

\* A row with the fields that were sent.  A floor of 0 is an explicit null,
\* which clears it.
Patched(row, patch) ==
    [type |-> row.type, rate |-> Or(patch.rate, row.rate),
     first |-> Or(patch.first, row.first), last |-> Or(patch.last, row.last),
     minNights |-> Or(patch.minNights, row.minNights),
     active |-> Or(patch.active, row.active)]

NoExtra == [key |-> Null, price |-> 0, charged |-> "NONE", from |-> Null, to |-> Null, active |-> FALSE]

Init ==
    /\ \E low \in RuleId, r \in Price :
          rule = [i \in RuleId |->
                    IF i = low THEN [NoRule("LOW") EXCEPT !.rate = r, !.active = TRUE]
                    ELSE NoRule("NONE")]
    /\ house \in [minNights : Length, maxNights : Length]
    /\ house.minNights <= house.maxNights
    /\ extra = [x \in ExtraId |-> NoExtra]
    /\ booked = {}
    /\ task = [p \in Request |-> Idle]

-----------------------------------------------------------------------------
(* Price rules *)

\* createPriceRule, up to the insert.  A refusal leaves no trace.
CheckNewRule(p) ==
    /\ task[p] = Idle
    /\ \E type \in RuleType, rate \in Price, floor \in Floor \cup {0},
          s \in Season \cup {[first |-> Null, last |-> Null]}, active \in BOOLEAN :
          /\ AssertShape(type, s.first, s.last)
          /\ IF type = "HIGH"
             THEN AssertNoOverlap({i \in RuleId : Exists(i)}, s.first, s.last)
             ELSE \A i \in RuleId : rule[i].type # type
          /\ Begin(p, [stage |-> "insert",
                       row |-> [type |-> type, rate |-> rate, first |-> s.first,
                                last |-> s.last, minNights |-> floor,
                                active |-> active]])
    /\ UNCHANGED <<rule, house, extra, booked>>

InsertRule(p) ==
    /\ task[p].stage = "insert"
    /\ \E i \in RuleId : /\ rule[i].type = "NONE"
                         /\ rule' = [rule EXCEPT ![i] = task[p].row]
    /\ End(p)
    /\ UNCHANGED <<house, extra, booked>>

\* updatePriceRule, up to the update: the range is checked with the bounds it
\* was sent, or else the stored ones.
CheckRulePatch(p, i) ==
    /\ task[p] = Idle
    /\ Exists(i)
    /\ \E patch \in Patch :
          LET next == Patched(rule[i], patch) IN
          /\ AssertShape(rule[i].type, next.first, next.last)
          /\ rule[i].type = "HIGH" =>
                AssertNoOverlap({j \in RuleId : Exists(j)} \ {i}, next.first, next.last)
          /\ Begin(p, [stage |-> "update", i |-> i, patch |-> patch])
    /\ UNCHANGED <<rule, house, extra, booked>>

\* Only the fields that were sent are written.  A row that is gone by now
\* makes the statement throw (Abort).
UpdateRule(p) ==
    /\ task[p].stage = "update"
    /\ Exists(task[p].i)
    /\ rule' = [rule EXCEPT ![task[p].i] = Patched(@, task[p].patch)]
    /\ End(p)
    /\ UNCHANGED <<house, extra, booked>>

\* The base rate cannot be deleted.  A rule never changes its type.
DeletePriceRule(i) ==
    /\ Exists(i) /\ rule[i].type # "LOW"
    /\ rule' = [rule EXCEPT ![i] = NoRule("DELETED")]
    /\ UNCHANGED <<house, extra, booked, task>>

-----------------------------------------------------------------------------
(* Settings and extras *)

\* A slip: only what was sent is looked at.
CheckSettingsSentOnly(p) ==
    /\ task[p] = Idle
    /\ \E sent \in Settings :
          /\ sent.minNights # Null /\ sent.maxNights # Null
                => sent.minNights <= sent.maxNights
          /\ Begin(p, [stage |-> "settings", sent |-> sent])
    /\ UNCHANGED <<rule, house, extra, booked>>

\* updateProperty, up to the update: what is being saved, falling back to
\* what is stored.
CheckSettings(p) ==
    /\ task[p] = Idle
    /\ \E sent \in Settings :
          /\ Or(sent.minNights, house.minNights) <= Or(sent.maxNights, house.maxNights)
          /\ Begin(p, [stage |-> "settings", sent |-> sent])
    /\ UNCHANGED <<rule, house, extra, booked>>

UpdateProperty(p) ==
    /\ task[p].stage = "settings"
    /\ house' = [minNights |-> Or(task[p].sent.minNights, house.minNights),
                maxNights |-> Or(task[p].sent.maxNights, house.maxNights)]
    /\ End(p)
    /\ UNCHANGED <<rule, extra, booked>>

\* createExtra: the key is unique, in the check and in the table.
CreateExtra(x) ==
    /\ extra[x] = NoExtra
    /\ \E terms \in ExtraRow :
          /\ \A y \in ExtraId : extra[y].key # terms.key
          /\ extra' = [extra EXCEPT ![x] = terms]
    /\ UNCHANGED <<rule, house, booked, task>>

\* updateExtra, which may also offer it again, and deactivateExtra.  A row
\* keeps its key and is never deleted.
UpdateExtra(x) ==
    /\ extra[x] # NoExtra
    /\ \E terms \in ExtraRow :
          extra' = [extra EXCEPT ![x] = [terms EXCEPT !.key = extra[x].key]]
    /\ UNCHANGED <<rule, house, booked, task>>

DeactivateExtra(x) ==
    /\ extra[x] # NoExtra
    /\ extra' = [extra EXCEPT ![x].active = FALSE]
    /\ UNCHANGED <<rule, house, booked, task>>

-----------------------------------------------------------------------------
(* A stay is booked: hold() and createManual() as far as the extras go *)

\* hold(): the quote's lines carry what pricingInputFor called their id.
PriceStay(p) ==
    /\ task[p] = Idle
    /\ \E stay \in Stay, picked \in SUBSET ExtraKey :
          LET quote == Quote(stay, Null, picked, NoUnits) IN
          /\ Accepted(quote)
          /\ Begin(p, [stage |-> "book", lines |-> quote.lines])
    /\ UNCHANGED <<rule, house, extra, booked>>

\* createManual(): the host's own booking, of any length.
PriceManual(p) ==
    /\ task[p] = Idle
    /\ \E stay \in Stay, picked \in SUBSET ExtraKey :
          LET quote == Quote(stay, Null, picked, NoUnits) IN
          /\ HasBase
          /\ Begin(p, [stage |-> "book", lines |-> quote.lines])
    /\ UNCHANGED <<rule, house, extra, booked>>

\* The insert of the booking with its BookingExtra rows: the foreign key
\* wants each to name an Extra.
InsertBooking(p) ==
    /\ task[p].stage = "book"
    /\ task[p].lines \subseteq {x \in ExtraId : extra[x] # NoExtra}
    /\ booked' = booked \cup task[p].lines
    /\ End(p)
    /\ UNCHANGED <<rule, house, extra>>

\* The process stops, or the statement throws.
Abort(p) ==
    /\ task[p] # Idle
    /\ End(p)
    /\ UNCHANGED <<rule, house, extra, booked>>

Next ==
    \/ \E p \in Request :
          \/ CheckNewRule(p) \/ InsertRule(p)
          \/ UpdateRule(p) \/ CheckSettings(p) \/ UpdateProperty(p) \/ Abort(p)
          \/ PriceStay(p) \/ PriceManual(p) \/ InsertBooking(p)
          \/ \E i \in RuleId : CheckRulePatch(p, i)
    \/ \E i \in RuleId : DeletePriceRule(i)
    \/ \E x \in ExtraId : CreateExtra(x) \/ UpdateExtra(x) \/ DeactivateExtra(x)

Spec == Init /\ [][Next]_vars

-----------------------------------------------------------------------------
(* Properties.  Stays of up to a week around the seasons, the house's own    *)
(* party or two more, with every extra or none.                              *)

\* The quote of a stay with everything that is offered.
FullQuote(stay, party) == Quote(stay, party, ExtraKey, NoUnits)

\* Rows, settings and tasks are well formed, and a season that was moved one
\* bound at a time still ends no earlier than it starts (updatePriceRule).
TypeOK ==
    /\ \A i \in RuleId : /\ rule[i] \in RuleRow
                          /\ rule[i].type = "HIGH" => rule[i].first <= rule[i].last
    /\ house \in [minNights : Length, maxNights : Length]
    /\ \A x \in ExtraId : extra[x] # NoExtra =>
          \E row \in ExtraRow : \A field \in {"price", "charged", "from", "to"} :
              extra[x][field] = row[field]
    /\ \A p \in Request :
          task[p].stage \in {"idle", "insert", "update", "settings", "book"}

\* One night has one price, whatever order the database returns the rules in
\* (assertNoOverlap, and the conflict on a second LOW or WEEKEND rule).
RateIsDetermined ==
    \A s \in Stay : \A d \in Nights(s) :
        \A r, q \in Governing(d, PricingInput.rules) : r = q

\* The settings' own minimum never exceeds their maximum, though each may be
\* saved without the other (updateProperty checks a partial save against what
\* is stored).  A season's floor above the maximum is another matter.
LengthsAllowed == house.minNights <= house.maxNights

\* Leaving in the middle of a stay and coming back the same day costs the
\* same nights: no night is charged twice or not at all (nightsOf), an extra by
\* the night follows, and one charged once is charged once for each stay.
SplitStayCostsTheSame ==
    \A s \in Stay : \A m \in s.in .. s.out :
        LET a == [in |-> s.in, out |-> m]
            b == [in |-> m, out |-> s.out]
            count(x, t) == QuantityFor(extra[x], t, Null)
        IN /\ Subtotal(s, PricingInput.rules) =
                  Subtotal(a, PricingInput.rules) + Subtotal(b, PricingInput.rules)
           /\ \A x \in ExtraId :
                 IF extra[x].charged = "PER_STAY"
                 THEN count(x, a) = count(x, s) /\ count(x, b) = count(x, s)
                 ELSE count(x, s) = count(x, a) + count(x, b)

\* A refund is never negative and never more than the stay cost, and a full
\* one is every cent of it: the bill's lines that proposeRefund adds up again
\* are all of the lines computeQuote added up.
RefundWithinQuote ==
    \A s \in Stay, g \in Party :
        LET quote == FullQuote(s, g)
        IN \A policy \in Policy, now \in Hour :
              LET back == ProposeRefund(s.in, 0, policy, quote, now)
              IN /\ 0 <= back.total /\ back.total <= quote.total
                 /\ back.rate = 2 => back.total = quote.total

\* Past bookings "reference their extras through BookingExtra" (the comment of
\* deactivateExtra): what a booking is about to reference is an extra.
ChosenExtrasCanBeBooked ==
    \A p \in Request :
        task[p].stage = "book" => task[p].lines \subseteq {x \in ExtraId : extra[x] # NoExtra}
=============================================================================

------------------------------ MODULE Pricing ------------------------------
(***************************************************************************)
(* What a stay costs: the operators of packages/shared/src/pricing.ts.     *)
(*                                                                         *)
(* Amounts are cents.  Days are integers and day 0 is a Monday; a year has *)
(* Year days, so that a month-day is a day modulo Year.  Percentages are   *)
(* whole.  Labels are left out.                                            *)
(***************************************************************************)
EXTENDS Stays, FiniteSetsExt

CONSTANTS
    Year,       \* days in a year, for the windows that wrap the new year
    Null        \* SQL's null and JavaScript's undefined

ASSUME PricingAssumption == Year \in Nat \ {0} /\ Null \notin Int

-----------------------------------------------------------------------------
(* Which rule governs a night *)

\* Friday and Saturday nights.
IsWeekend(d) == d % 7 \in {4, 5}

\* Both ends of a season are days the host meant.
Within(d, rule) == rule.first <= d /\ d <= rule.last

Of(type, rules) == {r \in rules : r.type = type}

\* ruleForNight takes the first match in the order the rows were returned,
\* which nothing fixes: any rule of this set.
Governing(d, rules) ==
    LET high == {r \in Of("HIGH", rules) : Within(d, r)}
        weekend == Of("WEEKEND", rules)
    IN IF high # {} THEN high
       ELSE IF weekend # {} /\ IsWeekend(d) THEN weekend
       ELSE Of("LOW", rules)

\* No rule at all prices the night at nothing.
RateForNight(d, rules) ==
    IF Governing(d, rules) = {} THEN 0
    ELSE (CHOOSE r \in Governing(d, rules) : TRUE).rate

\* Decided by the arrival alone.  A rule without a floor of its own has 0.
MinNightsFor(arrival, rules, houseMin) ==
    IF Governing(arrival, rules) = {} THEN houseMin
    ELSE Max({houseMin, (CHOOSE r \in Governing(arrival, rules) : TRUE).minNights})

\* A stay of no nights has no problem with its length.
CheckStayLength(nights, min, max) ==
    IF nights > 0 /\ nights < min THEN "tooShort"
    ELSE IF nights > max THEN "tooLong"
    ELSE "fits"

-----------------------------------------------------------------------------
(* Extras *)

\* An extra without a window, or with half of one, is always offered.  One with
\* a window may wrap the new year.
ExtraAvailableOn(extra, d) ==
    LET m == d % Year IN
    \/ extra.from = Null \/ extra.to = Null
    \/ IF extra.from <= extra.to
       THEN extra.from <= m /\ m <= extra.to
       ELSE m >= extra.from \/ m <= extra.to

Or(value, default) == IF value = Null THEN default ELSE value

\* A slip: what is charged once is charged every night.
QuantityPerNight(extra, stay, units) ==
    CASE extra.charged = "PER_STAY" -> Or(units, 1) * Cardinality(Nights(stay))
      [] extra.charged = "PER_HOUR" -> Or(units, 0)
      [] OTHER -> Cardinality({d \in Nights(stay) : ExtraAvailableOn(extra, d)})

\* How many units of an extra a stay buys.  units is what the guest asked for.
QuantityFor(extra, stay, units) ==
    CASE extra.charged = "PER_STAY" -> Max({0, Or(units, 1)})
      [] extra.charged = "PER_HOUR" -> Max({0, Or(units, 0)})
      [] OTHER -> Cardinality({d \in Nights(stay) : ExtraAvailableOn(extra, d)})

-----------------------------------------------------------------------------
(* The quote *)

\* Math.round(amount * percent / 100), which rounds dollars.
PercentOf(amount, percent) == ((amount * percent + 5000) \div 10000) * 100

Subtotal(stay, rules) ==
    MapThenSumSet(LAMBDA d : RateForNight(d, rules), Nights(stay))

\* What a picked extra adds, and the ones that have a line: an extra that
\* costs nothing has none.
LineTotal(x, stay, units, extras) ==
    extras[x].price * QuantityFor(extras[x], stay, units[x])

Lines(stay, picked, units, extras) ==
    {x \in picked \cap DOMAIN extras : LineTotal(x, stay, units, extras) > 0}

ExtrasTotal(stay, picked, units, extras) ==
    MapThenSumSet(LAMBDA x : LineTotal(x, stay, units, extras),
                  Lines(stay, picked, units, extras))

\* Guests above the included ones pay by the night; no party means the
\* included one.
AdditionalGuestFee(guests, nights, house) ==
    Max({0, Or(guests, house.maxGuests) - house.maxGuests}) * house.guestFee * nights

\* Off the nights only.
WeeklyDiscount(subtotal, nights, house) ==
    IF nights >= house.discountNights
    THEN PercentOf(subtotal, house.discountPercent) ELSE 0

\* house is the Property row with its active rules and extras; picked is what
\* the guest chose, with units[x] of each.
ComputeQuote(stay, guests, picked, units, house) ==
    LET nights == Cardinality(Nights(stay))
        subtotal == Subtotal(stay, house.rules)
        discount == WeeklyDiscount(subtotal, nights, house)
        guestFee == AdditionalGuestFee(guests, nights, house)
        accommodation == (subtotal - discount) + guestFee
        extras == ExtrasTotal(stay, picked, units, house.extras)
        service == PercentOf(accommodation, house.servicePercent)
        taxes == PercentOf(accommodation, house.taxesPercent)
    IN [nights |-> nights,
        minNights |-> MinNightsFor(stay.in, house.rules, house.minNights),
        lines |-> Lines(stay, picked, units, house.extras),
        nightsSubtotal |-> subtotal, weeklyDiscount |-> discount,
        extrasTotal |-> extras, additionalGuestFee |-> guestFee,
        cleaningFee |-> house.cleaningFee, serviceFee |-> service,
        taxes |-> taxes,
        total |-> accommodation + extras + house.cleaningFee + service + taxes]
=============================================================================

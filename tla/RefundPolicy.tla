---------------------------- MODULE RefundPolicy ----------------------------
(***************************************************************************)
(* What a cancelled stay gets back: packages/shared/src/refund.ts and      *)
(* cancellation.ts.                                                        *)
(*                                                                         *)
(* Amounts are cents, so the code's conversions between cents and dollars  *)
(* disappear.  An instant is a number of hours; its day is a number of     *)
(* whole days, in UTC.  A rate is in halves: 0, 1 or 2.                    *)
(***************************************************************************)
EXTENDS Integers

\* No step, no grace.
Never == -1

\* full = 0 means the policy has no day up to which everything is returned.
CancellationRules ==
    [FLEXIBLE |-> [full |-> 1, half |-> Never, grace |-> Never, ahead |-> Never],
     MODERATE |-> [full |-> 5, half |-> Never, grace |-> Never, ahead |-> Never],
     FIRM     |-> [full |-> 30, half |-> 7, grace |-> Never, ahead |-> Never],
     STRICT   |-> [full |-> 0, half |-> 7, grace |-> 48, ahead |-> 14]]

Policy == DOMAIN CancellationRules

Day(hour) == hour \div 24

DaysUntilCheckIn(checkIn, now) == checkIn - Day(now)

\* The last day of a full refund, and of a half one; Never when the policy
\* has no such step.
FullRefundDeadline(checkIn, policy) ==
    IF CancellationRules[policy].full <= 0 THEN Never
    ELSE checkIn - CancellationRules[policy].full

HalfRefundDeadline(checkIn, policy) ==
    IF CancellationRules[policy].half = Never THEN Never
    ELSE checkIn - CancellationRules[policy].half

WithinGrace(policy, bookedAt, now, days) ==
    LET rule == CancellationRules[policy] IN
    /\ rule.grace # Never
    /\ now - bookedAt <= rule.grace
    /\ days >= rule.ahead

\* The rung of the ladder, in halves: the first that holds.
Rate(policy, bookedAt, now, days) ==
    LET rule == CancellationRules[policy] IN
    IF days <= 0 THEN 0
    ELSE IF \/ WithinGrace(policy, bookedAt, now, days)
            \/ rule.full > 0 /\ days >= rule.full
         THEN 2
    ELSE IF rule.half # Never /\ days >= rule.half THEN 1
    ELSE 0

\* Math.round(amount * rate).
Half(amount, rate) == (amount * rate + 1) \div 2

\* Nothing once the stay has begun, not even the cleaning.
StayStarted(days) ==
    [rate |-> 0, accommodation |-> 0, serviceFee |-> 0, cleaningFee |-> 0,
     extras |-> 0, taxes |-> 0, total |-> 0, days |-> days]

\* A slip: the fee for the guests above the included ones is forgotten.
ProposeRefundNightsOnly(checkIn, bookedAt, policy, basis, now) ==
    LET days == DaysUntilCheckIn(checkIn, now)
        rate == Rate(policy, bookedAt, now, days)
        accommodation == Half(basis.nightsSubtotal - basis.weeklyDiscount, rate)
        service == Half(basis.serviceFee, rate)
        taxes == Half(basis.taxes, rate)
    IN IF days <= 0 THEN StayStarted(days)
       ELSE [rate |-> rate, accommodation |-> accommodation,
             serviceFee |-> service, cleaningFee |-> basis.cleaningFee,
             extras |-> basis.extrasTotal, taxes |-> taxes,
             total |-> accommodation + service + taxes
                         + basis.cleaningFee + basis.extrasTotal,
             days |-> days]

\* The ladder applies to the nights, the service and the tax on them; the
\* cleaning and the extras go back whole until the stay begins.
ProposeRefund(checkIn, bookedAt, policy, basis, now) ==
    LET days == DaysUntilCheckIn(checkIn, now)
        rate == Rate(policy, bookedAt, now, days)
        accommodation == Half((basis.nightsSubtotal - basis.weeklyDiscount)
                                + basis.additionalGuestFee, rate)
        service == Half(basis.serviceFee, rate)
        taxes == Half(basis.taxes, rate)
    IN IF days <= 0 THEN StayStarted(days)
       ELSE [rate |-> rate, accommodation |-> accommodation,
             serviceFee |-> service, cleaningFee |-> basis.cleaningFee,
             extras |-> basis.extrasTotal, taxes |-> taxes,
             total |-> accommodation + service + taxes
                         + basis.cleaningFee + basis.extrasTotal,
             days |-> days]
=============================================================================

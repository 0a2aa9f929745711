------------------------------ MODULE MCHouse ------------------------------
(***************************************************************************)
(* A small instance of House for TLC.                                      *)
(***************************************************************************)
EXTENDS House, TLC

\* Day 31 is a Thursday: the ranges meet, overlap and leave a weekend night out.
MCSeason == {[first |-> 31, last |-> 32], [first |-> 32, last |-> 34]}

MCExtraRow ==
    {[key |-> "pool", price |-> 2000, charged |-> "PER_NIGHT", from |-> 9, to |-> 4, active |-> TRUE],
     [key |-> "pool", price |-> 2000, charged |-> "PER_NIGHT", from |-> 9, to |-> 4, active |-> FALSE],
     [key |-> "pool", price |-> 10000, charged |-> "PER_STAY", from |-> Null, to |-> Null, active |-> TRUE]}

Untouched ==
    [rate |-> Null, first |-> Null, last |-> Null, minNights |-> Null, active |-> Null]

\* A bound moved alone, a floor cleared, a rule switched off and on.
MCPatch ==
    {[Untouched EXCEPT !.first = 32], [Untouched EXCEPT !.last = 31],
     [Untouched EXCEPT !.minNights = 0],
     [Untouched EXCEPT !.active = FALSE], [Untouched EXCEPT !.active = TRUE]}

MCFixed ==
    [discountPercent |-> 15, discountNights |-> 3, maxGuests |-> 8,
     guestFee |-> 3000, cleaningFee |-> 15000, servicePercent |-> 7,
     taxesPercent |-> 13]

MCStay == {[in |-> i, out |-> o] : i \in {32}, o \in {32, 36}}

\* Booked in the first hour: in the grace, on the last day of each ladder's
\* step, and on the day of arrival.
MCHour == {48, 24 * 25 + 23, 24 * 27 + 5, 24 * 31, 24 * 32}

Symmetry == Permutations(RuleId) \cup Permutations(Request)
=============================================================================

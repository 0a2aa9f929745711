---------------------------- MODULE NightLedger ----------------------------
(***************************************************************************)
(* What the booking system promises about the calendar, with no rows, no   *)
(* payment provider and no requests in flight: a booking holds a set of    *)
(* nights, some bookings are sold, and no night is ever held twice.  A     *)
(* booking that was asked for no night holds none, sold or not.            *)
(*                                                                         *)
(* Bookings.tla implements this specification.                             *)
(***************************************************************************)
EXTENDS Integers

CONSTANTS
    Booking,    \* the bookings that may ever exist
    Extent      \* the sets of nights a booking can ask for

VARIABLES
    holder,     \* the nights each booking keeps off the calendar
    sold        \* the bookings that are confirmed stays

vars == <<holder, sold>>

LedgerTypeOK ==
    /\ holder \in [Booking -> Extent \cup {{}}]
    /\ sold \subseteq Booking

Init ==
    /\ holder = [b \in Booking |-> {}]
    /\ sold = {}

\* Nobody but b, and nobody outside `gone`, holds any of these nights.
FreeFor(b, nights, gone) ==
    \A c \in Booking \ ({b} \cup gone) : holder[c] \cap nights = {}

\* A new booking takes nights no one else holds.  The unsold bookings in
\* `lapsed` lose theirs in the same step: an abandoned checkout gives way.
Claim(b, nights, lapsed, isSold) ==
    /\ holder[b] = {}
    /\ lapsed \cap (sold \cup {b}) = {}
    /\ FreeFor(b, nights, lapsed)
    /\ holder' = [c \in Booking |->
                    CASE c = b -> nights
                      [] c # b /\ c \in lapsed -> {}
                      [] OTHER -> holder[c]]
    /\ sold' = IF isSold THEN sold \cup {b} ELSE sold

\* Payment turns a claim into a sale.  A claim that was given up can be sold
\* too, as long as its nights are still free.
Sell(b, nights) ==
    /\ holder[b] \in {{}, nights}
    /\ FreeFor(b, nights, {})
    /\ holder' = [holder EXCEPT ![b] = nights]
    /\ sold' = sold \cup {b}

\* The host moves a booking to other nights, or to none.
Move(b, nights) ==
    /\ FreeFor(b, nights, {})
    /\ holder' = [holder EXCEPT ![b] = nights]
    /\ UNCHANGED sold

\* The nights go back on sale.
GiveBack(b) ==
    /\ holder' = [holder EXCEPT ![b] = {}]
    /\ sold' = sold \ {b}

Next ==
    \E b \in Booking :
        \/ \E nights \in Extent :
              \/ \E lapsed \in SUBSET Booking, isSold \in BOOLEAN :
                    Claim(b, nights, lapsed, isSold)
              \/ Sell(b, nights)
              \/ Move(b, nights)
        \/ GiveBack(b)

Spec == Init /\ [][Next]_vars

-----------------------------------------------------------------------------
\* No night is promised to two bookings.
Exclusive ==
    \A b, c \in Booking : b # c => holder[b] \cap holder[c] = {}
=============================================================================

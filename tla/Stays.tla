------------------------------- MODULE Stays -------------------------------
(***************************************************************************)
(* Days, nights and the two ways this system measures a range of them.     *)
(*                                                                         *)
(* A stay [in, out] is half-open: the check-out day is the next guest's    *)
(* check-in day.  A blocked range [first, last] is closed: the host meant  *)
(* the last day too.  Every boundary bug in the calendar is a confusion of *)
(* the two, so the three comparisons the code makes are defined here once. *)
(***************************************************************************)
EXTENDS Integers

\* Nothing refuses a stay that ends on the day it begins; one that ends before
\* is no daterange.
IsStay(s) == s \in [in : Int, out : Int] /\ s.in <= s.out

IsRange(r) == r \in [first : Int, last : Int] /\ r.first <= r.last

\* The nights a stay occupies: the check-out day is not one of them.
Nights(s) == s.in .. (s.out - 1)

\* The nights a blocked range closes: its last day is one of them.
BlockedNights(r) == r.first .. r.last

\* Booking_no_overlap: daterange(checkIn, checkOut, '[)') WITH &&.  The range of
\* a stay of no night is empty, and an empty range meets nothing.
Overlaps(s, t) ==
    /\ s.in < t.out /\ t.in < s.out
    /\ s.in < s.out /\ t.in < t.out

\* blockedOverlap: startDate < checkOut and endDate >= checkIn.
BlockHits(r, s) == r.first < s.out /\ r.last >= s.in
=============================================================================

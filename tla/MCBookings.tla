----------------------------- MODULE MCBookings -----------------------------
(***************************************************************************)
(* Small instances of Bookings for TLC.                                    *)
(***************************************************************************)
EXTENDS Bookings, TLC

Night(d) == [in |-> d, out |-> d + 1]

\* Two adjacent nights, the stay over both, and a stay of no night between
\* them: stays that are equal, that overlap, that share only a change-over day.
TwoNights ==
    {Night(0), Night(1), [in |-> 0, out |-> 2], [in |-> 1, out |-> 1]}
OneNight == {Night(0)}
ShiftedStays == {Night(0), Night(1)}

\* Closed ranges of one day.  The second night's block begins on the day the
\* first night's guest checks out, and must not touch that stay.
SecondNight == {[first |-> 1, last |-> 1]}
FirstNight == {[first |-> 0, last |-> 0]}

\* Rows and request handlers are interchangeable.
Symmetry == Permutations(Booking) \cup Permutations(Worker)
=============================================================================

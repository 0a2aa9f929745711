--------------------------- MODULE MCCalendarSync ---------------------------
(***************************************************************************)
(* A small instance of CalendarSync for TLC: two stays on Airbnb that meet *)
(* on a changeover day and an event of no nights, any of which may become  *)
(* another; a direct stay on one of them, and a longer one over both.      *)
(***************************************************************************)
EXTENDS CalendarSync

MCEvent == {[in |-> 1, out |-> 2], [in |-> 2, out |-> 3], [in |-> 2, out |-> 2]}

MCStay == {[in |-> 2, out |-> 3], [in |-> 1, out |-> 3]}

MCBlockRange == {[first |-> 2, last |-> 2]}
=============================================================================

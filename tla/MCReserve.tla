----------------------------- MODULE MCReserve -----------------------------
(***************************************************************************)
(* A small instance of Reserve for TLC.                                    *)
(***************************************************************************)
EXTENDS Reserve

\* A link to dates that can be held.
MCLink == {[stay |-> s, adults |-> 1, pets |-> 0, units |-> NoExtras] : s \in Stay \ Short}
=============================================================================

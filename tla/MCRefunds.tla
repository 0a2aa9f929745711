----------------------------- MODULE MCRefunds -----------------------------
(***************************************************************************)
(* Small instances of Refunds for TLC.                                     *)
(***************************************************************************)
EXTENDS Refunds, TLC

\* Rows and requests are interchangeable.
Symmetry == Permutations(Refund) \cup Permutations(Request)
=============================================================================

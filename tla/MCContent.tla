----------------------------- MODULE MCContent -----------------------------
(***************************************************************************)
(* A small instance of Content for TLC.                                    *)
(***************************************************************************)
EXTENDS Content, TLC

OneTarget == <<"en">>

\* The page may be rewritten; one text is enough for a row that comes and goes.
MCDraft == [id \in Id |-> IF id \in Fixed THEN {"old", "new"} ELSE {"old"}]

\* Reviews and request handlers are interchangeable.
Symmetry == Permutations(Quotable) \cup Permutations(Request)
=============================================================================

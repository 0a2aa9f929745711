---------------------------- MODULE MCAccounts ----------------------------
(***************************************************************************)
(* A small instance of Accounts for TLC.                                   *)
(***************************************************************************)
EXTENDS Accounts, TLC

\* Requests, secrets, codes and tokens are interchangeable.
Symmetry ==
    Permutations(Request) \cup Permutations(Secret)
      \cup Permutations(Code) \cup Permutations(Token)
=============================================================================

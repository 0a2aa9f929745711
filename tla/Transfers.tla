----------------------------- MODULE Transfers -----------------------------
(***************************************************************************)
(* What the refund ledger promises about money, with no requests and no    *)
(* Stripe: a transfer is declared before it moves, moves at most once and  *)
(* for the declared amount, and is believed done only while the money is   *)
(* with the guest.                                                         *)
(*                                                                         *)
(* Refunds.tla implements this specification.                              *)
(***************************************************************************)
EXTENDS Integers

CONSTANTS
    Transfer,   \* the transfers that may ever be declared
    Amount      \* what a transfer may be worth

VARIABLES
    declared,   \* the amount written down for each transfer, 0 before
    moved,      \* the money that is with the guest because of it
    spent,      \* the transfers that had their one chance to move
    believed    \* the transfers the ledger calls done

vars == <<declared, moved, spent, believed>>

Init ==
    /\ declared = [t \in Transfer |-> 0]
    /\ moved = [t \in Transfer |-> 0]
    /\ spent = {}
    /\ believed = {}

Declare(t, amount) ==
    /\ declared[t] = 0
    /\ declared' = [declared EXCEPT ![t] = amount]
    /\ UNCHANGED <<moved, spent, believed>>

\* The money leaves: once, all of it, and never undeclared.
Move(t) ==
    /\ declared[t] # 0 /\ t \notin spent
    /\ moved' = [moved EXCEPT ![t] = declared[t]]
    /\ spent' = spent \cup {t}
    /\ UNCHANGED <<declared, believed>>

\* The one chance is used up and nothing moved.
Decline(t) ==
    /\ declared[t] # 0 /\ t \notin spent
    /\ spent' = spent \cup {t}
    /\ UNCHANGED <<declared, moved, believed>>

\* The guest's bank sends it back.
Return(t) ==
    /\ t \in spent /\ t \notin believed
    /\ moved' = [moved EXCEPT ![t] = 0]
    /\ UNCHANGED <<declared, spent, believed>>

Believe(t) ==
    /\ declared[t] # 0 /\ moved[t] = declared[t]
    /\ believed' = believed \cup {t}
    /\ UNCHANGED <<declared, moved, spent>>

\* The ledger may lose faith in a transfer that did happen.
Doubt(t) ==
    /\ believed' = believed \ {t}
    /\ UNCHANGED <<declared, moved, spent>>

Next ==
    \E t \in Transfer :
        \/ \E amount \in Amount : Declare(t, amount)
        \/ Move(t) \/ Decline(t) \/ Return(t) \/ Believe(t) \/ Doubt(t)

Spec == Init /\ [][Next]_vars
=============================================================================

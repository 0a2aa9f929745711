------------------------------- MODULE Mirror -------------------------------
(***************************************************************************)
(* What an import promises, with no feed, no rows and no events: a copy    *)
(* that is replaced whole by some reading of the source, never a mixture   *)
(* of two, and that anyone may take entries out of.                        *)
(*                                                                         *)
(* CalendarSync.tla implements this specification.                         *)
(***************************************************************************)
CONSTANTS
    Entry,      \* what the source may hold
    Reader,     \* the imports that may be in flight together
    Content,    \* what an entry may say
    Nothing,    \* what a missing entry says
    NoReading   \* an import that has read nothing

VARIABLES
    source,     \* what the source says of each entry
    copy,       \* what was last written here
    reading     \* what each import read and has not written yet

vars == <<source, copy, reading>>

Contents == [Entry -> Content \cup {Nothing}]

Empty == [e \in Entry |-> Nothing]

Init ==
    /\ source = Empty /\ copy = Empty
    /\ reading = [i \in Reader |-> NoReading]

Change ==
    /\ source' \in Contents
    /\ UNCHANGED <<copy, reading>>

Read(i) ==
    /\ reading' = [reading EXCEPT ![i] = source]
    /\ UNCHANGED <<source, copy>>

Replace(i) ==
    /\ reading[i] # NoReading
    /\ copy' = reading[i]
    /\ reading' = [reading EXCEPT ![i] = NoReading]
    /\ UNCHANGED source

GiveUp(i) ==
    /\ reading' = [reading EXCEPT ![i] = NoReading]
    /\ UNCHANGED <<source, copy>>

Drop(e) ==
    /\ copy' = [copy EXCEPT ![e] = Nothing]
    /\ UNCHANGED <<source, reading>>

Next ==
    \/ Change
    \/ \E i \in Reader : Read(i) \/ Replace(i) \/ GiveUp(i)
    \/ \E e \in Entry : Drop(e)

Spec == Init /\ [][Next]_vars
=============================================================================

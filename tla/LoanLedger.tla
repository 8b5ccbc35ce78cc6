------------------------------ MODULE LoanLedger ------------------------------
(***************************************************************************)
(* What the circulation desk promises about the copies, with no rows, no   *)
(* locks and no requests: a copy is lent to one user at a time, comes back *)
(* from that user, and may then be put aside for a user, who is the only   *)
(* one it is lent to next.  Every loan and return is entered in the log at *)
(* the moment it happens.                                                  *)
(***************************************************************************)
EXTENDS Sequences

CONSTANTS Copies, Users, None

VARIABLES
    holder,     \* who has the copy, None if the library has it
    aside,      \* who the copy is put aside for, None if nobody
    log         \* loans and returns in the order in which they happened

vars == <<holder, aside, log>>

Init ==
    /\ holder = [c \in Copies |-> None]
    /\ aside = [c \in Copies |-> None]
    /\ log = <<>>

Lend(c, u) ==
    /\ holder[c] = None
    /\ aside[c] \in {None, u}
    /\ holder' = [holder EXCEPT ![c] = u]
    /\ aside' = [aside EXCEPT ![c] = None]
    /\ log' = Append(log, <<"copy.issued", c, u>>)

TakeBack(c, w) ==
    /\ holder[c] # None
    /\ holder' = [holder EXCEPT ![c] = None]
    /\ aside' = [aside EXCEPT ![c] = w]
    /\ log' = Append(log, <<"copy.returned", c, holder[c]>>)

Next ==
    \E c \in Copies :
        \/ \E u \in Users : Lend(c, u)
        \/ \E w \in Users \cup {None} : TakeBack(c, w)

Spec == Init /\ [][Next]_vars
=============================================================================

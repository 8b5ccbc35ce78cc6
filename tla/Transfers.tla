------------------------------ MODULE Transfers ------------------------------
(***************************************************************************)
(* The requests that change copy rows without locking them, beside the     *)
(* checkouts and returns that do: POST /branches/transfer, the arrival of  *)
(* a copy (POST /rebalance/complete), and POST /books/{isbn}/copies, which *)
(* saves every copy of the title as it was when the book was read.         *)
(*                                                                         *)
(* Each of them reads rows in one session, works on the detached objects,  *)
(* and saves them in another: merge reads the row again and the UPDATE     *)
(* sets the columns that differ from that reading, so a write has a read,  *)
(* a merge and a commit, and others may commit between any two.  A         *)
(* checkout or a return is one step: Circulation shows that it implements  *)
(* LoanLedger, in which it is one.  The copies are those of one title.     *)
(***************************************************************************)
EXTENDS CopyState, Naturals, FiniteSets

CONSTANTS
    Copies,
    Moves,       \* POST /branches/transfer; the transfer has the same name
    Arrivals,    \* POST /rebalance/complete/{transfer_id}
    Adds,        \* POST /books/{isbn}/copies
    MaxLoans     \* bound: committed checkouts

Requests == Moves \cup Arrivals \cup Adds

ASSUME TransfersAssumption ==
    /\ None \notin Copies \cup Requests /\ None \notin BookCopy
    /\ Moves \cap Arrivals = {} /\ Moves \cap Adds = {}
    /\ Arrivals \cap Adds = {}
    /\ MaxLoans \in Nat

VARIABLES
    row,        \* committed rows of book_copies; None if there is no row
    transfer,   \* branch_mgr.transfers, in the memory of the process
    pc,
    job,        \* the transfer an arrival is about
    object,     \* the BookCopy objects a request will save
    later,      \* the objects of the save_book that follows save_copy
    dirty,      \* columns the UPDATE of a copy will set
    loan,       \* history: who took the copy away and has not returned it
    loans,      \* history: number of checkouts
    overtaken,  \* history: copies committed by others while a request had
                \* them
    readded,    \* history: copies registered while they had a row
    lost        \* history: copies whose transfer lost its save or its record

work == <<pc, job, object, later, dirty>>
history == <<loan, loans, overtaken, readded, lost>>
vars == <<row, transfer, work, history>>

Columns == {"status", "borrower", "reserver", "branch", "target"}
NoObjects == [c \in Copies |-> None]
NoTransfer == [copy |-> None, source |-> None, dest |-> None, status |-> "NONE"]
Transfer ==
    [copy : Copies \cup {None}, source : Branches \cup {None},
     dest : Branches \cup {None}, status : {"NONE", "IN_TRANSIT", "COMPLETED"}]

Init ==
    /\ row \in [Copies -> {NewCopy(b) : b \in Branches} \cup {None}]
    /\ transfer = [m \in Moves |-> NoTransfer]
    /\ pc = [r \in Requests |-> "idle"]
    /\ job = [r \in Arrivals |-> None]
    /\ object = [r \in Requests |-> NoObjects]
    /\ later = [r \in Adds |-> NoObjects]
    /\ dirty = [r \in Requests |-> [c \in Copies |-> {}]]
    /\ loan = NoObjects /\ loans = 0
    /\ overtaken = {} /\ readded = {} /\ lost = {}

Goto(r, l) == pc' = [pc EXCEPT ![r] = l]

(* The request is answered and its objects are garbage.                    *)
Answer(r, l) ==
    /\ Goto(r, l)
    /\ object' = [object EXCEPT ![r] = NoObjects]
    /\ dirty' = [dirty EXCEPT ![r] = [c \in Copies |-> {}]]
    /\ job' = [q \in Arrivals |-> IF q = r THEN None ELSE job[q]]
    /\ later' = [q \in Adds |-> IF q = r THEN NoObjects ELSE later[q]]

(* The copies a request has read and may still write.                      *)
Held(r) ==
    {c \in Copies : object[r][c] # None \/ (r \in Adds /\ later[r][c] # None)}

(* A commit that sets columns of the copies S overtakes whoever has them.  *)
Overtake(r, S) ==
    overtaken' = overtaken \cup
        {c \in S : \E q \in Requests \ {r} : c \in Held(q)}

(***************************************************************************)
(* Committed checkouts and returns.                                        *)
(***************************************************************************)
Checkout(c, u) ==
    /\ row[c] # None /\ row[c].status = "AVAILABLE"
    /\ loans < MaxLoans
    /\ row' = [row EXCEPT ![c] = CheckOut(@, u)]
    /\ loan' = [loan EXCEPT ![c] = u]
    /\ loans' = loans + 1
    /\ Overtake(None, {c})
    /\ UNCHANGED <<transfer, work, readded, lost>>

Return(c) ==
    /\ row[c] # None /\ row[c].borrower # None /\ CanReturn(row[c])
    /\ row' = [row EXCEPT ![c] = ReturnBook(@)]
    /\ loan' = [loan EXCEPT ![c] = None]
    /\ Overtake(None, {c})
    /\ UNCHANGED <<transfer, work, loans, readded, lost>>

(***************************************************************************)
(* transfer_copy: the copy is read, request_transfer moves the object and  *)
(* files the transfer, save_copy follows.  A request that is refused (the  *)
(* copy is unknown, at its destination, or not available) changes nothing. *)
(***************************************************************************)
(* Fault: the state of the copy does not refuse the transfer.              *)
MoveAnyState(m, c, b) ==
    /\ pc[m] = "idle"
    /\ row[c] # None /\ row[c].branch # b
    /\ transfer' = [transfer EXCEPT ![m] =
          [copy |-> c, source |-> row[c].branch, dest |-> b,
           status |-> "IN_TRANSIT"]]
    /\ object' = [object EXCEPT ![m][c] = StartTransfer(row[c], b)]
    /\ Goto(m, "merge")
    /\ UNCHANGED <<row, job, later, dirty, history>>

Move(m, c, b) ==
    /\ pc[m] = "idle"
    /\ row[c] # None /\ row[c].branch # b
    /\ row[c].status = "AVAILABLE"
    /\ transfer' = [transfer EXCEPT ![m] =
          [copy |-> c, source |-> row[c].branch, dest |-> b,
           status |-> "IN_TRANSIT"]]
    /\ object' = [object EXCEPT ![m][c] = StartTransfer(row[c], b)]
    /\ Goto(m, "merge")
    /\ UNCHANGED <<row, job, later, dirty, history>>

(***************************************************************************)
(* complete_transfer of the rebalancer: it looks the transfer up, reads    *)
(* the copy, then checks and completes both, and saves the copy.           *)
(***************************************************************************)
ArriveRead(a, m) ==
    /\ pc[a] = "idle"
    /\ transfer[m].copy # None
    /\ row[transfer[m].copy] # None
    /\ job' = [job EXCEPT ![a] = m]
    /\ object' = [object EXCEPT ![a][transfer[m].copy] = row[transfer[m].copy]]
    /\ Goto(a, "check")
    /\ UNCHANGED <<row, transfer, later, dirty, history>>

ArriveCheck(a) ==
    LET m == job[a]
        c == transfer[m].copy
    IN  /\ pc[a] = "check"
        /\ IF /\ transfer[m].status = "IN_TRANSIT"
              /\ object[a][c].status = "IN_TRANSIT"
           THEN Goto(a, "complete") /\ UNCHANGED <<job, object, later, dirty>>
           ELSE Answer(a, "failed")
        /\ UNCHANGED <<row, transfer, history>>

(* Fault: the copy arrives where the transfer came from.                   *)
ArriveCompleteAtSource(a) ==
    LET m == job[a]
        c == transfer[m].copy
    IN  /\ pc[a] = "complete"
        /\ transfer' = [transfer EXCEPT ![m].status = "COMPLETED"]
        /\ object' = [object EXCEPT ![a][c] =
              [@ EXCEPT !.status = "AVAILABLE", !.branch = transfer[m].source,
                        !.target = None]]
        /\ Goto(a, "merge")
        /\ UNCHANGED <<row, job, later, dirty, history>>

(* Fault: the transfer is not closed.                                      *)
ArriveStaysOpen(a) ==
    /\ pc[a] = "complete"
    /\ object' = [object EXCEPT ![a][transfer[job[a]].copy] = CompleteTransfer(@)]
    /\ Goto(a, "merge")
    /\ UNCHANGED <<row, transfer, job, later, dirty, history>>

ArriveComplete(a) ==
    LET m == job[a]
        c == transfer[m].copy
    IN  /\ pc[a] = "complete"
        /\ transfer' = [transfer EXCEPT ![m].status = "COMPLETED"]
        /\ object' = [object EXCEPT ![a][c] = CompleteTransfer(@)]
        /\ Goto(a, "merge")
        /\ UNCHANGED <<row, job, later, dirty, history>>

(***************************************************************************)
(* add_physical_copy: get_book reads every copy of the title; save_copy    *)
(* writes the new one, save_book then writes all of them again.  The       *)
(* copy_id is not checked: one that exists is saved as a new copy, at the  *)
(* branch of the request, AVAILABLE and with no borrower.                  *)
(***************************************************************************)
AddCopy(a, c, b) ==
    /\ pc[a] = "idle"
    /\ object' = [object EXCEPT ![a][c] = NewCopy(b)]
    /\ later' = [later EXCEPT ![a] = [row EXCEPT ![c] = NewCopy(b)]]
    /\ readded' = IF row[c] = None THEN readded ELSE readded \cup {c}
    /\ Goto(a, "merge")
    /\ UNCHANGED <<row, transfer, job, dirty, loan, loans, overtaken, lost>>

(***************************************************************************)
(* save_copy and the copies of save_book: s.merge, then the commit.        *)
(***************************************************************************)
Merge(r) ==
    /\ pc[r] = "merge"
    /\ dirty' = [dirty EXCEPT ![r] = [c \in Copies |->
          IF object[r][c] = None THEN {}
          ELSE IF row[c] = None THEN Columns \cup {"copy_id"}
          ELSE {col \in Columns : object[r][c][col] # row[c][col]}]]
    /\ Goto(r, "commit")
    /\ UNCHANGED <<row, transfer, job, object, later, history>>

Written(r) == {c \in Copies : dirty[r][c] # {}}

(* An INSERT of a row that another request has inserted meanwhile breaks   *)
(* the primary key.                                                        *)
Conflict(r) ==
    \E c \in Copies : row[c] # None /\ "copy_id" \in dirty[r][c]

Commit(r) ==
    /\ pc[r] = "commit"
    /\ ~ Conflict(r)
    /\ row' = [c \in Copies |->
          IF dirty[r][c] = {} THEN row[c]
          ELSE [col \in Columns |-> IF col \in dirty[r][c] THEN object[r][c][col]
                                                           ELSE row[c][col]]]
    /\ Overtake(r, Written(r))
    /\ IF r \in Adds /\ later[r] # NoObjects
       THEN /\ object' = [object EXCEPT ![r] = later[r]]
            /\ later' = [later EXCEPT ![r] = NoObjects]
            /\ Goto(r, "merge")
            /\ UNCHANGED <<job, dirty>>
       ELSE Answer(r, "done")
    /\ UNCHANGED <<transfer, loan, loans, readded, lost>>

(* The save raises: the row stays, the transfer in memory does not go back.*)
SaveFails(r) ==
    /\ pc[r] \in {"merge", "commit"}
    /\ Answer(r, "failed")
    /\ lost' = lost \cup (IF r \in Adds THEN {} ELSE Held(r))
    /\ UNCHANGED <<row, transfer, loan, loans, overtaken, readded>>

(* A restart of the process forgets the transfers and the requests.        *)
Restart ==
    /\ \E m \in Moves : transfer[m].copy # None
    /\ transfer' = [m \in Moves |-> NoTransfer]
    /\ lost' = (lost \cup {transfer[m].copy : m \in Moves}) \ {None}
    /\ pc' = [r \in Requests |-> IF pc[r] \in {"idle", "done"} THEN pc[r]
                                                               ELSE "failed"]
    /\ job' = [r \in Arrivals |-> None]
    /\ object' = [r \in Requests |-> NoObjects]
    /\ later' = [r \in Adds |-> NoObjects]
    /\ dirty' = [r \in Requests |-> [c \in Copies |-> {}]]
    /\ UNCHANGED <<row, loan, loans, overtaken, readded>>

Next ==
    \/ \E c \in Copies, u \in Users : Checkout(c, u)
    \/ \E c \in Copies : Return(c)
    \/ \E m \in Moves, c \in Copies, b \in Branches : Move(m, c, b)
    \/ \E a \in Arrivals, m \in Moves : ArriveRead(a, m)
    \/ \E a \in Arrivals : ArriveCheck(a) \/ ArriveComplete(a)
    \/ \E a \in Adds, c \in Copies, b \in Branches : AddCopy(a, c, b)
    \/ \E r \in Requests : Merge(r) \/ Commit(r) \/ SaveFails(r)
    \/ Restart

Spec == Init /\ [][Next]_vars
-----------------------------------------------------------------------------
(* A transfer, an arrival or the registration of another copy does no harm *)
(* to a loan by itself, whatever it does before, after or halfway through: *)
(* a copy is on loan in the database exactly if a user has it.  Two things *)
(* break this and are excepted: someone else committed a write to the copy *)
(* between the reading and the writing of one request (overtaken), and the *)
(* copy was registered again while it existed (readded), which needs no    *)
(* race: add_physical_copy makes a lent copy AVAILABLE.                    *)
LoanKept ==
    \A c \in Copies \ (overtaken \cup readded) :
        IF row[c] = None THEN loan[c] = None
        ELSE /\ row[c].borrower = loan[c]
             /\ row[c].status = "ISSUED" <=> loan[c] # None

Saving(c) == \E r \in Requests : c \in Held(r)
Filed(c) == {m \in Moves : transfer[m].copy = c /\ transfer[m].status = "IN_TRANSIT"}

(* The rows and the transfers in memory tell the same story once nobody is *)
(* saving the copy: it is in transit exactly while one transfer is open,   *)
(* towards the target of that transfer.  A failed save and a restart break *)
(* this for good (variable lost): then no request can bring the copy back  *)
(* from transit, or an open transfer describes a copy that never left.     *)
(* Copies overtaken by another commit or registered again are excepted.    *)
TransitTracked ==
    \A c \in Copies \ (overtaken \cup readded \cup lost) :
        row[c] # None /\ ~ Saving(c) =>
            /\ row[c].status = "IN_TRANSIT" <=> Filed(c) # {}
            /\ \A m \in Filed(c) :
                  Filed(c) = {m} /\ transfer[m].dest = row[c].target

(* A copy changes branch only by arriving: a step that ends its transit    *)
(* leaves it available at the branch it was sent to, and no other step     *)
(* moves it.  Excepted are a copy that another commit overtook, and one    *)
(* that was registered again: add_physical_copy moves it to the branch of  *)
(* the request, from wherever and in whatever state it was.                *)
TransitEndsAtTarget ==
    [][\A c \in Copies \ (overtaken' \cup readded') :
         row[c] # None =>
            /\ row'[c].branch # row[c].branch => row[c].status = "IN_TRANSIT"
            /\ row[c].status = "IN_TRANSIT" /\ row'[c].status # "IN_TRANSIT"
                 => row'[c] = NewCopy(row[c].target)]_vars

-----------------------------------------------------------------------------
(* "guarantees exactly one concurrent checkout succeeds for a given copy"  *)
(* (issue_physical_book): nobody is handed a copy that another user has.   *)
(* A request that saves the copy as it was before the checkout makes it    *)
(* available again, and so does one that registers it again.               *)
NoDoubleLoan ==
    [][\A c \in Copies : loan[c] # None => loan'[c] \in {None, loan[c]}]_vars
=============================================================================

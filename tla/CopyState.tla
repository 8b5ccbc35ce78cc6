------------------------------ MODULE CopyState ------------------------------
(***************************************************************************)
(* The life cycle of one physical copy: core/book.py (BookCopy) with the   *)
(* State pattern of core/book_state.py.  A copy is a record; a method that *)
(* the current state object accepts is an operator returning the new copy, *)
(* and the condition under which it does not raise ValueError is the       *)
(* operator whose name starts with Can.                                    *)
(***************************************************************************)
CONSTANTS
    Users,      \* user ids
    Branches,   \* branch ids
    None        \* Python's None

ASSUME NoneAssumption == None \notin Users \cup Branches

BookStatus ==
    {"AVAILABLE", "RESERVED", "ISSUED", "IN_TRANSIT", "UNDER_REPAIR", "LOST"}

BookCopy ==
    [status   : BookStatus,
     borrower : Users \cup {None},      \* current_borrower_id
     reserver : Users \cup {None},      \* current_reserver_id
     branch   : Branches,
     target   : Branches \cup {None}]   \* target_branch_id

NewCopy(branch) ==
    [status |-> "AVAILABLE", borrower |-> None, reserver |-> None,
     branch |-> branch, target |-> None]

(***************************************************************************)
(* AvailableState.check_out leaves current_reserver_id as it is;           *)
(* ReservedState.check_out refuses everybody but the reserver and clears   *)
(* it.                                                                     *)
(***************************************************************************)
CanCheckOut(copy, user) ==
    \/ copy.status = "AVAILABLE"
    \/ copy.status = "RESERVED" /\ copy.reserver \in {None, user}

CheckOut(copy, user) ==
    [copy EXCEPT !.status   = "ISSUED",
                 !.borrower = user,
                 !.reserver = IF copy.status = "RESERVED" THEN None ELSE @]

(* IssuedState.return_book forgets the borrower, ReservedState.return_book *)
(* forgets the reserver.                                                   *)
CanReturn(copy) == copy.status \in {"ISSUED", "RESERVED"}

ReturnBook(copy) ==
    IF copy.status = "ISSUED"
    THEN [copy EXCEPT !.status = "AVAILABLE", !.borrower = None]
    ELSE [copy EXCEPT !.status = "AVAILABLE", !.reserver = None]

Reserve(copy, user) ==
    [copy EXCEPT !.status = "RESERVED", !.reserver = user]

(* Only AvailableState.start_transfer and InTransitState.complete_transfer *)
(* do not raise.                                                           *)
StartTransfer(copy, dest) ==
    [copy EXCEPT !.status = "IN_TRANSIT", !.target = dest]

CompleteTransfer(copy) ==
    [copy EXCEPT !.status = "AVAILABLE",
                 !.branch = IF copy.target = None THEN @ ELSE copy.target,
                 !.target = None]

=============================================================================

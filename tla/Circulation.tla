----------------------------- MODULE Circulation -----------------------------
(***************************************************************************)
(* Checkout, return and reservation as CirculationService runs them on the *)
(* PostgreSQL backend.  Every HTTP request is served by a thread of the    *)
(* API process and handled once.  A step is what a request does between    *)
(* two points at which another request can be observed: a row lock, a read *)
(* of a row, an operation on the in-process reservation queues, a commit.  *)
(*                                                                         *)
(* Rows.  locking_section locks the copy row (SELECT ... FOR UPDATE) until *)
(* the transaction ends; get_user(for_update=True) does the same for the   *)
(* user row, and only issue_physical_book asks for it.  save_user merges   *)
(* the detached object: the row is read again, and the columns that differ *)
(* from that reading are the ones the UPDATE sets (variable dirty).  The   *)
(* UPDATE is sent by the autoflush of the session's next merge, and locks  *)
(* the row; other requests see it when the transaction commits.            *)
(*                                                                         *)
(* The demand forecaster, the cache and the rebalancer hook are told about *)
(* a checkout outside the database; notifications and audit entries are    *)
(* logging.  None of them is read by the code modelled here.               *)
(***************************************************************************)
EXTENDS CopyState, Naturals, Sequences, FiniteSets

CONSTANTS
    Copies, Titles,
    isbn,        \* [Copies -> Titles]: the book_isbn of a copy
    Issues,      \* requests POST /circulation/issue
    Returns,     \* requests POST /circulation/return
    Reserves,    \* requests POST /circulation/reserve
    MaxBorrow,   \* max_borrow_limit
    FineLimit,   \* the 100.0 of can_borrow
    Balances     \* the unpaid balances users start with

Requests == Issues \cup Returns \cup Reserves

ASSUME CirculationAssumption ==
    /\ isbn \in [Copies -> Titles]
    /\ MaxBorrow \in Nat /\ FineLimit \in Nat /\ Balances \subseteq Nat
    /\ None \notin Copies \cup Titles \cup Requests \cup Seq(Requests)
    /\ Issues \cap Returns = {} /\ Issues \cap Reserves = {}
    /\ Returns \cap Reserves = {}

VARIABLES
    copyRow,    \* committed rows of book_copies
    userRow,    \* committed rows of users: [borrowed, fines]
    outbox,     \* committed rows of outbox_events, in commit order
    copyLock,   \* request holding the row lock of a copy
    userLock,   \* request holding the row lock of a user
    queue,      \* reservation_mgr.queues: title -> deque, None if no key
    resv,       \* reservation_mgr.reservations, by the creating request
    raced,      \* (history) reservations appended while another request was
                \* about to create the deque of their title
    pc, rcopy, ruser, rtitle,   \* where a request is, and its arguments
    copyObj,    \* the BookCopy object a request works on
    userObj,    \* the User object a request works on
    dirty,      \* the user columns a request's flush will write
    assigned    \* the reservation a return has taken from the queue

rows == <<copyRow, userRow, outbox>>
locks == <<copyLock, userLock>>
waitlist == <<queue, resv, raced>>
args == <<rcopy, ruser, rtitle>>
objs == <<copyObj, userObj, dirty, assigned>>
vars == <<rows, locks, waitlist, pc, args, objs>>

Columns == {"borrowed", "fines"}
UserRow == [borrowed : SUBSET Copies, fines : Nat]
NoUser == [borrowed |-> {}, fines |-> 0]

Reservation ==
    [status : {"NONE", "PENDING", "READY_FOR_PICKUP"},
     user : Users \cup {None}, title : Titles \cup {None},
     copy : Copies \cup {None}]
NoReservation ==
    [status |-> "NONE", user |-> None, title |-> None, copy |-> None]

Event ==
    [topic : {"copy.issued", "copy.returned"}, copy : Copies,
     user : Users, res : Requests \cup {None}]

InTransaction ==
    {"issue_user", "issue_commit", "return_merge", "return_flush",
     "return_assign", "return_commit"}
Reserving == {"reserve_create", "reserve_check", "reserve_append"}
Answered == {"done", "failed"}

-----------------------------------------------------------------------------
Init ==
    /\ copyRow \in [Copies -> {NewCopy(b) : b \in Branches}]
    /\ userRow \in [Users -> [borrowed : {{}}, fines : Balances]]
    /\ outbox = <<>>
    /\ copyLock = [c \in Copies |-> None]
    /\ userLock = [u \in Users |-> None]
    /\ queue = [t \in Titles |-> None]
    /\ resv = [r \in Requests |-> NoReservation]
    /\ raced = {}
    /\ pc = [r \in Requests |-> "idle"]
    /\ rcopy = [r \in Requests |-> None]
    /\ ruser = [r \in Requests |-> None]
    /\ rtitle = [r \in Requests |-> None]
    /\ copyObj = [r \in Requests |-> None]
    /\ userObj = [r \in Requests |-> NoUser]
    /\ dirty = [r \in Requests |-> {}]
    /\ assigned = [r \in Requests |-> None]

(***************************************************************************)
(* The end of a transaction.                                               *)
(***************************************************************************)
Unlock(r) ==
    /\ copyLock' = [c \in Copies |->
                       IF copyLock[c] = r THEN None ELSE copyLock[c]]
    /\ userLock' = [u \in Users |->
                       IF userLock[u] = r THEN None ELSE userLock[u]]

Goto(r, l) == pc' = [pc EXCEPT ![r] = l]

(* Fault: the session is never closed, so its row locks stay.              *)
RaiseKeepingLocks(r) ==
    /\ Goto(r, "failed")
    /\ UNCHANGED <<rows, locks, waitlist, args, objs>>

(* The exception path of locking_section: rollback, close, re-raise.       *)
Raise(r) ==
    /\ Unlock(r)
    /\ Goto(r, "failed")
    /\ UNCHANGED <<rows, waitlist, args, objs>>

(***************************************************************************)
(* issue_physical_book.                                                    *)
(***************************************************************************)
CanBorrow(user) ==
    /\ user.fines <= FineLimit
    /\ Cardinality(user.borrowed) < MaxBorrow

(* The availability test of the service, before the state object's own.    *)
Issuable(copy, u) ==
    \/ copy.status = "AVAILABLE"
    \/ copy.status = "RESERVED" /\ copy.reserver = u

(* Fault: the copy is read without FOR UPDATE.                             *)
IssueWithoutLock(r, c, u) ==
    /\ pc[r] = "idle"
    /\ rcopy' = [rcopy EXCEPT ![r] = c]
    /\ ruser' = [ruser EXCEPT ![r] = u]
    /\ copyObj' = [copyObj EXCEPT ![r] = copyRow[c]]
    /\ Goto(r, "issue_user")
    /\ UNCHANGED <<rows, locks, waitlist, rtitle, userObj, dirty, assigned>>

IssueLock(r, c, u) ==
    /\ pc[r] = "idle"
    /\ copyLock[c] = None
    /\ copyLock' = [copyLock EXCEPT ![c] = r]
    /\ rcopy' = [rcopy EXCEPT ![r] = c]
    /\ ruser' = [ruser EXCEPT ![r] = u]
    /\ copyObj' = [copyObj EXCEPT ![r] = copyRow[c]]
    /\ Goto(r, "issue_user")
    /\ UNCHANGED <<rows, userLock, waitlist, rtitle, userObj, dirty, assigned>>

(* Fault: get_user without for_update.                                     *)
IssueUserUnlocked(r) ==
    LET u == ruser[r]
        c == rcopy[r]
    IN  /\ pc[r] = "issue_user"
        /\ CanBorrow(userRow[u])
        /\ Issuable(copyObj[r], u) /\ CanCheckOut(copyObj[r], u)
        /\ userObj' = [userObj EXCEPT ![r] =
                          [userRow[u] EXCEPT !.borrowed = @ \cup {c}]]
        /\ copyObj' = [copyObj EXCEPT ![r] = CheckOut(@, u)]
        /\ Goto(r, "issue_commit")
        /\ UNCHANGED <<rows, locks, waitlist, args, dirty, assigned>>

IssueUser(r) ==
    LET u == ruser[r]
        c == rcopy[r]
    IN  /\ pc[r] = "issue_user"
        /\ userLock[u] = None
        /\ CanBorrow(userRow[u])
        /\ Issuable(copyObj[r], u) /\ CanCheckOut(copyObj[r], u)
        /\ userLock' = [userLock EXCEPT ![u] = r]
        /\ userObj' = [userObj EXCEPT ![r] =
                          [userRow[u] EXCEPT !.borrowed = @ \cup {c}]]
        /\ copyObj' = [copyObj EXCEPT ![r] = CheckOut(@, u)]
        /\ Goto(r, "issue_commit")
        /\ UNCHANGED <<rows, copyLock, waitlist, args, dirty, assigned>>

IssueRefuse(r) ==
    /\ pc[r] = "issue_user"
    /\ userLock[ruser[r]] = None
    /\ ~ (/\ CanBorrow(userRow[ruser[r]])
          /\ Issuable(copyObj[r], ruser[r])
          /\ CanCheckOut(copyObj[r], ruser[r]))
    /\ Raise(r)

IssueCommit(r) ==
    /\ pc[r] = "issue_commit"
    /\ copyRow' = [copyRow EXCEPT ![rcopy[r]] = copyObj[r]]
    /\ userRow' = [userRow EXCEPT ![ruser[r]] = userObj[r]]
    /\ outbox' = Append(outbox, [topic |-> "copy.issued", copy |-> rcopy[r],
                                 user |-> ruser[r], res |-> None])
    /\ Unlock(r)
    /\ Goto(r, "done")
    /\ UNCHANGED <<waitlist, args, objs>>

(***************************************************************************)
(* return_physical_book.                                                   *)
(***************************************************************************)
(* The copy is locked and read, then its borrower is read without a lock;  *)
(* nothing happens between the two that another request could notice.      *)
ReturnLock(r, c) ==
    LET u == copyRow[c].borrower
    IN  /\ pc[r] = "idle"
        /\ copyLock[c] = None
        /\ u # None
        /\ copyLock' = [copyLock EXCEPT ![c] = r]
        /\ rcopy' = [rcopy EXCEPT ![r] = c]
        /\ ruser' = [ruser EXCEPT ![r] = u]
        /\ copyObj' = [copyObj EXCEPT ![r] = copyRow[c]]
        /\ userObj' = [userObj EXCEPT ![r] =
                          [userRow[u] EXCEPT !.borrowed = @ \ {c}]]
        /\ Goto(r, "return_merge")
        /\ UNCHANGED <<rows, userLock, waitlist, rtitle, dirty, assigned>>

ReturnNotIssued(r, c) ==
    /\ pc[r] = "idle"
    /\ copyLock[c] = None
    /\ copyRow[c].borrower = None
    /\ Goto(r, "failed")
    /\ UNCHANGED <<rows, locks, waitlist, args, objs>>

(* save_user reads the row again; return_book raises ValueError when the   *)
(* state of the copy does not allow it.                                    *)
ReturnMerge(r) ==
    /\ pc[r] = "return_merge"
    /\ IF CanReturn(copyObj[r])
       THEN /\ dirty' = [dirty EXCEPT ![r] =
                  {col \in Columns : userObj[r][col] # userRow[ruser[r]][col]}]
            /\ copyObj' = [copyObj EXCEPT ![r] = ReturnBook(@)]
            /\ Goto(r, "return_flush")
            /\ UNCHANGED <<rows, locks, waitlist, args, userObj, assigned>>
       ELSE Raise(r)

(* save_copy: the session sends the UPDATE of the user row first, and that *)
(* waits for the row's lock.  The history entry that record_return stamps  *)
(* makes a difference even if the list of loans does not, unless another   *)
(* return has overwritten the row and the entry is gone: then there may be *)
(* nothing to send.                                                        *)
ReturnFlush(r) ==
    /\ pc[r] = "return_flush"
    /\ \/ /\ userLock[ruser[r]] = None
          /\ userLock' = [userLock EXCEPT ![ruser[r]] = r]
       \/ dirty[r] = {} /\ UNCHANGED userLock
    /\ Goto(r, "return_assign")
    /\ UNCHANGED <<rows, copyLock, waitlist, args, objs>>

(* handle_copy_returned pops entries until one is PENDING.                 *)
Waiting(t) ==
    IF queue[t] = None THEN {}
    ELSE {i \in DOMAIN queue[t] : resv[queue[t][i]].status = "PENDING"}

(* Fault: the returned copy is not put aside for the waiter it went to.    *)
ReturnAssignNotReserved(r) ==
    LET t == isbn[rcopy[r]]
    IN  /\ pc[r] = "return_assign"
        /\ \E first \in Waiting(t) :
              LET entry == queue[t][first]
              IN  /\ \A i \in Waiting(t) : first <= i
                  /\ queue' = [queue EXCEPT ![t] = SubSeq(@, first + 1, Len(@))]
                  /\ resv' = [resv EXCEPT ![entry].status = "READY_FOR_PICKUP",
                                          ![entry].copy = rcopy[r]]
                  /\ assigned' = [assigned EXCEPT ![r] = entry]
        /\ Goto(r, "return_commit")
        /\ UNCHANGED <<rows, locks, raced, args, copyObj, userObj, dirty>>

(* Fault: the head of the queue is looked at, not taken.                   *)
ReturnAssignPeek(r) ==
    LET t == isbn[rcopy[r]]
    IN  /\ pc[r] = "return_assign"
        /\ Waiting(t) # {}
        /\ assigned' = [assigned EXCEPT ![r] = Head(queue[t])]
        /\ copyObj' = [copyObj EXCEPT ![r] =
                          Reserve(@, resv[Head(queue[t])].user)]
        /\ Goto(r, "return_commit")
        /\ UNCHANGED <<rows, locks, waitlist, args, userObj, dirty>>

ReturnAssign(r) ==
    LET t == isbn[rcopy[r]]
    IN  /\ pc[r] = "return_assign"
        /\ \E first \in Waiting(t) :
              LET entry == queue[t][first]
              IN  /\ \A i \in Waiting(t) : first <= i
                  /\ queue' = [queue EXCEPT ![t] = SubSeq(@, first + 1, Len(@))]
                  /\ resv' = [resv EXCEPT ![entry].status = "READY_FOR_PICKUP",
                                          ![entry].copy = rcopy[r]]
                  /\ assigned' = [assigned EXCEPT ![r] = entry]
                  /\ copyObj' = [copyObj EXCEPT ![r] =
                                    Reserve(@, resv[entry].user)]
        /\ Goto(r, "return_commit")
        /\ UNCHANGED <<rows, locks, raced, args, userObj, dirty>>

(* Fault: the queue of the title is emptied whoever waits in it.           *)
ReturnQueueEmptied(r) ==
    LET t == isbn[rcopy[r]]
    IN  /\ pc[r] = "return_assign"
        /\ queue' = [queue EXCEPT ![t] = IF @ = None THEN None ELSE <<>>]
        /\ Goto(r, "return_commit")
        /\ UNCHANGED <<rows, locks, resv, raced, args, objs>>

ReturnNoWaiter(r) ==
    LET t == isbn[rcopy[r]]
    IN  /\ pc[r] = "return_assign"
        /\ Waiting(t) = {}
        /\ queue' = [queue EXCEPT ![t] = IF @ = None THEN None ELSE <<>>]
        /\ Goto(r, "return_commit")
        /\ UNCHANGED <<rows, locks, resv, raced, args, objs>>

(* Fault: the event names the user the copy is put aside for.              *)
ReturnCommitReserver(r) ==
    LET u == ruser[r]
    IN  /\ pc[r] = "return_commit"
        /\ copyRow' = [copyRow EXCEPT ![rcopy[r]] = copyObj[r]]
        /\ userRow' = [userRow EXCEPT ![u] =
              [col \in Columns |-> IF col \in dirty[r] THEN userObj[r][col]
                                                       ELSE userRow[u][col]]]
        /\ outbox' = Append(outbox,
              [topic |-> "copy.returned", copy |-> rcopy[r],
               user |-> IF assigned[r] = None THEN u ELSE ruser[assigned[r]],
               res |-> assigned[r]])
        /\ Unlock(r)
        /\ Goto(r, "done")
        /\ UNCHANGED <<waitlist, args, objs>>

ReturnCommit(r) ==
    LET u == ruser[r]
    IN  /\ pc[r] = "return_commit"
        /\ copyRow' = [copyRow EXCEPT ![rcopy[r]] = copyObj[r]]
        /\ userRow' = [userRow EXCEPT ![u] =
              [col \in Columns |-> IF col \in dirty[r] THEN userObj[r][col]
                                                       ELSE userRow[u][col]]]
        /\ outbox' = Append(outbox,
              [topic |-> "copy.returned", copy |-> rcopy[r],
               user |-> u, res |-> assigned[r]])
        /\ Unlock(r)
        /\ Goto(r, "done")
        /\ UNCHANGED <<waitlist, args, objs>>

(***************************************************************************)
(* reserve_book: no lock protects the dictionary or the deque.             *)
(***************************************************************************)
ReserveBegin(r, t, u) ==
    /\ pc[r] = "idle"
    /\ ruser' = [ruser EXCEPT ![r] = u]
    /\ rtitle' = [rtitle EXCEPT ![r] = t]
    /\ Goto(r, IF queue[t] = None THEN "reserve_create" ELSE "reserve_check")
    /\ UNCHANGED <<rows, locks, waitlist, rcopy, objs>>

ReserveCreate(r) ==
    /\ pc[r] = "reserve_create"
    /\ queue' = [queue EXCEPT ![rtitle[r]] = <<>>]
    /\ Goto(r, "reserve_check")
    /\ UNCHANGED <<rows, locks, resv, raced, args, objs>>

ReserveCheck(r) ==
    LET q == queue[rtitle[r]]
        mine == {i \in DOMAIN q :
                    /\ resv[q[i]].user = ruser[r]
                    /\ resv[q[i]].status \in {"PENDING", "READY_FOR_PICKUP"}}
    IN  /\ pc[r] = "reserve_check"
        /\ Goto(r, IF mine = {} THEN "reserve_append" ELSE "done")
        /\ UNCHANGED <<rows, locks, waitlist, args, objs>>

(* Requests that found no deque for the title and will put one there,      *)
(* whatever the title has by then.                                         *)
Creating(t) == {q \in Reserves : pc[q] = "reserve_create" /\ rtitle[q] = t}

ReserveAppend(r) ==
    LET t == rtitle[r]
    IN  /\ pc[r] = "reserve_append"
        /\ queue' = [queue EXCEPT ![t] = Append(@, r)]
        /\ resv' = [resv EXCEPT ![r] =
              [status |-> "PENDING", user |-> ruser[r], title |-> t,
               copy |-> None]]
        /\ raced' = IF Creating(t) = {} THEN raced ELSE raced \cup {r}
        /\ Goto(r, "done")
        /\ UNCHANGED <<rows, locks, args, objs>>

(***************************************************************************)
(* Failures.  A statement or the commit fails: the transaction is rolled   *)
(* back, what the request did to the process's own memory stays.  A        *)
(* restart of the process ends every request and forgets the queues.       *)
(***************************************************************************)
(* Fault: save_event commits in a session of its own.                      *)
RollbackKeepingEvent(r) ==
    /\ pc[r] \in InTransaction
    /\ outbox' = IF pc[r] = "issue_commit"
                 THEN Append(outbox, [topic |-> "copy.issued", copy |-> rcopy[r],
                                      user |-> ruser[r], res |-> None])
                 ELSE outbox
    /\ Unlock(r)
    /\ Goto(r, "failed")
    /\ UNCHANGED <<copyRow, userRow, waitlist, args, objs>>

Rollback(r) ==
    /\ pc[r] \in InTransaction
    /\ Raise(r)

Restart ==
    /\ \E r \in Requests : pc[r] # "idle"
    /\ pc' = [r \in Requests |-> IF pc[r] \in {"idle", "done"} THEN pc[r]
                                                               ELSE "failed"]
    /\ copyLock' = [c \in Copies |-> None]
    /\ userLock' = [u \in Users |-> None]
    /\ queue' = [t \in Titles |-> None]
    /\ resv' = [r \in Requests |-> NoReservation]
    /\ raced' = {}
    /\ UNCHANGED <<rows, args, objs>>

-----------------------------------------------------------------------------
(* What a request that has begun does next, left to itself.                *)
Step(r) ==
    \/ IssueUser(r) \/ IssueRefuse(r) \/ IssueCommit(r)
    \/ ReturnMerge(r) \/ ReturnFlush(r) \/ ReturnAssign(r)
    \/ ReturnNoWaiter(r) \/ ReturnCommit(r)
    \/ ReserveCreate(r) \/ ReserveCheck(r) \/ ReserveAppend(r)

Next ==
    \/ \E r \in Issues, c \in Copies, u \in Users : IssueLock(r, c, u)
    \/ \E r \in Returns, c \in Copies :
          ReturnLock(r, c) \/ ReturnNotIssued(r, c)
    \/ \E r \in Reserves, t \in Titles, u \in Users : ReserveBegin(r, t, u)
    \/ \E r \in Requests : Step(r) \/ Rollback(r)
    \/ Restart

Spec == Init /\ [][Next]_vars

(* A thread that is not blocked on a row lock keeps running.               *)
FairSpec == Spec /\ \A r \in Requests : WF_vars(Step(r))
-----------------------------------------------------------------------------
(***************************************************************************)
(* Properties.                                                             *)
(***************************************************************************)
(* Every variable of the model keeps the shape the code gives it.          *)
TypeOK ==
    /\ copyRow \in [Copies -> BookCopy]
    /\ userRow \in [Users -> UserRow]
    /\ outbox \in Seq(Event)
    /\ copyLock \in [Copies -> Requests \cup {None}]
    /\ userLock \in [Users -> Requests \cup {None}]
    /\ queue \in [Titles -> Seq(Requests) \cup {None}]
    /\ resv \in [Requests -> Reservation]
    /\ raced \subseteq Requests
    /\ pc \in [Requests -> {"idle"} \cup InTransaction \cup Reserving \cup Answered]
    /\ rcopy \in [Requests -> Copies \cup {None}]
    /\ ruser \in [Requests -> Users \cup {None}]
    /\ rtitle \in [Requests -> Titles \cup {None}]
    /\ copyObj \in [Requests -> BookCopy \cup {None}]
    /\ userObj \in [Requests -> UserRow]
    /\ dirty \in [Requests -> SUBSET Columns]
    /\ assigned \in [Requests -> Requests \cup {None}]

Issued(i, c) == outbox[i].topic = "copy.issued" /\ outbox[i].copy = c
Returned(i, c) == outbox[i].topic = "copy.returned" /\ outbox[i].copy = c

(* i is the last committed event about copy c.                             *)
LastEvent(i, c) ==
    /\ i \in DOMAIN outbox
    /\ outbox[i].copy = c
    /\ \A j \in DOMAIN outbox : j > i => outbox[j].copy # c

(* The promise of issue_physical_book: however checkouts and returns       *)
(* interleave, fail and restart, two committed checkouts of a copy have a  *)
(* committed return of it between them.                                    *)
NoDoubleCheckout ==
    \A c \in Copies : \A i, j \in DOMAIN outbox :
        i < j /\ Issued(i, c) /\ Issued(j, c)
            => \E k \in DOMAIN outbox : i < k /\ k < j /\ Returned(k, c)

(* The copy row names a borrower exactly while the last event committed    *)
(* about the copy is its checkout by that user: state and event are one    *)
(* transaction, and status and current_borrower_id move together.          *)
HolderAgrees ==
    \A c \in Copies :
        /\ copyRow[c].status = "ISSUED" <=> copyRow[c].borrower # None
        /\ \A u \in Users :
              copyRow[c].borrower = u <=>
                 \E i \in DOMAIN outbox :
                    /\ LastEvent(i, c)
                    /\ outbox[i].topic = "copy.issued" /\ outbox[i].user = u

(* A copy that a return assigned to a waiting user is issued next to that  *)
(* user and to nobody else.                                                *)
HeldForReserver ==
    \A c \in Copies : \A i, j \in DOMAIN outbox :
        (/\ i < j /\ Returned(i, c) /\ Issued(j, c)
         /\ \A k \in DOMAIN outbox : i < k /\ k < j => outbox[k].copy # c
         /\ outbox[i].res # None)
            => outbox[j].user = ruser[outbox[i].res]

(* A place in the reservation queue is used up by one return: concurrent   *)
(* returns of two copies of a title never promise both to one entry.       *)
AssignedOnce ==
    \A i, j \in DOMAIN outbox :
        outbox[i].res = outbox[j].res /\ outbox[i].res # None => i = j

(* An accepted reservation is never forgotten by the running process: it   *)
(* waits in its queue, and once it is ready a return has committed the     *)
(* copy, is about to, or has failed after telling the user.  The one       *)
(* exception is a reservation that was accepted while another request had  *)
(* found no queue of the title and not yet made one: that request puts an  *)
(* empty deque in place of the one in use.                                 *)
ReservationKept ==
    \A r \in Reserves :
        /\ resv[r].status = "PENDING" =>
              \/ \E i \in DOMAIN queue[resv[r].title] : queue[resv[r].title][i] = r
              \/ r \in raced
        /\ resv[r].status = "READY_FOR_PICKUP" =>
              \/ \E i \in DOMAIN outbox : outbox[i].res = r
              \/ \E q \in Returns : assigned[q] = r /\ pc[q] \in {"return_commit", "failed"}

IssuedTo(u) == {c \in Copies : copyRow[c].borrower = u}

(* As long as no return by a user is committed, the row lock taken by the  *)
(* checkouts keeps the list of loans in the user row equal to what the     *)
(* copy rows say, so concurrent checkouts cannot pass the borrow limit.    *)
LimitUntilReturn ==
    \A u \in Users :
        (\A i \in DOMAIN outbox :
            outbox[i].user = u => outbox[i].topic # "copy.returned")
          => /\ userRow[u].borrowed = IssuedTo(u)
             /\ Cardinality(IssuedTo(u)) <= MaxBorrow

(***************************************************************************)
(* Refinement: the copy rows and the outbox, seen as a ledger of loans.    *)
(***************************************************************************)
Entry(event) == <<event.topic, event.copy, event.user>>

Ledger == INSTANCE LoanLedger WITH
    holder <- [c \in Copies |-> copyRow[c].borrower],
    aside  <- [c \in Copies |-> IF copyRow[c].status = "RESERVED"
                                THEN copyRow[c].reserver ELSE None],
    log    <- [i \in DOMAIN outbox |-> Entry(outbox[i])]

(* The requests of CirculationService, with all their steps, row locks,    *)
(* rollbacks and restarts, implement the ledger: each commit is one loan   *)
(* or one return and its log entry, and every other step is invisible.     *)
ImplementsLedger == Ledger!Spec

(* Row locks are taken copy first, user second, one of each: every request *)
(* that has begun is answered, none waits for ever.                        *)
EveryRequestAnswered ==
    \A r \in Requests :
        pc[r] \in InTransaction \cup Reserving ~> pc[r] \in Answered
=============================================================================

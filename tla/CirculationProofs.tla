-------------------------- MODULE CirculationProofs --------------------------
(* Proofs about Circulation for any number of copies, users and requests.  *)
EXTENDS Circulation, TLAPS, SequenceTheorems, FiniteSetTheorems

(***************************************************************************)
(* What the methods of BookCopy return.                                    *)
(***************************************************************************)
(* A copy object stays a copy object under the methods the service calls.  *)
LEMMA CopyMethodsType ==
    ASSUME NEW copy \in BookCopy
    PROVE  /\ ReturnBook(copy) \in BookCopy
           /\ \A u \in Users : /\ CheckOut(copy, u) \in BookCopy
                               /\ Reserve(copy, u) \in BookCopy
BY DEF BookCopy, BookStatus, CheckOut, ReturnBook, Reserve

(* Adding a loan to a user object, or removing one, gives a user object.   *)
LEMMA UserMethodsType ==
    ASSUME NEW user \in UserRow, NEW S \in SUBSET Copies
    PROVE  [user EXCEPT !.borrowed = S] \in UserRow
BY DEF UserRow

(***************************************************************************)
(* Type correctness.  The type invariant needs to know that a request in   *)
(* its transaction holds a copy and a user, that one appending to a deque  *)
(* finds one, and that a reservation names its user.                       *)
(***************************************************************************)
ArgsOK ==
    \A r \in Requests :
        /\ pc[r] \in InTransaction =>
              /\ rcopy[r] \in Copies /\ ruser[r] \in Users
              /\ copyObj[r] \in BookCopy
        /\ pc[r] \in Reserving => ruser[r] \in Users /\ rtitle[r] \in Titles
        /\ pc[r] \in {"reserve_check", "reserve_append"} =>
              queue[rtitle[r]] \in Seq(Requests)
        /\ resv[r].status # "NONE" => resv[r].user \in Users

TypeInv == TypeOK /\ ArgsOK

(* The state a freshly seeded database and a new process are in.           *)
LEMMA InitType == Init => TypeInv
<1> SUFFICES ASSUME Init PROVE TypeInv
  OBVIOUS
<1>1. copyRow \in [Copies -> BookCopy]
  BY DEF Init, NewCopy, BookCopy, BookStatus
<1>2. userRow \in [Users -> UserRow] /\ userObj \in [Requests -> UserRow]
  BY CirculationAssumption DEF Init, UserRow, NoUser
<1>3. resv \in [Requests -> Reservation]
  BY DEF Init, Reservation, NoReservation
<1>4. TypeOK
  BY <1>1, <1>2, <1>3 DEF Init, TypeOK
<1>5. ArgsOK
  BY DEF Init, ArgsOK, NoReservation, InTransaction, Reserving
<1> QED
  BY <1>4, <1>5 DEF TypeInv

(* An entry that waits is the reservation of a request.                    *)
LEMMA WaitingEntry ==
    ASSUME TypeOK, NEW t \in Titles, NEW i \in Waiting(t)
    PROVE  /\ queue[t] \in Seq(Requests) /\ i \in 1 .. Len(queue[t])
           /\ queue[t][i] \in Requests /\ resv[queue[t][i]].status = "PENDING"
<1>1. queue[t] # None /\ i \in DOMAIN queue[t] /\ resv[queue[t][i]].status = "PENDING"
  BY DEF Waiting
<1>2. queue[t] \in Seq(Requests)
  BY <1>1 DEF TypeOK
<1>3. i \in 1 .. Len(queue[t])
  BY <1>1, <1>2
<1> QED
  BY <1>1, <1>2, <1>3

(* Releasing the locks of a request keeps the lock tables well formed.     *)
LEMMA UnlockType ==
    ASSUME TypeOK, NEW r, Unlock(r)
    PROVE  /\ copyLock' \in [Copies -> Requests \cup {None}]
           /\ userLock' \in [Users -> Requests \cup {None}]
BY DEF TypeOK, Unlock

(* The error path changes nothing but locks and the request's own state.   *)
LEMMA RaiseType ==
    ASSUME TypeInv, NEW r \in Requests, Raise(r)
    PROVE  TypeInv'
<1>1. TypeOK'
  BY UnlockType DEF TypeInv, TypeOK, Raise, Goto, rows, waitlist, args, objs, Answered
<1>2. ArgsOK'
  BY DEF TypeInv, TypeOK, ArgsOK, Raise, Goto, rows, waitlist, args, objs, InTransaction,
         Reserving
<1> QED
  BY <1>1, <1>2 DEF TypeInv

(* Every step of every request keeps the types.                            *)
LEMMA NextType == TypeInv /\ [Next]_vars => TypeInv'
<1> SUFFICES ASSUME TypeInv, [Next]_vars PROVE TypeInv'
  OBVIOUS
<1> USE DEF TypeInv
<1>1. ASSUME NEW r \in Issues, NEW c \in Copies, NEW u \in Users, IssueLock(r, c, u)
      PROVE  TypeInv'
  <2> r \in Requests
    BY DEF Requests
  <2>1. TypeOK'
    BY <1>1 DEF IssueLock, TypeOK, Goto, rows, waitlist, InTransaction
  <2>2. ArgsOK'
    BY <1>1 DEF IssueLock, TypeOK, ArgsOK, Goto, rows, waitlist, InTransaction, Reserving
  <2> QED
    BY <2>1, <2>2
<1>2. ASSUME NEW r \in Returns, NEW c \in Copies, ReturnLock(r, c)
      PROVE  TypeInv'
  <2> r \in Requests
    BY DEF Requests
  <2>0. copyRow[c] \in BookCopy /\ copyRow[c].borrower \in Users
    BY <1>2 DEF ReturnLock, TypeOK, BookCopy
  <2>a. userRow[copyRow[c].borrower] \in UserRow
    BY <2>0 DEF TypeOK
  <2>b. userRow[copyRow[c].borrower].borrowed \ {c} \in SUBSET Copies
    BY <2>a DEF UserRow
  <2>c. [userRow[copyRow[c].borrower] EXCEPT !.borrowed = @ \ {c}] \in UserRow
    BY <2>a, <2>b, UserMethodsType
  <2>1. TypeOK'
    BY <1>2, <2>0, <2>c DEF ReturnLock, TypeOK, Goto, rows, waitlist, InTransaction
  <2>2. ArgsOK'
    BY <1>2, <2>0
       DEF ReturnLock, TypeOK, ArgsOK, Goto, rows, waitlist, InTransaction, Reserving
  <2> QED
    BY <2>1, <2>2
<1>3. ASSUME NEW r \in Returns, NEW c \in Copies, ReturnNotIssued(r, c)
      PROVE  TypeInv'
  <2> r \in Requests
    BY DEF Requests
  <2> QED
    BY <1>3 DEF ReturnNotIssued, TypeOK, ArgsOK, Goto, rows, locks, waitlist, args, objs,
                InTransaction, Reserving, Answered
<1>4. ASSUME NEW r \in Reserves, NEW t \in Titles, NEW u \in Users,
             ReserveBegin(r, t, u)
      PROVE  TypeInv'
  <2> r \in Requests
    BY DEF Requests
  <2>1. TypeOK'
    BY <1>4 DEF ReserveBegin, TypeOK, Goto, rows, locks, waitlist, objs, Reserving
  <2>2. ArgsOK'
    BY <1>4 DEF ReserveBegin, TypeOK, ArgsOK, Goto, rows, locks, waitlist, objs,
                InTransaction, Reserving
  <2> QED
    BY <2>1, <2>2
<1>5. ASSUME NEW r \in Requests, IssueUser(r)
      PROVE  TypeInv'
  <2>0. rcopy[r] \in Copies /\ ruser[r] \in Users /\ copyObj[r] \in BookCopy
    BY <1>5 DEF IssueUser, ArgsOK, InTransaction
  <2>a. CheckOut(copyObj[r], ruser[r]) \in BookCopy
    BY <2>0, CopyMethodsType
  <2>b. userRow[ruser[r]] \in UserRow
    BY <2>0 DEF TypeOK
  <2>c. userRow[ruser[r]].borrowed \cup {rcopy[r]} \in SUBSET Copies
    BY <2>0, <2>b DEF UserRow
  <2>d. [userRow[ruser[r]] EXCEPT !.borrowed = @ \cup {rcopy[r]}] \in UserRow
    BY <2>b, <2>c, UserMethodsType
  <2>1. TypeOK'
    BY <1>5, <2>0, <2>a, <2>d DEF IssueUser, TypeOK, Goto, rows, waitlist, args, InTransaction
  <2>2. ArgsOK'
    BY <1>5, <2>0, <2>a
       DEF IssueUser, TypeOK, ArgsOK, Goto, rows, waitlist, args, InTransaction, Reserving
  <2> QED
    BY <2>1, <2>2
<1>6. ASSUME NEW r \in Requests, IssueRefuse(r) \/ Rollback(r)
      PROVE  TypeInv'
  BY <1>6, RaiseType DEF IssueRefuse, Rollback
<1>7. ASSUME NEW r \in Requests, IssueCommit(r)
      PROVE  TypeInv'
  <2>0. /\ copyObj[r] \in BookCopy /\ rcopy[r] \in Copies /\ ruser[r] \in Users
        /\ [topic |-> "copy.issued", copy |-> rcopy[r], user |-> ruser[r], res |-> None]
              \in Event
    BY <1>7 DEF IssueCommit, ArgsOK, InTransaction, Event
  <2>1. TypeOK'
    BY <1>7, <2>0, UnlockType DEF IssueCommit, TypeOK, Goto, waitlist, args, objs, Answered
  <2>2. ArgsOK'
    BY <1>7 DEF IssueCommit, TypeOK, ArgsOK, Goto, waitlist, args, objs, InTransaction,
                Reserving
  <2> QED
    BY <2>1, <2>2
<1>8. ASSUME NEW r \in Requests, ReturnMerge(r)
      PROVE  TypeInv'
  <2>1. CASE CanReturn(copyObj[r])
    <3>0. ReturnBook(copyObj[r]) \in BookCopy
      <4>1. copyObj[r] \in BookCopy
        BY <1>8 DEF ReturnMerge, ArgsOK, InTransaction
      <4> QED
        BY <4>1, CopyMethodsType
    <3>a. dirty' \in [Requests -> SUBSET Columns]
      BY <1>8, <2>1 DEF ReturnMerge, TypeOK
    <3>b. copyObj' \in [Requests -> BookCopy \cup {None}]
      BY <1>8, <2>1, <3>0 DEF ReturnMerge, TypeOK
    <3>1. TypeOK'
      BY <1>8, <2>1, <3>a, <3>b
         DEF ReturnMerge, TypeOK, Goto, rows, locks, waitlist, args, InTransaction
    <3>2. ArgsOK'
      BY <1>8, <2>1, <3>0 DEF ReturnMerge, TypeOK, ArgsOK, Goto, rows, locks, waitlist, args,
                              InTransaction, Reserving
    <3> QED
      BY <3>1, <3>2
  <2>2. CASE ~ CanReturn(copyObj[r])
    BY <1>8, <2>2, RaiseType DEF ReturnMerge
  <2> QED
    BY <2>1, <2>2
<1>8f. ASSUME NEW r \in Requests, ReturnFlush(r)
       PROVE  TypeInv'
  <2>0. ruser[r] \in Users
    BY <1>8f DEF ReturnFlush, ArgsOK, InTransaction
  <2>1. TypeOK'
    BY <1>8f, <2>0
       DEF ReturnFlush, TypeOK, Goto, rows, waitlist, args, objs, InTransaction
  <2>2. ArgsOK'
    BY <1>8f DEF ReturnFlush, TypeOK, ArgsOK, Goto, rows, waitlist, args, objs,
                 InTransaction, Reserving
  <2> QED
    BY <2>1, <2>2
<1>9. ASSUME NEW r \in Requests, ReturnAssign(r)
      PROVE  TypeInv'
  <2> DEFINE t == isbn[rcopy[r]]
  <2>0. rcopy[r] \in Copies /\ ruser[r] \in Users /\ copyObj[r] \in BookCopy /\ t \in Titles
    BY <1>9, CirculationAssumption DEF ReturnAssign, ArgsOK, InTransaction
  <2>1. PICK first \in Waiting(t) :
          LET entry == queue[t][first]
          IN  /\ queue' = [queue EXCEPT ![t] = SubSeq(@, first + 1, Len(@))]
              /\ resv' = [resv EXCEPT ![entry].status = "READY_FOR_PICKUP",
                                      ![entry].copy = rcopy[r]]
              /\ assigned' = [assigned EXCEPT ![r] = entry]
              /\ copyObj' = [copyObj EXCEPT ![r] = Reserve(@, resv[entry].user)]
    BY <1>9 DEF ReturnAssign
  <2> DEFINE entry == queue[t][first]
  <2>2. queue[t] \in Seq(Requests) /\ first \in 1 .. Len(queue[t])
    BY ONLY <2>0, first \in Waiting(t), TypeOK, WaitingEntry
  <2>3. entry \in Requests /\ resv[entry].status = "PENDING"
    BY ONLY <2>0, first \in Waiting(t), TypeOK, WaitingEntry
  <2>4. resv[entry] \in Reservation /\ resv[entry].user \in Users
    BY <2>3 DEF TypeOK, ArgsOK
  <2>5. Reserve(copyObj[r], resv[entry].user) \in BookCopy
    BY <2>0, <2>4, CopyMethodsType
  <2>6. SubSeq(queue[t], first + 1, Len(queue[t])) \in Seq(Requests)
    BY <2>2
  <2>7. queue' \in [Titles -> Seq(Requests) \cup {None}]
    BY <2>0, <2>1, <2>6 DEF TypeOK
  <2>8. resv' \in [Requests -> Reservation]
    BY <2>0, <2>1, <2>3, <2>4 DEF TypeOK, Reservation
  <2>9. TypeOK'
    BY <1>9, <2>1, <2>3, <2>5, <2>7, <2>8
       DEF ReturnAssign, TypeOK, Goto, rows, locks, args, InTransaction
  <2>10. ASSUME NEW q \in Requests
         PROVE  /\ pc'[q] \in InTransaction =>
                      rcopy'[q] \in Copies /\ ruser'[q] \in Users /\ copyObj'[q] \in BookCopy
                /\ pc'[q] \in Reserving => ruser'[q] \in Users /\ rtitle'[q] \in Titles
    BY <1>9, <2>0, <2>1, <2>5
       DEF ReturnAssign, TypeOK, ArgsOK, Goto, args, InTransaction, Reserving
  <2>11. ASSUME NEW q \in Requests, pc'[q] \in {"reserve_check", "reserve_append"}
         PROVE  queue'[rtitle'[q]] \in Seq(Requests)
    BY <1>9, <2>0, <2>1, <2>6, <2>11
       DEF ReturnAssign, TypeOK, ArgsOK, Goto, args, Reserving
  <2>12. ASSUME NEW q \in Requests, resv'[q].status # "NONE"
         PROVE  resv'[q].user \in Users
    BY <2>1, <2>3, <2>4, <2>12 DEF TypeOK, ArgsOK, Reservation
  <2> QED
    BY <2>9, <2>10, <2>11, <2>12 DEF ArgsOK
<1>10. ASSUME NEW r \in Requests, ReturnNoWaiter(r)
       PROVE  TypeInv'
  <2>1. rcopy[r] \in Copies /\ ruser[r] \in Users /\ isbn[rcopy[r]] \in Titles
    BY <1>10, CirculationAssumption DEF ReturnNoWaiter, ArgsOK, InTransaction
  <2>2. queue' \in [Titles -> Seq(Requests) \cup {None}]
    BY <1>10, <2>1 DEF ReturnNoWaiter, TypeOK
  <2>3. TypeOK'
    BY <1>10, <2>2
       DEF ReturnNoWaiter, TypeOK, Goto, rows, locks, args, objs, InTransaction
  <2>4. ArgsOK'
    BY <1>10, <2>1 DEF ReturnNoWaiter, TypeOK, ArgsOK, Goto, rows, locks, args, objs,
                       InTransaction, Reserving
  <2> QED
    BY <2>3, <2>4
<1>11. ASSUME NEW r \in Requests, ReturnCommit(r)
       PROVE  TypeInv'
  <2>0. copyObj[r] \in BookCopy /\ rcopy[r] \in Copies /\ ruser[r] \in Users
    BY <1>11 DEF ReturnCommit, ArgsOK, InTransaction
  <2>1. [topic |-> "copy.returned", copy |-> rcopy[r], user |-> ruser[r],
         res |-> assigned[r]] \in Event
    BY <2>0 DEF TypeOK, Event
  <2> DEFINE row == [col \in Columns |-> IF col \in dirty[r] THEN userObj[r][col]
                                          ELSE userRow[ruser[r]][col]]
  <2>2. row \in UserRow
    <3>1. userObj[r] \in UserRow /\ userRow[ruser[r]] \in UserRow
      BY <2>0 DEF TypeOK
    <3>2. row = [borrowed |-> row["borrowed"], fines |-> row["fines"]]
      BY DEF Columns
    <3>3. row["borrowed"] \in SUBSET Copies /\ row["fines"] \in Nat
      BY <3>1 DEF Columns, UserRow
    <3> QED
      BY <3>2, <3>3 DEF UserRow
  <2>3. TypeOK'
    BY <1>11, <2>0, <2>1, <2>2, UnlockType
       DEF ReturnCommit, TypeOK, Goto, waitlist, args, objs, Answered
  <2>4. ArgsOK'
    BY <1>11 DEF ReturnCommit, TypeOK, ArgsOK, Goto, waitlist, args, objs, InTransaction,
                 Reserving
  <2> QED
    BY <2>3, <2>4
<1>12. ASSUME NEW r \in Requests, ReserveCreate(r)
       PROVE  TypeInv'
  <2>1. rtitle[r] \in Titles /\ ruser[r] \in Users
    BY <1>12 DEF ReserveCreate, ArgsOK, Reserving
  <2>2. queue' \in [Titles -> Seq(Requests) \cup {None}]
    BY <1>12, <2>1 DEF ReserveCreate, TypeOK
  <2>3. TypeOK'
    BY <1>12, <2>2 DEF ReserveCreate, TypeOK, Goto, rows, locks, args, objs, Reserving
  <2>4. ArgsOK'
    BY <1>12, <2>1 DEF ReserveCreate, TypeOK, ArgsOK, Goto, rows, locks, args, objs,
                       InTransaction, Reserving
  <2> QED
    BY <2>3, <2>4
<1>13. ASSUME NEW r \in Requests, ReserveCheck(r)
       PROVE  TypeInv'
  <2>1. TypeOK'
    BY <1>13 DEF ReserveCheck, TypeOK, Goto, rows, locks, waitlist, args, objs, Reserving,
                 Answered
  <2>2. ArgsOK'
    BY <1>13 DEF ReserveCheck, TypeOK, ArgsOK, Goto, rows, locks, waitlist, args, objs,
                 InTransaction, Reserving
  <2> QED
    BY <2>1, <2>2
<1>14. ASSUME NEW r \in Requests, ReserveAppend(r)
       PROVE  TypeInv'
  <2>1. /\ rtitle[r] \in Titles /\ ruser[r] \in Users
        /\ queue[rtitle[r]] \in Seq(Requests)
    BY <1>14 DEF ReserveAppend, ArgsOK, Reserving
  <2>2. queue' \in [Titles -> Seq(Requests) \cup {None}]
    BY <1>14, <2>1 DEF ReserveAppend, TypeOK
  <2>3. resv' \in [Requests -> Reservation]
    BY <1>14, <2>1 DEF ReserveAppend, TypeOK, Reservation
  <2>4. TypeOK'
    BY <1>14, <2>2, <2>3
       DEF ReserveAppend, TypeOK, Goto, rows, locks, args, objs, Answered
  <2>5. ArgsOK'
    BY <1>14, <2>1 DEF ReserveAppend, TypeOK, ArgsOK, Goto, rows, locks, args, objs,
                       InTransaction, Reserving
  <2> QED
    BY <2>4, <2>5
<1>15. CASE Restart
  <2>1. TypeOK'
    BY <1>15 DEF Restart, TypeOK, rows, args, objs, Reservation, NoReservation, Answered
  <2>2. ArgsOK'
    BY <1>15 DEF Restart, TypeOK, ArgsOK, rows, args, objs, NoReservation, InTransaction,
                 Reserving
  <2> QED
    BY <2>1, <2>2
<1>16. CASE UNCHANGED vars
  BY <1>16 DEF vars, rows, locks, waitlist, args, objs, TypeOK, ArgsOK
<1> QED
  BY <1>1, <1>2, <1>3, <1>4, <1>5, <1>6, <1>7, <1>8, <1>8f, <1>9, <1>10, <1>11, <1>12, <1>13,
     <1>14, <1>15, <1>16 DEF Next, Step

(* Every reachable state of the circulation service is well typed: each    *)
(* row, lock, queue and request object has the shape its code gives it,    *)
(* however requests interleave, fail and restart.                          *)
THEOREM TypeCorrect == Spec => []TypeOK
<1>1. Spec => []TypeInv
  BY InitType, NextType, PTL DEF Spec
<1> QED
  BY <1>1, PTL DEF TypeInv

-----------------------------------------------------------------------------
(***************************************************************************)
(* Exactly one checkout.  NoDoubleCheckout is not inductive: a checkout    *)
(* commits what it decided when it read the copy.  What carries the        *)
(* decision to the commit is the row lock (Holding), so that the object in *)
(* the request's hands still describes the row (CopyObjOK); the row in     *)
(* turn describes the committed events (HolderAgrees, Closed).             *)
(***************************************************************************)
Holding ==
    \A r \in Requests : pc[r] \in InTransaction => copyLock[rcopy[r]] = r

CopyObjOK ==
    \A r \in Requests :
        /\ pc[r] \in {"issue_user", "return_merge"} => copyObj[r] = copyRow[rcopy[r]]
        /\ pc[r] = "issue_commit" =>
              /\ copyRow[rcopy[r]].borrower = None
              /\ Issuable(copyRow[rcopy[r]], ruser[r])
              /\ copyObj[r].status = "ISSUED" /\ copyObj[r].borrower = ruser[r]
        /\ pc[r] \in {"return_merge", "return_flush", "return_assign", "return_commit"} =>
              copyRow[rcopy[r]].borrower = ruser[r]
        /\ pc[r] \in {"return_flush", "return_assign", "return_commit"} =>
              copyObj[r].status # "ISSUED" /\ copyObj[r].borrower = None

Closed ==
    \A c \in Copies :
        copyRow[c].borrower = None =>
            \A i \in DOMAIN outbox :
                Issued(i, c) => \E k \in DOMAIN outbox : i < k /\ Returned(k, c)

RowsOK == HolderAgrees /\ Closed /\ NoDoubleCheckout

CheckoutInv == TypeInv /\ Holding /\ CopyObjOK /\ RowsOK

(* Before the first request nothing is locked, issued or logged.           *)
LEMMA InitCheckout == Init => CheckoutInv
<1> SUFFICES ASSUME Init PROVE CheckoutInv
  OBVIOUS
<1>1. TypeInv
  BY InitType
<1>2. Holding /\ CopyObjOK
  BY DEF Init, Holding, CopyObjOK, InTransaction
<1>3. outbox = <<>> /\ DOMAIN outbox = {}
  BY DEF Init
<1>4. \A c \in Copies : copyRow[c].status = "AVAILABLE" /\ copyRow[c].borrower = None
  BY DEF Init, NewCopy
<1>5. HolderAgrees
  BY <1>3, <1>4, NoneAssumption DEF HolderAgrees
<1>6. Closed /\ NoDoubleCheckout
  BY <1>3 DEF Closed, NoDoubleCheckout
<1> QED
  BY <1>1, <1>2, <1>5, <1>6 DEF CheckoutInv, RowsOK

(* Steps that commit nothing leave rows and events as they are.            *)
LEMMA RowsUnchanged ==
    ASSUME RowsOK, UNCHANGED <<copyRow, outbox>>
    PROVE  RowsOK'
BY DEF RowsOK, HolderAgrees, Closed, NoDoubleCheckout, LastEvent, Issued, Returned

(* What a log with one more event looks like.                              *)
LEMMA AppendEvent ==
    ASSUME NEW s \in Seq(Event), NEW e \in Event
    PROVE  /\ Len(s) \in Nat
           /\ DOMAIN s = 1 .. Len(s)
           /\ DOMAIN Append(s, e) = 1 .. Len(s) + 1
           /\ Append(s, e)[Len(s) + 1] = e
           /\ \A i \in 1 .. Len(s) : Append(s, e)[i] = s[i]
OBVIOUS

(* The commit of a checkout of a copy nobody has.                          *)
LEMMA RowsIssue ==
    ASSUME TypeOK, RowsOK,
           NEW c \in Copies, NEW u \in Users, NEW copy \in BookCopy, NEW e \in Event,
           copyRow[c].borrower = None,
           copy.status = "ISSUED", copy.borrower = u,
           e.topic = "copy.issued", e.copy = c, e.user = u,
           copyRow' = [copyRow EXCEPT ![c] = copy],
           outbox' = Append(outbox, e)
    PROVE  RowsOK'
<1>1. PICK n \in Nat :
        /\ DOMAIN outbox = 1 .. n /\ DOMAIN outbox' = 1 .. n + 1
        /\ outbox'[n + 1] = e /\ \A i \in 1 .. n : outbox'[i] = outbox[i]
  BY AppendEvent DEF TypeOK
<1>2. /\ copyRow'[c] = copy
      /\ \A d \in Copies : d # c => copyRow'[d] = copyRow[d]
  BY DEF TypeOK
<1>3. HolderAgrees'
  <2> SUFFICES ASSUME NEW d \in Copies
               PROVE  /\ copyRow'[d].status = "ISSUED" <=> copyRow'[d].borrower # None
                      /\ \A v \in Users :
                           copyRow'[d].borrower = v <=>
                             \E i \in DOMAIN outbox' :
                               /\ LastEvent(i, d)'
                               /\ outbox'[i].topic = "copy.issued" /\ outbox'[i].user = v
    BY DEF HolderAgrees
  <2>1. CASE d = c
    BY <1>1, <1>2, <2>1, NoneAssumption DEF LastEvent
  <2>2. CASE d # c
    <3>1. \A i \in 1 .. n : LastEvent(i, d)' <=> LastEvent(i, d)
      BY <1>1, <2>2 DEF LastEvent
    <3>2. ~ LastEvent(n + 1, d)'
      BY <1>1, <2>2 DEF LastEvent
    <3> QED
      BY <1>1, <1>2, <2>2, <3>1, <3>2 DEF RowsOK, HolderAgrees
  <2> QED
    BY <2>1, <2>2
<1>4. Closed'
  BY <1>1, <1>2, NoneAssumption DEF RowsOK, Closed, Issued, Returned
<1>5. NoDoubleCheckout'
  <2> SUFFICES ASSUME NEW d \in Copies, NEW i \in 1 .. n + 1, NEW j \in 1 .. n + 1,
                      i < j, Issued(i, d)', Issued(j, d)'
               PROVE  \E k \in 1 .. n + 1 : i < k /\ k < j /\ Returned(k, d)'
    BY <1>1 DEF NoDoubleCheckout
  <2>1. CASE j = n + 1
    <3>1. d = c /\ i \in 1 .. n /\ Issued(i, c)
      BY <1>1, <2>1 DEF Issued
    <3>2. PICK k \in 1 .. n : i < k /\ Returned(k, c)
      BY <1>1, <3>1 DEF RowsOK, Closed
    <3> QED
      BY <1>1, <2>1, <3>1, <3>2 DEF Returned
  <2>2. CASE j \in 1 .. n
    <3>1. i \in 1 .. n /\ Issued(i, d) /\ Issued(j, d)
      BY <1>1, <2>2 DEF Issued
    <3>2. PICK k \in 1 .. n : i < k /\ k < j /\ Returned(k, d)
      BY <1>1, <2>2, <3>1 DEF RowsOK, NoDoubleCheckout
    <3> QED
      BY <1>1, <3>2 DEF Returned
  <2> QED
    BY <1>1, <2>1, <2>2
<1> QED
  BY <1>3, <1>4, <1>5 DEF RowsOK

(* The commit of a return.                                                 *)
LEMMA RowsReturn ==
    ASSUME TypeOK, RowsOK,
           NEW c \in Copies, NEW copy \in BookCopy, NEW e \in Event,
           copy.status # "ISSUED", copy.borrower = None,
           e.topic = "copy.returned", e.copy = c,
           copyRow' = [copyRow EXCEPT ![c] = copy],
           outbox' = Append(outbox, e)
    PROVE  RowsOK'
<1>1. PICK n \in Nat :
        /\ DOMAIN outbox = 1 .. n /\ DOMAIN outbox' = 1 .. n + 1
        /\ outbox'[n + 1] = e /\ \A i \in 1 .. n : outbox'[i] = outbox[i]
  BY AppendEvent DEF TypeOK
<1>2. /\ copyRow'[c] = copy
      /\ \A d \in Copies : d # c => copyRow'[d] = copyRow[d]
  BY DEF TypeOK
<1>3. HolderAgrees'
  <2> SUFFICES ASSUME NEW d \in Copies
               PROVE  /\ copyRow'[d].status = "ISSUED" <=> copyRow'[d].borrower # None
                      /\ \A v \in Users :
                           copyRow'[d].borrower = v <=>
                             \E i \in DOMAIN outbox' :
                               /\ LastEvent(i, d)'
                               /\ outbox'[i].topic = "copy.issued" /\ outbox'[i].user = v
    BY DEF HolderAgrees
  <2>1. CASE d = c
    BY <1>1, <1>2, <2>1, NoneAssumption DEF LastEvent
  <2>2. CASE d # c
    <3>1. \A i \in 1 .. n : LastEvent(i, d)' <=> LastEvent(i, d)
      BY <1>1, <2>2 DEF LastEvent
    <3>2. ~ LastEvent(n + 1, d)'
      BY <1>1, <2>2 DEF LastEvent
    <3> QED
      BY <1>1, <1>2, <2>2, <3>1, <3>2 DEF RowsOK, HolderAgrees
  <2> QED
    BY <2>1, <2>2
<1>4. Closed'
  <2> SUFFICES ASSUME NEW d \in Copies, copyRow'[d].borrower = None,
                      NEW i \in 1 .. n + 1, Issued(i, d)'
               PROVE  \E k \in 1 .. n + 1 : i < k /\ Returned(k, d)'
    BY <1>1 DEF Closed
  <2>0. i \in 1 .. n /\ Issued(i, d)
    BY <1>1 DEF Issued
  <2>1. CASE d = c
    <3>1. Returned(n + 1, d)'
      BY <1>1, <2>1 DEF Returned
    <3> QED
      BY <1>1, <2>0, <3>1
  <2>2. CASE d # c
    <3>1. PICK k \in 1 .. n : i < k /\ Returned(k, d)
      BY <1>1, <1>2, <2>0, <2>2 DEF RowsOK, Closed
    <3> QED
      BY <1>1, <3>1 DEF Returned
  <2> QED
    BY <2>1, <2>2
<1>5. NoDoubleCheckout'
  <2> SUFFICES ASSUME NEW d \in Copies, NEW i \in 1 .. n + 1, NEW j \in 1 .. n + 1,
                      i < j, Issued(i, d)', Issued(j, d)'
               PROVE  \E k \in 1 .. n + 1 : i < k /\ k < j /\ Returned(k, d)'
    BY <1>1 DEF NoDoubleCheckout
  <2>1. i \in 1 .. n /\ j \in 1 .. n /\ Issued(i, d) /\ Issued(j, d)
    BY <1>1 DEF Issued
  <2>2. PICK k \in 1 .. n : i < k /\ k < j /\ Returned(k, d)
    BY <1>1, <2>1 DEF RowsOK, NoDoubleCheckout
  <2> QED
    BY <1>1, <2>2 DEF Returned
<1> QED
  BY <1>3, <1>4, <1>5 DEF RowsOK

(* A request leaves its transaction and touches no row.                    *)
LEMMA RaiseCheckout ==
    ASSUME CheckoutInv, NEW r \in Requests, Raise(r)
    PROVE  Holding' /\ CopyObjOK' /\ RowsOK'
<1> USE DEF CheckoutInv, TypeInv
<1>1. Holding'
  BY DEF Raise, Unlock, Goto, TypeOK, ArgsOK, Holding, args, InTransaction
<1>2. CopyObjOK'
  BY DEF Raise, Goto, TypeOK, CopyObjOK, args, objs, rows
<1>3. RowsOK'
  BY RowsUnchanged DEF Raise, rows
<1> QED
  BY <1>1, <1>2, <1>3

(* The commit of request r touches the row only r has locked.              *)
LEMMA CommitCheckout ==
    ASSUME CheckoutInv, NEW r \in Requests, pc[r] \in InTransaction,
           copyRow' = [copyRow EXCEPT ![rcopy[r]] = copyObj[r]],
           Unlock(r), Goto(r, "done"), UNCHANGED <<args, objs>>
    PROVE  Holding' /\ CopyObjOK'
<1> USE DEF CheckoutInv, TypeInv
<1>1. Holding'
  BY DEF Unlock, Goto, TypeOK, ArgsOK, Holding, args, InTransaction
<1>2. \A q \in Requests : pc'[q] \in InTransaction =>
         /\ q # r /\ pc'[q] = pc[q]
         /\ rcopy[q] # rcopy[r] /\ copyRow'[rcopy[q]] = copyRow[rcopy[q]]
  BY DEF Goto, TypeOK, ArgsOK, Holding, InTransaction
<1>3. CopyObjOK'
  BY <1>2 DEF CopyObjOK, InTransaction, args, objs
<1> QED
  BY <1>1, <1>3

(* Every step keeps the row locks, the objects in hand, the rows and the   *)
(* events in agreement.                                                    *)
LEMMA NextCheckout == CheckoutInv /\ [Next]_vars => CheckoutInv'
<1> SUFFICES ASSUME CheckoutInv, [Next]_vars PROVE CheckoutInv'
  OBVIOUS
<1> USE DEF CheckoutInv, TypeInv
<1>0. TypeInv'
  BY NextType
<1> DEFINE Rest == Holding' /\ CopyObjOK' /\ RowsOK'
<1>1. ASSUME NEW r \in Issues, NEW c \in Copies, NEW u \in Users, IssueLock(r, c, u)
      PROVE  Rest
  <2> r \in Requests
    BY DEF Requests
  <2>1. Holding'
    BY <1>1, CirculationAssumption
       DEF IssueLock, Goto, TypeOK, ArgsOK, Holding, InTransaction
  <2>2. CopyObjOK'
    BY <1>1 DEF IssueLock, Goto, TypeOK, CopyObjOK, rows
  <2>3. RowsOK'
    BY <1>1, RowsUnchanged DEF IssueLock, rows
  <2> QED
    BY <2>1, <2>2, <2>3
<1>2. ASSUME NEW r \in Returns, NEW c \in Copies, ReturnLock(r, c)
      PROVE  Rest
  <2> r \in Requests
    BY DEF Requests
  <2>1. Holding'
    BY <1>2, CirculationAssumption
       DEF ReturnLock, Goto, TypeOK, ArgsOK, Holding, InTransaction
  <2>2. CopyObjOK'
    BY <1>2 DEF ReturnLock, Goto, TypeOK, CopyObjOK, rows
  <2>3. RowsOK'
    BY <1>2, RowsUnchanged DEF ReturnLock, rows
  <2> QED
    BY <2>1, <2>2, <2>3
<1>3. ASSUME NEW r \in Returns, NEW c \in Copies, ReturnNotIssued(r, c)
      PROVE  Rest
  <2> r \in Requests
    BY DEF Requests
  <2>1. RowsOK'
    BY <1>3, RowsUnchanged DEF ReturnNotIssued, rows
  <2> QED
    BY <1>3, <2>1 DEF ReturnNotIssued, Goto, TypeOK, Holding, CopyObjOK, rows, locks, args,
                      objs, InTransaction
<1>4. ASSUME NEW r \in Reserves, NEW t \in Titles, NEW u \in Users,
             ReserveBegin(r, t, u)
      PROVE  Rest
  <2> r \in Requests
    BY DEF Requests
  <2>1. RowsOK'
    BY <1>4, RowsUnchanged DEF ReserveBegin, rows
  <2>2. Holding'
    BY <1>4 DEF ReserveBegin, Goto, TypeOK, Holding, locks, InTransaction
  <2>3. CopyObjOK'
    BY <1>4 DEF ReserveBegin, Goto, TypeOK, CopyObjOK, rows, objs
  <2> QED
    BY <2>1, <2>2, <2>3
<1>5. ASSUME NEW r \in Requests, IssueUser(r)
      PROVE  Rest
  <2>1. Holding'
    BY <1>5 DEF IssueUser, Goto, TypeOK, Holding, args, InTransaction
  <2>2. /\ rcopy[r] \in Copies /\ ruser[r] \in Users
        /\ copyObj[r] = copyRow[rcopy[r]] /\ copyObj[r] \in BookCopy
        /\ Issuable(copyRow[rcopy[r]], ruser[r])
    BY <1>5 DEF IssueUser, ArgsOK, CopyObjOK, InTransaction
  <2>3. copyRow[rcopy[r]].borrower = None
    BY <2>2 DEF Issuable, RowsOK, HolderAgrees
  <2>4. /\ CheckOut(copyObj[r], ruser[r]).status = "ISSUED"
        /\ CheckOut(copyObj[r], ruser[r]).borrower = ruser[r]
    BY <2>2 DEF CheckOut, BookCopy
  <2>5. CopyObjOK'
    BY <1>5, <2>2, <2>3, <2>4 DEF IssueUser, Goto, TypeOK, CopyObjOK, Issuable, rows, args
  <2>6. RowsOK'
    BY <1>5, RowsUnchanged DEF IssueUser, rows
  <2> QED
    BY <2>1, <2>5, <2>6
<1>6. ASSUME NEW r \in Requests, IssueRefuse(r) \/ Rollback(r)
      PROVE  Rest
  BY <1>6, RaiseCheckout DEF IssueRefuse, Rollback
<1>7. ASSUME NEW r \in Requests, IssueCommit(r)
      PROVE  Rest
  <2>1. /\ rcopy[r] \in Copies /\ ruser[r] \in Users /\ copyObj[r] \in BookCopy
        /\ copyRow[rcopy[r]].borrower = None
        /\ copyObj[r].status = "ISSUED" /\ copyObj[r].borrower = ruser[r]
        /\ pc[r] \in InTransaction
    BY <1>7 DEF IssueCommit, ArgsOK, CopyObjOK, InTransaction
  <2> DEFINE e == [topic |-> "copy.issued", copy |-> rcopy[r], user |-> ruser[r],
                   res |-> None]
  <2>2. /\ e \in Event /\ e.topic = "copy.issued"
        /\ e.copy = rcopy[r] /\ e.user = ruser[r]
    BY <2>1 DEF Event
  <2>3. copyRow' = [copyRow EXCEPT ![rcopy[r]] = copyObj[r]] /\ outbox' = Append(outbox, e)
    BY <1>7 DEF IssueCommit
  <2>4. RowsOK'
    <3> HIDE DEF e
    <3> QED
      BY <2>1, <2>2, <2>3, RowsIssue
  <2>5. Holding' /\ CopyObjOK'
    BY <1>7, <2>1, <2>3, CommitCheckout DEF IssueCommit
  <2> QED
    BY <2>4, <2>5
<1>8. ASSUME NEW r \in Requests, ReturnMerge(r)
      PROVE  Rest
  <2>1. CASE ~ CanReturn(copyObj[r])
    BY <1>8, <2>1, RaiseCheckout DEF ReturnMerge
  <2>2. CASE CanReturn(copyObj[r])
    <3>1. /\ rcopy[r] \in Copies /\ ruser[r] \in Users /\ copyObj[r] \in BookCopy
          /\ copyObj[r] = copyRow[rcopy[r]] /\ copyRow[rcopy[r]].borrower = ruser[r]
      BY <1>8 DEF ReturnMerge, ArgsOK, CopyObjOK, InTransaction
    <3>2. copyObj[r].status = "ISSUED"
      BY <3>1, NoneAssumption DEF RowsOK, HolderAgrees
    <3>3. ReturnBook(copyObj[r]).status # "ISSUED" /\ ReturnBook(copyObj[r]).borrower = None
      BY <3>1, <3>2 DEF ReturnBook, BookCopy
    <3>4. CopyObjOK'
      BY <1>8, <2>2, <3>1, <3>3 DEF ReturnMerge, Goto, TypeOK, CopyObjOK, rows, args
    <3>5. Holding'
      BY <1>8, <2>2 DEF ReturnMerge, Goto, TypeOK, Holding, locks, args, InTransaction
    <3>6. RowsOK'
      BY <1>8, <2>2, RowsUnchanged DEF ReturnMerge, rows
    <3> QED
      BY <3>4, <3>5, <3>6
  <2> QED
    BY <2>1, <2>2
<1>8f. ASSUME NEW r \in Requests, ReturnFlush(r)
       PROVE  Rest
  <2>1. RowsOK'
    BY <1>8f, RowsUnchanged DEF ReturnFlush, rows
  <2>2. Holding'
    BY <1>8f DEF ReturnFlush, Goto, TypeOK, Holding, args, InTransaction
  <2>3. CopyObjOK'
    BY <1>8f DEF ReturnFlush, Goto, TypeOK, CopyObjOK, rows, args, objs
  <2> QED
    BY <2>1, <2>2, <2>3
<1>9. ASSUME NEW r \in Requests, ReturnAssign(r)
      PROVE  Rest
  <2>1. PICK u : copyObj' = [copyObj EXCEPT ![r] = Reserve(@, u)]
    BY <1>9 DEF ReturnAssign
  <2>2. copyObj[r] \in BookCopy /\ copyObj[r].borrower = None
    BY <1>9 DEF ReturnAssign, ArgsOK, CopyObjOK, InTransaction
  <2>3. Reserve(copyObj[r], u).status = "RESERVED" /\ Reserve(copyObj[r], u).borrower = None
    BY <2>2 DEF Reserve, BookCopy
  <2>4. CopyObjOK'
    BY <1>9, <2>1, <2>3 DEF ReturnAssign, Goto, TypeOK, CopyObjOK, rows, args
  <2>5. Holding'
    BY <1>9 DEF ReturnAssign, Goto, TypeOK, Holding, locks, args, InTransaction
  <2>6. RowsOK'
    BY <1>9, RowsUnchanged DEF ReturnAssign, rows
  <2> QED
    BY <2>4, <2>5, <2>6
<1>10. ASSUME NEW r \in Requests, ReturnNoWaiter(r)
       PROVE  Rest
  <2>1. RowsOK'
    BY <1>10, RowsUnchanged DEF ReturnNoWaiter, rows
  <2>2. Holding'
    BY <1>10 DEF ReturnNoWaiter, Goto, TypeOK, Holding, locks, args, InTransaction
  <2>3. CopyObjOK'
    BY <1>10 DEF ReturnNoWaiter, Goto, TypeOK, CopyObjOK, rows, args, objs
  <2> QED
    BY <2>1, <2>2, <2>3
<1>11. ASSUME NEW r \in Requests, ReturnCommit(r)
       PROVE  Rest
  <2>1. /\ rcopy[r] \in Copies /\ ruser[r] \in Users /\ copyObj[r] \in BookCopy
        /\ copyObj[r].status # "ISSUED" /\ copyObj[r].borrower = None
        /\ pc[r] \in InTransaction /\ assigned[r] \in Requests \cup {None}
    BY <1>11 DEF ReturnCommit, TypeOK, ArgsOK, CopyObjOK, InTransaction
  <2> DEFINE e == [topic |-> "copy.returned", copy |-> rcopy[r], user |-> ruser[r],
                   res |-> assigned[r]]
  <2>2. e \in Event /\ e.topic = "copy.returned" /\ e.copy = rcopy[r]
    BY <2>1 DEF Event
  <2>3. copyRow' = [copyRow EXCEPT ![rcopy[r]] = copyObj[r]] /\ outbox' = Append(outbox, e)
    BY <1>11 DEF ReturnCommit
  <2>4. RowsOK'
    <3> HIDE DEF e
    <3> QED
      BY <2>1, <2>2, <2>3, RowsReturn
  <2>5. Holding' /\ CopyObjOK'
    BY <1>11, <2>1, <2>3, CommitCheckout DEF ReturnCommit
  <2> QED
    BY <2>4, <2>5
<1>12. ASSUME NEW r \in Requests, ReserveCreate(r) \/ ReserveCheck(r) \/ ReserveAppend(r)
       PROVE  Rest
  <2>1. RowsOK'
    BY <1>12, RowsUnchanged DEF ReserveCreate, ReserveCheck, ReserveAppend, rows
  <2>2. Holding'
    BY <1>12 DEF ReserveCreate, ReserveCheck, ReserveAppend, Goto, TypeOK, Holding, locks,
                 args, InTransaction
  <2>3. CopyObjOK'
    BY <1>12 DEF ReserveCreate, ReserveCheck, ReserveAppend, Goto, TypeOK, CopyObjOK, rows,
                 args, objs
  <2> QED
    BY <2>1, <2>2, <2>3
<1>13. CASE Restart
  <2>1. RowsOK'
    BY <1>13, RowsUnchanged DEF Restart, rows
  <2>2. \A r \in Requests : pc'[r] \in {"idle", "done", "failed"}
    BY <1>13 DEF Restart
  <2> QED
    BY <1>0, <2>1, <2>2 DEF Holding, CopyObjOK, Issuable, InTransaction
<1>14. CASE UNCHANGED vars
  <2>1. RowsOK'
    BY <1>14, RowsUnchanged DEF vars, rows
  <2> QED
    BY <1>0, <1>14, <2>1 DEF vars, rows, locks, args, objs, Holding, CopyObjOK, Issuable
<1> QED
  BY <1>0, <1>1, <1>2, <1>3, <1>4, <1>5, <1>6, <1>7, <1>8, <1>8f, <1>9, <1>10, <1>11, <1>12, <1>13,
     <1>14 DEF Next, Step

(* Exactly-once checkout for any number of copies, users and requests:     *)
(* between two committed checkouts of a copy lies a committed return.      *)
THEOREM ExactlyOneCheckout == Spec => []NoDoubleCheckout
<1>1. Spec => []CheckoutInv
  BY InitCheckout, NextCheckout, PTL DEF Spec
<1> QED
  BY <1>1, PTL DEF CheckoutInv, RowsOK

(* The row of a copy and the committed events never disagree about who has *)
(* the copy.                                                               *)
THEOREM RowMatchesEvents == Spec => []HolderAgrees
<1>1. Spec => []CheckoutInv
  BY InitCheckout, NextCheckout, PTL DEF Spec
<1> QED
  BY <1>1, PTL DEF CheckoutInv, RowsOK

-----------------------------------------------------------------------------
(***************************************************************************)
(* The ledger.  A commit of a checkout or of a return is one step of       *)
(* LoanLedger and no other step changes what the ledger shows: the lock    *)
(* and the object carried to the commit (CheckoutInv) give the guards of   *)
(* Lend and TakeBack.                                                      *)
(***************************************************************************)
(* The log of the ledger grows by the entry of the event that is saved.    *)
LEMMA LogGrows ==
    ASSUME NEW s \in Seq(Event), NEW e \in Event
    PROVE  [i \in DOMAIN Append(s, e) |-> Entry(Append(s, e)[i])]
             = Append([i \in DOMAIN s |-> Entry(s[i])], Entry(e))
<1> DEFINE old == [i \in DOMAIN s |-> Entry(s[i])]
           new == [i \in DOMAIN Append(s, e) |-> Entry(Append(s, e)[i])]
           S == {Entry(x) : x \in Event}
           n == Len(s)
<1>1. /\ n \in Nat /\ DOMAIN s = 1 .. n /\ DOMAIN Append(s, e) = 1 .. n + 1
      /\ Append(s, e)[n + 1] = e /\ \A i \in 1 .. n : Append(s, e)[i] = s[i]
      /\ \A i \in 1 .. n : s[i] \in Event
  BY AppendEvent
<1>2. old \in [1 .. n -> S] /\ new \in [1 .. n + 1 -> S] /\ Entry(e) \in S
  BY <1>1
<1>3. old \in Seq(S) /\ Len(old) = n /\ new \in Seq(S) /\ Len(new) = n + 1
  BY <1>1, <1>2
<1>4. new[n + 1] = Entry(e) /\ \A i \in 1 .. n : new[i] = old[i]
  BY <1>1
<1>5. new = Append(old, Entry(e))
  <2> HIDE DEF old, new, S, n
  <2>1. /\ Append(old, Entry(e)) \in Seq(S)
        /\ Len(Append(old, Entry(e))) = n + 1
        /\ \A i \in 1 .. n : Append(old, Entry(e))[i] = old[i]
        /\ Append(old, Entry(e))[n + 1] = Entry(e)
    BY <1>2, <1>3, AppendProperties
  <2>2. \A i \in 1 .. n + 1 : new[i] = Append(old, Entry(e))[i]
    BY <1>1, <1>4, <2>1 DEF n
  <2> QED
    BY <1>3, <2>1, <2>2, SeqEqual
<1> QED
  BY <1>5

(* Where the ledger of loans starts.                                       *)
LEMMA LedgerInit == Init => Ledger!Init
<1> SUFFICES ASSUME Init PROVE Ledger!Init
  OBVIOUS
<1>1. \A c \in Copies : copyRow[c].status = "AVAILABLE" /\ copyRow[c].borrower = None
  BY DEF Init, NewCopy
<1>2. outbox = <<>>
  BY DEF Init
<1> QED
  BY <1>1, <1>2 DEF Ledger!Init

(* A step that leaves the copy rows and the events alone is invisible.     *)
LEMMA LedgerStutter ==
    ASSUME UNCHANGED <<copyRow, outbox>>
    PROVE  UNCHANGED Ledger!vars
BY DEF Ledger!vars

(* The commit of a checkout lends the copy.                                *)
LEMMA CommitLends ==
    ASSUME CheckoutInv, NEW r \in Requests, IssueCommit(r),
           NEW c, c = rcopy[r], NEW u, u = ruser[r]
    PROVE  c \in Copies /\ u \in Users /\ Ledger!Lend(c, u)
<1> DEFINE e == [topic |-> "copy.issued", copy |-> c, user |-> u, res |-> None]
<1>1. /\ c \in Copies /\ u \in Users
      /\ copyRow[c].borrower = None /\ Issuable(copyRow[c], u)
      /\ copyObj[r].status = "ISSUED" /\ copyObj[r].borrower = u
  BY DEF IssueCommit, CheckoutInv, TypeInv, ArgsOK, CopyObjOK, InTransaction
<1>2. /\ copyRow \in [Copies -> BookCopy]
      /\ copyRow' = [copyRow EXCEPT ![c] = copyObj[r]]
  BY DEF IssueCommit, CheckoutInv, TypeInv, TypeOK
<1>3. [d \in Copies |-> copyRow'[d].borrower]
        = [[d \in Copies |-> copyRow[d].borrower] EXCEPT ![c] = u]
  BY <1>1, <1>2
<1>4. [d \in Copies |-> IF copyRow'[d].status = "RESERVED" THEN copyRow'[d].reserver ELSE None]
        = [[d \in Copies |-> IF copyRow[d].status = "RESERVED" THEN copyRow[d].reserver
                                                               ELSE None]
              EXCEPT ![c] = None]
  BY <1>1, <1>2
<1>5. [i \in DOMAIN outbox' |-> Entry(outbox'[i])]
        = Append([i \in DOMAIN outbox |-> Entry(outbox[i])], <<"copy.issued", c, u>>)
  <2>1. outbox \in Seq(Event) /\ e \in Event /\ outbox' = Append(outbox, e)
    BY <1>1 DEF IssueCommit, CheckoutInv, TypeInv, TypeOK, Event
  <2>2. Entry(e) = <<"copy.issued", c, u>>
    BY DEF Entry
  <2> QED
    BY <2>1, <2>2, LogGrows
<1>6. (IF copyRow[c].status = "RESERVED" THEN copyRow[c].reserver ELSE None) \in {None, u}
  BY <1>1 DEF Issuable
<1> QED
  BY <1>1, <1>3, <1>4, <1>5, <1>6 DEF Ledger!Lend

(* The commit of a return takes the copy back and puts it aside for the    *)
(* user the waiting list named, if it named one.                           *)
LEMMA CommitTakesBack ==
    ASSUME CheckoutInv, NEW r \in Requests, ReturnCommit(r),
           NEW c, c = rcopy[r], NEW u, u = ruser[r],
           NEW w, w = IF copyObj[r].status = "RESERVED" THEN copyObj[r].reserver ELSE None
    PROVE  c \in Copies /\ w \in Users \cup {None} /\ Ledger!TakeBack(c, w)
<1> DEFINE e == [topic |-> "copy.returned", copy |-> c, user |-> u, res |-> assigned[r]]
<1>1. /\ c \in Copies /\ u \in Users /\ copyObj[r] \in BookCopy
      /\ copyRow[c].borrower = u /\ copyObj[r].borrower = None
  BY DEF ReturnCommit, CheckoutInv, TypeInv, ArgsOK, CopyObjOK, InTransaction
<1>2. /\ copyRow \in [Copies -> BookCopy]
      /\ copyRow' = [copyRow EXCEPT ![c] = copyObj[r]]
  BY DEF ReturnCommit, CheckoutInv, TypeInv, TypeOK
<1>3. [d \in Copies |-> copyRow'[d].borrower]
        = [[d \in Copies |-> copyRow[d].borrower] EXCEPT ![c] = None]
  BY <1>1, <1>2
<1>4. [d \in Copies |-> IF copyRow'[d].status = "RESERVED" THEN copyRow'[d].reserver ELSE None]
        = [[d \in Copies |-> IF copyRow[d].status = "RESERVED" THEN copyRow[d].reserver
                                                               ELSE None]
              EXCEPT ![c] = w]
  BY <1>1, <1>2
<1>5. [i \in DOMAIN outbox' |-> Entry(outbox'[i])]
        = Append([i \in DOMAIN outbox |-> Entry(outbox[i])], <<"copy.returned", c, u>>)
  <2>1. outbox \in Seq(Event) /\ e \in Event /\ outbox' = Append(outbox, e)
    BY <1>1 DEF ReturnCommit, CheckoutInv, TypeInv, TypeOK, Event
  <2>2. Entry(e) = <<"copy.returned", c, u>>
    BY DEF Entry
  <2> QED
    BY <2>1, <2>2, LogGrows
<1>6. w \in Users \cup {None} /\ u # None
  BY <1>1, NoneAssumption DEF BookCopy
<1> QED
  BY <1>1, <1>3, <1>4, <1>5, <1>6 DEF Ledger!TakeBack

(* Every other step leaves the rows and the events as they are.            *)
LEMMA LedgerStep == CheckoutInv /\ [Next]_vars => [Ledger!Next]_Ledger!vars
<1> SUFFICES ASSUME CheckoutInv, [Next]_vars PROVE Ledger!Next \/ UNCHANGED Ledger!vars
  BY DEF Ledger!vars
<1>1. ASSUME NEW r \in Requests, IssueCommit(r)
      PROVE  Ledger!Next
  <2>1. PICK c, u : c = rcopy[r] /\ u = ruser[r]
    OBVIOUS
  <2>2. c \in Copies /\ u \in Users /\ Ledger!Lend(c, u)
    BY <1>1, <2>1, CommitLends
  <2> QED
    BY <2>2 DEF Ledger!Next
<1>2. ASSUME NEW r \in Requests, ReturnCommit(r)
      PROVE  Ledger!Next
  <2>1. PICK c, u, w :
          /\ c = rcopy[r] /\ u = ruser[r]
          /\ w = IF copyObj[r].status = "RESERVED" THEN copyObj[r].reserver ELSE None
    OBVIOUS
  <2>2. c \in Copies /\ w \in Users \cup {None} /\ Ledger!TakeBack(c, w)
    BY <1>2, <2>1, CommitTakesBack
  <2> QED
    BY <2>2 DEF Ledger!Next
<1>3. CASE UNCHANGED <<copyRow, outbox>>
  BY <1>3, LedgerStutter
<1>4. \/ \E r \in Requests : IssueCommit(r) \/ ReturnCommit(r)
      \/ UNCHANGED <<copyRow, outbox>>
  BY DEF Next, Step, IssueLock, ReturnLock, ReturnNotIssued, ReserveBegin, IssueUser,
         IssueRefuse, ReturnMerge, ReturnFlush, ReturnAssign, ReturnNoWaiter, ReserveCreate,
         ReserveCheck, ReserveAppend, Rollback, Raise, Restart, rows, vars
<1> QED
  BY <1>1, <1>2, <1>3, <1>4

(* Circulation, with all its requests, row locks, rollbacks and restarts,  *)
(* implements the ledger of loans: each commit of a checkout or a return   *)
(* is one loan or one taking back, and nothing else is visible.            *)
THEOREM CirculationImplementsLedger == Spec => ImplementsLedger
<1>1. Spec => []CheckoutInv
  BY InitCheckout, NextCheckout, PTL DEF Spec
<1> QED
  BY <1>1, LedgerInit, LedgerStep, PTL DEF Spec, ImplementsLedger, Ledger!Spec

-----------------------------------------------------------------------------
(***************************************************************************)
(* The waiting list.  An entry that a return has taken from its queue is   *)
(* not PENDING any more, so no other return takes it (TakenOnce); the copy *)
(* it was given is RESERVED for the user who made the reservation, in the  *)
(* hands of the return and then in the row (PutAside).                     *)
(***************************************************************************)
Unassigned ==
    \A r \in Requests :
        pc[r] \notin {"return_commit"} \cup Answered => assigned[r] = None

Promised ==
    \A q \in Requests :
        resv[q].status # "NONE" => pc[q] = "done" /\ resv[q].user = ruser[q]

Carries(r, q) == pc[r] = "return_commit" /\ assigned[r] = q

Taken(q) ==
    \/ \E i \in DOMAIN outbox : outbox[i].res = q
    \/ \E r \in Requests : Carries(r, q)

TakenOnce ==
    /\ \A q \in Requests : Taken(q) => pc[q] \in Answered /\ resv[q].status # "PENDING"
    /\ \A q \in Requests : \A r \in Requests : Carries(r, q) =>
          /\ \A i \in DOMAIN outbox : outbox[i].res # q
          /\ \A s \in Requests : Carries(s, q) => s = r
    /\ AssignedOnce

PutAside ==
    /\ \A q \in Requests : \A r \in Requests : Carries(r, q) =>
          copyObj[r].status = "RESERVED" /\ copyObj[r].reserver = ruser[q]
    /\ \A c \in Copies : \A i \in DOMAIN outbox :
          LastEvent(i, c) /\ outbox[i].res # None =>
             copyRow[c].status = "RESERVED" /\ copyRow[c].reserver = ruser[outbox[i].res]
    /\ HeldForReserver

WaitInv == CheckoutInv /\ Unassigned /\ Promised /\ TakenOnce /\ PutAside

(* Before the first request nothing is promised.                           *)
LEMMA InitWait == Init => WaitInv
<1> SUFFICES ASSUME Init PROVE WaitInv
  OBVIOUS
<1>1. CheckoutInv
  BY InitCheckout
<1>2. Unassigned /\ Promised
  BY DEF Init, Unassigned, Promised, NoReservation
<1>3. DOMAIN outbox = {} /\ \A r \in Requests : pc[r] = "idle"
  BY DEF Init
<1>4. TakenOnce /\ PutAside
  BY <1>3 DEF TakenOnce, PutAside, Taken, Carries, AssignedOnce, HeldForReserver
<1> QED
  BY <1>1, <1>2, <1>4 DEF WaitInv

(* An event names no reservation, or one that a request has made.          *)
LEMMA EventReservation ==
    ASSUME TypeOK
    PROVE  \A i \in DOMAIN outbox : outbox[i].res \in Requests \cup {None}
<1>1. \A i \in DOMAIN outbox : outbox[i] \in Event
  BY DEF TypeOK
<1> QED
  BY <1>1 DEF Event

(* Steps that commit nothing and take nothing from a queue, of a request   *)
(* that is not about to commit a return.                                   *)
LEMMA WaitQuiet ==
    ASSUME WaitInv, NEW r \in Requests, pc[r] \notin Answered,
           NEW l, l # "return_commit", pc[r] = "return_commit" => l \in Answered,
           pc' = [pc EXCEPT ![r] = l],
           UNCHANGED <<copyRow, outbox, resv, assigned>>,
           \A q \in Requests \ {r} : copyObj'[q] = copyObj[q],
           \A q \in Requests : (q = r /\ pc[r] = "idle") \/ ruser'[q] = ruser[q]
    PROVE  Unassigned' /\ Promised' /\ TakenOnce' /\ PutAside'
<1> USE DEF WaitInv, CheckoutInv, TypeInv
<1>0. TypeOK
  OBVIOUS
<1>1. Promised'
  BY DEF Promised, TypeOK, Answered
<1>2. Unassigned'
  BY DEF Unassigned, TypeOK, Answered
<1>3. \A s, q \in Requests : Carries(s, q)' => Carries(s, q) /\ s # r
  BY DEF Carries, TypeOK
<1>4. TakenOnce'
  <2>1. \A q \in Requests : Taken(q)' => Taken(q) /\ pc'[q] = pc[q]
    BY <1>3 DEF Taken, TakenOnce, TypeOK
  <2> QED
    BY <1>3, <2>1 DEF TakenOnce, AssignedOnce
<1>5. \A q \in Requests : Taken(q) => ruser'[q] = ruser[q]
  BY DEF TakenOnce, Answered
<1>6. \A i \in DOMAIN outbox : outbox[i].res # None =>
         outbox[i].res \in Requests /\ ruser'[outbox[i].res] = ruser[outbox[i].res]
  BY <1>5, EventReservation DEF Taken
<1>7. PutAside'
  <2>1. HeldForReserver'
    BY <1>6 DEF PutAside, HeldForReserver, Issued, Returned
  <2>2. \A q, s \in Requests : Carries(s, q)' =>
          copyObj'[s].status = "RESERVED" /\ copyObj'[s].reserver = ruser'[q]
    BY <1>3, <1>5 DEF PutAside, Taken
  <2> QED
    BY <1>6, <2>1, <2>2 DEF PutAside, LastEvent
<1> QED
  BY <1>1, <1>2, <1>4, <1>7

(* Every step keeps the promises of the waiting list.                      *)
LEMMA NextWait == WaitInv /\ [Next]_vars => WaitInv'
<1> SUFFICES ASSUME WaitInv, [Next]_vars PROVE WaitInv'
  OBVIOUS
<1>0. CheckoutInv' /\ TypeOK' /\ ArgsOK'
  BY NextCheckout DEF WaitInv, CheckoutInv, TypeInv
<1> DEFINE Rest == Unassigned' /\ Promised' /\ TakenOnce' /\ PutAside'
<1>a. TypeOK /\ ArgsOK /\ CheckoutInv
  BY DEF WaitInv, CheckoutInv, TypeInv
<1>1. ASSUME NEW r \in Issues, NEW c \in Copies, NEW u \in Users, IssueLock(r, c, u)
      PROVE  Rest
  BY <1>1, <1>a, WaitQuiet DEF IssueLock, Goto, rows, waitlist, Requests, TypeOK, Answered
<1>2. ASSUME NEW r \in Returns, NEW c \in Copies, ReturnLock(r, c)
      PROVE  Rest
  BY <1>2, <1>a, WaitQuiet DEF ReturnLock, Goto, rows, waitlist, Requests, TypeOK, Answered
<1>3. ASSUME NEW r \in Returns, NEW c \in Copies, ReturnNotIssued(r, c)
      PROVE  Rest
  BY <1>3, <1>a, WaitQuiet
     DEF ReturnNotIssued, Goto, rows, waitlist, args, objs, Requests, Answered
<1>4. ASSUME NEW r \in Reserves, NEW t \in Titles, NEW u \in Users,
             ReserveBegin(r, t, u)
      PROVE  Rest
  <2>1. PICK l \in {"reserve_create", "reserve_check"} : pc' = [pc EXCEPT ![r] = l]
    BY <1>4 DEF ReserveBegin, Goto
  <2> QED
    BY <1>4, <1>a, <2>1, WaitQuiet
       DEF ReserveBegin, rows, waitlist, objs, Requests, TypeOK, Answered
<1>5. ASSUME NEW r \in Requests, IssueUser(r)
      PROVE  Rest
  BY <1>5, <1>a, WaitQuiet DEF IssueUser, Goto, rows, waitlist, args, TypeOK, Answered
<1>6. ASSUME NEW r \in Requests, Raise(r), pc[r] \in InTransaction
      PROVE  Rest
  BY <1>6, <1>a, WaitQuiet
     DEF Raise, Goto, rows, waitlist, args, objs, InTransaction, Answered
<1>7. ASSUME NEW r \in Requests, ReturnMerge(r), CanReturn(copyObj[r])
      PROVE  Rest
  BY <1>7, <1>a, WaitQuiet DEF ReturnMerge, Goto, rows, waitlist, args, TypeOK, Answered
<1>8. ASSUME NEW r \in Requests, ReturnFlush(r)
      PROVE  Rest
  BY <1>8, <1>a, WaitQuiet DEF ReturnFlush, Goto, rows, waitlist, args, objs, Answered
<1>9. ASSUME NEW r \in Requests, ReserveCreate(r)
      PROVE  Rest
  BY <1>9, <1>a, WaitQuiet DEF ReserveCreate, Goto, rows, args, objs, Answered
<1>10. ASSUME NEW r \in Requests, ReserveCheck(r)
       PROVE  Rest
  <2>1. PICK l \in {"reserve_append", "done"} : pc' = [pc EXCEPT ![r] = l]
    BY <1>10 DEF ReserveCheck, Goto
  <2> QED
    BY <1>10, <1>a, <2>1, WaitQuiet
       DEF ReserveCheck, rows, waitlist, args, objs, Answered
<1>11. ASSUME NEW r \in Requests, ReserveAppend(r)
       PROVE  Rest
  <2>1. /\ pc[r] = "reserve_append" /\ pc' = [pc EXCEPT ![r] = "done"]
        /\ UNCHANGED <<copyRow, outbox, ruser, assigned, copyObj>>
        /\ resv'[r].status = "PENDING" /\ resv'[r].user = ruser[r]
        /\ \A q \in Requests \ {r} : resv'[q] = resv[q]
    BY <1>11, <1>a DEF ReserveAppend, Goto, rows, args, objs, TypeOK
  <2>2. Unassigned' /\ Promised'
    BY <1>a, <2>1 DEF WaitInv, Unassigned, Promised, TypeOK, Answered
  <2>3. \A s, q \in Requests : Carries(s, q)' <=> Carries(s, q)
    BY <1>a, <2>1 DEF Carries, TypeOK
  <2>4. \A q \in Requests : Taken(q)' => Taken(q) /\ q # r
    BY <2>1, <2>3 DEF WaitInv, TakenOnce, Taken, Answered
  <2>5. TakenOnce'
    BY <1>a, <2>1, <2>3, <2>4 DEF WaitInv, TakenOnce, AssignedOnce, TypeOK
  <2>6. PutAside'
    BY <2>1, <2>3 DEF WaitInv, PutAside, HeldForReserver, LastEvent, Issued, Returned
  <2> QED
    BY <2>2, <2>5, <2>6
<1>12. ASSUME NEW r \in Requests, ReturnAssign(r)
       PROVE  Rest
  <2> DEFINE t == isbn[rcopy[r]]
  <2>0. rcopy[r] \in Copies /\ copyObj[r] \in BookCopy /\ t \in Titles
    BY <1>12, <1>a, CirculationAssumption DEF ReturnAssign, ArgsOK, InTransaction
  <2>1. PICK first \in Waiting(t) :
          LET entry == queue[t][first]
          IN  /\ resv' = [resv EXCEPT ![entry].status = "READY_FOR_PICKUP",
                                      ![entry].copy = rcopy[r]]
              /\ assigned' = [assigned EXCEPT ![r] = entry]
              /\ copyObj' = [copyObj EXCEPT ![r] = Reserve(@, resv[entry].user)]
    BY <1>12 DEF ReturnAssign
  <2>2. PICK entry : entry = queue[t][first]
    OBVIOUS
  <2>3. entry \in Requests /\ resv[entry].status = "PENDING"
    BY <1>a, <2>0, <2>1, <2>2 DEF Waiting, TypeOK
  <2>4. /\ pc[entry] = "done" /\ resv[entry].user = ruser[entry] /\ ~ Taken(entry)
        /\ entry # None
    BY <2>3, CirculationAssumption DEF WaitInv, Promised, TakenOnce
  <2>5. /\ pc[r] = "return_assign" /\ pc' = [pc EXCEPT ![r] = "return_commit"]
        /\ UNCHANGED <<copyRow, outbox, ruser>>
    BY <1>12 DEF ReturnAssign, Goto, rows, args
  <2>6. /\ resv'[entry].status = "READY_FOR_PICKUP" /\ resv'[entry].user = ruser[entry]
        /\ \A q \in Requests \ {entry} : resv'[q] = resv[q]
        /\ assigned' = [assigned EXCEPT ![r] = entry]
        /\ copyObj'[r].status = "RESERVED" /\ copyObj'[r].reserver = ruser[entry]
        /\ \A q \in Requests \ {r} : copyObj'[q] = copyObj[q]
    BY <1>a, <2>0, <2>1, <2>2, <2>3, <2>4 DEF TypeOK, Reserve, BookCopy, Reservation
  <2>7. Unassigned' /\ Promised'
    BY <1>a, <2>3, <2>4, <2>5, <2>6 DEF WaitInv, Unassigned, Promised, TypeOK, Answered
  <2>8. \A s, q \in Requests :
          Carries(s, q)' <=> (Carries(s, q) /\ s # r) \/ (s = r /\ q = entry)
    BY <1>a, <2>5, <2>6 DEF Carries, TypeOK
  <2>9. \A q \in Requests : Taken(q)' => Taken(q) \/ q = entry
    BY <2>5, <2>8 DEF Taken
  <2>10. TakenOnce'
    <3>1. \A q \in Requests : Taken(q)' => pc'[q] \in Answered /\ resv'[q].status # "PENDING"
      BY <1>a, <2>4, <2>5, <2>6, <2>9 DEF WaitInv, TakenOnce, TypeOK, Answered
    <3>2. \A s, q \in Requests : Carries(s, q)' =>
             /\ \A i \in DOMAIN outbox' : outbox'[i].res # q
             /\ \A x \in Requests : Carries(x, q)' => x = s
      BY <2>4, <2>5, <2>8 DEF WaitInv, TakenOnce, Taken
    <3> QED
      BY <2>5, <3>1, <3>2 DEF WaitInv, TakenOnce, AssignedOnce
  <2>11. PutAside'
    BY <2>5, <2>6, <2>8 DEF WaitInv, PutAside, HeldForReserver, LastEvent, Issued, Returned
  <2> QED
    BY <2>7, <2>10, <2>11
<1>13. ASSUME NEW r \in Requests, ReturnNoWaiter(r)
       PROVE  Rest
  <2>1. /\ pc[r] = "return_assign" /\ pc' = [pc EXCEPT ![r] = "return_commit"]
        /\ UNCHANGED <<copyRow, outbox, ruser, resv, assigned, copyObj>>
    BY <1>13 DEF ReturnNoWaiter, Goto, rows, args, objs
  <2>2. assigned[r] = None /\ None \notin Requests
    BY <2>1, CirculationAssumption DEF WaitInv, Unassigned, Answered
  <2>3. Unassigned' /\ Promised'
    BY <1>a, <2>1 DEF WaitInv, Unassigned, Promised, TypeOK, Answered
  <2>4. \A s, q \in Requests : Carries(s, q)' => Carries(s, q)
    BY <1>a, <2>1, <2>2 DEF Carries, TypeOK
  <2>5. \A q \in Requests : Taken(q)' => Taken(q)
    BY <2>1, <2>4 DEF Taken
  <2>6. TakenOnce'
    BY <1>a, <2>1, <2>4, <2>5 DEF WaitInv, TakenOnce, AssignedOnce, TypeOK, Answered
  <2>7. PutAside'
    BY <2>1, <2>4 DEF WaitInv, PutAside, HeldForReserver, LastEvent, Issued, Returned
  <2> QED
    BY <2>3, <2>6, <2>7
<1>14. ASSUME NEW r \in Requests, IssueCommit(r)
       PROVE  Rest
  <2>1. /\ rcopy[r] \in Copies /\ ruser[r] \in Users
        /\ Issuable(copyRow[rcopy[r]], ruser[r])
    BY <1>14, <1>a DEF IssueCommit, ArgsOK, CheckoutInv, CopyObjOK, InTransaction
  <2> DEFINE e == [topic |-> "copy.issued", copy |-> rcopy[r], user |-> ruser[r],
                   res |-> None]
  <2>2. e \in Event
    BY <2>1 DEF Event
  <2>3. PICK n \in Nat :
          /\ DOMAIN outbox = 1 .. n /\ DOMAIN outbox' = 1 .. n + 1
          /\ outbox'[n + 1] = e /\ \A i \in 1 .. n : outbox'[i] = outbox[i]
    BY <1>14, <1>a, <2>2, AppendEvent DEF IssueCommit, TypeOK
  <2>4. /\ pc[r] = "issue_commit" /\ pc' = [pc EXCEPT ![r] = "done"]
        /\ UNCHANGED <<ruser, resv, assigned, copyObj>>
        /\ \A d \in Copies : d # rcopy[r] => copyRow'[d] = copyRow[d]
    BY <1>14, <1>a DEF IssueCommit, Goto, waitlist, args, objs, TypeOK
  <2>5. Unassigned' /\ Promised'
    BY <1>a, <2>4 DEF WaitInv, Unassigned, Promised, TypeOK, Answered
  <2>6. \A s, q \in Requests : Carries(s, q)' <=> Carries(s, q)
    BY <1>a, <2>4 DEF Carries, TypeOK
  <2>7. None \notin Requests
    BY CirculationAssumption
  <2>8. \A q \in Requests : Taken(q)' => Taken(q)
    BY <2>3, <2>6, <2>7 DEF Taken
  <2>9. TakenOnce'
    <3>1. \A q \in Requests : Taken(q)' => pc'[q] \in Answered /\ resv'[q].status # "PENDING"
      BY <1>a, <2>4, <2>8 DEF WaitInv, TakenOnce, TypeOK, Answered
    <3>2. \A s, q \in Requests : Carries(s, q)' =>
             /\ \A i \in DOMAIN outbox' : outbox'[i].res # q
             /\ \A x \in Requests : Carries(x, q)' => x = s
      BY <2>3, <2>6, <2>7 DEF WaitInv, TakenOnce
    <3>3. AssignedOnce'
      BY <2>3 DEF WaitInv, TakenOnce, AssignedOnce
    <3> QED
      BY <3>1, <3>2, <3>3 DEF TakenOnce
  <2>10. HeldForReserver'
    <3> SUFFICES ASSUME NEW c \in Copies, NEW i \in 1 .. n + 1, NEW j \in 1 .. n + 1,
                        i < j, Returned(i, c)', Issued(j, c)',
                        \A k \in 1 .. n + 1 : i < k /\ k < j => outbox'[k].copy # c,
                        outbox'[i].res # None
                 PROVE  outbox'[j].user = ruser'[outbox'[i].res]
      BY <2>3 DEF HeldForReserver
    <3>0. i \in 1 .. n /\ outbox'[i] = outbox[i] /\ Returned(i, c)
      BY <2>3 DEF Returned
    <3>1. CASE j \in 1 .. n
      BY <2>3, <2>4, <3>0, <3>1 DEF WaitInv, PutAside, HeldForReserver, Issued
    <3>2. CASE j = n + 1
      <4>1. c = rcopy[r] /\ outbox'[j].user = ruser[r]
        BY <2>3, <3>2 DEF Issued
      <4>2. LastEvent(i, c)
        BY <2>3, <3>0, <3>2 DEF LastEvent, Returned
      <4>3. copyRow[c].status = "RESERVED" /\ copyRow[c].reserver = ruser[outbox[i].res]
        BY <2>3, <3>0, <4>2 DEF WaitInv, PutAside
      <4> QED
        BY <2>1, <2>4, <3>0, <4>1, <4>3 DEF Issuable
    <3> QED
      BY <2>3, <3>1, <3>2
  <2>11. PutAside'
    <3>1. ASSUME NEW c \in Copies, NEW i \in DOMAIN outbox', LastEvent(i, c)',
                 outbox'[i].res # None
          PROVE  /\ c # rcopy[r] /\ i \in DOMAIN outbox /\ outbox'[i] = outbox[i]
                 /\ LastEvent(i, c)
      BY <2>3, <3>1 DEF LastEvent
    <3> QED
      BY <2>4, <2>6, <2>10, <3>1 DEF WaitInv, PutAside
  <2> QED
    BY <2>5, <2>9, <2>11
<1>15. ASSUME NEW r \in Requests, ReturnCommit(r)
       PROVE  Rest
  <2>1. /\ rcopy[r] \in Copies /\ ruser[r] \in Users
        /\ assigned[r] \in Requests \cup {None}
    BY <1>15, <1>a DEF ReturnCommit, ArgsOK, TypeOK, InTransaction
  <2> DEFINE e == [topic |-> "copy.returned", copy |-> rcopy[r], user |-> ruser[r],
                   res |-> assigned[r]]
  <2>2. e \in Event
    BY <2>1 DEF Event
  <2>3. PICK n \in Nat :
          /\ DOMAIN outbox = 1 .. n /\ DOMAIN outbox' = 1 .. n + 1
          /\ outbox'[n + 1] = e /\ \A i \in 1 .. n : outbox'[i] = outbox[i]
    BY <1>15, <1>a, <2>2, AppendEvent DEF ReturnCommit, TypeOK
  <2>4. /\ pc[r] = "return_commit" /\ pc' = [pc EXCEPT ![r] = "done"]
        /\ UNCHANGED <<ruser, resv, assigned, copyObj>>
        /\ copyRow'[rcopy[r]] = copyObj[r]
        /\ \A d \in Copies : d # rcopy[r] => copyRow'[d] = copyRow[d]
    BY <1>15, <1>a, <2>1 DEF ReturnCommit, Goto, waitlist, args, objs, TypeOK
  <2>5. Unassigned' /\ Promised'
    BY <1>a, <2>4 DEF WaitInv, Unassigned, Promised, TypeOK, Answered
  <2>6. \A s, q \in Requests : Carries(s, q)' <=> Carries(s, q) /\ s # r
    BY <1>a, <2>4 DEF Carries, TypeOK
  <2>7. \A q \in Requests : q = assigned[r] => Carries(r, q)
    BY <2>4 DEF Carries
  <2>8. \A q \in Requests : Taken(q)' => Taken(q)
    BY <2>3, <2>6, <2>7 DEF Taken
  <2>9. TakenOnce'
    <3>1. \A q \in Requests : Taken(q)' => pc'[q] \in Answered /\ resv'[q].status # "PENDING"
      BY <1>a, <2>4, <2>8 DEF WaitInv, TakenOnce, TypeOK, Answered
    <3>2. \A s, q \in Requests : Carries(s, q)' =>
             /\ \A i \in DOMAIN outbox' : outbox'[i].res # q
             /\ \A x \in Requests : Carries(x, q)' => x = s
      BY <2>3, <2>6, <2>7 DEF WaitInv, TakenOnce
    <3>3. AssignedOnce'
      BY <2>1, <2>3, <2>7 DEF WaitInv, TakenOnce, AssignedOnce
    <3> QED
      BY <3>1, <3>2, <3>3 DEF TakenOnce
  <2>10. HeldForReserver'
    <3> SUFFICES ASSUME NEW c \in Copies, NEW i \in 1 .. n + 1, NEW j \in 1 .. n + 1,
                        i < j, Returned(i, c)', Issued(j, c)',
                        \A k \in 1 .. n + 1 : i < k /\ k < j => outbox'[k].copy # c,
                        outbox'[i].res # None
                 PROVE  outbox'[j].user = ruser'[outbox'[i].res]
      BY <2>3 DEF HeldForReserver
    <3>1. i \in 1 .. n /\ j \in 1 .. n
      BY <2>3 DEF Issued
    <3> QED
      BY <2>3, <2>4, <3>1 DEF WaitInv, PutAside, HeldForReserver, Issued, Returned
  <2>11. PutAside'
    <3>1. ASSUME NEW c \in Copies, NEW i \in DOMAIN outbox', LastEvent(i, c)',
                 outbox'[i].res # None
          PROVE  copyRow'[c].status = "RESERVED" /\ copyRow'[c].reserver = ruser'[outbox'[i].res]
      <4>1. CASE i = n + 1
        <5>1. c = rcopy[r] /\ outbox'[i].res = assigned[r] /\ assigned[r] \in Requests
          BY <2>1, <2>3, <3>1, <4>1 DEF LastEvent
        <5> QED
          BY <2>4, <2>7, <5>1 DEF WaitInv, PutAside
      <4>2. CASE i \in 1 .. n
        <5>1. c # rcopy[r] /\ outbox'[i] = outbox[i] /\ LastEvent(i, c)
          BY <2>3, <3>1, <4>2 DEF LastEvent
        <5> QED
          BY <2>3, <2>4, <3>1, <4>2, <5>1 DEF WaitInv, PutAside
      <4> QED
        BY <2>3, <4>1, <4>2
    <3> QED
      BY <2>4, <2>6, <2>10, <3>1 DEF WaitInv, PutAside
  <2> QED
    BY <2>5, <2>9, <2>11
<1>16. ASSUME Restart PROVE Rest
  <2>1. /\ UNCHANGED <<copyRow, outbox, ruser, assigned, copyObj>>
        /\ \A q \in Requests : /\ resv'[q].status = "NONE" /\ pc'[q] # "return_commit"
                               /\ pc[q] \in Answered => pc'[q] \in Answered
                               /\ pc'[q] \notin Answered => pc'[q] = pc[q]
    BY <1>16 DEF Restart, rows, args, objs, NoReservation, Answered
  <2>2. Unassigned' /\ Promised'
    BY <2>1 DEF WaitInv, Unassigned, Promised
  <2>3. \A s, q \in Requests : ~ Carries(s, q)'
    BY <2>1 DEF Carries
  <2>4. TakenOnce'
    BY <2>1, <2>3 DEF WaitInv, TakenOnce, Taken, AssignedOnce
  <2>5. PutAside'
    BY <2>1, <2>3 DEF WaitInv, PutAside, HeldForReserver, LastEvent, Issued, Returned
  <2> QED
    BY <2>2, <2>4, <2>5
<1>17. ASSUME UNCHANGED vars PROVE Rest
  BY <1>17 DEF vars, rows, waitlist, args, objs, WaitInv, Unassigned, Promised, TakenOnce,
               Taken, Carries, AssignedOnce, PutAside, HeldForReserver, LastEvent, Issued,
               Returned
<1> HIDE DEF Rest
<1>18. ASSUME NEW r \in Requests, IssueRefuse(r) \/ Rollback(r)
       PROVE  Rest
  BY <1>6, <1>18 DEF IssueRefuse, Rollback, InTransaction
<1>19. ASSUME NEW r \in Requests, ReturnMerge(r)
       PROVE  Rest
  BY <1>6, <1>7, <1>19 DEF ReturnMerge, InTransaction
<1>20. Rest
  BY <1>1, <1>2, <1>3, <1>4, <1>5, <1>8, <1>9, <1>10, <1>11, <1>12, <1>13, <1>14, <1>15,
     <1>16, <1>17, <1>18, <1>19 DEF Next, Step
<1> QED
  BY <1>0, <1>20 DEF WaitInv, Rest

(* However returns, checkouts and reservations interleave, a copy that a   *)
(* return put aside is issued next to the user it was put aside for, for   *)
(* any number of copies, titles, users and requests.                       *)
THEOREM CopiesHeldForReserver == Spec => []HeldForReserver
<1>1. Spec => []WaitInv
  BY InitWait, NextWait, PTL DEF Spec
<1> QED
  BY <1>1, PTL DEF WaitInv, PutAside

(* No two returns, however many run at once, hand their copies to the same *)
(* entry of a reservation queue.                                           *)
THEOREM EntriesAssignedOnce == Spec => []AssignedOnce
<1>1. Spec => []WaitInv
  BY InitWait, NextWait, PTL DEF Spec
<1> QED
  BY <1>1, PTL DEF WaitInv, TakenOnce

-----------------------------------------------------------------------------
(***************************************************************************)
(* An accepted reservation is kept.  ReservationKept needs to know which   *)
(* requests run which code (Kinds), that a reservation is filed under the  *)
(* title it was asked for, whose deque exists (Queued), and whom a request *)
(* about to create a deque can still hurt (Exposed).                       *)
(***************************************************************************)
Kinds ==
    \A r \in Requests :
        /\ pc[r] \in Reserving => r \in Reserves
        /\ pc[r] \in {"return_merge", "return_flush", "return_assign", "return_commit"}
              => r \in Returns

Queued ==
    \A r \in Requests :
        resv[r].status # "NONE" =>
            /\ resv[r].title = rtitle[r] /\ rtitle[r] \in Titles
            /\ queue[rtitle[r]] \in Seq(Requests)

InQueue(r) == \E i \in DOMAIN queue[rtitle[r]] : queue[rtitle[r]][i] = r

Served(r) ==
    \/ \E i \in DOMAIN outbox : outbox[i].res = r
    \/ \E q \in Returns : assigned[q] = r /\ pc[q] \in {"return_commit", "failed"}

Kept ==
    \A r \in Reserves :
        /\ resv[r].status = "PENDING" => InQueue(r) \/ r \in raced
        /\ resv[r].status = "READY_FOR_PICKUP" => Served(r)

(* Whoever is about to create the deque of a title began before the        *)
(* reservations of that title were appended.                               *)
Exposed ==
    \A r, q \in Reserves :
        resv[r].status = "PENDING" /\ q \in Creating(rtitle[r]) => r \in raced

KeptInv == WaitInv /\ Kinds /\ Queued /\ Kept /\ Exposed

(* Kept is ReservationKept, with the title read from the request.          *)
LEMMA KeptImplies == KeptInv => ReservationKept
<1> SUFFICES ASSUME KeptInv, NEW r \in Reserves
             PROVE  /\ resv[r].status = "PENDING" =>
                         \/ \E i \in DOMAIN queue[resv[r].title] :
                               queue[resv[r].title][i] = r
                         \/ r \in raced
                    /\ resv[r].status = "READY_FOR_PICKUP" =>
                         \/ \E i \in DOMAIN outbox : outbox[i].res = r
                         \/ \E q \in Returns :
                               assigned[q] = r /\ pc[q] \in {"return_commit", "failed"}
  BY DEF ReservationKept
<1>1. r \in Requests
  BY DEF Requests
<1>2. resv[r].status = "PENDING" => resv[r].title = rtitle[r]
  BY <1>1 DEF KeptInv, Queued
<1> QED
  BY <1>2 DEF KeptInv, Kept, InQueue, Served

(* Nothing is reserved at the start.                                       *)
LEMMA InitKept == Init => KeptInv
<1> SUFFICES ASSUME Init PROVE KeptInv
  OBVIOUS
<1>1. \A r \in Requests : pc[r] = "idle" /\ resv[r].status = "NONE"
  BY DEF Init, NoReservation
<1>2. Kinds /\ Queued /\ Kept
  BY <1>1 DEF Kinds, Queued, Kept, Requests, Reserving
<1>3. Exposed
  BY <1>1 DEF Exposed, Requests
<1> QED
  BY <1>2, <1>3, InitWait DEF KeptInv

(* Steps that leave the queues and the reservations alone and take back no *)
(* answer.                                                                 *)
LEMMA KeptQueues ==
    ASSUME KeptInv, NEW r \in Requests, pc[r] \notin Answered,
           NEW l, l # "idle",
           l \in Reserving => r \in Reserves,
           l \in {"return_merge", "return_flush", "return_assign", "return_commit"}
              => r \in Returns,
           pc' = [pc EXCEPT ![r] = l],
           UNCHANGED <<queue, resv, raced>>,
           l = "reserve_create" => queue[rtitle'[r]] = None,
           \A q \in Requests : (q = r /\ pc[r] = "idle") \/ rtitle'[q] = rtitle[q],
           \A x \in Reserves : Served(x) => Served(x)'
    PROVE  Kinds' /\ Queued' /\ Kept' /\ Exposed'
<1> USE DEF KeptInv, WaitInv, CheckoutInv, TypeInv
<1>1. Kinds'
  BY DEF Kinds, TypeOK
<1>2. \A q \in Requests : resv[q].status # "NONE" => q # r /\ rtitle'[q] = rtitle[q]
  BY DEF Promised, Answered
<1>3. Queued'
  BY <1>2 DEF Queued
<1>4. \A q \in Requests : pc[q] # "idle" => pc'[q] # "idle" /\ rtitle'[q] = rtitle[q]
  BY DEF TypeOK
<1>5. ASSUME NEW x \in Reserves, resv[x].status = "PENDING"
      PROVE  InQueue(x)' \/ x \in raced'
  <2>1. x \in Requests /\ Reserves \subseteq Requests
    BY DEF Requests
  <2> QED
    BY <1>2, <1>4, <1>5, <2>1 DEF Kept, InQueue
<1>6. ASSUME NEW x \in Reserves, NEW q \in Reserves, resv[x].status = "PENDING",
             pc'[q] = "reserve_create", rtitle'[q] = rtitle[x]
      PROVE  x \in raced
  <2>1. x \in Requests /\ q \in Requests
    BY DEF Requests
  <2>2. queue[rtitle[x]] \in Seq(Requests)
    BY <1>6, <2>1 DEF Queued
  <2>3. q # r
    BY <1>6, <2>1, <2>2, CirculationAssumption DEF TypeOK
  <2>4. q \in Creating(rtitle[x])
    BY <1>6, <2>1, <2>3 DEF Creating, TypeOK
  <2> QED
    BY <1>6, <2>4 DEF Exposed
<1>7. Exposed'
  <2>1. Reserves \subseteq Requests
    BY DEF Requests
  <2> QED
    BY <1>2, <1>6, <2>1 DEF Exposed, Creating
<1> QED
  BY <1>1, <1>3, <1>5, <1>7 DEF Kept

(* ... and that commit nothing.                                            *)
LEMMA KeptQuiet ==
    ASSUME KeptInv, NEW r \in Requests, pc[r] \notin Answered,
           NEW l, l # "idle", pc[r] = "return_commit" => l = "failed",
           l \in Reserving => r \in Reserves,
           l \in {"return_merge", "return_flush", "return_assign", "return_commit"}
              => r \in Returns,
           pc' = [pc EXCEPT ![r] = l],
           UNCHANGED <<outbox, queue, resv, raced, assigned>>,
           l = "reserve_create" => queue[rtitle'[r]] = None,
           \A q \in Requests : (q = r /\ pc[r] = "idle") \/ rtitle'[q] = rtitle[q]
    PROVE  Kinds' /\ Queued' /\ Kept' /\ Exposed'
<1>1. \A q \in Requests : pc[q] \in {"return_commit", "failed"} =>
         pc'[q] \in {"return_commit", "failed"}
  BY DEF KeptInv, WaitInv, CheckoutInv, TypeInv, TypeOK, Answered
<1>2. \A x \in Reserves : Served(x) => Served(x)'
  BY <1>1 DEF Served, Requests
<1> QED
  BY <1>2, KeptQueues

(* Every step keeps the accepted reservations.                             *)
LEMMA NextKept == KeptInv /\ [Next]_vars => KeptInv'
<1> SUFFICES ASSUME KeptInv, [Next]_vars PROVE KeptInv'
  OBVIOUS
<1>0. WaitInv'
  BY NextWait DEF KeptInv
<1> DEFINE Rest == Kinds' /\ Queued' /\ Kept' /\ Exposed'
<1>a. TypeOK /\ ArgsOK /\ WaitInv
  BY DEF KeptInv, WaitInv, CheckoutInv, TypeInv
<1>b. Reserves \subseteq Requests /\ Returns \subseteq Requests
  BY DEF Requests
<1>1. ASSUME NEW r \in Issues, NEW c \in Copies, NEW u \in Users, IssueLock(r, c, u)
      PROVE  Rest
  BY <1>1, <1>a, KeptQuiet
     DEF IssueLock, Goto, rows, waitlist, Requests, TypeOK, Answered, Reserving
<1>2. ASSUME NEW r \in Returns, NEW c \in Copies, ReturnLock(r, c)
      PROVE  Rest
  BY <1>2, <1>a, KeptQuiet
     DEF ReturnLock, Goto, rows, waitlist, Requests, TypeOK, Answered, Reserving
<1>3. ASSUME NEW r \in Returns, NEW c \in Copies, ReturnNotIssued(r, c)
      PROVE  Rest
  BY <1>3, <1>a, KeptQuiet
     DEF ReturnNotIssued, Goto, rows, waitlist, args, objs, Requests, Answered, Reserving
<1>4. ASSUME NEW r \in Reserves, NEW t \in Titles, NEW u \in Users,
             ReserveBegin(r, t, u)
      PROVE  Rest
  <2>1. PICK l \in {"reserve_create", "reserve_check"} :
          /\ pc' = [pc EXCEPT ![r] = l]
          /\ l = "reserve_create" => queue[t] = None
    BY <1>4 DEF ReserveBegin, Goto
  <2>2. rtitle'[r] = t
    BY <1>4, <1>a DEF ReserveBegin, TypeOK, Requests
  <2> QED
    BY <1>4, <1>a, <2>1, <2>2, KeptQuiet
       DEF ReserveBegin, rows, waitlist, objs, Requests, TypeOK, Answered, Reserving
<1>5. ASSUME NEW r \in Requests, IssueUser(r)
      PROVE  Rest
  BY <1>5, <1>a, KeptQuiet DEF IssueUser, Goto, rows, waitlist, args, Answered, Reserving
<1>6. ASSUME NEW r \in Requests, Raise(r), pc[r] \in InTransaction
      PROVE  Rest
  BY <1>6, <1>a, KeptQuiet
     DEF Raise, Goto, rows, waitlist, args, objs, InTransaction, Answered, Reserving
<1>7. ASSUME NEW r \in Requests, ReturnMerge(r), CanReturn(copyObj[r])
      PROVE  Rest
  BY <1>7, <1>a, KeptQuiet
     DEF ReturnMerge, Goto, rows, waitlist, args, Answered, Reserving, KeptInv, Kinds
<1>8. ASSUME NEW r \in Requests, ReturnFlush(r)
      PROVE  Rest
  BY <1>8, <1>a, KeptQuiet
     DEF ReturnFlush, Goto, rows, waitlist, args, objs, Answered, Reserving, KeptInv, Kinds
<1>10. ASSUME NEW r \in Requests, ReserveCheck(r)
       PROVE  Rest
  <2>1. PICK l \in {"reserve_append", "done"} : pc' = [pc EXCEPT ![r] = l]
    BY <1>10 DEF ReserveCheck, Goto
  <2> QED
    BY <1>10, <1>a, <2>1, KeptQuiet
       DEF ReserveCheck, rows, waitlist, args, objs, Answered, Reserving, KeptInv, Kinds
<1>9. ASSUME NEW r \in Requests, ReserveCreate(r)
      PROVE  Rest
  <2>1. /\ pc[r] = "reserve_create" /\ pc' = [pc EXCEPT ![r] = "reserve_check"]
        /\ r \in Reserves /\ rtitle[r] \in Titles
        /\ UNCHANGED <<outbox, resv, raced, assigned, rtitle>>
        /\ queue' = [queue EXCEPT ![rtitle[r]] = <<>>]
    BY <1>9, <1>a DEF ReserveCreate, Goto, rows, args, objs, ArgsOK, Reserving, KeptInv, Kinds
  <2>2. Kinds'
    BY <1>a, <2>1 DEF KeptInv, Kinds, TypeOK, Reserving
  <2>3. Queued'
    BY <1>a, <2>1 DEF KeptInv, Queued, TypeOK
  <2>4. ASSUME NEW x \in Reserves, resv[x].status = "PENDING"
        PROVE  InQueue(x)' \/ x \in raced'
    <3>1. x # r /\ rtitle[x] \in Titles
      BY <1>a, <1>b, <2>1, <2>4 DEF KeptInv, Queued, WaitInv, Promised
    <3>2. CASE rtitle[x] = rtitle[r]
      <4>1. r \in Creating(rtitle[x])
        BY <2>1, <3>2 DEF Creating
      <4> QED
        BY <2>1, <2>4, <4>1 DEF KeptInv, Exposed
    <3>3. CASE rtitle[x] # rtitle[r]
      <4>1. queue'[rtitle[x]] = queue[rtitle[x]]
        BY <1>a, <2>1, <3>1, <3>3 DEF TypeOK
      <4> QED
        BY <2>1, <2>4, <4>1 DEF KeptInv, Kept, InQueue
    <3> QED
      BY <3>2, <3>3
  <2>5. ASSUME NEW x \in Reserves, resv[x].status = "READY_FOR_PICKUP"
        PROVE  Served(x)'
    BY <1>a, <1>b, <2>1, <2>5 DEF KeptInv, Kept, Served, TypeOK
  <2>6. Exposed'
    BY <1>a, <1>b, <2>1 DEF KeptInv, Exposed, Creating, TypeOK
  <2> QED
    BY <2>1, <2>2, <2>3, <2>4, <2>5, <2>6 DEF Kept
<1>11. ASSUME NEW r \in Requests, ReserveAppend(r)
       PROVE  Rest
  <2> DEFINE t == rtitle[r]
  <2>1. /\ pc[r] = "reserve_append" /\ pc' = [pc EXCEPT ![r] = "done"]
        /\ t \in Titles /\ queue[t] \in Seq(Requests)
        /\ UNCHANGED <<outbox, assigned, rtitle>>
        /\ queue' = [queue EXCEPT ![t] = Append(@, r)]
        /\ resv'[r].status = "PENDING" /\ resv'[r].title = t
        /\ \A q \in Requests \ {r} : resv'[q] = resv[q]
        /\ raced \subseteq raced' /\ (Creating(t) # {} => r \in raced')
    BY <1>11, <1>a DEF ReserveAppend, Goto, rows, args, objs, ArgsOK, Reserving, TypeOK
  <2>2. /\ queue'[t] \in Seq(Requests)
        /\ \A x \in Requests : x = r \/ (\E i \in DOMAIN queue[t] : queue[t][i] = x)
             => \E i \in DOMAIN queue'[t] : queue'[t][i] = x
        /\ \A s \in Titles \ {t} : queue'[s] = queue[s]
    <3>1. queue'[t] = Append(queue[t], r) /\ \A s \in Titles \ {t} : queue'[s] = queue[s]
      BY <1>a, <2>1 DEF TypeOK
    <3>2. /\ Append(queue[t], r) \in Seq(Requests)
          /\ DOMAIN Append(queue[t], r) = 1 .. Len(queue[t]) + 1
          /\ DOMAIN queue[t] = 1 .. Len(queue[t]) /\ Len(queue[t]) \in Nat
          /\ Append(queue[t], r)[Len(queue[t]) + 1] = r
          /\ \A i \in 1 .. Len(queue[t]) : Append(queue[t], r)[i] = queue[t][i]
      BY <2>1
    <3> QED
      BY <3>1, <3>2
  <2>3. Kinds'
    BY <1>a, <2>1 DEF KeptInv, Kinds, TypeOK, Reserving
  <2>4. Queued'
    BY <2>1, <2>2 DEF KeptInv, Queued
  <2>5. ASSUME NEW x \in Reserves, resv'[x].status = "PENDING"
        PROVE  InQueue(x)' \/ x \in raced'
    <3>1. CASE x = r
      BY <1>b, <2>1, <2>2, <3>1 DEF InQueue
    <3>2. CASE x # r
      <4>1. x \in Requests /\ resv[x].status = "PENDING" /\ rtitle[x] \in Titles
        BY <1>b, <2>1, <2>5, <3>2 DEF KeptInv, Queued
      <4>2. InQueue(x) => InQueue(x)'
        BY <2>1, <2>2, <4>1 DEF InQueue
      <4> QED
        BY <2>1, <4>1, <4>2 DEF KeptInv, Kept
    <3> QED
      BY <3>1, <3>2
  <2>6. ASSUME NEW x \in Reserves, resv'[x].status = "READY_FOR_PICKUP"
        PROVE  Served(x)'
    <3>1. resv[x].status = "READY_FOR_PICKUP"
      BY <1>b, <2>1, <2>6
    <3> QED
      BY <1>a, <1>b, <2>1, <3>1 DEF KeptInv, Kept, Served, TypeOK
  <2>7. ASSUME NEW x \in Reserves, NEW q \in Reserves, resv'[x].status = "PENDING",
               pc'[q] = "reserve_create", rtitle[q] = rtitle[x]
        PROVE  x \in raced'
    <3>1. q \in Creating(rtitle[x])
      BY <1>a, <1>b, <2>1, <2>7 DEF Creating, TypeOK
    <3> QED
      BY <1>b, <2>1, <2>7, <3>1 DEF KeptInv, Exposed
  <2>8. Exposed'
    BY <2>1, <2>7 DEF Exposed, Creating
  <2> QED
    BY <2>3, <2>4, <2>5, <2>6, <2>8 DEF Kept
<1>12. ASSUME NEW r \in Requests, ReturnAssign(r)
       PROVE  Rest
  <2> DEFINE t == isbn[rcopy[r]]
  <2>0. t \in Titles /\ r \in Returns
    BY <1>12, <1>a, CirculationAssumption
       DEF ReturnAssign, ArgsOK, InTransaction, KeptInv, Kinds
  <2>1. PICK first \in Waiting(t) :
          LET entry == queue[t][first]
          IN  /\ \A i \in Waiting(t) : first <= i
              /\ queue' = [queue EXCEPT ![t] = SubSeq(@, first + 1, Len(@))]
              /\ resv' = [resv EXCEPT ![entry].status = "READY_FOR_PICKUP",
                                      ![entry].copy = rcopy[r]]
              /\ assigned' = [assigned EXCEPT ![r] = entry]
    BY <1>12 DEF ReturnAssign
  <2>2. PICK entry : entry = queue[t][first]
    OBVIOUS
  <2>3. /\ queue[t] \in Seq(Requests) /\ first \in 1 .. Len(queue[t])
        /\ Len(queue[t]) \in Nat /\ DOMAIN queue[t] = 1 .. Len(queue[t])
        /\ \A i \in 1 .. Len(queue[t]) : resv[queue[t][i]].status = "PENDING" => first <= i
    <3>1. queue[t] \in Seq(Requests)
      BY <1>a, <2>0, <2>1 DEF Waiting, TypeOK
    <3>2. Len(queue[t]) \in Nat /\ DOMAIN queue[t] = 1 .. Len(queue[t])
      BY <3>1
    <3> QED
      BY <2>1, <3>1, <3>2 DEF Waiting
  <2>4. entry \in Requests /\ resv[entry].status = "PENDING"
    BY ONLY <1>a, <2>0, <2>2, first \in Waiting(t), WaitingEntry
  <2>5. /\ pc[r] = "return_assign" /\ pc' = [pc EXCEPT ![r] = "return_commit"]
        /\ UNCHANGED <<outbox, rtitle, raced>>
    BY <1>12 DEF ReturnAssign, Goto, rows, args
  <2>6. /\ resv'[entry].status = "READY_FOR_PICKUP" /\ resv'[entry].title = resv[entry].title
        /\ \A q \in Requests \ {entry} : resv'[q] = resv[q]
        /\ assigned' = [assigned EXCEPT ![r] = entry]
    BY <1>a, <2>1, <2>2, <2>4 DEF TypeOK, Reservation
  <2> DEFINE n == Len(queue[t])
             rest == SubSeq(queue[t], first + 1, n)
  <2>7. /\ queue'[t] = rest /\ \A s \in Titles \ {t} : queue'[s] = queue[s]
        /\ rest \in Seq(Requests) /\ DOMAIN rest = 1 .. n - first
        /\ \A i \in 1 .. n - first : rest[i] = queue[t][first + i]
    <3>1. queue'[t] = rest /\ \A s \in Titles \ {t} : queue'[s] = queue[s]
      BY <1>a, <2>0, <2>1 DEF TypeOK
    <3>2. rest \in Seq(Requests) /\ Len(rest) = n - first
      BY <2>3
    <3>3. DOMAIN rest = 1 .. n - first
      BY <3>2
    <3>4. \A i \in 1 .. n - first : rest[i] = queue[t][first + i]
      BY <2>3
    <3> QED
      BY <3>1, <3>2, <3>3, <3>4
  <2>8. Kinds'
    BY <1>a, <2>0, <2>5 DEF KeptInv, Kinds, TypeOK, Reserving
  <2>9. Queued'
    <3> HIDE DEF t, rest
    <3> QED
      BY <2>4, <2>5, <2>6, <2>7 DEF KeptInv, Queued
  <2>10. ASSUME NEW x \in Reserves, resv'[x].status = "PENDING"
         PROVE  InQueue(x)' \/ x \in raced'
    <3>1. x \in Requests /\ x # entry /\ resv[x].status = "PENDING" /\ rtitle[x] \in Titles
      BY <1>b, <2>4, <2>6, <2>10 DEF KeptInv, Queued
    <3>4. ASSUME InQueue(x), rtitle[x] = t PROVE InQueue(x)'
      <4>1. PICK i \in 1 .. n : queue[t][i] = x
        BY <2>3, <3>4 DEF InQueue
      <4>2. first <= i /\ i # first
        BY <2>2, <2>3, <3>1, <4>1
      <4>3. i - first \in 1 .. n - first /\ first + (i - first) = i
        BY <2>3, <4>1, <4>2
      <4>4. queue'[t][i - first] = x /\ i - first \in DOMAIN queue'[t]
        BY <2>7, <4>1, <4>3
      <4> HIDE DEF t
      <4> QED
        BY <2>5, <3>4, <4>4 DEF InQueue
    <3>5. ASSUME InQueue(x), rtitle[x] # t PROVE InQueue(x)'
      BY <2>5, <2>7, <3>1, <3>5 DEF InQueue
    <3> QED
      BY <2>5, <3>1, <3>4, <3>5 DEF KeptInv, Kept
  <2>11. ASSUME NEW x \in Reserves, resv'[x].status = "READY_FOR_PICKUP"
         PROVE  Served(x)'
    <3>1. CASE x = entry
      <4>1. assigned'[r] = x /\ pc'[r] = "return_commit"
        BY <1>a, <2>5, <2>6, <3>1 DEF TypeOK
      <4> QED
        BY <2>0, <4>1 DEF Served
    <3>2. CASE x # entry
      <4>1. Served(x)
        BY <1>b, <2>6, <2>11, <3>2 DEF KeptInv, Kept
      <4>2. \A q \in Returns : pc[q] \in {"return_commit", "failed"} =>
               pc'[q] = pc[q] /\ assigned'[q] = assigned[q]
        BY <1>a, <1>b, <2>5, <2>6 DEF TypeOK
      <4> QED
        BY <2>5, <4>1, <4>2 DEF Served
    <3> QED
      BY <3>1, <3>2
  <2>12. Exposed'
    <3>1. \A x \in Reserves : resv'[x].status = "PENDING" => resv[x].status = "PENDING"
      BY <1>b, <2>4, <2>6
    <3> QED
      BY <1>a, <1>b, <2>5, <3>1 DEF KeptInv, Exposed, Creating, TypeOK
  <2> QED
    BY <2>8, <2>9, <2>10, <2>11, <2>12 DEF Kept
<1>13. ASSUME NEW r \in Requests, ReturnNoWaiter(r)
       PROVE  Rest
  <2> DEFINE t == isbn[rcopy[r]]
  <2>1. /\ pc[r] = "return_assign" /\ pc' = [pc EXCEPT ![r] = "return_commit"]
        /\ t \in Titles /\ r \in Returns /\ Waiting(t) = {}
        /\ UNCHANGED <<outbox, rtitle, resv, raced, assigned>>
        /\ \A s \in Titles \ {t} : queue'[s] = queue[s]
        /\ queue[t] = None => queue'[t] = None
        /\ queue[t] # None => queue'[t] = <<>>
    BY <1>13, <1>a, CirculationAssumption
       DEF ReturnNoWaiter, Goto, rows, args, objs, ArgsOK, InTransaction, TypeOK, KeptInv, Kinds
  <2>2. Kinds'
    BY <1>a, <2>1 DEF KeptInv, Kinds, TypeOK, Reserving
  <2>3. Queued'
    <3>1. queue[t] \in Seq(Requests) => queue'[t] \in Seq(Requests)
      <4>1. CASE queue[t] = None
        BY <2>1, <4>1
      <4>2. CASE queue[t] # None
        <5>1. << >> \in Seq(Requests)
          OBVIOUS
        <5> HIDE DEF t
        <5> QED
          BY <2>1, <4>2, <5>1
      <4> QED
        BY <4>1, <4>2
    <3> HIDE DEF t
    <3> QED
      BY <2>1, <3>1 DEF KeptInv, Queued
  <2>4. ASSUME NEW x \in Reserves, resv[x].status = "PENDING"
        PROVE  InQueue(x)' \/ x \in raced'
    <3>1. x \in Requests /\ rtitle[x] \in Titles
      BY <1>b, <2>4 DEF KeptInv, Queued
    <3>2. CASE rtitle[x] = t /\ queue[t] # None
      <4>1. \A i \in DOMAIN queue[t] : resv[queue[t][i]].status # "PENDING"
        BY <2>1, <3>2 DEF Waiting
      <4>2. ~ InQueue(x)
        BY <2>4, <3>2, <4>1 DEF InQueue
      <4> QED
        BY <2>1, <2>4, <4>2 DEF KeptInv, Kept
    <3>3. CASE ~ (rtitle[x] = t /\ queue[t] # None)
      <4>1. queue'[rtitle[x]] = queue[rtitle[x]]
        BY <2>1, <3>1, <3>3
      <4> QED
        BY <2>1, <2>4, <4>1 DEF KeptInv, Kept, InQueue
    <3> QED
      BY <3>2, <3>3
  <2>5. ASSUME NEW x \in Reserves, resv[x].status = "READY_FOR_PICKUP"
        PROVE  Served(x)'
    BY <1>a, <1>b, <2>1, <2>5 DEF KeptInv, Kept, Served, TypeOK
  <2>6. Exposed'
    <3>1. \A q \in Reserves : pc'[q] = "reserve_create" => pc[q] = "reserve_create"
      BY <1>a, <1>b, <2>1 DEF TypeOK
    <3> HIDE DEF t
    <3> QED
      BY <2>1, <3>1 DEF KeptInv, Exposed, Creating
  <2> QED
    BY <2>1, <2>2, <2>3, <2>4, <2>5, <2>6 DEF Kept
<1>14. ASSUME NEW r \in Requests, NEW e \in Event, outbox' = Append(outbox, e),
              IssueCommit(r) \/ (ReturnCommit(r) /\ e.res = assigned[r])
       PROVE  Rest
  <2>1. PICK n \in Nat :
          /\ DOMAIN outbox = 1 .. n /\ DOMAIN outbox' = 1 .. n + 1
          /\ outbox'[n + 1] = e /\ \A i \in 1 .. n : outbox'[i] = outbox[i]
    BY <1>14, <1>a, AppendEvent DEF TypeOK
  <2>2. /\ pc[r] \in {"issue_commit", "return_commit"} /\ pc' = [pc EXCEPT ![r] = "done"]
        /\ UNCHANGED <<queue, resv, raced, rtitle, assigned>>
        /\ pc[r] = "return_commit" => e.res = assigned[r]
    BY <1>14 DEF IssueCommit, ReturnCommit, Goto, waitlist, args, objs
  <2>3. ASSUME NEW x \in Reserves, Served(x) PROVE Served(x)'
    <3>1. CASE \E i \in DOMAIN outbox : outbox[i].res = x
      BY <2>1, <3>1 DEF Served
    <3>2. CASE \E q \in Returns : assigned[q] = x /\ pc[q] \in {"return_commit", "failed"}
      <4>1. PICK q \in Returns : assigned[q] = x /\ pc[q] \in {"return_commit", "failed"}
        BY <3>2
      <4>2. CASE q = r
        BY <2>1, <2>2, <4>1, <4>2 DEF Served
      <4>3. CASE q # r
        BY <1>a, <1>b, <2>2, <4>1, <4>3 DEF Served, TypeOK
      <4> QED
        BY <4>2, <4>3
    <3> QED
      BY <2>3, <3>1, <3>2 DEF Served
  <2> QED
    BY <2>2, <2>3, KeptQueues DEF Answered, Reserving
<1>15. ASSUME NEW r \in Requests, IssueCommit(r) \/ ReturnCommit(r)
       PROVE  Rest
  <2>1. /\ rcopy[r] \in Copies /\ ruser[r] \in Users
        /\ assigned[r] \in Requests \cup {None}
    BY <1>15, <1>a DEF IssueCommit, ReturnCommit, ArgsOK, TypeOK, InTransaction
  <2>2. CASE IssueCommit(r)
    <3>1. PICK e : e = [topic |-> "copy.issued", copy |-> rcopy[r], user |-> ruser[r],
                        res |-> None]
      OBVIOUS
    <3>2. e \in Event /\ outbox' = Append(outbox, e)
      BY <2>1, <2>2, <3>1 DEF Event, IssueCommit
    <3> QED
      BY <1>14, <2>2, <3>2
  <2>3. CASE ReturnCommit(r)
    <3>1. PICK e : e = [topic |-> "copy.returned", copy |-> rcopy[r], user |-> ruser[r],
                        res |-> assigned[r]]
      OBVIOUS
    <3>2. e \in Event /\ outbox' = Append(outbox, e) /\ e.res = assigned[r]
      BY <2>1, <2>3, <3>1 DEF Event, ReturnCommit
    <3> QED
      BY <1>14, <2>3, <3>2
  <2> QED
    BY <1>15, <2>2, <2>3
<1>16. ASSUME Restart PROVE Rest
  <2>1. \A q \in Requests : /\ resv'[q].status = "NONE"
                            /\ pc'[q] \in {"idle", "done", "failed"}
    BY <1>16 DEF Restart, NoReservation
  <2> QED
    BY <1>b, <2>1 DEF Kinds, Queued, Kept, Exposed, Reserving
<1>17. ASSUME UNCHANGED vars PROVE Rest
  BY <1>17 DEF vars, rows, waitlist, args, objs, KeptInv, Kinds, Queued, Kept, InQueue,
               Exposed, Creating, Served
<1> HIDE DEF Rest
<1>18. ASSUME NEW r \in Requests, IssueRefuse(r) \/ Rollback(r)
       PROVE  Rest
  BY <1>6, <1>18 DEF IssueRefuse, Rollback, InTransaction
<1>19. ASSUME NEW r \in Requests, ReturnMerge(r)
       PROVE  Rest
  BY <1>6, <1>7, <1>19 DEF ReturnMerge, InTransaction
<1>20. Rest
  BY <1>1, <1>2, <1>3, <1>4, <1>5, <1>8, <1>9, <1>10, <1>11, <1>12, <1>13, <1>15,
     <1>16, <1>17, <1>18, <1>19 DEF Next, Step
<1> QED
  BY <1>0, <1>20 DEF KeptInv, Rest

(* A reservation that was accepted waits in its queue or has been given a  *)
(* copy by a return, unless a request about to create the deque was under  *)
(* way when it was appended.                                               *)
THEOREM ReservationsKept == Spec => []ReservationKept
<1>1. Spec => []KeptInv
  BY InitKept, NextKept, PTL DEF Spec
<1> QED
  BY <1>1, KeptImplies, PTL

-----------------------------------------------------------------------------
(***************************************************************************)
(* The borrow limit.  LimitUntilReturn is carried from the test of         *)
(* can_borrow to the commit by the lock of the user row (UserHeld): the    *)
(* object the checkout will write is still the row and one more copy       *)
(* (LoansCounted).                                                         *)
(***************************************************************************)
UserHeld ==
    \A r \in Requests : pc[r] = "issue_commit" => userLock[ruser[r]] = r

NoneReturned(u) ==
    \A i \in DOMAIN outbox :
        outbox[i].user = u => outbox[i].topic # "copy.returned"

LoansCounted ==
    \A u \in Users : NoneReturned(u) =>
        /\ userRow[u].borrowed = IssuedTo(u)
        /\ IsFiniteSet(userRow[u].borrowed)
        /\ Cardinality(userRow[u].borrowed) <= MaxBorrow

LoanPrepared ==
    \A r \in Requests : pc[r] = "issue_commit" /\ NoneReturned(ruser[r]) =>
        /\ userObj[r].borrowed = userRow[ruser[r]].borrowed \cup {rcopy[r]}
        /\ Cardinality(userRow[ruser[r]].borrowed) < MaxBorrow

LimitInv == CheckoutInv /\ UserHeld /\ LoansCounted /\ LoanPrepared

(* At the start nobody has a loan.                                         *)
LEMMA InitLimit == Init => LimitInv
<1> SUFFICES ASSUME Init PROVE LimitInv
  OBVIOUS
<1>1. UserHeld /\ LoanPrepared
  BY DEF Init, UserHeld, LoanPrepared
<1>2. \A u \in Users : userRow[u].borrowed = {} /\ IssuedTo(u) = {}
  <2>1. \A u \in Users : userRow[u] \in [borrowed : {{}}, fines : Balances]
    BY DEF Init
  <2>2. \A u \in Users : userRow[u].borrowed = {}
    BY <2>1
  <2>3. \A c \in Copies : copyRow[c].borrower = None
    BY DEF Init, NewCopy
  <2> QED
    BY <2>2, <2>3, NoneAssumption DEF IssuedTo
<1>3. LoansCounted
  <2>1. IsFiniteSet({}) /\ Cardinality({}) = 0 /\ MaxBorrow \in Nat
    BY FS_EmptySet, CirculationAssumption
  <2> QED
    BY ONLY <1>2, <2>1 DEF LoansCounted
<1> QED
  BY <1>1, <1>3, InitCheckout DEF LimitInv

(* Steps that commit nothing and bring no checkout to its commit.          *)
LEMMA LimitQuiet ==
    ASSUME LimitInv, UNCHANGED <<copyRow, userRow, outbox>>,
           \A q \in Requests : pc'[q] = "issue_commit" =>
              /\ pc[q] = "issue_commit" /\ UNCHANGED <<ruser[q], rcopy[q], userObj[q]>>
              /\ userLock[ruser[q]] = q => userLock'[ruser[q]] = q
    PROVE  UserHeld' /\ LoansCounted' /\ LoanPrepared'
<1>1. \A u : NoneReturned(u)' <=> NoneReturned(u)
  BY DEF NoneReturned
<1>2. UserHeld'
  BY DEF LimitInv, UserHeld
<1>3. LoansCounted'
  BY <1>1 DEF LimitInv, LoansCounted, IssuedTo
<1>4. LoanPrepared'
  BY <1>1 DEF LimitInv, LoanPrepared
<1> QED
  BY <1>2, <1>3, <1>4

(* Every step keeps the lists of loans and the limit.                      *)
LEMMA NextLimit == LimitInv /\ [Next]_vars => LimitInv'
<1> SUFFICES ASSUME LimitInv, [Next]_vars PROVE LimitInv'
  OBVIOUS
<1>0. CheckoutInv'
  BY NextCheckout DEF LimitInv
<1>a. TypeOK /\ ArgsOK /\ Holding /\ CopyObjOK
  BY DEF LimitInv, CheckoutInv, TypeInv
<1> DEFINE Rest == UserHeld' /\ LoansCounted' /\ LoanPrepared'
<1>1. ASSUME NEW r \in Issues, NEW c \in Copies, NEW u \in Users, IssueLock(r, c, u)
      PROVE  Rest
  BY <1>1, <1>a, LimitQuiet DEF IssueLock, Goto, rows, Requests, TypeOK
<1>2. ASSUME NEW r \in Returns, NEW c \in Copies, ReturnLock(r, c)
      PROVE  Rest
  BY <1>2, <1>a, LimitQuiet DEF ReturnLock, Goto, rows, Requests, TypeOK
<1>3. ASSUME NEW r \in Returns, NEW c \in Copies, ReturnNotIssued(r, c)
      PROVE  Rest
  BY <1>3, <1>a, LimitQuiet
     DEF ReturnNotIssued, Goto, rows, locks, args, objs, Requests, TypeOK
<1>4. ASSUME NEW r \in Reserves, NEW t \in Titles, NEW u \in Users,
             ReserveBegin(r, t, u)
      PROVE  Rest
  BY <1>4, <1>a, LimitQuiet DEF ReserveBegin, Goto, rows, locks, objs, Requests, TypeOK
<1>5. ASSUME NEW r \in Requests, Raise(r), pc[r] \in InTransaction
      PROVE  Rest
  <2>1. \A q \in Requests : pc'[q] = "issue_commit" =>
           q # r /\ pc[q] = "issue_commit" /\ ruser[q] \in Users
    BY <1>5, <1>a DEF Raise, Goto, TypeOK, ArgsOK, InTransaction
  <2> QED
    BY <1>5, <1>a, <2>1, LimitQuiet DEF Raise, Unlock, rows, args, objs, TypeOK
<1>6. ASSUME NEW r \in Requests, ReturnMerge(r), CanReturn(copyObj[r])
      PROVE  Rest
  BY <1>6, <1>a, LimitQuiet DEF ReturnMerge, Goto, rows, locks, args, TypeOK
<1>7. ASSUME NEW r \in Requests, ReturnFlush(r)
      PROVE  Rest
  <2>1. \A q \in Requests : pc'[q] = "issue_commit" =>
           q # r /\ pc[q] = "issue_commit" /\ ruser[q] \in Users
    BY <1>7, <1>a DEF ReturnFlush, Goto, TypeOK, ArgsOK, InTransaction
  <2>2. \A q \in Requests, u \in Users : userLock[u] = q => userLock'[u] = q
    BY <1>7, <1>a, CirculationAssumption DEF ReturnFlush, TypeOK
  <2> QED
    BY <1>7, <1>a, <2>1, <2>2, LimitQuiet DEF ReturnFlush, rows, args, objs
<1>8. ASSUME NEW r \in Requests, ReserveCreate(r) \/ ReserveCheck(r) \/ ReserveAppend(r)
      PROVE  Rest
  BY <1>8, <1>a, LimitQuiet
     DEF ReserveCreate, ReserveCheck, ReserveAppend, Goto, rows, locks, args, objs, TypeOK
<1>9. ASSUME NEW r \in Requests, ReturnAssign(r) \/ ReturnNoWaiter(r)
      PROVE  Rest
  BY <1>9, <1>a, LimitQuiet
     DEF ReturnAssign, ReturnNoWaiter, Goto, rows, locks, args, objs, TypeOK
<1>10. ASSUME NEW r \in Requests, IssueUser(r)
       PROVE  Rest
  <2>1. /\ ruser[r] \in Users /\ rcopy[r] \in Copies /\ userRow[ruser[r]] \in UserRow
        /\ Cardinality(userRow[ruser[r]].borrowed) < MaxBorrow
    BY <1>10, <1>a DEF IssueUser, ArgsOK, TypeOK, InTransaction, CanBorrow
  <2>2. /\ pc[r] = "issue_user" /\ pc' = [pc EXCEPT ![r] = "issue_commit"]
        /\ userLock[ruser[r]] = None /\ userLock' = [userLock EXCEPT ![ruser[r]] = r]
        /\ userObj'[r].borrowed = userRow[ruser[r]].borrowed \cup {rcopy[r]}
        /\ \A q \in Requests \ {r} : userObj'[q] = userObj[q]
        /\ UNCHANGED <<copyRow, userRow, outbox, rcopy, ruser>>
    BY <1>10, <1>a, <2>1 DEF IssueUser, Goto, rows, args, TypeOK, UserRow
  <2>3. \A u : NoneReturned(u)' <=> NoneReturned(u)
    BY <2>2 DEF NoneReturned
  <2>4. LoansCounted'
    BY <2>2, <2>3 DEF LimitInv, LoansCounted, IssuedTo
  <2>5. UserHeld'
    BY <1>a, <2>1, <2>2, CirculationAssumption DEF LimitInv, UserHeld, TypeOK
  <2>6. LoanPrepared'
    BY <1>a, <2>1, <2>2, <2>3 DEF LimitInv, LoanPrepared, TypeOK
  <2> QED
    BY <2>4, <2>5, <2>6
<1>11. ASSUME NEW r \in Requests, IssueCommit(r)
       PROVE  Rest
  <2>1. /\ rcopy[r] \in Copies /\ ruser[r] \in Users
        /\ copyRow[rcopy[r]].borrower = None /\ copyObj[r].borrower = ruser[r]
    BY <1>11, <1>a DEF IssueCommit, ArgsOK, CopyObjOK, InTransaction
  <2> DEFINE e == [topic |-> "copy.issued", copy |-> rcopy[r], user |-> ruser[r],
                   res |-> None]
  <2>2. e \in Event
    BY <2>1 DEF Event
  <2>3. PICK n \in Nat :
          /\ DOMAIN outbox = 1 .. n /\ DOMAIN outbox' = 1 .. n + 1
          /\ outbox'[n + 1] = e /\ \A i \in 1 .. n : outbox'[i] = outbox[i]
    BY <1>11, <1>a, <2>2, AppendEvent DEF IssueCommit, TypeOK
  <2>4. /\ pc[r] = "issue_commit" /\ pc' = [pc EXCEPT ![r] = "done"]
        /\ userRow'[ruser[r]] = userObj[r]
        /\ \A u \in Users : u # ruser[r] => userRow'[u] = userRow[u]
        /\ copyRow'[rcopy[r]] = copyObj[r]
        /\ \A d \in Copies : d # rcopy[r] => copyRow'[d] = copyRow[d]
        /\ UNCHANGED <<rcopy, ruser, userObj>>
    BY <1>11, <1>a, <2>1 DEF IssueCommit, Goto, args, objs, TypeOK
  <2>5. \A u : NoneReturned(u)' => NoneReturned(u)
    BY <2>3 DEF NoneReturned
  <2>6. \A q \in Requests : pc'[q] = "issue_commit" =>
           /\ q # r /\ pc[q] = "issue_commit" /\ ruser[q] \in Users /\ ruser[q] # ruser[r]
           /\ userLock[ruser[q]] = q /\ userLock'[ruser[q]] = q
    BY <1>11, <1>a, <2>4
       DEF LimitInv, UserHeld, TypeOK, ArgsOK, InTransaction, IssueCommit, Unlock
  <2>7. UserHeld'
    BY <2>4, <2>6 DEF UserHeld
  <2>8. LoanPrepared'
    BY <2>4, <2>5, <2>6 DEF LimitInv, LoanPrepared
  <2>9. LoansCounted'
    <3> SUFFICES ASSUME NEW u \in Users, NoneReturned(u)'
                 PROVE  /\ userRow'[u].borrowed = IssuedTo(u)'
                        /\ IsFiniteSet(userRow'[u].borrowed)
                        /\ Cardinality(userRow'[u].borrowed) <= MaxBorrow
      BY DEF LoansCounted
    <3>1. /\ userRow[u].borrowed = IssuedTo(u)
          /\ IsFiniteSet(userRow[u].borrowed)
          /\ Cardinality(userRow[u].borrowed) <= MaxBorrow
      BY <2>5 DEF LimitInv, LoansCounted
    <3>2. CASE u # ruser[r]
      <4>1. IssuedTo(u)' = IssuedTo(u)
        BY <2>1, <2>4, <3>2, NoneAssumption DEF IssuedTo
      <4> QED
        BY <2>4, <3>1, <3>2, <4>1
    <3>3. CASE u = ruser[r]
      <4>1. /\ userRow'[u].borrowed = userRow[u].borrowed \cup {rcopy[r]}
            /\ Cardinality(userRow[u].borrowed) < MaxBorrow
        BY <2>4, <2>5, <3>3 DEF LimitInv, LoanPrepared
      <4>2. IssuedTo(u)' = IssuedTo(u) \cup {rcopy[r]}
        BY <2>1, <2>4, <3>3 DEF IssuedTo
      <4>3. rcopy[r] \notin userRow[u].borrowed
        BY <2>1, <3>1, NoneAssumption DEF IssuedTo
      <4>4. /\ IsFiniteSet(userRow[u].borrowed \cup {rcopy[r]})
            /\ Cardinality(userRow[u].borrowed \cup {rcopy[r]})
                  = Cardinality(userRow[u].borrowed) + 1
        BY <3>1, <4>3, FS_AddElement
      <4>5. Cardinality(userRow[u].borrowed) \in Nat
        BY <3>1, FS_CardinalityType
      <4>6. Cardinality(userRow[u].borrowed) + 1 <= MaxBorrow
        BY <4>1, <4>5, CirculationAssumption
      <4> QED
        BY <3>1, <4>1, <4>2, <4>4, <4>6
    <3> QED
      BY <3>2, <3>3
  <2> QED
    BY <2>7, <2>8, <2>9
<1>12. ASSUME NEW r \in Requests, ReturnCommit(r)
       PROVE  Rest
  <2>1. /\ rcopy[r] \in Copies /\ ruser[r] \in Users /\ assigned[r] \in Requests \cup {None}
        /\ copyRow[rcopy[r]].borrower = ruser[r] /\ copyObj[r].borrower = None
    BY <1>12, <1>a DEF ReturnCommit, TypeOK, ArgsOK, CopyObjOK, InTransaction
  <2> DEFINE e == [topic |-> "copy.returned", copy |-> rcopy[r], user |-> ruser[r],
                   res |-> assigned[r]]
  <2>2. e \in Event
    BY <2>1 DEF Event
  <2>3. PICK n \in Nat :
          /\ DOMAIN outbox = 1 .. n /\ DOMAIN outbox' = 1 .. n + 1
          /\ outbox'[n + 1] = e /\ \A i \in 1 .. n : outbox'[i] = outbox[i]
    BY <1>12, <1>a, <2>2, AppendEvent DEF ReturnCommit, TypeOK
  <2>4. /\ pc[r] = "return_commit" /\ pc' = [pc EXCEPT ![r] = "done"]
        /\ \A u \in Users : u # ruser[r] => userRow'[u] = userRow[u]
        /\ copyRow'[rcopy[r]] = copyObj[r]
        /\ \A d \in Copies : d # rcopy[r] => copyRow'[d] = copyRow[d]
        /\ UNCHANGED <<rcopy, ruser, userObj>>
    BY <1>12, <1>a, <2>1 DEF ReturnCommit, Goto, args, objs, TypeOK
  <2>5. \A u : NoneReturned(u)' => NoneReturned(u) /\ u # ruser[r]
    BY <2>3 DEF NoneReturned
  <2>6. \A q \in Requests : pc'[q] = "issue_commit" =>
           /\ q # r /\ pc[q] = "issue_commit" /\ ruser[q] \in Users
           /\ userLock[ruser[q]] = q /\ userLock'[ruser[q]] = q
    BY <1>12, <1>a, <2>4
       DEF LimitInv, UserHeld, TypeOK, ArgsOK, InTransaction, ReturnCommit, Unlock
  <2>7. UserHeld'
    BY <2>4, <2>6 DEF UserHeld
  <2>8. LoanPrepared'
    BY <2>4, <2>5, <2>6 DEF LimitInv, LoanPrepared
  <2>9. LoansCounted'
    <3> SUFFICES ASSUME NEW u \in Users, NoneReturned(u)'
                 PROVE  /\ userRow'[u].borrowed = IssuedTo(u)'
                        /\ IsFiniteSet(userRow'[u].borrowed)
                        /\ Cardinality(userRow'[u].borrowed) <= MaxBorrow
      BY DEF LoansCounted
    <3>1. NoneReturned(u) /\ u # ruser[r] /\ userRow'[u] = userRow[u]
      BY <2>4, <2>5
    <3>2. IssuedTo(u)' = IssuedTo(u)
      BY <2>1, <2>4, <3>1, NoneAssumption DEF IssuedTo
    <3> QED
      BY <3>1, <3>2 DEF LimitInv, LoansCounted
  <2> QED
    BY <2>7, <2>8, <2>9
<1>13. ASSUME Restart PROVE Rest
  BY <1>13, LimitQuiet DEF Restart, rows
<1>14. ASSUME UNCHANGED vars PROVE Rest
  BY <1>14, LimitQuiet DEF vars, rows, locks, args, objs
<1> HIDE DEF Rest
<1>15. ASSUME NEW r \in Requests, IssueRefuse(r) \/ Rollback(r)
       PROVE  Rest
  BY <1>5, <1>15 DEF IssueRefuse, Rollback, InTransaction
<1>16. ASSUME NEW r \in Requests, ReturnMerge(r)
       PROVE  Rest
  BY <1>5, <1>6, <1>16 DEF ReturnMerge, InTransaction
<1>17. Rest
  BY <1>1, <1>2, <1>3, <1>4, <1>7, <1>8, <1>9, <1>10, <1>11, <1>12, <1>13, <1>14, <1>15,
     <1>16 DEF Next, Step
<1> QED
  BY <1>0, <1>17 DEF LimitInv, Rest

(* Concurrent checkouts cannot take a user past the limit, for any number  *)
(* of copies, users and requests: until a return of the user is committed  *)
(* the list in the user row is the list of the copies issued to the user,  *)
(* and no longer than max_borrow_limit.                                    *)
THEOREM LimitHolds == Spec => []LimitUntilReturn
<1>1. Spec => []LimitInv
  BY InitLimit, NextLimit, PTL DEF Spec
<1>2. LimitInv => LimitUntilReturn
  BY DEF LimitInv, LoansCounted, LimitUntilReturn, NoneReturned
<1> QED
  BY <1>1, <1>2, PTL
=============================================================================

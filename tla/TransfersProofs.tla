--------------------------- MODULE TransfersProofs ---------------------------
(***************************************************************************)
(* Proofs about Transfers: the requests that write copies without a lock   *)
(* keep the loans and the transfers right, for any number of copies,       *)
(* branches and requests, for every copy that nobody else commits between  *)
(* the reading and the writing of a request and nobody registers again.    *)
(*                                                                         *)
(* The inductive invariant says what a request under way has in its hands: *)
(* for a copy that is not exposed, its object is the current row with the  *)
(* change of that request applied, so that the columns its UPDATE sets are *)
(* exactly this change.                                                    *)
(***************************************************************************)
EXTENDS Transfers, TLAPS

Labels == {"idle", "check", "complete", "merge", "commit", "done", "failed"}

(* The shape of the state, of exposed copies too; the source of a transfer *)
(* is what the copy said.                                                  *)
IsTransfer(x) ==
    \E s : x \in [copy : Copies \cup {None}, source : {s}, dest : Branches \cup {None},
                 status : {"NONE", "IN_TRANSIT", "COMPLETED"}]

ShapeOK ==
    /\ row = [c \in Copies |-> row[c]]
    /\ loan = [c \in Copies |-> loan[c]]
    /\ transfer = [m \in Moves |-> transfer[m]]
    /\ job = [a \in Arrivals |-> job[a]]
    /\ object = [r \in Requests |-> object[r]]
    /\ later = [r \in Adds |-> later[r]]
    /\ dirty = [r \in Requests |-> dirty[r]]
    /\ \A r \in Requests : object[r] = [c \in Copies |-> object[r][c]]
    /\ \A r \in Adds : later[r] = [c \in Copies |-> later[r][c]]

StepsOK ==
    /\ pc \in [Requests -> Labels]
    /\ \A r \in Requests \ Arrivals : pc[r] \notin {"check", "complete"}
    /\ \A r \in Requests : pc[r] \in {"idle", "done", "failed"} => object[r] = NoObjects
    /\ \A r \in Adds : pc[r] \in {"idle", "done", "failed"} => later[r] = NoObjects
    /\ \A m \in Moves : IsTransfer(transfer[m]) /\ (pc[m] = "idle" => transfer[m].copy = None)

WorkOK == ShapeOK /\ StepsOK

(* An arrival that is under way has a transfer, and the copy of it.        *)
JobOK ==
    \A a \in Arrivals :
        /\ pc[a] \in {"check", "complete", "merge", "commit"} =>
              /\ job[a] \in Moves /\ transfer[job[a]].copy \in Copies
              /\ \A d \in Copies : object[a][d] # None => d = transfer[job[a]].copy
        /\ pc[a] \in {"check", "complete"} => object[a][transfer[job[a]].copy] # None

(* A row is one of an available, a lent and a travelling copy.             *)
RowOK(c) ==
    IF row[c] = None THEN loan[c] = None
    ELSE /\ row[c] \in BookCopy /\ row[c].reserver = None
         /\ row[c].borrower = loan[c]
         /\ \/ row[c].status = "AVAILABLE" /\ loan[c] = None /\ row[c].target = None
            \/ row[c].status = "ISSUED" /\ loan[c] # None /\ row[c].target = None
            \/ row[c].status = "IN_TRANSIT" /\ loan[c] = None /\ row[c].target # None

(* What a request has of a copy comes from the row as it is now.           *)
MoveOK(m, c) ==
    object[m][c] # None =>
        /\ pc[m] \in {"merge", "commit"}
        /\ row[c] # None /\ row[c].status = "AVAILABLE"
        /\ transfer[m].copy = c /\ transfer[m].status = "IN_TRANSIT"
        /\ transfer[m].dest \in Branches
        /\ object[m][c] = StartTransfer(row[c], transfer[m].dest)

ArriveOK(a, c) ==
    object[a][c] # None =>
        /\ row[c] # None
        /\ pc[a] = "check" => object[a][c] = row[c]
        /\ pc[a] = "complete" => object[a][c] = row[c] /\ row[c].status = "IN_TRANSIT"
        /\ pc[a] \in {"merge", "commit"} =>
              row[c].status = "IN_TRANSIT" /\ object[a][c] = CompleteTransfer(row[c])

AddOK(n, c) ==
    /\ later[n][c] # None =>
          \/ object[n][c] = None /\ later[n][c] = row[c]
          \/ /\ row[c] = None /\ object[n][c] = later[n][c]
             /\ \E b \in Branches : object[n][c] = NewCopy(b)
    /\ later[n][c] = None /\ object[n][c] # None => object[n][c] = row[c]

(* The columns that the UPDATE of a copy has to set.                       *)
Differ(r, c) ==
    IF object[r][c] = None THEN {}
    ELSE IF row[c] = None THEN Columns \cup {"copy_id"}
    ELSE {col \in Columns : object[r][c][col] # row[c][col]}

DirtyOK(r, c) == pc[r] = "commit" => dirty[r][c] = Differ(r, c)

CopyInv(c) ==
    /\ RowOK(c)
    /\ \A m \in Moves : MoveOK(m, c)
    /\ \A a \in Arrivals : ArriveOK(a, c)
    /\ \A n \in Adds : AddOK(n, c)
    /\ \A r \in Requests : DirtyOK(r, c)

(* The transfers in memory: while the copy is not travelling, the open     *)
(* ones are those that are still to be saved; while it is, there is one,   *)
(* or none if an arrival has closed it and has still to save the copy.     *)
Still(c) == row[c] = None \/ row[c].status # "IN_TRANSIT"
Arriving(c) ==
    \E a \in Arrivals : pc[a] \in {"merge", "commit"} /\ object[a][c] # None

Tracked(c) ==
    /\ Still(c) => \A m \in Filed(c) : object[m][c] # None
    /\ ~ Still(c) /\ ~ Arriving(c) =>
          \E m \in Moves : Filed(c) = {m} /\ transfer[m].dest = row[c].target
    /\ ~ Still(c) /\ Arriving(c) => Filed(c) = {}
    /\ \A a \in Arrivals :
          pc[a] = "complete" /\ object[a][c] # None => Filed(c) \subseteq {job[a]}

(* The copies of which nothing is claimed.                                 *)
exposed == overtaken \cup readded

CopiesInv == \A c \in Copies \ exposed : CopyInv(c)
TrackInv == \A c \in Copies \ (exposed \cup lost) : Tracked(c)

-----------------------------------------------------------------------------
(* What the methods of a copy do to the columns.                           *)
LEMMA NewCopyColumns ==
    ASSUME NEW b \in Branches
    PROVE  /\ NewCopy(b) \in BookCopy /\ NewCopy(b) # None
           /\ NewCopy(b).status = "AVAILABLE" /\ NewCopy(b).borrower = None
           /\ NewCopy(b).reserver = None /\ NewCopy(b).target = None
BY TransfersAssumption DEF NewCopy, BookCopy, BookStatus

(* start_transfer sets the status and the target.                          *)
LEMMA StartColumns ==
    ASSUME NEW x \in BookCopy, NEW b \in Branches
    PROVE  /\ StartTransfer(x, b) \in BookCopy /\ StartTransfer(x, b) # None
           /\ StartTransfer(x, b).status = "IN_TRANSIT"
           /\ StartTransfer(x, b).target = b
           /\ StartTransfer(x, b).borrower = x.borrower
           /\ StartTransfer(x, b).reserver = x.reserver
           /\ StartTransfer(x, b).branch = x.branch
<1>1. StartTransfer(x, b) \in BookCopy
  BY DEF StartTransfer, BookCopy, BookStatus
<1>2. StartTransfer(x, b) # None
  BY <1>1, TransfersAssumption
<1> QED
  BY <1>1, <1>2 DEF StartTransfer, BookCopy

(* complete_transfer moves the copy to its target and clears it.           *)
LEMMA CompleteColumns ==
    ASSUME NEW x \in BookCopy, x.target # None
    PROVE  /\ CompleteTransfer(x) \in BookCopy /\ CompleteTransfer(x) # None
           /\ CompleteTransfer(x).status = "AVAILABLE"
           /\ CompleteTransfer(x).target = None
           /\ CompleteTransfer(x).borrower = x.borrower
           /\ CompleteTransfer(x).reserver = x.reserver
           /\ CompleteTransfer(x).branch = x.target
<1>1. CompleteTransfer(x) \in BookCopy
  BY DEF CompleteTransfer, BookCopy, BookStatus
<1>2. CompleteTransfer(x) # None
  BY <1>1, TransfersAssumption
<1> QED
  BY <1>1, <1>2 DEF CompleteTransfer, BookCopy

(* check_out of an available copy sets status and borrower.                *)
LEMMA CheckOutColumns ==
    ASSUME NEW x \in BookCopy, NEW u \in Users, x.status = "AVAILABLE"
    PROVE  /\ CheckOut(x, u) \in BookCopy /\ CheckOut(x, u) # None
           /\ CheckOut(x, u).status = "ISSUED" /\ CheckOut(x, u).borrower = u
           /\ CheckOut(x, u).reserver = x.reserver
           /\ CheckOut(x, u).target = x.target /\ CheckOut(x, u).branch = x.branch
<1>1. CheckOut(x, u) \in BookCopy
  BY DEF CheckOut, BookCopy, BookStatus
<1>2. CheckOut(x, u) # None
  BY <1>1, TransfersAssumption
<1> QED
  BY <1>1, <1>2 DEF CheckOut, BookCopy

(* return_book of an issued copy clears the borrower.                      *)
LEMMA ReturnColumns ==
    ASSUME NEW x \in BookCopy, x.status = "ISSUED"
    PROVE  /\ ReturnBook(x) \in BookCopy /\ ReturnBook(x) # None
           /\ ReturnBook(x).status = "AVAILABLE" /\ ReturnBook(x).borrower = None
           /\ ReturnBook(x).reserver = x.reserver
           /\ ReturnBook(x).target = x.target /\ ReturnBook(x).branch = x.branch
<1>1. ReturnBook(x) \in BookCopy
  BY DEF ReturnBook, BookCopy, BookStatus
<1>2. ReturnBook(x) # None
  BY <1>1, TransfersAssumption
<1> QED
  BY <1>1, <1>2 DEF ReturnBook, BookCopy

(* A copy has the columns of the row and no others.                        *)
LEMMA CopyIsColumns ==
    ASSUME NEW x \in BookCopy
    PROVE  x = [col \in Columns |-> x[col]]
BY DEF BookCopy, Columns

(* Two copies that agree on every column are the same.                     *)
LEMMA SameColumns ==
    ASSUME NEW x \in BookCopy, NEW y \in BookCopy, \A col \in Columns : x[col] = y[col]
    PROVE  x = y
<1>1. x = [col \in Columns |-> x[col]] /\ y = [col \in Columns |-> y[col]]
  BY CopyIsColumns
<1>2. [col \in Columns |-> x[col]] = [col \in Columns |-> y[col]]
  OBVIOUS
<1> QED
  BY <1>1, <1>2

(* Writing the columns in which two copies differ turns one into the       *)
(* other.                                                                  *)
LEMMA UpdateColumns ==
    ASSUME NEW x \in BookCopy, NEW y \in BookCopy
    PROVE  y = [col \in Columns |->
                  IF col \in {d \in Columns : y[d] # x[d]} THEN y[col] ELSE x[col]]
<1>1. y = [col \in Columns |-> y[col]]
  BY CopyIsColumns
<1>2. [col \in Columns |-> y[col]] =
      [col \in Columns |-> IF col \in {d \in Columns : y[d] # x[d]} THEN y[col] ELSE x[col]]
  OBVIOUS
<1> QED
  BY <1>1, <1>2

(* What the requests other than r have of a copy stays right if the row    *)
(* stays, or if they have nothing of it.                                   *)
LEMMA OthersCopy ==
    ASSUME NEW c \in Copies, CopyInv(c), NEW r,
           row'[c] = row[c] \/ \A q \in Requests \ {r} : c \notin Held(q),
           \A q \in Requests \ {r} :
              pc'[q] = pc[q] /\ object'[q][c] = object[q][c] /\ dirty'[q][c] = dirty[q][c],
           \A n \in Adds \ {r} : later'[n][c] = later[n][c],
           \A m \in Moves \ {r} : object[m][c] # None => transfer'[m] = transfer[m]
    PROVE  /\ \A m \in Moves \ {r} : MoveOK(m, c)'
           /\ \A a \in Arrivals \ {r} : ArriveOK(a, c)'
           /\ \A n \in Adds \ {r} : AddOK(n, c)'
           /\ \A q \in Requests \ {r} : DirtyOK(q, c)'
<1>1. \A q \in Requests \ {r} : object[q][c] # None => row'[c] = row[c]
  BY DEF Held
<1>2. \A n \in Adds \ {r} : later[n][c] # None => row'[c] = row[c]
  BY DEF Held, Requests
<1>3. \A m \in Moves \ {r} : MoveOK(m, c)'
  BY <1>1 DEF CopyInv, MoveOK, Requests
<1>4. \A a \in Arrivals \ {r} : ArriveOK(a, c)'
  BY <1>1 DEF CopyInv, ArriveOK, Requests
<1>5. \A n \in Adds \ {r} : AddOK(n, c)'
  BY <1>1, <1>2 DEF CopyInv, AddOK, Requests
<1>6. \A q \in Requests \ {r} : DirtyOK(q, c)'
  <2> SUFFICES ASSUME NEW q \in Requests \ {r}, pc[q] = "commit"
               PROVE  dirty[q][c] = Differ(q, c)'
    BY DEF DirtyOK
  <2>1. dirty[q][c] = Differ(q, c)
    BY DEF CopyInv, DirtyOK
  <2>2. CASE object[q][c] = None
    BY <2>1, <2>2 DEF Differ
  <2>3. CASE object[q][c] # None
    BY <1>1, <2>1, <2>3 DEF Differ
  <2> QED
    BY <2>2, <2>3
<1> QED
  BY <1>3, <1>4, <1>5, <1>6

TransfersInv == WorkOK /\ JobOK /\ CopiesInv /\ TrackInv

(* At the start no request is under way and no transfer is filed.          *)
LEMMA InitTransfers == Init => TransfersInv
<1> SUFFICES ASSUME Init PROVE TransfersInv
  OBVIOUS
<1>1. \A r \in Requests : pc[r] = "idle" /\ object[r] = NoObjects
  BY DEF Init
<1>2. \A n \in Adds : later[n] = NoObjects
  BY DEF Init
<1>3. \A c \in Copies : NoObjects[c] = None
  BY DEF NoObjects
<1>4. \A m \in Moves : transfer[m] = NoTransfer
  BY DEF Init
<1>5. \A c \in Copies : row[c] = None \/ \E b \in Branches : row[c] = NewCopy(b)
  BY DEF Init
<1>6. WorkOK
  <2>1. /\ row = [c \in Copies |-> row[c]] /\ loan = [c \in Copies |-> loan[c]]
        /\ job = [a \in Arrivals |-> job[a]]
        /\ object = [r \in Requests |-> object[r]]
        /\ later = [r \in Adds |-> later[r]]
        /\ dirty = [r \in Requests |-> dirty[r]]
    BY DEF Init, NoObjects
  <2>2. transfer = [m \in Moves |-> transfer[m]] /\ \A m \in Moves : IsTransfer(transfer[m])
    BY <1>4 DEF Init, NoTransfer, IsTransfer
  <2>3. pc \in [Requests -> Labels]
    BY DEF Init, Labels
  <2>4. NoObjects = [c \in Copies |-> NoObjects[c]]
    BY DEF NoObjects
  <2>5. \A m \in Moves : transfer[m].copy = None
    BY <1>4 DEF NoTransfer
  <2> QED
    BY <1>1, <1>2, <2>1, <2>2, <2>3, <2>4, <2>5 DEF WorkOK, ShapeOK, StepsOK, Requests
<1>7. JobOK
  BY <1>1 DEF JobOK, Requests
<1>8. \A c \in Copies : CopyInv(c)
  <2> SUFFICES ASSUME NEW c \in Copies PROVE CopyInv(c)
    OBVIOUS
  <2>1. loan[c] = None
    BY DEF Init, NoObjects
  <2>2. RowOK(c)
    BY <1>5, <2>1, NewCopyColumns DEF RowOK
  <2>3. \A r \in Requests : object[r][c] = None /\ pc[r] # "commit"
    BY <1>1, <1>3
  <2>4. \A n \in Adds : later[n][c] = None
    BY <1>2, <1>3
  <2> QED
    BY <2>2, <2>3, <2>4 DEF CopyInv, MoveOK, ArriveOK, AddOK, DirtyOK, Requests
<1>9. \A c \in Copies : Tracked(c)
  <2> SUFFICES ASSUME NEW c \in Copies PROVE Tracked(c)
    OBVIOUS
  <2>1. Still(c)
    BY <1>5, NewCopyColumns DEF Still
  <2>2. Filed(c) = {}
    BY <1>4, TransfersAssumption DEF Filed, NoTransfer
  <2> QED
    BY <2>1, <2>2 DEF Tracked
<1> QED
  BY <1>6, <1>7, <1>8, <1>9 DEF TransfersInv, CopiesInv, TrackInv

(* A committed checkout or return of a copy d: whoever has it is exposed.  *)
LEMMA LedgerStep ==
    ASSUME TransfersInv, NEW d \in Copies, NEW x, NEW v,
           row' = [row EXCEPT ![d] = x], loan' = [loan EXCEPT ![d] = v],
           Overtake(None, {d}), UNCHANGED <<transfer, work, readded, lost>>,
           d \notin exposed => Still(d) /\ x # None /\ x.status # "IN_TRANSIT" /\ RowOK(d)'
    PROVE  TransfersInv'
<1> USE DEF TransfersInv
<1>1. UNCHANGED <<pc, job, object, later, dirty, transfer, lost>>
  BY DEF work
<1>2. row'[d] = x /\ \A c \in Copies \ {d} : row'[c] = row[c] /\ loan'[c] = loan[c]
  BY DEF WorkOK, ShapeOK, StepsOK
<1>3. row' = [c \in Copies |-> row'[c]] /\ loan' = [c \in Copies |-> loan'[c]]
  BY DEF WorkOK, ShapeOK, StepsOK
<1>4. WorkOK'
  BY <1>1, <1>3 DEF WorkOK, ShapeOK, StepsOK
<1>5. JobOK'
  BY <1>1 DEF JobOK
<1>6. exposed \subseteq exposed' /\ (d \notin exposed' => \A q \in Requests : d \notin Held(q))
  BY TransfersAssumption DEF Overtake, exposed
<1>7. CopiesInv'
  <2> SUFFICES ASSUME NEW c \in Copies \ exposed' PROVE CopyInv(c)'
    BY DEF CopiesInv
  <2>1. CopyInv(c)
    BY <1>6 DEF CopiesInv
  <2>2. row'[c] = row[c] \/ \A q \in Requests \ {None} : c \notin Held(q)
    BY <1>2, <1>6
  <2>3. /\ \A m \in Moves \ {None} : MoveOK(m, c)'
        /\ \A a \in Arrivals \ {None} : ArriveOK(a, c)'
        /\ \A n \in Adds \ {None} : AddOK(n, c)'
        /\ \A q \in Requests \ {None} : DirtyOK(q, c)'
    BY <1>1, <2>1, <2>2, OthersCopy
  <2>4. RowOK(c)'
    BY <1>2, <1>6, <2>1 DEF CopyInv, RowOK
  <2> QED
    BY <2>3, <2>4, TransfersAssumption DEF CopyInv, Requests
<1>8. TrackInv'
  <2> SUFFICES ASSUME NEW c \in Copies \ (exposed' \cup lost') PROVE Tracked(c)'
    BY DEF TrackInv
  <2>1. Tracked(c)
    BY <1>1, <1>6 DEF TrackInv
  <2>2. Filed(c)' = Filed(c) /\ Arriving(c)' = Arriving(c)
    BY <1>1 DEF Filed, Arriving
  <2>3. CASE c = d
    <3>1. \A q \in Requests : object[q][c] = None
      BY <1>6, <2>3 DEF Held
    <3>2. Still(c) /\ Still(c)'
      BY <1>2, <1>6, <2>3 DEF Still
    <3>3. Filed(c) = {}
      BY <2>1, <3>1, <3>2 DEF Tracked, Filed, Requests
    <3> QED
      BY <2>2, <3>2, <3>3 DEF Tracked
  <2>4. CASE c # d
    <3>1. row'[c] = row[c]
      BY <1>2, <2>4
    <3>2. Still(c)' = Still(c)
      BY <3>1 DEF Still
    <3> QED
      BY <1>1, <2>1, <2>2, <3>1, <3>2 DEF Tracked
  <2> QED
    BY <2>3, <2>4
<1> QED
  BY <1>4, <1>5, <1>7, <1>8

(* A checkout finds a copy that is available, so not in transit.           *)
LEMMA CheckoutTransfers ==
    ASSUME TransfersInv, NEW d \in Copies, NEW u \in Users, Checkout(d, u)
    PROVE  TransfersInv'
<1>1. PICK x : x = CheckOut(row[d], u)
  OBVIOUS
<1>2. /\ row[d] # None /\ row[d].status = "AVAILABLE"
      /\ row' = [row EXCEPT ![d] = x] /\ loan' = [loan EXCEPT ![d] = u]
      /\ Overtake(None, {d}) /\ UNCHANGED <<transfer, work, readded, lost>>
  BY <1>1 DEF Checkout
<1>3. ASSUME d \notin exposed
      PROVE  Still(d) /\ x # None /\ x.status # "IN_TRANSIT" /\ RowOK(d)'
  <2>1. PICK y : y = row[d]
    OBVIOUS
  <2>2. /\ y \in BookCopy /\ y.status = "AVAILABLE" /\ y.reserver = None /\ y.target = None
    BY <1>2, <1>3, <2>1 DEF TransfersInv, CopiesInv, CopyInv, RowOK
  <2>3. /\ x \in BookCopy /\ x # None /\ x.status = "ISSUED" /\ x.borrower = u
        /\ x.reserver = None /\ x.target = None
    BY <1>1, <2>1, <2>2, CheckOutColumns
  <2>4. row'[d] = x /\ loan'[d] = u /\ u # None
    BY <1>2, NoneAssumption DEF TransfersInv, WorkOK, ShapeOK, StepsOK
  <2>5. Still(d)
    BY <1>2 DEF Still
  <2> QED
    BY <2>3, <2>4, <2>5 DEF RowOK
<1> QED
  BY <1>2, <1>3, LedgerStep

(* A return finds a copy that is issued, so not in transit.                *)
LEMMA ReturnTransfers ==
    ASSUME TransfersInv, NEW d \in Copies, Return(d)
    PROVE  TransfersInv'
<1>1. PICK x : x = ReturnBook(row[d])
  OBVIOUS
<1>2. /\ row[d] # None /\ row[d].borrower # None
      /\ row' = [row EXCEPT ![d] = x] /\ loan' = [loan EXCEPT ![d] = None]
      /\ Overtake(None, {d}) /\ UNCHANGED <<transfer, work, readded, lost>>
  BY <1>1 DEF Return
<1>3. ASSUME d \notin exposed
      PROVE  Still(d) /\ x # None /\ x.status # "IN_TRANSIT" /\ RowOK(d)'
  <2>1. PICK y : y = row[d]
    OBVIOUS
  <2>2. /\ y \in BookCopy /\ y.status = "ISSUED" /\ y.reserver = None /\ y.target = None
    BY <1>2, <1>3, <2>1 DEF TransfersInv, CopiesInv, CopyInv, RowOK
  <2>3. /\ x \in BookCopy /\ x # None /\ x.status = "AVAILABLE" /\ x.borrower = None
        /\ x.reserver = None /\ x.target = None
    BY <1>1, <2>1, <2>2, ReturnColumns
  <2>4. row'[d] = x /\ loan'[d] = None
    BY <1>2 DEF TransfersInv, WorkOK, ShapeOK, StepsOK
  <2>5. Still(d)
    BY <2>1, <2>2 DEF Still
  <2> QED
    BY <2>3, <2>4, <2>5 DEF RowOK
<1> QED
  BY <1>2, <1>3, LedgerStep

-----------------------------------------------------------------------------
(* Steps that leave the row, the open transfers and the arrivals of a copy *)
(* alone.                                                                  *)
LEMMA SameTrack ==
    ASSUME NEW c \in Copies, Tracked(c), row'[c] = row[c], Filed(c)' = Filed(c),
           Arriving(c)' = Arriving(c),
           \A m \in Filed(c) :
              /\ transfer'[m].dest = transfer[m].dest
              /\ object[m][c] # None => object'[m][c] # None,
           \A a \in Arrivals : pc'[a] = "complete" /\ object'[a][c] # None =>
              pc[a] = "complete" /\ object[a][c] # None /\ job'[a] = job[a]
    PROVE  Tracked(c)'
<1>1. Still(c)' = Still(c)
  BY DEF Still
<1>2. Still(c)' => \A m \in Filed(c)' : object'[m][c] # None
  BY <1>1 DEF Tracked
<1>3. ~ Still(c)' /\ ~ Arriving(c)' =>
          \E m \in Moves : Filed(c)' = {m} /\ transfer'[m].dest = row'[c].target
  <2> SUFFICES ASSUME ~ Still(c), ~ Arriving(c)
               PROVE  \E m \in Moves : Filed(c)' = {m} /\ transfer'[m].dest = row'[c].target
    BY <1>1
  <2>1. PICK m \in Moves : Filed(c) = {m} /\ transfer[m].dest = row[c].target
    BY DEF Tracked
  <2>2. transfer'[m].dest = transfer[m].dest
    BY <2>1
  <2> QED
    BY <2>1, <2>2
<1>4. ~ Still(c)' /\ Arriving(c)' => Filed(c)' = {}
  BY <1>1 DEF Tracked
<1>5. \A a \in Arrivals :
          pc'[a] = "complete" /\ object'[a][c] # None => Filed(c)' \subseteq {job'[a]}
  BY DEF Tracked
<1> QED
  BY <1>2, <1>3, <1>4, <1>5 DEF Tracked

(* request_transfer moves the object and files the transfer.               *)
LEMMA MoveTransfers ==
    ASSUME TransfersInv, NEW m \in Moves, NEW d \in Copies, NEW b \in Branches,
           Move(m, d, b)
    PROVE  TransfersInv'
<1> USE DEF TransfersInv
<1>1. PICK x : x = StartTransfer(row[d], b)
  OBVIOUS
<1>2. PICK y : y = [copy |-> d, source |-> row[d].branch, dest |-> b, status |-> "IN_TRANSIT"]
  OBVIOUS
<1>3. /\ pc[m] = "idle" /\ row[d] # None /\ row[d].status = "AVAILABLE"
      /\ transfer' = [transfer EXCEPT ![m] = y]
      /\ object' = [object EXCEPT ![m][d] = x]
      /\ pc' = [pc EXCEPT ![m] = "merge"]
      /\ UNCHANGED <<row, job, later, dirty, loan, exposed, lost>>
  BY <1>1, <1>2 DEF Move, Goto, history, exposed
<1>4. /\ m \in Requests /\ m \notin Arrivals /\ m \notin Adds
  BY TransfersAssumption DEF Requests
<1>5. transfer[m].copy = None /\ \A c \in Copies : object[m][c] = None
  BY <1>3, <1>4 DEF WorkOK, ShapeOK, StepsOK, NoObjects
<1>6. y.copy = d /\ y.dest = b /\ y.status = "IN_TRANSIT" /\ IsTransfer(y)
  BY <1>2 DEF IsTransfer
<1>7. transfer'[m] = y /\ \A q \in Moves \ {m} : transfer'[q] = transfer[q]
  BY <1>3 DEF WorkOK, ShapeOK, StepsOK
<1>8. pc'[m] = "merge" /\ \A q \in Requests \ {m} : pc'[q] = pc[q] /\ object'[q] = object[q]
  BY <1>3, <1>4 DEF WorkOK, ShapeOK, StepsOK
<1>9. /\ object'[m][d] = x /\ \A c \in Copies \ {d} : object'[m][c] = None
      /\ object'[m] = [c \in Copies |-> object'[m][c]]
  BY <1>3, <1>4, <1>5 DEF WorkOK, ShapeOK, StepsOK
<1>10. WorkOK'
  <2>1. transfer' = [q \in Moves |-> transfer'[q]] /\ object' = [q \in Requests |-> object'[q]]
    BY <1>3 DEF WorkOK, ShapeOK, StepsOK
  <2>2. pc' \in [Requests -> Labels]
    BY <1>3 DEF WorkOK, ShapeOK, StepsOK, Labels
  <2>3. \A q \in Moves : IsTransfer(transfer'[q]) /\ (pc'[q] = "idle" => transfer'[q].copy = None)
    BY <1>4, <1>6, <1>7, <1>8 DEF WorkOK, ShapeOK, StepsOK, Requests
  <2>4. \A q \in Requests :
           /\ object'[q] = [c \in Copies |-> object'[q][c]]
           /\ pc'[q] \in {"idle", "done", "failed"} => object'[q] = NoObjects
    BY <1>8, <1>9 DEF WorkOK, ShapeOK, StepsOK
  <2>5. \A n \in Adds : pc'[n] = pc[n]
    BY <1>4, <1>8 DEF Requests
  <2>6. ShapeOK'
    BY <1>3, <2>1, <2>4 DEF WorkOK, ShapeOK
  <2>7. StepsOK'
    BY <1>3, <1>4, <1>8, <2>2, <2>3, <2>4, <2>5 DEF WorkOK, StepsOK
  <2> QED
    BY <2>6, <2>7 DEF WorkOK
<1>11. JobOK'
  <2>1. \A a \in Arrivals : pc'[a] = pc[a] /\ object'[a] = object[a] /\ job'[a] = job[a]
    BY <1>3, <1>4, <1>8 DEF Requests
  <2>2. \A a \in Arrivals : pc[a] \in {"check", "complete", "merge", "commit"} =>
           job[a] # m /\ transfer'[job[a]] = transfer[job[a]]
    BY <1>5, <1>7, TransfersAssumption DEF JobOK
  <2> QED
    BY <2>1, <2>2 DEF JobOK
<1>12. CopiesInv'
  <2> SUFFICES ASSUME NEW c \in Copies \ exposed PROVE CopyInv(c)'
    BY <1>3 DEF CopiesInv
  <2>1. CopyInv(c)
    BY DEF CopiesInv
  <2>2. /\ \A q \in Moves \ {m} : MoveOK(q, c)'
        /\ \A a \in Arrivals \ {m} : ArriveOK(a, c)'
        /\ \A n \in Adds \ {m} : AddOK(n, c)'
        /\ \A q \in Requests \ {m} : DirtyOK(q, c)'
    BY <1>3, <1>7, <1>8, <2>1, OthersCopy
  <2>3. RowOK(c)'
    BY <1>3, <2>1 DEF CopyInv, RowOK
  <2>4. MoveOK(m, c)'
    BY <1>1, <1>3, <1>6, <1>7, <1>8, <1>9 DEF MoveOK
  <2>5. DirtyOK(m, c)'
    BY <1>8 DEF DirtyOK
  <2> QED
    BY <1>4, <2>2, <2>3, <2>4, <2>5 DEF CopyInv
<1>13. TrackInv'
  <2> SUFFICES ASSUME NEW c \in Copies \ (exposed \cup lost) PROVE Tracked(c)'
    BY <1>3 DEF TrackInv
  <2>1. Tracked(c) /\ CopyInv(c)
    BY DEF TrackInv, CopiesInv
  <2>2. Arriving(c)' = Arriving(c)
    BY <1>4, <1>8 DEF Arriving, Requests
  <2>3. \A a \in Arrivals : pc'[a] = pc[a] /\ object'[a] = object[a] /\ job'[a] = job[a]
    BY <1>3, <1>4, <1>8 DEF Requests
  <2>4. c # None
    BY TransfersAssumption
  <2>5. CASE c = d
    <3>1. Filed(c)' = Filed(c) \cup {m}
      BY <1>6, <1>7, <2>5 DEF Filed
    <3>2. row[c] \in BookCopy
      BY <1>3, <2>1, <2>5 DEF CopyInv, RowOK
    <3>3. object'[m][c] # None
      BY <1>1, <1>9, <2>5, <3>2, StartColumns
    <3>4. Still(c) /\ Still(c)'
      BY <1>3, <2>5 DEF Still
    <3>5. \A q \in Filed(c) : q \in Requests /\ object[q][c] # None
      BY <2>1, <3>4 DEF Tracked, Filed, Requests
    <3>6. \A q \in Filed(c)' : object'[q][c] # None
      BY <1>8, <3>1, <3>3, <3>5
    <3>7. \A a \in Arrivals : ~ (pc[a] = "complete" /\ object[a][c] # None)
      BY <1>3, <2>1, <2>5 DEF CopyInv, ArriveOK
    <3> QED
      BY <2>3, <3>4, <3>6, <3>7 DEF Tracked
  <2>6. CASE c # d
    <3>1. Filed(c)' = Filed(c) /\ m \notin Filed(c)
      BY <1>5, <1>6, <1>7, <2>4, <2>6 DEF Filed
    <3>2. \A q \in Filed(c) : transfer'[q] = transfer[q] /\ object'[q] = object[q]
      BY <1>7, <1>8, <3>1 DEF Filed, Requests
    <3> QED
      BY <1>3, <2>1, <2>2, <2>3, <3>1, <3>2, SameTrack
  <2> QED
    BY <2>5, <2>6
<1> QED
  BY <1>10, <1>11, <1>12, <1>13

(* An arrival reads the copy of its transfer.                              *)
LEMMA ArriveReadTransfers ==
    ASSUME TransfersInv, NEW a \in Arrivals, NEW m \in Moves, ArriveRead(a, m)
    PROVE  TransfersInv'
<1> USE DEF TransfersInv
<1>1. PICK d : d = transfer[m].copy
  OBVIOUS
<1>2. /\ pc[a] = "idle" /\ d # None /\ row[d] # None
      /\ job' = [job EXCEPT ![a] = m]
      /\ object' = [object EXCEPT ![a][d] = row[d]]
      /\ pc' = [pc EXCEPT ![a] = "check"]
      /\ UNCHANGED <<row, transfer, later, dirty, loan, exposed, lost>>
  BY <1>1 DEF ArriveRead, Goto, history, exposed
<1>3. d \in Copies
  BY <1>1, <1>2 DEF WorkOK, ShapeOK, StepsOK, IsTransfer
<1>4. a \in Requests /\ a \notin Moves /\ a \notin Adds
  BY TransfersAssumption DEF Requests
<1>5. \A c \in Copies : object[a][c] = None
  BY <1>2, <1>4 DEF WorkOK, ShapeOK, StepsOK, NoObjects
<1>6. pc'[a] = "check" /\ \A q \in Requests \ {a} : pc'[q] = pc[q] /\ object'[q] = object[q]
  BY <1>2, <1>4 DEF WorkOK, ShapeOK, StepsOK
<1>7. /\ object'[a][d] = row[d] /\ \A c \in Copies \ {d} : object'[a][c] = None
      /\ object'[a] = [c \in Copies |-> object'[a][c]]
  BY <1>2, <1>3, <1>4, <1>5 DEF WorkOK, ShapeOK, StepsOK
<1>8. job'[a] = m /\ \A e \in Arrivals \ {a} : job'[e] = job[e]
  BY <1>2 DEF WorkOK, ShapeOK, StepsOK
<1>9. WorkOK'
  <2>1. job' = [e \in Arrivals |-> job'[e]] /\ object' = [q \in Requests |-> object'[q]]
    BY <1>2 DEF WorkOK, ShapeOK, StepsOK
  <2>2. pc' \in [Requests -> Labels]
    BY <1>2 DEF WorkOK, ShapeOK, StepsOK, Labels
  <2>3. \A q \in Requests :
           /\ object'[q] = [c \in Copies |-> object'[q][c]]
           /\ pc'[q] \in {"idle", "done", "failed"} => object'[q] = NoObjects
    BY <1>6, <1>7 DEF WorkOK, ShapeOK, StepsOK
  <2>4. \A q \in Requests \ Arrivals : pc'[q] = pc[q]
    BY <1>6
  <2>5. \A q \in Moves \cup Adds : pc'[q] = pc[q]
    BY <1>4, <1>6 DEF Requests
  <2>6. ShapeOK'
    BY <1>2, <2>1, <2>3 DEF WorkOK, ShapeOK
  <2>7. StepsOK'
    BY <1>2, <2>2, <2>3, <2>4, <2>5 DEF WorkOK, StepsOK
  <2> QED
    BY <2>6, <2>7 DEF WorkOK
<1>10. JobOK'
  <2>1. \A e \in Arrivals \ {a} : pc'[e] = pc[e] /\ object'[e] = object[e] /\ job'[e] = job[e]
    BY <1>6, <1>8 DEF Requests
  <2> QED
    BY <1>1, <1>2, <1>3, <1>6, <1>7, <1>8, <2>1 DEF JobOK
<1>11. CopiesInv'
  <2> SUFFICES ASSUME NEW c \in Copies \ exposed PROVE CopyInv(c)'
    BY <1>2 DEF CopiesInv
  <2>1. CopyInv(c)
    BY DEF CopiesInv
  <2>2. /\ \A q \in Moves \ {a} : MoveOK(q, c)'
        /\ \A e \in Arrivals \ {a} : ArriveOK(e, c)'
        /\ \A n \in Adds \ {a} : AddOK(n, c)'
        /\ \A q \in Requests \ {a} : DirtyOK(q, c)'
    BY <1>2, <1>6, <2>1, OthersCopy
  <2>3. RowOK(c)'
    BY <1>2, <2>1 DEF CopyInv, RowOK
  <2>4. ArriveOK(a, c)'
    BY <1>2, <1>6, <1>7 DEF ArriveOK
  <2>5. DirtyOK(a, c)'
    BY <1>6 DEF DirtyOK
  <2> QED
    BY <1>4, <2>2, <2>3, <2>4, <2>5 DEF CopyInv
<1>12. TrackInv'
  <2> SUFFICES ASSUME NEW c \in Copies \ (exposed \cup lost) PROVE Tracked(c)'
    BY <1>2 DEF TrackInv
  <2>1. Tracked(c)
    BY DEF TrackInv
  <2>2. Arriving(c)' = Arriving(c)
    BY <1>2, <1>6 DEF Arriving, Requests
  <2>3. Filed(c)' = Filed(c)
    BY <1>2 DEF Filed
  <2>4. \A q \in Filed(c) : object'[q] = object[q]
    BY <1>4, <1>6 DEF Filed, Requests
  <2>5. \A e \in Arrivals : pc'[e] = "complete" =>
           pc[e] = "complete" /\ object'[e] = object[e] /\ job'[e] = job[e]
    BY <1>6, <1>8 DEF Requests
  <2> QED
    BY <1>2, <2>1, <2>2, <2>3, <2>4, <2>5, SameTrack
<1> QED
  BY <1>9, <1>10, <1>11, <1>12

-----------------------------------------------------------------------------
(* The answer to a request leaves it with nothing in its hands.            *)
LEMMA AnswerWork ==
    ASSUME WorkOK, JobOK, NEW r \in Requests, NEW l \in {"done", "failed"}, Answer(r, l),
           transfer' = transfer, loan' = loan, row' = [c \in Copies |-> row'[c]]
    PROVE  /\ WorkOK' /\ JobOK'
           /\ pc'[r] = l /\ \A c \in Copies : object'[r][c] = None
           /\ r \in Adds => \A c \in Copies : later'[r][c] = None
           /\ \A q \in Requests \ {r} :
                 pc'[q] = pc[q] /\ object'[q] = object[q] /\ dirty'[q] = dirty[q]
           /\ \A n \in Adds \ {r} : later'[n] = later[n]
           /\ \A a \in Arrivals \ {r} : job'[a] = job[a]
<1>1. /\ pc' = [pc EXCEPT ![r] = l]
      /\ object' = [object EXCEPT ![r] = NoObjects]
      /\ dirty' = [dirty EXCEPT ![r] = [c \in Copies |-> {}]]
      /\ job' = [q \in Arrivals |-> IF q = r THEN None ELSE job[q]]
      /\ later' = [q \in Adds |-> IF q = r THEN NoObjects ELSE later[q]]
  BY DEF Answer, Goto
<1>2. /\ pc'[r] = l /\ object'[r] = NoObjects
      /\ \A q \in Requests \ {r} :
            pc'[q] = pc[q] /\ object'[q] = object[q] /\ dirty'[q] = dirty[q]
  BY <1>1 DEF WorkOK, ShapeOK, StepsOK
<1>3. /\ r \in Adds => later'[r] = NoObjects
      /\ \A n \in Adds \ {r} : later'[n] = later[n]
      /\ \A a \in Arrivals \ {r} : job'[a] = job[a]
  BY <1>1
<1>4. NoObjects = [c \in Copies |-> NoObjects[c]] /\ \A c \in Copies : NoObjects[c] = None
  BY DEF NoObjects
<1>5. ShapeOK'
  <2>1. /\ object' = [q \in Requests |-> object'[q]] /\ dirty' = [q \in Requests |-> dirty'[q]]
    BY <1>1 DEF WorkOK, ShapeOK
  <2>2. job' = [a \in Arrivals |-> job'[a]] /\ later' = [n \in Adds |-> later'[n]]
    BY <1>1
  <2>3. \A q \in Requests : object'[q] = [c \in Copies |-> object'[q][c]]
    BY <1>2, <1>4 DEF WorkOK, ShapeOK
  <2>4. \A n \in Adds : later'[n] = [c \in Copies |-> later'[n][c]]
    BY <1>3, <1>4 DEF WorkOK, ShapeOK
  <2> QED
    BY <2>1, <2>2, <2>3, <2>4 DEF WorkOK, ShapeOK
<1>6. StepsOK'
  <2>1. pc' \in [Requests -> Labels]
    BY <1>1 DEF WorkOK, StepsOK, Labels
  <2>2. \A q \in Requests \ Arrivals : pc'[q] \notin {"check", "complete"}
    BY <1>2 DEF WorkOK, StepsOK
  <2>3. \A q \in Requests : pc'[q] \in {"idle", "done", "failed"} => object'[q] = NoObjects
    BY <1>2 DEF WorkOK, StepsOK
  <2>4. \A n \in Adds : pc'[n] \in {"idle", "done", "failed"} => later'[n] = NoObjects
    BY <1>2, <1>3 DEF WorkOK, StepsOK, Requests
  <2>5. \A m \in Moves : IsTransfer(transfer'[m]) /\ (pc'[m] = "idle" => transfer'[m].copy = None)
    BY <1>2 DEF WorkOK, StepsOK, Requests
  <2> QED
    BY <2>1, <2>2, <2>3, <2>4, <2>5 DEF StepsOK
<1>7. JobOK'
  <2>1. \A a \in Arrivals \ {r} : pc'[a] = pc[a] /\ object'[a] = object[a] /\ job'[a] = job[a]
    BY <1>2, <1>3 DEF Requests
  <2> QED
    BY <1>2, <2>1 DEF JobOK
<1> QED
  BY <1>2, <1>3, <1>4, <1>5, <1>6, <1>7 DEF WorkOK

(* What a request that has nothing needs of a copy.                        *)
LEMMA NothingHeld ==
    ASSUME NEW c \in Copies, NEW r \in Requests, pc'[r] # "commit", object'[r][c] = None,
           r \in Adds => later'[r][c] = None
    PROVE  /\ r \in Moves => MoveOK(r, c)'
           /\ r \in Arrivals => ArriveOK(r, c)'
           /\ r \in Adds => AddOK(r, c)'
           /\ DirtyOK(r, c)'
BY DEF MoveOK, ArriveOK, AddOK, DirtyOK

(* The answer to a request that has not written.                           *)
LEMMA AnswerCopy ==
    ASSUME NEW c \in Copies, CopyInv(c), WorkOK, JobOK, NEW r \in Requests,
           NEW l \in {"done", "failed"}, Answer(r, l), UNCHANGED <<row, loan, transfer>>
    PROVE  CopyInv(c)'
<1>1. /\ pc'[r] = l /\ object'[r][c] = None
      /\ r \in Adds => later'[r][c] = None
      /\ \A q \in Requests \ {r} :
            pc'[q] = pc[q] /\ object'[q] = object[q] /\ dirty'[q] = dirty[q]
      /\ \A n \in Adds \ {r} : later'[n] = later[n]
  <2>1. row' = [d \in Copies |-> row'[d]]
    BY DEF WorkOK, ShapeOK
  <2> QED
    BY <2>1, AnswerWork
<1>2. /\ \A q \in Moves \ {r} : MoveOK(q, c)'
      /\ \A a \in Arrivals \ {r} : ArriveOK(a, c)'
      /\ \A n \in Adds \ {r} : AddOK(n, c)'
      /\ \A q \in Requests \ {r} : DirtyOK(q, c)'
  BY <1>1, OthersCopy
<1>3. /\ r \in Moves => MoveOK(r, c)'
      /\ r \in Arrivals => ArriveOK(r, c)'
      /\ r \in Adds => AddOK(r, c)'
      /\ DirtyOK(r, c)'
  BY <1>1, NothingHeld
<1>4. RowOK(c)'
  BY DEF CopyInv, RowOK
<1> QED
  BY <1>2, <1>3, <1>4 DEF CopyInv

(* The checks of an arrival: the transfer is open and the copy travels.    *)
LEMMA ArriveCheckTransfers ==
    ASSUME TransfersInv, NEW a \in Arrivals, ArriveCheck(a)
    PROVE  TransfersInv'
<1> USE DEF TransfersInv
<1>1. PICK m : m = job[a]
  OBVIOUS
<1>2. PICK d : d = transfer[m].copy
  OBVIOUS
<1>3. /\ pc[a] = "check" /\ UNCHANGED <<row, transfer, loan, exposed, lost>>
  BY DEF ArriveCheck, history, exposed
<1>4. a \in Requests /\ a \notin Moves /\ a \notin Adds
  BY TransfersAssumption DEF Requests
<1>5. m \in Moves /\ d \in Copies /\ object[a][d] # None
      /\ \A c \in Copies : object[a][c] # None => c = d
  BY <1>1, <1>2, <1>3 DEF JobOK
<1>6. CASE /\ transfer[m].status = "IN_TRANSIT" /\ object[a][d].status = "IN_TRANSIT"
           /\ pc' = [pc EXCEPT ![a] = "complete"] /\ UNCHANGED <<job, object, later, dirty>>
  <2>1. pc'[a] = "complete" /\ \A q \in Requests \ {a} : pc'[q] = pc[q]
    BY <1>4, <1>6 DEF WorkOK, StepsOK
  <2>2. WorkOK'
    <3>1. ShapeOK'
      BY <1>3, <1>6 DEF WorkOK, ShapeOK
    <3>2. pc' \in [Requests -> Labels]
      BY <1>6 DEF WorkOK, StepsOK, Labels
    <3>3. StepsOK'
      BY <1>3, <1>4, <1>6, <2>1, <3>2 DEF WorkOK, StepsOK, Requests
    <3> QED
      BY <3>1, <3>3 DEF WorkOK
  <2>3. JobOK'
    BY <1>3, <1>6, <2>1 DEF JobOK, Requests
  <2>4. CopiesInv'
    <3> SUFFICES ASSUME NEW c \in Copies \ exposed PROVE CopyInv(c)'
      BY <1>3 DEF CopiesInv
    <3>1. CopyInv(c)
      BY DEF CopiesInv
    <3>2. /\ \A q \in Moves \ {a} : MoveOK(q, c)'
          /\ \A e \in Arrivals \ {a} : ArriveOK(e, c)'
          /\ \A n \in Adds \ {a} : AddOK(n, c)'
          /\ \A q \in Requests \ {a} : DirtyOK(q, c)'
      BY <1>3, <1>6, <2>1, <3>1, OthersCopy
    <3>3. RowOK(c)'
      BY <1>3, <3>1 DEF CopyInv, RowOK
    <3>4. ArriveOK(a, c)'
      BY <1>3, <1>5, <1>6, <2>1, <3>1 DEF CopyInv, ArriveOK
    <3>5. DirtyOK(a, c)'
      BY <2>1 DEF DirtyOK
    <3> QED
      BY <1>4, <3>2, <3>3, <3>4, <3>5 DEF CopyInv
  <2>5. TrackInv'
    <3> SUFFICES ASSUME NEW c \in Copies \ (exposed \cup lost) PROVE Tracked(c)'
      BY <1>3 DEF TrackInv
    <3>1. Tracked(c) /\ CopyInv(c)
      BY DEF TrackInv, CopiesInv
    <3>2. Arriving(c)' = Arriving(c) /\ Filed(c)' = Filed(c) /\ Still(c)' = Still(c)
      BY <1>3, <1>4, <1>6, <2>1 DEF Arriving, Filed, Still, Requests
    <3>3. object[a][c] # None => Filed(c) \subseteq {m}
      <4> SUFFICES ASSUME object[a][c] # None PROVE Filed(c) \subseteq {m}
        OBVIOUS
      <4>1. c = d /\ m \in Filed(c)
        BY <1>2, <1>5, <1>6 DEF Filed
      <4>2. ~ Still(c)
        BY <1>3, <1>6, <3>1, <4>1 DEF CopyInv, ArriveOK, Still
      <4> QED
        BY <3>1, <4>1, <4>2 DEF Tracked
    <3>4. \A e \in Arrivals : pc'[e] = "complete" /\ object'[e][c] # None =>
             Filed(c)' \subseteq {job'[e]}
      BY <1>1, <1>6, <2>1, <3>1, <3>2, <3>3 DEF Tracked, Requests
    <3> QED
      BY <1>3, <1>6, <3>1, <3>2, <3>4 DEF Tracked
  <2> QED
    BY <2>2, <2>3, <2>4, <2>5
<1>7. CASE Answer(a, "failed")
  <2>1. /\ WorkOK' /\ JobOK'
        /\ pc'[a] = "failed"
        /\ \A q \in Requests \ {a} :
              pc'[q] = pc[q] /\ object'[q] = object[q] /\ dirty'[q] = dirty[q]
        /\ \A e \in Arrivals \ {a} : job'[e] = job[e]
    <3>1. row' = [c \in Copies |-> row'[c]]
      BY <1>3 DEF WorkOK, ShapeOK
    <3> QED
      BY <1>3, <1>4, <1>7, <3>1, AnswerWork
  <2>2. CopiesInv'
    BY <1>3, <1>4, <1>7, AnswerCopy DEF CopiesInv
  <2>3. TrackInv'
    <3> SUFFICES ASSUME NEW c \in Copies \ (exposed \cup lost) PROVE Tracked(c)'
      BY <1>3 DEF TrackInv
    <3>1. Tracked(c)
      BY DEF TrackInv
    <3>2. Arriving(c)' = Arriving(c)
      BY <1>3, <2>1 DEF Arriving, Requests
    <3>3. Filed(c)' = Filed(c)
      BY <1>3 DEF Filed
    <3>4. \A q \in Filed(c) : object'[q] = object[q]
      BY <1>4, <2>1 DEF Filed, Requests
    <3>5. \A e \in Arrivals : pc'[e] = "complete" =>
             pc[e] = "complete" /\ object'[e] = object[e] /\ job'[e] = job[e]
      BY <2>1 DEF Requests
    <3> QED
      BY <1>3, <3>1, <3>2, <3>3, <3>4, <3>5, SameTrack
  <2> QED
    BY <2>1, <2>2, <2>3
<1> QED
  BY <1>1, <1>2, <1>6, <1>7 DEF ArriveCheck, Goto

(* The arrival closes the transfer and moves the copy it has read.         *)
LEMMA ArriveCompleteTransfers ==
    ASSUME TransfersInv, NEW a \in Arrivals, ArriveComplete(a)
    PROVE  TransfersInv'
<1> USE DEF TransfersInv
<1>1. PICK m : m = job[a]
  OBVIOUS
<1>2. PICK d : d = transfer[m].copy
  OBVIOUS
<1>3. PICK x : x = CompleteTransfer(object[a][d])
  OBVIOUS
<1>4. /\ pc[a] = "complete" /\ UNCHANGED <<row, job, later, dirty, loan, exposed, lost>>
      /\ transfer' = [transfer EXCEPT ![m].status = "COMPLETED"]
      /\ object' = [object EXCEPT ![a][d] = x]
      /\ pc' = [pc EXCEPT ![a] = "merge"]
  BY <1>1, <1>2, <1>3 DEF ArriveComplete, Goto, history, exposed
<1>5. a \in Requests /\ a \notin Moves /\ a \notin Adds
  BY TransfersAssumption DEF Requests
<1>6. m \in Moves /\ d \in Copies /\ object[a][d] # None
      /\ \A c \in Copies : object[a][c] # None => c = d
  BY <1>1, <1>2, <1>4 DEF JobOK
<1>7. pc'[a] = "merge" /\ \A q \in Requests \ {a} : pc'[q] = pc[q] /\ object'[q] = object[q]
  BY <1>4, <1>5 DEF WorkOK, ShapeOK, StepsOK
<1>8. /\ object'[a][d] = x /\ \A c \in Copies \ {d} : object'[a][c] = None
      /\ object'[a] = [c \in Copies |-> object'[a][c]]
  BY <1>4, <1>5, <1>6 DEF WorkOK, ShapeOK
<1>9. /\ transfer'[m] = [transfer[m] EXCEPT !.status = "COMPLETED"]
      /\ \A q \in Moves \ {m} : transfer'[q] = transfer[q]
      /\ transfer' = [q \in Moves |-> transfer'[q]]
  BY <1>4, <1>6 DEF WorkOK, ShapeOK
<1>10. /\ IsTransfer(transfer'[m]) /\ transfer'[m].copy = d
       /\ transfer'[m].status = "COMPLETED"
  <2>1. PICK y : y = transfer[m]
    OBVIOUS
  <2>2. PICK s : y \in [copy : Copies \cup {None}, source : {s}, dest : Branches \cup {None},
                       status : {"NONE", "IN_TRANSIT", "COMPLETED"}]
    BY <1>6, <2>1 DEF WorkOK, StepsOK, IsTransfer
  <2>3. PICK z : z = [y EXCEPT !.status = "COMPLETED"]
    OBVIOUS
  <2>4. /\ z \in [copy : Copies \cup {None}, source : {s}, dest : Branches \cup {None},
                  status : {"NONE", "IN_TRANSIT", "COMPLETED"}]
        /\ z.copy = y.copy /\ z.status = "COMPLETED"
    BY <2>2, <2>3
  <2>5. transfer'[m] = z
    BY <1>9, <2>1, <2>3
  <2> QED
    BY <1>2, <2>1, <2>4, <2>5 DEF IsTransfer
<1>11. WorkOK'
  <2>1. object' = [q \in Requests |-> object'[q]]
    BY <1>4 DEF WorkOK, ShapeOK
  <2>2. \A q \in Requests : object'[q] = [c \in Copies |-> object'[q][c]]
    BY <1>7, <1>8 DEF WorkOK, ShapeOK
  <2>3. ShapeOK'
    <3>1. UNCHANGED <<row, loan, job, later, dirty>>
      BY <1>4
    <3>2. transfer' = [q \in Moves |-> transfer'[q]]
      BY <1>9
    <3> QED
      BY <2>1, <2>2, <3>1, <3>2 DEF WorkOK, ShapeOK
  <2>4. pc' \in [Requests -> Labels]
    BY <1>4 DEF WorkOK, StepsOK, Labels
  <2>5. \A q \in Moves : IsTransfer(transfer'[q]) /\ (pc'[q] = "idle" => transfer'[q].copy = None)
    <3>1. \A q \in Moves : pc'[q] = pc[q]
      BY <1>5, <1>7 DEF Requests
    <3>2. pc[m] # "idle"
      BY <1>2, <1>6, TransfersAssumption DEF WorkOK, StepsOK
    <3> QED
      BY <1>9, <1>10, <3>1, <3>2 DEF WorkOK, StepsOK
  <2>6. \A n \in Adds : pc'[n] = pc[n]
    BY <1>5, <1>7 DEF Requests
  <2>7. StepsOK'
    BY <1>4, <1>5, <1>7, <2>4, <2>5, <2>6 DEF WorkOK, StepsOK
  <2> QED
    BY <2>3, <2>7 DEF WorkOK
<1>12. JobOK'
  <2>1. \A q \in Moves : transfer'[q].copy = transfer[q].copy
    BY <1>2, <1>9, <1>10
  <2>2. \A e \in Arrivals \ {a} : pc'[e] = pc[e] /\ object'[e] = object[e] /\ job'[e] = job[e]
    BY <1>4, <1>7 DEF Requests
  <2>3. /\ job'[a] = m /\ m \in Moves /\ transfer'[m].copy = d
        /\ \A c \in Copies : object'[a][c] # None => c = d
    BY <1>1, <1>4, <1>6, <1>8, <1>10
  <2>4. \A e \in Arrivals \ {a} :
          /\ pc'[e] \in {"check", "complete", "merge", "commit"} =>
                /\ job'[e] \in Moves /\ transfer'[job'[e]].copy \in Copies
                /\ \A c \in Copies : object'[e][c] # None => c = transfer'[job'[e]].copy
          /\ pc'[e] \in {"check", "complete"} => object'[e][transfer'[job'[e]].copy] # None
    BY <2>1, <2>2 DEF JobOK
  <2> QED
    BY <1>6, <1>7, <2>3, <2>4 DEF JobOK
<1>13. ASSUME NEW c \in Copies \ exposed, c = d
       PROVE  /\ row[c] \in BookCopy /\ row[c].status = "IN_TRANSIT" /\ row[c].target # None
              /\ x = CompleteTransfer(row[c]) /\ x # None
  <2>1. object[a][c] = row[c] /\ row[c] # None /\ row[c].status = "IN_TRANSIT"
    BY <1>4, <1>6, <1>13 DEF CopiesInv, CopyInv, ArriveOK
  <2>2. row[c] \in BookCopy /\ row[c].target # None
    BY <1>13, <2>1 DEF CopiesInv, CopyInv, RowOK
  <2> QED
    BY <1>3, <1>13, <2>1, <2>2, CompleteColumns
<1>14. CopiesInv'
  <2> SUFFICES ASSUME NEW c \in Copies \ exposed PROVE CopyInv(c)'
    BY <1>4 DEF CopiesInv
  <2>1. CopyInv(c)
    BY DEF CopiesInv
  <2>2. \A q \in Moves \ {a} : object[q][c] # None => transfer'[q] = transfer[q]
    <3> SUFFICES ASSUME object[m][c] # None PROVE FALSE
      BY <1>9
    <3>1. c = d /\ row[c].status = "AVAILABLE"
      BY <1>2, <1>6, <2>1 DEF CopyInv, MoveOK
    <3> QED
      BY <1>13, <3>1
  <2>3. /\ \A q \in Moves \ {a} : MoveOK(q, c)'
        /\ \A e \in Arrivals \ {a} : ArriveOK(e, c)'
        /\ \A n \in Adds \ {a} : AddOK(n, c)'
        /\ \A q \in Requests \ {a} : DirtyOK(q, c)'
    BY <1>4, <1>7, <2>1, <2>2, OthersCopy
  <2>4. RowOK(c)'
    BY <1>4, <2>1 DEF CopyInv, RowOK
  <2>5. ArriveOK(a, c)'
    <3>1. CASE c = d
      <4>1. /\ object'[a][c] = CompleteTransfer(row[c]) /\ row'[c] = row[c]
            /\ row[c].status = "IN_TRANSIT" /\ row[c] # None
        BY <1>4, <1>8, <1>13, <3>1, TransfersAssumption
      <4> QED
        BY <1>7, <4>1 DEF ArriveOK
    <3>2. CASE c # d
      BY <1>8, <3>2 DEF ArriveOK
    <3> QED
      BY <3>1, <3>2
  <2>6. DirtyOK(a, c)'
    BY <1>7 DEF DirtyOK
  <2> QED
    BY <1>5, <2>3, <2>4, <2>5, <2>6 DEF CopyInv
<1>15. TrackInv'
  <2> SUFFICES ASSUME NEW c \in Copies \ (exposed \cup lost) PROVE Tracked(c)'
    BY <1>4 DEF TrackInv
  <2>1. Tracked(c)
    BY DEF TrackInv
  <2>2. CASE c = d
    <3>1. Filed(c) \subseteq {m}
      BY <1>1, <1>4, <1>6, <2>1, <2>2 DEF Tracked
    <3>2. Filed(c)' = {}
      BY <1>9, <1>10, <3>1 DEF Filed
    <3>3. object'[a][c] # None
      BY <1>8, <1>13, <2>2
    <3>4. Arriving(c)'
      BY <1>7, <3>3 DEF Arriving
    <3>5. ~ Still(c)'
      BY <1>4, <1>13, <2>2, TransfersAssumption DEF Still
    <3> QED
      BY <3>2, <3>4, <3>5 DEF Tracked
  <2>3. CASE c # d
    <3>1. Filed(c)' = Filed(c) /\ m \notin Filed(c)
      BY <1>2, <1>9, <1>10, <2>3 DEF Filed
    <3>2. \A q \in Filed(c) : transfer'[q] = transfer[q] /\ object'[q] = object[q]
      BY <1>5, <1>7, <1>9, <3>1 DEF Filed, Requests
    <3>3. object[a][c] = None /\ object'[a][c] = None
      BY <1>6, <1>8, <2>3
    <3>4. Arriving(c)' = Arriving(c)
      BY <1>7, <3>3 DEF Arriving, Requests
    <3>5. \A e \in Arrivals : pc'[e] = "complete" =>
             pc[e] = "complete" /\ object'[e] = object[e] /\ job'[e] = job[e]
      BY <1>4, <1>7 DEF Requests
    <3> QED
      BY <1>4, <2>1, <3>1, <3>2, <3>4, <3>5, SameTrack
  <2> QED
    BY <2>2, <2>3
<1> QED
  BY <1>11, <1>12, <1>14, <1>15
-----------------------------------------------------------------------------
(* A request takes a step of its own and the row stays: the transfers keep *)
(* in step if the arrivals and the transfers are left alone.               *)
LEMMA QuietTrack ==
    ASSUME NEW c \in Copies, Tracked(c), NEW r \in Requests,
           row'[c] = row[c], transfer' = transfer, job' = job,
           \A q \in Requests \ {r} : pc'[q] = pc[q] /\ object'[q] = object[q],
           pc'[r] # "complete",
           r \notin Adds => object'[r] = object[r],
           r \in Arrivals => pc[r] \in {"merge", "commit"} /\ pc'[r] \in {"merge", "commit"}
    PROVE  Tracked(c)'
<1>1. \A a \in Arrivals : object'[a] = object[a]
  BY TransfersAssumption DEF Requests
<1>2. Filed(c)' = Filed(c)
  BY DEF Filed
<1>3. Arriving(c)' = Arriving(c)
  <2>1. \A a \in Arrivals : pc'[a] \in {"merge", "commit"} <=> pc[a] \in {"merge", "commit"}
    BY DEF Requests
  <2> QED
    BY <1>1, <2>1 DEF Arriving
<1>4. \A m \in Filed(c) : object'[m] = object[m]
  BY TransfersAssumption DEF Filed, Requests
<1>5. \A a \in Arrivals : pc'[a] = "complete" => pc[a] = "complete"
  BY DEF Requests
<1> QED
  BY <1>1, <1>2, <1>3, <1>4, <1>5, SameTrack

(* add_physical_copy reads the copies of the title and adds one.           *)
LEMMA AddCopyTransfers ==
    ASSUME TransfersInv, NEW n \in Adds, NEW d \in Copies, NEW b \in Branches,
           AddCopy(n, d, b)
    PROVE  TransfersInv'
<1> USE DEF TransfersInv
<1>1. PICK x : x = NewCopy(b)
  OBVIOUS
<1>2. PICK y : y = [row EXCEPT ![d] = x]
  OBVIOUS
<1>3. /\ pc[n] = "idle" /\ UNCHANGED <<row, transfer, job, dirty, loan, lost>>
      /\ object' = [object EXCEPT ![n][d] = x]
      /\ later' = [later EXCEPT ![n] = y]
      /\ exposed' = IF row[d] = None THEN exposed ELSE exposed \cup {d}
      /\ pc' = [pc EXCEPT ![n] = "merge"]
  BY <1>1, <1>2 DEF AddCopy, Goto, exposed
<1>4. n \in Requests /\ n \notin Moves /\ n \notin Arrivals
  BY TransfersAssumption DEF Requests
<1>5. \A c \in Copies : object[n][c] = None
  BY <1>3, <1>4 DEF WorkOK, StepsOK, NoObjects
<1>6. y[d] = x /\ (\A c \in Copies \ {d} : y[c] = row[c]) /\ y = [c \in Copies |-> y[c]]
  BY <1>2 DEF WorkOK, ShapeOK
<1>7. pc'[n] = "merge" /\ \A q \in Requests \ {n} : pc'[q] = pc[q] /\ object'[q] = object[q]
  BY <1>3, <1>4 DEF WorkOK, ShapeOK, StepsOK
<1>8. /\ object'[n][d] = x /\ \A c \in Copies \ {d} : object'[n][c] = None
      /\ object'[n] = [c \in Copies |-> object'[n][c]]
  BY <1>3, <1>4, <1>5 DEF WorkOK, ShapeOK
<1>9. later'[n] = y /\ \A q \in Adds \ {n} : later'[q] = later[q]
  BY <1>3 DEF WorkOK, ShapeOK
<1>10. WorkOK'
  <2>1. object' = [q \in Requests |-> object'[q]] /\ later' = [q \in Adds |-> later'[q]]
    BY <1>3 DEF WorkOK, ShapeOK
  <2>2. /\ \A q \in Requests : object'[q] = [c \in Copies |-> object'[q][c]]
        /\ \A q \in Adds : later'[q] = [c \in Copies |-> later'[q][c]]
    BY <1>6, <1>7, <1>8, <1>9 DEF WorkOK, ShapeOK
  <2>3. ShapeOK'
    <3>1. UNCHANGED <<row, loan, transfer, job, dirty>>
      BY <1>3
    <3> QED
      BY <2>1, <2>2, <3>1 DEF WorkOK, ShapeOK
  <2>4. pc' \in [Requests -> Labels]
    BY <1>3 DEF WorkOK, StepsOK, Labels
  <2>5. \A q \in Requests : pc'[q] \in {"idle", "done", "failed"} => object'[q] = NoObjects
    BY <1>7 DEF WorkOK, StepsOK
  <2>6. \A q \in Adds : pc'[q] \in {"idle", "done", "failed"} => later'[q] = NoObjects
    BY <1>7, <1>9 DEF WorkOK, StepsOK, Requests
  <2>7. \A m \in Moves : pc'[m] = pc[m] /\ transfer'[m] = transfer[m]
    BY <1>3, <1>4, <1>7 DEF Requests
  <2>8. \A q \in Requests \ Arrivals : pc'[q] \notin {"check", "complete"}
    BY <1>7 DEF WorkOK, StepsOK
  <2>9. StepsOK'
    BY <2>4, <2>5, <2>6, <2>7, <2>8 DEF WorkOK, StepsOK
  <2> QED
    BY <2>3, <2>9 DEF WorkOK
<1>11. JobOK'
  <2>1. \A a \in Arrivals : pc'[a] = pc[a] /\ object'[a] = object[a]
    BY <1>4, <1>7 DEF Requests
  <2> QED
    BY <1>3, <2>1 DEF JobOK
<1>12. CopiesInv'
  <2> SUFFICES ASSUME NEW c \in Copies, c \notin exposed' PROVE CopyInv(c)'
    BY DEF CopiesInv
  <2>1. CopyInv(c) /\ (c = d => row[c] = None)
    BY <1>3 DEF CopiesInv
  <2>2. /\ \A q \in Moves \ {n} : MoveOK(q, c)'
        /\ \A a \in Arrivals \ {n} : ArriveOK(a, c)'
        /\ \A q \in Adds \ {n} : AddOK(q, c)'
        /\ \A q \in Requests \ {n} : DirtyOK(q, c)'
    BY <1>3, <1>7, <1>9, <2>1, OthersCopy
  <2>3. RowOK(c)'
    BY <1>3, <2>1 DEF CopyInv, RowOK
  <2>4. AddOK(n, c)'
    <3>1. CASE c = d
      <4>1. object'[n][c] = x /\ later'[n][c] = x /\ row'[c] = None /\ x # None
        BY <1>1, <1>3, <1>6, <1>8, <1>9, <2>1, <3>1, NewCopyColumns
      <4> QED
        BY <1>1, <4>1 DEF AddOK
    <3>2. CASE c # d
      <4>1. object'[n][c] = None /\ later'[n][c] = row[c] /\ row'[c] = row[c]
        BY <1>3, <1>6, <1>8, <1>9, <3>2
      <4> QED
        BY <4>1 DEF AddOK
    <3> QED
      BY <3>1, <3>2
  <2>5. DirtyOK(n, c)'
    BY <1>7 DEF DirtyOK
  <2> QED
    BY <1>4, <2>2, <2>3, <2>4, <2>5 DEF CopyInv
<1>13. TrackInv'
  <2> SUFFICES ASSUME NEW c \in Copies, c \notin exposed' \cup lost' PROVE Tracked(c)'
    BY DEF TrackInv
  <2>1. Tracked(c)
    BY <1>3 DEF TrackInv
  <2> QED
    BY <1>3, <1>4, <1>7, <2>1, QuietTrack
<1> QED
  BY <1>10, <1>11, <1>12, <1>13

(* merge compares the object with the row.                                 *)
LEMMA MergeTransfers ==
    ASSUME TransfersInv, NEW r \in Requests, Merge(r)
    PROVE  TransfersInv'
<1> USE DEF TransfersInv
<1>1. PICK y : y = [c \in Copies |-> Differ(r, c)]
  OBVIOUS
<1>2. /\ pc[r] = "merge"
      /\ UNCHANGED <<row, transfer, job, object, later, loan, exposed, lost>>
      /\ dirty' = [dirty EXCEPT ![r] = y]
      /\ pc' = [pc EXCEPT ![r] = "commit"]
  BY <1>1 DEF Merge, Goto, history, Differ, exposed
<1>3. /\ pc'[r] = "commit" /\ dirty'[r] = y
      /\ \A q \in Requests \ {r} : pc'[q] = pc[q] /\ dirty'[q] = dirty[q]
  BY <1>2 DEF WorkOK, ShapeOK, StepsOK
<1>4. WorkOK'
  <2>1. dirty' = [q \in Requests |-> dirty'[q]]
    BY <1>2 DEF WorkOK, ShapeOK
  <2>2. UNCHANGED <<row, transfer, job, object, later, loan>>
    BY <1>2
  <2>3. ShapeOK'
    BY <2>1, <2>2 DEF WorkOK, ShapeOK
  <2>4. pc' \in [Requests -> Labels]
    BY <1>2 DEF WorkOK, StepsOK, Labels
  <2>5. \A q \in Requests : pc'[q] # pc[q] => q = r
    BY <1>3
  <2>6. StepsOK'
    BY <1>3, <2>2, <2>4, <2>5 DEF WorkOK, StepsOK, Requests
  <2> QED
    BY <2>3, <2>6 DEF WorkOK
<1>5. JobOK'
  <2>1. \A a \in Arrivals : pc'[a] = pc[a] \/ (pc[a] = "merge" /\ pc'[a] = "commit")
    BY <1>2, <1>3 DEF Requests
  <2> QED
    BY <1>2, <2>1 DEF JobOK
<1>6. CopiesInv'
  <2> SUFFICES ASSUME NEW c \in Copies \ exposed PROVE CopyInv(c)'
    BY <1>2 DEF CopiesInv
  <2>1. CopyInv(c)
    BY DEF CopiesInv
  <2>2. /\ \A q \in Moves \ {r} : MoveOK(q, c)'
        /\ \A a \in Arrivals \ {r} : ArriveOK(a, c)'
        /\ \A n \in Adds \ {r} : AddOK(n, c)'
        /\ \A q \in Requests \ {r} : DirtyOK(q, c)'
    BY <1>2, <1>3, <2>1, OthersCopy
  <2>3. RowOK(c)'
    BY <1>2, <2>1 DEF CopyInv, RowOK
  <2>4. r \in Moves => MoveOK(r, c)'
    BY <1>2, <1>3, <2>1 DEF CopyInv, MoveOK
  <2>5. r \in Arrivals => ArriveOK(r, c)'
    BY <1>2, <1>3, <2>1 DEF CopyInv, ArriveOK
  <2>6. r \in Adds => AddOK(r, c)'
    BY <1>2, <2>1 DEF CopyInv, AddOK
  <2>7. DirtyOK(r, c)'
    <3>1. Differ(r, c)' = Differ(r, c)
      BY <1>2 DEF Differ
    <3>2. dirty'[r][c] = Differ(r, c)
      BY <1>1, <1>3
    <3> QED
      BY <3>1, <3>2 DEF DirtyOK
  <2> QED
    BY <2>2, <2>3, <2>4, <2>5, <2>6, <2>7 DEF CopyInv
<1>7. TrackInv'
  <2> SUFFICES ASSUME NEW c \in Copies \ (exposed \cup lost) PROVE Tracked(c)'
    BY <1>2 DEF TrackInv
  <2>1. Tracked(c)
    BY DEF TrackInv
  <2> QED
    BY <1>2, <1>3, <2>1, QuietTrack
<1> QED
  BY <1>4, <1>5, <1>6, <1>7
(* The save raises: the objects are gone, and the transfer is not.         *)
LEMMA SaveFailsTransfers ==
    ASSUME TransfersInv, NEW r \in Requests, SaveFails(r)
    PROVE  TransfersInv'
<1> USE DEF TransfersInv
<1>1. /\ pc[r] \in {"merge", "commit"} /\ Answer(r, "failed")
      /\ UNCHANGED <<row, transfer, loan, exposed>>
      /\ lost' = lost \cup (IF r \in Adds THEN {} ELSE Held(r))
  BY DEF SaveFails, exposed
<1>2. /\ WorkOK' /\ JobOK'
      /\ pc'[r] = "failed" /\ \A c \in Copies : object'[r][c] = None
      /\ \A q \in Requests \ {r} :
            pc'[q] = pc[q] /\ object'[q] = object[q] /\ dirty'[q] = dirty[q]
      /\ \A a \in Arrivals \ {r} : job'[a] = job[a]
  <2>1. row' = [c \in Copies |-> row'[c]]
    BY <1>1 DEF WorkOK, ShapeOK
  <2> QED
    BY <1>1, <2>1, AnswerWork
<1>3. CopiesInv'
  BY <1>1, AnswerCopy DEF CopiesInv
<1>4. TrackInv'
  <2> SUFFICES ASSUME NEW c \in Copies, c \notin exposed, c \notin lost' PROVE Tracked(c)'
    BY <1>1 DEF TrackInv
  <2>1. Tracked(c) /\ (r \notin Adds => object[r][c] = None)
    BY <1>1 DEF TrackInv, Held
  <2>2. \A q \in Requests \ Adds : object'[q][c] = object[q][c]
    BY <1>2, <2>1
  <2>3. \A a \in Arrivals : a \in Requests \ Adds
    BY TransfersAssumption DEF Requests
  <2>4. \A a \in Arrivals : object[a][c] # None => pc'[a] = pc[a] /\ job'[a] = job[a]
    BY <1>2, <2>1, <2>3
  <2>5. Arriving(c)' = Arriving(c)
    BY <2>2, <2>3, <2>4 DEF Arriving
  <2>6. Filed(c)' = Filed(c)
    BY <1>1 DEF Filed
  <2>7. \A m \in Filed(c) : object'[m][c] = object[m][c]
    BY <2>2, TransfersAssumption DEF Filed, Requests
  <2> QED
    BY <1>1, <2>1, <2>2, <2>3, <2>4, <2>5, <2>6, <2>7, SameTrack
<1> QED
  BY <1>2, <1>3, <1>4

(* A restart: a copy that a transfer was about is lost to it.              *)
LEMMA RestartTransfers ==
    ASSUME TransfersInv, Restart
    PROVE  TransfersInv'
<1> USE DEF TransfersInv
<1>1. /\ UNCHANGED <<row, loan, exposed>>
      /\ transfer' = [m \in Moves |-> NoTransfer]
      /\ lost' = (lost \cup {transfer[m].copy : m \in Moves}) \ {None}
      /\ pc' = [r \in Requests |-> IF pc[r] \in {"idle", "done"} THEN pc[r] ELSE "failed"]
      /\ job' = [r \in Arrivals |-> None]
      /\ object' = [r \in Requests |-> NoObjects]
      /\ later' = [r \in Adds |-> NoObjects]
      /\ dirty' = [r \in Requests |-> [c \in Copies |-> {}]]
  BY DEF Restart, exposed
<1>2. \A r \in Requests : pc'[r] \in {"idle", "done", "failed"} /\ object'[r] = NoObjects
  BY <1>1
<1>3. \A n \in Adds : later'[n] = NoObjects
  BY <1>1
<1>4. \A c \in Copies : NoObjects[c] = None
  BY DEF NoObjects
<1>5. \A m \in Moves : transfer'[m] = NoTransfer
  BY <1>1
<1>6. WorkOK'
  <2>1. /\ row' = [c \in Copies |-> row'[c]] /\ loan' = [c \in Copies |-> loan'[c]]
    BY <1>1 DEF WorkOK, ShapeOK
  <2>2. /\ transfer' = [m \in Moves |-> transfer'[m]]
        /\ job' = [a \in Arrivals |-> job'[a]]
        /\ object' = [r \in Requests |-> object'[r]]
        /\ later' = [r \in Adds |-> later'[r]]
        /\ dirty' = [r \in Requests |-> dirty'[r]]
    BY <1>1
  <2>3. NoObjects = [c \in Copies |-> NoObjects[c]]
    BY DEF NoObjects
  <2>4. ShapeOK'
    BY <1>2, <1>3, <2>1, <2>2, <2>3 DEF ShapeOK
  <2>5. pc' \in [Requests -> Labels]
    BY <1>1 DEF Labels
  <2>6. IsTransfer(NoTransfer) /\ NoTransfer.copy = None
    BY DEF IsTransfer, NoTransfer
  <2>7. StepsOK'
    BY <1>2, <1>3, <1>5, <2>5, <2>6 DEF StepsOK
  <2> QED
    BY <2>4, <2>7 DEF WorkOK
<1>7. JobOK'
  BY <1>2 DEF JobOK, Requests
<1>8. CopiesInv'
  <2> SUFFICES ASSUME NEW c \in Copies \ exposed PROVE CopyInv(c)'
    BY <1>1 DEF CopiesInv
  <2>1. RowOK(c)'
    BY <1>1 DEF CopiesInv, CopyInv, RowOK
  <2>2. \A r \in Requests : object'[r][c] = None /\ pc'[r] # "commit"
    BY <1>2, <1>4
  <2>3. \A n \in Adds : later'[n][c] = None
    BY <1>3, <1>4
  <2> QED
    BY <2>1, <2>2, <2>3 DEF CopyInv, MoveOK, ArriveOK, AddOK, DirtyOK, Requests
<1>9. TrackInv'
  <2> SUFFICES ASSUME NEW c \in Copies, c \notin exposed, c \notin lost' PROVE Tracked(c)'
    BY <1>1 DEF TrackInv
  <2>1. c \notin lost /\ \A m \in Moves : transfer[m].copy # c
    BY <1>1, TransfersAssumption
  <2>2. Filed(c) = {} /\ Tracked(c)
    BY <2>1 DEF Filed, TrackInv
  <2>3. ~ Arriving(c)
    BY <2>1 DEF Arriving, JobOK
  <2>4. Still(c)'
    BY <1>1, <2>2, <2>3 DEF Tracked, Still
  <2>5. Filed(c)' = {}
    BY <1>5, TransfersAssumption DEF Filed, NoTransfer
  <2> QED
    BY <2>4, <2>5 DEF Tracked
<1> QED
  BY <1>6, <1>7, <1>8, <1>9

-----------------------------------------------------------------------------
(* The object that a request is about to commit.                           *)
LEMMA CommitObject ==
    ASSUME NEW c \in Copies, CopyInv(c), NEW r \in Requests, pc[r] = "commit",
           object[r][c] # None
    PROVE  /\ object[r][c] \in BookCopy
           /\ row[c] # None => row[c] \in BookCopy
<1>1. row[c] # None => row[c] \in BookCopy
  BY DEF CopyInv, RowOK
<1>2. CASE r \in Moves
  <2>1. row[c] # None /\ transfer[r].dest \in Branches
        /\ object[r][c] = StartTransfer(row[c], transfer[r].dest)
    BY <1>2 DEF CopyInv, MoveOK
  <2> QED
    BY <1>1, <2>1, StartColumns
<1>3. CASE r \in Arrivals
  <2>1. row[c] # None /\ row[c].status = "IN_TRANSIT" /\ object[r][c] = CompleteTransfer(row[c])
    BY <1>3 DEF CopyInv, ArriveOK
  <2>2. row[c].target # None
    BY <2>1 DEF CopyInv, RowOK
  <2> QED
    BY <1>1, <2>1, <2>2, CompleteColumns
<1>4. CASE r \in Adds
  <2>1. object[r][c] = row[c] \/ \E b \in Branches : object[r][c] = NewCopy(b)
    BY <1>4 DEF CopyInv, AddOK
  <2> QED
    BY <1>1, <2>1, NewCopyColumns
<1> QED
  BY <1>1, <1>2, <1>3, <1>4 DEF Requests

(* A commit makes the row what the object is, for a copy that nobody else  *)
(* has written since it was read.                                          *)
LEMMA CommitRow ==
    ASSUME TransfersInv, NEW r \in Requests, Commit(r), NEW c \in Copies, c \notin exposed'
    PROVE  /\ c \notin exposed /\ CopyInv(c) /\ pc[r] = "commit"
           /\ row'[c] = IF object[r][c] = None THEN row[c] ELSE object[r][c]
           /\ row'[c] = row[c] \/ \A q \in Requests \ {r} : c \notin Held(q)
<1>1. /\ pc[r] = "commit"
      /\ row'[c] = IF dirty[r][c] = {} THEN row[c]
                   ELSE [col \in Columns |-> IF col \in dirty[r][c] THEN object[r][c][col]
                                                                    ELSE row[c][col]]
      /\ exposed' = exposed \cup
            {d \in Written(r) : \E q \in Requests \ {r} : d \in Held(q)}
  BY DEF Commit, Overtake, exposed
<1>2. c \notin exposed /\ CopyInv(c)
  BY <1>1 DEF TransfersInv, CopiesInv
<1>3. dirty[r][c] = Differ(r, c)
  BY <1>1, <1>2 DEF CopyInv, DirtyOK
<1>4. row'[c] = row[c] \/ \A q \in Requests \ {r} : c \notin Held(q)
  BY <1>1 DEF Written
<1>5. row'[c] = IF object[r][c] = None THEN row[c] ELSE object[r][c]
  <2>1. CASE object[r][c] = None
    BY <1>1, <1>3, <2>1 DEF Differ
  <2>2. CASE object[r][c] # None /\ row[c] = None
    <3>1. PICK y : y = object[r][c]
      OBVIOUS
    <3>2. y \in BookCopy
      BY <1>1, <1>2, <2>2, <3>1, CommitObject
    <3>3. dirty[r][c] = Columns \cup {"copy_id"}
      BY <1>3, <2>2 DEF Differ
    <3>4. row'[c] = [col \in Columns |-> y[col]]
      BY <1>1, <3>1, <3>3
    <3> QED
      BY <2>2, <3>1, <3>2, <3>4, CopyIsColumns
  <2>3. CASE object[r][c] # None /\ row[c] # None
    <3>1. PICK y : y = object[r][c]
      OBVIOUS
    <3>2. PICK x : x = row[c]
      OBVIOUS
    <3>3. x \in BookCopy /\ y \in BookCopy
      BY <1>1, <1>2, <2>3, <3>1, <3>2, CommitObject
    <3>4. dirty[r][c] = {col \in Columns : y[col] # x[col]}
      BY <1>3, <2>3, <3>1, <3>2 DEF Differ
    <3>5. CASE dirty[r][c] = {}
      <4>1. \A col \in Columns : x[col] = y[col]
        BY <3>4, <3>5
      <4>2. x = y
        BY <3>3, <4>1, SameColumns
      <4> QED
        BY <1>1, <2>3, <3>1, <3>2, <3>5, <4>2
    <3>6. CASE dirty[r][c] # {}
      <4>1. row'[c] = [col \in Columns |->
               IF col \in {d \in Columns : y[d] # x[d]} THEN y[col] ELSE x[col]]
        BY <1>1, <3>1, <3>2, <3>4, <3>6
      <4>2. row'[c] = y
        BY <3>3, <4>1, UpdateColumns
      <4> QED
        BY <2>3, <3>1, <4>2
    <3> QED
      BY <3>5, <3>6
  <2> QED
    BY <2>1, <2>2, <2>3
<1> QED
  BY <1>1, <1>2, <1>4, <1>5

(* So it does one of four things to a row.                                 *)
LEMMA CommitEffect ==
    ASSUME TransfersInv, NEW r \in Requests, Commit(r), NEW c \in Copies, c \notin exposed'
    PROVE  \/ row'[c] = row[c] /\ (r \in Adds \/ object[r][c] = None)
           \/ /\ r \in Moves /\ object[r][c] # None /\ row[c] \in BookCopy
              /\ row[c].status = "AVAILABLE" /\ transfer[r].dest \in Branches
              /\ r \in Filed(c) /\ row'[c] = StartTransfer(row[c], transfer[r].dest)
           \/ /\ r \in Arrivals /\ object[r][c] # None /\ row[c] \in BookCopy
              /\ row[c].status = "IN_TRANSIT" /\ row[c].target # None
              /\ row'[c] = CompleteTransfer(row[c])
           \/ r \in Adds /\ row[c] = None /\ \E b \in Branches : row'[c] = NewCopy(b)
<1>1. /\ CopyInv(c) /\ pc[r] = "commit"
      /\ row'[c] = IF object[r][c] = None THEN row[c] ELSE object[r][c]
  BY CommitRow
<1>2. CASE object[r][c] = None
  BY <1>1, <1>2
<1>3. CASE object[r][c] # None /\ r \in Moves
  <2>1. MoveOK(r, c) /\ RowOK(c)
    BY <1>1, <1>3 DEF CopyInv
  <2> QED
    BY <1>1, <1>3, <2>1 DEF MoveOK, RowOK, Filed
<1>4. CASE object[r][c] # None /\ r \in Arrivals
  <2>1. ArriveOK(r, c) /\ RowOK(c)
    BY <1>1, <1>4 DEF CopyInv
  <2> QED
    BY <1>1, <1>4, <2>1 DEF ArriveOK, RowOK
<1>5. CASE object[r][c] # None /\ r \in Adds
  <2>1. AddOK(r, c)
    BY <1>1, <1>5 DEF CopyInv
  <2> QED
    BY <1>1, <1>5, <2>1 DEF AddOK
<1> QED
  BY <1>2, <1>3, <1>4, <1>5 DEF Requests

(* Where a commit leaves the request: answered, or, for add_physical_copy  *)
(* after save_copy, with the objects of save_book in its hands.            *)
LEMMA CommitWork ==
    ASSUME TransfersInv, NEW r \in Requests, Commit(r)
    PROVE  /\ WorkOK' /\ JobOK'
           /\ pc'[r] \in {"merge", "done"} /\ (r \notin Adds => pc'[r] = "done")
           /\ r \notin Adds => \A c \in Copies : object'[r][c] = None
           /\ r \in Adds => \A c \in Copies :
                 /\ later'[r][c] = None
                 /\ object'[r][c] \in {None, later[r][c]}
           /\ \A q \in Requests \ {r} :
                 pc'[q] = pc[q] /\ object'[q] = object[q] /\ dirty'[q] = dirty[q]
           /\ \A n \in Adds \ {r} : later'[n] = later[n]
           /\ \A a \in Arrivals \ {r} : job'[a] = job[a]
<1> USE DEF TransfersInv
<1>1. transfer' = transfer /\ loan' = loan
  BY DEF Commit
<1>2. row' = [c \in Copies |-> row'[c]]
  BY DEF Commit
<1>3. CASE Answer(r, "done")
  BY <1>1, <1>2, <1>3, AnswerWork
<1>4. CASE /\ r \in Adds
           /\ object' = [object EXCEPT ![r] = later[r]]
           /\ later' = [later EXCEPT ![r] = NoObjects]
           /\ pc' = [pc EXCEPT ![r] = "merge"]
           /\ UNCHANGED <<job, dirty>>
  <2>1. r \notin Moves /\ r \notin Arrivals
    BY <1>4, TransfersAssumption
  <2>2. /\ pc'[r] = "merge" /\ object'[r] = later[r]
        /\ \A q \in Requests \ {r} : pc'[q] = pc[q] /\ object'[q] = object[q]
    BY <1>4 DEF WorkOK, ShapeOK, StepsOK
  <2>3. later'[r] = NoObjects /\ \A n \in Adds \ {r} : later'[n] = later[n]
    BY <1>4 DEF WorkOK, ShapeOK
  <2>4. NoObjects = [c \in Copies |-> NoObjects[c]] /\ \A c \in Copies : NoObjects[c] = None
    BY DEF NoObjects
  <2>5. ShapeOK'
    <3>1. /\ object' = [q \in Requests |-> object'[q]]
          /\ later' = [n \in Adds |-> later'[n]]
      BY <1>4 DEF WorkOK, ShapeOK
    <3>2. /\ \A q \in Requests : object'[q] = [c \in Copies |-> object'[q][c]]
          /\ \A n \in Adds : later'[n] = [c \in Copies |-> later'[n][c]]
      BY <1>4, <2>2, <2>3, <2>4 DEF WorkOK, ShapeOK
    <3>3. UNCHANGED <<loan, transfer, job, dirty>>
      BY <1>1, <1>4
    <3> QED
      BY <1>2, <3>1, <3>2, <3>3 DEF WorkOK, ShapeOK
  <2>6. StepsOK'
    <3>1. pc' \in [Requests -> Labels]
      BY <1>4 DEF WorkOK, StepsOK, Labels
    <3>2. \A q \in Requests : pc'[q] \in {"idle", "done", "failed"} => object'[q] = NoObjects
      BY <2>2 DEF WorkOK, StepsOK
    <3>3. \A n \in Adds : pc'[n] \in {"idle", "done", "failed"} => later'[n] = NoObjects
      BY <2>2, <2>3 DEF WorkOK, StepsOK, Requests
    <3>4. \A m \in Moves : pc'[m] = pc[m] /\ transfer'[m] = transfer[m]
      BY <1>1, <2>1, <2>2 DEF Requests
    <3>5. \A q \in Requests \ Arrivals : pc'[q] \notin {"check", "complete"}
      BY <2>2 DEF WorkOK, StepsOK
    <3> QED
      BY <3>1, <3>2, <3>3, <3>4, <3>5 DEF WorkOK, StepsOK
  <2>7. JobOK'
    <3>1. \A a \in Arrivals : pc'[a] = pc[a] /\ object'[a] = object[a]
      BY <2>1, <2>2 DEF Requests
    <3> QED
      BY <1>1, <1>4, <3>1 DEF JobOK
  <2> QED
    BY <1>4, <2>2, <2>3, <2>4, <2>5, <2>6, <2>7 DEF WorkOK
<1> QED
  BY <1>3, <1>4 DEF Commit, Goto

(* A commit turns the change of one request into the row.                  *)
LEMMA CommitTransfers ==
    ASSUME TransfersInv, NEW r \in Requests, Commit(r)
    PROVE  TransfersInv'
<1> USE DEF TransfersInv
<1>1. transfer' = transfer /\ loan' = loan /\ lost' = lost
  BY DEF Commit
<1>2. /\ WorkOK' /\ JobOK'
      /\ pc'[r] \in {"merge", "done"} /\ (r \notin Adds => pc'[r] = "done")
      /\ r \notin Adds => \A c \in Copies : object'[r][c] = None
      /\ r \in Adds => \A c \in Copies :
            /\ later'[r][c] = None
            /\ object'[r][c] \in {None, later[r][c]}
      /\ \A q \in Requests \ {r} :
            pc'[q] = pc[q] /\ object'[q] = object[q] /\ dirty'[q] = dirty[q]
      /\ \A n \in Adds \ {r} : later'[n] = later[n]
      /\ \A a \in Arrivals \ {r} : job'[a] = job[a]
  BY CommitWork
<1>3. CopiesInv'
  <2> SUFFICES ASSUME NEW c \in Copies, c \notin exposed' PROVE CopyInv(c)'
    BY DEF CopiesInv
  <2>1. /\ CopyInv(c) /\ pc[r] = "commit"
        /\ row'[c] = IF object[r][c] = None THEN row[c] ELSE object[r][c]
        /\ row'[c] = row[c] \/ \A q \in Requests \ {r} : c \notin Held(q)
    BY CommitRow
  <2>2. /\ \A m \in Moves \ {r} : MoveOK(m, c)'
        /\ \A a \in Arrivals \ {r} : ArriveOK(a, c)'
        /\ \A n \in Adds \ {r} : AddOK(n, c)'
        /\ \A q \in Requests \ {r} : DirtyOK(q, c)'
    BY <1>1, <1>2, <2>1, OthersCopy
  <2>3. RowOK(c)'
    <3>1. RowOK(c)
      BY <2>1 DEF CopyInv
    <3>2. CASE row'[c] = row[c]
      BY <1>1, <3>1, <3>2 DEF RowOK
    <3>3. CASE /\ row[c] \in BookCopy /\ row[c].status = "AVAILABLE"
               /\ transfer[r].dest \in Branches
               /\ row'[c] = StartTransfer(row[c], transfer[r].dest)
      <4>1. PICK y : y = row'[c]
        OBVIOUS
      <4>2. row[c] # None /\ loan[c] = None /\ row[c].borrower = None /\ row[c].reserver = None
        BY <3>1, <3>3, TransfersAssumption DEF RowOK
      <4>3. /\ y \in BookCopy /\ y # None /\ y.status = "IN_TRANSIT" /\ y.target # None
            /\ y.borrower = None /\ y.reserver = None
        BY <3>3, <4>1, <4>2, StartColumns, NoneAssumption
      <4> QED
        BY <1>1, <4>1, <4>2, <4>3 DEF RowOK
    <3>4. CASE /\ row[c] \in BookCopy /\ row[c].status = "IN_TRANSIT"
               /\ row[c].target # None /\ row'[c] = CompleteTransfer(row[c])
      <4>1. PICK y : y = row'[c]
        OBVIOUS
      <4>2. row[c] # None /\ loan[c] = None /\ row[c].borrower = None /\ row[c].reserver = None
        BY <3>1, <3>4, TransfersAssumption DEF RowOK
      <4>3. /\ y \in BookCopy /\ y # None /\ y.status = "AVAILABLE" /\ y.target = None
            /\ y.borrower = None /\ y.reserver = None
        BY <3>4, <4>1, <4>2, CompleteColumns
      <4> QED
        BY <1>1, <4>1, <4>2, <4>3 DEF RowOK
    <3>5. CASE row[c] = None /\ \E b \in Branches : row'[c] = NewCopy(b)
      <4>1. loan[c] = None
        BY <3>1, <3>5 DEF RowOK
      <4> QED
        BY <1>1, <3>5, <4>1, NewCopyColumns DEF RowOK
    <3> QED
      BY <3>2, <3>3, <3>4, <3>5, CommitEffect
  <2>4. CASE r \notin Adds
    <3>1. /\ r \in Moves => MoveOK(r, c)'
          /\ r \in Arrivals => ArriveOK(r, c)'
          /\ DirtyOK(r, c)'
      BY <1>2, <2>4, NothingHeld
    <3> QED
      BY <2>2, <2>3, <2>4, <3>1 DEF CopyInv
  <2>5. CASE r \in Adds
    <3>1. r \notin Moves /\ r \notin Arrivals
      BY <2>5, TransfersAssumption
    <3>2. AddOK(r, c)
      BY <2>1, <2>5 DEF CopyInv
    <3>3. later'[r][c] = None /\ (object'[r][c] # None => object'[r][c] = row'[c])
      BY <1>2, <2>1, <2>5, <3>2 DEF AddOK
    <3>4. AddOK(r, c)'
      BY <3>3 DEF AddOK
    <3>5. DirtyOK(r, c)'
      BY <1>2 DEF DirtyOK
    <3> QED
      BY <2>2, <2>3, <3>1, <3>4, <3>5 DEF CopyInv
  <2> QED
    BY <2>4, <2>5
<1>4. TrackInv'
  <2> SUFFICES ASSUME NEW c \in Copies, c \notin exposed', c \notin lost PROVE Tracked(c)'
    BY <1>1 DEF TrackInv
  <2>1. /\ CopyInv(c) /\ Tracked(c) /\ pc[r] = "commit"
        /\ row'[c] = row[c] \/ \A q \in Requests \ {r} : object[q][c] = None
    BY CommitRow DEF TrackInv, Held
  <2>2. Filed(c)' = Filed(c)
    BY <1>1 DEF Filed
  <2>3. \A q \in Moves \cup Arrivals : q \in Requests \ Adds
    BY TransfersAssumption DEF Requests
  <2>4. CASE r \in Adds \/ object[r][c] = None
    <3>1. \A q \in Moves \cup Arrivals : object'[q][c] = object[q][c]
      BY <1>2, <2>3, <2>4
    <3>2. \A a \in Arrivals : object[a][c] # None => pc'[a] = pc[a] /\ job'[a] = job[a]
      BY <1>2, <2>3, <2>4
    <3>3. Arriving(c)' = Arriving(c)
      BY <3>1, <3>2 DEF Arriving
    <3>4. \A m \in Filed(c) : object'[m][c] = object[m][c]
      BY <3>1 DEF Filed
    <3>5. CASE row'[c] = row[c]
      BY <1>1, <2>1, <2>2, <3>1, <3>2, <3>3, <3>4, <3>5, SameTrack
    <3>6. CASE row[c] = None /\ \E b \in Branches : row'[c] = NewCopy(b)
      <4>1. Still(c) /\ Still(c)'
        BY <3>6, NewCopyColumns DEF Still
      <4> QED
        BY <2>1, <2>2, <3>1, <3>2, <3>4, <4>1 DEF Tracked
    <3>7. row'[c] = row[c] \/ (row[c] = None /\ \E b \in Branches : row'[c] = NewCopy(b))
      BY <2>3, <2>4, CommitEffect
    <3> QED
      BY <3>5, <3>6, <3>7
  <2>5. CASE /\ r \in Moves /\ object[r][c] # None /\ row[c] \in BookCopy
             /\ row[c].status = "AVAILABLE" /\ transfer[r].dest \in Branches
             /\ r \in Filed(c) /\ row'[c] = StartTransfer(row[c], transfer[r].dest)
    <3>1. PICK y : y = row'[c]
      OBVIOUS
    <3>2. y # None /\ y.status = "IN_TRANSIT" /\ y.target = transfer[r].dest
      BY <2>5, <3>1, StartColumns
    <3>3. Still(c) /\ ~ Still(c)' /\ row'[c] # row[c]
      BY <2>5, <3>1, <3>2 DEF Still
    <3>4. \A q \in Requests \ {r} : object[q][c] = None
      BY <2>1, <3>3
    <3>5. Filed(c) = {r}
      BY <2>1, <2>5, <3>3, <3>4 DEF Tracked, Filed, Requests
    <3>6. \A a \in Arrivals : object'[a][c] = None
      BY <1>2, <2>3, <3>4
    <3>7. ~ Arriving(c)'
      BY <3>6 DEF Arriving
    <3> QED
      BY <1>1, <2>2, <2>5, <3>1, <3>2, <3>3, <3>5, <3>6, <3>7 DEF Tracked
  <2>6. CASE /\ r \in Arrivals /\ object[r][c] # None /\ row[c] \in BookCopy
             /\ row[c].status = "IN_TRANSIT" /\ row[c].target # None
             /\ row'[c] = CompleteTransfer(row[c])
    <3>1. ~ Still(c) /\ Arriving(c)
      BY <2>1, <2>6, TransfersAssumption DEF Still, Arriving
    <3>2. Filed(c)' = {}
      BY <2>1, <2>2, <3>1 DEF Tracked
    <3>3. Still(c)'
      BY <2>6, CompleteColumns DEF Still
    <3> QED
      BY <3>2, <3>3 DEF Tracked
  <2> QED
    BY <2>4, <2>5, <2>6, CommitEffect
<1> QED
  BY <1>2, <1>3, <1>4

-----------------------------------------------------------------------------
(* One case for each action.                                               *)
LEMMA NextTransfers == TransfersInv /\ [Next]_vars => TransfersInv'
<1> SUFFICES ASSUME TransfersInv, [Next]_vars PROVE TransfersInv'
  OBVIOUS
<1>1. CASE UNCHANGED vars
  <2>1. UNCHANGED <<row, transfer, pc, job, object, later, dirty, loan, exposed, lost>>
    BY <1>1 DEF vars, work, history, exposed
  <2>2. WorkOK'
    BY <2>1 DEF TransfersInv, WorkOK, ShapeOK, StepsOK
  <2>3. JobOK'
    BY <2>1 DEF TransfersInv, JobOK
  <2>4. CopiesInv'
    <3> SUFFICES ASSUME NEW c \in Copies \ exposed PROVE CopyInv(c)'
      BY <2>1 DEF CopiesInv
    <3>1. CopyInv(c)
      BY DEF TransfersInv, CopiesInv
    <3>2. /\ \A m \in Moves \ {None} : MoveOK(m, c)'
          /\ \A a \in Arrivals \ {None} : ArriveOK(a, c)'
          /\ \A n \in Adds \ {None} : AddOK(n, c)'
          /\ \A q \in Requests \ {None} : DirtyOK(q, c)'
      BY <2>1, <3>1, OthersCopy
    <3>3. RowOK(c)'
      BY <2>1, <3>1 DEF CopyInv, RowOK
    <3> QED
      BY <3>2, <3>3, TransfersAssumption DEF CopyInv, Requests
  <2>5. TrackInv'
    BY <2>1 DEF TransfersInv, TrackInv, Tracked, Still, Arriving, Filed
  <2> QED
    BY <2>2, <2>3, <2>4, <2>5 DEF TransfersInv
<1>2. ASSUME NEW c \in Copies, NEW u \in Users, Checkout(c, u) PROVE TransfersInv'
  BY <1>2, CheckoutTransfers
<1>3. ASSUME NEW c \in Copies, Return(c) PROVE TransfersInv'
  BY <1>3, ReturnTransfers
<1>4. ASSUME NEW m \in Moves, NEW c \in Copies, NEW b \in Branches, Move(m, c, b)
      PROVE  TransfersInv'
  BY <1>4, MoveTransfers
<1>5. ASSUME NEW a \in Arrivals, NEW m \in Moves, ArriveRead(a, m) PROVE TransfersInv'
  BY <1>5, ArriveReadTransfers
<1>6. ASSUME NEW a \in Arrivals, ArriveCheck(a) PROVE TransfersInv'
  BY <1>6, ArriveCheckTransfers
<1>7. ASSUME NEW a \in Arrivals, ArriveComplete(a) PROVE TransfersInv'
  BY <1>7, ArriveCompleteTransfers
<1>8. ASSUME NEW a \in Adds, NEW c \in Copies, NEW b \in Branches, AddCopy(a, c, b)
      PROVE  TransfersInv'
  BY <1>8, AddCopyTransfers
<1>9. ASSUME NEW r \in Requests, Merge(r) PROVE TransfersInv'
  BY <1>9, MergeTransfers
<1>10. ASSUME NEW r \in Requests, Commit(r) PROVE TransfersInv'
  BY <1>10, CommitTransfers
<1>11. ASSUME NEW r \in Requests, SaveFails(r) PROVE TransfersInv'
  BY <1>11, SaveFailsTransfers
<1>12. CASE Restart
  BY <1>12, RestartTransfers
<1> QED
  BY <1>1, <1>2, <1>3, <1>4, <1>5, <1>6, <1>7, <1>8, <1>9, <1>10, <1>11, <1>12 DEF Next

(* A step that ends the transit of a copy, or moves it.                    *)
TransitStep ==
    \A c \in Copies \ (overtaken' \cup readded') :
         row[c] # None =>
            /\ row'[c].branch # row[c].branch => row[c].status = "IN_TRANSIT"
            /\ row[c].status = "IN_TRANSIT" /\ row'[c].status # "IN_TRANSIT"
                 => row'[c] = NewCopy(row[c].target)

(* Only a commit of an arrival ends a transit; the other steps keep the    *)
(* branch.                                                                 *)
LEMMA StepsEndTransit == TransfersInv /\ [Next]_vars => [TransitStep]_vars
<1> SUFFICES ASSUME TransfersInv, Next PROVE TransitStep
  OBVIOUS
<1>1. CASE row' = row
  BY <1>1 DEF TransitStep, exposed
<1>2. ASSUME NEW d \in Copies, NEW u \in Users, Checkout(d, u) PROVE TransitStep
  <2>1. /\ row[d] # None /\ row[d].status = "AVAILABLE" /\ exposed \subseteq exposed'
        /\ row' = [row EXCEPT ![d] = CheckOut(row[d], u)]
    BY <1>2 DEF Checkout, Overtake, exposed
  <2>2. /\ row'[d] = CheckOut(row[d], u)
        /\ \A c \in Copies \ {d} : row'[c] = row[c]
    BY <2>1 DEF TransfersInv, WorkOK, ShapeOK
  <2>3. d \notin exposed => row[d] \in BookCopy
    BY <2>1 DEF TransfersInv, CopiesInv, CopyInv, RowOK
  <2>4. d \notin exposed => row'[d].branch = row[d].branch
    BY <2>1, <2>2, <2>3, CheckOutColumns
  <2> QED
    BY <2>1, <2>2, <2>4 DEF TransitStep, exposed
<1>3. ASSUME NEW d \in Copies, Return(d) PROVE TransitStep
  <2>1. /\ row[d] # None /\ row[d].borrower # None /\ exposed \subseteq exposed'
        /\ row' = [row EXCEPT ![d] = ReturnBook(row[d])]
    BY <1>3 DEF Return, Overtake, exposed
  <2>2. /\ row'[d] = ReturnBook(row[d])
        /\ \A c \in Copies \ {d} : row'[c] = row[c]
    BY <2>1 DEF TransfersInv, WorkOK, ShapeOK
  <2>3. d \notin exposed => row[d] \in BookCopy /\ row[d].status = "ISSUED"
    BY <2>1 DEF TransfersInv, CopiesInv, CopyInv, RowOK
  <2>4. d \notin exposed => row'[d].branch = row[d].branch
    BY <2>2, <2>3, ReturnColumns
  <2> QED
    BY <2>1, <2>2, <2>3, <2>4 DEF TransitStep, exposed
<1>4. ASSUME NEW r \in Requests, Commit(r) PROVE TransitStep
  <2> SUFFICES ASSUME NEW c \in Copies, c \notin exposed', row[c] # None
               PROVE  /\ row'[c].branch # row[c].branch => row[c].status = "IN_TRANSIT"
                      /\ row[c].status = "IN_TRANSIT" /\ row'[c].status # "IN_TRANSIT"
                           => row'[c] = NewCopy(row[c].target)
    BY DEF TransitStep, exposed
  <2>1. CASE row'[c] = row[c]
    BY <2>1
  <2>2. CASE /\ row[c] \in BookCopy /\ row[c].status = "AVAILABLE"
             /\ transfer[r].dest \in Branches
             /\ row'[c] = StartTransfer(row[c], transfer[r].dest)
    BY <2>2, StartColumns
  <2>3. CASE /\ row[c] \in BookCopy /\ row[c].status = "IN_TRANSIT"
             /\ row[c].target # None /\ row'[c] = CompleteTransfer(row[c])
    <3>1. PICK x : x = row[c]
      OBVIOUS
    <3>2. RowOK(c)
      BY <1>4, CommitRow DEF CopyInv
    <3>3. x.borrower = None /\ x.reserver = None /\ x.target \in Branches
      BY <2>3, <3>1, <3>2 DEF RowOK, BookCopy
    <3>4. CompleteTransfer(x) = NewCopy(x.target)
      BY <2>3, <3>1, <3>3 DEF CompleteTransfer, NewCopy, BookCopy
    <3> QED
      BY <2>3, <3>1, <3>4
  <2> QED
    BY <1>4, <2>1, <2>2, <2>3, CommitEffect
<1>5. ASSUME NEW r \in Requests, Merge(r) \/ SaveFails(r) PROVE TransitStep
  BY <1>1, <1>5 DEF Merge, SaveFails
<1>6. ASSUME NEW m \in Moves, NEW c \in Copies, NEW b \in Branches, Move(m, c, b)
      PROVE  TransitStep
  BY <1>1, <1>6 DEF Move
<1>7. ASSUME NEW a \in Arrivals, NEW m \in Moves, ArriveRead(a, m) PROVE TransitStep
  BY <1>1, <1>7 DEF ArriveRead
<1>8. ASSUME NEW a \in Arrivals, ArriveCheck(a) \/ ArriveComplete(a) PROVE TransitStep
  BY <1>1, <1>8 DEF ArriveCheck, ArriveComplete
<1>9. ASSUME NEW a \in Adds, NEW c \in Copies, NEW b \in Branches, AddCopy(a, c, b)
      PROVE  TransitStep
  BY <1>1, <1>9 DEF AddCopy
<1>10. CASE Restart
  BY <1>1, <1>10 DEF Restart
<1> QED
  BY <1>2, <1>3, <1>4, <1>5, <1>6, <1>7, <1>8, <1>9, <1>10 DEF Next

(* What a row is gives the borrower in it.                                 *)
LEMMA LoanFollows == TransfersInv => LoanKept
<1> SUFFICES ASSUME TransfersInv, NEW c \in Copies \ exposed
             PROVE  IF row[c] = None THEN loan[c] = None
                    ELSE /\ row[c].borrower = loan[c]
                         /\ row[c].status = "ISSUED" <=> loan[c] # None
  BY DEF LoanKept, exposed
<1>1. RowOK(c)
  BY DEF TransfersInv, CopiesInv, CopyInv
<1> QED
  BY <1>1 DEF RowOK

(* With nobody saving the copy there is no arrival under way.              *)
LEMMA TransitFollows == TransfersInv => TransitTracked
<1> SUFFICES ASSUME TransfersInv, NEW c \in Copies \ (exposed \cup lost),
                    row[c] # None, ~ Saving(c)
             PROVE  /\ row[c].status = "IN_TRANSIT" <=> Filed(c) # {}
                    /\ \A m \in Filed(c) :
                          Filed(c) = {m} /\ transfer[m].dest = row[c].target
  BY DEF TransitTracked, exposed
<1>1. Tracked(c) /\ \A r \in Requests : object[r][c] = None
  BY DEF TransfersInv, TrackInv, Saving, Held
<1>2. ~ Arriving(c)
  BY <1>1 DEF Arriving, Requests
<1>3. CASE row[c].status # "IN_TRANSIT"
  BY <1>1, <1>3 DEF Tracked, Still, Filed, Requests
<1>4. CASE row[c].status = "IN_TRANSIT"
  <2>1. PICK m \in Moves : Filed(c) = {m} /\ transfer[m].dest = row[c].target
    BY <1>1, <1>2, <1>4 DEF Tracked, Still
  <2> QED
    BY <1>4, <2>1
<1> QED
  BY <1>3, <1>4

(* The inductive invariant: rows, transfers in memory and the objects of   *)
(* the requests under way fit together, for copies that nobody overtook    *)
(* and nobody registered a second time.                                    *)
THEOREM TransfersInvariant == Spec => []TransfersInv
<1> QED
  BY InitTransfers, NextTransfers, PTL DEF Spec

(* transfer_copy, complete_transfer and add_physical_copy save copies that *)
(* they read in another session (save_copy and save_book of the PostgreSQL *)
(* repository).  Whatever they do, and wherever a save fails or the        *)
(* process restarts, the borrower in the row of a copy is the user who has *)
(* it, as long as nobody else wrote the row between the reading and the    *)
(* writing of one request and the copy was not registered a second time.   *)
THEOREM LoansAreKept == Spec => []LoanKept
<1> QED
  BY TransfersInvariant, LoanFollows, PTL

(* The same requests, and the transfers of branch_mgr in memory: between   *)
(* requests a copy is in transit exactly while one transfer of it is open, *)
(* and its target is the destination of that transfer, except for copies   *)
(* that were overtaken or registered a second time, or whose transfer lost *)
(* its save or its record.                                                 *)
THEOREM TransitsAreTracked == Spec => []TransitTracked
<1> QED
  BY TransfersInvariant, TransitFollows, PTL

(* BookCopy.start_transfer and complete_transfer through the two sessions  *)
(* of a request: no step moves a copy but the commit of its arrival, which *)
(* leaves it available at its target, with no borrower and no reserver.    *)
(* Excepted are copies that another commit overtook and copies registered  *)
(* a second time, which the registration itself moves.                     *)
THEOREM TransitsEndAtTarget == Spec => TransitEndsAtTarget
<1>1. [][TransitStep]_vars => TransitEndsAtTarget
  BY PTL DEF TransitEndsAtTarget, TransitStep
<1> QED
  BY <1>1, TransfersInvariant, StepsEndTransit, PTL DEF Spec
=============================================================================

---------------------------- MODULE MemoryLibrary ----------------------------
(***************************************************************************)
(* The circulation service on the in-memory repositories                   *)
(* (storage/inmemory.py), and the smart allocation queue                   *)
(* (dsa/priority_queue.py) in front of it, for one title.  Repositories    *)
(* hand out live objects: what a thread assigns is seen at once, and an    *)
(* exception undoes nothing.  A copy is protected by the in-process mutex  *)
(* of storage/lock_manager.py, given up after five seconds; a user is not  *)
(* protected at all.                                                       *)
(***************************************************************************)
EXTENDS CopyState, Integers, Sequences, FiniteSets, FiniteSetsExt

CONSTANTS
    Clerks,        \* threads of the API process
    NCopies,       \* copies, numbered in the order they were added
    MaxBorrow,     \* max_borrow_limit
    Profile,       \* user -> [student, year, exam], exam in days or None
    Visitors,      \* bound: users who come to the desk themselves
    Applicants,    \* bound: users who ask for an allocation, in this order
    MaxReturns,    \* bound: books a user has returned
    MaxWaiting     \* bound: length of the reservation queue

ASSUME MemoryAssumption ==
    /\ NCopies \in Nat \ {0} /\ MaxBorrow \in Nat \ {0}
    /\ Visitors \subseteq Users /\ Applicants \in Seq(Users)
    /\ MaxReturns \in Nat /\ MaxWaiting \in Nat
    /\ \A u \in Users :
          /\ Profile[u].student \in BOOLEAN /\ Profile[u].year \in 1 .. 4
          /\ Profile[u].exam \in Int \cup {None}
    /\ IsFiniteSet(Clerks) /\ None \notin Clerks /\ Branches # {}

Copies == 1 .. NCopies
Home == CHOOSE b \in Branches : TRUE
NewRequest(id, u) == [id |-> id, user |-> u, completed |-> 0, entry |-> 0, queue |-> 0]
NoRequest == NewRequest(0, None)

VARIABLES
    copies,      \* InMemoryBookRepository.copies, the objects themselves
    loans,       \* active_borrowed_copy_ids
    completed,   \* entries of borrow_history with a returned_at
    mutex,       \* holder of a copy's lock
    heap,        \* requests in the lists of the allocation queues
    counter,     \* _entry_counter of every SmartAllocationQueue made; the
                 \* last one is in the dictionary
    asked,       \* requests so far, the source of their ids
    disturbed,   \* history: queues on whose list two heapq calls overlapped
    waitlist,    \* users in the reservation queue
    pc, kcopy, kuser,     \* a thread: step, copy, user,
    kreq, kqueue, ksize   \* request in hand, queue, size of its list

shelf == <<copies, loans, completed>>
alloc == <<heap, counter, asked, disturbed>>
args == <<kcopy, kuser, kreq, kqueue, ksize>>
vars == <<shelf, mutex, alloc, waitlist, pc, args>>

Init ==
    /\ copies = [c \in Copies |-> NewCopy(Home)]
    /\ loans = [u \in Users |-> {}]
    /\ completed = [u \in Users |-> 0]
    /\ mutex = [c \in Copies |-> None]
    /\ heap = {} /\ counter = <<>> /\ asked = 0 /\ disturbed = {}
    /\ waitlist = <<>>
    /\ pc = [k \in Clerks |-> "idle"]
    /\ kcopy = [k \in Clerks |-> None]
    /\ kuser = [k \in Clerks |-> None]
    /\ kreq = [k \in Clerks |-> NoRequest]
    /\ kqueue = [k \in Clerks |-> 0]
    /\ ksize = [k \in Clerks |-> 0]

Goto(k, l) == pc' = [pc EXCEPT ![k] = l]

(***************************************************************************)
(* calculate_priority, in units of 1/10000: 0.4 exam urgency, 0.3 academic *)
(* year, 0.3 books returned so far (at most ten count).                    *)
(***************************************************************************)
(* Fault: the nearest exams share a bucket with a month's.                 *)
UrgencyCoarse(u) ==
    IF Profile[u].exam = None THEN 20 ELSE IF Profile[u].exam <= 30 THEN 30 ELSE 10

Urgency(u) ==
    LET days == Profile[u].exam
    IN  CASE ~ Profile[u].student -> 50
          [] Profile[u].student /\ days = None -> 20
          [] OTHER -> IF days <= 1 THEN 100 ELSE IF days <= 3 THEN 90
                      ELSE IF days <= 7 THEN 75 ELSE IF days <= 14 THEN 50
                      ELSE IF days <= 30 THEN 30 ELSE 10

Academic(u) == IF Profile[u].student THEN 25 * Profile[u].year ELSE 90

CalculatePriority(u, done) ==
    40 * Urgency(u) + 30 * Academic(u) + 30 * Min({100, 10 * done})

Score(r) == CalculatePriority(r.user, r.completed)

(* The order of BorrowRequest: higher priority first, then earlier entry.  *)
Before(r, s) == Score(r) > Score(s) \/ (Score(r) = Score(s) /\ r.entry < s.entry)

Queue(q) == {r \in heap : r.queue = q}
Top(r) == \A s \in Queue(r.queue) : ~ Before(s, r)

(***************************************************************************)
(* heapq on the list of a queue.  heappush appends and heappop takes the   *)
(* first element before anything is compared; the comparisons that follow  *)
(* run BorrowRequest.__lt__, in Python and without a lock, so that other   *)
(* threads come in between.  A call that then finds the list of another    *)
(* length raises RuntimeError; one that does not goes on swapping.  In     *)
(* either case the list need not be a heap any more until it is down to    *)
(* one element; its order is not modelled, so that its first element may   *)
(* then be any.                                                            *)
(***************************************************************************)
Sifting(q) ==
    \E k \in Clerks : pc[k] \in {"push_sift", "drop_sift"} /\ kqueue[k] = q
Unsorted(q) == Sifting(q) \/ q \in disturbed

(* k changes the list of q to n elements; with fewer than two there is     *)
(* nothing to compare and it goes on at once.                              *)
HeapCall(k, q, n, sift, next) ==
    /\ disturbed' = IF Sifting(q) THEN disturbed \cup {q}
                    ELSE IF Cardinality(Queue(q)) <= 1 THEN disturbed \ {q}
                    ELSE disturbed
    /\ ksize' = [ksize EXCEPT ![k] = n]
    /\ Goto(k, IF n < 2 THEN next ELSE sift)

SizeKept(k) == Cardinality(Queue(kqueue[k])) = ksize[k]

(***************************************************************************)
(* request_smart_allocation: the queue is looked up, made if there is none *)
(* and fetched; enqueue computes the priority, increments the counter,     *)
(* reads it again and pushes.                                              *)
(***************************************************************************)
AskedBy(k, u) ==
    /\ pc[k] = "idle"
    /\ asked < Len(Applicants) /\ u = Applicants[asked + 1]
    /\ asked' = asked + 1
    /\ kreq' = [kreq EXCEPT ![k] = NewRequest(asked + 1, u)]
    /\ UNCHANGED <<shelf, mutex, heap, counter, disturbed, waitlist, kcopy, kuser,
                   kqueue, ksize>>

(* Fault: every request makes a queue.                                     *)
RequestAfresh(k, u) == AskedBy(k, u) /\ Goto(k, "req_create")

RequestLook(k, u) ==
    /\ AskedBy(k, u)
    /\ Goto(k, IF counter = <<>> THEN "req_create" ELSE "req_fetch")

(* Whatever is in the dictionary by now is replaced.                       *)
RequestCreate(k) ==
    /\ pc[k] = "req_create"
    /\ counter' = Append(counter, 0)
    /\ Goto(k, "req_fetch")
    /\ UNCHANGED <<shelf, mutex, heap, asked, disturbed, waitlist, args>>

RequestFetch(k) ==
    LET q == Len(counter)
    IN  /\ pc[k] = "req_fetch"
        /\ kreq' = [kreq EXCEPT ![k].completed = completed[kreq[k].user],
                                ![k].entry = counter[q], ![k].queue = q]
        /\ Goto(k, "req_count")
        /\ UNCHANGED <<shelf, mutex, alloc, waitlist, kcopy, kuser, kqueue, ksize>>

RequestCount(k) ==
    /\ pc[k] = "req_count"
    /\ counter' = [counter EXCEPT ![kreq[k].queue] = kreq[k].entry + 1]
    /\ Goto(k, "req_push")
    /\ UNCHANGED <<shelf, mutex, heap, asked, disturbed, waitlist, args>>

RequestPush(k) ==
    LET q == kreq[k].queue
    IN  /\ pc[k] = "req_push"
        /\ heap' = heap \cup {[kreq[k] EXCEPT !.entry = counter[q]]}
        /\ kreq' = [kreq EXCEPT ![k] = NoRequest]
        /\ kqueue' = [kqueue EXCEPT ![k] = q]
        /\ HeapCall(k, q, Cardinality(Queue(q)) + 1, "push_sift", "idle")
        /\ UNCHANGED <<shelf, mutex, counter, asked, waitlist, kcopy, kuser>>

(* heappush is through, or raises: the request is in the list.             *)
RequestSift(k) ==
    /\ pc[k] = "push_sift"
    /\ Goto(k, "idle")
    /\ UNCHANGED <<shelf, mutex, alloc, waitlist, args>>

(***************************************************************************)
(* process_smart_allocation_drop: the queue and the copies are looked at,  *)
(* the best request is taken off the queue, and the first copy that was    *)
(* available is issued like any other.                                     *)
(***************************************************************************)
Available == {c \in Copies : copies[c].status = "AVAILABLE"}

DropLook(k) ==
    /\ pc[k] = "idle" /\ Queue(Len(counter)) # {} /\ Available # {}
    /\ kqueue' = [kqueue EXCEPT ![k] = Len(counter)]
    /\ kcopy' = [kcopy EXCEPT ![k] = Min(Available)]
    /\ Goto(k, "drop_pop")
    /\ UNCHANGED <<shelf, mutex, alloc, waitlist, kuser, kreq, ksize>>

(* Fault: peek for pop.                                                    *)
DropPeek(k) ==
    /\ pc[k] = "drop_pop"
    /\ \E r \in Queue(kqueue[k]) :
          /\ Unsorted(kqueue[k]) \/ Top(r)
          /\ kreq' = [kreq EXCEPT ![k] = r]
          /\ kuser' = [kuser EXCEPT ![k] = r.user]
    /\ Goto(k, "drop_issue")
    /\ UNCHANGED <<shelf, mutex, alloc, waitlist, kcopy, kqueue, ksize>>

DropPop(k) ==
    LET q == kqueue[k]
    IN  /\ pc[k] = "drop_pop"
        /\ \E r \in Queue(q) :
              /\ Unsorted(q) \/ Top(r)
              /\ heap' = heap \ {r}
              /\ kreq' = [kreq EXCEPT ![k] = r]
              /\ kuser' = [kuser EXCEPT ![k] = r.user]
        /\ HeapCall(k, q, Cardinality(Queue(q)) - 1, "drop_sift", "drop_issue")
        /\ UNCHANGED <<shelf, mutex, counter, asked, waitlist, kcopy, kqueue>>

DropSift(k) ==
    /\ pc[k] = "drop_sift" /\ SizeKept(k)
    /\ Goto(k, "drop_issue")
    /\ UNCHANGED <<shelf, mutex, alloc, waitlist, args>>

(* Another thread was faster.                                              *)
DropNothing(k) ==
    /\ pc[k] = "drop_pop" /\ Queue(kqueue[k]) = {}
    /\ kcopy' = [kcopy EXCEPT ![k] = None]
    /\ Goto(k, "idle")
    /\ UNCHANGED <<shelf, mutex, alloc, waitlist, kuser, kreq, kqueue, ksize>>

(***************************************************************************)
(* issue_physical_book and return_physical_book                            *)
(***************************************************************************)
(* acquire_pessimistic_lock without Redis.  A thread that waits for the    *)
(* mutex, or times out, or finds the copy not issued, has changed nothing. *)
Acquire(k, c) == mutex[c] = None /\ mutex' = [mutex EXCEPT ![c] = k]

Issue(k, c, u) ==
    /\ pc[k] = "idle" /\ Acquire(k, c)
    /\ kcopy' = [kcopy EXCEPT ![k] = c]
    /\ kuser' = [kuser EXCEPT ![k] = u]
    /\ Goto(k, "issue_user")
    /\ UNCHANGED <<shelf, alloc, waitlist, kreq, kqueue, ksize>>

DropIssue(k) ==
    /\ pc[k] = "drop_issue" /\ Acquire(k, kcopy[k])
    /\ Goto(k, "issue_user")
    /\ UNCHANGED <<shelf, alloc, waitlist, args>>

(* The thread is through with its request and lets go of the mutex if it   *)
(* has it.  A request in hand whose checkout failed is gone.               *)
End(k) ==
    /\ mutex' = [c \in Copies |-> IF mutex[c] = k THEN None ELSE mutex[c]]
    /\ kcopy' = [kcopy EXCEPT ![k] = None]
    /\ kuser' = [kuser EXCEPT ![k] = None]
    /\ kreq' = [kreq EXCEPT ![k] = NoRequest]
    /\ Goto(k, "idle")
    /\ UNCHANGED <<alloc, kqueue, ksize>>

(* heappop raises: the request it had taken is gone.                       *)
DropSiftError(k) ==
    /\ pc[k] = "drop_sift" /\ ~ SizeKept(k)
    /\ End(k)
    /\ UNCHANGED <<shelf, waitlist>>

DropTimeout(k) ==
    /\ pc[k] = "drop_issue" /\ mutex[kcopy[k]] # None
    /\ End(k)
    /\ UNCHANGED <<shelf, waitlist>>

CanBorrow(u) == Cardinality(loans[u]) < MaxBorrow

(* Fault: no look at the borrow limit.                                     *)
IssueUnchecked(k) ==
    /\ pc[k] = "issue_user"
    /\ Goto(k, "issue_copy")
    /\ UNCHANGED <<shelf, mutex, alloc, waitlist, args>>

IssueUser(k) ==
    /\ pc[k] = "issue_user" /\ CanBorrow(kuser[k])
    /\ Goto(k, "issue_copy")
    /\ UNCHANGED <<shelf, mutex, alloc, waitlist, args>>

IssueUserRefused(k) ==
    /\ pc[k] = "issue_user" /\ ~ CanBorrow(kuser[k])
    /\ End(k)
    /\ UNCHANGED <<shelf, waitlist>>

Issuable(copy, u) ==
    \/ copy.status = "AVAILABLE"
    \/ copy.status = "RESERVED" /\ copy.reserver = u

IssueCopy(k) ==
    /\ pc[k] = "issue_copy" /\ Issuable(copies[kcopy[k]], kuser[k])
    /\ copies' = [copies EXCEPT ![kcopy[k]] = CheckOut(@, kuser[k])]
    /\ Goto(k, "issue_loan")
    /\ UNCHANGED <<loans, completed, mutex, alloc, waitlist, args>>

IssueCopyRefused(k) ==
    /\ pc[k] = "issue_copy" /\ ~ Issuable(copies[kcopy[k]], kuser[k])
    /\ End(k)
    /\ UNCHANGED <<shelf, waitlist>>

IssueLoan(k) ==
    /\ pc[k] = "issue_loan"
    /\ loans' = [loans EXCEPT ![kuser[k]] = @ \cup {kcopy[k]}]
    /\ End(k)
    /\ UNCHANGED <<copies, completed, waitlist>>

Return(k, c) ==
    LET u == copies[c].borrower
    IN  /\ pc[k] = "idle" /\ u # None /\ completed[u] < MaxReturns
        /\ Acquire(k, c)
        /\ loans' = [loans EXCEPT ![u] = @ \ {c}]
        /\ completed' = [completed EXCEPT ![u] = @ + 1]
        /\ kcopy' = [kcopy EXCEPT ![k] = c]
        /\ Goto(k, "return_copy")
        /\ UNCHANGED <<copies, alloc, waitlist, kuser, kreq, kqueue, ksize>>

(* Fault: the state object's return_book is not called.                    *)
ReturnCopyKept(k) ==
    /\ pc[k] = "return_copy"
    /\ End(k)
    /\ UNCHANGED <<shelf, waitlist>>

(* return_book, and the next reservation gets the copy.                    *)
ReturnCopy(k) ==
    LET back == ReturnBook(copies[kcopy[k]])
    IN  /\ pc[k] = "return_copy"
        /\ copies' = [copies EXCEPT ![kcopy[k]] =
                         IF waitlist = <<>> THEN back ELSE Reserve(back, Head(waitlist))]
        /\ waitlist' = IF waitlist = <<>> THEN <<>> ELSE Tail(waitlist)
        /\ End(k)
        /\ UNCHANGED <<loans, completed>>

ReserveBook(u) ==
    /\ Len(waitlist) < MaxWaiting
    /\ \A i \in 1 .. Len(waitlist) : waitlist[i] # u
    /\ waitlist' = Append(waitlist, u)
    /\ UNCHANGED <<shelf, mutex, alloc, pc, args>>

Next ==
    \/ \E k \in Clerks :
          \/ RequestCreate(k) \/ RequestFetch(k) \/ RequestCount(k)
          \/ RequestPush(k) \/ RequestSift(k)
          \/ DropLook(k) \/ DropPop(k) \/ DropSift(k) \/ DropSiftError(k)
          \/ DropNothing(k) \/ DropIssue(k) \/ DropTimeout(k)
          \/ IssueUser(k) \/ IssueUserRefused(k) \/ IssueCopy(k) \/ IssueCopyRefused(k)
          \/ IssueLoan(k) \/ ReturnCopy(k)
          \/ \E c \in Copies : Return(k, c) \/ \E u \in Visitors : Issue(k, c, u)
          \/ \E u \in Users : RequestLook(k, u)
    \/ \E u \in Visitors : ReserveBook(u)

Spec == Init /\ [][Next]_vars
-----------------------------------------------------------------------------
(* What a user has and what the copies say agree, but for the copy that a  *)
(* thread holding its mutex is between the two assignments of: so no copy  *)
(* is ever lent twice, although users are changed without any lock.        *)
LoansAgree ==
    \A c \in Copies :
        \/ \E k \in Clerks : pc[k] \in {"issue_loan", "return_copy"} /\ kcopy[k] = c
        \/ \A u \in Users : c \in loans[u] <=> copies[c].borrower = u

(* Checkouts that have passed the test of the limit.                       *)
Pending(u) == {k \in Clerks : pc[k] \in {"issue_copy", "issue_loan"} /\ kuser[k] = u}

(* The borrow limit is looked at before another thread's loan is entered:  *)
(* a user can have more than the limit, but the loans and the checkouts    *)
(* that may still become one are together only as many more as there are   *)
(* other threads.                                                          *)
OvershootBounded ==
    \A u \in Users :
        Cardinality(loans[u]) + Cardinality(Pending(u)) <= MaxBorrow + Cardinality(Clerks) - 1

(* No two drops serve one request: a request that a thread has taken is    *)
(* not waiting any more, and in no other thread's hands.                   *)
RequestServedOnce ==
    \A k \in Clerks :
        /\ kreq[k] \notin heap
        /\ \A j \in Clerks \ {k} : kreq[k].id # 0 => kreq[j].id # kreq[k].id

(* r is no worse than s in any respect, and has the nearer exam.           *)
MoreUrgent(r, s) ==
    LET p == Profile[r.user]
        q == Profile[s.user]
    IN  /\ p.student /\ q.student /\ p.exam # None /\ q.exam # None
        /\ p.exam <= 3 /\ 7 < q.exam
        /\ p.year >= q.year /\ r.completed >= s.completed

(* A drop never passes over a student with an exam in three days for one   *)
(* whose exam is more than a week away, all else being no better, unless   *)
(* heappush or heappop of another thread is in the middle of the list or   *)
(* two of them have left it out of order.                                  *)
UrgentFirst ==
    [][\A s \in heap \ heap' : ~ Unsorted(s.queue) =>
          \A r \in heap' : r.queue = s.queue => ~ MoreUrgent(r, s)]_vars

(* The first requests for a title can replace each other's queue, and with *)
(* it the requests that wait in it; but every thread does so once at most, *)
(* so there are no more queues than threads, ever.                         *)
OneQueuePerThread == Len(counter) <= Cardinality(Clerks)
=============================================================================

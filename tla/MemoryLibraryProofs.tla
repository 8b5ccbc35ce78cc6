------------------------- MODULE MemoryLibraryProofs -------------------------
(***************************************************************************)
(* Proofs about MemoryLibrary: for any number of threads, copies, users    *)
(* and requests, a smart allocation request is served once and in the      *)
(* order of urgency, what users have and what copies say agrees, and the   *)
(* borrow limit is overshot by at most one loan for every other thread.    *)
(***************************************************************************)
EXTENDS MemoryLibrary, TLAPS, FiniteSetTheorems, SequenceTheorems, WellFoundedInduction

(* Whoever comes to the desk is a user.                                    *)
LEMMA VisitorsAreUsers == Visitors \subseteq Users
BY MemoryAssumption

(* A set of natural numbers that is not empty has a least element.         *)
LEMMA LeastNat ==
    ASSUME NEW S, S \subseteq Nat, S # {}
    PROVE  Min(S) \in S
<1>1. PICK x \in S : \A y \in S : ~ (<<y, x>> \in OpToRel(<, Nat))
  BY WFMin, NatLessThanWellFounded, Zenon
<1>2. \A y \in S : ~ (y < x)
  BY <1>1 DEF OpToRel
<1>3. \E z \in S : \A y \in S : z <= y
  BY <1>2
<1> QED
  BY <1>3 DEF Min

(***************************************************************************)
(* Requests: the ids of the requests that wait and of those in the hands   *)
(* of threads are all different, and not above the number of requests so   *)
(* far.  A thread that asks has a request in hand, and once it has fetched *)
(* a queue, the number of one.                                             *)
(***************************************************************************)
AnyRequest == [id : Nat, user : Users \cup {None}, completed : Nat, entry : Nat, queue : Nat]
RequestRecord == {r \in AnyRequest : r.id # 0 /\ r.user \in Users}

Asking == {"req_create", "req_fetch", "req_count", "req_push"}

RequestType ==
    /\ asked \in Nat /\ counter \in Seq(Nat)
    /\ completed \in [Users -> Nat]
    /\ pc = [k \in Clerks |-> pc[k]]
    /\ kreq \in [Clerks -> AnyRequest]
    /\ heap \subseteq RequestRecord
    /\ \A k \in Clerks :
          /\ pc[k] \in Asking => kreq[k] \in RequestRecord
          /\ pc[k] \in Asking \ {"req_create"} => Len(counter) > 0
          /\ pc[k] \in {"req_count", "req_push"} => kreq[k].queue \in 1 .. Len(counter)

Distinct ==
    /\ \A r \in heap : r.id <= asked
    /\ \A r, s \in heap : r.id = s.id => r = s
    /\ \A k \in Clerks :
          /\ kreq[k].id \in 0 .. asked
          /\ \A r \in heap : kreq[k].id # r.id
          /\ \A j \in Clerks \ {k} : kreq[k].id # 0 => kreq[j].id # kreq[k].id

RequestInv == RequestType /\ Distinct

(* No request is a record like any other.                                  *)
LEMMA NoRequestType == NoRequest \in AnyRequest /\ NoRequest.id = 0
BY DEF NoRequest, NewRequest, AnyRequest

(* The queue is empty at the start.                                        *)
LEMMA InitRequest == Init => RequestInv
<1> SUFFICES ASSUME Init PROVE RequestInv
  OBVIOUS
<1>1. \A k \in Clerks : kreq[k].id = 0
  BY NoRequestType DEF Init
<1>2. /\ asked = 0 /\ heap = {} /\ completed \in [Users -> Nat] /\ counter \in Seq(Nat)
      /\ pc = [k \in Clerks |-> pc[k]] /\ \A k \in Clerks : pc[k] = "idle"
  BY DEF Init
<1>3. kreq \in [Clerks -> AnyRequest]
  BY NoRequestType DEF Init
<1>4. RequestType
  BY <1>2, <1>3 DEF RequestType, Asking
<1>5. Distinct
  BY <1>1, <1>2 DEF Distinct
<1> QED
  BY <1>4, <1>5 DEF RequestInv

(* A thread puts down the request it has, if any.                          *)
LEMMA PutDown ==
    ASSUME RequestInv, NEW k \in Clerks, kreq' = [kreq EXCEPT ![k] = NoRequest],
           UNCHANGED <<heap, counter, asked>>, completed' \in [Users -> Nat],
           pc' = [pc EXCEPT ![k] = "idle"]
    PROVE  RequestInv'
<1>0. RequestType /\ Distinct
  BY DEF RequestInv
<1>1. kreq'[k].id = 0 /\ \A j \in Clerks \ {k} : kreq'[j] = kreq[j]
  BY <1>0, NoRequestType DEF RequestType
<1>2. kreq' \in [Clerks -> AnyRequest] /\ pc' = [j \in Clerks |-> pc'[j]]
  BY <1>0, NoRequestType DEF RequestType
<1>3. \A r \in heap : r.id # 0
  BY <1>0 DEF RequestType, RequestRecord
<1>4. pc'[k] = "idle" /\ \A j \in Clerks \ {k} : pc'[j] = pc[j]
  BY <1>0 DEF RequestType
<1>5. RequestType'
  BY <1>0, <1>1, <1>2, <1>4 DEF RequestType, Asking
<1>6. Distinct'
  BY <1>0, <1>1, <1>3 DEF Distinct, RequestType
<1> QED
  BY <1>5, <1>6 DEF RequestInv

(* Steps that have nothing to do with requests, and do not begin one.      *)
LEMMA KeepRequests ==
    ASSUME RequestInv, UNCHANGED <<heap, counter, asked, kreq>>, completed' \in [Users -> Nat],
           pc' = [k \in Clerks |-> pc'[k]],
           \A k \in Clerks : pc'[k] = pc[k] \/ pc'[k] \notin Asking
    PROVE  RequestInv'
<1>1. RequestType'
  BY DEF RequestInv, RequestType, Asking
<1>2. Distinct'
  BY DEF RequestInv, Distinct
<1> QED
  BY <1>1, <1>2 DEF RequestInv

(* A new request gets an id that no other has.                             *)
LEMMA LookRequest ==
    ASSUME RequestInv, NEW k \in Clerks, NEW u \in Users, RequestLook(k, u)
    PROVE  RequestInv'
<1>0. RequestType /\ Distinct
  BY DEF RequestInv
<1> DEFINE q == NewRequest(asked + 1, u)
           l == IF counter = <<>> THEN "req_create" ELSE "req_fetch"
<1>1. /\ asked' = asked + 1 /\ kreq' = [kreq EXCEPT ![k] = q]
      /\ pc' = [pc EXCEPT ![k] = l]
      /\ UNCHANGED <<heap, counter, completed>>
  BY DEF RequestLook, AskedBy, Goto, shelf
<1>2. q \in RequestRecord /\ q \in AnyRequest /\ q.id = asked + 1 /\ asked \in Nat
  <2>1. asked \in Nat /\ asked + 1 \in Nat /\ asked + 1 # 0
    BY <1>0 DEF RequestType
  <2>2. q = [id |-> asked + 1, user |-> u, completed |-> 0, entry |-> 0, queue |-> 0]
    BY DEF NewRequest
  <2> HIDE DEF q
  <2>3. q \in AnyRequest /\ q.id = asked + 1 /\ q.user = u
    BY <2>1, <2>2 DEF AnyRequest
  <2> QED
    BY <2>1, <2>3 DEF RequestRecord
<1>3. l \in {"req_create", "req_fetch"} /\ (l = "req_fetch" => Len(counter) > 0)
  BY <1>0 DEF RequestType
<1> HIDE DEF q, l
<1>4. /\ kreq'[k] = q /\ pc'[k] = l
      /\ \A j \in Clerks \ {k} : kreq'[j] = kreq[j] /\ pc'[j] = pc[j]
      /\ kreq' \in [Clerks -> AnyRequest] /\ pc' = [j \in Clerks |-> pc'[j]]
  BY <1>0, <1>1, <1>2 DEF RequestType
<1>5. RequestType'
  BY <1>0, <1>1, <1>2, <1>3, <1>4 DEF RequestType, Asking
<1>6. \A r \in heap : r.id <= asked /\ r.id \in Nat
  BY <1>0 DEF RequestType, RequestRecord, AnyRequest, Distinct
<1>7. Distinct'
  <2>1. \A j \in Clerks : kreq[j].id \in 0 .. asked
    BY <1>0 DEF Distinct
  <2>2. \A j \in Clerks : kreq'[j].id \in 0 .. asked'
    BY <1>1, <1>2, <1>4, <2>1
  <2>3. \A j \in Clerks : \A r \in heap : kreq'[j].id # r.id
    BY <1>0, <1>2, <1>4, <1>6 DEF Distinct
  <2>4. \A j \in Clerks : \A i \in Clerks \ {j} : kreq'[j].id # 0 => kreq'[i].id # kreq'[j].id
    BY <1>0, <1>2, <1>4, <2>1 DEF Distinct
  <2> QED
    BY <1>0, <1>1, <1>2, <1>6, <2>2, <2>3, <2>4 DEF Distinct
<1> QED
  BY <1>5, <1>7 DEF RequestInv

(* A queue more; the ones there keep their counters.                       *)
LEMMA CreateRequest ==
    ASSUME RequestInv, NEW k \in Clerks, RequestCreate(k)
    PROVE  RequestInv'
<1>0. RequestType /\ Distinct
  BY DEF RequestInv
<1>1. /\ pc[k] = "req_create" /\ counter' = Append(counter, 0)
      /\ pc' = [pc EXCEPT ![k] = "req_fetch"]
      /\ UNCHANGED <<heap, asked, kreq, completed>>
  BY DEF RequestCreate, Goto, shelf, args
<1>2. counter' \in Seq(Nat) /\ Len(counter') = Len(counter) + 1 /\ Len(counter) \in Nat
  BY <1>0, <1>1 DEF RequestType
<1>3. /\ pc'[k] = "req_fetch" /\ pc' = [j \in Clerks |-> pc'[j]]
      /\ \A j \in Clerks \ {k} : pc'[j] = pc[j]
  BY <1>0, <1>1 DEF RequestType
<1>4. 1 .. Len(counter) \subseteq 1 .. Len(counter') /\ Len(counter') > 0
  BY <1>2
<1>5. RequestType'
  BY <1>0, <1>1, <1>2, <1>3, <1>4 DEF RequestType, Asking
<1>6. Distinct'
  BY <1>0, <1>1 DEF Distinct
<1> QED
  BY <1>5, <1>6 DEF RequestInv

(* A request is filled in; its id stays.                                   *)
LEMMA FetchRequest ==
    ASSUME RequestInv, NEW k \in Clerks, RequestFetch(k)
    PROVE  RequestInv'
<1>0. RequestType /\ Distinct
  BY DEF RequestInv
<1>1. PICK n : n = Len(counter)
  OBVIOUS
<1>2. PICK q : q = [kreq[k] EXCEPT !.completed = completed[kreq[k].user],
                                   !.entry = counter[n], !.queue = n]
  OBVIOUS
<1>3. /\ pc[k] = "req_fetch" /\ kreq' = [kreq EXCEPT ![k] = q]
      /\ pc' = [pc EXCEPT ![k] = "req_count"]
      /\ UNCHANGED <<heap, asked, counter, completed>>
  <2>1. kreq[k] \in AnyRequest
    BY <1>0 DEF RequestType
  <2> QED
    BY <1>0, <1>1, <1>2, <2>1 DEF RequestFetch, Goto, shelf, alloc, RequestType, AnyRequest
<1>4. n \in 1 .. Len(counter) /\ counter[n] \in Nat /\ n \in Nat
  <2>1. counter \in Seq(Nat) /\ Len(counter) > 0
    BY <1>0, <1>3 DEF RequestType, Asking
  <2> QED
    BY <1>1, <2>1
<1>5. q \in RequestRecord /\ q \in AnyRequest /\ q.id = kreq[k].id /\ q.queue = n
  <2>1. kreq[k] \in RequestRecord
    BY <1>0, <1>3 DEF RequestType, Asking
  <2>2. completed[kreq[k].user] \in Nat
    BY <1>0, <2>1 DEF RequestType, RequestRecord
  <2> QED
    BY <1>2, <1>4, <2>1, <2>2 DEF RequestRecord, AnyRequest
<1>6. /\ kreq'[k] = q /\ pc'[k] = "req_count"
      /\ \A j \in Clerks \ {k} : kreq'[j] = kreq[j] /\ pc'[j] = pc[j]
      /\ kreq' \in [Clerks -> AnyRequest] /\ pc' = [j \in Clerks |-> pc'[j]]
  BY <1>0, <1>3, <1>5 DEF RequestType
<1>7. Len(counter) > 0
  BY <1>0, <1>3 DEF RequestType, Asking
<1>8. RequestType'
  BY <1>0, <1>3, <1>4, <1>5, <1>6, <1>7 DEF RequestType, Asking
<1>9. \A j \in Clerks : kreq'[j].id = kreq[j].id
  BY <1>5, <1>6
<1>10. Distinct'
  BY <1>0, <1>3, <1>9 DEF Distinct
<1> QED
  BY <1>8, <1>10 DEF RequestInv

(* The counter of a queue is set; there are as many as before.             *)
LEMMA CountRequest ==
    ASSUME RequestInv, NEW k \in Clerks, RequestCount(k)
    PROVE  RequestInv'
<1>0. RequestType /\ Distinct
  BY DEF RequestInv
<1>1. PICK q : q = kreq[k].queue
  OBVIOUS
<1>2. PICK n : n = kreq[k].entry + 1
  OBVIOUS
<1>3. /\ pc[k] = "req_count" /\ counter' = [counter EXCEPT ![q] = n]
      /\ pc' = [pc EXCEPT ![k] = "req_push"]
      /\ UNCHANGED <<heap, asked, kreq, completed>>
  BY <1>1, <1>2 DEF RequestCount, Goto, shelf, args
<1>4. q \in 1 .. Len(counter) /\ n \in Nat
  BY <1>0, <1>1, <1>2, <1>3 DEF RequestType, AnyRequest
<1>5. counter' \in Seq(Nat) /\ Len(counter') = Len(counter)
  BY <1>0, <1>3, <1>4, ExceptSeq DEF RequestType
<1>6. /\ pc'[k] = "req_push" /\ pc' = [j \in Clerks |-> pc'[j]]
      /\ \A j \in Clerks \ {k} : pc'[j] = pc[j]
  BY <1>0, <1>3 DEF RequestType
<1>7. RequestType'
  BY <1>0, <1>3, <1>5, <1>6 DEF RequestType, Asking
<1>8. Distinct'
  BY <1>0, <1>3 DEF Distinct
<1> QED
  BY <1>7, <1>8 DEF RequestInv

(* heappush moves a request from a thread to the queue.                    *)
LEMMA PushRequest ==
    ASSUME RequestInv, NEW k \in Clerks, RequestPush(k)
    PROVE  RequestInv'
<1>0. RequestType /\ Distinct
  BY DEF RequestInv
<1>1. PICK q : q = [kreq[k] EXCEPT !.entry = counter[kreq[k].queue]]
  OBVIOUS
<1>2. /\ pc[k] = "req_push" /\ heap' = heap \cup {q}
      /\ kreq' = [kreq EXCEPT ![k] = NoRequest]
      /\ UNCHANGED <<asked, counter, completed>>
  BY <1>1 DEF RequestPush, shelf
<1>3. PICK l \in {"push_sift", "idle"} : pc' = [pc EXCEPT ![k] = l]
  BY DEF RequestPush, HeapCall, Goto
<1>4. kreq[k] \in RequestRecord /\ counter[kreq[k].queue] \in Nat
  BY <1>0, <1>2 DEF RequestType, Asking
<1>5. q \in RequestRecord /\ q.id = kreq[k].id /\ q.id # 0
  BY <1>1, <1>4 DEF RequestRecord, AnyRequest
<1>6. /\ kreq'[k].id = 0 /\ pc'[k] = l
      /\ \A j \in Clerks \ {k} : kreq'[j] = kreq[j] /\ pc'[j] = pc[j]
      /\ kreq' \in [Clerks -> AnyRequest] /\ pc' = [j \in Clerks |-> pc'[j]]
  BY <1>0, <1>2, <1>3, NoRequestType DEF RequestType
<1>7. RequestType'
  <2>1. heap' \subseteq RequestRecord
    BY <1>0, <1>2, <1>5 DEF RequestType
  <2> QED
    BY <1>0, <1>2, <1>6, <2>1 DEF RequestType, Asking
<1>8. Distinct'
  <2>1. \A r \in heap' : r.id <= asked
    BY <1>0, <1>2, <1>5 DEF Distinct, RequestType
  <2>2. \A r, s \in heap' : r.id = s.id => r = s
    BY <1>0, <1>2, <1>5 DEF Distinct
  <2>3. \A r \in heap' : r.id # 0
    BY <1>0, <1>2, <1>5 DEF RequestType, RequestRecord
  <2>4. \A j \in Clerks : kreq'[j].id \in 0 .. asked
    BY <1>0, <1>6 DEF Distinct, RequestType
  <2>5. \A j \in Clerks : \A r \in heap' : kreq'[j].id # r.id
    BY <1>0, <1>2, <1>5, <1>6, <2>3 DEF Distinct
  <2>6. \A j \in Clerks : \A i \in Clerks \ {j} : kreq'[j].id # 0 => kreq'[i].id # kreq'[j].id
    BY <1>0, <1>6 DEF Distinct
  <2> QED
    BY <1>2, <2>1, <2>2, <2>4, <2>5, <2>6 DEF Distinct
<1> QED
  BY <1>7, <1>8 DEF RequestInv

(* heappop moves a request from the queue to one thread.                   *)
LEMMA PopRequest ==
    ASSUME RequestInv, NEW k \in Clerks, NEW r \in heap, heap' = heap \ {r},
           kreq' = [kreq EXCEPT ![k] = r], UNCHANGED <<counter, asked, completed>>,
           NEW l \in {"drop_sift", "drop_issue"}, pc' = [pc EXCEPT ![k] = l]
    PROVE  RequestInv'
<1>0. RequestType /\ Distinct
  BY DEF RequestInv
<1>1. r \in RequestRecord /\ r \in AnyRequest
  BY <1>0 DEF RequestType, RequestRecord
<1>2. /\ kreq'[k] = r /\ pc'[k] = l
      /\ \A j \in Clerks \ {k} : kreq'[j] = kreq[j] /\ pc'[j] = pc[j]
      /\ kreq' \in [Clerks -> AnyRequest] /\ pc' = [j \in Clerks |-> pc'[j]]
  BY <1>0, <1>1 DEF RequestType
<1>3. r.id \in Nat \ {0} /\ r.id <= asked /\ asked \in Nat
  BY <1>0, <1>1 DEF RequestType, RequestRecord, AnyRequest, Distinct
<1>4. \A s \in heap' : s \in heap /\ s.id # r.id
  BY <1>0 DEF Distinct
<1>5. \A j \in Clerks : kreq'[j].id \in 0 .. asked
  BY <1>0, <1>2, <1>3 DEF Distinct
<1>6. \A j \in Clerks : \A s \in heap' : kreq'[j].id # s.id
  BY <1>0, <1>2, <1>4 DEF Distinct
<1>7. \A j \in Clerks : \A i \in Clerks \ {j} : kreq'[j].id # 0 => kreq'[i].id # kreq'[j].id
  BY <1>0, <1>2 DEF Distinct
<1>8. Distinct'
  BY <1>0, <1>4, <1>5, <1>6, <1>7 DEF Distinct
<1>9. RequestType'
  BY <1>0, <1>2, <1>4 DEF RequestType, Asking
<1> QED
  BY <1>8, <1>9 DEF RequestInv

(* One case for each step of a request, and one for the others.            *)
LEMMA NextRequest == RequestInv /\ [Next]_vars => RequestInv'
<1> SUFFICES ASSUME RequestInv, [Next]_vars PROVE RequestInv'
  OBVIOUS
<1> USE DEF shelf, alloc, args, Goto
<1>0. completed \in [Users -> Nat] /\ pc = [k \in Clerks |-> pc[k]]
  BY DEF RequestInv, RequestType
<1>1. ASSUME NEW k \in Clerks,
             NEW l \in {"idle", "drop_pop", "drop_issue", "issue_user", "issue_copy",
                        "issue_loan", "return_copy"},
             UNCHANGED <<heap, counter, asked, kreq>>, completed' \in [Users -> Nat],
             pc' = [pc EXCEPT ![k] = l]
      PROVE  RequestInv'
  <2>1. pc' = [j \in Clerks |-> pc'[j]] /\ \A j \in Clerks : pc'[j] = pc[j] \/ pc'[j] \notin Asking
    BY <1>0, <1>1 DEF Asking
  <2> QED
    BY <1>1, <2>1, KeepRequests
<1>2. ASSUME NEW k \in Clerks, DropLook(k) \/ DropNothing(k) \/ DropSift(k) \/ DropIssue(k)
                               \/ IssueUser(k) \/ IssueCopy(k) \/ RequestSift(k)
      PROVE  RequestInv'
  <2>1. UNCHANGED <<heap, counter, asked, kreq, completed>>
    BY <1>2 DEF DropLook, DropNothing, DropSift, DropIssue, IssueUser, IssueCopy, RequestSift
  <2>2. PICK l \in {"idle", "drop_pop", "drop_issue", "issue_user", "issue_copy", "issue_loan"} :
           pc' = [pc EXCEPT ![k] = l]
    BY <1>2 DEF DropLook, DropNothing, DropSift, DropIssue, IssueUser, IssueCopy, RequestSift
  <2> QED
    BY <1>0, <1>1, <2>1, <2>2
<1>3. ASSUME NEW k \in Clerks, DropPop(k) PROVE RequestInv'
  <2>1. PICK r \in heap : heap' = heap \ {r} /\ kreq' = [kreq EXCEPT ![k] = r]
    BY <1>3 DEF DropPop, Queue
  <2>2. UNCHANGED <<counter, asked, completed>>
    BY <1>3 DEF DropPop
  <2>3. PICK l \in {"drop_sift", "drop_issue"} : pc' = [pc EXCEPT ![k] = l]
    BY <1>3 DEF DropPop, HeapCall
  <2> QED
    BY <2>1, <2>2, <2>3, PopRequest
<1>4. ASSUME NEW k \in Clerks, DropSiftError(k) \/ DropTimeout(k) \/ IssueUserRefused(k)
                               \/ IssueCopyRefused(k) \/ IssueLoan(k) \/ ReturnCopy(k)
      PROVE  RequestInv'
  <2>1. /\ kreq' = [kreq EXCEPT ![k] = NoRequest] /\ pc' = [pc EXCEPT ![k] = "idle"]
        /\ UNCHANGED <<heap, counter, asked, completed>>
    BY <1>4 DEF DropSiftError, DropTimeout, IssueUserRefused, IssueCopyRefused, IssueLoan,
                ReturnCopy, End
  <2> QED
    BY <1>0, <2>1, PutDown
<1>5. ASSUME NEW k \in Clerks, NEW c \in Copies, NEW u \in Users, Issue(k, c, u)
      PROVE  RequestInv'
  <2>1. UNCHANGED <<heap, counter, asked, kreq, completed>> /\ pc' = [pc EXCEPT ![k] = "issue_user"]
    BY <1>5 DEF Issue
  <2> QED
    BY <1>0, <1>1, <2>1
<1>6. ASSUME NEW k \in Clerks, NEW c \in Copies, Return(k, c) PROVE RequestInv'
  <2>1. UNCHANGED <<heap, counter, asked, kreq>> /\ pc' = [pc EXCEPT ![k] = "return_copy"]
    BY <1>6 DEF Return
  <2>2. PICK u : completed' = [completed EXCEPT ![u] = @ + 1]
    BY <1>6 DEF Return
  <2>3. completed' \in [Users -> Nat]
    <3>1. CASE u \in Users
      BY <1>0, <2>2, <3>1
    <3>2. CASE u \notin Users
      <4>1. completed' = completed
        BY <1>0, <2>2, <3>2
      <4> QED
        BY <1>0, <4>1
    <3> QED
      BY <3>1, <3>2
  <2> QED
    BY <1>1, <2>1, <2>3
<1>7. ASSUME NEW k \in Clerks,
             \/ \E u \in Users : RequestLook(k, u)
             \/ RequestCreate(k) \/ RequestFetch(k) \/ RequestCount(k) \/ RequestPush(k)
      PROVE  RequestInv'
  BY <1>7, LookRequest, CreateRequest, FetchRequest, CountRequest, PushRequest
<1>8. CASE (\E u \in Users : ReserveBook(u)) \/ UNCHANGED vars
  <2>1. UNCHANGED <<heap, counter, asked, kreq, completed, pc>>
    BY <1>8 DEF ReserveBook, vars
  <2> QED
    BY <1>0, <2>1, KeepRequests
<1> QED
  BY VisitorsAreUsers, <1>2, <1>3, <1>4, <1>5, <1>6, <1>7, <1>8 DEF Next

(* However many threads run process_smart_allocation_drop at once, none    *)
(* of them serves a request that another one has taken off the queue.      *)
THEOREM ServedOnce == Spec => []RequestServedOnce
<1>1. RequestInv => RequestServedOnce
  BY DEF RequestInv, Distinct, RequestServedOnce
<1> QED
  BY InitRequest, NextRequest, <1>1, PTL DEF Spec

(***************************************************************************)
(* The order of the queue.                                                 *)
(***************************************************************************)
(* What counts of the books returned grows with their number.              *)
LEMMA CountedReturns ==
    ASSUME NEW a \in Nat, NEW b \in Nat, a >= b
    PROVE  /\ Min({100, 10 * a}) \in Nat /\ Min({100, 10 * b}) \in Nat
           /\ Min({100, 10 * a}) >= Min({100, 10 * b})
<1>1. ASSUME NEW x \in Nat PROVE Min({100, x}) = IF x <= 100 THEN x ELSE 100
  <2>1. CASE x <= 100
    BY <2>1 DEF Min
  <2>2. CASE ~ x <= 100
    BY <2>2 DEF Min
  <2> QED
    BY <2>1, <2>2
<1>2. 10 * a \in Nat /\ 10 * b \in Nat /\ 10 * a >= 10 * b
  OBVIOUS
<1> DEFINE x == 10 * a
           y == 10 * b
<1> HIDE DEF x, y
<1>3. x \in Nat /\ y \in Nat /\ x >= y
  BY <1>2 DEF x, y
<1>4. /\ Min({100, x}) = IF x <= 100 THEN x ELSE 100
      /\ Min({100, y}) = IF y <= 100 THEN y ELSE 100
  BY <1>1, <1>3
<1> QED
  BY <1>3, <1>4 DEF x, y

(* A more urgent request has the higher score.                             *)
LEMMA UrgentScore ==
    ASSUME NEW r \in RequestRecord, NEW s \in RequestRecord, MoreUrgent(r, s)
    PROVE  Score(r) \in Nat /\ Score(s) \in Nat /\ Score(r) > Score(s)
<1> DEFINE p == Profile[r.user]
           q == Profile[s.user]
<1>1. r.user \in Users /\ s.user \in Users /\ r.completed \in Nat /\ s.completed \in Nat
  BY DEF RequestRecord, AnyRequest
<1>2. /\ p.student /\ q.student /\ p.exam # None /\ q.exam # None
      /\ p.exam <= 3 /\ 7 < q.exam /\ p.year >= q.year /\ r.completed >= s.completed
  BY DEF MoreUrgent
<1>3. p.exam \in Int /\ q.exam \in Int /\ p.year \in 1 .. 4 /\ q.year \in 1 .. 4
  BY <1>1, <1>2, MemoryAssumption
<1>4. Urgency(r.user) \in {90, 100}
  BY <1>2, <1>3 DEF Urgency
<1>5. Urgency(s.user) \in {50, 30, 10}
  BY <1>2, <1>3 DEF Urgency
<1>6. Academic(r.user) = 25 * p.year /\ Academic(s.user) = 25 * q.year
  BY <1>2 DEF Academic
<1>7. /\ Min({100, 10 * r.completed}) \in Nat /\ Min({100, 10 * s.completed}) \in Nat
      /\ Min({100, 10 * r.completed}) >= Min({100, 10 * s.completed})
  BY <1>1, <1>2, CountedReturns
<1> DEFINE x == Min({100, 10 * r.completed})
           y == Min({100, 10 * s.completed})
<1>8. /\ Score(r) = 40 * Urgency(r.user) + 30 * Academic(r.user) + 30 * x
      /\ Score(s) = 40 * Urgency(s.user) + 30 * Academic(s.user) + 30 * y
  BY DEF Score, CalculatePriority
<1>9. x \in Nat /\ y \in Nat /\ x >= y
  BY <1>7
<1>10. p.year \in 1 .. 4 /\ q.year \in 1 .. 4 /\ p.year >= q.year
  BY <1>2, <1>3
<1> HIDE DEF x, y, p, q
<1> QED
  BY <1>4, <1>5, <1>6, <1>8, <1>9, <1>10

(* Whatever the profiles of the users, a drop that has the list to itself  *)
(* never passes over a student with an exam in three days for one whose    *)
(* exam is more than a week away, all else being no better.                *)
THEOREM MostUrgentFirst == Spec => UrgentFirst
<1>1. RequestInv /\ [Next]_vars =>
         [\A s \in heap \ heap' : ~ Unsorted(s.queue) =>
             \A r \in heap' : r.queue = s.queue => ~ MoreUrgent(r, s)]_vars
  <2> SUFFICES ASSUME RequestInv, Next, NEW s \in heap \ heap', ~ Unsorted(s.queue),
                      NEW r \in heap', r.queue = s.queue
               PROVE  ~ MoreUrgent(r, s)
    OBVIOUS
  <2>1. PICK k \in Clerks : DropPop(k)
    BY DEF Next, DropLook, DropSift, DropSiftError, DropNothing, DropIssue, DropTimeout,
           IssueUser, IssueUserRefused, IssueCopy, IssueCopyRefused, IssueLoan, ReturnCopy,
           Return, Issue, RequestLook, AskedBy, RequestCreate, RequestFetch, RequestCount,
           RequestPush, RequestSift, ReserveBook, End, alloc
  <2>2. PICK x \in Queue(kqueue[k]) : (Unsorted(kqueue[k]) \/ Top(x)) /\ heap' = heap \ {x}
    BY <2>1 DEF DropPop
  <2>3. x = s /\ s.queue = kqueue[k] /\ r \in Queue(s.queue)
    BY <2>2 DEF Queue
  <2>4. Top(s) /\ r \in RequestRecord /\ s \in RequestRecord
    BY <2>2, <2>3 DEF RequestInv, RequestType, Queue
  <2>5. ~ Before(r, s)
    BY <2>3, <2>4 DEF Top
  <2> QED
    BY <2>4, <2>5, UrgentScore DEF Before
<1> QED
  BY InitRequest, NextRequest, <1>1, PTL DEF Spec, UrgentFirst

(***************************************************************************)
(* The threads: who is inside a section holds the mutex of its copy.       *)
(***************************************************************************)
Inside(k) == pc[k] \in {"issue_user", "issue_copy", "issue_loan", "return_copy"}

Handling ==
    {"drop_pop", "drop_sift", "drop_issue", "issue_user", "issue_copy", "issue_loan", "return_copy"}
Labels == {"idle", "push_sift"} \cup Asking \cup Handling

ThreadInv ==
    /\ pc \in [Clerks -> Labels]
    /\ kcopy = [k \in Clerks |-> kcopy[k]]
    /\ kuser = [k \in Clerks |-> kuser[k]]
    /\ mutex = [c \in Copies |-> mutex[c]]
    /\ \A k \in Clerks :
          /\ pc[k] \in Handling => kcopy[k] \in Copies
          /\ Inside(k) => mutex[kcopy[k]] = k
          /\ pc[k] \in {"drop_sift", "drop_issue", "issue_user", "issue_copy", "issue_loan"} =>
                kuser[k] \in Users

(* No thread is under way at the start.                                    *)
LEMMA InitThread == Init => ThreadInv
BY DEF Init, ThreadInv, Inside, Labels, Handling

(* A request that a thread makes has nothing to do with copies and users.  *)
RequestStep(k) ==
    \/ \E u \in Users : RequestLook(k, u)
    \/ RequestCreate(k) \/ RequestFetch(k) \/ RequestCount(k) \/ RequestPush(k)
    \/ RequestSift(k)

(* The steps of a request change neither the shelf nor the mutexes, and    *)
(* lead through labels of their own.                                       *)
LEMMA RequestQuiet ==
    ASSUME NEW k \in Clerks, RequestStep(k)
    PROVE  /\ UNCHANGED <<copies, loans, mutex, kcopy, kuser, waitlist>>
           /\ pc[k] \in {"idle", "push_sift"} \cup Asking
           /\ \E l \in {"idle", "push_sift"} \cup Asking : pc' = [pc EXCEPT ![k] = l]
<1> USE DEF shelf, alloc, args, Goto, Asking
<1>1. CASE \E u \in Users : RequestLook(k, u)
  BY <1>1 DEF RequestLook, AskedBy
<1>2. CASE RequestCreate(k) \/ RequestFetch(k) \/ RequestCount(k) \/ RequestSift(k)
  BY <1>2 DEF RequestCreate, RequestFetch, RequestCount, RequestSift
<1>3. CASE RequestPush(k)
  BY <1>3 DEF RequestPush, HeapCall
<1> QED
  BY <1>1, <1>2, <1>3 DEF RequestStep

(* End lets go of what the thread has and of nothing else.                 *)
LEMMA EndThread ==
    ASSUME ThreadInv, NEW k \in Clerks, End(k)
    PROVE  /\ ThreadInv'
           /\ pc'[k] = "idle"
           /\ \A j \in Clerks \ {k} :
                 pc'[j] = pc[j] /\ kcopy'[j] = kcopy[j] /\ kuser'[j] = kuser[j]
<1>1. /\ pc' = [pc EXCEPT ![k] = "idle"]
      /\ kcopy' = [kcopy EXCEPT ![k] = None]
      /\ kuser' = [kuser EXCEPT ![k] = None]
      /\ mutex' = [c \in Copies |-> IF mutex[c] = k THEN None ELSE mutex[c]]
  BY DEF End, Goto
<1>2. /\ pc'[k] = "idle"
      /\ \A j \in Clerks \ {k} :
            pc'[j] = pc[j] /\ kcopy'[j] = kcopy[j] /\ kuser'[j] = kuser[j]
  BY <1>1 DEF ThreadInv, Labels, Handling
<1>3. /\ pc' \in [Clerks -> Labels]
      /\ kcopy' = [j \in Clerks |-> kcopy'[j]]
      /\ kuser' = [j \in Clerks |-> kuser'[j]]
  BY <1>1 DEF ThreadInv, Labels, Handling
<1>4. mutex' = [c \in Copies |-> mutex'[c]]
  BY <1>1
<1>5. \A j \in Clerks \ {k} : Inside(j) => mutex'[kcopy[j]] = j
  BY <1>1 DEF ThreadInv, Labels, Handling, Inside
<1> QED
  BY <1>2, <1>3, <1>4, <1>5 DEF ThreadInv, Labels, Handling, Inside

(* A thread goes on with the copy and the mutex it has.                    *)
LEMMA StepThread ==
    ASSUME ThreadInv, NEW k \in Clerks, UNCHANGED <<kcopy, kuser, mutex>>,
           \/ pc[k] = "issue_user" /\ pc' = [pc EXCEPT ![k] = "issue_copy"]
           \/ pc[k] = "issue_copy" /\ pc' = [pc EXCEPT ![k] = "issue_loan"]
    PROVE  ThreadInv'
<1>1. /\ pc' \in [Clerks -> Labels]
      /\ pc[k] \in {"issue_user", "issue_copy"} /\ pc'[k] \in {"issue_copy", "issue_loan"}
      /\ \A j \in Clerks \ {k} : pc'[j] = pc[j]
  BY DEF ThreadInv, Labels, Handling
<1> QED
  BY <1>1 DEF ThreadInv, Labels, Handling, Inside

(* A thread enters the section of a copy that nobody holds.                *)
LEMMA EnterThread ==
    ASSUME ThreadInv, NEW k \in Clerks, NEW c \in Copies, ~ Inside(k), Acquire(k, c),
           kcopy' = [kcopy EXCEPT ![k] = c], kuser' = [kuser EXCEPT ![k] = kuser'[k]],
           NEW l \in {"issue_user", "return_copy"}, pc' = [pc EXCEPT ![k] = l],
           l = "issue_user" => kuser'[k] \in Users
    PROVE  /\ ThreadInv'
           /\ pc'[k] = l /\ kcopy'[k] = c
           /\ \A j \in Clerks \ {k} :
                 /\ pc'[j] = pc[j] /\ kcopy'[j] = kcopy[j] /\ kuser'[j] = kuser[j]
                 /\ Inside(j) => kcopy[j] # c
<1>1. /\ pc'[k] = l /\ kcopy'[k] = c
      /\ \A j \in Clerks \ {k} :
            pc'[j] = pc[j] /\ kcopy'[j] = kcopy[j] /\ kuser'[j] = kuser[j]
  BY DEF ThreadInv, Labels, Handling
<1>2. /\ pc' \in [Clerks -> Labels]
      /\ kcopy' = [j \in Clerks |-> kcopy'[j]]
  BY DEF ThreadInv, Labels, Handling
<1>3. kuser' = [j \in Clerks |-> kuser'[j]]
  BY DEF ThreadInv, Labels, Handling
<1>4. mutex[c] = None /\ mutex'[c] = k /\ mutex' = [d \in Copies |-> mutex'[d]]
      /\ \A d \in Copies \ {c} : mutex'[d] = mutex[d]
  BY DEF ThreadInv, Labels, Handling, Acquire
<1>5. \A j \in Clerks \ {k} : Inside(j) => kcopy[j] # c /\ kcopy[j] \in Copies
  BY <1>4, MemoryAssumption DEF ThreadInv, Labels, Handling, Inside
<1>6. \A j \in Clerks \ {k} : Inside(j) => mutex'[kcopy[j]] = j
  BY <1>4, <1>5 DEF ThreadInv, Labels, Handling
<1> QED
  BY <1>1, <1>2, <1>3, <1>4, <1>5, <1>6 DEF ThreadInv, Labels, Handling, Inside

(* A thread that is inside its critical section holds the mutex of its     *)
(* copy.                                                                   *)
LEMMA NextThread == RequestInv /\ ThreadInv /\ [Next]_vars => ThreadInv'
<1> SUFFICES ASSUME RequestInv, ThreadInv, [Next]_vars PROVE ThreadInv'
  OBVIOUS
<1> USE DEF shelf, alloc, args, Goto
<1>1. ASSUME NEW k \in Clerks, DropLook(k) PROVE ThreadInv'
  <2> DEFINE c == Min(Available)
  <2>1. c \in Copies
    <3>1. Available \subseteq Copies /\ Available \subseteq Nat /\ Available # {}
      BY <1>1 DEF DropLook, Available, Copies
    <3> QED
      BY <3>1, LeastNat
  <2>2. pc' = [pc EXCEPT ![k] = "drop_pop"] /\ kcopy' = [kcopy EXCEPT ![k] = c]
        /\ UNCHANGED <<kuser, mutex>>
    BY <1>1 DEF DropLook
  <2> HIDE DEF c
  <2> QED
    BY <2>1, <2>2 DEF ThreadInv, Labels, Handling, Inside
<1>2. ASSUME NEW k \in Clerks, DropPop(k) PROVE ThreadInv'
  <2>1. PICK r \in heap : kuser' = [kuser EXCEPT ![k] = r.user]
    BY <1>2 DEF DropPop, Queue
  <2>2. r.user \in Users
    BY <2>1 DEF RequestInv, RequestType, RequestRecord
  <2>3. pc[k] = "drop_pop" /\ UNCHANGED <<kcopy, mutex>>
        /\ \E l \in {"drop_sift", "drop_issue"} : pc' = [pc EXCEPT ![k] = l]
    BY <1>2 DEF DropPop, HeapCall
  <2>4. pc'[k] \in {"drop_sift", "drop_issue"} /\ kuser'[k] \in Users
        /\ \A j \in Clerks \ {k} : pc'[j] = pc[j] /\ kuser'[j] = kuser[j]
    BY <2>1, <2>2, <2>3 DEF ThreadInv, Labels, Handling
  <2>5. /\ pc' \in [Clerks -> Labels]
        /\ kuser' = [j \in Clerks |-> kuser'[j]]
    BY <2>1, <2>3 DEF ThreadInv, Labels, Handling
  <2> QED
    BY <2>3, <2>4, <2>5 DEF ThreadInv, Labels, Handling, Inside
<1>0. ASSUME NEW k \in Clerks, DropSift(k) PROVE ThreadInv'
  <2>1. pc[k] = "drop_sift" /\ pc' = [pc EXCEPT ![k] = "drop_issue"]
        /\ UNCHANGED <<kcopy, kuser, mutex>>
    BY <1>0 DEF DropSift
  <2> QED
    BY <2>1 DEF ThreadInv, Labels, Handling, Inside
<1>3. ASSUME NEW k \in Clerks, DropNothing(k) PROVE ThreadInv'
  <2>1. pc' = [pc EXCEPT ![k] = "idle"] /\ kcopy' = [kcopy EXCEPT ![k] = None]
        /\ UNCHANGED <<kuser, mutex>>
    BY <1>3 DEF DropNothing
  <2> QED
    BY <2>1 DEF ThreadInv, Labels, Handling, Inside
<1>4. ASSUME NEW k \in Clerks, DropIssue(k) PROVE ThreadInv'
  <2>1. PICK c : c = kcopy[k]
    OBVIOUS
  <2>2. pc[k] = "drop_issue" /\ pc' = [pc EXCEPT ![k] = "issue_user"] /\ Acquire(k, c)
        /\ UNCHANGED <<kcopy, kuser>>
    BY <1>4, <2>1 DEF DropIssue
  <2>3. c \in Copies /\ ~ Inside(k) /\ kuser'[k] \in Users
        /\ kcopy' = [kcopy EXCEPT ![k] = c] /\ kuser' = [kuser EXCEPT ![k] = kuser'[k]]
    BY <2>1, <2>2 DEF ThreadInv, Labels, Handling, Inside
  <2> QED
    BY <2>2, <2>3, EnterThread
<1>5. ASSUME NEW k \in Clerks, IssueUser(k) \/ IssueCopy(k) PROVE ThreadInv'
  BY <1>5, StepThread DEF IssueUser, IssueCopy
<1>6. ASSUME NEW k \in Clerks, DropSiftError(k) \/ DropTimeout(k) \/ IssueUserRefused(k) \/ IssueCopyRefused(k)
                               \/ IssueLoan(k) \/ ReturnCopy(k)
      PROVE  ThreadInv'
  <2>1. End(k)
    BY <1>6 DEF DropSiftError, DropTimeout, IssueUserRefused, IssueCopyRefused, IssueLoan, ReturnCopy
  <2> QED
    BY <2>1, EndThread
<1>7. ASSUME NEW k \in Clerks, NEW c \in Copies, NEW u \in Users, Issue(k, c, u)
      PROVE  ThreadInv'
  <2>1. pc[k] = "idle" /\ pc' = [pc EXCEPT ![k] = "issue_user"] /\ Acquire(k, c)
        /\ kcopy' = [kcopy EXCEPT ![k] = c] /\ kuser' = [kuser EXCEPT ![k] = u]
    BY <1>7 DEF Issue
  <2>2. ~ Inside(k) /\ kuser'[k] \in Users /\ kuser' = [kuser EXCEPT ![k] = kuser'[k]]
    BY <2>1 DEF ThreadInv, Labels, Handling, Inside
  <2> QED
    BY <2>1, <2>2, EnterThread
<1>8. ASSUME NEW k \in Clerks, NEW c \in Copies, Return(k, c) PROVE ThreadInv'
  <2>1. pc[k] = "idle" /\ pc' = [pc EXCEPT ![k] = "return_copy"] /\ Acquire(k, c)
        /\ kcopy' = [kcopy EXCEPT ![k] = c] /\ kuser' = kuser
    BY <1>8 DEF Return
  <2>2. ~ Inside(k) /\ kuser' = [kuser EXCEPT ![k] = kuser'[k]]
    BY <2>1 DEF ThreadInv, Labels, Handling, Inside
  <2> QED
    BY <2>1, <2>2, EnterThread
<1>9. ASSUME UNCHANGED <<pc, kcopy, kuser, mutex>> PROVE ThreadInv'
  BY <1>9 DEF ThreadInv, Labels, Handling, Inside
<1>10. ASSUME NEW u \in Users, ReserveBook(u) PROVE ThreadInv'
  BY <1>9, <1>10 DEF ReserveBook
<1>12. ASSUME NEW k \in Clerks, RequestStep(k) PROVE ThreadInv'
  <2>1. UNCHANGED <<mutex, kcopy, kuser>> /\ pc[k] \in {"idle", "push_sift"} \cup Asking
    BY <1>12, RequestQuiet
  <2>2. PICK l \in {"idle", "push_sift"} \cup Asking : pc' = [pc EXCEPT ![k] = l]
    BY <1>12, RequestQuiet
  <2>3. /\ l \in Labels /\ l \notin Handling
        /\ l \notin {"drop_sift", "drop_issue", "issue_user", "issue_copy", "issue_loan", "return_copy"}
    BY DEF Labels, Handling, Asking
  <2>4. pc' \in [Clerks -> Labels] /\ pc'[k] = l /\ \A j \in Clerks \ {k} : pc'[j] = pc[j]
    BY <2>2, <2>3 DEF ThreadInv
  <2> QED
    BY <2>1, <2>3, <2>4 DEF ThreadInv, Inside
<1>11. CASE UNCHANGED vars
  BY <1>9, <1>11 DEF vars
<1> QED
  BY VisitorsAreUsers, <1>0, <1>1, <1>2, <1>3, <1>4, <1>5, <1>6, <1>7, <1>8, <1>10, <1>11, <1>12
     DEF Next, RequestStep

(***************************************************************************)
(* The shelf.  A copy in the middle of an issue has its borrower and is in *)
(* nobody's loans yet; one in the middle of a return is issued still and   *)
(* in nobody's loans any more; all the others agree with the loans.        *)
(***************************************************************************)
Midway(k) == pc[k] \in {"issue_loan", "return_copy"}
InNoLoans(c) == \A u \in Users : c \notin loans[u]

IsCopy(x) ==
    /\ x \in BookCopy
    /\ x.borrower # None <=> x.status = "ISSUED"

ShelfInv ==
    /\ copies = [c \in Copies |-> copies[c]]
    /\ loans \in [Users -> SUBSET Copies]
    /\ \A c \in Copies : IsCopy(copies[c])
    /\ \A k \in Clerks :
          /\ pc[k] = "issue_loan" => copies[kcopy[k]].borrower = kuser[k]
          /\ pc[k] = "return_copy" => copies[kcopy[k]].status = "ISSUED"
          /\ Midway(k) => InNoLoans(kcopy[k])
    /\ \A c \in Copies :
          \/ \E k \in Clerks : Midway(k) /\ kcopy[k] = c
          \/ \A u \in Users : c \in loans[u] <=> copies[c].borrower = u

(* All copies are on the shelf at the start.                               *)
LEMMA InitShelf == Init => ShelfInv
<1> SUFFICES ASSUME Init PROVE ShelfInv
  OBVIOUS
<1>1. \A c \in Copies : copies[c] = NewCopy(Home)
  BY DEF Init
<1>2. IsCopy(NewCopy(Home)) /\ NewCopy(Home).borrower = None
  <2>1. Home \in Branches
    BY MemoryAssumption DEF Home
  <2> QED
    BY <2>1 DEF IsCopy, NewCopy, BookCopy, BookStatus
<1>3. \A k \in Clerks : pc[k] = "idle"
  BY DEF Init
<1>4. copies = [c \in Copies |-> copies[c]] /\ loans \in [Users -> SUBSET Copies]
      /\ \A u \in Users : loans[u] = {}
  BY DEF Init
<1>5. \A c \in Copies : \A u \in Users : c \in loans[u] <=> copies[c].borrower = u
  BY <1>1, <1>2, <1>4, NoneAssumption
<1> QED
  BY <1>1, <1>2, <1>3, <1>4, <1>5 DEF ShelfInv, Midway

(* The reservation queue holds users.                                      *)
WaitlistOK == waitlist \in Seq(Users)

(* The waiting list consists of users.                                     *)
LEMMA WaitlistType == Spec => []WaitlistOK
<1>1. Init => WaitlistOK
  BY DEF Init, WaitlistOK
<1>2. WaitlistOK /\ [Next]_vars => WaitlistOK'
  <2> SUFFICES ASSUME waitlist \in Seq(Users), [Next]_vars PROVE waitlist' \in Seq(Users)
    BY DEF WaitlistOK
  <2>1. ASSUME NEW u \in Users, ReserveBook(u) PROVE waitlist' \in Seq(Users)
    BY <2>1 DEF ReserveBook
  <2>2. ASSUME NEW k \in Clerks, ReturnCopy(k) PROVE waitlist' \in Seq(Users)
    BY <2>2 DEF ReturnCopy
  <2>3. waitlist' = waitlist \/ (\E k \in Clerks : ReturnCopy(k))
                            \/ (\E u \in Users : ReserveBook(u))
    <3>1. ASSUME NEW k \in Clerks, RequestStep(k) PROVE waitlist' = waitlist
      BY <3>1, RequestQuiet
    <3> QED
      BY VisitorsAreUsers, <3>1
             DEF  Next, vars, RequestStep, DropLook, DropPop, DropSift, DropSiftError,
                  DropNothing, DropIssue, DropTimeout, IssueUser, IssueUserRefused, IssueCopy,
                  IssueCopyRefused, IssueLoan, Return, Issue
  <2> QED
    BY <2>1, <2>2, <2>3
<1> QED
  BY <1>1, <1>2, PTL DEF Spec

(* Only one thread is inside the section of a copy.                        *)
LEMMA InsideAlone ==
    ASSUME ThreadInv, NEW k \in Clerks, NEW j \in Clerks, Inside(k), Inside(j),
           kcopy[k] = kcopy[j]
    PROVE  k = j
BY DEF ThreadInv, Labels, Handling

(* Steps that touch neither the copies nor the loans, and take no thread   *)
(* into or out of the middle.                                              *)
LEMMA QuietShelf ==
    ASSUME ShelfInv, UNCHANGED <<copies, loans>>,
           \A j \in Clerks :
              /\ Midway(j)' = Midway(j)
              /\ Midway(j) => pc'[j] = pc[j] /\ kcopy'[j] = kcopy[j] /\ kuser'[j] = kuser[j]
    PROVE  ShelfInv'
<1>1. \A j \in Clerks : pc'[j] \in {"issue_loan", "return_copy"} =>
         Midway(j) /\ pc'[j] = pc[j] /\ kcopy'[j] = kcopy[j] /\ kuser'[j] = kuser[j]
  BY DEF Midway
<1>2. \A c : InNoLoans(c)' = InNoLoans(c)
  BY DEF InNoLoans
<1>3. \A c \in Copies : IsCopy(copies'[c])
  BY DEF ShelfInv
<1>4. \A k \in Clerks :
          /\ pc'[k] = "issue_loan" => copies'[kcopy'[k]].borrower = kuser'[k]
          /\ pc'[k] = "return_copy" => copies'[kcopy'[k]].status = "ISSUED"
          /\ Midway(k)' => InNoLoans(kcopy[k])' /\ kcopy'[k] = kcopy[k]
  BY <1>1, <1>2 DEF ShelfInv
<1>5. \A c \in Copies :
          \/ \E k \in Clerks : Midway(k)' /\ kcopy'[k] = c
          \/ \A u \in Users : c \in loans'[u] <=> copies'[c].borrower = u
  BY DEF ShelfInv
<1>6. \A k \in Clerks : Midway(k)' => InNoLoans(kcopy[k])'
                                    /\ \A u \in Users : kcopy'[k] \notin loans'[u]
  BY <1>4 DEF InNoLoans
<1> QED
  BY <1>3, <1>4, <1>5, <1>6 DEF ShelfInv, InNoLoans

(* check_out sets the borrower of a copy that nobody had.                  *)
LEMMA IssueCopyShelf ==
    ASSUME ThreadInv, ShelfInv, NEW k \in Clerks, IssueCopy(k)
    PROVE  ShelfInv'
<1>1. PICK c : c = kcopy[k]
  OBVIOUS
<1>2. PICK u : u = kuser[k]
  OBVIOUS
<1>3. /\ pc[k] = "issue_copy" /\ pc' = [pc EXCEPT ![k] = "issue_loan"]
      /\ Issuable(copies[c], u) /\ copies' = [copies EXCEPT ![c] = CheckOut(copies[c], u)]
      /\ UNCHANGED <<loans, kcopy, kuser>> /\ c \in Copies /\ u \in Users
  BY <1>1, <1>2 DEF IssueCopy, Goto, args, ThreadInv, Labels, Handling
<1>4. copies[c].borrower = None
  BY <1>3 DEF ShelfInv, IsCopy, Issuable
<1>5. \A j \in Clerks \ {k} : Inside(j) => kcopy[j] # c
  BY <1>1, <1>3, InsideAlone DEF Inside
<1>6. \A j \in Clerks : Midway(j) => kcopy[j] # c
  BY <1>3, <1>5 DEF Midway, Inside
<1>7. InNoLoans(c)
  BY <1>3, <1>4, <1>6, NoneAssumption DEF ShelfInv, InNoLoans
<1>8. /\ IsCopy(copies'[c]) /\ copies'[c].borrower = u
      /\ \A d \in Copies \ {c} : copies'[d] = copies[d]
      /\ copies' = [d \in Copies |-> copies'[d]]
  <2>1. IsCopy(CheckOut(copies[c], u)) /\ CheckOut(copies[c], u).borrower = u
    <3>1. PICK x : x = copies[c]
      OBVIOUS
    <3>2. IsCopy(x)
      BY <1>3, <3>1 DEF ShelfInv
    <3>3. IsCopy(CheckOut(x, u)) /\ CheckOut(x, u).borrower = u
      <4>1. CheckOut(x, u) \in BookCopy
        BY <1>3, <3>2 DEF IsCopy, CheckOut, BookCopy, BookStatus
      <4>2. CheckOut(x, u).borrower = u /\ CheckOut(x, u).status = "ISSUED" /\ u # None
        BY <1>3, <3>2, NoneAssumption DEF IsCopy, CheckOut, BookCopy
      <4> QED
        BY <4>1, <4>2 DEF IsCopy
    <3> QED
      BY <3>1, <3>3
  <2> QED
    BY <1>3, <2>1 DEF ShelfInv
<1>9. pc'[k] = "issue_loan" /\ \A j \in Clerks \ {k} : pc'[j] = pc[j]
  BY <1>3 DEF ThreadInv, Labels, Handling
<1>10. \A d \in Copies : IsCopy(copies'[d])
  BY <1>8 DEF ShelfInv
<1>11. \A j \in Clerks :
          /\ pc'[j] = "issue_loan" => copies'[kcopy'[j]].borrower = kuser'[j]
          /\ pc'[j] = "return_copy" => copies'[kcopy'[j]].status = "ISSUED"
          /\ Midway(j)' => InNoLoans(kcopy[j])
  <2> SUFFICES ASSUME NEW j \in Clerks, Midway(j)'
      PROVE /\ pc'[j] = "issue_loan" => copies'[kcopy'[j]].borrower = kuser'[j]
            /\ pc'[j] = "return_copy" => copies'[kcopy'[j]].status = "ISSUED"
            /\ InNoLoans(kcopy[j])
    BY DEF Midway
  <2>1. CASE j = k
    BY <1>1, <1>2, <1>3, <1>7, <1>8, <1>9, <2>1
  <2>2. CASE j # k
    <3>1. Midway(j) /\ pc'[j] = pc[j] /\ kcopy[j] # c /\ kcopy[j] \in Copies
      BY <1>6, <1>9, <2>2 DEF Midway, ThreadInv, Labels, Handling
    <3>2. copies'[kcopy[j]] = copies[kcopy[j]]
      BY <1>8, <3>1
    <3> QED
      BY <1>3, <3>1, <3>2 DEF ShelfInv
  <2> QED
    BY <2>1, <2>2
<1>12. \A d \in Copies :
          \/ \E j \in Clerks : Midway(j)' /\ kcopy'[j] = d
          \/ \A v \in Users : d \in loans'[v] <=> copies'[d].borrower = v
  <2> SUFFICES ASSUME NEW d \in Copies
      PROVE \/ \E j \in Clerks : Midway(j)' /\ kcopy'[j] = d
            \/ \A v \in Users : d \in loans'[v] <=> copies'[d].borrower = v
    OBVIOUS
  <2>1. CASE d = c
    BY <1>1, <1>3, <1>9, <2>1 DEF Midway
  <2>2. CASE d # c
    <3>1. \A j \in Clerks : Midway(j) => Midway(j)'
      BY <1>3, <1>9 DEF Midway
    <3> QED
      BY <1>3, <1>8, <2>2, <3>1 DEF ShelfInv
  <2> QED
    BY <2>1, <2>2
<1> QED
  BY <1>3, <1>8, <1>10, <1>11, <1>12 DEF ShelfInv, InNoLoans

(* The loan is entered: the copy agrees again.                             *)
LEMMA IssueLoanShelf ==
    ASSUME ThreadInv, ShelfInv, NEW k \in Clerks, IssueLoan(k)
    PROVE  ShelfInv'
<1>1. PICK c : c = kcopy[k]
  OBVIOUS
<1>2. PICK u : u = kuser[k]
  OBVIOUS
<1>3. /\ pc[k] = "issue_loan" /\ End(k) /\ copies' = copies
      /\ loans' = [loans EXCEPT ![u] = @ \cup {c}] /\ c \in Copies /\ u \in Users
  BY <1>1, <1>2 DEF IssueLoan, ThreadInv, Labels, Handling
<1>4. /\ pc'[k] = "idle"
      /\ \A j \in Clerks \ {k} :
            pc'[j] = pc[j] /\ kcopy'[j] = kcopy[j] /\ kuser'[j] = kuser[j]
  BY <1>3, EndThread
<1>5. \A j \in Clerks \ {k} : Inside(j) => kcopy[j] # c
  BY <1>1, <1>3, InsideAlone DEF Inside
<1>6. copies[c].borrower = u /\ InNoLoans(c)
  BY <1>1, <1>2, <1>3 DEF ShelfInv, Midway
<1>7. /\ loans' \in [Users -> SUBSET Copies]
      /\ \A v \in Users : c \in loans'[v] <=> v = u
      /\ \A v \in Users : \A d \in Copies \ {c} : d \in loans'[v] <=> d \in loans[v]
  BY <1>3, <1>6 DEF ShelfInv, InNoLoans
<1>8. \A j \in Clerks : Midway(j)' =>
         /\ j # k /\ Midway(j) /\ pc'[j] = pc[j] /\ kcopy'[j] = kcopy[j] /\ kuser'[j] = kuser[j]
         /\ kcopy[j] \in Copies \ {c}
  BY <1>4, <1>5 DEF Midway, Inside, ThreadInv, Labels, Handling
<1>9. \A j \in Clerks :
          /\ pc'[j] = "issue_loan" => copies'[kcopy'[j]].borrower = kuser'[j]
          /\ pc'[j] = "return_copy" => copies'[kcopy'[j]].status = "ISSUED"
  BY <1>3, <1>8 DEF ShelfInv, Midway
<1>10. \A j \in Clerks : Midway(j)' => \A v \in Users : kcopy'[j] \notin loans'[v]
  BY <1>7, <1>8 DEF ShelfInv, InNoLoans
<1>11. \A d \in Copies :
          \/ \E j \in Clerks : Midway(j)' /\ kcopy'[j] = d
          \/ \A v \in Users : d \in loans'[v] <=> copies'[d].borrower = v
  <2> SUFFICES ASSUME NEW d \in Copies
      PROVE \/ \E j \in Clerks : Midway(j)' /\ kcopy'[j] = d
            \/ \A v \in Users : d \in loans'[v] <=> copies'[d].borrower = v
    OBVIOUS
  <2>1. CASE d = c
    BY <1>3, <1>6, <1>7, <2>1
  <2>2. CASE d # c
    <3>1. \A j \in Clerks : Midway(j) /\ kcopy[j] = d => Midway(j)' /\ kcopy'[j] = d
      BY <1>1, <1>4, <2>2 DEF Midway
    <3> QED
      BY <1>3, <1>7, <2>2, <3>1 DEF ShelfInv
  <2> QED
    BY <2>1, <2>2
<1> QED
  BY <1>3, <1>7, <1>9, <1>10, <1>11 DEF ShelfInv, InNoLoans

(* record_return forgets the loan of the copy's borrower.                  *)
LEMMA ReturnShelf ==
    ASSUME ThreadInv, ShelfInv, NEW k \in Clerks, NEW c \in Copies, Return(k, c)
    PROVE  ShelfInv'
<1>1. PICK u : u = copies[c].borrower
  OBVIOUS
<1>2. /\ pc[k] = "idle" /\ u # None /\ Acquire(k, c) /\ copies' = copies
      /\ loans' = [loans EXCEPT ![u] = @ \ {c}]
      /\ kcopy' = [kcopy EXCEPT ![k] = c] /\ kuser' = kuser
      /\ pc' = [pc EXCEPT ![k] = "return_copy"]
  BY <1>1 DEF Return, Goto
<1>3. ~ Inside(k) /\ kuser' = [kuser EXCEPT ![k] = kuser'[k]]
  BY <1>2 DEF ThreadInv, Labels, Handling, Inside
<1>4. /\ pc'[k] = "return_copy" /\ kcopy'[k] = c
      /\ \A j \in Clerks \ {k} :
            /\ pc'[j] = pc[j] /\ kcopy'[j] = kcopy[j] /\ kuser'[j] = kuser[j]
            /\ Inside(j) => kcopy[j] # c
  BY <1>2, <1>3, EnterThread
<1>5. IsCopy(copies[c]) /\ copies[c].status = "ISSUED" /\ u \in Users
  BY <1>1, <1>2 DEF ShelfInv, IsCopy, BookCopy
<1>6. \A v \in Users : c \in loans[v] <=> v = u
  <2>1. \A j \in Clerks : ~ (Midway(j) /\ kcopy[j] = c)
    BY <1>2, <1>4 DEF Midway, Inside
  <2> QED
    BY <1>1, <2>1 DEF ShelfInv
<1>7. /\ loans' \in [Users -> SUBSET Copies]
      /\ \A v \in Users : c \notin loans'[v]
      /\ \A v \in Users : \A d \in Copies \ {c} : d \in loans'[v] <=> d \in loans[v]
  BY <1>2, <1>5, <1>6 DEF ShelfInv
<1>8. \A j \in Clerks : Midway(j)' /\ j # k =>
         /\ Midway(j) /\ pc'[j] = pc[j] /\ kcopy'[j] = kcopy[j] /\ kuser'[j] = kuser[j]
         /\ kcopy[j] \in Copies \ {c}
  BY <1>4 DEF Midway, Inside, ThreadInv, Labels, Handling
<1>9. \A j \in Clerks :
          /\ pc'[j] = "issue_loan" => copies'[kcopy'[j]].borrower = kuser'[j]
          /\ pc'[j] = "return_copy" => copies'[kcopy'[j]].status = "ISSUED"
  BY <1>2, <1>4, <1>5, <1>8 DEF ShelfInv, Midway
<1>10. \A j \in Clerks : Midway(j)' => \A v \in Users : kcopy'[j] \notin loans'[v]
  BY <1>4, <1>7, <1>8 DEF ShelfInv, InNoLoans
<1>11. \A d \in Copies :
          \/ \E j \in Clerks : Midway(j)' /\ kcopy'[j] = d
          \/ \A v \in Users : d \in loans'[v] <=> copies'[d].borrower = v
  <2> SUFFICES ASSUME NEW d \in Copies
      PROVE \/ \E j \in Clerks : Midway(j)' /\ kcopy'[j] = d
            \/ \A v \in Users : d \in loans'[v] <=> copies'[d].borrower = v
    OBVIOUS
  <2>1. CASE d = c
    BY <1>4, <2>1 DEF Midway
  <2>2. CASE d # c
    <3>1. \A j \in Clerks : Midway(j) /\ kcopy[j] = d => Midway(j)' /\ kcopy'[j] = d
      BY <1>2, <1>4 DEF Midway
    <3> QED
      BY <1>2, <1>7, <2>2, <3>1 DEF ShelfInv
  <2> QED
    BY <2>1, <2>2
<1> QED
  BY <1>2, <1>7, <1>9, <1>10, <1>11 DEF ShelfInv, InNoLoans

(* return_book forgets the borrower: the copy agrees again.                *)
LEMMA ReturnCopyShelf ==
    ASSUME ThreadInv, ShelfInv, waitlist \in Seq(Users), NEW k \in Clerks, ReturnCopy(k)
    PROVE  ShelfInv'
<1>1. PICK c : c = kcopy[k]
  OBVIOUS
<1>2. PICK x : x = copies[c]
  OBVIOUS
<1>3. PICK y : y = IF waitlist = <<>> THEN ReturnBook(x)
                   ELSE Reserve(ReturnBook(x), Head(waitlist))
  OBVIOUS
<1>4. /\ pc[k] = "return_copy" /\ End(k) /\ loans' = loans
      /\ copies' = [copies EXCEPT ![c] = y] /\ c \in Copies
  BY <1>1, <1>2, <1>3 DEF ReturnCopy, ThreadInv, Labels, Handling
<1>5. x.status = "ISSUED" /\ IsCopy(x) /\ InNoLoans(c)
  BY <1>1, <1>2, <1>4 DEF ShelfInv, Midway
<1>6. IsCopy(y) /\ y.borrower = None
  <2>1. IsCopy(ReturnBook(x)) /\ ReturnBook(x).borrower = None
    BY <1>5 DEF IsCopy, ReturnBook, BookCopy, BookStatus
  <2>2. PICK z : z = ReturnBook(x)
    OBVIOUS
  <2>3. PICK h : h = Head(waitlist)
    OBVIOUS
  <2>4. ASSUME waitlist # <<>> PROVE IsCopy(Reserve(z, h)) /\ Reserve(z, h).borrower = None
    <3>1. h \in Users
      BY <2>3, <2>4
    <3>2. z \in BookCopy /\ z.borrower = None
      BY <2>1, <2>2 DEF IsCopy
    <3>3. /\ Reserve(z, h) \in BookCopy /\ Reserve(z, h).borrower = None
          /\ Reserve(z, h).status = "RESERVED"
      BY <3>1, <3>2 DEF Reserve, BookCopy, BookStatus
    <3> QED
      BY <3>3 DEF IsCopy
  <2> QED
    BY <1>3, <2>1, <2>2, <2>3, <2>4
<1>7. copies'[c] = y /\ copies' = [d \in Copies |-> copies'[d]]
      /\ \A d \in Copies \ {c} : copies'[d] = copies[d]
  BY <1>4 DEF ShelfInv
<1>8. /\ pc'[k] = "idle"
      /\ \A j \in Clerks \ {k} :
            pc'[j] = pc[j] /\ kcopy'[j] = kcopy[j] /\ kuser'[j] = kuser[j]
  BY <1>4, EndThread
<1>9. \A j \in Clerks \ {k} : Inside(j) => kcopy[j] # c
  BY <1>1, <1>4, InsideAlone DEF Inside
<1>10. \A j \in Clerks : Midway(j)' =>
         /\ j # k /\ Midway(j) /\ pc'[j] = pc[j] /\ kcopy'[j] = kcopy[j] /\ kuser'[j] = kuser[j]
         /\ kcopy[j] \in Copies \ {c}
  BY <1>8, <1>9 DEF Midway, Inside, ThreadInv, Labels, Handling
<1>11. \A j \in Clerks :
          /\ pc'[j] = "issue_loan" => copies'[kcopy'[j]].borrower = kuser'[j]
          /\ pc'[j] = "return_copy" => copies'[kcopy'[j]].status = "ISSUED"
  BY <1>7, <1>10 DEF ShelfInv, Midway
<1>12. \A j \in Clerks : Midway(j)' => \A v \in Users : kcopy'[j] \notin loans'[v]
  BY <1>4, <1>10 DEF ShelfInv, InNoLoans
<1>13. \A d \in Copies :
          \/ \E j \in Clerks : Midway(j)' /\ kcopy'[j] = d
          \/ \A v \in Users : d \in loans'[v] <=> copies'[d].borrower = v
  <2> SUFFICES ASSUME NEW d \in Copies
      PROVE \/ \E j \in Clerks : Midway(j)' /\ kcopy'[j] = d
            \/ \A v \in Users : d \in loans'[v] <=> copies'[d].borrower = v
    OBVIOUS
  <2>1. CASE d = c
    BY <1>4, <1>5, <1>6, <1>7, <2>1, NoneAssumption DEF InNoLoans
  <2>2. CASE d # c
    <3>1. \A j \in Clerks : Midway(j) /\ kcopy[j] = d => Midway(j)' /\ kcopy'[j] = d
      BY <1>1, <1>8, <2>2 DEF Midway
    <3> QED
      BY <1>4, <1>7, <2>2, <3>1 DEF ShelfInv
  <2> QED
    BY <2>1, <2>2
<1>14. \A d \in Copies : IsCopy(copies'[d])
  BY <1>6, <1>7 DEF ShelfInv
<1>15. loans' \in [Users -> SUBSET Copies]
  BY <1>4 DEF ShelfInv
<1> QED
  BY <1>7, <1>11, <1>12, <1>13, <1>14, <1>15 DEF ShelfInv, InNoLoans

(* One case for each assignment to a live object.                          *)
LEMMA NextShelf ==
    ThreadInv /\ WaitlistOK /\ ShelfInv /\ [Next]_vars => ShelfInv'
<1> SUFFICES ASSUME ThreadInv, waitlist \in Seq(Users), ShelfInv, [Next]_vars
             PROVE  ShelfInv'
  BY DEF WaitlistOK
<1> USE DEF shelf, alloc, args, Goto
<1>1. ASSUME NEW k \in Clerks, DropLook(k) \/ DropPop(k) \/ DropSift(k) \/ DropNothing(k)
                               \/ DropIssue(k) \/ IssueUser(k)
      PROVE  ShelfInv'
  <2>1. /\ UNCHANGED <<copies, loans>> /\ ~ Midway(k) /\ ~ Midway(k)'
        /\ \A j \in Clerks \ {k} :
              pc'[j] = pc[j] /\ kcopy'[j] = kcopy[j] /\ kuser'[j] = kuser[j]
    <3>1. UNCHANGED <<copies, loans>>
      BY <1>1 DEF DropLook, DropPop, HeapCall, DropSift, DropNothing, DropIssue, IssueUser
    <3>2. PICK l \in {"drop_pop", "drop_sift", "drop_issue", "idle", "issue_user", "issue_copy"} :
             pc' = [pc EXCEPT ![k] = l]
      BY <1>1 DEF DropLook, DropPop, HeapCall, DropSift, DropNothing, DropIssue, IssueUser
    <3>3. pc[k] \in {"idle", "drop_pop", "drop_sift", "drop_issue", "issue_user"}
      BY <1>1 DEF DropLook, DropPop, HeapCall, DropSift, DropNothing, DropIssue, IssueUser
    <3>4. /\ kcopy' = kcopy \/ \E c : kcopy' = [kcopy EXCEPT ![k] = c]
          /\ kuser' = kuser \/ \E u : kuser' = [kuser EXCEPT ![k] = u]
      BY <1>1 DEF DropLook, DropPop, HeapCall, DropSift, DropNothing, DropIssue, IssueUser
    <3>5. ~ Midway(k) /\ ~ Midway(k)' /\ \A j \in Clerks \ {k} : pc'[j] = pc[j]
      BY <3>2, <3>3 DEF Midway, ThreadInv, Labels, Handling
    <3>6. \A j \in Clerks \ {k} : kcopy'[j] = kcopy[j] /\ kuser'[j] = kuser[j]
      BY <3>4 DEF ThreadInv, Labels, Handling
    <3> QED
      BY <3>1, <3>5, <3>6
  <2> QED
    BY <2>1, QuietShelf DEF Midway
<1>2. ASSUME NEW k \in Clerks, DropSiftError(k) \/ DropTimeout(k) \/ IssueUserRefused(k)
                               \/ IssueCopyRefused(k)
      PROVE  ShelfInv'
  <2>1. /\ UNCHANGED <<copies, loans>> /\ End(k)
        /\ pc[k] \in {"drop_sift", "drop_issue", "issue_user", "issue_copy"}
    BY <1>2 DEF DropSiftError, DropTimeout, IssueUserRefused, IssueCopyRefused
  <2>2. /\ pc'[k] = "idle"
        /\ \A j \in Clerks \ {k} :
              pc'[j] = pc[j] /\ kcopy'[j] = kcopy[j] /\ kuser'[j] = kuser[j]
    BY <2>1, EndThread
  <2> QED
    BY <2>1, <2>2, QuietShelf DEF Midway
<1>3. ASSUME NEW k \in Clerks, NEW c \in Copies, NEW u \in Users, Issue(k, c, u)
      PROVE  ShelfInv'
  <2>1. /\ UNCHANGED <<copies, loans>> /\ pc[k] = "idle"
        /\ pc' = [pc EXCEPT ![k] = "issue_user"]
        /\ kcopy' = [kcopy EXCEPT ![k] = c] /\ kuser' = [kuser EXCEPT ![k] = u]
    BY <1>3 DEF Issue
  <2>2. /\ ~ Midway(k) /\ ~ Midway(k)'
        /\ \A j \in Clerks \ {k} :
              pc'[j] = pc[j] /\ kcopy'[j] = kcopy[j] /\ kuser'[j] = kuser[j]
    BY <2>1 DEF ThreadInv, Labels, Handling, Midway
  <2> QED
    BY <2>1, <2>2, QuietShelf DEF Midway
<1>4. ASSUME NEW k \in Clerks, IssueCopy(k) PROVE ShelfInv'
  BY <1>4, IssueCopyShelf
<1>5. ASSUME NEW k \in Clerks, IssueLoan(k) PROVE ShelfInv'
  BY <1>5, IssueLoanShelf
<1>6. ASSUME NEW k \in Clerks, NEW c \in Copies, Return(k, c) PROVE ShelfInv'
  BY <1>6, ReturnShelf
<1>7. ASSUME NEW k \in Clerks, ReturnCopy(k) PROVE ShelfInv'
  BY <1>7, ReturnCopyShelf
<1>8. ASSUME UNCHANGED <<copies, loans, pc, kcopy, kuser>> PROVE ShelfInv'
  BY <1>8, QuietShelf DEF Midway
<1>9. ASSUME NEW u \in Users, ReserveBook(u) PROVE ShelfInv'
  BY <1>8, <1>9 DEF ReserveBook
<1>11. ASSUME NEW k \in Clerks, RequestStep(k) PROVE ShelfInv'
  <2>1. UNCHANGED <<copies, loans, kcopy, kuser>> /\ ~ Midway(k)
    BY <1>11, RequestQuiet DEF Midway, Asking
  <2>2. PICK l \in {"idle", "push_sift"} \cup Asking : pc' = [pc EXCEPT ![k] = l]
    BY <1>11, RequestQuiet
  <2>3. l \notin {"issue_loan", "return_copy"}
    BY DEF Asking
  <2>4. pc'[k] = l /\ \A j \in Clerks \ {k} : pc'[j] = pc[j]
    BY <2>2 DEF ThreadInv
  <2>5. ~ Midway(k)'
    BY <2>3, <2>4 DEF Midway
  <2> QED
    BY <2>1, <2>4, <2>5, QuietShelf DEF Midway
<1>10. CASE UNCHANGED vars
  BY <1>8, <1>10 DEF vars
<1> QED
  BY VisitorsAreUsers, <1>1, <1>2, <1>3, <1>4, <1>5, <1>6, <1>7, <1>9, <1>10, <1>11
     DEF Next, RequestStep

(* For any number of threads on live objects: what users have and what the *)
(* copies say agrees, but for a copy that the holder of its mutex is in    *)
(* the middle of issuing or returning; so no copy is in two users' loans.  *)
THEOREM LoansAndCopiesAgree == Spec => []LoansAgree
<1>1. ShelfInv => LoansAgree
  BY DEF ShelfInv, LoansAgree, Midway
<1> QED
  BY InitRequest, NextRequest, InitThread, NextThread, InitShelf, NextShelf,
     WaitlistType, <1>1, PTL DEF Spec

(***************************************************************************)
(* The borrow limit.  A thread that has looked at a user's limit and not   *)
(* entered the loan yet is pending; the loans and the pending threads of a *)
(* user together stay within the bound, because a thread becomes pending   *)
(* only below the limit, and there are no more pending threads than        *)
(* threads.                                                                *)
(***************************************************************************)
(* The sets that are counted are finite.                                   *)
LEMMA Counted ==
    ASSUME ShelfInv
    PROVE  /\ Cardinality(Clerks) \in Nat
           /\ \A u \in Users :
                 /\ IsFiniteSet(loans[u]) /\ Cardinality(loans[u]) \in Nat
                 /\ IsFiniteSet(Pending(u)) /\ Cardinality(Pending(u)) \in Nat
                 /\ Cardinality(Pending(u)) <= Cardinality(Clerks)
<1>1. IsFiniteSet(Clerks) /\ Cardinality(Clerks) \in Nat
  BY MemoryAssumption, FS_CardinalityType
<1>2. IsFiniteSet(Copies)
  <2>1. 1 \in Int /\ NCopies \in Int
    BY MemoryAssumption
  <2> QED
    BY <2>1, FS_Interval DEF Copies
<1> SUFFICES ASSUME NEW u \in Users
             PROVE  /\ IsFiniteSet(loans[u]) /\ Cardinality(loans[u]) \in Nat
                    /\ IsFiniteSet(Pending(u)) /\ Cardinality(Pending(u)) \in Nat
                    /\ Cardinality(Pending(u)) <= Cardinality(Clerks)
  BY <1>1
<1>3. loans[u] \subseteq Copies
  BY DEF ShelfInv
<1>4. IsFiniteSet(loans[u])
  BY <1>2, <1>3, FS_Subset
<1>5. Pending(u) \subseteq Clerks
  BY DEF Pending
<1>6. IsFiniteSet(Pending(u)) /\ Cardinality(Pending(u)) <= Cardinality(Clerks)
  BY <1>1, <1>5, FS_Subset
<1> QED
  BY <1>4, <1>6, FS_CardinalityType

(* No loans at the start.                                                  *)
LEMMA InitLimit == Init => OvershootBounded
<1> SUFFICES ASSUME Init, NEW u \in Users
             PROVE  Cardinality(loans[u]) + Cardinality(Pending(u))
                        <= MaxBorrow + Cardinality(Clerks) - 1
  BY DEF OvershootBounded
<1>1. loans[u] = {} /\ Pending(u) = {}
  BY DEF Init, Pending
<1>2. Cardinality(loans[u]) = 0 /\ Cardinality(Pending(u)) = 0
  BY <1>1, FS_EmptySet
<1>3. Cardinality(Clerks) \in Nat /\ MaxBorrow \in Nat \ {0}
  BY MemoryAssumption, FS_CardinalityType
<1> QED
  BY <1>2, <1>3

(* Neither the loans nor the pending threads of anybody grow.              *)
LEMMA ShrinkLimit ==
    ASSUME ShelfInv, ShelfInv', OvershootBounded,
           \A u \in Users : loans'[u] \subseteq loans[u] /\ Pending(u)' \subseteq Pending(u)
    PROVE  OvershootBounded'
<1> SUFFICES ASSUME NEW u \in Users
             PROVE  Cardinality(loans'[u]) + Cardinality(Pending(u)')
                        <= MaxBorrow + Cardinality(Clerks) - 1
  BY DEF OvershootBounded
<1>1. /\ Cardinality(Clerks) \in Nat /\ MaxBorrow \in Nat
      /\ IsFiniteSet(loans[u]) /\ Cardinality(loans[u]) \in Nat
      /\ IsFiniteSet(Pending(u)) /\ Cardinality(Pending(u)) \in Nat
  BY Counted, MemoryAssumption
<1>2. /\ IsFiniteSet(loans'[u]) /\ Cardinality(loans'[u]) <= Cardinality(loans[u])
  BY <1>1, FS_Subset
<1>3. PICK P : P = Pending(u)'
  OBVIOUS
<1>4. IsFiniteSet(P) /\ Cardinality(P) <= Cardinality(Pending(u))
  BY <1>1, <1>3, FS_Subset
<1>5. Cardinality(loans'[u]) \in Nat /\ Cardinality(P) \in Nat
  BY <1>2, <1>4, FS_CardinalityType
<1>6. Cardinality(loans[u]) + Cardinality(Pending(u)) <= MaxBorrow + Cardinality(Clerks) - 1
  BY DEF OvershootBounded
<1> QED
  BY <1>1, <1>2, <1>3, <1>4, <1>5, <1>6

(* A thread finds its user below the limit and becomes pending.            *)
LEMMA IssueUserLimit ==
    ASSUME ThreadInv, ShelfInv, ShelfInv', OvershootBounded, NEW k \in Clerks, IssueUser(k)
    PROVE  OvershootBounded'
<1>1. /\ pc[k] = "issue_user" /\ pc' = [pc EXCEPT ![k] = "issue_copy"]
      /\ UNCHANGED <<loans, kuser>>
  BY DEF IssueUser, Goto, shelf, args
<1> SUFFICES ASSUME NEW u \in Users
             PROVE  Cardinality(loans[u]) + Cardinality(Pending(u)')
                        <= MaxBorrow + Cardinality(Clerks) - 1
  BY <1>1 DEF OvershootBounded
<1>2. /\ Cardinality(Clerks) \in Nat /\ MaxBorrow \in Nat
      /\ Cardinality(loans[u]) \in Nat
  BY Counted, MemoryAssumption
<1>3. CASE u = kuser[k]
  <2>1. Cardinality(loans[u]) < MaxBorrow
    BY <1>3 DEF IssueUser, CanBorrow
  <2>2. PICK P : P = Pending(u)'
    OBVIOUS
  <2>3. P \subseteq Clerks
    BY <2>2 DEF Pending
  <2>4. Cardinality(P) \in Nat /\ Cardinality(P) <= Cardinality(Clerks)
    BY <2>3, FS_Subset, FS_CardinalityType, MemoryAssumption
  <2> QED
    BY <1>2, <2>1, <2>2, <2>4
<1>4. CASE u # kuser[k]
  <2>1. Pending(u)' = Pending(u)
    BY <1>1, <1>4 DEF Pending, ThreadInv, Labels, Handling
  <2> QED
    BY <2>1 DEF OvershootBounded
<1> QED
  BY <1>3, <1>4

(* A pending thread enters its loan and is pending no more.                *)
LEMMA IssueLoanLimit ==
    ASSUME ThreadInv, ShelfInv, ShelfInv', OvershootBounded, NEW k \in Clerks, IssueLoan(k)
    PROVE  OvershootBounded'
<1>1. PICK v : v = kuser[k]
  OBVIOUS
<1>2. PICK c : c = kcopy[k]
  OBVIOUS
<1>3. pc[k] = "issue_loan" /\ End(k) /\ loans' = [loans EXCEPT ![v] = @ \cup {c}]
      /\ v \in Users
  BY <1>1, <1>2 DEF IssueLoan, ThreadInv, Labels, Handling
<1>4. /\ pc'[k] = "idle"
      /\ \A j \in Clerks \ {k} :
            pc'[j] = pc[j] /\ kcopy'[j] = kcopy[j] /\ kuser'[j] = kuser[j]
  BY <1>3, EndThread
<1> SUFFICES ASSUME NEW u \in Users
             PROVE  Cardinality(loans'[u]) + Cardinality(Pending(u)')
                        <= MaxBorrow + Cardinality(Clerks) - 1
  BY DEF OvershootBounded
<1>5. /\ Cardinality(Clerks) \in Nat /\ MaxBorrow \in Nat
      /\ IsFiniteSet(loans[u]) /\ Cardinality(loans[u]) \in Nat
      /\ IsFiniteSet(Pending(u)) /\ Cardinality(Pending(u)) \in Nat
      /\ Cardinality(loans[u]) + Cardinality(Pending(u)) <= MaxBorrow + Cardinality(Clerks) - 1
  BY Counted, MemoryAssumption DEF OvershootBounded
<1>6. CASE u = v
  <2>1. loans'[u] = loans[u] \cup {c}
    BY <1>3, <1>6 DEF ShelfInv
  <2>2. Cardinality(loans'[u]) \in Nat /\ Cardinality(loans'[u]) <= Cardinality(loans[u]) + 1
    <3>1. PICK S : S = loans[u]
      OBVIOUS
    <3>2. IsFiniteSet(S) /\ Cardinality(S) \in Nat
      BY <1>5, <3>1
    <3>3. IsFiniteSet(S \cup {c})
          /\ Cardinality(S \cup {c}) = IF c \in S THEN Cardinality(S) ELSE Cardinality(S) + 1
      BY <3>2, FS_AddElement
    <3> QED
      BY <2>1, <3>1, <3>2, <3>3
  <2>3. Pending(u)' = Pending(u) \ {k} /\ k \in Pending(u)
    BY <1>1, <1>3, <1>4, <1>6 DEF Pending
  <2>4. PICK P : P = Pending(u)'
    OBVIOUS
  <2>5. Cardinality(P) = Cardinality(Pending(u)) - 1
    BY <1>5, <2>3, <2>4, FS_RemoveElement
  <2> QED
    BY <1>5, <2>2, <2>4, <2>5
<1>7. CASE u # v
  <2>1. loans'[u] = loans[u]
    BY <1>3, <1>7 DEF ShelfInv
  <2>2. Pending(u)' = Pending(u)
    BY <1>1, <1>4, <1>7 DEF Pending
  <2> QED
    BY <1>5, <2>1, <2>2
<1> QED
  BY <1>6, <1>7

(* Only a thread that passes the limit check becomes pending, and the      *)
(* others are Clerks - 1.                                                  *)
LEMMA NextLimit ==
    ThreadInv /\ ShelfInv /\ ShelfInv' /\ OvershootBounded /\ [Next]_vars => OvershootBounded'
<1> SUFFICES ASSUME ThreadInv, ShelfInv, ShelfInv', OvershootBounded, [Next]_vars
             PROVE  OvershootBounded'
  OBVIOUS
<1> USE DEF shelf, alloc, args, Goto
<1>1. ASSUME NEW k \in Clerks, DropLook(k) \/ DropPop(k) \/ DropSift(k) \/ DropNothing(k)
                               \/ DropIssue(k)
      PROVE  OvershootBounded'
  <2>1. loans' = loans
    BY <1>1 DEF DropLook, DropPop, HeapCall, DropSift, DropNothing, DropIssue
  <2>2. PICK l \in {"drop_pop", "drop_sift", "drop_issue", "idle", "issue_user"} :
           pc' = [pc EXCEPT ![k] = l]
    BY <1>1 DEF DropLook, DropPop, HeapCall, DropSift, DropNothing, DropIssue
  <2>3. kuser' = kuser \/ \E u : kuser' = [kuser EXCEPT ![k] = u]
    BY <1>1 DEF DropLook, DropPop, HeapCall, DropSift, DropNothing, DropIssue
  <2>4. pc'[k] = l /\ \A j \in Clerks \ {k} : pc'[j] = pc[j] /\ kuser'[j] = kuser[j]
    BY <2>2, <2>3 DEF ThreadInv, Labels, Handling
  <2>5. \A u \in Users : Pending(u)' \subseteq Pending(u)
    BY <2>4 DEF Pending
  <2> QED
    BY <2>1, <2>5, ShrinkLimit
<1>2. ASSUME NEW k \in Clerks, DropSiftError(k) \/ DropTimeout(k) \/ IssueUserRefused(k)
                               \/ IssueCopyRefused(k)
                               \/ ReturnCopy(k)
      PROVE  OvershootBounded'
  <2>1. loans' = loans /\ End(k)
    BY <1>2 DEF DropSiftError, DropTimeout, IssueUserRefused, IssueCopyRefused, ReturnCopy
  <2>2. pc'[k] = "idle" /\ \A j \in Clerks \ {k} : pc'[j] = pc[j] /\ kuser'[j] = kuser[j]
    BY <2>1, EndThread
  <2>3. \A u \in Users : Pending(u)' \subseteq Pending(u)
    BY <2>2 DEF Pending
  <2> QED
    BY <2>1, <2>3, ShrinkLimit
<1>3. ASSUME NEW k \in Clerks, NEW c \in Copies, NEW u \in Users, Issue(k, c, u)
      PROVE  OvershootBounded'
  <2>1. loans' = loans /\ pc' = [pc EXCEPT ![k] = "issue_user"]
        /\ kuser' = [kuser EXCEPT ![k] = u]
    BY <1>3 DEF Issue
  <2>2. pc'[k] = "issue_user" /\ \A j \in Clerks \ {k} : pc'[j] = pc[j] /\ kuser'[j] = kuser[j]
    BY <2>1 DEF ThreadInv, Labels, Handling
  <2>3. \A v \in Users : Pending(v)' \subseteq Pending(v)
    BY <2>2 DEF Pending
  <2> QED
    BY <2>1, <2>3, ShrinkLimit
<1>4. ASSUME NEW k \in Clerks, IssueUser(k) PROVE OvershootBounded'
  BY <1>4, IssueUserLimit
<1>5. ASSUME NEW k \in Clerks, IssueCopy(k) PROVE OvershootBounded'
  <2>1. loans' = loans /\ kuser' = kuser /\ pc[k] = "issue_copy"
        /\ pc' = [pc EXCEPT ![k] = "issue_loan"]
    BY <1>5 DEF IssueCopy
  <2>2. \A u \in Users : Pending(u)' \subseteq Pending(u)
    BY <2>1 DEF Pending, ThreadInv, Labels, Handling
  <2> QED
    BY <2>1, <2>2, ShrinkLimit
<1>6. ASSUME NEW k \in Clerks, IssueLoan(k) PROVE OvershootBounded'
  BY <1>6, IssueLoanLimit
<1>7. ASSUME NEW k \in Clerks, NEW c \in Copies, Return(k, c) PROVE OvershootBounded'
  <2>1. PICK u : loans' = [loans EXCEPT ![u] = @ \ {c}]
    BY <1>7 DEF Return
  <2>2. kuser' = kuser /\ pc[k] = "idle" /\ pc' = [pc EXCEPT ![k] = "return_copy"]
    BY <1>7 DEF Return
  <2>3. \A v \in Users : loans'[v] \subseteq loans[v]
    BY <2>1 DEF ShelfInv
  <2>4. \A v \in Users : Pending(v)' \subseteq Pending(v)
    BY <2>2 DEF Pending, ThreadInv, Labels, Handling
  <2> QED
    BY <2>3, <2>4, ShrinkLimit
<1>8. ASSUME UNCHANGED <<loans, pc, kuser>> PROVE OvershootBounded'
  BY <1>8, ShrinkLimit DEF Pending
<1>9. ASSUME NEW u \in Users, ReserveBook(u) PROVE OvershootBounded'
  BY <1>8, <1>9 DEF ReserveBook
<1>11. ASSUME NEW k \in Clerks, RequestStep(k) PROVE OvershootBounded'
  <2>1. UNCHANGED <<loans, kuser>>
    BY <1>11, RequestQuiet
  <2>2. PICK l \in {"idle", "push_sift"} \cup Asking : pc' = [pc EXCEPT ![k] = l]
    BY <1>11, RequestQuiet
  <2>3. l \notin {"issue_copy", "issue_loan"}
    BY DEF Asking
  <2>4. pc'[k] = l /\ \A j \in Clerks \ {k} : pc'[j] = pc[j]
    BY <2>2 DEF ThreadInv
  <2>5. \A u \in Users : Pending(u)' \subseteq Pending(u)
    BY <2>1, <2>3, <2>4 DEF Pending
  <2> QED
    BY <2>1, <2>5, ShrinkLimit
<1>10. CASE UNCHANGED vars
  BY <1>8, <1>10 DEF vars
<1> QED
  BY VisitorsAreUsers, <1>1, <1>2, <1>3, <1>4, <1>5, <1>6, <1>7, <1>9, <1>10, <1>11
     DEF Next, RequestStep

(* The borrow limit of the in-memory backend, which is checked without a   *)
(* lock on the user, is overshot by at most one loan for every other       *)
(* thread, the checkouts that have passed the test counted, whatever the   *)
(* limit and the number of threads are.                                    *)
THEOREM OvershootIsBounded == Spec => []OvershootBounded
BY InitRequest, NextRequest, InitThread, NextThread, InitShelf, NextShelf, InitLimit,
   NextLimit, WaitlistType, PTL DEF Spec

(***************************************************************************)
(* The queues.  A thread that is about to make a queue found none; once    *)
(* there is one no thread gets into that position, so the queues made and  *)
(* the threads about to make one are never more than the threads.          *)
(***************************************************************************)
Creators == {k \in Clerks : pc[k] = "req_create"}
QueueInv == Len(counter) + Cardinality(Creators) <= Cardinality(Clerks)

(* No queue and nobody about to make one at the start.                     *)
LEMMA InitQueue == Init => QueueInv
<1> SUFFICES ASSUME Init PROVE QueueInv
  OBVIOUS
<1>1. Creators = {} /\ Len(counter) = 0
  BY DEF Init, Creators
<1>2. Cardinality(Creators) = 0
  BY <1>1, FS_EmptySet
<1>3. Cardinality(Clerks) \in Nat
  BY MemoryAssumption, FS_CardinalityType
<1> QED
  BY <1>1, <1>2, <1>3 DEF QueueInv

(* Neither the queues nor the threads about to make one get more.          *)
LEMMA KeepQueue ==
    ASSUME RequestType, QueueInv, Len(counter') = Len(counter), Creators' \subseteq Creators
    PROVE  QueueInv'
<1>1. IsFiniteSet(Clerks) /\ Cardinality(Clerks) \in Nat /\ Len(counter) \in Nat
  BY MemoryAssumption, FS_CardinalityType DEF RequestType
<1>2. IsFiniteSet(Creators)
  BY <1>1, FS_Subset DEF Creators
<1>3. PICK C : C = Creators'
  OBVIOUS
<1>4. Cardinality(Creators) \in Nat /\ IsFiniteSet(C) /\ Cardinality(C) <= Cardinality(Creators)
  BY <1>2, <1>3, FS_Subset, FS_CardinalityType
<1>5. Cardinality(C) \in Nat
  BY <1>4, FS_CardinalityType
<1> QED
  BY <1>1, <1>3, <1>4, <1>5 DEF QueueInv

(* A thread finds no queue: there is none, however many others found none. *)
LEMMA LookQueue ==
    ASSUME RequestType, QueueInv, NEW k \in Clerks, NEW u \in Users, RequestLook(k, u)
    PROVE  QueueInv'
<1>1. counter' = counter /\ pc = [j \in Clerks |-> pc[j]]
      /\ pc' = [pc EXCEPT ![k] = IF counter = <<>> THEN "req_create" ELSE "req_fetch"]
  BY DEF RequestLook, AskedBy, Goto, RequestType
<1>2. CASE counter = <<>>
  <2>1. Len(counter') = 0
    BY <1>1, <1>2
  <2>2. PICK C : C = Creators'
    OBVIOUS
  <2>3. C \subseteq Clerks
    BY <2>2 DEF Creators
  <2>4. Cardinality(C) \in Nat /\ Cardinality(C) <= Cardinality(Clerks)
    BY <2>3, FS_Subset, FS_CardinalityType, MemoryAssumption
  <2> QED
    BY <2>1, <2>2, <2>4 DEF QueueInv
<1>3. CASE counter # <<>>
  <2>1. Creators' \subseteq Creators
    BY <1>1, <1>3 DEF Creators
  <2> QED
    BY <1>1, <2>1, KeepQueue
<1> QED
  BY <1>2, <1>3

(* A thread makes the queue it was about to make.                          *)
LEMMA CreateQueue ==
    ASSUME RequestType, QueueInv, NEW k \in Clerks, RequestCreate(k)
    PROVE  QueueInv'
<1>1. /\ pc[k] = "req_create" /\ counter' = Append(counter, 0)
      /\ pc = [j \in Clerks |-> pc[j]] /\ pc' = [pc EXCEPT ![k] = "req_fetch"]
  BY DEF RequestCreate, Goto, RequestType
<1>2. Len(counter') = Len(counter) + 1 /\ Len(counter) \in Nat
  BY <1>1 DEF RequestType
<1>3. Creators' = Creators \ {k} /\ k \in Creators
  BY <1>1 DEF Creators
<1>4. IsFiniteSet(Creators) /\ Cardinality(Creators) \in Nat /\ Cardinality(Clerks) \in Nat
  BY MemoryAssumption, FS_Subset, FS_CardinalityType DEF Creators
<1>5. PICK C : C = Creators'
  OBVIOUS
<1>6. Cardinality(C) = Cardinality(Creators) - 1
  BY <1>3, <1>4, <1>5, FS_RemoveElement
<1> QED
  BY <1>2, <1>4, <1>5, <1>6 DEF QueueInv

(* No other step makes a queue or begins to.                               *)
LEMMA NextQueue == RequestType /\ QueueInv /\ [Next]_vars => QueueInv'
<1> SUFFICES ASSUME RequestType, QueueInv, [Next]_vars PROVE QueueInv'
  OBVIOUS
<1> USE DEF shelf, alloc, args, Goto
<1>1. ASSUME counter' = counter, NEW k \in Clerks, NEW l, l # "req_create",
             pc' = [pc EXCEPT ![k] = l]
      PROVE  QueueInv'
  <2>1. Creators' \subseteq Creators
    BY <1>1 DEF Creators, RequestType
  <2> QED
    BY <1>1, <2>1, KeepQueue
<1>2. ASSUME NEW k \in Clerks, DropLook(k) \/ DropPop(k) \/ DropSift(k) \/ DropNothing(k)
                               \/ DropIssue(k) \/ IssueUser(k) \/ IssueCopy(k)
                               \/ RequestFetch(k) \/ RequestPush(k) \/ RequestSift(k)
      PROVE  QueueInv'
  <2>1. counter' = counter
    BY <1>2 DEF DropLook, DropPop, DropSift, DropNothing, DropIssue, IssueUser, IssueCopy,
                RequestFetch, RequestPush, RequestSift
  <2>2. \E l : l # "req_create" /\ pc' = [pc EXCEPT ![k] = l]
    BY <1>2 DEF DropLook, DropPop, DropSift, DropNothing, DropIssue, IssueUser, IssueCopy,
                RequestFetch, RequestPush, RequestSift, HeapCall
  <2> QED
    BY <1>1, <2>1, <2>2
<1>3. ASSUME NEW k \in Clerks, DropSiftError(k) \/ DropTimeout(k) \/ IssueUserRefused(k)
                               \/ IssueCopyRefused(k) \/ IssueLoan(k) \/ ReturnCopy(k)
      PROVE  QueueInv'
  <2>1. counter' = counter /\ pc' = [pc EXCEPT ![k] = "idle"]
    BY <1>3 DEF DropSiftError, DropTimeout, IssueUserRefused, IssueCopyRefused, IssueLoan,
                ReturnCopy, End
  <2> QED
    BY <1>1, <2>1
<1>4. ASSUME NEW k \in Clerks, NEW c \in Copies,
             Return(k, c) \/ \E u \in Users : Issue(k, c, u)
      PROVE  QueueInv'
  <2>1. counter' = counter /\ \E l : l # "req_create" /\ pc' = [pc EXCEPT ![k] = l]
    BY <1>4 DEF Return, Issue
  <2> QED
    BY <1>1, <2>1
<1>5. ASSUME NEW k \in Clerks, RequestCount(k) PROVE QueueInv'
  <2>1. PICK q, n : counter' = [counter EXCEPT ![q] = n]
    BY <1>5 DEF RequestCount
  <2>2. Len(counter') = Len(counter)
    BY <2>1 DEF RequestType
  <2>3. pc' = [pc EXCEPT ![k] = "req_push"]
    BY <1>5 DEF RequestCount
  <2>4. Creators' \subseteq Creators
    BY <2>3 DEF Creators, RequestType
  <2> QED
    BY <2>2, <2>4, KeepQueue
<1>6. CASE (\E u \in Users : ReserveBook(u)) \/ UNCHANGED vars
  <2>1. counter' = counter /\ Creators' = Creators
    BY <1>6 DEF ReserveBook, vars, Creators
  <2> QED
    BY <2>1, KeepQueue
<1> QED
  BY VisitorsAreUsers, <1>2, <1>3, <1>4, <1>5, <1>6, LookQueue, CreateQueue DEF Next

(* For any number of threads, the queue of a title is made at most once    *)
(* by each of them.                                                        *)
THEOREM QueuesMade == Spec => []OneQueuePerThread
<1>1. RequestInv => RequestType
  BY DEF RequestInv
<1>2. RequestType /\ QueueInv => OneQueuePerThread
  <2> SUFFICES ASSUME RequestType, QueueInv PROVE OneQueuePerThread
    OBVIOUS
  <2>1. IsFiniteSet(Creators) /\ Cardinality(Clerks) \in Nat /\ Len(counter) \in Nat
    <3>1. Creators \subseteq Clerks
      BY DEF Creators
    <3>2. IsFiniteSet(Creators) /\ Cardinality(Clerks) \in Nat
      BY <3>1, MemoryAssumption, FS_Subset, FS_CardinalityType
    <3> QED
      BY <3>2 DEF RequestType
  <2>2. Cardinality(Creators) \in Nat
    BY <2>1, FS_CardinalityType
  <2> QED
    BY <2>1, <2>2 DEF QueueInv, OneQueuePerThread
<1> QED
  BY InitRequest, NextRequest, InitQueue, NextQueue, <1>1, <1>2, PTL DEF Spec
=============================================================================

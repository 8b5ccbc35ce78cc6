------------------------------ MODULE Rebalancer ------------------------------
(***************************************************************************)
(* ai/rebalancer.py with ai/demand_forecaster.py: a plan of transfers is   *)
(* computed from demand and stock, executed item by item, and judged by    *)
(* the checkouts that follow.  Any number of requests may run it at once,  *)
(* beside checkouts, arrivals and transfers that people ask for, which go  *)
(* through the same branch manager.  None of them but the checkouts takes  *)
(* a lock.  Copies are the live objects of the in-memory repositories, the *)
(* only ones whose list_books has copies.  A plan is computed in one step. *)
(***************************************************************************)
EXTENDS CopyState, Naturals, Sequences, SequencesExt, FiniteSets, FiniteSetsExt

CONSTANTS
    Runners,         \* requests to /rebalance/run
    Movers,          \* requests to /branches/transfer
    Completers,      \* requests to /rebalance/complete
    NCopies,         \* copies, numbered in the order they were added
    isbn,            \* copy -> title
    Where,           \* copy -> branch it starts at
    Dist,            \* branch, branch -> distance in km
    Cap,             \* max_transfers_per_branch
    SurgeWeek, SurgeMonth, ModerateWeek, ModerateMonth,  \* 5, 15, 2, 6
    Wanted,          \* bound: copies that people borrow and ask to be moved
    MaxDemand,       \* bound: checkouts counted of a title at a branch
    MaxTransfers     \* bound: transfers

ASSUME RebalancerAssumption ==
    /\ NCopies \in Nat /\ Users # {}
    /\ IsFiniteSet(Runners) /\ IsFiniteSet(Branches)
    /\ Runners \cap Movers = {} /\ (Runners \cup Movers) \cap Completers = {}
    /\ None \notin 1 .. NCopies /\ Wanted \subseteq 1 .. NCopies
    /\ \A c \in 1 .. NCopies : Where[c] \in Branches
    /\ Cap \in Nat \ {0} /\ MaxDemand \in Nat /\ MaxTransfers \in Nat
    /\ {SurgeWeek, SurgeMonth, ModerateWeek, ModerateMonth} \subseteq Nat \ {0}

Copies == 1 .. NCopies
Titles == {isbn[c] : c \in Copies}
Requesters == Runners \cup Movers      \* who call request_transfer
Threads == Requesters \cup Completers
Reader == CHOOSE u \in Users : TRUE

VARIABLES
    copies,
    week, month,    \* checkouts of a title at a branch in 7 and in 30 days
    transfers,      \* branch_mgr.transfers with transfers_tracked
    pc, plan,       \* what a request still has to move
    job,            \* the transfer that a completer confirms, or 0
    desk,           \* the copy of the checkout that holds the mutex, or None
    raced           \* history: copies that were moved, lent or confirmed by a
                    \* request that had looked before another one came

demand == <<week, month>>
work == <<pc, plan, job>>
vars == <<copies, demand, transfers, work, desk, raced>>

Quiet == [x \in Titles \X Branches |-> 0]
Counts == [Titles \X Branches -> 0 .. MaxDemand]

Init ==
    /\ copies = [c \in Copies |-> NewCopy(Where[c])]
    /\ week \in Counts /\ month = week
    /\ transfers = <<>>
    /\ pc = [r \in Threads |-> "idle"]
    /\ plan = [r \in Requesters |-> <<>>]
    /\ job = [k \in Completers |-> 0]
    /\ desk = None
    /\ raced = {}

Goto(r, l) == pc' = [pc EXCEPT ![r] = l]

(***************************************************************************)
(* The forecaster                                                          *)
(***************************************************************************)
Surge(t, b) == week[t, b] >= SurgeWeek \/ month[t, b] >= SurgeMonth
Moderate(t, b) == week[t, b] >= ModerateWeek \/ month[t, b] >= ModerateMonth

(***************************************************************************)
(* calculate_rebalancing_plan                                              *)
(***************************************************************************)
Stock(t, b) ==
    {c \in Copies : isbn[c] = t /\ copies[c].branch = b /\ copies[c].status = "AVAILABLE"}

Open == {i \in 1 .. Len(transfers) : transfers[i].status = "IN_TRANSIT"}
InFlight(b) == Cardinality({i \in Open : transfers[i].dest = b})

NeedsStock(t, b) ==
    \/ Surge(t, b) /\ Cardinality(Stock(t, b)) <= 1
    \/ Moderate(t, b) /\ Stock(t, b) = {}

(* In twentieths: 250 or 150, less 0.05 per kilometre.                     *)
Gain(t, b) == IF Surge(t, b) THEN 5000 ELSE 3000

(* Fault: a branch gives its last copy away.                               *)
MaySpareLast(t, b) == Stock(t, b) # {}
MaySpare(t, b) == Cardinality(Stock(t, b)) >= 2

Candidate(t, s, d) ==
    [copy |-> Min(Stock(t, s) \cup {NCopies + 1}), title |-> t, source |-> s,
     dest |-> d, utility |-> Gain(t, d) - Dist[s, d]]

Candidates == {Candidate(t, s, d) : t \in Titles, s \in Branches, d \in Branches}

Eligible(x) ==
    /\ x.source # x.dest
    /\ InFlight(x.dest) < Cap
    /\ NeedsStock(x.title, x.dest)
    /\ MaySpare(x.title, x.source)
    /\ Dist[x.source, x.dest] < Gain(x.title, x.dest)

(* Highest utility first; the order of equals is the heap's, any here.     *)
Ranked ==
    {s \in SetToSeqs({x \in Candidates : Eligible(x)}) :
        \A i, j \in DOMAIN s : i < j => s[i].utility >= s[j].utility}

Going(p, b) == Cardinality({i \in 1 .. Len(p) : p[i].dest = b})

(* Fault: the plan is filled regardless of what it already sends.          *)
FillUncapped(p, x) ==
    IF \E i \in 1 .. Len(p) : p[i].copy = x.copy THEN p ELSE Append(p, x)

Fill(p, x) ==
    IF \/ \E i \in 1 .. Len(p) : p[i].copy = x.copy
       \/ InFlight(x.dest) + Going(p, x.dest) >= Cap
    THEN p ELSE Append(p, x)

(* The candidates are taken from the heap one by one.                      *)
Filled(s) ==
    LET filled[n \in 0 .. Len(s)] ==
          IF n = 0 THEN <<>> ELSE Fill(filled[n - 1], s[n])
    IN  filled[Len(s)]

Plan(r) ==
    /\ pc[r] = "idle"
    /\ \E s \in Ranked : plan' = [plan EXCEPT ![r] = Filled(s)]
    /\ plan'[r] # <<>>
    /\ Goto(r, "check")
    /\ UNCHANGED <<copies, demand, transfers, job, desk, raced>>

(***************************************************************************)
(* execute_rebalancing_plan looks at every item and calls request_transfer *)
(* for it; transfer_copy calls it for what a person asks.  There the copy  *)
(* is looked at again, its state object moves it, and the transfer is      *)
(* filed, for the rebalancer with its tracking; others run in between.     *)
(***************************************************************************)
Item(r) == Head(plan[r])

Advance(r) ==
    /\ plan' = [plan EXCEPT ![r] = Tail(@)]
    /\ Goto(r, IF Len(plan[r]) = 1 THEN "idle" ELSE "check")

(* The copy is no longer on the shelf.                                     *)
Skip(r) ==
    /\ pc[r] = "check" /\ copies[Item(r).copy].status # "AVAILABLE"
    /\ Advance(r)
    /\ UNCHANGED <<copies, demand, transfers, job, desk, raced>>

Check(r) ==
    /\ pc[r] = "check" /\ copies[Item(r).copy].status = "AVAILABLE"
    /\ Goto(r, "dispatch")
    /\ UNCHANGED <<copies, demand, transfers, plan, job, desk, raced>>

(* transfer_copy: no demand, no cap, no look at the stock.                 *)
Ask(m, c, b) ==
    /\ pc[m] = "idle"
    /\ plan' = [plan EXCEPT ![m] = <<[copy |-> c, dest |-> b]>>]
    /\ Goto(m, "dispatch")
    /\ UNCHANGED <<copies, demand, transfers, job, desk, raced>>

Movable(r) ==
    /\ copies[Item(r).copy].status = "AVAILABLE"
    /\ copies[Item(r).copy].branch # Item(r).dest

Dispatch(r) ==
    /\ pc[r] = "dispatch" /\ Movable(r)
    /\ Goto(r, "start")
    /\ UNCHANGED <<copies, demand, transfers, plan, job, desk, raced>>

(* request_transfer raises, and the rest of the plan is dropped.           *)
Abort(r) ==
    /\ pc[r] = "dispatch" /\ ~ Movable(r)
    /\ Goto(r, "idle")
    /\ plan' = [plan EXCEPT ![r] = <<>>]
    /\ UNCHANGED <<copies, demand, transfers, job, desk, raced>>

Start(r) ==
    LET c == Item(r).copy
    IN  /\ pc[r] = "start"
        /\ copies' = [copies EXCEPT ![c] = StartTransfer(@, Item(r).dest)]
        /\ raced' = IF copies[c].status = "AVAILABLE" THEN raced ELSE raced \cup {c}
        /\ Goto(r, "file")
        /\ UNCHANGED <<demand, transfers, plan, job, desk>>

File(r) ==
    /\ pc[r] = "file" /\ Len(transfers) < MaxTransfers
    /\ transfers' = Append(transfers,
          [copy |-> Item(r).copy, dest |-> Item(r).dest, auto |-> r \in Runners,
           status |-> "IN_TRANSIT", fresh |-> FALSE, borrowed |-> FALSE])
    /\ Advance(r)
    /\ UNCHANGED <<copies, demand, job, desk, raced>>

(***************************************************************************)
(* complete_transfer: the transfer is tested, the copy's state object is   *)
(* asked, the copy is freed, the transfer is closed.                       *)
(***************************************************************************)
Arrive(k, i) ==
    /\ pc[k] = "idle" /\ i \in Open
    /\ job' = [job EXCEPT ![k] = i]
    /\ Goto(k, "found")
    /\ UNCHANGED <<copies, demand, transfers, plan, desk, raced>>

Arriving(k) == copies[transfers[job[k]].copy]

ArriveRefused(k) ==
    /\ pc[k] = "found" /\ Arriving(k).status # "IN_TRANSIT"
    /\ job' = [job EXCEPT ![k] = 0]
    /\ Goto(k, "idle")
    /\ UNCHANGED <<copies, demand, transfers, plan, desk, raced>>

ArriveDispatch(k) ==
    /\ pc[k] = "found" /\ Arriving(k).status = "IN_TRANSIT"
    /\ Goto(k, "free")
    /\ UNCHANGED <<copies, demand, transfers, plan, job, desk, raced>>

(* The copy of transfer i is free already, whatever i says.                *)
Landed(i) ==
    \/ transfers[i].status = "COMPLETED"
    \/ \E k \in Completers : pc[k] = "close" /\ job[k] = i

ArriveFree(k) ==
    LET c == transfers[job[k]].copy
    IN  /\ pc[k] = "free"
        /\ copies' = [copies EXCEPT ![c] = CompleteTransfer(@)]
        /\ raced' = IF Landed(job[k]) THEN raced \cup {c} ELSE raced
        /\ Goto(k, "close")
        /\ UNCHANGED <<demand, transfers, plan, job, desk>>

(* Fault: the request stays IN_TRANSIT.                                    *)
ArriveStaysOpen(k) ==
    /\ pc[k] = "close"
    /\ job' = [job EXCEPT ![k] = 0]
    /\ Goto(k, "idle")
    /\ UNCHANGED <<copies, demand, transfers, plan, desk, raced>>

ArriveClose(k) ==
    /\ pc[k] = "close"
    /\ transfers' = [transfers EXCEPT ![job[k]].status = "COMPLETED",
                                      ![job[k]].fresh = transfers[job[k]].auto]
    /\ job' = [job EXCEPT ![k] = 0]
    /\ Goto(k, "idle")
    /\ UNCHANGED <<copies, demand, plan, desk, raced>>

(***************************************************************************)
(* Checkouts, returns and time                                             *)
(***************************************************************************)
(* record_checkout_hook: the last tracked transfer of the copy came here,  *)
(* not more than a week ago, and has not been borrowed from yet.           *)
Confirmed(c) ==
    {i \in 1 .. Len(transfers) :
        /\ transfers[i].copy = c /\ transfers[i].auto
        /\ \A j \in i + 1 .. Len(transfers) : transfers[j].copy # c \/ ~ transfers[j].auto
        /\ transfers[i].dest = copies[c].branch
        /\ transfers[i].fresh /\ ~ transfers[i].borrowed}

(* A checkout asks the state object under a mutex that nobody else here    *)
(* takes but returns.                                                      *)
Look(c) ==
    /\ desk = None /\ copies[c].status = "AVAILABLE"
    /\ desk' = c
    /\ UNCHANGED <<copies, demand, transfers, work, raced>>

Checkout(c) ==
    LET at == <<isbn[c], copies[c].branch>>
    IN  /\ desk = c /\ month[at] < MaxDemand
        /\ copies' = [copies EXCEPT ![c] = CheckOut(@, Reader)]
        /\ raced' = IF copies[c].status = "AVAILABLE" THEN raced ELSE raced \cup {c}
        /\ week' = [week EXCEPT ![at] = @ + 1]
        /\ month' = [month EXCEPT ![at] = @ + 1]
        /\ transfers' = [i \in 1 .. Len(transfers) |->
                            IF i \in Confirmed(c)
                            THEN [transfers[i] EXCEPT !.borrowed = TRUE] ELSE transfers[i]]
        /\ desk' = None
        /\ UNCHANGED work

Return(c) ==
    /\ desk = None /\ copies[c].status = "ISSUED"
    /\ copies' = [copies EXCEPT ![c] = ReturnBook(@)]
    /\ UNCHANGED <<demand, transfers, work, desk, raced>>

Stale == [i \in 1 .. Len(transfers) |-> [transfers[i] EXCEPT !.fresh = FALSE]]

WeekPasses ==
    /\ week # Quiet
    /\ week' = Quiet
    /\ transfers' = Stale
    /\ UNCHANGED <<copies, month, work, desk, raced>>

MonthPasses ==
    /\ week = Quiet /\ month # Quiet
    /\ month' = Quiet
    /\ transfers' = Stale
    /\ UNCHANGED <<copies, week, work, desk, raced>>

Next ==
    \/ \E r \in Runners : Plan(r) \/ Skip(r) \/ Check(r)
    \/ \E m \in Movers, c \in Wanted, b \in Branches : Ask(m, c, b)
    \/ \E r \in Requesters : Dispatch(r) \/ Abort(r) \/ Start(r) \/ File(r)
    \/ \E k \in Completers, i \in 1 .. Len(transfers) : Arrive(k, i)
    \/ \E k \in Completers :
          ArriveRefused(k) \/ ArriveDispatch(k) \/ ArriveFree(k) \/ ArriveClose(k)
    \/ \E c \in Wanted : Look(c) \/ Checkout(c) \/ Return(c)
    \/ WeekPasses \/ MonthPasses

Spec == Init /\ [][Next]_vars
-----------------------------------------------------------------------------
(* A new plan takes at most one copy of a title from a branch, leaves that *)
(* branch another one to lend, and sends copies only where the title is    *)
(* asked for more than it is there.                                        *)
PlanLeavesStock ==
    [][\A r \in Runners : pc[r] = "idle" =>
          \A i \in 1 .. Len(plan'[r]) :
              LET x == plan'[r][i]
              IN  /\ \E c \in Stock(x.title, x.source) :
                        \A j \in 1 .. Len(plan'[r]) : plan'[r][j].copy # c
                  /\ \A j \in 1 .. Len(plan'[r]) :
                        j # i => <<plan'[r][j].source, plan'[r][j].title>>
                                     # <<x.source, x.title>>
                  /\ NeedsStock(x.title, x.dest)]_vars

Autonomous(b) == {i \in Open : transfers[i].auto /\ transfers[i].dest = b}

(* "Backpressure": no branch has more of the rebalancer's transfers under  *)
(* way to it than Cap for every request that runs it, however old their    *)
(* plans are; with one request at a time, Cap.  The "per-branch concurrent *)
(* in-transit limits" of the README hold no further than this: the limit   *)
(* is tested when a plan is made and not when it is executed, and what     *)
(* people ask for counts there, but is not bounded by anything.            *)
BackpressureBounded ==
    \A b \in Branches : Cardinality(Autonomous(b)) <= Cap * Cardinality(Runners)

Moving == {i \in Open : ~ Landed(i)}

(* A transfer that is under way, and not just being closed, is of a copy   *)
(* that is under way to its destination, and the only one of that copy.    *)
(* Excepted are copies that were raced: moved or lent by a request that    *)
(* found them on the shelf before another one took them, or freed by the   *)
(* second of two confirmations of one transfer, which may end a later one. *)
OpenTransfersMove ==
    \A i \in Moving : transfers[i].copy \notin raced =>
        /\ copies[transfers[i].copy].status = "IN_TRANSIT"
        /\ copies[transfers[i].copy].target = transfers[i].dest
        /\ \A j \in Moving \ {i} : transfers[j].copy # transfers[i].copy
=============================================================================

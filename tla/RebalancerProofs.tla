--------------------------- MODULE RebalancerProofs ---------------------------
(***************************************************************************)
(* Proofs about Rebalancer, for any number of requests, copies, branches   *)
(* and any cap.  The plan is filled by a loop, so the first part is an     *)
(* induction over the ranking: what Fill keeps holds of the whole plan.    *)
(* The load of a branch, transfers under way with those still planned, is  *)
(* what backpressure bounds; the cap of a plan is counted in what the      *)
(* other runners have left to send.                                        *)
(***************************************************************************)
EXTENDS Rebalancer, TLAPS, Integers, FiniteSetTheorems, FunctionTheorems,
        WellFoundedInduction

(***************************************************************************)
(* Filling a plan                                                          *)
(***************************************************************************)
(* A non-empty set of naturals has a least element.                        *)
LEMMA LeastNatural ==
    ASSUME NEW S \in SUBSET Nat, S # {}
    PROVE  \E n \in S : \A m \in S : n <= m
<1>1. PICK x \in S : \A y \in S : ~ (<<y, x>> \in OpToRel(<, Nat))
  BY WFMin, NatLessThanWellFounded, Zenon
<1>2. \A y \in S : ~ (y < x)
  BY <1>1 DEF OpToRel
<1> QED
  BY <1>2

(* The recursion that fills a plan from a ranking.                         *)
FillStep(s, f, n) == IF n = 0 THEN <<>> ELSE Fill(f[n - 1], s[n])

(* There is a function that satisfies the recursion as far as n.           *)
LEMMA FillExists ==
    ASSUME NEW s, NEW N \in Nat
    PROVE  \E f : f = [m \in 0 .. N |-> FillStep(s, f, m)]
<1> DEFINE Bad == {n \in Nat : ~ \E f : f = [m \in 0 .. n |-> FillStep(s, f, m)]}
<1> SUFFICES ASSUME Bad # {} PROVE FALSE
  OBVIOUS
<1>1. PICK n \in Bad : \A m \in Bad : n <= m
  BY LeastNatural
<1>2. n # 0
  <2> DEFINE g == [m \in 0 .. 0 |-> <<>>]
  <2>1. g = [m \in 0 .. 0 |-> FillStep(s, g, m)]
    BY DEF FillStep
  <2> QED
    BY <2>1, <1>1
<1>3. n - 1 \in Nat /\ n - 1 \notin Bad
  BY <1>1, <1>2
<1>4. PICK f : f = [m \in 0 .. (n - 1) |-> FillStep(s, f, m)]
  BY <1>3
<1> DEFINE g == [m \in 0 .. n |-> IF m = n THEN Fill(f[n - 1], s[n]) ELSE f[m]]
<1>5. \A m \in 0 .. n : g[m] = FillStep(s, g, m)
  <2> SUFFICES ASSUME NEW m \in 0 .. n PROVE g[m] = FillStep(s, g, m)
    OBVIOUS
  <2>1. CASE m = n
    BY <2>1, <1>2, <1>3 DEF FillStep
  <2>2. CASE m # n
    <3>1. m \in 0 .. (n - 1) /\ g[m] = f[m] /\ (m # 0 => g[m - 1] = f[m - 1])
      BY <2>2, <1>3
    <3>2. f[m] = FillStep(s, f, m)
      BY <3>1, <1>4
    <3> QED
      BY <3>1, <3>2 DEF FillStep
  <2> QED
    BY <2>1, <2>2
<1>6. g = [m \in 0 .. n |-> FillStep(s, g, m)]
  BY <1>5
<1> QED
  BY <1>6, <1>1

(* A plan is the last value of that function.                              *)
LEMMA FilledIsLast ==
    ASSUME NEW s, Len(s) \in Nat
    PROVE  \E f : /\ f = [m \in 0 .. Len(s) |-> FillStep(s, f, m)]
                 /\ Filled(s) = f[Len(s)]
<1> DEFINE F == CHOOSE f : f = [n \in 0 .. Len(s) |->
                                  IF n = 0 THEN <<>> ELSE Fill(f[n - 1], s[n])]
<1>1. \E f : f = [n \in 0 .. Len(s) |-> IF n = 0 THEN <<>> ELSE Fill(f[n - 1], s[n])]
  BY FillExists DEF FillStep
<1>2. F = [n \in 0 .. Len(s) |-> IF n = 0 THEN <<>> ELSE Fill(F[n - 1], s[n])]
  BY <1>1
<1>3. Filled(s) = F[Len(s)]
  BY DEF Filled
<1> QED
  BY <1>2, <1>3 DEF FillStep

(* The least copy on a shelf is on it.                                     *)
LEMMA LeastCopy ==
    ASSUME NEW S \in SUBSET Copies, S # {}
    PROVE  Min(S \cup {NCopies + 1}) \in S
<1> DEFINE T == S \cup {NCopies + 1}
<1>1. T \in SUBSET Nat /\ T # {} /\ \A c \in S : c < NCopies + 1
  BY RebalancerAssumption DEF Copies
<1>2. \E n \in T : \A m \in T : n <= m
  BY <1>1, LeastNatural
<1>3. Min(T) \in T /\ \A m \in T : Min(T) <= m
  <2> HIDE DEF T
  <2> QED
    BY <1>2 DEF Min
<1> QED
  BY <1>1, <1>3

(* What the forecaster's weights and the distances can give.               *)
Worth(g, s, d) == g - Dist[s, d]

Utilities == {Worth(g, s, d) : g \in {5000, 3000}, s \in Branches, d \in Branches}

PlanItem ==
    [copy : Copies, title : Titles, source : Branches, dest : Branches, utility : Utilities]

Chosen == {x \in Candidates : Eligible(x)}

(* There are finitely many candidates: one for a title and two branches.   *)
LEMMA ChosenFinite == IsFiniteSet(Chosen)
<1> DEFINE C == 1 .. NCopies
           g == [c \in C |-> isbn[c]]
           P == Titles \X (Branches \X Branches)
           h == [y \in P |-> Candidate(y[1], y[2][1], y[2][2])]
<1>1. IsFiniteSet(C)
  BY FS_Interval, RebalancerAssumption
<1>2. g \in Surjection(C, Titles)
  BY DEF Surjection, Titles, Copies
<1>3. IsFiniteSet(Titles)
  <2> HIDE DEF C, g
  <2> QED
    BY <1>1, <1>2, FS_Surjection
<1>4. IsFiniteSet(P)
  <2>1. IsFiniteSet(Branches \X Branches)
    BY RebalancerAssumption, FS_Product
  <2> QED
    BY <1>3, <2>1, FS_Product
<1>5. h \in Surjection(P, Candidates)
  <2>1. \A t \in Titles, s, d \in Branches :
          <<t, <<s, d>>>> \in P /\ h[<<t, <<s, d>>>>] = Candidate(t, s, d)
    OBVIOUS
  <2>2. ASSUME NEW x \in Candidates PROVE \E y \in P : h[y] = x
    <3>1. PICK t \in Titles, s \in Branches, d \in Branches : x = Candidate(t, s, d)
      BY DEF Candidates
    <3> HIDE DEF P, h
    <3> QED
      BY <2>1, <3>1
  <2>3. h \in [P -> Candidates]
    BY DEF Candidates
  <2> QED
    BY <2>2, <2>3 DEF Surjection
<1>6. IsFiniteSet(Candidates)
  <2> HIDE DEF P, h
  <2> QED
    BY <1>4, <1>5, FS_Surjection
<1> QED
  BY <1>6, FS_Subset DEF Chosen

(* A shelf that may spare a copy has one.                                  *)
LEMMA SpareShelf ==
    ASSUME NEW t, NEW b, MaySpare(t, b)
    PROVE  \E c, d \in Stock(t, b) : c # d
<1> DEFINE S == Stock(t, b)
<1>1. S \subseteq 1 .. NCopies
  BY DEF Stock, Copies
<1>2. IsFiniteSet(S)
  <2>1. 1 \in Int /\ NCopies \in Int
    BY RebalancerAssumption
  <2>2. IsFiniteSet(1 .. NCopies)
    BY <2>1, FS_Interval
  <2> QED
    BY <1>1, <2>2, FS_Subset
<1>3. Cardinality(S) >= 2
  BY DEF MaySpare
<1> HIDE DEF S
<1>4. S # {} /\ ~ \E x : S = {x}
  BY <1>2, <1>3, FS_EmptySet, FS_Singleton
<1>5. PICK c \in S : TRUE
  BY <1>4
<1>6. \E d \in S : d # c
  BY <1>4, <1>5
<1> QED
  BY <1>5, <1>6 DEF S

(* A candidate moves the first copy of a shelf with two or more.           *)
LEMMA ChosenItem ==
    ASSUME NEW x \in Chosen
    PROVE  /\ x \in PlanItem
           /\ x.copy = Min(Stock(x.title, x.source) \cup {NCopies + 1})
           /\ x.copy \in Stock(x.title, x.source)
           /\ Eligible(x)
<1>1. PICK t \in Titles, s \in Branches, d \in Branches : x = Candidate(t, s, d)
  BY DEF Chosen, Candidates
<1>2. /\ x.copy = Min(Stock(t, s) \cup {NCopies + 1})
      /\ x.title = t /\ x.source = s /\ x.dest = d /\ x.utility = Gain(t, d) - Dist[s, d]
  BY <1>1 DEF Candidate
<1>3. Eligible(x) /\ MaySpare(t, s)
  BY <1>2 DEF Chosen, Eligible
<1>4. Stock(t, s) \in SUBSET Copies /\ Stock(t, s) # {}
  BY <1>3, SpareShelf DEF Stock
<1>5. x.copy \in Stock(t, s)
  BY <1>2, <1>4, LeastCopy
<1>6. Gain(t, d) \in {5000, 3000}
  BY DEF Gain
<1>7. x \in PlanItem
  <2>1. x.utility \in Utilities
    <3>1. x.utility = Worth(Gain(t, d), s, d)
      BY <1>2 DEF Worth
    <3> QED
      BY <1>6, <3>1 DEF Utilities
  <2>2. x.copy \in Copies
    BY <1>4, <1>5
  <2> QED
    BY <1>1, <1>2, <2>1, <2>2 DEF PlanItem, Candidate
<1> QED
  BY <1>2, <1>3, <1>5, <1>7

(* The positions of a plan that go to a branch are finitely many.          *)
LEMMA GoingNat ==
    ASSUME NEW p, Len(p) \in Nat, NEW b
    PROVE  /\ IsFiniteSet({i \in 1 .. Len(p) : p[i].dest = b})
           /\ Going(p, b) \in Nat
<1> DEFINE S == {i \in 1 .. Len(p) : p[i].dest = b}
<1>1. IsFiniteSet(1 .. Len(p))
  BY FS_Interval
<1>2. IsFiniteSet(S)
  BY <1>1, FS_Subset
<1>3. Cardinality(S) \in Nat
  BY <1>2, FS_CardinalityType
<1> QED
  BY <1>2, <1>3 DEF Going

(* The transfers under way to a branch are finitely many.                  *)
LEMMA InFlightNat ==
    ASSUME Len(transfers) \in Nat, NEW b
    PROVE  /\ IsFiniteSet({i \in Open : transfers[i].dest = b})
           /\ InFlight(b) \in Nat
<1> DEFINE S == {i \in Open : transfers[i].dest = b}
<1>1. IsFiniteSet(1 .. Len(transfers))
  BY FS_Interval
<1>2. IsFiniteSet(S)
  BY <1>1, FS_Subset DEF Open
<1>3. Cardinality(S) \in Nat
  BY <1>2, FS_CardinalityType
<1> QED
  BY <1>2, <1>3 DEF InFlight

(* The rebalancer's are among them.                                        *)
LEMMA AutonomousInFlight ==
    ASSUME Len(transfers) \in Nat, NEW b
    PROVE  /\ IsFiniteSet(Autonomous(b)) /\ Cardinality(Autonomous(b)) \in Nat
           /\ Cardinality(Autonomous(b)) <= InFlight(b)
<1> DEFINE S == {i \in Open : transfers[i].dest = b}
<1>1. IsFiniteSet(S) /\ InFlight(b) = Cardinality(S) /\ InFlight(b) \in Nat
  BY InFlightNat DEF InFlight
<1>2. Autonomous(b) \in SUBSET S
  BY DEF Autonomous
<1> HIDE DEF S
<1>3. IsFiniteSet(Autonomous(b)) /\ Cardinality(Autonomous(b)) <= Cardinality(S)
  BY <1>1, <1>2, FS_Subset
<1>4. Cardinality(Autonomous(b)) \in Nat
  BY <1>3, FS_CardinalityType
<1> QED
  BY <1>1, <1>3, <1>4

(* One more item is one more for its branch.                               *)
LEMMA GoingAppend ==
    ASSUME NEW S, NEW p \in Seq(S), NEW x \in S, NEW b
    PROVE  Going(Append(p, x), b) = Going(p, b) + (IF x.dest = b THEN 1 ELSE 0)
<1> DEFINE q == Append(p, x)
           T == {i \in 1 .. Len(p) : p[i].dest = b}
           U == {i \in 1 .. Len(q) : q[i].dest = b}
<1>1. /\ Len(p) \in Nat /\ Len(q) = Len(p) + 1 /\ q[Len(p) + 1] = x
      /\ \A i \in 1 .. Len(p) : q[i] = p[i]
  OBVIOUS
<1>2. IsFiniteSet(T) /\ Cardinality(T) \in Nat
  BY <1>1, GoingNat DEF Going
<1>3. Going(p, b) = Cardinality(T) /\ Going(q, b) = Cardinality(U)
  BY DEF Going
<1>4. CASE x.dest = b
  <2>1. U = T \cup {Len(p) + 1} /\ Len(p) + 1 \notin T
    BY <1>1, <1>4
  <2>2. Cardinality(T \cup {Len(p) + 1}) = Cardinality(T) + 1
    BY <1>2, <2>1, FS_AddElement
  <2> HIDE DEF q, T, U
  <2>3. Going(q, b) = Going(p, b) + 1
    BY <1>3, <2>1, <2>2
  <2> QED
    BY <1>4, <2>3 DEF q
<1>5. CASE x.dest # b
  <2>1. U = T
    BY <1>1, <1>5
  <2> HIDE DEF q, T, U
  <2>2. Going(q, b) = Going(p, b) + 0
    BY <1>2, <1>3, <2>1
  <2> QED
    BY <1>5, <2>2 DEF q
<1> QED
  BY <1>4, <1>5

(* What the loop keeps of the plan: candidates only, no copy twice, and no *)
(* branch beyond the cap.                                                  *)
Distinct(p) == \A i, j \in 1 .. Len(p) : i # j => p[i].copy # p[j].copy
Capped(p) == \A b \in Branches : Going(p, b) = 0 \/ InFlight(b) + Going(p, b) <= Cap
GoodPlan(p) == p \in Seq(Chosen) /\ Distinct(p) /\ Capped(p)

(* A round of the loop keeps it.                                           *)
LEMMA FillGood ==
    ASSUME Len(transfers) \in Nat, NEW p, GoodPlan(p), NEW x \in Chosen
    PROVE  GoodPlan(Fill(p, x))
<1>1. CASE \/ \E i \in 1 .. Len(p) : p[i].copy = x.copy
           \/ InFlight(x.dest) + Going(p, x.dest) >= Cap
  BY <1>1 DEF Fill
<1>2. CASE ~ (\/ \E i \in 1 .. Len(p) : p[i].copy = x.copy
              \/ InFlight(x.dest) + Going(p, x.dest) >= Cap)
  <2> DEFINE q == Append(p, x)
  <2>1. Fill(p, x) = q
    BY <1>2 DEF Fill
  <2>2. /\ p \in Seq(Chosen) /\ q \in Seq(Chosen) /\ Len(p) \in Nat
        /\ Len(q) = Len(p) + 1 /\ q[Len(p) + 1] = x
        /\ \A i \in 1 .. Len(p) : q[i] = p[i]
    BY DEF GoodPlan
  <2>3. Distinct(q)
    BY <1>2, <2>2 DEF GoodPlan, Distinct
  <2>4. Capped(q)
    <3> SUFFICES ASSUME NEW b \in Branches
                 PROVE  Going(q, b) = 0 \/ InFlight(b) + Going(q, b) <= Cap
      BY DEF Capped
    <3>1. Going(q, b) = Going(p, b) + (IF x.dest = b THEN 1 ELSE 0)
      BY <2>2, GoingAppend
    <3>2. Going(p, b) \in Nat /\ InFlight(b) \in Nat
      BY <2>2, GoingNat, InFlightNat
    <3>3. Going(p, b) = 0 \/ InFlight(b) + Going(p, b) <= Cap
      BY DEF GoodPlan, Capped
    <3>4. x.dest = b => InFlight(b) + Going(p, b) < Cap
      BY <1>2, <3>2, RebalancerAssumption
    <3> QED
      BY <3>1, <3>2, <3>3, <3>4, RebalancerAssumption
  <2> QED
    BY <2>1, <2>2, <2>3, <2>4 DEF GoodPlan
<1> QED
  BY <1>1, <1>2

(* So does the whole loop, whatever the order of equals in the heap.       *)
LEMMA FilledGood ==
    ASSUME Len(transfers) \in Nat, NEW s \in Ranked
    PROVE  GoodPlan(Filled(s))
<1>1. s \in [1 .. Cardinality(Chosen) -> Chosen]
  BY DEF Ranked, SetToSeqs, Chosen
<1>2. Len(s) \in Nat /\ \A n \in 1 .. Len(s) : s[n] \in Chosen
  <2>1. Cardinality(Chosen) \in Nat
    BY ChosenFinite, FS_CardinalityType
  <2> QED
    BY <1>1, <2>1
<1>3. PICK f : f = [m \in 0 .. Len(s) |-> FillStep(s, f, m)] /\ Filled(s) = f[Len(s)]
  BY <1>2, FilledIsLast
<1> DEFINE Bad == {n \in 0 .. Len(s) : ~ GoodPlan(f[n])}
<1>4. Bad = {}
  <2> SUFFICES ASSUME Bad # {} PROVE FALSE
    OBVIOUS
  <2>1. PICK n \in Bad : \A m \in Bad : n <= m
    <3>1. Bad \in SUBSET Nat
      BY <1>2
    <3> QED
      BY <3>1, LeastNatural
  <2>2. n \in 0 .. Len(s) /\ f[n] = FillStep(s, f, n) /\ ~ GoodPlan(f[n])
    BY <1>3, <2>1
  <2>3. CASE n = 0
    <3>1. f[n] = <<>>
      BY <2>2, <2>3 DEF FillStep
    <3>2. \A b \in Branches : Going(<<>>, b) = 0
      BY FS_EmptySet DEF Going
    <3>3. GoodPlan(<<>>)
      BY <3>2 DEF GoodPlan, Distinct, Capped
    <3> QED
      BY <2>2, <3>1, <3>3
  <2>4. CASE n # 0
    <3>1. n - 1 \in 0 .. Len(s) /\ n - 1 \notin Bad /\ s[n] \in Chosen
      BY <1>2, <2>1, <2>2, <2>4
    <3>2. GoodPlan(f[n - 1])
      BY <3>1
    <3>3. GoodPlan(Fill(f[n - 1], s[n]))
      BY <3>1, <3>2, FillGood
    <3> QED
      BY <2>2, <2>4, <3>3 DEF FillStep
  <2> QED
    BY <2>3, <2>4
<1>5. Len(s) \in 0 .. Len(s)
  BY <1>2
<1>6. GoodPlan(f[Len(s)])
  BY <1>4, <1>5
<1> QED
  BY <1>3, <1>6

(* A new plan moves at most one copy of a title from a branch, leaves      *)
(* another there, and goes where the title is needed.                      *)
LEMMA GoodPlanLeavesStock ==
    ASSUME NEW p, GoodPlan(p), NEW i \in 1 .. Len(p)
    PROVE  /\ \E c \in Stock(p[i].title, p[i].source) :
                 \A j \in 1 .. Len(p) : p[j].copy # c
           /\ \A j \in 1 .. Len(p) :
                 j # i => <<p[j].source, p[j].title>> # <<p[i].source, p[i].title>>
           /\ NeedsStock(p[i].title, p[i].dest)
<1>1. p \in Seq(Chosen) /\ Distinct(p)
  BY DEF GoodPlan
<1>2. \A j \in 1 .. Len(p) : p[j] \in Chosen
  BY <1>1
<1> DEFINE first(t, s) == Min(Stock(t, s) \cup {NCopies + 1})
<1>3. \A j \in 1 .. Len(p) :
         /\ p[j].copy = first(p[j].title, p[j].source)
         /\ p[j].copy \in Stock(p[j].title, p[j].source)
         /\ Eligible(p[j])
  BY <1>2, ChosenItem
<1> HIDE DEF first
<1>4. \A j \in 1 .. Len(p) :
         j # i => <<p[j].source, p[j].title>> # <<p[i].source, p[i].title>>
  BY <1>1, <1>3 DEF Distinct
<1>5. NeedsStock(p[i].title, p[i].dest) /\ MaySpare(p[i].title, p[i].source)
  BY <1>3 DEF Eligible
<1>6. PICK c \in Stock(p[i].title, p[i].source) : c # p[i].copy
  <2> DEFINE t == p[i].title
             s == p[i].source
  <2>1. PICK c, d \in Stock(t, s) : c # d
    BY <1>5, SpareShelf
  <2> QED
    BY <2>1
<1>7. ASSUME NEW j \in 1 .. Len(p) PROVE p[j].copy # c
  <2>1. CASE j = i
    BY <2>1, <1>6
  <2>2. CASE j # i
    <3>1. SUFFICES ASSUME p[j].copy = c PROVE FALSE
      OBVIOUS
    <3>2. c \in Stock(p[j].title, p[j].source)
      BY <1>3, <3>1
    <3>3. p[j].title = p[i].title /\ p[j].source = p[i].source
      BY <1>6, <3>2 DEF Stock
    <3> QED
      BY <1>4, <2>2, <3>3
  <2> QED
    BY <2>1, <2>2
<1> QED
  BY <1>4, <1>5, <1>7

(***************************************************************************)
(* The invariant                                                           *)
(***************************************************************************)
Transfer ==
    [copy : Copies, dest : Branches, auto : BOOLEAN,
     status : {"IN_TRANSIT", "COMPLETED"}, fresh : BOOLEAN, borrowed : BOOLEAN]

Items == PlanItem \cup [copy : Copies, dest : Branches]
PCs == {"idle", "check", "dispatch", "start", "file", "found", "free", "close"}

Types ==
    /\ copies \in [Copies -> BookCopy]
    /\ transfers \in Seq(Transfer)
    /\ pc \in [Threads -> PCs]
    /\ plan \in [Requesters -> Seq(Items)]
    /\ job \in [Completers -> Nat]

(* A request has something to move exactly while it is not idle, and has   *)
(* no copy twice.                                                          *)
PlanShape ==
    \A r \in Requesters : (pc[r] = "idle" <=> plan[r] = <<>>) /\ Distinct(plan[r])

(* A completer at work has a transfer.                                     *)
JobShape ==
    \A k \in Completers : pc[k] # "idle" => job[k] \in 1 .. Len(transfers)

(* Copies that runner r still means to send to branch b.                   *)
Bound(r, b) ==
    {c \in Copies : \E i \in 1 .. Len(plan[r]) : plan[r][i].copy = c /\ plan[r][i].dest = b}

RunnersCapped == \A r \in Runners, b \in Branches : Cardinality(Bound(r, b)) <= Cap

(* The rebalancer's transfers to branch b, under way (0) or planned (1).   *)
Queued(b) == {x \in Runners \X Copies : x[2] \in Bound(x[1], b)}
Load(b) == ({0} \X Autonomous(b)) \cup ({1} \X Queued(b))

LoadBounded == \A b \in Branches : Cardinality(Load(b)) <= Cap * Cardinality(Runners)

(* A copy that a request has moved and not yet filed is under way, and     *)
(* nobody else has filed or is about to file it, unless it was raced.      *)
FilingMoves ==
    \A r \in Requesters : pc[r] = "file" /\ Item(r).copy \notin raced =>
        /\ copies[Item(r).copy].status = "IN_TRANSIT"
        /\ copies[Item(r).copy].target = Item(r).dest
        /\ \A i \in Moving : transfers[i].copy # Item(r).copy
        /\ \A q \in Requesters \ {r} : pc[q] = "file" => Item(q).copy # Item(r).copy

RebalancerInv ==
    /\ Types /\ PlanShape /\ JobShape /\ RunnersCapped /\ LoadBounded
    /\ OpenTransfersMove /\ FilingMoves

(* Nobody is at work at the start.                                         *)
LEMMA InitRebalancer == Init => RebalancerInv
<1> SUFFICES ASSUME Init PROVE RebalancerInv
  OBVIOUS
<1>1. Types
  <2>1. \A c \in Copies : NewCopy(Where[c]) \in BookCopy
    BY RebalancerAssumption DEF NewCopy, BookCopy, BookStatus, Copies
  <2> QED
    BY <2>1 DEF Init, Types, PCs
<1>2. PlanShape
  BY DEF Init, PlanShape, Distinct, Threads, Requesters
<1>j. JobShape
  BY DEF Init, JobShape, Threads
<1>3. \A r \in Runners, b \in Branches : Bound(r, b) = {}
  BY DEF Init, Bound, Requesters
<1>4. RunnersCapped
  BY <1>3, FS_EmptySet, RebalancerAssumption DEF RunnersCapped
<1>5. \A b \in Branches : Load(b) = {}
  <2>1. Open = {}
    BY DEF Init, Open
  <2> QED
    BY <1>3, <2>1 DEF Load, Autonomous, Queued
<1>6. LoadBounded
  <2>1. Cardinality(Runners) \in Nat
    BY RebalancerAssumption, FS_CardinalityType
  <2>2. 0 <= Cap * Cardinality(Runners)
    BY <2>1, RebalancerAssumption
  <2> QED
    BY <1>5, <2>2, FS_EmptySet DEF LoadBounded
<1>7. OpenTransfersMove
  BY DEF Init, Open, Moving, OpenTransfersMove
<1>8. FilingMoves
  BY DEF Init, FilingMoves, Threads
<1> QED
  BY <1>1, <1>2, <1>j, <1>4, <1>6, <1>7, <1>8 DEF RebalancerInv

(* All the sets that are counted are finite.                               *)
LEMMA LoadFinite ==
    ASSUME Types, NEW b
    PROVE  /\ IsFiniteSet(Autonomous(b)) /\ IsFiniteSet(Queued(b)) /\ IsFiniteSet(Load(b))
           /\ Cardinality(Load(b)) \in Nat
           /\ \A r \in Runners : IsFiniteSet(Bound(r, b)) /\ Cardinality(Bound(r, b)) \in Nat
<1>1. IsFiniteSet(Copies)
  BY FS_Interval, RebalancerAssumption DEF Copies
<1>2. IsFiniteSet(Autonomous(b))
  <2>1. Len(transfers) \in Nat
    BY DEF Types
  <2> QED
    BY <2>1, AutonomousInFlight
<1>3. IsFiniteSet(Queued(b))
  <2>1. IsFiniteSet(Runners \X Copies)
    BY <1>1, RebalancerAssumption, FS_Product
  <2> QED
    BY <2>1, FS_Subset DEF Queued
<1>4. IsFiniteSet(Load(b))
  <2>1. IsFiniteSet({0}) /\ IsFiniteSet({1})
    BY FS_Singleton
  <2>2. IsFiniteSet({0} \X Autonomous(b)) /\ IsFiniteSet({1} \X Queued(b))
    BY <1>2, <1>3, <2>1, FS_Product
  <2> QED
    BY <2>2, FS_Union DEF Load
<1>5. Cardinality(Load(b)) \in Nat
  BY <1>4, FS_CardinalityType
<1>6. ASSUME NEW r \in Runners
      PROVE  IsFiniteSet(Bound(r, b)) /\ Cardinality(Bound(r, b)) \in Nat
  <2>1. IsFiniteSet(Bound(r, b))
    BY <1>1, FS_Subset DEF Bound
  <2> QED
    BY <2>1, FS_CardinalityType
<1> QED
  BY <1>2, <1>3, <1>4, <1>5, <1>6

(* A step that starts and plans nothing new keeps the bounds.              *)
LEMMA Shrinks ==
    ASSUME Types, RunnersCapped, LoadBounded,
           \A b \in Branches : Autonomous(b)' \subseteq Autonomous(b),
           \A r \in Runners, b \in Branches : Bound(r, b)' \subseteq Bound(r, b)
    PROVE  RunnersCapped' /\ LoadBounded'
<1> USE RebalancerAssumption
<1>1. ASSUME NEW r \in Runners, NEW b \in Branches PROVE Cardinality(Bound(r, b)') <= Cap
  <2>1. IsFiniteSet(Bound(r, b)) /\ Cardinality(Bound(r, b)) \in Nat
    BY LoadFinite
  <2>2. Bound(r, b)' \in SUBSET Bound(r, b)
    OBVIOUS
  <2>3. IsFiniteSet(Bound(r, b)') /\ Cardinality(Bound(r, b)') <= Cardinality(Bound(r, b))
    BY <2>1, <2>2, FS_Subset
  <2>4. Cardinality(Bound(r, b)') \in Nat
    BY <2>3, FS_CardinalityType
  <2> QED
    BY <2>1, <2>3, <2>4 DEF RunnersCapped
<1>2. ASSUME NEW b \in Branches
      PROVE  Cardinality(Load(b)') <= Cap * Cardinality(Runners)
  <2>1. IsFiniteSet(Load(b)) /\ Cardinality(Load(b)) \in Nat
    BY LoadFinite
  <2>2. Load(b)' \in SUBSET Load(b)
    BY DEF Load, Queued
  <2>3. IsFiniteSet(Load(b)') /\ Cardinality(Load(b)') <= Cardinality(Load(b))
    BY <2>1, <2>2, FS_Subset
  <2>4. Cardinality(Load(b)') \in Nat /\ Cardinality(Runners) \in Nat
    BY <2>3, FS_CardinalityType
  <2>5. Cardinality(Load(b)) <= Cap * Cardinality(Runners) /\ Cap * Cardinality(Runners) \in Nat
    BY <2>4 DEF LoadBounded
  <2> QED
    BY <2>1, <2>3, <2>4, <2>5
<1> QED
  BY <1>1, <1>2 DEF RunnersCapped, LoadBounded

(* A request at work has an item, and its plan goes on after it.           *)
LEMMA ItemFacts ==
    ASSUME Types, PlanShape, NEW r \in Requesters, pc[r] # "idle"
    PROVE  /\ plan[r] \in Seq(Items) /\ Len(plan[r]) \in Nat \ {0}
           /\ Item(r) = plan[r][1] /\ Item(r) \in Items
           /\ Item(r).copy \in Copies /\ Item(r).dest \in Branches
           /\ Tail(plan[r]) \in Seq(Items)
           /\ Len(Tail(plan[r])) = Len(plan[r]) - 1
           /\ \A i \in 1 .. Len(plan[r]) - 1 :
                 i + 1 \in 1 .. Len(plan[r]) /\ Tail(plan[r])[i] = plan[r][i + 1]
<1>1. plan[r] \in Seq(Items) /\ plan[r] # <<>>
  BY DEF Types, PlanShape
<1> DEFINE p == plan[r]
<1> HIDE DEF p
<1>2. p \in Seq(Items) /\ p # <<>>
  BY <1>1 DEF p
<1>3. Len(p) \in Nat \ {0} /\ Head(p) = p[1] /\ p[1] \in Items
  BY <1>2
<1>4. Tail(p) \in Seq(Items) /\ Len(Tail(p)) = Len(p) - 1
  BY <1>2
<1>5. \A i \in 1 .. Len(p) - 1 : i + 1 \in 1 .. Len(p) /\ Tail(p)[i] = p[i + 1]
  BY <1>2
<1>6. Item(r) = p[1] /\ Item(r) \in Items
  BY <1>3 DEF Item, p
<1>7. Item(r).copy \in Copies /\ Item(r).dest \in Branches
  BY <1>6 DEF Items, PlanItem
<1> QED
  BY <1>2, <1>3, <1>4, <1>5, <1>6, <1>7 DEF p

(* Only runners and movers have plans; their threads are nobody else's.    *)
LEMMA ThreadFacts ==
    /\ Runners \subseteq Requesters /\ Movers \subseteq Requesters
    /\ Requesters \subseteq Threads /\ Completers \subseteq Threads
    /\ \A r \in Requesters : r \notin Completers
    /\ \A r \in Runners : r \notin Movers
    /\ \A r \in Requesters : r \in Runners \/ r \in Movers
BY RebalancerAssumption DEF Requesters, Threads

(* Advance drops the first item, and with it the only one of its copy.     *)
LEMMA AdvanceFacts ==
    ASSUME Types, PlanShape, NEW r \in Requesters, pc[r] # "idle", Advance(r)
    PROVE  /\ plan' \in [Requesters -> Seq(Items)]
           /\ pc' \in [Threads -> PCs]
           /\ PlanShape'
           /\ pc'[r] \in {"idle", "check"}
           /\ \A q \in Threads : q # r => pc'[q] = pc[q]
           /\ \A q \in Requesters : q # r => plan'[q] = plan[q]
           /\ \A q \in Runners, b \in Branches : Bound(q, b)' \subseteq Bound(q, b)
           /\ \A b \in Branches : Item(r).copy \notin Bound(r, b)'
<1> DEFINE p == plan[r]
           t == Tail(plan[r])
<1>0. r \in Threads
  BY ThreadFacts
<1>1. /\ p \in Seq(Items) /\ Len(p) \in Nat \ {0} /\ Item(r) = p[1]
      /\ t \in Seq(Items) /\ Len(t) = Len(p) - 1
      /\ \A i \in 1 .. Len(p) - 1 : i + 1 \in 1 .. Len(p) /\ t[i] = p[i + 1]
  BY ItemFacts
<1>2. /\ plan' = [plan EXCEPT ![r] = t]
      /\ pc' = [pc EXCEPT ![r] = IF Len(p) = 1 THEN "idle" ELSE "check"]
      /\ plan \in [Requesters -> Seq(Items)]
      /\ pc \in [Threads -> PCs]
  BY DEF Advance, Goto, Types
<1>3. /\ plan'[r] = t
      /\ \A q \in Requesters : q # r => plan'[q] = plan[q]
      /\ \A q \in Threads : q # r => pc'[q] = pc[q]
      /\ pc'[r] = (IF Len(p) = 1 THEN "idle" ELSE "check")
  BY <1>0, <1>2
<1>4. Distinct(p)
  BY DEF PlanShape
<1>t. plan' \in [Requesters -> Seq(Items)]
  BY <1>1, <1>2
<1>u. pc' \in [Threads -> PCs]
  BY <1>2 DEF PCs
<1> HIDE DEF p, t
<1>5. Distinct(t)
  <2> SUFFICES ASSUME NEW i \in 1 .. Len(t), NEW j \in 1 .. Len(t), i # j
               PROVE  t[i].copy # t[j].copy
    BY DEF Distinct
  <2>1. i + 1 \in 1 .. Len(p) /\ j + 1 \in 1 .. Len(p) /\ i + 1 # j + 1
    BY <1>1
  <2>2. t[i] = p[i + 1] /\ t[j] = p[j + 1]
    BY <1>1
  <2> QED
    BY <1>4, <2>1, <2>2 DEF Distinct
<1>6. Len(p) = 1 <=> t = <<>>
  BY <1>1
<1>7. PlanShape'
  <2> SUFFICES ASSUME NEW q \in Requesters
               PROVE  (pc'[q] = "idle" <=> plan'[q] = <<>>) /\ Distinct(plan'[q])
    BY DEF PlanShape, Distinct
  <2>1. CASE q = r
    BY <1>3, <1>5, <1>6, <2>1
  <2>2. CASE q # r
    BY <1>3, <2>2, ThreadFacts DEF PlanShape
  <2> QED
    BY <2>1, <2>2
<1>8. ASSUME NEW b \in Branches, NEW c \in Bound(r, b)'
      PROVE  c \in Bound(r, b) /\ c # Item(r).copy
  <2>1. PICK i \in 1 .. Len(t) : t[i].copy = c /\ t[i].dest = b
    BY <1>3 DEF Bound
  <2>2. c \in Copies
    BY DEF Bound
  <2>3. i + 1 \in 1 .. Len(p) /\ t[i] = p[i + 1] /\ 1 \in 1 .. Len(p) /\ i + 1 # 1
    BY <1>1, <2>1
  <2>4. c \in Bound(r, b)
    BY <2>1, <2>2, <2>3 DEF Bound, p
  <2> QED
    BY <1>1, <1>4, <2>1, <2>3, <2>4 DEF Distinct
<1>9. ASSUME NEW q \in Runners, NEW b \in Branches
      PROVE  Bound(q, b)' \subseteq Bound(q, b)
  <2>1. CASE q = r
    BY <1>8, <2>1
  <2>2. CASE q # r
    BY <1>3, <2>2, ThreadFacts DEF Bound
  <2> QED
    BY <2>1, <2>2
<1>10. pc'[r] \in {"idle", "check"}
  BY <1>3
<1> QED
  BY <1>t, <1>u, <1>3, <1>7, <1>8, <1>9, <1>10

(* Transfers keep copy and destination and are never opened again.         *)
SameMoves ==
    /\ Len(transfers') = Len(transfers)
    /\ \A i \in 1 .. Len(transfers) :
          /\ transfers'[i].copy = transfers[i].copy
          /\ transfers'[i].dest = transfers[i].dest
          /\ transfers'[i].auto = transfers[i].auto
          /\ transfers'[i].status \in {transfers[i].status, "COMPLETED"}

(* Then no others are open, to any branch.                                 *)
LEMMA SameOpen ==
    ASSUME SameMoves
    PROVE  /\ Open' \subseteq Open
           /\ \A b \in Branches : Autonomous(b)' \subseteq Autonomous(b)
<1>1. Open' \subseteq Open
  BY DEF SameMoves, Open
<1> QED
  BY <1>1 DEF SameMoves, Autonomous, Open

(* The claims on copies, of transfers under way and of those not yet       *)
(* filed, are kept by a step that makes no new one and touches none of the *)
(* copies, but for those that it races.                                    *)
LEMMA ClaimsKept ==
    ASSUME OpenTransfersMove, FilingMoves, raced \subseteq raced',
           \A i \in Moving' : /\ i \in Moving
                              /\ transfers'[i].copy = transfers[i].copy
                              /\ transfers'[i].dest = transfers[i].dest,
           \A r \in Requesters : pc'[r] = "file" =>
               pc[r] = "file" /\ Item(r)' = Item(r),
           \A i \in Moving' : transfers[i].copy \notin raced' =>
               copies'[transfers[i].copy] = copies[transfers[i].copy],
           \A r \in Requesters : pc'[r] = "file" /\ Item(r).copy \notin raced' =>
               copies'[Item(r).copy] = copies[Item(r).copy]
    PROVE  OpenTransfersMove' /\ FilingMoves'
<1>1. OpenTransfersMove'
  BY DEF OpenTransfersMove
<1>2. ASSUME NEW r \in Requesters, pc'[r] = "file", Item(r)'.copy \notin raced'
      PROVE  /\ copies'[Item(r)'.copy].status = "IN_TRANSIT"
             /\ copies'[Item(r)'.copy].target = Item(r)'.dest
             /\ \A i \in Moving' : transfers'[i].copy # Item(r)'.copy
             /\ \A q \in Requesters \ {r} : pc'[q] = "file" => Item(q)'.copy # Item(r)'.copy
  <2>1. pc[r] = "file" /\ Item(r)' = Item(r) /\ Item(r).copy \notin raced
    BY <1>2
  <2>2. /\ copies[Item(r).copy].status = "IN_TRANSIT"
        /\ copies[Item(r).copy].target = Item(r).dest
        /\ \A i \in Moving : transfers[i].copy # Item(r).copy
        /\ \A q \in Requesters \ {r} : pc[q] = "file" => Item(q).copy # Item(r).copy
    BY <2>1 DEF FilingMoves
  <2>3. copies'[Item(r).copy] = copies[Item(r).copy]
    BY <1>2, <2>1
  <2>4. \A q \in Requesters \ {r} : pc'[q] = "file" => Item(q)'.copy # Item(r)'.copy
    BY <2>1, <2>2
  <2>5. \A i \in Moving' : transfers'[i].copy # Item(r)'.copy
    BY <2>1, <2>2
  <2> QED
    BY <2>1, <2>2, <2>3, <2>4, <2>5
<1>3. FilingMoves'
  BY <1>2 DEF FilingMoves
<1> QED
  BY <1>1, <1>3

(* What remains to be shown of a step that starts and files nothing.       *)
LEMMA QuietStep ==
    ASSUME RebalancerInv, Types', PlanShape', JobShape', SameMoves,
           OpenTransfersMove' /\ FilingMoves',
           \A r \in Runners, b \in Branches : Bound(r, b)' \subseteq Bound(r, b)
    PROVE  RebalancerInv'
<1>1. RunnersCapped' /\ LoadBounded'
  BY SameOpen, Shrinks DEF RebalancerInv
<1> QED
  BY <1>1 DEF RebalancerInv

(***************************************************************************)
(* The actions                                                             *)
(***************************************************************************)
(* A step of a request that leaves copies and transfers alone.             *)
LEMMA LooksOnly ==
    ASSUME RebalancerInv, NEW r \in Requesters,
           \/ r \in Runners /\ (Skip(r) \/ Check(r))
           \/ Dispatch(r) \/ Abort(r)
           \/ r \in Movers /\ \E c \in Wanted, b \in Branches : Ask(r, c, b)
    PROVE  RebalancerInv'
<1>i. /\ Types /\ PlanShape /\ JobShape /\ RunnersCapped /\ LoadBounded
      /\ OpenTransfersMove /\ FilingMoves
  BY DEF RebalancerInv
<1>1. UNCHANGED <<copies, transfers, job, raced>>
  BY DEF Skip, Check, Dispatch, Abort, Ask
<1>2. SameMoves
  BY <1>1 DEF SameMoves
<1>3. SUFFICES /\ plan' \in [Requesters -> Seq(Items)]
               /\ pc' \in [Threads -> PCs]
               /\ PlanShape'
               /\ pc'[r] # "file"
               /\ \A q \in Threads : q # r => pc'[q] = pc[q]
               /\ \A q \in Requesters : q # r => plan'[q] = plan[q]
               /\ \A q \in Runners, b \in Branches : Bound(q, b)' \subseteq Bound(q, b)
  <2>1. Types'
    BY <1>i, <1>1, <1>3 DEF Types
  <2>2. JobShape'
    BY <1>i, <1>1, <1>3, ThreadFacts DEF JobShape
  <2>3. \A i : Landed(i)' = Landed(i)
    BY <1>1, <1>3, ThreadFacts DEF Landed
  <2>4. Moving' = Moving
    BY <1>1, <2>3 DEF Moving, Open
  <2>5. \A q \in Requesters : pc'[q] = "file" => pc[q] = "file" /\ Item(q)' = Item(q)
    BY <1>3, ThreadFacts DEF Item
  <2>6. OpenTransfersMove' /\ FilingMoves'
    BY <1>i, <1>1, <2>4, <2>5, ClaimsKept
  <2> QED
    BY <1>2, <1>3, <2>1, <2>2, <2>6, QuietStep
<1>r. r \in Threads /\ plan \in [Requesters -> Seq(Items)] /\ pc \in [Threads -> PCs]
  BY <1>i, ThreadFacts DEF Types
<1>4. CASE Skip(r)
  BY <1>i, <1>4, AdvanceFacts DEF Skip
<1>5. CASE Check(r) \/ Dispatch(r)
  <2>1. /\ plan' = plan /\ pc[r] # "idle"
        /\ pc' = [pc EXCEPT ![r] = "dispatch"] \/ pc' = [pc EXCEPT ![r] = "start"]
    BY <1>5 DEF Check, Dispatch, Goto
  <2>2. /\ pc' \in [Threads -> PCs] /\ pc'[r] \in {"dispatch", "start"}
        /\ \A q \in Threads : q # r => pc'[q] = pc[q]
    BY <1>r, <2>1 DEF PCs
  <2>3. PlanShape'
    BY <1>i, <2>1, <2>2, ThreadFacts DEF PlanShape, Distinct
  <2> QED
    BY <1>r, <2>1, <2>2, <2>3 DEF Bound
<1>6. CASE Abort(r)
  <2>1. plan' = [plan EXCEPT ![r] = <<>>] /\ pc' = [pc EXCEPT ![r] = "idle"]
    BY <1>6 DEF Abort, Goto
  <2>2. /\ plan' \in [Requesters -> Seq(Items)]
        /\ pc' \in [Threads -> PCs]
    BY <1>r, <2>1 DEF PCs
  <2>3. /\ plan'[r] = <<>> /\ pc'[r] = "idle"
        /\ \A q \in Requesters : q # r => plan'[q] = plan[q]
        /\ \A q \in Threads : q # r => pc'[q] = pc[q]
    BY <1>r, <2>1
  <2>4. PlanShape'
    BY <1>i, <2>3, ThreadFacts DEF PlanShape, Distinct
  <2>5. \A q \in Runners, b \in Branches : Bound(q, b)' \subseteq Bound(q, b)
    BY <2>3, ThreadFacts DEF Bound
  <2> QED
    BY <2>2, <2>3, <2>4, <2>5
<1>7. CASE r \in Movers /\ \E c \in Wanted, b \in Branches : Ask(r, c, b)
  <2>1. PICK c \in Wanted, b \in Branches : Ask(r, c, b)
    BY <1>7
  <2>2. PICK x : x = [copy |-> c, dest |-> b]
    OBVIOUS
  <2>3. x \in Items
    BY <2>2, RebalancerAssumption DEF Items, Copies
  <2>4. plan' = [plan EXCEPT ![r] = <<x>>] /\ pc' = [pc EXCEPT ![r] = "dispatch"]
    BY <2>1, <2>2 DEF Ask, Goto
  <2>5. plan' \in [Requesters -> Seq(Items)] /\ pc' \in [Threads -> PCs]
    <3>1. <<x>> \in Seq(Items)
      BY <2>3
    <3> QED
      BY <1>r, <2>4, <3>1 DEF PCs
  <2>6. /\ plan'[r] = <<x>> /\ pc'[r] = "dispatch"
        /\ \A q \in Requesters : q # r => plan'[q] = plan[q]
        /\ \A q \in Threads : q # r => pc'[q] = pc[q]
    BY <1>r, <2>4
  <2>7. Distinct(<<x>>) /\ <<x>> # <<>>
    BY DEF Distinct
  <2>8. PlanShape'
    <3> SUFFICES ASSUME NEW q \in Requesters
                 PROVE  (pc'[q] = "idle" <=> plan'[q] = <<>>) /\ Distinct(plan'[q])
      BY DEF PlanShape, Distinct
    <3>1. CASE q = r
      BY <2>6, <2>7, <3>1
    <3>2. CASE q # r
      BY <1>i, <2>6, <3>2, ThreadFacts DEF PlanShape
    <3> QED
      BY <3>1, <3>2
  <2>9. \A q \in Runners, d \in Branches : Bound(q, d)' = Bound(q, d)
    BY <1>7, <2>6, ThreadFacts DEF Bound
  <2> QED
    BY <2>5, <2>6, <2>8, <2>9
<1> QED
  BY <1>4, <1>5, <1>6, <1>7

(* A step of desk or time leaves the requests alone.                       *)
LEMMA OtherStep ==
    ASSUME RebalancerInv, UNCHANGED <<pc, plan, job>>, raced \subseteq raced', SameMoves,
           copies' \in [Copies -> BookCopy], transfers' \in Seq(Transfer),
           \A c \in Copies : copies[c].status = "IN_TRANSIT" /\ c \notin raced' =>
               copies'[c] = copies[c]
    PROVE  RebalancerInv'
<1>i. /\ Types /\ PlanShape /\ JobShape /\ RunnersCapped /\ LoadBounded
      /\ OpenTransfersMove /\ FilingMoves
  BY DEF RebalancerInv
<1>1. Types'
  BY <1>i DEF Types
<1>2. /\ PlanShape'
      /\ \A r \in Runners, b \in Branches : Bound(r, b)' \subseteq Bound(r, b)
  BY <1>i DEF PlanShape, Distinct, Bound
<1>3. JobShape'
  BY <1>i DEF JobShape, SameMoves
<1>4. \A i \in Open : i \in 1 .. Len(transfers) /\ transfers[i].copy \in Copies
  <2>1. \A i \in 1 .. Len(transfers) : transfers[i] \in Transfer
    BY <1>i DEF Types
  <2>2. \A i \in 1 .. Len(transfers) : transfers[i].copy \in Copies
    BY <2>1 DEF Transfer
  <2> QED
    BY <2>2 DEF Open
<1>5. ASSUME NEW i \in Moving'
      PROVE  /\ i \in Moving /\ transfers[i].copy \in Copies
             /\ transfers'[i].copy = transfers[i].copy
             /\ transfers'[i].dest = transfers[i].dest
  <2>1. i \in Open' /\ ~ Landed(i)'
    BY DEF Moving
  <2>2. i \in Open
    BY <2>1, SameOpen
  <2>3. ~ Landed(i)
    BY <1>4, <2>1, <2>2 DEF Landed, SameMoves
  <2> QED
    BY <1>4, <2>2, <2>3 DEF Moving, SameMoves
<1>6. ASSUME NEW i \in Moving', transfers[i].copy \notin raced'
      PROVE  copies'[transfers[i].copy] = copies[transfers[i].copy]
  BY <1>i, <1>5, <1>6 DEF OpenTransfersMove
<1>7. \A r \in Requesters : pc'[r] = "file" => pc[r] = "file" /\ Item(r)' = Item(r)
  BY DEF Item
<1>8. ASSUME NEW r \in Requesters, pc'[r] = "file", Item(r).copy \notin raced'
      PROVE  copies'[Item(r).copy] = copies[Item(r).copy]
  <2>1. Item(r).copy \in Copies
    BY <1>i, <1>8, ItemFacts
  <2>2. copies[Item(r).copy].status = "IN_TRANSIT"
    BY <1>i, <1>8 DEF FilingMoves
  <2> QED
    BY <1>8, <2>1, <2>2
<1>9. OpenTransfersMove' /\ FilingMoves'
  BY <1>i, <1>5, <1>6, <1>7, <1>8, ClaimsKept
<1> QED
  BY <1>1, <1>2, <1>3, <1>9, QuietStep

(* A checkout or a return touches no copy that is under way, unless the    *)
(* checkout has looked before the copy left, and races it.                 *)
LEMMA DeskSteps ==
    ASSUME RebalancerInv, NEW c \in Copies, Look(c) \/ Checkout(c) \/ Return(c)
    PROVE  RebalancerInv'
<1>1. UNCHANGED <<pc, plan, job>> /\ raced \subseteq raced'
  BY DEF Look, Checkout, Return, work
<1>2. copies \in [Copies -> BookCopy] /\ transfers \in Seq(Transfer) /\ Len(transfers) \in Nat
  BY DEF RebalancerInv, Types
<1>3. /\ copies' \in [Copies -> BookCopy]
      /\ \A d \in Copies : copies[d].status = "IN_TRANSIT" /\ d \notin raced' =>
            copies'[d] = copies[d]
  <2>1. CASE Checkout(c)
    <3>1. Reader \in Users
      BY RebalancerAssumption DEF Reader
    <3>2. CheckOut(copies[c], Reader) \in BookCopy
      BY <1>2, <3>1 DEF CheckOut, BookCopy, BookStatus
    <3>3. /\ copies' = [copies EXCEPT ![c] = CheckOut(copies[c], Reader)]
          /\ copies[c].status # "AVAILABLE" => c \in raced'
      BY <2>1 DEF Checkout
    <3> QED
      BY <1>2, <3>2, <3>3
  <2>2. CASE Return(c)
    <3>1. ReturnBook(copies[c]) \in BookCopy
      BY <1>2 DEF ReturnBook, BookCopy, BookStatus
    <3>2. copies' = [copies EXCEPT ![c] = ReturnBook(copies[c])]
      BY <2>2 DEF Return
    <3> QED
      BY <1>2, <2>2, <3>1, <3>2 DEF Return
  <2>3. CASE Look(c)
    BY <1>2, <2>3 DEF Look
  <2> QED
    BY <2>1, <2>2, <2>3
<1>4. transfers' \in Seq(Transfer) /\ SameMoves
  <2>1. CASE Checkout(c)
    <3> DEFINE n == Len(transfers)
    <3> DEFINE u(i) == IF i \in Confirmed(c)
                       THEN [transfers[i] EXCEPT !.borrowed = TRUE] ELSE transfers[i]
    <3>1. transfers' = [i \in 1 .. n |-> u(i)]
      BY <2>1 DEF Checkout
    <3>2. \A i \in 1 .. n : transfers[i] \in Transfer
      BY <1>2
    <3>3. \A i \in 1 .. n : /\ u(i) \in Transfer
                            /\ u(i).copy = transfers[i].copy
                            /\ u(i).dest = transfers[i].dest
                            /\ u(i).auto = transfers[i].auto
                            /\ u(i).status = transfers[i].status
      BY <3>2 DEF Transfer
    <3> HIDE DEF u
    <3> QED
      BY <1>2, <3>1, <3>3 DEF SameMoves
  <2>2. CASE Return(c) \/ Look(c)
    BY <2>2, <1>2 DEF Return, Look, SameMoves
  <2> QED
    BY <2>1, <2>2
<1> QED
  BY <1>1, <1>3, <1>4, OtherStep

(* Time makes transfers stale, and no more.                                *)
LEMMA TimeSteps ==
    ASSUME RebalancerInv, WeekPasses \/ MonthPasses
    PROVE  RebalancerInv'
<1>1. UNCHANGED <<copies, pc, plan, job, raced>> /\ transfers' = Stale
  BY DEF WeekPasses, MonthPasses, work
<1>2. copies \in [Copies -> BookCopy] /\ transfers \in Seq(Transfer) /\ Len(transfers) \in Nat
  BY DEF RebalancerInv, Types
<1>4. transfers' \in Seq(Transfer) /\ SameMoves
  <2> DEFINE n == Len(transfers)
             u(i) == [transfers[i] EXCEPT !.fresh = FALSE]
  <2>1. transfers' = [i \in 1 .. n |-> u(i)]
    BY <1>1 DEF Stale
  <2>2. \A i \in 1 .. n : transfers[i] \in Transfer
    BY <1>2
  <2>3. \A i \in 1 .. n : /\ u(i) \in Transfer
                          /\ u(i).copy = transfers[i].copy
                          /\ u(i).dest = transfers[i].dest
                          /\ u(i).auto = transfers[i].auto
                          /\ u(i).status = transfers[i].status
    BY <2>2 DEF Transfer
  <2> HIDE DEF u
  <2> QED
    BY <1>2, <2>1, <2>3 DEF SameMoves
<1> QED
  BY <1>1, <1>2, <1>4, OtherStep

(* A completer that has not reached the copy changes nothing but itself.   *)
LEMMA ArriveLooks ==
    ASSUME RebalancerInv, NEW k \in Completers,
           \/ \E i \in 1 .. Len(transfers) : Arrive(k, i)
           \/ ArriveRefused(k) \/ ArriveDispatch(k)
    PROVE  RebalancerInv'
<1>i. /\ Types /\ PlanShape /\ JobShape /\ RunnersCapped /\ LoadBounded
      /\ OpenTransfersMove /\ FilingMoves
  BY DEF RebalancerInv
<1>1. UNCHANGED <<copies, transfers, plan, raced>> /\ pc[k] \in {"idle", "found"}
  BY DEF Arrive, ArriveRefused, ArriveDispatch
<1>2. SameMoves
  BY <1>1 DEF SameMoves
<1>3. k \in Threads /\ pc \in [Threads -> PCs] /\ job \in [Completers -> Nat] /\ Len(transfers) \in Nat
  BY <1>i, ThreadFacts DEF Types
<1>4. /\ pc' \in [Threads -> PCs] /\ job' \in [Completers -> Nat]
      /\ pc'[k] \in {"idle", "found", "free"}
      /\ pc'[k] # "idle" => job'[k] \in 1 .. Len(transfers)
      /\ \A q \in Threads : q # k => pc'[q] = pc[q]
      /\ \A q \in Completers : q # k => job'[q] = job[q]
  <2>1. ASSUME NEW i \in 1 .. Len(transfers), Arrive(k, i)
        PROVE  pc' = [pc EXCEPT ![k] = "found"] /\ job' = [job EXCEPT ![k] = i]
    BY <2>1 DEF Arrive, Goto
  <2>2. CASE \E i \in 1 .. Len(transfers) : Arrive(k, i)
    BY <1>3, <2>1, <2>2 DEF PCs
  <2>3. CASE ArriveRefused(k)
    <3>1. pc' = [pc EXCEPT ![k] = "idle"] /\ job' = [job EXCEPT ![k] = 0]
      BY <2>3 DEF ArriveRefused, Goto
    <3> QED
      BY <1>3, <3>1 DEF PCs
  <2>4. CASE ArriveDispatch(k)
    <3>1. pc' = [pc EXCEPT ![k] = "free"] /\ job' = job /\ pc[k] # "idle"
      BY <2>4 DEF ArriveDispatch, Goto
    <3> QED
      BY <1>i, <1>3, <3>1 DEF PCs, JobShape
  <2> QED
    BY <2>2, <2>3, <2>4
<1>5. Types'
  BY <1>i, <1>1, <1>4 DEF Types
<1>6. /\ PlanShape'
      /\ \A r \in Runners, b \in Branches : Bound(r, b)' \subseteq Bound(r, b)
  BY <1>i, <1>1, <1>4, ThreadFacts DEF PlanShape, Distinct, Bound
<1>7. JobShape'
  BY <1>i, <1>1, <1>4, ThreadFacts DEF JobShape
<1>8. \A i : Landed(i)' = Landed(i)
  BY <1>1, <1>4, ThreadFacts DEF Landed
<1>9. Moving' = Moving
  BY <1>1, <1>8 DEF Moving, Open
<1>10. \A r \in Requesters : pc'[r] = "file" => pc[r] = "file" /\ Item(r)' = Item(r)
  BY <1>1, <1>4, ThreadFacts DEF Item
<1>11. OpenTransfersMove' /\ FilingMoves'
  BY <1>i, <1>1, <1>9, <1>10, ClaimsKept
<1> QED
  BY <1>2, <1>5, <1>6, <1>7, <1>11, QuietStep

(* The copy that is freed has no other claim on it, unless its transfer    *)
(* had landed: then it is raced.                                           *)
LEMMA FreeStep ==
    ASSUME RebalancerInv, NEW k \in Completers, ArriveFree(k)
    PROVE  RebalancerInv'
<1>i. /\ Types /\ PlanShape /\ JobShape /\ RunnersCapped /\ LoadBounded
      /\ OpenTransfersMove /\ FilingMoves
  BY DEF RebalancerInv
<1>1. PICK i : i = job[k]
  OBVIOUS
<1>2. PICK c : c = transfers[i].copy
  OBVIOUS
<1>3. /\ UNCHANGED <<transfers, plan, job>> /\ pc[k] = "free"
      /\ copies' = [copies EXCEPT ![c] = CompleteTransfer(copies[c])]
      /\ raced' = IF Landed(i) THEN raced \cup {c} ELSE raced
      /\ pc' = [pc EXCEPT ![k] = "close"]
  BY <1>1, <1>2 DEF ArriveFree, Goto
<1>4. /\ copies \in [Copies -> BookCopy] /\ pc \in [Threads -> PCs]
      /\ \A j \in 1 .. Len(transfers) : transfers[j] \in Transfer
      /\ i \in 1 .. Len(transfers) /\ k \in Threads
  BY <1>i, <1>1, <1>3, ThreadFacts DEF Types, JobShape
<1>5. c \in Copies /\ \A j \in 1 .. Len(transfers) : transfers[j].copy \in Copies
  BY <1>2, <1>4 DEF Transfer
<1>6. copies' \in [Copies -> BookCopy] /\ \A d \in Copies : d # c => copies'[d] = copies[d]
  <2>1. copies[c] \in BookCopy
    BY <1>4, <1>5
  <2>2. CompleteTransfer(copies[c]) \in BookCopy
    BY <2>1 DEF CompleteTransfer, BookCopy, BookStatus
  <2> QED
    BY <1>3, <1>4, <1>5, <2>2
<1>7. /\ pc' \in [Threads -> PCs] /\ pc'[k] = "close"
      /\ \A q \in Threads : q # k => pc'[q] = pc[q]
  BY <1>3, <1>4 DEF PCs
<1>8. SameMoves
  BY <1>3 DEF SameMoves
<1>9. Types'
  BY <1>i, <1>3, <1>6, <1>7 DEF Types
<1>10. /\ PlanShape'
       /\ \A r \in Runners, b \in Branches : Bound(r, b)' \subseteq Bound(r, b)
  BY <1>i, <1>3, <1>7, ThreadFacts DEF PlanShape, Distinct, Bound
<1>11. JobShape'
  <2> SUFFICES ASSUME NEW q \in Completers, pc'[q] # "idle"
               PROVE  job[q] \in 1 .. Len(transfers)
    BY <1>3 DEF JobShape
  <2>1. CASE q = k
    BY <1>1, <1>4, <2>1
  <2>2. CASE q # k
    BY <1>i, <1>7, <2>2, ThreadFacts DEF JobShape
  <2> QED
    BY <2>1, <2>2
<1>12. Landed(i)' /\ \A j : Landed(j) => Landed(j)'
  BY <1>1, <1>3, <1>7, ThreadFacts DEF Landed
<1>13. Moving' \subseteq Moving \ {i}
  BY <1>3, <1>12 DEF Moving, Open
<1>14. ~ Landed(i) => i \in Moving
  <2>1. transfers[i].status \in {"IN_TRANSIT", "COMPLETED"}
    BY <1>4 DEF Transfer
  <2> QED
    BY <1>4, <2>1 DEF Moving, Open, Landed
<1>15. ASSUME NEW j \in Moving', transfers[j].copy \notin raced'
       PROVE  copies'[transfers[j].copy] = copies[transfers[j].copy]
  <2>1. j \in Moving /\ j # i /\ transfers[j].copy \in Copies /\ transfers[j].copy \notin raced
    BY <1>3, <1>5, <1>13, <1>15 DEF Moving, Open
  <2>2. transfers[j].copy # c
    <3>1. CASE Landed(i)
      BY <1>3, <1>15, <3>1
    <3>2. CASE ~ Landed(i)
      BY <1>i, <1>2, <1>14, <2>1, <3>2 DEF OpenTransfersMove
    <3> QED
      BY <3>1, <3>2
  <2> QED
    BY <1>6, <2>1, <2>2
<1>16. \A r \in Requesters : pc'[r] = "file" => pc[r] = "file" /\ Item(r)' = Item(r)
  BY <1>3, <1>7, ThreadFacts DEF Item
<1>17. ASSUME NEW r \in Requesters, pc'[r] = "file", Item(r).copy \notin raced'
       PROVE  copies'[Item(r).copy] = copies[Item(r).copy]
  <2>1. pc[r] = "file" /\ Item(r).copy \notin raced
    BY <1>3, <1>16, <1>17
  <2>2. Item(r).copy \in Copies
    BY <1>i, <2>1, ItemFacts
  <2>3. Item(r).copy # c
    <3>1. CASE Landed(i)
      BY <1>3, <1>17, <3>1
    <3>2. CASE ~ Landed(i)
      BY <1>i, <1>2, <1>14, <2>1, <3>2 DEF FilingMoves
    <3> QED
      BY <3>1, <3>2
  <2> QED
    BY <1>6, <2>2, <2>3
<1>18. OpenTransfersMove' /\ FilingMoves'
  <2>1. raced \subseteq raced'
    BY <1>3
  <2>2. \A j \in Moving' : /\ j \in Moving
                           /\ transfers'[j].copy = transfers[j].copy
                           /\ transfers'[j].dest = transfers[j].dest
    BY <1>3, <1>13
  <2> QED
    BY <1>i, <1>15, <1>16, <1>17, <2>1, <2>2, ClaimsKept
<1> QED
  BY <1>8, <1>9, <1>10, <1>11, <1>18, QuietStep

(* Closing a transfer that has landed changes nothing about the others.    *)
LEMMA CloseStep ==
    ASSUME RebalancerInv, NEW k \in Completers, ArriveClose(k)
    PROVE  RebalancerInv'
<1>i. /\ Types /\ PlanShape /\ JobShape /\ RunnersCapped /\ LoadBounded
      /\ OpenTransfersMove /\ FilingMoves
  BY DEF RebalancerInv
<1>1. PICK i : i = job[k]
  OBVIOUS
<1> DEFINE u == [transfers[i] EXCEPT !.status = "COMPLETED", !.fresh = transfers[i].auto]
<1>2. /\ UNCHANGED <<copies, plan, raced>> /\ pc[k] = "close"
      /\ job' = [job EXCEPT ![k] = 0] /\ pc' = [pc EXCEPT ![k] = "idle"]
  BY DEF ArriveClose, Goto
<1>3. /\ transfers \in Seq(Transfer) /\ pc \in [Threads -> PCs] /\ job \in [Completers -> Nat]
      /\ Len(transfers) \in Nat
      /\ \A j \in 1 .. Len(transfers) : transfers[j] \in Transfer
      /\ i \in 1 .. Len(transfers) /\ k \in Threads
  BY <1>i, <1>1, <1>2, ThreadFacts DEF Types, JobShape
<1>4. /\ u \in Transfer /\ u.status = "COMPLETED" /\ u.copy = transfers[i].copy
      /\ u.dest = transfers[i].dest /\ u.auto = transfers[i].auto
  <2>1. transfers[i] \in Transfer
    BY <1>3
  <2> QED
    BY <2>1 DEF Transfer
<1>5. transfers' = [transfers EXCEPT ![i] = u]
  BY <1>1 DEF ArriveClose
<1> HIDE DEF u
<1>6. /\ transfers' \in Seq(Transfer) /\ Len(transfers') = Len(transfers)
      /\ \A j \in 1 .. Len(transfers) : transfers'[j] = IF j = i THEN u ELSE transfers[j]
  BY <1>3, <1>4, <1>5
<1>7. SameMoves
  BY <1>4, <1>6 DEF SameMoves
<1>8. /\ pc' \in [Threads -> PCs] /\ pc'[k] = "idle"
      /\ job' \in [Completers -> Nat]
      /\ \A q \in Threads : q # k => pc'[q] = pc[q]
      /\ \A q \in Completers : q # k => job'[q] = job[q]
  BY <1>2, <1>3 DEF PCs
<1>9. Types'
  BY <1>i, <1>2, <1>6, <1>8 DEF Types
<1>10. /\ PlanShape'
       /\ \A r \in Runners, b \in Branches : Bound(r, b)' \subseteq Bound(r, b)
  BY <1>i, <1>2, <1>8, ThreadFacts DEF PlanShape, Distinct, Bound
<1>11. JobShape'
  BY <1>i, <1>6, <1>8, ThreadFacts DEF JobShape
<1>12. ASSUME NEW j \in Moving'
       PROVE  /\ j \in Moving /\ transfers'[j].copy = transfers[j].copy
              /\ transfers'[j].dest = transfers[j].dest
  <2>1. j \in Open' /\ ~ Landed(j)' /\ j \in Open /\ j \in 1 .. Len(transfers)
    BY <1>7, SameOpen DEF Moving, Open
  <2>2. j # i
    BY <1>3, <1>4, <1>6, <2>1 DEF Open
  <2>3. transfers'[j] = transfers[j]
    BY <1>6, <2>1, <2>2
  <2>4. ~ Landed(j)
    <3>1. SUFFICES ASSUME NEW q \in Completers, pc[q] = "close", job[q] = j
                   PROVE  Landed(j)'
      BY <2>1, <2>3 DEF Landed
    <3>2. q # k
      BY <1>1, <2>2, <3>1
    <3>3. pc'[q] = "close" /\ job'[q] = j
      BY <1>8, <3>1, <3>2, ThreadFacts
    <3> QED
      BY <3>3 DEF Landed
  <2> QED
    BY <2>1, <2>3, <2>4 DEF Moving
<1>13. \A r \in Requesters : pc'[r] = "file" => pc[r] = "file" /\ Item(r)' = Item(r)
  BY <1>2, <1>8, ThreadFacts DEF Item
<1>14. OpenTransfersMove' /\ FilingMoves'
  BY <1>i, <1>2, <1>12, <1>13, ClaimsKept
<1> QED
  BY <1>7, <1>9, <1>10, <1>11, <1>14, QuietStep

(* A request that finds the copy still on the shelf is the only one with a *)
(* claim on it; otherwise the copy is raced.                               *)
LEMMA StartStep ==
    ASSUME RebalancerInv, NEW r \in Requesters, Start(r)
    PROVE  RebalancerInv'
<1>i. /\ Types /\ PlanShape /\ JobShape /\ RunnersCapped /\ LoadBounded
      /\ OpenTransfersMove /\ FilingMoves
  BY DEF RebalancerInv
<1>1. PICK x : x = Item(r)
  OBVIOUS
<1>2. PICK c : c = x.copy
  OBVIOUS
<1>3. /\ UNCHANGED <<transfers, plan, job>> /\ pc[r] = "start"
      /\ copies' = [copies EXCEPT ![c] = StartTransfer(copies[c], x.dest)]
      /\ raced' = IF copies[c].status = "AVAILABLE" THEN raced ELSE raced \cup {c}
      /\ pc' = [pc EXCEPT ![r] = "file"]
  BY <1>1, <1>2 DEF Start, Goto
<1>4. /\ copies \in [Copies -> BookCopy] /\ pc \in [Threads -> PCs] /\ r \in Threads
      /\ c \in Copies /\ x.dest \in Branches
      /\ \A j \in 1 .. Len(transfers) : transfers[j] \in Transfer
  BY <1>i, <1>1, <1>2, <1>3, ThreadFacts, ItemFacts DEF Types
<1>5. /\ copies' \in [Copies -> BookCopy] /\ copies'[c].status = "IN_TRANSIT"
      /\ copies'[c].target = x.dest
      /\ \A d \in Copies : d # c => copies'[d] = copies[d]
  <2>1. copies[c] \in BookCopy
    BY <1>4
  <2>2. /\ StartTransfer(copies[c], x.dest) \in BookCopy
        /\ StartTransfer(copies[c], x.dest).status = "IN_TRANSIT"
        /\ StartTransfer(copies[c], x.dest).target = x.dest
    BY <1>4, <2>1 DEF StartTransfer, BookCopy, BookStatus
  <2> QED
    BY <1>3, <1>4, <2>2
<1>6. /\ pc' \in [Threads -> PCs] /\ pc'[r] = "file"
      /\ \A q \in Threads : q # r => pc'[q] = pc[q]
  BY <1>3, <1>4 DEF PCs
<1>7. SameMoves
  BY <1>3 DEF SameMoves
<1>8. Types'
  BY <1>i, <1>3, <1>5, <1>6 DEF Types
<1>9. PlanShape'
  <2>1. plan[r] # <<>>
    BY <1>i, <1>3 DEF PlanShape
  <2> QED
    BY <1>i, <1>3, <1>6, <2>1, ThreadFacts DEF PlanShape, Distinct
<1>10. \A q \in Runners, b \in Branches : Bound(q, b)' \subseteq Bound(q, b)
  BY <1>3 DEF Bound
<1>11. JobShape'
  BY <1>i, <1>3, <1>6, ThreadFacts DEF JobShape
<1>12. \A i : Landed(i)' = Landed(i)
  BY <1>3, <1>6, ThreadFacts DEF Landed
<1>13. Moving' = Moving /\ \A i \in Moving : transfers[i].copy \in Copies
  <2>1. \A j \in 1 .. Len(transfers) : transfers[j].copy \in Copies
    BY <1>4 DEF Transfer
  <2> QED
    BY <1>3, <1>12, <2>1 DEF Moving, Open
<1>14. \A q \in Requesters : Item(q)' = Item(q)
  BY <1>3 DEF Item
<1>15. c \notin raced' =>
         /\ \A i \in Moving : transfers[i].copy # c
         /\ \A q \in Requesters : pc[q] = "file" => Item(q).copy # c
  BY <1>i, <1>3 DEF OpenTransfersMove, FilingMoves
<1>16. OpenTransfersMove'
  <2> SUFFICES ASSUME NEW i \in Moving, transfers[i].copy \notin raced'
               PROVE  /\ copies'[transfers[i].copy].status = "IN_TRANSIT"
                      /\ copies'[transfers[i].copy].target = transfers[i].dest
                      /\ \A j \in Moving \ {i} : transfers[j].copy # transfers[i].copy
    BY <1>3, <1>13 DEF OpenTransfersMove
  <2>1. transfers[i].copy \notin raced /\ transfers[i].copy # c
    BY <1>3, <1>15
  <2>2. copies'[transfers[i].copy] = copies[transfers[i].copy]
    BY <1>5, <1>13, <2>1
  <2> QED
    BY <1>i, <2>1, <2>2 DEF OpenTransfersMove
<1>17. FilingMoves'
  <2> SUFFICES ASSUME NEW q \in Requesters, pc'[q] = "file", Item(q).copy \notin raced'
               PROVE  /\ copies'[Item(q).copy].status = "IN_TRANSIT"
                      /\ copies'[Item(q).copy].target = Item(q).dest
                      /\ \A i \in Moving : transfers[i].copy # Item(q).copy
                      /\ \A s \in Requesters \ {q} :
                            pc'[s] = "file" => Item(s).copy # Item(q).copy
    BY <1>3, <1>13, <1>14 DEF FilingMoves
  <2>1. CASE q = r
    BY <1>1, <1>2, <1>5, <1>6, <1>15, <2>1, ThreadFacts
  <2>2. CASE q # r
    <3>1. pc[q] = "file" /\ Item(q).copy \notin raced
      BY <1>3, <1>6, <2>2, ThreadFacts
    <3>2. /\ copies[Item(q).copy].status = "IN_TRANSIT"
          /\ copies[Item(q).copy].target = Item(q).dest
          /\ \A i \in Moving : transfers[i].copy # Item(q).copy
          /\ \A s \in Requesters \ {q} : pc[s] = "file" => Item(s).copy # Item(q).copy
      BY <1>i, <3>1 DEF FilingMoves
    <3>3. Item(q).copy # c /\ Item(q).copy \in Copies
      <4>1. c \in raced' \/ copies[c].status = "AVAILABLE"
        BY <1>3
      <4>2. Item(q).copy \in Copies
        BY <1>i, <3>1, ItemFacts
      <4> QED
        BY <3>2, <4>1, <4>2
    <3>4. copies'[Item(q).copy] = copies[Item(q).copy]
      BY <1>5, <3>3
    <3>5. \A s \in Requesters \ {q} : pc'[s] = "file" => Item(s).copy # Item(q).copy
      BY <1>1, <1>2, <1>6, <3>2, <3>3, ThreadFacts
    <3> QED
      BY <3>2, <3>4, <3>5
  <2> QED
    BY <2>1, <2>2
<1> QED
  BY <1>7, <1>8, <1>9, <1>10, <1>11, <1>16, <1>17, QuietStep

(* One element for another leaves a set no larger.                         *)
LEMMA Exchange ==
    ASSUME NEW S, IsFiniteSet(S), NEW e \in S, NEW f,
           NEW T \in SUBSET ((S \ {e}) \cup {f})
    PROVE  IsFiniteSet(T) /\ Cardinality(T) \in Nat /\ Cardinality(T) <= Cardinality(S)
<1>1. PICK R : R = S \ {e}
  OBVIOUS
<1>2. IsFiniteSet(R) /\ Cardinality(R) = Cardinality(S) - 1
  BY <1>1, FS_RemoveElement
<1>3. /\ IsFiniteSet(R \cup {f})
      /\ Cardinality(R \cup {f}) = IF f \in R THEN Cardinality(R) ELSE Cardinality(R) + 1
  BY <1>2, FS_AddElement
<1>4. IsFiniteSet(T) /\ Cardinality(T) <= Cardinality(R \cup {f})
  BY <1>1, <1>3, FS_Subset
<1>5. Cardinality(T) \in Nat /\ Cardinality(S) \in Nat
  BY <1>4, FS_CardinalityType
<1> QED
  BY <1>2, <1>3, <1>4, <1>5

(* A transfer of the rebalancer that is filed leaves the plan of its       *)
(* runner: the load of the branch stays.  Filing hands the claim of the    *)
(* request on the copy over to the transfer.                               *)
LEMMA FileStep ==
    ASSUME RebalancerInv, NEW r \in Requesters, File(r)
    PROVE  RebalancerInv'
<1>i. /\ Types /\ PlanShape /\ JobShape /\ RunnersCapped /\ LoadBounded
      /\ OpenTransfersMove /\ FilingMoves
  BY DEF RebalancerInv
<1>1. PICK x : x = Item(r)
  OBVIOUS
<1>a. PICK a \in BOOLEAN : a = (r \in Runners)
  <2>1. CASE r \in Runners
    BY <2>1, Zenon
  <2>2. CASE r \notin Runners
    <3>1. (r \in Runners) = FALSE
      BY <2>2
    <3> WITNESS FALSE \in BOOLEAN
    <3> QED
      BY <3>1, Zenon
  <2> QED
    BY <2>1, <2>2
<1> DEFINE n == Len(transfers)
           y == [copy |-> x.copy, dest |-> x.dest, auto |-> a,
                 status |-> "IN_TRANSIT", fresh |-> FALSE, borrowed |-> FALSE]
<1>2. /\ pc[r] = "file" /\ Advance(r) /\ UNCHANGED <<copies, job, raced>>
      /\ transfers' = Append(transfers, y)
  BY <1>1, <1>a DEF File
<1>3. /\ transfers \in Seq(Transfer) /\ n \in Nat
      /\ \A j \in 1 .. n : transfers[j] \in Transfer
  BY <1>i DEF Types
<1>4. /\ x.copy \in Copies /\ x.dest \in Branches
      /\ Len(plan[r]) \in Nat \ {0} /\ x = plan[r][1]
  BY <1>i, <1>1, <1>2, ItemFacts
<1>5. /\ plan' \in [Requesters -> Seq(Items)]
      /\ pc' \in [Threads -> PCs]
      /\ PlanShape'
      /\ pc'[r] \in {"idle", "check"}
      /\ \A q \in Threads : q # r => pc'[q] = pc[q]
      /\ \A q \in Requesters : q # r => plan'[q] = plan[q]
      /\ \A q \in Runners, b \in Branches : Bound(q, b)' \subseteq Bound(q, b)
      /\ \A b \in Branches : x.copy \notin Bound(r, b)'
  BY <1>i, <1>1, <1>2, AdvanceFacts
<1>b. y \in Transfer
  BY <1>4 DEF Transfer
<1>c. y.copy = x.copy /\ y.dest = x.dest /\ y.status = "IN_TRANSIT" /\ y.auto = a
  OBVIOUS
<1>6. /\ y \in Transfer /\ y.copy = x.copy /\ y.dest = x.dest
      /\ y.status = "IN_TRANSIT" /\ (y.auto <=> r \in Runners)
  BY <1>a, <1>b, <1>c, Zenon
<1> HIDE DEF y
<1>7. /\ transfers' \in Seq(Transfer) /\ Len(transfers') = n + 1
      /\ transfers'[n + 1] = y
      /\ \A j \in 1 .. n : transfers'[j] = transfers[j]
  BY <1>2, <1>3, <1>6
<1>8. Open' = Open \cup {n + 1} /\ n + 1 \notin Open
  BY <1>3, <1>6, <1>7 DEF Open
<1>9. \A j \in Open : j \in 1 .. n /\ transfers[j].copy \in Copies
  BY <1>3 DEF Open, Transfer
<1>10. Moving' \subseteq Moving \cup {n + 1}
  <2> SUFFICES ASSUME NEW j \in Moving', j # n + 1 PROVE j \in Moving
    OBVIOUS
  <2>1. j \in Open /\ ~ Landed(j)' /\ j \in 1 .. n
    BY <1>8, <1>9 DEF Moving
  <2>2. ~ Landed(j)
    BY <1>2, <1>5, <1>7, <2>1, ThreadFacts DEF Landed
  <2> QED
    BY <2>1, <2>2 DEF Moving
<1>11. \A j \in Moving : j \in 1 .. n /\ transfers'[j] = transfers[j] /\ j # n + 1
  BY <1>3, <1>7, <1>9 DEF Moving
<1>12. x.copy \notin raced =>
         /\ copies[x.copy].status = "IN_TRANSIT"
         /\ copies[x.copy].target = x.dest
         /\ \A i \in Moving : transfers[i].copy # x.copy
         /\ \A q \in Requesters \ {r} : pc[q] = "file" => Item(q).copy # x.copy
  BY <1>i, <1>1, <1>2 DEF FilingMoves
<1>13. OpenTransfersMove'
  <2> SUFFICES ASSUME NEW j \in Moving', transfers'[j].copy \notin raced
               PROVE  /\ copies[transfers'[j].copy].status = "IN_TRANSIT"
                      /\ copies[transfers'[j].copy].target = transfers'[j].dest
                      /\ \A k \in Moving' \ {j} : transfers'[k].copy # transfers'[j].copy
    BY <1>2 DEF OpenTransfersMove
  <2>1. CASE j = n + 1
    BY <1>6, <1>7, <1>10, <1>11, <1>12, <2>1
  <2>2. CASE j # n + 1
    <3>1. j \in Moving /\ transfers'[j] = transfers[j]
      BY <1>10, <1>11, <2>2
    <3>2. /\ copies[transfers[j].copy].status = "IN_TRANSIT"
          /\ copies[transfers[j].copy].target = transfers[j].dest
          /\ \A k \in Moving \ {j} : transfers[k].copy # transfers[j].copy
      BY <1>i, <3>1 DEF OpenTransfersMove
    <3>3. transfers[j].copy # x.copy
      BY <1>12, <3>1
    <3> QED
      BY <1>6, <1>7, <1>10, <1>11, <3>1, <3>2, <3>3
  <2> QED
    BY <2>1, <2>2
<1>14. FilingMoves'
  <2> SUFFICES ASSUME NEW q \in Requesters, pc'[q] = "file", Item(q)'.copy \notin raced
               PROVE  /\ copies[Item(q)'.copy].status = "IN_TRANSIT"
                      /\ copies[Item(q)'.copy].target = Item(q)'.dest
                      /\ \A i \in Moving' : transfers'[i].copy # Item(q)'.copy
                      /\ \A s \in Requesters \ {q} :
                            pc'[s] = "file" => Item(s)'.copy # Item(q)'.copy
    BY <1>2 DEF FilingMoves
  <2>1. \A s \in Requesters : pc'[s] = "file" => s # r /\ pc[s] = "file" /\ Item(s)' = Item(s)
    BY <1>5, ThreadFacts DEF Item
  <2>2. q # r /\ pc[q] = "file" /\ Item(q)' = Item(q)
    BY <2>1
  <2>3. /\ copies[Item(q).copy].status = "IN_TRANSIT"
        /\ copies[Item(q).copy].target = Item(q).dest
        /\ \A i \in Moving : transfers[i].copy # Item(q).copy
        /\ \A s \in Requesters \ {q} : pc[s] = "file" => Item(s).copy # Item(q).copy
    BY <1>i, <2>2 DEF FilingMoves
  <2>4. x.copy # Item(q).copy
    BY <1>1, <1>2, <2>2, <2>3
  <2>5. \A i \in Moving' : transfers'[i].copy # Item(q).copy
    BY <1>6, <1>7, <1>10, <1>11, <2>3, <2>4
  <2>6. \A s \in Requesters \ {q} : pc'[s] = "file" => Item(s)'.copy # Item(q).copy
    BY <2>1, <2>3
  <2> QED
    BY <2>2, <2>3, <2>5, <2>6
<1>15. RunnersCapped'
  <2> SUFFICES ASSUME NEW q \in Runners, NEW b \in Branches
               PROVE  Cardinality(Bound(q, b)') <= Cap
    BY DEF RunnersCapped
  <2>1. IsFiniteSet(Bound(q, b)) /\ Cardinality(Bound(q, b)) \in Nat
    BY <1>i, LoadFinite
  <2>2. Bound(q, b)' \in SUBSET Bound(q, b)
    BY <1>5
  <2>3. IsFiniteSet(Bound(q, b)') /\ Cardinality(Bound(q, b)') <= Cardinality(Bound(q, b))
    BY <2>1, <2>2, FS_Subset
  <2>4. Cardinality(Bound(q, b)') \in Nat
    BY <2>3, FS_CardinalityType
  <2> QED
    BY <1>i, <2>1, <2>3, <2>4, RebalancerAssumption DEF RunnersCapped
<1>16. ASSUME NEW b \in Branches
       PROVE  Cardinality(Load(b)') <= Cap * Cardinality(Runners)
  <2> DEFINE e == <<1, <<r, x.copy>>>>
             U == (Load(b) \ {e}) \cup {<<0, n + 1>>}
  <2>1. IsFiniteSet(Load(b)) /\ Cardinality(Load(b)) \in Nat
    BY <1>i, LoadFinite
  <2>2. Queued(b)' \subseteq Queued(b) \ {<<r, x.copy>>}
    BY <1>5 DEF Queued
  <2>3. CASE x.dest = b /\ r \in Runners
    <3>1. Autonomous(b)' = Autonomous(b) \cup {n + 1} /\ n + 1 \notin Autonomous(b)
      BY <1>6, <1>7, <1>8, <1>9, <2>3 DEF Autonomous
    <3>2. x.copy \in Bound(r, b)
      BY <1>4, <2>3 DEF Bound
    <3>3. e \in Load(b)
      BY <1>4, <2>3, <3>1, <3>2 DEF Load, Queued
    <3>4. Load(b)' \subseteq U
      BY <2>2, <3>1 DEF Load
    <3>5. PICK L : L = Load(b)'
      OBVIOUS
    <3>6. PICK S : S = Load(b)
      OBVIOUS
    <3> HIDE DEF e
    <3>7. Cardinality(L) \in Nat /\ Cardinality(L) <= Cardinality(S)
      BY <2>1, <3>3, <3>4, <3>5, <3>6, Exchange
    <3>8. Cardinality(Runners) \in Nat
      BY FS_CardinalityType, RebalancerAssumption
    <3>9. Cap * Cardinality(Runners) \in Nat /\ Cardinality(S) <= Cap * Cardinality(Runners)
      BY <1>i, <3>6, <3>8, RebalancerAssumption DEF LoadBounded
    <3> QED
      BY <2>1, <3>5, <3>6, <3>7, <3>9
  <2>4. CASE ~ (x.dest = b /\ r \in Runners)
    <3>1. Autonomous(b)' = Autonomous(b)
      BY <1>6, <1>7, <1>8, <1>9, <2>4 DEF Autonomous
    <3>2. Load(b)' \subseteq Load(b)
      BY <2>2, <3>1 DEF Load
    <3>3. Cardinality(Load(b)') <= Cardinality(Load(b)) /\ IsFiniteSet(Load(b)')
      BY <2>1, <3>2, FS_Subset
    <3>4. Cardinality(Load(b)') \in Nat /\ Cap * Cardinality(Runners) \in Nat
      BY <3>3, FS_CardinalityType, RebalancerAssumption
    <3> QED
      BY <1>i, <2>1, <3>3, <3>4 DEF LoadBounded
  <2> QED
    BY <2>3, <2>4
<1>17. Types'
  BY <1>i, <1>2, <1>5, <1>7 DEF Types
<1>18. JobShape'
  BY <1>i, <1>2, <1>3, <1>5, <1>7, ThreadFacts DEF JobShape
<1>19. LoadBounded'
  BY <1>16 DEF LoadBounded
<1> QED
  BY <1>5, <1>13, <1>14, <1>15, <1>17, <1>18, <1>19 DEF RebalancerInv

(* The other runners hold at most Cap each for a branch.                   *)
LEMMA OthersCapped ==
    ASSUME Types, RunnersCapped, NEW r \in Runners, NEW b \in Branches
    PROVE  LET O == {x \in Queued(b) : x[1] # r}
           IN  /\ IsFiniteSet(O) /\ Cardinality(O) \in Nat
               /\ Cardinality(O) + Cap <= Cap * Cardinality(Runners)
<1> DEFINE O == {x \in Queued(b) : x[1] # r}
           R == Runners \ {r}
           K == 1 .. Cap
           g == [q \in Runners |-> CHOOSE h : h \in Injection(Bound(q, b), K)]
           f == [x \in O |-> <<x[1], g[x[1]][x[2]]>>]
<1>1. IsFiniteSet(K) /\ Cardinality(K) = Cap
  <2>1. 1 \in Int /\ Cap \in Int /\ ~ (1 > Cap)
    BY RebalancerAssumption
  <2>2. IsFiniteSet(K) /\ Cardinality(K) = Cap - 1 + 1
    BY <2>1, FS_Interval
  <2> QED
    BY <2>1, <2>2
<1>2. /\ IsFiniteSet(R) /\ Cardinality(R) = Cardinality(Runners) - 1
      /\ Cardinality(Runners) \in Nat
  BY FS_RemoveElement, FS_CardinalityType, RebalancerAssumption
<1>3. IsFiniteSet(R \X K) /\ Cardinality(R \X K) = Cardinality(R) * Cap
  <2> HIDE DEF R, K
  <2> QED
    BY <1>1, <1>2, FS_Product
<1>4. ASSUME NEW q \in Runners PROVE \E h : h \in Injection(Bound(q, b), K)
  <2>1. PICK B : B = Bound(q, b)
    OBVIOUS
  <2>2. IsFiniteSet(B) /\ Cardinality(B) \in Nat /\ Cardinality(B) <= Cap
    BY <2>1, LoadFinite DEF RunnersCapped
  <2>3. PICK m : m = Cardinality(B)
    OBVIOUS
  <2>4. ExistsBijection(1 .. m, B)
    BY <2>2, <2>3, FS_CardinalityType
  <2>5. PICK k : k \in Bijection(1 .. m, B)
    BY <2>4 DEF ExistsBijection
  <2>6. /\ k \in [1 .. m -> B]
        /\ \A y \in B : \E i \in 1 .. m : k[i] = y
    BY <2>5 DEF Bijection, Injection, Surjection
  <2> DEFINE h == [y \in B |-> CHOOSE i \in 1 .. m : k[i] = y]
  <2>7. \A y \in B : h[y] \in 1 .. m /\ k[h[y]] = y
    BY <2>6
  <2>8. 1 .. m \subseteq K
    BY <2>2, <2>3, RebalancerAssumption
  <2>9. h \in [B -> K] /\ \A y, z \in B : h[y] = h[z] => y = z
    BY <2>7, <2>8
  <2>10. h \in Injection(B, K)
    BY <2>9 DEF Injection, IsInjective
  <2> QED
    BY <2>1, <2>10
<1>5. \A q \in Runners : g[q] \in Injection(Bound(q, b), K)
  BY <1>4
<1> HIDE DEF g, K
<1>6. \A x \in O : /\ x[1] \in Runners /\ x[1] # r /\ x[2] \in Bound(x[1], b)
                   /\ x = <<x[1], x[2]>>
  BY DEF Queued
<1>7. f \in [O -> R \X K]
  <2>1. \A q \in Runners : \A c \in Bound(q, b) : g[q][c] \in K
    BY <1>5 DEF Injection
  <2> QED
    BY <1>6, <2>1
<1>8. ASSUME NEW x \in O, NEW y \in O, f[x] = f[y] PROVE x = y
  <2>1. x[1] = y[1] /\ g[x[1]][x[2]] = g[y[1]][y[2]]
    BY <1>8
  <2>2. \A q \in Runners : \A c, d \in Bound(q, b) : g[q][c] = g[q][d] => c = d
    BY <1>5 DEF Injection, IsInjective
  <2>3. x[2] = y[2]
    BY <1>6, <2>1, <2>2
  <2> QED
    BY <1>6, <2>1, <2>3
<1>9. f \in Injection(O, R \X K)
  BY <1>7, <1>8 DEF Injection, IsInjective
<1>10. IsFiniteSet(O) /\ Cardinality(O) <= Cardinality(R \X K)
  <2> HIDE DEF f, O, R
  <2> QED
    BY <1>3, <1>9, FS_Injection
<1>11. Cardinality(O) \in Nat
  <2> HIDE DEF O
  <2> QED
    BY <1>10, FS_CardinalityType
<1>12. Cardinality(O) + Cap <= Cap * Cardinality(Runners)
  <2>1. PICK n : n = Cardinality(Runners)
    OBVIOUS
  <2>2. n \in Nat /\ Cap \in Nat /\ Cardinality(R \X K) = (n - 1) * Cap
    BY <1>2, <1>3, <2>1, RebalancerAssumption
  <2>3. (n - 1) * Cap + Cap = Cap * n
    BY <2>2
  <2> HIDE DEF O
  <2>4. Cardinality(O) <= (n - 1) * Cap
    BY <1>10, <2>2
  <2>5. (n - 1) * Cap \in Int
    BY <2>2
  <2> QED
    BY <1>11, <2>1, <2>2, <2>3, <2>4, <2>5
<1> QED
  BY <1>10, <1>11, <1>12

(* The copies of a plan that go to a branch are no more than its items.    *)
LEMMA CopiesOfPlan ==
    ASSUME NEW p, Len(p) \in Nat, NEW b, NEW B,
           B \subseteq {p[i].copy : i \in {i \in 1 .. Len(p) : p[i].dest = b}}
    PROVE  IsFiniteSet(B) /\ Cardinality(B) \in Nat /\ Cardinality(B) <= Going(p, b)
<1> DEFINE I == {i \in 1 .. Len(p) : p[i].dest = b}
           C == {p[i].copy : i \in I}
           f == [i \in I |-> p[i].copy]
<1>1. IsFiniteSet(I) /\ Going(p, b) = Cardinality(I) /\ Cardinality(I) \in Nat
  BY GoingNat DEF Going
<1>2. f \in Surjection(I, C)
  BY DEF Surjection
<1>3. B \in SUBSET C
  OBVIOUS
<1> HIDE DEF I, C, f
<1>4. IsFiniteSet(C) /\ Cardinality(C) <= Cardinality(I)
  BY <1>1, <1>2, FS_Surjection
<1>5. IsFiniteSet(B) /\ Cardinality(B) <= Cardinality(C)
  BY <1>3, <1>4, FS_Subset
<1>6. Cardinality(B) \in Nat /\ Cardinality(C) \in Nat
  BY <1>4, <1>5, FS_CardinalityType
<1> QED
  BY <1>1, <1>4, <1>5, <1>6

(* A set in three parts.                                                   *)
LEMMA ThreeParts ==
    ASSUME NEW A, IsFiniteSet(A), NEW B, IsFiniteSet(B), NEW C, IsFiniteSet(C),
           NEW T \in SUBSET (A \cup B \cup C)
    PROVE  /\ Cardinality(T) \in Nat
           /\ Cardinality(T) <= Cardinality(A) + Cardinality(B) + Cardinality(C)
<1>1. PICK D : D = A \cup B
  OBVIOUS
<1>2. /\ IsFiniteSet(D) /\ IsFiniteSet(A \cap B)
      /\ Cardinality(D) = Cardinality(A) + Cardinality(B) - Cardinality(A \cap B)
  BY <1>1, FS_Union, FS_Intersection
<1>3. /\ IsFiniteSet(D \cup C) /\ IsFiniteSet(D \cap C)
      /\ Cardinality(D \cup C) = Cardinality(D) + Cardinality(C) - Cardinality(D \cap C)
  BY <1>2, FS_Union, FS_Intersection
<1>4. T \in SUBSET (D \cup C)
  BY <1>1
<1>5. IsFiniteSet(T) /\ Cardinality(T) <= Cardinality(D \cup C)
  BY <1>3, <1>4, FS_Subset
<1>6. /\ Cardinality(A) \in Nat /\ Cardinality(B) \in Nat /\ Cardinality(C) \in Nat
      /\ Cardinality(D) \in Nat /\ Cardinality(A \cap B) \in Nat
      /\ Cardinality(D \cap C) \in Nat /\ Cardinality(T) \in Nat
  BY <1>2, <1>3, <1>5, FS_CardinalityType
<1> QED
  BY <1>2, <1>3, <1>5, <1>6

(* Pairs with a fixed first component are as many as their second ones.    *)
LEMMA Tagged ==
    ASSUME NEW t, NEW S, IsFiniteSet(S)
    PROVE  IsFiniteSet({t} \X S) /\ Cardinality({t} \X S) = Cardinality(S)
<1>1. IsFiniteSet({t}) /\ Cardinality({t}) = 1 /\ Cardinality(S) \in Nat
  BY FS_Singleton, FS_CardinalityType
<1>2. IsFiniteSet({t} \X S) /\ Cardinality({t} \X S) = Cardinality({t}) * Cardinality(S)
  BY <1>1, FS_Product
<1> QED
  BY <1>1, <1>2

(* A new plan counts the transfers under way, and its runner had none      *)
(* planned: what it adds to the load is bounded by the cap.                *)
LEMMA PlanStep ==
    ASSUME RebalancerInv, NEW r \in Runners, Plan(r)
    PROVE  RebalancerInv'
<1>i. /\ Types /\ PlanShape /\ JobShape /\ RunnersCapped /\ LoadBounded
      /\ OpenTransfersMove /\ FilingMoves
  BY DEF RebalancerInv
<1>0. r \in Requesters /\ r \in Threads
  BY ThreadFacts
<1>1. PICK s \in Ranked : plan' = [plan EXCEPT ![r] = Filled(s)]
  BY DEF Plan
<1>2. PICK p : p = Filled(s)
  OBVIOUS
<1>3. /\ copies \in [Copies -> BookCopy] /\ transfers \in Seq(Transfer)
      /\ Len(transfers) \in Nat
      /\ pc \in [Threads -> PCs]
      /\ plan \in [Requesters -> Seq(Items)]
  BY <1>i DEF Types
<1>4. GoodPlan(p)
  BY <1>2, <1>3, FilledGood
<1>5. p \in Seq(Items) /\ Len(p) \in Nat
  <2>1. p \in Seq(Chosen) /\ \A i \in 1 .. Len(p) : p[i] \in Chosen
    BY <1>4 DEF GoodPlan
  <2>2. Chosen \subseteq Items
    BY ChosenItem DEF Items
  <2> QED
    BY <2>1, <2>2
<1>6. /\ UNCHANGED <<copies, transfers, job, raced>> /\ p # <<>> /\ pc[r] = "idle"
      /\ plan[r] = <<>>
      /\ pc' = [pc EXCEPT ![r] = "check"] /\ plan' = [plan EXCEPT ![r] = p]
  BY <1>i, <1>0, <1>1, <1>2, <1>3 DEF Plan, PlanShape, Goto
<1>7. /\ plan'[r] = p /\ pc'[r] = "check"
      /\ \A q \in Requesters : q # r => plan'[q] = plan[q]
      /\ \A q \in Threads : q # r => pc'[q] = pc[q]
  BY <1>0, <1>3, <1>6
<1>8. Types'
  <2>1. plan' \in [Requesters -> Seq(Items)]
    BY <1>3, <1>5, <1>6
  <2>2. pc' \in [Threads -> PCs]
    BY <1>3, <1>6 DEF PCs
  <2> QED
    BY <1>i, <1>3, <1>6, <2>1, <2>2 DEF Types
<1>9. PlanShape'
  <2> SUFFICES ASSUME NEW q \in Requesters
               PROVE  (pc'[q] = "idle" <=> plan'[q] = <<>>) /\ Distinct(plan'[q])
    BY DEF PlanShape, Distinct
  <2>1. CASE q = r
    BY <1>4, <1>6, <1>7, <2>1 DEF GoodPlan
  <2>2. CASE q # r
    BY <1>i, <1>7, <2>2, ThreadFacts DEF PlanShape
  <2> QED
    BY <2>1, <2>2
<1>10. OpenTransfersMove' /\ FilingMoves' /\ JobShape'
  <2>1. \A i : Landed(i)' = Landed(i)
    BY <1>6, <1>7, ThreadFacts DEF Landed
  <2>2. Moving' = Moving
    BY <1>6, <2>1 DEF Moving, Open
  <2>3. \A q \in Requesters : pc'[q] = "file" => pc[q] = "file" /\ Item(q)' = Item(q)
    BY <1>7, ThreadFacts DEF Item
  <2>4. OpenTransfersMove' /\ FilingMoves'
    BY <1>i, <1>6, <2>2, <2>3, ClaimsKept
  <2>5. JobShape'
    BY <1>i, <1>6, <1>7, ThreadFacts DEF JobShape
  <2> QED
    BY <2>4, <2>5
<1>11. \A q \in Runners, b \in Branches : q # r => Bound(q, b)' = Bound(q, b)
  BY <1>7, ThreadFacts DEF Bound
<1>12. ASSUME NEW b \in Branches
       PROVE  /\ IsFiniteSet(Bound(r, b)') /\ Cardinality(Bound(r, b)') \in Nat
              /\ Going(p, b) \in Nat /\ InFlight(b) \in Nat
              /\ Cardinality(Bound(r, b)') <= Going(p, b)
              /\ Going(p, b) = 0 \/ InFlight(b) + Going(p, b) <= Cap
  <2>1. PICK B : B = Bound(r, b)'
    OBVIOUS
  <2>2. B \subseteq {p[i].copy : i \in {i \in 1 .. Len(p) : p[i].dest = b}}
    BY <1>7, <2>1 DEF Bound
  <2>3. IsFiniteSet(B) /\ Cardinality(B) \in Nat /\ Cardinality(B) <= Going(p, b)
    BY <1>5, <2>2, CopiesOfPlan
  <2>4. Going(p, b) \in Nat /\ InFlight(b) \in Nat
    BY <1>3, <1>5, GoingNat, InFlightNat
  <2>5. Going(p, b) = 0 \/ InFlight(b) + Going(p, b) <= Cap
    BY <1>4 DEF GoodPlan, Capped
  <2> QED
    BY <2>1, <2>3, <2>4, <2>5
<1>13. RunnersCapped'
  <2> SUFFICES ASSUME NEW q \in Runners, NEW b \in Branches
               PROVE  Cardinality(Bound(q, b)') <= Cap
    BY DEF RunnersCapped
  <2>1. CASE q = r
    BY <1>12, <2>1, RebalancerAssumption
  <2>2. CASE q # r
    BY <1>i, <1>11, <2>2 DEF RunnersCapped
  <2> QED
    BY <2>1, <2>2
<1>14. ASSUME NEW b \in Branches
       PROVE  Cardinality(Load(b)') <= Cap * Cardinality(Runners)
  <2>1. PICK B : B = Bound(r, b)'
    OBVIOUS
  <2>2. Autonomous(b)' = Autonomous(b)
    BY <1>6 DEF Autonomous, Open
  <2>3. CASE Going(p, b) = 0
    <3>1. B = {}
      BY <1>12, <2>1, <2>3, FS_EmptySet
    <3>2. Load(b)' = Load(b)
      <4>1. Bound(r, b) = {}
        BY <1>6 DEF Bound
      <4>2. \A q \in Runners : Bound(q, b)' = Bound(q, b)
        BY <1>11, <2>1, <3>1, <4>1
      <4>3. Queued(b)' = Queued(b)
        BY <4>2 DEF Queued
      <4> QED
        BY <2>2, <4>3 DEF Load
    <3> QED
      BY <1>i, <3>2 DEF LoadBounded
  <2>4. CASE InFlight(b) + Going(p, b) <= Cap
    <3>1. PICK O : O = {x \in Queued(b) : x[1] # r}
      OBVIOUS
    <3>2. /\ IsFiniteSet(O) /\ Cardinality(O) \in Nat
          /\ Cardinality(O) + Cap <= Cap * Cardinality(Runners)
      BY <1>i, <3>1, OthersCapped
    <3>3. PICK W : W = Autonomous(b)
      OBVIOUS
    <3>4. IsFiniteSet(W) /\ Cardinality(W) \in Nat /\ Cardinality(W) <= InFlight(b)
      BY <1>3, <3>3, AutonomousInFlight
    <3>5. IsFiniteSet(B) /\ Cardinality(B) \in Nat /\ Cardinality(B) <= Going(p, b)
      BY <1>12, <2>1
    <3>6. PICK V : V = {r} \X B
      OBVIOUS
    <3>7. IsFiniteSet(V) /\ Cardinality(V) = Cardinality(B)
      BY <3>5, <3>6, Tagged
    <3>8. /\ IsFiniteSet({0} \X W) /\ Cardinality({0} \X W) = Cardinality(W)
          /\ IsFiniteSet({1} \X O) /\ Cardinality({1} \X O) = Cardinality(O)
          /\ IsFiniteSet({1} \X V) /\ Cardinality({1} \X V) = Cardinality(V)
      BY <3>2, <3>4, <3>7, Tagged
    <3>9. PICK L : L = Load(b)'
      OBVIOUS
    <3>10. L \subseteq ({0} \X W) \cup ({1} \X O) \cup ({1} \X V)
      <4>1. Queued(b)' \subseteq O \cup V
        BY <1>11, <2>1, <3>1, <3>6 DEF Queued
      <4> QED
        BY <2>2, <3>3, <3>9, <4>1 DEF Load
    <3>11. /\ Cardinality(L) \in Nat
           /\ Cardinality(L) <= Cardinality(W) + Cardinality(O) + Cardinality(V)
      <4>1. PICK A1, A2, A3 : A1 = {0} \X W /\ A2 = {1} \X O /\ A3 = {1} \X V
        OBVIOUS
      <4>2. /\ Cardinality(L) \in Nat
            /\ Cardinality(L) <= Cardinality(A1) + Cardinality(A2) + Cardinality(A3)
        BY <3>8, <3>10, <4>1, ThreeParts
      <4> QED
        BY <3>8, <4>1, <4>2
    <3>12. Cardinality(L) <= InFlight(b) + Cardinality(O) + Cardinality(B)
      BY <1>12, <3>2, <3>4, <3>5, <3>7, <3>11
    <3>13. PICK m : m = Cap * Cardinality(Runners)
      OBVIOUS
    <3>14. m \in Nat /\ Cap \in Nat
      <4>1. Cardinality(Runners) \in Nat
        BY RebalancerAssumption, FS_CardinalityType
      <4> QED
        BY <3>13, <4>1, RebalancerAssumption
    <3>15. Cardinality(L) <= m
      BY <1>12, <2>4, <3>2, <3>5, <3>11, <3>12, <3>13, <3>14
    <3> QED
      BY <3>9, <3>13, <3>15
  <2> QED
    BY <1>12, <2>3, <2>4
<1>15. LoadBounded'
  BY <1>14 DEF LoadBounded
<1> QED
  BY <1>8, <1>9, <1>10, <1>13, <1>15 DEF RebalancerInv

(* Every step of requests, desk and time.                                  *)
LEMMA NextRebalancer == RebalancerInv /\ [Next]_vars => RebalancerInv'
<1> SUFFICES ASSUME RebalancerInv, [Next]_vars PROVE RebalancerInv'
  OBVIOUS
<1>1. ASSUME NEW r \in Runners, Plan(r) \/ Skip(r) \/ Check(r) PROVE RebalancerInv'
  BY <1>1, PlanStep, LooksOnly, ThreadFacts
<1>2. ASSUME NEW m \in Movers, NEW c \in Wanted, NEW b \in Branches, Ask(m, c, b)
      PROVE  RebalancerInv'
  BY <1>2, LooksOnly, ThreadFacts
<1>3. ASSUME NEW r \in Requesters, Dispatch(r) \/ Abort(r) \/ Start(r) \/ File(r)
      PROVE  RebalancerInv'
  BY <1>3, LooksOnly, StartStep, FileStep
<1>4. ASSUME NEW k \in Completers, NEW i \in 1 .. Len(transfers), Arrive(k, i)
      PROVE  RebalancerInv'
  BY <1>4, ArriveLooks
<1>5. ASSUME NEW k \in Completers,
             ArriveRefused(k) \/ ArriveDispatch(k) \/ ArriveFree(k) \/ ArriveClose(k)
      PROVE  RebalancerInv'
  BY <1>5, ArriveLooks, FreeStep, CloseStep
<1>6. ASSUME NEW c \in Wanted, Look(c) \/ Checkout(c) \/ Return(c) PROVE RebalancerInv'
  <2>1. c \in Copies
    BY RebalancerAssumption DEF Copies
  <2> QED
    BY <1>6, <2>1, DeskSteps
<1>7. CASE WeekPasses \/ MonthPasses
  BY <1>7, TimeSteps
<1>8. CASE UNCHANGED vars
  <2>1. UNCHANGED <<copies, transfers, pc, plan, job, raced>>
    BY <1>8 DEF vars, work
  <2>2. copies \in [Copies -> BookCopy] /\ transfers \in Seq(Transfer) /\ SameMoves
    BY <2>1 DEF RebalancerInv, Types, SameMoves
  <2> QED
    BY <2>1, <2>2, OtherStep
<1> QED
  BY <1>1, <1>2, <1>3, <1>4, <1>5, <1>6, <1>7, <1>8 DEF Next

(* The invariant holds throughout.                                         *)
LEMMA RebalancerInvariant == Spec => []RebalancerInv
BY InitRebalancer, NextRebalancer, PTL DEF Spec

(* For any number of requests, copies, branches and transfers: a transfer  *)
(* under way that nobody raced moves its copy, and is the only one that    *)
(* does.                                                                   *)
THEOREM TransfersMove == Spec => []OpenTransfersMove
<1>1. RebalancerInv => OpenTransfersMove
  BY DEF RebalancerInv
<1> QED
  BY <1>1, RebalancerInvariant, PTL

(* Backpressure, for any cap and number of runners and whatever the age of *)
(* their plans: a branch never has more than Cap of the rebalancer's       *)
(* transfers under way to it for each of them, whatever people ask for.    *)
THEOREM Backpressure == Spec => []BackpressureBounded
<1>1. RebalancerInv => BackpressureBounded
  <2> SUFFICES ASSUME RebalancerInv, NEW b \in Branches
               PROVE  Cardinality(Autonomous(b)) <= Cap * Cardinality(Runners)
    BY DEF BackpressureBounded
  <2>1. /\ IsFiniteSet(Autonomous(b)) /\ IsFiniteSet(Load(b)) /\ Cardinality(Load(b)) \in Nat
        /\ Cardinality(Load(b)) <= Cap * Cardinality(Runners)
    BY LoadFinite DEF RebalancerInv, LoadBounded
  <2>2. PICK W, L : W = Autonomous(b) /\ L = Load(b)
    OBVIOUS
  <2>3. IsFiniteSet({0} \X W) /\ Cardinality({0} \X W) = Cardinality(W)
    BY <2>1, <2>2, Tagged
  <2>4. ({0} \X W) \in SUBSET L
    BY <2>2 DEF Load
  <2>5. Cardinality({0} \X W) <= Cardinality(L)
    BY <2>1, <2>2, <2>4, FS_Subset
  <2>6. Cardinality(W) \in Nat /\ Cap * Cardinality(Runners) \in Nat
    BY <2>1, <2>2, FS_CardinalityType, RebalancerAssumption
  <2> QED
    BY <2>1, <2>2, <2>3, <2>5, <2>6
<1> QED
  BY <1>1, RebalancerInvariant, PTL

(* What a step does to the plans of idle runners.                          *)
NewPlansLeaveStock ==
    \A r \in Runners : pc[r] = "idle" =>
       \A i \in 1 .. Len(plan'[r]) :
           LET x == plan'[r][i]
           IN  /\ \E c \in Stock(x.title, x.source) :
                     \A j \in 1 .. Len(plan'[r]) : plan'[r][j].copy # c
               /\ \A j \in 1 .. Len(plan'[r]) :
                     j # i => <<plan'[r][j].source, plan'[r][j].title>>
                                  # <<x.source, x.title>>
               /\ NeedsStock(x.title, x.dest)

(* A plan comes into being only in Plan, which fills it.                   *)
LEMMA PlansLeaveStock == RebalancerInv /\ Next => NewPlansLeaveStock
<1> SUFFICES ASSUME RebalancerInv, Next, NEW r \in Runners, pc[r] = "idle",
                    NEW i \in 1 .. Len(plan'[r])
             PROVE  /\ \E c \in Stock(plan'[r][i].title, plan'[r][i].source) :
                          \A j \in 1 .. Len(plan'[r]) : plan'[r][j].copy # c
                    /\ \A j \in 1 .. Len(plan'[r]) :
                          j # i => <<plan'[r][j].source, plan'[r][j].title>>
                                       # <<plan'[r][i].source, plan'[r][i].title>>
                    /\ NeedsStock(plan'[r][i].title, plan'[r][i].dest)
  BY DEF NewPlansLeaveStock
<1>1. /\ plan[r] = <<>> /\ plan \in [Requesters -> Seq(Items)] /\ Len(transfers) \in Nat
      /\ r \in Requesters /\ r \notin Movers
  BY ThreadFacts DEF RebalancerInv, PlanShape, Types
<1>2. CASE Plan(r)
  <2>1. PICK s \in Ranked : plan' = [plan EXCEPT ![r] = Filled(s)]
    BY <1>2 DEF Plan
  <2>2. PICK p : p = Filled(s)
    OBVIOUS
  <2>3. plan'[r] = p
    BY <1>1, <2>1, <2>2
  <2>4. GoodPlan(p)
    BY <1>1, <2>2, FilledGood
  <2>5. i \in 1 .. Len(p)
    BY <2>3
  <2> QED
    BY <2>3, <2>4, <2>5, GoodPlanLeavesStock
<1>3. CASE ~ Plan(r)
  <2>1. plan'[r] = plan[r]
    <3>1. ASSUME NEW q \in Runners, Plan(q) \/ Skip(q) \/ Check(q)
          PROVE  plan'[r] = plan[r]
      <4>1. CASE q = r
        BY <1>3, <3>1, <4>1 DEF Skip, Check
      <4>2. CASE q # r
        BY <1>1, <3>1, <4>2 DEF Plan, Skip, Check, Advance
      <4> QED
        BY <4>1, <4>2
    <3>2. ASSUME NEW m \in Movers, NEW c \in Wanted, NEW b \in Branches, Ask(m, c, b)
          PROVE  plan'[r] = plan[r]
      BY <1>1, <3>2 DEF Ask
    <3>3. ASSUME NEW q \in Requesters, Dispatch(q) \/ Abort(q) \/ Start(q) \/ File(q)
          PROVE  plan'[r] = plan[r]
      <4>1. CASE q = r
        BY <3>3, <4>1 DEF Dispatch, Abort, Start, File
      <4>2. CASE q # r
        BY <1>1, <3>3, <4>2 DEF Dispatch, Abort, Start, File, Advance
      <4> QED
        BY <4>1, <4>2
    <3>4. ASSUME NEW k \in Completers,
                 \/ \E n \in 1 .. Len(transfers) : Arrive(k, n)
                 \/ ArriveRefused(k) \/ ArriveDispatch(k) \/ ArriveFree(k) \/ ArriveClose(k)
          PROVE  plan'[r] = plan[r]
      BY <3>4 DEF Arrive, ArriveRefused, ArriveDispatch, ArriveFree, ArriveClose
    <3>5. ASSUME NEW c \in Wanted, Look(c) \/ Checkout(c) \/ Return(c)
          PROVE  plan'[r] = plan[r]
      BY <3>5 DEF Look, Checkout, Return, work
    <3>6. CASE WeekPasses \/ MonthPasses
      BY <3>6 DEF WeekPasses, MonthPasses, work
    <3> QED
      BY <3>1, <3>2, <3>3, <3>4, <3>5, <3>6 DEF Next
  <2>2. i \in 1 .. 0
    BY <1>1, <2>1
  <2> QED
    BY <2>2
<1> QED
  BY <1>2, <1>3

(* For any demand, stock, distances and cap, and any order of equal        *)
(* candidates, a new plan strips no branch and takes no title twice from   *)
(* one.                                                                    *)
THEOREM PlansAreSparing == Spec => PlanLeavesStock
<1>1. RebalancerInv /\ [Next]_vars => [NewPlansLeaveStock]_vars
  BY PlansLeaveStock
<1>2. [][NewPlansLeaveStock]_vars => PlanLeavesStock
  BY PTL DEF PlanLeavesStock, NewPlansLeaveStock
<1> QED
  BY <1>1, <1>2, RebalancerInvariant, PTL DEF Spec
=============================================================================

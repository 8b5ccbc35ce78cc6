---------------------------- MODULE BillingProofs ----------------------------
(***************************************************************************)
(* Proofs about Billing: the account balances as long as no request        *)
(* commits under another one, the balance is never negative, a payment is  *)
(* taken through its own method or that of a rival, and the fines follow   *)
(* their policies.                                                         *)
(***************************************************************************)
EXTENDS Billing, TLAPS

(***************************************************************************)
(* The operators the model is built from.                                  *)
(***************************************************************************)
(* min() of two amounts is one of them and at most both.                   *)
LEMMA MinOfTwo ==
    ASSUME NEW a \in Int, NEW b \in Int
    PROVE  Min({a, b}) \in {a, b} /\ Min({a, b}) <= a /\ Min({a, b}) <= b
<1>1. \E x \in {a, b} : \A y \in {a, b} : x <= y
  BY a <= b \/ b <= a
<1> QED
  BY <1>1 DEF Min

(* max() of two amounts is one of them and at least both.                  *)
LEMMA MaxOfTwo ==
    ASSUME NEW a \in Int, NEW b \in Int
    PROVE  Max({a, b}) \in {a, b} /\ Max({a, b}) >= a /\ Max({a, b}) >= b
<1>1. \E x \in {a, b} : \A y \in {a, b} : x >= y
  BY a <= b \/ b <= a
<1> QED
  BY <1>1 DEF Max

(* A payment of any amount leaves a balance that is not negative.          *)
LEMMA PaidBalance ==
    ASSUME NEW f \in Nat, NEW a \in Nat
    PROVE  f - Min({f, a}) \in Nat
<1> DEFINE m == Min({f, a})
<1>1. f \in Int /\ a \in Int
  OBVIOUS
<1>2. m \in {f, a} /\ m <= f
  BY ONLY <1>1, MinOfTwo
<1> HIDE DEF m
<1>3. f - m \in Nat
  BY <1>2
<1> QED
  BY <1>3 DEF m

(* A product of natural numbers.                                           *)
LEMMA ProductNat ==
    ASSUME NEW a \in Nat, NEW b \in Nat
    PROVE  a * b \in Nat
OBVIOUS

(* The default policy never computes a negative fine, whatever the days,   *)
(* the queue, the rating and the late returns are.                         *)
LEMMA FineIsNat ==
    ASSUME NEW days \in Int, NEW waiting \in Nat, NEW rating \in Nat,
           NEW late \in Nat
    PROVE  DynamicDemandFine(days, waiting, rating, late) \in Nat
<1>1. CASE days <= 0
  BY <1>1 DEF DynamicDemandFine
<1>2. CASE ~ days <= 0
  <2> DEFINE x == Min({8, waiting})
             y == Max({0, rating - 30})
             z == Min({15, late})
             w == 4 + x
             q == 100 + y
             l == 10 + z
  <2>a. 8 \in Int /\ 0 \in Int /\ 15 \in Int /\ waiting \in Int /\ late \in Int
        /\ rating - 30 \in Int
    OBVIOUS
  <2>b. x \in {8, waiting}
    BY ONLY <2>a, MinOfTwo
  <2>c. y \in {0, rating - 30} /\ y >= 0
    BY ONLY <2>a, MaxOfTwo
  <2>d. z \in {15, late}
    BY ONLY <2>a, MinOfTwo
  <2> HIDE DEF x, y, z
  <2>1. w \in Nat
    BY <2>b
  <2>2. q \in Nat
    BY <2>c
  <2>3. l \in Nat
    BY <2>d
  <2>4. DynamicDemandFine(days, waiting, rating, late) = days * w * q * l
    BY <1>2 DEF DynamicDemandFine, x, y, z
  <2> HIDE DEF w, q, l
  <2>5. days \in Nat
    BY <1>2
  <2>6. days * w \in Nat
    BY <2>1, <2>5, ProductNat
  <2>7. days * w * q \in Nat
    BY <2>2, <2>6, ProductNat
  <2>8. days * w * q * l \in Nat
    BY <2>3, <2>7, ProductNat
  <2> QED
    BY <2>4, <2>8
<1> QED
  BY <1>1, <1>2

(***************************************************************************)
(* The account.  A user object has the two columns.  While no row was      *)
(* committed under another request, the object of every request that is    *)
(* still to write is the current row with that request's own payment or    *)
(* fine applied, and the UPDATE sets the columns that differ.              *)
(***************************************************************************)
IsUser(u) == u = [col \in Columns |-> u[col]] /\ u["fines"] \in Nat

Applied(r) ==
    IF r \in Payments THEN row["fines"] - Min({row["fines"], amount[r]})
                      ELSE row["fines"] + fine[r]

TypesOK ==
    /\ pc \in [Requests -> {"idle", "strategy", "execute", "merge", "commit",
                            "done", "failed"}]
    /\ amount \in [Payments -> Nat]
    /\ fine \in [Charges -> Nat]
    /\ object = [r \in Requests |-> object[r]]
    /\ dirty = [r \in Requests |-> dirty[r]]
    /\ \A g \in Charges : pc[g] \notin {"strategy", "execute"}
    /\ debt \in Nat

UsersOK == IsUser(row) /\ \A r \in Requests : IsUser(object[r])

Accounted ==
    ~ overlap =>
        /\ row["fines"] = debt /\ row["borrowed"] = loans
        /\ \A r \in Requests :
              /\ Reading(r) => object[r]["borrowed"] = row["borrowed"]
              /\ pc[r] \in {"strategy", "execute"} =>
                    object[r]["fines"] = row["fines"]
              /\ pc[r] \in {"merge", "commit"} =>
                    object[r]["fines"] = Applied(r)
              /\ pc[r] = "commit" =>
                    dirty[r] = {col \in Columns : object[r][col] # row[col]}

AccountInv == TypesOK /\ UsersOK /\ Accounted

(* The row at the start owes a natural number and lists no loans.          *)
LEMMA InitAccount == Init => AccountInv
<1> SUFFICES ASSUME Init PROVE AccountInv
  OBVIOUS
<1>1. row \in [borrowed : {{}}, fines : Debts] /\ Debts \subseteq Nat
  BY BillingAssumption DEF Init
<1>2. IsUser(row)
  BY <1>1 DEF IsUser, Columns
<1>3. IsUser(NoUser)
  BY DEF IsUser, Columns, NoUser
<1>4. UsersOK
  BY <1>2, <1>3 DEF UsersOK, Init
<1>5. TypesOK
  BY <1>1 DEF TypesOK, Init, Requests
<1>6. Accounted
  BY <1>1 DEF Accounted, Init, Reading
<1> QED
  BY <1>4, <1>5, <1>6 DEF AccountInv

(* Requests that did not move, over a row that did not change.             *)
LEMMA CheckoutAccount ==
    ASSUME AccountInv, NEW c \in Copies, Checkout(c)
    PROVE  AccountInv'
<1> USE DEF AccountInv
<1>0. UNCHANGED <<pc, object, dirty, debt, amount, fine>>
  BY DEF Checkout, args
<1>1. TypesOK'
  BY <1>0 DEF TypesOK
<1>2. row'["fines"] = row["fines"] /\ row'["borrowed"] = row["borrowed"] \cup {c}
      /\ row' = [col \in Columns |-> row'[col]]
  BY DEF Checkout, UsersOK, IsUser, Columns
<1>3. UsersOK'
  BY <1>0, <1>2 DEF UsersOK, IsUser
<1>4. Accounted'
  <2> SUFFICES ASSUME ~ overlap' PROVE Accounted'
    BY DEF Accounted
  <2>1. ~ overlap /\ \A q \in Requests : ~ Reading(q)
    BY BillingAssumption DEF Checkout, Overlap, Requests
  <2>2. \A q \in Requests : ~ Reading(q)' 
    BY <1>0, <2>1 DEF Reading
  <2>3. loans' = loans \cup {c} /\ debt' = debt
    BY DEF Checkout
  <2> QED
    BY <1>2, <2>1, <2>2, <2>3 DEF Accounted, Reading
<1> QED
  BY <1>1, <1>3, <1>4

(* A payment that has read the user has applied nothing to it yet.         *)
LEMMA PayReadAccount ==
    ASSUME AccountInv, NEW p \in Payments, NEW m \in Methods, NEW a \in Amounts,
           NEW bad \in Metadata, PayRead(p, m, a, bad)
    PROVE  AccountInv'
<1> USE DEF AccountInv
<1>0. /\ UNCHANGED <<row, fine, dirty, debt, loans, overlap>>
      /\ pc' = [pc EXCEPT ![p] = "strategy"]
      /\ amount' = [amount EXCEPT ![p] = a]
      /\ object' = [object EXCEPT ![p] = row]
      /\ pc[p] = "idle" /\ p \in Requests /\ p \notin Charges /\ a \in Nat
  BY BillingAssumption DEF PayRead, Goto, history, Requests
<1>1. TypesOK'
  BY <1>0 DEF TypesOK
<1>2. object'[p] = row /\ \A q \in Requests \ {p} : object'[q] = object[q] /\ pc'[q] = pc[q]
  BY <1>0 DEF TypesOK
<1>3. UsersOK'
  BY <1>0, <1>2 DEF UsersOK, IsUser
<1>4. Accounted'
  <2> SUFFICES ASSUME ~ overlap' PROVE Accounted'
    BY DEF Accounted
  <2>1. pc'[p] = "strategy"
    BY <1>0 DEF TypesOK
  <2>2. \A q \in Requests \ {p} : Applied(q)' = Applied(q) /\ Reading(q)' = Reading(q)
    BY <1>0, <1>2 DEF Applied, TypesOK, Reading
  <2> QED
    BY <1>0, <1>2, <2>1, <2>2 DEF Accounted
<1> QED
  BY <1>1, <1>3, <1>4

(* Setting the strategy does not touch the money.                          *)
LEMMA PaySetStrategyAccount ==
    ASSUME AccountInv, NEW p \in Payments, PaySetStrategy(p)
    PROVE  AccountInv'
<1> USE DEF AccountInv
<1>0. /\ UNCHANGED <<row, amount, fine, object, dirty, debt, loans, overlap>>
      /\ pc' = [pc EXCEPT ![p] = "execute"]
      /\ pc[p] = "strategy" /\ p \in Requests /\ p \notin Charges
  BY BillingAssumption DEF PaySetStrategy, Goto, args, Requests
<1>1. TypesOK'
  BY <1>0 DEF TypesOK
<1>2. UsersOK'
  BY <1>0 DEF UsersOK, IsUser
<1>3. Accounted'
  <2>1. pc'[p] = "execute" /\ \A q \in Requests \ {p} : pc'[q] = pc[q]
    BY <1>0 DEF TypesOK
  <2>2. \A q \in Requests : Applied(q)' = Applied(q) /\ Reading(q)' = Reading(q)
    BY <1>0, <2>1 DEF Applied, TypesOK, Reading
  <2> QED
    BY <1>0, <2>1, <2>2 DEF Accounted
<1> QED
  BY <1>1, <1>2, <1>3

(* The money is taken off the object that was read.                        *)
LEMMA PayExecuteAccount ==
    ASSUME AccountInv, NEW p \in Payments, PayExecute(p)
    PROVE  AccountInv'
<1> USE DEF AccountInv
<1> DEFINE u == object[p]
           paid == u["fines"] - Min({u["fines"], amount[p]})
<1>0. /\ UNCHANGED <<row, amount, fine, dirty, debt, loans, overlap>>
      /\ pc' = [pc EXCEPT ![p] = "merge"]
      /\ object' = [object EXCEPT ![p].fines = @ - Min({@, amount[p]})]
      /\ pc[p] = "execute" /\ p \in Requests /\ p \notin Charges
  BY BillingAssumption DEF PayExecute, Goto, args, history, Requests
<1>1. TypesOK'
  <2>1. object' = [q \in Requests |-> object'[q]] /\ dirty' = [q \in Requests |-> dirty'[q]]
    BY <1>0 DEF TypesOK
  <2>2. pc' \in [Requests -> {"idle", "strategy", "execute", "merge", "commit",
                            "done", "failed"}]
        /\ \A h \in Charges : pc'[h] \notin {"strategy", "execute"}
    BY <1>0 DEF TypesOK, Requests
  <2>3. amount' \in [Payments -> Nat] /\ fine' \in [Charges -> Nat] /\ debt' \in Nat
    BY <1>0 DEF TypesOK
  <2> QED
    BY <2>1, <2>2, <2>3 DEF TypesOK
<1>2. IsUser(u) /\ u["fines"] \in Nat /\ amount[p] \in Nat
  BY <1>0 DEF UsersOK, IsUser, TypesOK
<1>3. paid \in Nat
  BY <1>2, PaidBalance
<1>4. object'[p] = [u EXCEPT !["fines"] = paid]
      /\ \A q \in Requests \ {p} : object'[q] = object[q] /\ pc'[q] = pc[q]
  BY <1>0 DEF TypesOK
<1> HIDE DEF paid
<1>5. /\ object'[p]["fines"] = paid /\ object'[p]["borrowed"] = u["borrowed"]
      /\ object'[p] = [col \in Columns |-> object'[p][col]]
  BY <1>2, <1>4 DEF IsUser, Columns
<1>6. UsersOK'
  BY <1>0, <1>3, <1>4, <1>5 DEF UsersOK, IsUser
<1>7. Accounted'
  <2> SUFFICES ASSUME ~ overlap' PROVE Accounted'
    BY DEF Accounted
  <2>1. pc'[p] = "merge"
    BY <1>0 DEF TypesOK
  <2>2. \A q \in Requests : Applied(q)' = Applied(q) /\ Reading(q)' = Reading(q)
    BY <1>0, <1>4, <2>1 DEF Applied, TypesOK, Reading
  <2>3. u["fines"] = row["fines"] /\ u["borrowed"] = row["borrowed"]
    BY <1>0 DEF Accounted, Reading
  <2>4. paid = Applied(p)
    BY <2>3 DEF paid, Applied
  <2> QED
    BY <1>0, <1>4, <1>5, <2>1, <2>2, <2>3, <2>4 DEF Accounted
<1> QED
  BY <1>1, <1>6, <1>7

(* A request that ends without saving.                                     *)
LEMMA FailedAccount ==
    ASSUME AccountInv, NEW r \in Requests, pc' = [pc EXCEPT ![r] = "failed"],
           UNCHANGED <<row, amount, fine, object, dirty, debt, loans, overlap>>
    PROVE  AccountInv'
<1> USE DEF AccountInv
<1>1. TypesOK'
  BY DEF TypesOK
<1>2. UsersOK'
  BY DEF UsersOK, IsUser
<1>3. Accounted'
  <2>1. pc'[r] = "failed" /\ \A q \in Requests \ {r} : pc'[q] = pc[q]
    BY DEF TypesOK
  <2>2. ~ Reading(r)' /\ \A q \in Requests \ {r} : Reading(q)' = Reading(q)
    BY <2>1 DEF Reading
  <2>3. \A q \in Requests : Applied(q)' = Applied(q)
    BY DEF Applied
  <2> QED
    BY <2>1, <2>2, <2>3 DEF Accounted
<1> QED
  BY <1>1, <1>2, <1>3

(* A charge adds a fine, a natural number, to the user it has read.        *)
LEMMA ChargeReadAccount ==
    ASSUME AccountInv, NEW g \in Charges, NEW days \in Overdue,
           NEW waiting \in Waiting, NEW rating \in Ratings,
           ChargeRead(g, days, waiting, rating)
    PROVE  AccountInv'
<1> USE DEF AccountInv
<1> DEFINE f == DynamicDemandFine(days, waiting, rating, 0)
<1>1. f \in Nat
  BY BillingAssumption, FineIsNat
<1>0. /\ UNCHANGED <<row, amount, dirty, debt, loans, overlap>>
      /\ pc' = [pc EXCEPT ![g] = "merge"]
      /\ fine' = [fine EXCEPT ![g] = f]
      /\ object' = [object EXCEPT ![g] = [row EXCEPT !["fines"] = row["fines"] + f]]
      /\ pc[g] = "idle" /\ g \in Requests /\ g \notin Payments
  BY BillingAssumption DEF ChargeRead, Goto, history, Requests
<1> HIDE DEF f
<1>2. TypesOK'
  <2>1. object' = [q \in Requests |-> object'[q]] /\ dirty' = [q \in Requests |-> dirty'[q]]
    BY <1>0 DEF TypesOK
  <2>2. pc' \in [Requests -> {"idle", "strategy", "execute", "merge", "commit",
                            "done", "failed"}]
        /\ \A h \in Charges : pc'[h] \notin {"strategy", "execute"}
    BY <1>0 DEF TypesOK, Requests
  <2>3. amount' \in [Payments -> Nat] /\ fine' \in [Charges -> Nat] /\ debt' \in Nat
    BY <1>0, <1>1 DEF TypesOK
  <2> QED
    BY <2>1, <2>2, <2>3 DEF TypesOK
<1>3. object'[g] = [row EXCEPT !["fines"] = row["fines"] + f]
      /\ \A q \in Requests \ {g} : object'[q] = object[q] /\ pc'[q] = pc[q]
  BY <1>0 DEF TypesOK
<1>4. /\ object'[g]["fines"] = row["fines"] + f
      /\ object'[g]["borrowed"] = row["borrowed"]
      /\ object'[g] = [col \in Columns |-> object'[g][col]]
      /\ row["fines"] \in Nat
  BY <1>3 DEF UsersOK, IsUser, Columns
<1>5. UsersOK'
  BY <1>0, <1>1, <1>3, <1>4 DEF UsersOK, IsUser
<1>6. Accounted'
  <2> SUFFICES ASSUME ~ overlap' PROVE Accounted'
    BY DEF Accounted
  <2>1. pc'[g] = "merge" /\ fine'[g] = f
    BY <1>0 DEF TypesOK
  <2>2. \A q \in Requests \ {g} : Applied(q)' = Applied(q) /\ Reading(q)' = Reading(q)
    BY <1>0, <1>3 DEF Applied, TypesOK, Reading, Requests
  <2>3. Applied(g)' = row["fines"] + f
    BY <1>0, <2>1 DEF Applied
  <2> QED
    BY <1>0, <1>3, <1>4, <2>1, <2>2, <2>3 DEF Accounted
<1> QED
  BY <1>2, <1>5, <1>6

(* merge collects the columns in which object and row differ.              *)
LEMMA MergeAccount ==
    ASSUME AccountInv, NEW r \in Requests, Merge(r)
    PROVE  AccountInv'
<1> USE DEF AccountInv
<1>0. /\ UNCHANGED <<row, amount, fine, object, debt, loans, overlap>>
      /\ pc' = [pc EXCEPT ![r] = "commit"]
      /\ dirty' = [dirty EXCEPT ![r] = {col \in Columns : object[r][col] # row[col]}]
      /\ pc[r] = "merge"
  BY DEF Merge, Goto, args, history
<1>1. TypesOK'
  <2>1. object' = [q \in Requests |-> object'[q]] /\ dirty' = [q \in Requests |-> dirty'[q]]
    BY <1>0 DEF TypesOK
  <2>2. pc' \in [Requests -> {"idle", "strategy", "execute", "merge", "commit",
                            "done", "failed"}]
        /\ \A h \in Charges : pc'[h] \notin {"strategy", "execute"}
    BY <1>0 DEF TypesOK, Requests
  <2>3. amount' \in [Payments -> Nat] /\ fine' \in [Charges -> Nat] /\ debt' \in Nat
    BY <1>0 DEF TypesOK
  <2> QED
    BY <2>1, <2>2, <2>3 DEF TypesOK
<1>2. UsersOK'
  BY <1>0 DEF UsersOK, IsUser
<1>3. Accounted'
  <2>1. pc'[r] = "commit" /\ \A q \in Requests \ {r} : pc'[q] = pc[q] /\ dirty'[q] = dirty[q]
    BY <1>0 DEF TypesOK
  <2>2. dirty'[r] = {col \in Columns : object[r][col] # row[col]}
    BY <1>0 DEF TypesOK
  <2>3. \A q \in Requests : Applied(q)' = Applied(q) /\ Reading(q)' = Reading(q)
    BY <1>0, <2>1 DEF Applied, Reading
  <2> QED
    BY <1>0, <2>1, <2>2, <2>3 DEF Accounted
<1> QED
  BY <1>1, <1>2, <1>3

(* The UPDATE of a request that nobody else overlaps writes its object, so *)
(* the row takes exactly the payment or the fine that the history adds.    *)
LEMMA CommitAccount ==
    ASSUME AccountInv, NEW r \in Requests, Commit(r)
    PROVE  AccountInv'
<1> USE DEF AccountInv
<1>0. /\ UNCHANGED <<amount, fine, object, dirty, loans>>
      /\ pc' = [pc EXCEPT ![r] = "done"]
      /\ row' = [col \in Columns |-> IF col \in dirty[r] THEN object[r][col] ELSE row[col]]
      /\ debt' = IF r \in Payments THEN debt - Min({debt, amount[r]}) ELSE debt + fine[r]
      /\ overlap' = (overlap \/ \E q \in Requests \ {r} : Reading(q))
      /\ pc[r] = "commit" /\ (r \in Payments \/ r \in Charges)
  BY DEF Commit, Goto, args, Overlap, Requests
<1>1. debt' \in Nat
  <2>1. CASE r \in Payments
    <3>1. amount[r] \in Nat /\ debt \in Nat
      BY <2>1 DEF TypesOK
    <3> QED
      BY <1>0, <2>1, <3>1, PaidBalance
  <2>2. CASE r \notin Payments
    <3>1. fine[r] \in Nat /\ debt \in Nat
      BY <1>0, <2>2 DEF TypesOK
    <3> QED
      BY <1>0, <2>2, <3>1
  <2> QED
    BY <2>1, <2>2
<1>2. TypesOK'
  BY <1>0, <1>1 DEF TypesOK
<1>3. row' = [col \in Columns |-> row'[col]] /\ row'["fines"] \in Nat
  BY <1>0 DEF UsersOK, IsUser, Columns
<1>4. UsersOK'
  BY <1>0, <1>3 DEF UsersOK, IsUser
<1>5. Accounted'
  <2> SUFFICES ASSUME ~ overlap' PROVE Accounted'
    BY DEF Accounted
  <2>1. ~ overlap /\ \A q \in Requests \ {r} : ~ Reading(q)
    BY <1>0
  <2>2. \A q \in Requests : ~ Reading(q)'
    BY <1>0, <2>1 DEF Reading, TypesOK
  <2>3. /\ row["fines"] = debt /\ row["borrowed"] = loans
        /\ object[r]["borrowed"] = row["borrowed"]
        /\ object[r]["fines"] = Applied(r)
        /\ dirty[r] = {col \in Columns : object[r][col] # row[col]}
    BY <1>0, <2>1 DEF Accounted, Reading
  <2>4. row'["borrowed"] = object[r]["borrowed"] /\ row'["fines"] = object[r]["fines"]
    BY <1>0, <2>3 DEF Columns
  <2>5. Applied(r) = debt'
    BY <1>0, <2>3 DEF Applied
  <2> QED
    BY <1>0, <2>2, <2>3, <2>4, <2>5 DEF Accounted, Reading
<1> QED
  BY <1>2, <1>4, <1>5

(* The invariant of the account is inductive.                              *)
LEMMA NextAccount == AccountInv /\ [Next]_vars => AccountInv'
<1> SUFFICES ASSUME AccountInv, [Next]_vars PROVE AccountInv'
  OBVIOUS
<1>1. CASE \E c \in Copies : Checkout(c)
  BY <1>1, CheckoutAccount
<1>2. ASSUME NEW p \in Payments, NEW m \in Methods, NEW a \in Amounts,
             NEW bad \in Metadata, PayRead(p, m, a, bad)
      PROVE  AccountInv'
  BY <1>2, PayReadAccount
<1>3. ASSUME NEW p \in Payments, PaySetStrategy(p) PROVE AccountInv'
  BY <1>3, PaySetStrategyAccount
<1>4. ASSUME NEW p \in Payments, PayExecute(p) PROVE AccountInv'
  BY <1>4, PayExecuteAccount
<1>5. ASSUME NEW p \in Payments, PayRefused(p) PROVE AccountInv'
  <2>1. p \in Requests /\ pc' = [pc EXCEPT ![p] = "failed"]
        /\ UNCHANGED <<row, amount, fine, object, dirty, debt, loans, overlap>>
    BY <1>5 DEF PayRefused, Goto, args, history, Requests
  <2> QED
    BY <2>1, FailedAccount
<1>6. ASSUME NEW g \in Charges, NEW days \in Overdue, NEW waiting \in Waiting,
             NEW rating \in Ratings, ChargeRead(g, days, waiting, rating)
      PROVE  AccountInv'
  BY <1>6, ChargeReadAccount
<1>7. ASSUME NEW r \in Requests, Merge(r) PROVE AccountInv'
  BY <1>7, MergeAccount
<1>8. ASSUME NEW r \in Requests, Commit(r) PROVE AccountInv'
  BY <1>8, CommitAccount
<1>9. ASSUME NEW r \in Requests, SaveFails(r) PROVE AccountInv'
  <2>1. pc' = [pc EXCEPT ![r] = "failed"]
        /\ UNCHANGED <<row, amount, fine, object, dirty, debt, loans, overlap>>
    BY <1>9 DEF SaveFails, Goto, args, history
  <2> QED
    BY <2>1, FailedAccount
<1>10. CASE UNCHANGED vars
  <2>1. UNCHANGED <<row, pc, amount, fine, object, dirty, debt, loans, overlap>>
    BY <1>10 DEF vars, args, history
  <2>2. TypesOK' /\ UsersOK'
    BY <2>1 DEF AccountInv, TypesOK, UsersOK, IsUser
  <2>3. Accounted'
    BY <2>1 DEF AccountInv, Accounted, Reading, Applied
  <2> QED
    BY <2>2, <2>3 DEF AccountInv
<1> QED
  BY <1>1, <1>2, <1>3, <1>4, <1>5, <1>6, <1>7, <1>8, <1>9, <1>10 DEF Next

(* For any number of payments, charges and copies, and for any amounts: no *)
(* order of payments makes the balance negative, and as long as no request *)
(* commits between the reading and the writing of another, the row is      *)
(* exactly what was charged less what was paid, with the loans in it.      *)
THEOREM Balances == Spec => []AccountBalances
<1>1. AccountInv => AccountBalances
  <2> SUFFICES ASSUME AccountInv PROVE AccountBalances
    OBVIOUS
  <2>1. row.fines \in Nat
    BY DEF AccountInv, UsersOK, IsUser
  <2>2. ~ overlap => row.fines = debt /\ row.borrowed = loans
    BY DEF AccountInv, Accounted
  <2> QED
    BY <2>1, <2>2 DEF AccountBalances
<1> QED
  BY InitAccount, NextAccount, <1>1, PTL DEF Spec

(***************************************************************************)
(* The method of a payment.  While a payment stands between set_strategy   *)
(* and execute_payment, the shared processor has its method or that of a   *)
(* payment that set it later; a payment that counts as a rival has left    *)
(* its first step, so its method does not change any more.                 *)
(***************************************************************************)
Asked(p) == {method[q] : q \in {p} \cup rivals[p]}

MethodInv ==
    /\ pc \in [Requests -> {"idle", "strategy", "execute", "merge", "commit",
                            "done", "failed"}]
    /\ method = [p \in Payments |-> method[p]]
    /\ via = [p \in Payments |-> via[p]]
    /\ rivals \in [Payments -> SUBSET Payments]
    /\ \A p \in Payments :
          /\ \A q \in rivals[p] : pc[q] # "idle"
          /\ pc[p] = "execute" => processor \in Asked(p)
          /\ via[p] # None => pc[p] # "idle" /\ via[p] \in Asked(p)

(* Steps that leave the processor and the methods alone, and take a        *)
(* request neither back to its start nor to the execution of a payment.    *)
LEMMA OtherMethod ==
    ASSUME MethodInv, NEW r \in Requests, NEW l \in {"merge", "commit", "done", "failed"},
           pc' = [pc EXCEPT ![r] = l], UNCHANGED <<processor, method, via, rivals>>
    PROVE  MethodInv'
<1>1. \A q \in Requests : (pc[q] # "idle" => pc'[q] # "idle")
                         /\ (pc'[q] = "execute" => pc[q] = "execute")
  BY DEF MethodInv
<1>2. \A p \in Payments : Asked(p)' = Asked(p)
  BY DEF Asked
<1> QED
  BY <1>1, <1>2 DEF MethodInv, Requests

(* At the start nothing has been paid and nobody has rivals.               *)
LEMMA InitMethod == Init => MethodInv
BY DEF Init, MethodInv, Requests

(* A step that sets the processor becomes a rival of whoever is between    *)
(* set and execute.                                                        *)
LEMMA NextMethod == MethodInv /\ [Next]_vars => MethodInv'
<1> SUFFICES ASSUME MethodInv, [Next]_vars PROVE MethodInv'
  OBVIOUS
<1> USE DEF Goto, args, history
<1>0. \A p \in Payments : p \in Requests
  BY DEF Requests
<1>1. CASE UNCHANGED <<processor, pc, method, via, rivals>>
  <2>1. \A p \in Payments : Asked(p)' = Asked(p)
    BY <1>1 DEF Asked
  <2> QED
    BY <1>1, <2>1 DEF MethodInv
<1>2. CASE \E c \in Copies : Checkout(c)
  BY <1>1, <1>2 DEF Checkout
<1>3. ASSUME NEW p \in Payments, NEW m \in Methods, NEW a \in Amounts,
             NEW bad \in Metadata, PayRead(p, m, a, bad)
      PROVE  MethodInv'
  <2>1. /\ pc[p] = "idle" /\ pc' = [pc EXCEPT ![p] = "strategy"]
        /\ method' = [method EXCEPT ![p] = m]
        /\ UNCHANGED <<processor, via, rivals>>
    BY <1>3 DEF PayRead
  <2>2. \A q \in Payments : pc[q] # "idle" => q # p /\ pc'[q] = pc[q]
    BY <1>0, <2>1 DEF MethodInv
  <2>3. pc'[p] = "strategy" /\ \A q \in Payments \ {p} : pc'[q] = pc[q] /\ method'[q] = method[q]
    BY <1>0, <2>1 DEF MethodInv
  <2>4. \A q \in Payments : pc[q] # "idle" => Asked(q)' = Asked(q)
    <3> SUFFICES ASSUME NEW q \in Payments, pc[q] # "idle" PROVE Asked(q)' = Asked(q)
      OBVIOUS
    <3>1. \A x \in {q} \cup rivals[q] : method'[x] = method[x]
      BY <2>1, <2>3 DEF MethodInv
    <3> QED
      BY <2>1, <3>1 DEF Asked
  <2>5. \A q \in Payments : \A x \in rivals'[q] : pc'[x] # "idle"
    BY <2>1, <2>2, <2>3 DEF MethodInv
  <2>6. \A q \in Payments : pc'[q] = "execute" => processor' \in Asked(q)'
    BY <2>1, <2>3, <2>4 DEF MethodInv
  <2>7. \A q \in Payments : via'[q] # None => pc'[q] # "idle" /\ via'[q] \in Asked(q)'
    BY <2>1, <2>2, <2>4 DEF MethodInv
  <2> QED
    BY <2>1, <2>5, <2>6, <2>7 DEF MethodInv
<1>4. ASSUME NEW p \in Payments, PaySetStrategy(p) PROVE MethodInv'
  <2>1. /\ pc[p] = "strategy" /\ pc' = [pc EXCEPT ![p] = "execute"]
        /\ processor' = method[p] /\ UNCHANGED <<method, via>>
        /\ rivals' = [q \in Payments |->
              IF q # p /\ pc[q] = "execute" THEN rivals[q] \cup {p} ELSE rivals[q]]
    BY <1>4 DEF PaySetStrategy
  <2>2. pc'[p] = "execute" /\ \A q \in Payments \ {p} : pc'[q] = pc[q]
    BY <1>0, <2>1 DEF MethodInv
  <2>3. \A q \in Payments : Asked(q) \subseteq Asked(q)'
    BY <2>1 DEF Asked
  <2>4. \A q \in Payments : \A x \in rivals'[q] : pc'[x] # "idle"
    BY <2>1, <2>2 DEF MethodInv
  <2>5. \A q \in Payments : pc'[q] = "execute" => processor' \in Asked(q)'
    <3> SUFFICES ASSUME NEW q \in Payments, pc'[q] = "execute" PROVE method[p] \in Asked(q)'
      BY <2>1
    <3>1. p \in {q} \cup rivals'[q]
      BY <2>1, <2>2 DEF MethodInv
    <3> QED
      BY <2>1, <3>1 DEF Asked
  <2>6. \A q \in Payments : via'[q] # None => pc'[q] # "idle" /\ via'[q] \in Asked(q)'
    BY <2>1, <2>2, <2>3 DEF MethodInv
  <2>7. rivals' \in [Payments -> SUBSET Payments]
    BY <2>1 DEF MethodInv
  <2>8. pc' \in [Requests -> {"idle", "strategy", "execute", "merge", "commit",
                             "done", "failed"}]
    BY <2>1 DEF MethodInv
  <2> QED
    BY <2>1, <2>4, <2>5, <2>6, <2>7, <2>8 DEF MethodInv
<1>5. ASSUME NEW p \in Payments, PayExecute(p) PROVE MethodInv'
  <2>1. /\ pc[p] = "execute" /\ pc' = [pc EXCEPT ![p] = "merge"]
        /\ via' = [via EXCEPT ![p] = processor]
        /\ UNCHANGED <<processor, method, rivals>>
    BY <1>5 DEF PayExecute
  <2>2. pc'[p] = "merge" /\ \A q \in Requests \ {p} : pc'[q] = pc[q]
    BY <1>0, <2>1 DEF MethodInv
  <2>3. via'[p] = processor /\ \A q \in Payments \ {p} : via'[q] = via[q]
    BY <2>1 DEF MethodInv
  <2>4. \A q \in Payments : Asked(q)' = Asked(q)
    BY <2>1 DEF Asked
  <2>5. via' = [q \in Payments |-> via'[q]]
    BY <2>1 DEF MethodInv
  <2>6. pc' \in [Requests -> {"idle", "strategy", "execute", "merge", "commit",
                             "done", "failed"}]
    BY <2>1 DEF MethodInv
  <2> QED
    BY <1>0, <2>1, <2>2, <2>3, <2>4, <2>5, <2>6 DEF MethodInv
<1>6. ASSUME NEW p \in Payments, PayRefused(p) PROVE MethodInv'
  BY <1>0, <1>6, OtherMethod DEF PayRefused
<1>7. ASSUME NEW g \in Charges, NEW days \in Overdue, NEW waiting \in Waiting,
             NEW rating \in Ratings, ChargeRead(g, days, waiting, rating)
      PROVE  MethodInv'
  BY <1>7, OtherMethod DEF ChargeRead, Requests
<1>8. ASSUME NEW r \in Requests, Merge(r) PROVE MethodInv'
  BY <1>8, OtherMethod DEF Merge
<1>9. ASSUME NEW r \in Requests, Commit(r) PROVE MethodInv'
  BY <1>9, OtherMethod DEF Commit
<1>10. ASSUME NEW r \in Requests, SaveFails(r) PROVE MethodInv'
  BY <1>10, OtherMethod DEF SaveFails
<1>11. CASE UNCHANGED vars
  BY <1>1, <1>11 DEF vars
<1> QED
  BY <1>2, <1>3, <1>4, <1>5, <1>6, <1>7, <1>8, <1>9, <1>10, <1>11 DEF Next

(* For any number of payments that share the processor object, a payment   *)
(* is taken through the method it asked for or through the method of a     *)
(* payment that called set_strategy between its two calls.                 *)
THEOREM MethodsAsked == Spec => []TakenAsAsked
<1>1. MethodInv => TakenAsAsked
  BY DEF MethodInv, TakenAsAsked, Asked
<1> QED
  BY InitMethod, NextMethod, <1>1, PTL DEF Spec

(***************************************************************************)
(* The fine policies, for every number of days, queue, rating and number   *)
(* of late returns.                                                        *)
(***************************************************************************)
(* min() and max() of two amounts as a choice between them.                *)
LEMMA MinMaxChoice ==
    ASSUME NEW a \in Int, NEW b \in Int
    PROVE  /\ Min({a, b}) = IF a <= b THEN a ELSE b
           /\ Max({a, b}) = IF a <= b THEN b ELSE a
<1>1. Min({a, b}) \in {a, b} /\ Min({a, b}) <= a /\ Min({a, b}) <= b
  BY MinOfTwo
<1>2. Max({a, b}) \in {a, b} /\ Max({a, b}) >= a /\ Max({a, b}) >= b
  BY MaxOfTwo
<1> QED
  BY <1>1, <1>2

(* The tiers in closed form: 3 days at the base rate, 7 at 1.5 times, the  *)
(* others at 2.5 times.                                                    *)
LEMMA TieredAmount ==
    ASSUME NEW days \in Int, days > 0
    PROVE  TieredRiskFine(days) =
              IF days <= 3 THEN days * 4000
              ELSE IF days <= 10 THEN 12000 + (days - 3) * 6000
              ELSE 54000 + (days - 10) * 10000
<1>1. PICK m : m = Min({3, days})
  OBVIOUS
<1>2. PICK n : n = Min({7, days - 3})
  OBVIOUS
<1>3. m = IF 3 <= days THEN 3 ELSE days
  <2>1. 3 \in Int /\ days \in Int
    OBVIOUS
  <2> QED
    BY ONLY <1>1, <2>1, MinMaxChoice
<1>4. n = IF 7 <= days - 3 THEN 7 ELSE days - 3
  <2>1. 7 \in Int /\ days - 3 \in Int
    OBVIOUS
  <2> QED
    BY ONLY <1>2, <2>1, MinMaxChoice
<1>5. TieredRiskFine(days) =
         m * Rate + (IF days > 3 THEN (n * Rate * 3) \div 2 ELSE 0)
                  + (IF days > 10 THEN ((days - 10) * Rate * 5) \div 2 ELSE 0)
  BY <1>1, <1>2 DEF TieredRiskFine
<1>6. \A k \in Int : (k * Rate * 3) \div 2 = k * 6000 /\ (k * Rate * 5) \div 2 = k * 10000
  BY DEF Rate
<1>7. n \in Int /\ m \in Int /\ days - 10 \in Int
  BY <1>3, <1>4
<1>8. TieredRiskFine(days) =
         m * 4000 + (IF days > 3 THEN n * 6000 ELSE 0)
                  + (IF days > 10 THEN (days - 10) * 10000 ELSE 0)
  BY <1>5, <1>6, <1>7 DEF Rate
<1> QED
  BY <1>3, <1>4, <1>8

(* One more day costs the rate of that day.                                *)
LEMMA TieredByDay ==
    /\ TieredRiskFine(0) = 0
    /\ \A days \in Int : days >= 1 =>
          TieredRiskFine(days) = TieredRiskFine(days - 1) + DayRate(days)
<1>1. \A days \in Int : days <= 0 => TieredRiskFine(days) = 0
  BY DEF TieredRiskFine
<1>2. ASSUME NEW days \in Int, days >= 1
      PROVE  TieredRiskFine(days) = TieredRiskFine(days - 1) + DayRate(days)
  <2>1. DayRate(days) = IF days <= 3 THEN 4000 ELSE IF days <= 10 THEN 6000 ELSE 10000
    BY DEF DayRate, Rate
  <2>2. TieredRiskFine(days) =
           IF days <= 3 THEN days * 4000
           ELSE IF days <= 10 THEN 12000 + (days - 3) * 6000
           ELSE 54000 + (days - 10) * 10000
    BY <1>2, TieredAmount
  <2>3. CASE days = 1
    BY <1>1, <2>1, <2>2, <2>3
  <2>4. CASE days > 1
    <3>1. PICK k \in Int : k = days - 1 /\ k > 0
      BY <2>4
    <3>2. TieredRiskFine(k) =
             IF k <= 3 THEN k * 4000
             ELSE IF k <= 10 THEN 12000 + (k - 3) * 6000
             ELSE 54000 + (k - 10) * 10000
      BY <3>1, TieredAmount
    <3> QED
      BY <2>1, <2>2, <3>1, <3>2
  <2> QED
    BY <1>2, <2>3, <2>4
<1> QED
  BY <1>1, <1>2

(* The multipliers of the default policy, in quarters, hundredths and      *)
(* tenths.                                                                 *)
ByQueue(waiting) == 4 + Min({8, waiting})
ByRating(rating) == 100 + Max({0, rating - 30})
ByHistory(late) == 10 + Min({15, late})

(* They are at least 1, capped, and grow with what they count.             *)
LEMMA Multipliers ==
    /\ \A n \in Nat : /\ ByQueue(n) \in Nat /\ 4 <= ByQueue(n) /\ ByQueue(n) <= 12
                      /\ ByQueue(n) <= ByQueue(n + 1)
    /\ \A n \in Nat : /\ ByRating(n) \in Nat /\ ByRating(n) >= 100
                      /\ ByRating(n) <= ByRating(n + 1)
    /\ \A n \in 0 .. 50 : ByRating(n) <= 120
    /\ \A n \in Nat : /\ ByHistory(n) \in Nat /\ 10 <= ByHistory(n) /\ ByHistory(n) <= 25
                      /\ ByHistory(n) <= ByHistory(n + 1)
<1>1. 8 \in Int /\ 0 \in Int /\ 15 \in Int
  OBVIOUS
<1>2. \A n \in Nat : n \in Int /\ n - 30 \in Int
  OBVIOUS
<1>3. \A n \in Nat : ByQueue(n) = 4 + IF 8 <= n THEN 8 ELSE n
  BY ONLY <1>1, <1>2, MinMaxChoice DEF ByQueue
<1>4. \A n \in Nat : ByRating(n) = 100 + IF 0 <= n - 30 THEN n - 30 ELSE 0
  BY ONLY <1>1, <1>2, MinMaxChoice DEF ByRating
<1>5. \A n \in Nat : ByHistory(n) = 10 + IF 15 <= n THEN 15 ELSE n
  BY ONLY <1>1, <1>2, MinMaxChoice DEF ByHistory
<1>6. \A n \in Nat : /\ ByQueue(n) \in Nat /\ 4 <= ByQueue(n) /\ ByQueue(n) <= 12
                     /\ ByQueue(n) <= ByQueue(n + 1)
  BY <1>3
<1>7. \A n \in Nat : /\ ByRating(n) \in Nat /\ ByRating(n) >= 100
                     /\ ByRating(n) <= ByRating(n + 1)
  BY <1>4
<1>8. \A n \in 0 .. 50 : ByRating(n) <= 120
  BY <1>4
<1>9. \A n \in Nat : /\ ByHistory(n) \in Nat /\ 10 <= ByHistory(n) /\ ByHistory(n) <= 25
                     /\ ByHistory(n) <= ByHistory(n + 1)
  BY <1>5
<1> QED
  BY <1>6, <1>7, <1>8, <1>9

(* A product grows with its factors.                                       *)
LEMMA ProductGrows ==
    ASSUME NEW a \in Nat, NEW b \in Nat, NEW c \in Nat, NEW d \in Nat, a <= c, b <= d
    PROVE  a * b <= c * d
<1>1. PICK k \in Nat : c = a + k
  <2>1. c - a \in Nat /\ c = a + (c - a)
    OBVIOUS
  <2> QED
    BY <2>1
<1>2. PICK j \in Nat : d = b + j
  <2>1. d - b \in Nat /\ d = b + (d - b)
    OBVIOUS
  <2> QED
    BY <2>1
<1>3. c * d = a * b + a * j + k * d
  BY <1>1, <1>2
<1>4. a * j \in Nat /\ k * d \in Nat /\ a * b \in Nat
  BY ProductNat
<1> QED
  BY <1>3, <1>4

(* So does the product of days and multipliers.                            *)
Fine(d, w, q, l) == d * w * q * l

LEMMA FineGrows ==
    ASSUME NEW d \in Nat, NEW w \in Nat, NEW q \in Nat, NEW l \in Nat,
           NEW dd \in Nat, NEW ww \in Nat, NEW qq \in Nat, NEW ll \in Nat,
           d <= dd, w <= ww, q <= qq, l <= ll
    PROVE  Fine(d, w, q, l) <= Fine(dd, ww, qq, ll)
<1>1. d * w \in Nat /\ dd * ww \in Nat /\ d * w <= dd * ww
  BY ProductNat, ProductGrows
<1>2. PICK x \in Nat, y \in Nat : x = d * w /\ y = dd * ww /\ x <= y
  BY <1>1
<1>3. x * q \in Nat /\ y * qq \in Nat /\ x * q <= y * qq
  BY <1>2, ProductNat, ProductGrows
<1>4. PICK m \in Nat, n \in Nat : m = x * q /\ n = y * qq /\ m <= n
  BY <1>3
<1>5. m * l <= n * ll
  BY <1>4, ProductGrows
<1> QED
  BY <1>2, <1>4, <1>5 DEF Fine

(* The default policy is at least the fixed rate, at most 9 times it, and  *)
(* no lower with one more day, reservation, tenth of the rating or late    *)
(* return.                                                                 *)
Moderate(days, waiting, rating, late) ==
    LET f == DynamicDemandFine(days, waiting, rating, late)
    IN  /\ StandardFixedFine(days) <= f
        /\ f <= 9 * StandardFixedFine(days)
        /\ f <= DynamicDemandFine(days + 1, waiting, rating, late)
        /\ f <= DynamicDemandFine(days, waiting + 1, rating, late)
        /\ f <= DynamicDemandFine(days, waiting, rating + 1, late)
        /\ f <= DynamicDemandFine(days, waiting, rating, late + 1)

(* So it is for every input, with a rating of at most 5.                   *)
LEMMA DynamicPolicy ==
    ASSUME NEW days \in Int, NEW waiting \in Nat, NEW rating \in 0 .. 50, NEW late \in Nat
    PROVE  Moderate(days, waiting, rating, late)
<1>1. CASE days <= 0
  <2>1. \A w, q, l : DynamicDemandFine(days, w, q, l) = 0
    BY <1>1 DEF DynamicDemandFine
  <2>2. StandardFixedFine(days) = 0
    BY <1>1 DEF StandardFixedFine
  <2>3. DynamicDemandFine(days + 1, waiting, rating, late) \in Nat
    <3>1. days + 1 \in Int /\ rating \in Nat
      OBVIOUS
    <3> QED
      BY ONLY <3>1, FineIsNat, waiting \in Nat, late \in Nat
  <2> QED
    BY <2>1, <2>2, <2>3 DEF Moderate
<1>2. CASE days > 0
  <2>1. days \in Nat /\ days + 1 \in Nat /\ days <= days + 1
    BY <1>2
  <2>2. \A d \in Nat : \A w, q, l : d > 0 =>
           DynamicDemandFine(d, w, q, l) = Fine(d, ByQueue(w), ByRating(q), ByHistory(l))
    BY DEF DynamicDemandFine, Fine, ByQueue, ByRating, ByHistory
  <2>3. /\ waiting + 1 \in Nat /\ late + 1 \in Nat
        /\ rating \in Nat /\ rating + 1 \in Nat
    OBVIOUS
  <2>4. PICK w \in Nat, w1 \in Nat : /\ w = ByQueue(waiting) /\ w1 = ByQueue(waiting + 1)
                                     /\ 4 <= w /\ w <= 12 /\ w <= w1
    BY <2>3, Multipliers
  <2>5. PICK q \in Nat, q1 \in Nat : /\ q = ByRating(rating) /\ q1 = ByRating(rating + 1)
                                     /\ 100 <= q /\ q <= 120 /\ q <= q1
    BY <2>3, Multipliers
  <2>6. PICK l \in Nat, l1 \in Nat : /\ l = ByHistory(late) /\ l1 = ByHistory(late + 1)
                                     /\ 10 <= l /\ l <= 25 /\ l <= l1
    BY <2>3, Multipliers
  <2>7. DynamicDemandFine(days, waiting, rating, late) = Fine(days, w, q, l)
    BY <1>2, <2>1, <2>2, <2>4, <2>5, <2>6
  <2>8. /\ DynamicDemandFine(days + 1, waiting, rating, late) = Fine(days + 1, w, q, l)
        /\ DynamicDemandFine(days, waiting + 1, rating, late) = Fine(days, w1, q, l)
        /\ DynamicDemandFine(days, waiting, rating + 1, late) = Fine(days, w, q1, l)
        /\ DynamicDemandFine(days, waiting, rating, late + 1) = Fine(days, w, q, l1)
    BY <1>2, <2>1, <2>2, <2>4, <2>5, <2>6
  <2>9. /\ StandardFixedFine(days) = Fine(days, 4, 100, 10)
        /\ 9 * StandardFixedFine(days) = Fine(days, 12, 120, 25)
    BY <1>2 DEF StandardFixedFine, Fine, Rate
  <2>10. /\ w \in Nat /\ q \in Nat /\ l \in Nat /\ w <= w /\ q <= q /\ l <= l
         /\ days \in Nat /\ days <= days
         /\ w1 \in Nat /\ q1 \in Nat /\ l1 \in Nat /\ days + 1 \in Nat
    BY <2>1
  <2>11. Fine(days, 4, 100, 10) <= Fine(days, w, q, l)
    <3>1. PICK x \in Nat, y \in Nat, z \in Nat : x = 4 /\ y = 100 /\ z = 10
      OBVIOUS
    <3>2. x <= w /\ y <= q /\ z <= l
      BY <2>4, <2>5, <2>6, <3>1
    <3>3. Fine(days, x, y, z) <= Fine(days, w, q, l)
      BY ONLY <2>10, <3>2, FineGrows, x \in Nat, y \in Nat, z \in Nat
    <3> QED
      BY <3>1, <3>3
  <2>12. Fine(days, w, q, l) <= Fine(days, 12, 120, 25)
    <3>1. PICK x \in Nat, y \in Nat, z \in Nat : x = 12 /\ y = 120 /\ z = 25
      OBVIOUS
    <3>2. w <= x /\ q <= y /\ l <= z
      BY <2>4, <2>5, <2>6, <3>1
    <3>3. Fine(days, w, q, l) <= Fine(days, x, y, z)
      BY ONLY <2>10, <3>2, FineGrows, x \in Nat, y \in Nat, z \in Nat
    <3> QED
      BY <3>1, <3>3
  <2>13. Fine(days, w, q, l) <= Fine(days + 1, w, q, l)
    BY ONLY <2>1, <2>10, FineGrows
  <2>14. Fine(days, w, q, l) <= Fine(days, w1, q, l)
    BY ONLY <2>4, <2>10, FineGrows
  <2>15. Fine(days, w, q, l) <= Fine(days, w, q1, l)
    BY ONLY <2>5, <2>10, FineGrows
  <2>16. Fine(days, w, q, l) <= Fine(days, w, q, l1)
    BY ONLY <2>6, <2>10, FineGrows
  <2> QED
    BY <2>7, <2>8, <2>9, <2>11, <2>12, <2>13, <2>14, <2>15, <2>16 DEF Moderate
<1> QED
  BY <1>1, <1>2

(* What FinesFollowPolicy says of one charge of a number of days.          *)
Policy(n) ==
    /\ TieredRiskFine(0) = 0
    /\ \A days \in 1 .. n :
          TieredRiskFine(days) = TieredRiskFine(days - 1) + DayRate(days)
    /\ \A days \in -1 .. n, waiting \in {0, 7, 8}, rating \in {29, 30, 49}, late \in {0, 14} :
          Moderate(days, waiting, rating, late)

(* The days of a charge are a whole number, so both policies apply.        *)
DaysOK == overdue \in [Charges -> Int]

LEMMA PolicyHolds ==
    ASSUME NEW n \in Int
    PROVE  Policy(n)
<1>1. \A days \in 1 .. n : days \in Int /\ days >= 1
  OBVIOUS
<1>2. \A days \in -1 .. n : days \in Int
  OBVIOUS
<1>3. {0, 7, 8} \subseteq Nat /\ {29, 30, 49} \subseteq 0 .. 50 /\ {0, 14} \subseteq Nat
  OBVIOUS
<1> QED
  BY <1>1, <1>2, <1>3, TieredByDay, DynamicPolicy DEF Policy

(* Requests give whole numbers of days, and keep them.                     *)
LEMMA NextDays == DaysOK /\ [Next]_vars => DaysOK'
<1> SUFFICES ASSUME DaysOK, [Next]_vars PROVE DaysOK'
  OBVIOUS
<1>1. ASSUME NEW g \in Charges, NEW days \in Overdue, NEW waiting \in Waiting,
             NEW rating \in Ratings, ChargeRead(g, days, waiting, rating)
      PROVE  DaysOK'
  BY <1>1, BillingAssumption DEF DaysOK, ChargeRead
<1>2. CASE UNCHANGED overdue
  BY <1>2 DEF DaysOK
<1>3. \/ \E g \in Charges, days \in Overdue, waiting \in Waiting, rating \in Ratings :
            ChargeRead(g, days, waiting, rating)
      \/ UNCHANGED overdue
  BY DEF Next, vars, args, Checkout, PayRead, PaySetStrategy, PayExecute, PayRefused,
         Merge, Commit, SaveFails
<1> QED
  BY <1>1, <1>2, <1>3

(* For any number of days of any charge, the tiers add up day by day, and  *)
(* the default policy stays between the fixed rate and 9 times it and      *)
(* grows with every factor (DynamicPolicy: for every queue, rating and     *)
(* number of late returns).                                                *)
THEOREM FinePolicies == Spec => FinesFollowPolicy
<1>1. Init => DaysOK
  BY DEF Init, DaysOK
<1>2. DaysOK /\ DaysOK' /\ [Next]_vars => [\A g \in Charges : Charging(g) => Policy(overdue'[g])]_vars
  <2>1. DaysOK' => \A g \in Charges : overdue'[g] \in Int
    BY DEF DaysOK
  <2> QED
    BY <2>1, PolicyHolds
<1>3. [][\A g \in Charges : Charging(g) => Policy(overdue'[g])]_vars => FinesFollowPolicy
  BY PTL DEF FinesFollowPolicy, Policy, Moderate
<1> QED
  BY <1>1, <1>2, <1>3, NextDays, PTL DEF Spec
=============================================================================

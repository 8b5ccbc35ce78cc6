------------------------------- MODULE Billing -------------------------------
(***************************************************************************)
(* BillingService on the PostgreSQL backend: fines are charged and paid    *)
(* by requests that read the user row in one session and merge the whole   *)
(* object back in another, beside checkouts that rewrite the same row      *)
(* under its lock (one step here, see Circulation).  The payment processor *)
(* is one object for all threads: set_strategy and execute_payment are two *)
(* calls.  Amounts are in quarters of a cent, so that every fine is a      *)
(* whole number before it is rounded.                                      *)
(***************************************************************************)
EXTENDS Integers, FiniteSets, FiniteSetsExt

CONSTANTS
    Copies,
    Payments,     \* requests POST /billing/pay
    Charges,      \* calls of charge_fine
    Amounts,      \* amounts of payments
    Debts,        \* balances a user may start with
    Overdue,      \* days overdue that charge_fine is called with
    Waiting,      \* numbers of waiting reservations it may find
    Ratings,      \* ratings of the book, in tenths
    Metadata,     \* sets of methods that a payment's metadata does not suit
    None

ASSUME BillingAssumption ==
    /\ Amounts \subseteq Nat /\ Debts \subseteq Nat
    /\ Overdue \subseteq Int /\ Waiting \subseteq Nat /\ Ratings \subseteq Nat
    /\ Metadata \subseteq SUBSET {"UPI", "CARD"}
    /\ Payments \cap Charges = {} /\ None \notin Payments \cup Charges \cup Nat

(***************************************************************************)
(* patterns/strategy_fine.py.  The base rate is 10.00 a day.               *)
(***************************************************************************)
Rate == 4000

(* Fault: the second tier starts a day early.                              *)
TieredOffByOne(days) ==
    IF days <= 0 THEN 0
    ELSE Min({3, days}) * Rate
         + (IF days > 2 THEN (Min({7, days - 2}) * Rate * 3) \div 2 ELSE 0)
         + (IF days > 10 THEN ((days - 10) * Rate * 5) \div 2 ELSE 0)

TieredRiskFine(days) ==
    IF days <= 0 THEN 0
    ELSE Min({3, days}) * Rate
         + (IF days > 3 THEN (Min({7, days - 3}) * Rate * 3) \div 2 ELSE 0)
         + (IF days > 10 THEN ((days - 10) * Rate * 5) \div 2 ELSE 0)

StandardFixedFine(days) == IF days <= 0 THEN 0 ELSE days * Rate

(* The multipliers 1 + min(2, waiting / 4), 1 + max(0, (rating - 3) / 10)  *)
(* and 1 + min(1.5, late / 10); the rating is in tenths.                   *)
DynamicDemandFine(days, waiting, rating, late) ==
    IF days <= 0 THEN 0
    ELSE days * (4 + Min({8, waiting})) * (100 + Max({0, rating - 30}))
              * (10 + Min({15, late}))

-----------------------------------------------------------------------------
VARIABLES
    row,         \* the row of one user: [borrowed, fines]
    processor,   \* payment_processor._strategy
    pc,
    method, amount, invalid,   \* arguments of a payment: invalid are the
                               \* methods that its metadata does not suit
    object,      \* the User object of a request
    dirty,       \* the columns its UPDATE will set
    via,         \* the strategy that took the money of a payment
    overdue,     \* days overdue, the argument of a charge
    fine,        \* the fine of a charge
    debt,        \* history: the balance that payments and fines add up to
    loans,       \* history: the copies checked out
    rivals,      \* history: payments that set the strategy after this one
    overlap      \* history: a row was committed while another request had it

args == <<method, amount, invalid, overdue, fine>>
history == <<debt, loans, rivals, overlap>>
vars == <<row, processor, pc, args, object, dirty, via, history>>

Requests == Payments \cup Charges
Methods == {"UPI", "CARD", "WALLET"}
Columns == {"borrowed", "fines"}
NoUser == [borrowed |-> {}, fines |-> 0]

Init ==
    /\ row \in [borrowed : {{}}, fines : Debts]
    /\ processor = "UPI"
    /\ pc = [r \in Requests |-> "idle"]
    /\ method = [p \in Payments |-> None]
    /\ amount = [p \in Payments |-> 0]
    /\ invalid = [p \in Payments |-> {}]
    /\ overdue = [g \in Charges |-> 0]
    /\ fine = [g \in Charges |-> 0]
    /\ object = [r \in Requests |-> NoUser]
    /\ dirty = [r \in Requests |-> {}]
    /\ via = [p \in Payments |-> None]
    /\ debt = row.fines /\ loans = {}
    /\ rivals = [p \in Payments |-> {}]
    /\ overlap = FALSE

Goto(r, l) == pc' = [pc EXCEPT ![r] = l]

(* r has read the row and may still write it.                              *)
Reading(r) == pc[r] \in {"strategy", "execute", "merge", "commit"}
Overlap(r) ==
    overlap' = (overlap \/ \E q \in Requests \ {r} : Reading(q))

Checkout(c) ==
    /\ c \notin row.borrowed /\ c \notin loans
    /\ row' = [row EXCEPT !.borrowed = @ \cup {c}]
    /\ loans' = loans \cup {c}
    /\ Overlap(None)
    /\ UNCHANGED <<processor, pc, args, object, dirty, via, debt, rivals>>

(***************************************************************************)
(* pay_fine.                                                               *)
(***************************************************************************)
PayRead(p, m, a, bad) ==
    /\ pc[p] = "idle"
    /\ method' = [method EXCEPT ![p] = m]
    /\ amount' = [amount EXCEPT ![p] = a]
    /\ invalid' = [invalid EXCEPT ![p] = bad]
    /\ object' = [object EXCEPT ![p] = row]
    /\ Goto(p, "strategy")
    /\ UNCHANGED <<row, processor, overdue, fine, dirty, via, history>>

(* Fault: the branch for wallets is missing.                               *)
PaySetStrategyNoWallet(p) ==
    /\ pc[p] = "strategy"
    /\ processor' = IF method[p] = "WALLET" THEN processor ELSE method[p]
    /\ rivals' = [q \in Payments |->
          IF q # p /\ pc[q] = "execute" THEN rivals[q] \cup {p} ELSE rivals[q]]
    /\ Goto(p, "execute")
    /\ UNCHANGED <<row, args, object, dirty, via, debt, loans, overlap>>

PaySetStrategy(p) ==
    /\ pc[p] = "strategy"
    /\ processor' = method[p]
    /\ rivals' = [q \in Payments |->
          IF q # p /\ pc[q] = "execute" THEN rivals[q] \cup {p} ELSE rivals[q]]
    /\ Goto(p, "execute")
    /\ UNCHANGED <<row, args, object, dirty, via, debt, loans, overlap>>

(* No wallet is ever filled, so a wallet payment fails for lack of money;  *)
(* the other strategies look at their part of the metadata only.           *)
Completes(p) == amount[p] > 0 /\ processor # "WALLET" /\ processor \notin invalid[p]

PayExecute(p) ==
    /\ pc[p] = "execute" /\ Completes(p)
    /\ via' = [via EXCEPT ![p] = processor]
    /\ object' = [object EXCEPT ![p].fines = @ - Min({@, amount[p]})]
    /\ Goto(p, "merge")
    /\ UNCHANGED <<row, processor, args, dirty, history>>

PayRefused(p) ==
    /\ pc[p] = "execute" /\ ~ Completes(p)
    /\ Goto(p, "failed")
    /\ UNCHANGED <<row, processor, args, object, dirty, via, history>>

(***************************************************************************)
(* charge_fine: the fine is computed first, then the user is read.         *)
(***************************************************************************)
ChargeRead(g, days, waiting, rating) ==
    LET late == 0   \* returns marked late, of which there are none here
        f == DynamicDemandFine(days, waiting, rating, late)
    IN  /\ pc[g] = "idle"
        /\ overdue' = [overdue EXCEPT ![g] = days]
        /\ fine' = [fine EXCEPT ![g] = f]
        /\ object' = [object EXCEPT ![g] = [row EXCEPT !.fines = @ + f]]
        /\ Goto(g, "merge")
        /\ UNCHANGED <<row, processor, method, amount, invalid, dirty, via, history>>

(***************************************************************************)
(* save_user in a session of its own.                                      *)
(***************************************************************************)
Merge(r) ==
    /\ pc[r] = "merge"
    /\ dirty' = [dirty EXCEPT ![r] =
          {col \in Columns : object[r][col] # row[col]}]
    /\ Goto(r, "commit")
    /\ UNCHANGED <<row, processor, args, object, via, history>>

(* Fault: only one of the two kinds of request saves the user.             *)
CommitPaymentsOnly(r) ==
    /\ pc[r] = "commit"
    /\ row' = IF r \in Payments THEN object[r] ELSE row
    /\ debt' = IF r \in Payments THEN debt - Min({debt, amount[r]})
                                 ELSE debt + fine[r]
    /\ Overlap(r)
    /\ Goto(r, "done")
    /\ UNCHANGED <<processor, args, object, dirty, via, loans, rivals>>

Commit(r) ==
    /\ pc[r] = "commit"
    /\ row' = [col \in Columns |-> IF col \in dirty[r] THEN object[r][col]
                                                       ELSE row[col]]
    /\ debt' = IF r \in Payments THEN debt - Min({debt, amount[r]})
                                 ELSE debt + fine[r]
    /\ Overlap(r)
    /\ Goto(r, "done")
    /\ UNCHANGED <<processor, args, object, dirty, via, loans, rivals>>

(* The save raises: a payment has been taken and is not applied.           *)
SaveFails(r) ==
    /\ pc[r] \in {"merge", "commit"}
    /\ Goto(r, "failed")
    /\ UNCHANGED <<row, processor, args, object, dirty, via, history>>

Next ==
    \/ \E c \in Copies : Checkout(c)
    \/ \E p \in Payments :
          \/ \E m \in Methods, a \in Amounts, bad \in Metadata :
                PayRead(p, m, a, bad)
          \/ PaySetStrategy(p) \/ PayExecute(p) \/ PayRefused(p)
    \/ \E g \in Charges, days \in Overdue, waiting \in Waiting, rating \in Ratings :
          ChargeRead(g, days, waiting, rating)
    \/ \E r \in Requests : Merge(r) \/ Commit(r) \/ SaveFails(r)

Spec == Init /\ [][Next]_vars
-----------------------------------------------------------------------------
(* The row is the account: what was charged, less what was paid and saved, *)
(* and the loans.  It goes wrong only if a request commits between the     *)
(* reading and the writing of another; then a payment is taken twice for   *)
(* one debt, a fine is forgotten or a loan disappears from the row, but    *)
(* still no order of payments makes the balance negative.                  *)
AccountBalances ==
    /\ row.fines >= 0
    /\ ~ overlap => row.fines = debt /\ row.borrowed = loans

(* A payment is taken through the method it asked for, or through that of  *)
(* a payment that set the shared processor in the moment between.          *)
TakenAsAsked ==
    \A p \in Payments :
        via[p] # None => via[p] \in {method[q] : q \in {p} \cup rivals[p]}

Charging(g) == pc[g] = "idle" /\ pc'[g] # "idle"

DayRate(d) == IF d <= 3 THEN Rate ELSE IF d <= 10 THEN (Rate * 3) \div 2
                                                  ELSE (Rate * 5) \div 2

(* The fine policies, for every number of days up to the one charged.  The *)
(* rates of TieredRiskFineStrategy add up day by day: days 1 to 3 at the   *)
(* base rate, 4 to 10 at 1.5 times, later ones at 2.5 times, and nothing   *)
(* else: the class comment's "Days 10+: 2.5x Base rate + Fixed replacement *)
(* bond" is not what calculate_fine does, no bond is ever charged.  The    *)
(* default DynamicDemandFineStrategy never undercuts the fixed rate, stays *)
(* within 9 times of it for a rating of at most 5, and grows with every    *)
(* factor.                                                                 *)
FinesFollowPolicy ==
    [][\A g \in Charges : Charging(g) =>
         /\ TieredRiskFine(0) = 0
         /\ \A days \in 1 .. overdue'[g] :
               TieredRiskFine(days) = TieredRiskFine(days - 1) + DayRate(days)
         /\ \A days \in -1 .. overdue'[g], waiting \in {0, 7, 8},
               rating \in {29, 30, 49}, late \in {0, 14} :
               LET f == DynamicDemandFine(days, waiting, rating, late)
               IN  /\ StandardFixedFine(days) <= f
                   /\ f <= 9 * StandardFixedFine(days)
                   /\ f <= DynamicDemandFine(days + 1, waiting, rating, late)
                   /\ f <= DynamicDemandFine(days, waiting + 1, rating, late)
                   /\ f <= DynamicDemandFine(days, waiting, rating + 1, late)
                   /\ f <= DynamicDemandFine(days, waiting, rating, late + 1)]_vars
=============================================================================

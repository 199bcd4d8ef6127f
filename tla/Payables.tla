------------------------------ MODULE Payables ------------------------------
(***************************************************************************)
(* Accounts payable: bills, payments, vendor credits, holds and the        *)
(* journal lines each posts to the payables control account and to the     *)
(* vendor advance account (ap.service, procurement.service).               *)
(*                                                                         *)
(* A handler is one transaction that locks what it reads, so it is one     *)
(* step; module Settlement shows that the settling ones may be taken as    *)
(* such.  Amounts are whole units of one currency, at rate one.            *)
(***************************************************************************)
EXTENDS Sums

CONSTANTS
  Bills,          \* numbers, in the order of their ids
  Payments, Credits, Vendors, Entities, Holds, Runs,
  Total,          \* vendor_bills.total
  Amount,         \* vendor_payments.amount
  CreditOf,       \* the bill a vendor credit is drawn from
  VendorOf,       \* of a bill
  EntityOf,       \* of a bill or a payment
  MatchResults    \* what comparing a bill with its order may yield

Documents == Bills \cup Credits

ASSUME DocumentsAssumption ==
  /\ Bills \subseteq Nat
  /\ Total \in [Bills -> Nat \ {0}]
  /\ Amount \in [Payments -> Nat \ {0}]
  /\ CreditOf \in [Credits -> Bills]
  /\ VendorOf \in [Bills -> Vendors]
  /\ EntityOf \in [Bills \cup Payments -> Entities]
  /\ MatchResults \subseteq {"MATCHED", "WITHIN_TOLERANCE", "EXCEPTION"}

ASSUME NamesAssumption ==
  /\ IsFiniteSet(Bills) /\ IsFiniteSet(Payments) /\ IsFiniteSet(Credits)
  /\ Credits \cap (Bills \cup Payments) = {} /\ Bills \cap Vendors = {}
  /\ "none" \notin Payments \cup Credits

VARIABLES
  bill,       \* vendor_bills: status, match_state, on_hold and the settlement columns
  payment,    \* vendor_payments: status, allocated_amount, unapplied_amount
  credit,     \* vendor_credits: status, amount_applied, amount_available
  paid,       \* payment_allocations, summed per payment and document
  credited,   \* vendor_credit_applications, summed per credit and bill
  hold,       \* payment_holds
  run,        \* payment_runs: the ones built
  control,    \* per entity: credits less debits on the payables control account
  advance,    \* per entity: debits less credits on the vendor advance account
  failed      \* requests answered by an error of the database

vars == <<bill, payment, credit, paid, credited, hold, run, control, advance, failed>>

Open == {"POSTED", "PARTIALLY_PAID"}
Posted(b) == bill[b].status \in Open \cup {"PAID"}
CreditEntity(c) == EntityOf[CreditOf[c]]

Apportioned(S, n) == {f \in [S -> 0..n] : Sum(f, S) \in 1..n}   \* what a request may ask for

Init ==
  /\ bill = [b \in Bills |-> [status |-> "DRAFT", match |-> "UNMATCHED", onHold |-> FALSE,
                              paid |-> 0, credited |-> 0, due |-> Total[b]]]
  /\ payment = [p \in Payments |-> [status |-> "none", allocated |-> 0, unapplied |-> Amount[p]]]
  /\ credit = [c \in Credits |-> [status |-> "none", applied |-> 0, available |-> Total[CreditOf[c]]]]
  /\ paid = [p \in Payments |-> [d \in Documents |-> 0]]
  /\ credited = [c \in Credits |-> [b \in Bills |-> 0]]
  /\ hold = [h \in Holds |-> [state |-> "none", scope |-> CHOOSE b \in Bills : TRUE]]
  /\ run = {}
  /\ control = [e \in Entities |-> 0]
  /\ advance = [e \in Entities |-> 0]
  /\ failed = {}
-----------------------------------------------------------------------------
(* Matching replaces the bill's earlier results and exceptions, whatever    *)
(* its status; an exception blocks posting and payment and nothing resolves *)
(* one but the next match.                                                  *)
MatchBill(b) ==
  /\ \E result \in MatchResults : bill' = [bill EXCEPT ![b].match = result]
  /\ UNCHANGED <<payment, credit, paid, credited, hold, run, control, advance, failed>>

Blocked(b) == bill[b].match = "EXCEPTION"

ApproveVendorBill(b) ==
  /\ bill[b].status = "DRAFT"
  /\ ~Blocked(b)
  /\ bill' = [bill EXCEPT ![b].status = "APPROVED"]
  /\ UNCHANGED <<payment, credit, paid, credited, hold, run, control, advance, failed>>

PostBill(b) ==   \* from DRAFT too: approval is not asked for
  /\ bill[b].status \in {"DRAFT", "APPROVED"} /\ ~Blocked(b)
  /\ bill' = [bill EXCEPT ![b].status = "POSTED"]
  /\ control' = [control EXCEPT ![EntityOf[b]] = @ + Total[b]]
  /\ UNCHANGED <<payment, credit, paid, credited, hold, run, advance, failed>>
-----------------------------------------------------------------------------
(* The allocation protocol: open documents only, none beyond what it is     *)
(* owed or has left.  Neither vendor nor entity is compared.                *)
Allocatable(f) ==
  \A d \in DOMAIN f : f[d] > 0 =>
    IF d \in Bills THEN bill[d].status \in Open /\ f[d] <= bill[d].due
    ELSE credit[d].status = "POSTED" /\ f[d] <= credit[d].available

(* applyToTarget on a bill: the column says what settles it.                *)
Settled_AlwaysPartly(row, n, column) ==   \* mutant: a bill never becomes PAID
  [row EXCEPT !.paid = @ + (IF column = "paid" THEN n ELSE 0),
              !.credited = @ + (IF column = "credited" THEN n ELSE 0),
              !.due = @ - n, !.status = "PARTIALLY_PAID"]

Settled(row, n, column) ==
  [row EXCEPT !.paid = @ + (IF column = "paid" THEN n ELSE 0),
              !.credited = @ + (IF column = "credited" THEN n ELSE 0),
              !.due = @ - n,
              !.status = IF row.due = n THEN "PAID" ELSE "PARTIALLY_PAID"]

Drawn(row, n) == [row EXCEPT !.applied = @ + n, !.available = @ - n]

BillsAfter_OneOnly(f, column) ==   \* mutant: the first bill of a request only
  [b \in Bills |-> IF b \in DOMAIN f /\ f[b] > 0 /\ \A o \in Bills : o < b => f[o] = 0
                   THEN Settled(bill[b], f[b], column) ELSE bill[b]]

BillsAfter(f, column) ==
  [b \in Bills |-> IF b \in DOMAIN f /\ f[b] > 0 THEN Settled(bill[b], f[b], column) ELSE bill[b]]
CreditsAfter(f) ==
  [c \in Credits |-> IF c \in DOMAIN f /\ f[c] > 0 THEN Drawn(credit[c], f[c]) ELSE credit[c]]
PaidAfter(p, f) ==
  [paid EXCEPT ![p] = [d \in Documents |-> @[d] + (IF d \in DOMAIN f THEN f[d] ELSE 0)]]

(* Payments are posted as they are recorded: Dr control with what is        *)
(* allocated, Dr advance with the rest, Cr the bank, all in the payment's   *)
(* entity.                                                                  *)
CreatePayment(p, f) ==
  LET n == Sum(f, DOMAIN f) e == EntityOf[p] IN
    /\ payment[p].status = "none"
    /\ Allocatable(f) /\ n <= Amount[p]
    /\ bill' = BillsAfter(f, "paid")
    /\ credit' = CreditsAfter(f)
    /\ paid' = PaidAfter(p, f)
    /\ payment' = [payment EXCEPT ![p] = [status |-> "POSTED", allocated |-> n,
                                          unapplied |-> Amount[p] - n]]
    /\ control' = [control EXCEPT ![e] = @ - n]
    /\ advance' = [advance EXCEPT ![e] = @ + (Amount[p] - n)]
    /\ UNCHANGED <<credited, hold, run, failed>>

AllocatePayment(p, f) ==   \* Dr control, Cr advance; whatever the payment's status
  LET n == Sum(f, DOMAIN f) e == EntityOf[p] IN
    /\ payment[p].status \in {"POSTED", "CONFIRMED"}
    /\ Allocatable(f) /\ n <= payment[p].unapplied
    /\ bill' = BillsAfter(f, "paid")
    /\ credit' = CreditsAfter(f)
    /\ paid' = PaidAfter(p, f)
    /\ payment' = [payment EXCEPT ![p].allocated = @ + n, ![p].unapplied = @ - n]
    /\ control' = [control EXCEPT ![e] = @ - n]
    /\ advance' = [advance EXCEPT ![e] = @ - n]
    /\ UNCHANGED <<credited, hold, run, failed>>

ConfirmPayment(p) ==
  /\ payment[p].status = "POSTED"
  /\ payment' = [payment EXCEPT ![p].status = "CONFIRMED"]
  /\ UNCHANGED <<bill, credit, paid, credited, hold, run, control, advance, failed>>

(* The bank reports a failure.  The bills are reopened and the payment is   *)
(* marked, then the query for the entries to mirror compares a uuid column  *)
(* with LIKE, an operator that does not exist: everything is rolled back.   *)
FailPayment(p) ==
  /\ payment[p].status = "POSTED"
  /\ failed' = failed \cup {p}
  /\ UNCHANGED <<bill, payment, credit, paid, credited, hold, run, control, advance>>
-----------------------------------------------------------------------------
CreateVendorCredit(c) ==
  /\ credit[c].status = "none"
  /\ Posted(CreditOf[c])
  /\ credit' = [credit EXCEPT ![c].status = "DRAFT"]
  /\ UNCHANGED <<bill, payment, paid, credited, hold, run, control, advance, failed>>

PostVendorCredit(c) ==
  /\ credit[c].status = "DRAFT"
  /\ credit' = [credit EXCEPT ![c].status = "POSTED"]
  /\ control' = [control EXCEPT ![CreditEntity(c)] = @ - Total[CreditOf[c]]]
  /\ UNCHANGED <<bill, payment, paid, credited, hold, run, advance, failed>>

ApplyVendorCredit_Posts(c, f) ==   \* mutant: applying a credit debits the control account again
  LET n == Sum(f, DOMAIN f) IN
    /\ credit[c].status = "POSTED"
    /\ \A b \in Bills : f[b] > 0 => /\ VendorOf[b] = VendorOf[CreditOf[c]]
                                    /\ EntityOf[b] = CreditEntity(c)
    /\ Allocatable(f) /\ n <= credit[c].available
    /\ bill' = BillsAfter(f, "credited")
    /\ credited' = [credited EXCEPT ![c] = [b \in Bills |-> @[b] + f[b]]]
    /\ credit' = [credit EXCEPT ![c] = Drawn(@, n)]
    /\ control' = [control EXCEPT ![CreditEntity(c)] = @ - n]
    /\ UNCHANGED <<payment, paid, hold, run, advance, failed>>

ApplyVendorCredit(c, f) ==   \* no journal: posting the credit moved the account
  LET n == Sum(f, DOMAIN f) IN
    /\ credit[c].status = "POSTED"
    /\ \A b \in Bills : f[b] > 0 => /\ VendorOf[b] = VendorOf[CreditOf[c]]
                                    /\ EntityOf[b] = CreditEntity(c)
    /\ Allocatable(f) /\ n <= credit[c].available
    /\ bill' = BillsAfter(f, "credited")
    /\ credited' = [credited EXCEPT ![c] = [b \in Bills |-> @[b] + f[b]]]
    /\ credit' = [credit EXCEPT ![c] = Drawn(@, n)]
    /\ UNCHANGED <<payment, paid, hold, run, control, advance, failed>>
-----------------------------------------------------------------------------
PlaceHold(h, scope) ==
  /\ hold[h].state = "none"
  /\ hold' = [hold EXCEPT ![h] = [state |-> "active", scope |-> scope]]
  /\ bill' = IF scope \in Bills THEN [bill EXCEPT ![scope].onHold = TRUE] ELSE bill
  /\ UNCHANGED <<payment, credit, paid, credited, run, control, advance, failed>>

ReleaseHold(h) ==   \* the bill's flag goes with the first of its holds to be released
  LET scope == hold[h].scope IN
    /\ hold[h].state = "active"
    /\ hold' = [hold EXCEPT ![h].state = "released"]
    /\ bill' = IF scope \in Bills THEN [bill EXCEPT ![scope].onHold = FALSE] ELSE bill
    /\ UNCHANGED <<payment, credit, paid, credited, run, control, advance, failed>>

ActiveHold(scope) == \E h \in Holds : hold[h] = [state |-> "active", scope |-> scope]

(* The bills a run is built from.                                           *)
Eligible_FlagOnly(e) ==   \* mutant: the flag on the bill stands for its holds
  {b \in Bills : /\ EntityOf[b] = e /\ bill[b].status \in Open /\ bill[b].due > 0
                 /\ ~Blocked(b) /\ ~bill[b].onHold /\ ~ActiveHold(VendorOf[b])}

Eligible(e) ==
  {b \in Bills : /\ EntityOf[b] = e /\ bill[b].status \in Open /\ bill[b].due > 0
                 /\ ~Blocked(b) /\ ~bill[b].onHold
                 /\ ~ActiveHold(b) /\ ~ActiveHold(VendorOf[b])}

(* A payment of the run is inserted before the run it refers to, and the    *)
(* foreign key is not deferred: only a run without payments can be built.   *)
CreatePaymentRun(r, e) ==
  /\ r \notin run
  /\ IF Eligible(e) = {} THEN run' = run \cup {r} /\ failed' = failed
     ELSE run' = run /\ failed' = failed \cup {r}
  /\ UNCHANGED <<bill, payment, credit, paid, credited, hold, control, advance>>

Next ==
  \/ \E b \in Bills : MatchBill(b) \/ ApproveVendorBill(b) \/ PostBill(b)
  \/ \E p \in Payments :
       \/ ConfirmPayment(p) \/ FailPayment(p)
       \/ \E f \in Apportioned(Documents, Amount[p]) : AllocatePayment(p, f) \/ CreatePayment(p, f)
       \/ CreatePayment(p, [d \in Documents |-> 0])
  \/ \E c \in Credits :
       \/ CreateVendorCredit(c) \/ PostVendorCredit(c)
       \/ \E f \in Apportioned(Bills, Total[CreditOf[c]]) : ApplyVendorCredit(c, f)
  \/ \E h \in Holds : \/ ReleaseHold(h)
                      \/ \E scope \in Bills \cup Vendors : PlaceHold(h, scope)
  \/ \E r \in Runs, e \in Entities : CreatePaymentRun(r, e)

Spec == Init /\ [][Next]_vars
-----------------------------------------------------------------------------
TypeOK ==
  /\ \A b \in Bills :
       /\ bill[b].status \in {"DRAFT", "APPROVED", "POSTED", "PARTIALLY_PAID", "PAID"}
       /\ bill[b].match \in {"UNMATCHED"} \cup MatchResults
       /\ bill[b].onHold \in BOOLEAN
       /\ {bill[b].paid, bill[b].credited, bill[b].due} \subseteq 0..Total[b]
  /\ payment \in [Payments -> [status : {"none", "POSTED", "CONFIRMED"}, allocated : Nat, unapplied : Nat]]
  /\ credit \in [Credits -> [status : {"none", "DRAFT", "POSTED"}, applied : Nat, available : Nat]]
  /\ paid \in [Payments -> [Documents -> Nat]]
  /\ credited \in [Credits -> [Bills -> Nat]]
  /\ hold \in [Holds -> [state : {"none", "active", "released"}, scope : Bills \cup Vendors]]
  /\ run \subseteq Runs
  /\ control \in [Entities -> Int]
  /\ advance \in [Entities -> Int]
  /\ failed \subseteq Payments \cup Runs

(* What the payment allocations give a document.                            *)
PaidTo(d) == Sum([p \in Payments |-> paid[p][d]], Payments)

(* Every settlement column is the sum of the rows behind it, on a vendor    *)
(* credit of the rows on both sides of it: what it was applied to and what  *)
(* payments were allocated to it.  What is due, unapplied or available is   *)
(* the rest, and a bill's status says exactly how much that is.             *)
StatusFollowsBalance ==
  /\ \A b \in Bills :
       /\ bill[b].paid = PaidTo(b)
       /\ bill[b].credited = Sum([c \in Credits |-> credited[c][b]], Credits)
       /\ bill[b].due = Total[b] - bill[b].paid - bill[b].credited
       /\ bill[b].status = "PAID" <=> bill[b].due = 0
       /\ bill[b].status = "PARTIALLY_PAID" <=> bill[b].due \in 1..Total[b] - 1
  /\ \A p \in Payments : /\ payment[p].allocated = Sum(paid[p], Documents)
                         /\ payment[p].unapplied = Amount[p] - payment[p].allocated
  /\ \A c \in Credits : /\ credit[c].applied = Sum(credited[c], Bills) + PaidTo(c)
                        /\ credit[c].available = Total[CreditOf[c]] - credit[c].applied

(* The subledger side of reconcile: the aging total of the open bills.       *)
Aging(e) == LET open == {b \in Bills : EntityOf[b] = e /\ bill[b].status \in Open}
            IN Sum([b \in open |-> bill[b].due], open)

(* What allocations post beside the open items of an entity: the bills paid *)
(* in it lower its aging, the credits a payment is allocated to raise what  *)
(* it still owes, but the control account debited is that of the payment's  *)
(* entity.  Nothing, as long as payments name bills of their own entity.    *)
Misplaced(e) ==
  LET bills == {b \in Bills : EntityOf[b] = e}
      credits == {c \in Credits : CreditEntity(c) = e}
      payments == {p \in Payments : EntityOf[p] = e}
  IN Sum([b \in bills |-> PaidTo(b)], bills) - Sum([c \in credits |-> PaidTo(c)], credits)
       - Sum([p \in payments |-> Sum(paid[p], Documents)], payments)

(* The two accounts that payables keep in the ledger are explained by the   *)
(* open items: the control account of an entity holds what its open bills   *)
(* are still owed less what its posted vendor credits still have to give,   *)
(* and what allocations misplaced; the advance account what its posted      *)
(* payments have not applied.                                               *)
LedgerIsOpenItems ==
  \A e \in Entities :
    LET left == {c \in Credits : CreditEntity(c) = e /\ credit[c].status = "POSTED"}
        made == {p \in Payments : EntityOf[p] = e /\ payment[p].status # "none"}
    IN /\ control[e] = Aging(e) - Sum([c \in left |-> credit[c].available], left) + Misplaced(e)
       /\ advance[e] = Sum([p \in made |-> payment[p].unapplied], made)

(* A run's selection leaves out a payable bill exactly while some hold on   *)
(* it or on its vendor is active, however many were placed and released.    *)
ExcludedExactlyByHolds ==
  \A b \in Bills :
    bill[b].status \in Open /\ ~Blocked(b) =>
      (b \in Eligible(EntityOf[b]) <=> ~ActiveHold(b) /\ ~ActiveHold(VendorOf[b]))

(* The handlers settle as OpenItems promises: a payment is posted with its  *)
(* first allocations, a vendor credit with none.  A credit is on both sides:*)
(* it is applied to bills, and payments may be allocated to it.             *)
Sources == Payments \cup Credits
Worth == [x \in Sources |-> IF x \in Payments THEN Amount[x] ELSE Total[CreditOf[x]]]
Owed == [d \in Documents |-> IF d \in Bills THEN Total[d] ELSE Total[CreditOf[d]]]
Requests ==
  UNION {{[op |-> op, source |-> x, amount |-> f, total |-> Sum(f, Documents)] :
            op \in {"create", "allocate"},
            f \in {[d \in Documents |-> 0]} \cup Apportioned(Documents, Worth[x])}
          : x \in Sources}

Promise == INSTANCE OpenItems WITH
  Targets <- Documents, NoSource <- "none",
  source <- [x \in Sources |->
               IF x \in Payments
               THEN [posted |-> payment[x].status # "none", used |-> payment[x].allocated]
               ELSE [posted |-> credit[x].status = "POSTED", used |-> Sum(credited[x], Bills)]],
  target <- [d \in Documents |->
               IF d \in Bills THEN bill[d].paid + bill[d].credited ELSE PaidTo(d)]

SettlesAsPromised == Promise!Spec

(* The aging of an entity's open bills equals its control account, the two  *)
(* sides reconcile compares (refuted: it leaves out the vendor credits that *)
(* are posted and still open).                                              *)
AgingReconciles == \A e \in Entities : control[e] = Aging(e)

(* A payment the bank refused is reversed: the handler never answers with   *)
(* an error of the database (refuted by FailPayment's first step).          *)
FailedPaymentIsReversed == failed \cap Payments = {}

(* A payment run is built from the bills that are due (refuted as soon as   *)
(* one is).                                                                 *)
RunIsBuilt == failed \cap Runs = {}
=============================================================================

---------------------------- MODULE PayablesProofs ----------------------------
(***************************************************************************)
(* Payables for every set of bills, payments, credits, holds and entities: *)
(* the settlement columns are the sums of their rows and decide the        *)
(* status, a run leaves out exactly what is held, the two accounts are the *)
(* open items and what allocations misplaced, and every settling handler   *)
(* settles as OpenItems promises, whichever documents payments name.       *)
(*                                                                         *)
(* None of this is inductive alone: that no bill is settled beyond what it *)
(* is due needs the columns to add up, and that the flag on a bill adds    *)
(* nothing to its holds needs a hold behind every flag.                    *)
(***************************************************************************)
EXTENDS Payables

USE DocumentsAssumption, NamesAssumption

Bill == [status : {"DRAFT", "APPROVED", "POSTED", "PARTIALLY_PAID", "PAID"},
         match : {"UNMATCHED"} \cup MatchResults, onHold : BOOLEAN,
         paid : Nat, credited : Nat, due : Nat]

Payment == [status : {"none", "POSTED", "CONFIRMED"}, allocated : Nat, unapplied : Nat]
Credit == [status : {"none", "DRAFT", "POSTED"}, applied : Nat, available : Nat]
Unplaced == CHOOSE b \in Bills : TRUE
Hold == [state : {"none", "active", "released"}, scope : Bills \cup Vendors \cup {Unplaced}]

Shape ==
  /\ bill \in [Bills -> Bill]
  /\ payment \in [Payments -> Payment]
  /\ credit \in [Credits -> Credit]
  /\ paid \in [Payments -> [Documents -> Nat]]
  /\ credited \in [Credits -> [Bills -> Nat]]
  /\ hold \in [Holds -> Hold]
  /\ run \subseteq Runs
  /\ control \in [Entities -> Int]
  /\ advance \in [Entities -> Int]
  /\ failed \subseteq Payments \cup Runs

(* What a bill is due is what it has not been settled, and decides its      *)
(* status.                                                                  *)
Consistent(row, total) ==
  /\ row.due = total - row.paid - row.credited
  /\ (row.status = "PAID" <=> row.due = 0)
  /\ (row.status = "PARTIALLY_PAID" <=> row.due \in 1..total - 1)

Columns ==
  /\ \A b \in Bills : Consistent(bill[b], Total[b])
  /\ \A p \in Payments : /\ payment[p].unapplied = Amount[p] - payment[p].allocated
                         /\ payment[p].status = "none" => payment[p].allocated = 0
  /\ \A c \in Credits : /\ credit[c].available = Total[CreditOf[c]] - credit[c].applied
                        /\ credit[c].status # "POSTED" => credit[c].applied = 0

FlagHasHold == \A b \in Bills : bill[b].onHold => ActiveHold(b)

Inv == Shape /\ Columns
-----------------------------------------------------------------------------
(* What a request asks of the bills, whatever documents it may name.        *)
OnBills(f) == [b \in Bills |-> IF b \in DOMAIN f THEN f[b] ELSE 0]

LEMMA BillFields ==
  ASSUME NEW row \in Bill
  PROVE  /\ row.status \in {"DRAFT", "APPROVED", "POSTED", "PARTIALLY_PAID", "PAID"}
         /\ row.match \in {"UNMATCHED"} \cup MatchResults /\ row.onHold \in BOOLEAN
         /\ row.paid \in Nat /\ row.credited \in Nat /\ row.due \in Nat
BY DEF Bill

LEMMA PaymentFields ==
  ASSUME NEW row \in Payment
  PROVE  /\ row.status \in {"none", "POSTED", "CONFIRMED"}
         /\ row.allocated \in Nat /\ row.unapplied \in Nat
BY DEF Payment

LEMMA CreditFields ==
  ASSUME NEW row \in Credit
  PROVE  /\ row.status \in {"none", "DRAFT", "POSTED"}
         /\ row.applied \in Nat /\ row.available \in Nat
BY DEF Credit

LEMMA SettledFields ==
  ASSUME NEW row \in Bill, NEW n \in Nat, n <= row.due, NEW column \in {"paid", "credited"}
  PROVE  /\ Settled(row, n, column) \in Bill
         /\ Settled(row, n, column).paid = row.paid + (IF column = "paid" THEN n ELSE 0)
         /\ Settled(row, n, column).credited = row.credited + (IF column = "credited" THEN n ELSE 0)
         /\ Settled(row, n, column).due = row.due - n
         /\ Settled(row, n, column).status = IF row.due = n THEN "PAID" ELSE "PARTIALLY_PAID"
         /\ Settled(row, n, column).match = row.match
         /\ Settled(row, n, column).onHold = row.onHold
<1> DEFINE st == IF row.due = n THEN "PAID" ELSE "PARTIALLY_PAID"
           pa == row.paid + (IF column = "paid" THEN n ELSE 0)
           cr == row.credited + (IF column = "credited" THEN n ELSE 0)
           du == row.due - n
<1>1. /\ st \in {"PARTIALLY_PAID", "PAID"} /\ pa \in Nat /\ cr \in Nat /\ du \in Nat
  BY DEF Bill
<1>2. Settled(row, n, column) = [row EXCEPT !.paid = pa, !.credited = cr, !.due = du, !.status = st]
  BY DEF Settled
<1>3. /\ Settled(row, n, column) \in Bill
      /\ Settled(row, n, column).paid = pa
      /\ Settled(row, n, column).credited = cr
      /\ Settled(row, n, column).due = du
      /\ Settled(row, n, column).status = st
      /\ Settled(row, n, column).match = row.match
      /\ Settled(row, n, column).onHold = row.onHold
  <2> HIDE DEF st, pa, cr, du
  <2> QED
    BY <1>1, <1>2 DEF Bill
<1> QED
  BY <1>3

(* One bill after a request: it has got what was asked, if it was open and  *)
(* due that much, and is as it was if nothing was asked.                    *)
LEMMA BillsAfterFields ==
  ASSUME bill \in [Bills -> Bill], NEW D, NEW f \in [D -> Nat], Allocatable(f),
         NEW column \in {"paid", "credited"}, NEW b \in Bills
  PROVE  LET new == BillsAfter(f, column)[b]
             n == OnBills(f)[b]
         IN /\ n \in Nat
            /\ n <= bill[b].due
            /\ new \in Bill
            /\ new.paid = bill[b].paid + (IF column = "paid" THEN n ELSE 0)
            /\ new.credited = bill[b].credited + (IF column = "credited" THEN n ELSE 0)
            /\ new.due = bill[b].due - n
            /\ new.match = bill[b].match /\ new.onHold = bill[b].onHold
            /\ n = 0 => new = bill[b]
            /\ n > 0 => /\ bill[b].status \in Open
                        /\ new.status = IF bill[b].due = n THEN "PAID" ELSE "PARTIALLY_PAID"
<1> DEFINE new == BillsAfter(f, column)[b]
           n == OnBills(f)[b]
<1>1. n = IF b \in D THEN f[b] ELSE 0
  BY DEF OnBills
<1>2. new = IF n > 0 THEN Settled(bill[b], n, column) ELSE bill[b]
  BY DEF BillsAfter, OnBills
<1>3. n \in Nat /\ bill[b] \in Bill
  BY <1>1
<1>4. n > 0 => bill[b].status \in Open /\ n <= bill[b].due
  BY <1>1 DEF Allocatable
<1> HIDE DEF n, new
<1>5. CASE n > 0
  <2>1. n <= bill[b].due /\ bill[b].status \in Open /\ new = Settled(bill[b], n, column)
    BY <1>2, <1>4, <1>5
  <2> DEFINE row == bill[b]
  <2>2. row \in Bill /\ n <= row.due /\ new = Settled(row, n, column)
    BY <1>3, <2>1
  <2> HIDE DEF row
  <2>3. /\ new \in Bill
        /\ new.paid = row.paid + (IF column = "paid" THEN n ELSE 0)
        /\ new.credited = row.credited + (IF column = "credited" THEN n ELSE 0)
        /\ new.due = row.due - n
        /\ new.status = IF row.due = n THEN "PAID" ELSE "PARTIALLY_PAID"
        /\ new.match = row.match /\ new.onHold = row.onHold
    BY <1>3, <2>2, SettledFields
  <2> QED
    BY <1>3, <1>5, <2>1, <2>3 DEF n, new, row
<1>6. CASE ~(n > 0)
  <2>1. n = 0 /\ new = bill[b]
    BY <1>2, <1>3, <1>6
  <2> QED
    BY <1>3, <2>1 DEF Bill, new, n
<1> QED
  BY <1>5, <1>6

LEMMA SettledIsConsistent ==
  ASSUME Inv, NEW D, NEW f \in [D -> Nat], Allocatable(f),
         NEW column \in {"paid", "credited"}, NEW b \in Bills
  PROVE  Consistent(BillsAfter(f, column)[b], Total[b])
<1> DEFINE new == BillsAfter(f, column)[b]
           n == OnBills(f)[b]
           old == bill[b]
<1>1. /\ n \in Nat /\ n <= old.due /\ new \in Bill
      /\ new.paid = old.paid + (IF column = "paid" THEN n ELSE 0)
      /\ new.credited = old.credited + (IF column = "credited" THEN n ELSE 0)
      /\ new.due = old.due - n
      /\ n = 0 => new = old
      /\ n > 0 => /\ old.status \in Open
                  /\ new.status = IF old.due = n THEN "PAID" ELSE "PARTIALLY_PAID"
  BY BillsAfterFields DEF Inv, Shape
<1>2. Consistent(old, Total[b]) /\ old \in Bill /\ Total[b] \in Nat \ {0}
  BY DEF Inv, Shape, Columns
<1> HIDE DEF new, n, old
<1> DEFINE total == Total[b]
<1>3. new.due = total - new.paid - new.credited
  <2>1. old.due \in Nat /\ old.paid \in Nat /\ old.credited \in Nat
    BY <1>2, BillFields
  <2>2. old.due = total - old.paid - old.credited /\ total \in Nat
    BY <1>2 DEF Consistent
  <2> HIDE DEF total
  <2> QED
    BY <1>1, <2>1, <2>2
<1>4. Consistent(new, Total[b])
  <2>1. CASE n = 0
    BY <1>1, <1>2, <2>1
  <2>2. CASE n > 0
    <3>1. old.due \in Nat /\ total \in Nat \ {0}
      BY <1>2, BillFields
    <3>2. old.due <= total
      BY <1>2, <3>1, BillFields DEF Consistent
    <3> HIDE DEF total
    <3>3. new.due = old.due - n /\ new.due \in 0..total - 1
      BY <1>1, <2>2, <3>1, <3>2
    <3>4. (new.status = "PAID" <=> new.due = 0) /\ (new.status = "PARTIALLY_PAID" <=> new.due # 0)
      BY <1>1, <2>2, <3>1, <3>3
    <3>5. new.due \in 1..total - 1 <=> new.due # 0
      BY <3>1, <3>3
    <3>6. Consistent(new, total)
      BY <1>3, <3>4, <3>5 DEF Consistent
    <3> QED
      BY <3>6 DEF total
  <2> QED
    BY <1>1, <2>1, <2>2
<1> QED
  BY <1>4 DEF new

LEMMA SettledBills ==
  ASSUME Inv, NEW D, NEW f \in [D -> Nat], Allocatable(f),
         NEW column \in {"paid", "credited"}, bill' = BillsAfter(f, column)
  PROVE  /\ bill' \in [Bills -> Bill]
         /\ \A b \in Bills : Consistent(bill[b], Total[b])' /\ bill'[b].onHold = bill[b].onHold
<1>1. bill' = [b \in Bills |-> BillsAfter(f, column)[b]]
  BY DEF BillsAfter
<1>2. ASSUME NEW b \in Bills
      PROVE  /\ bill'[b] \in Bill /\ Consistent(bill[b], Total[b])'
             /\ bill'[b].onHold = bill[b].onHold
  <2>1. bill'[b] \in Bill /\ bill'[b].onHold = bill[b].onHold
    BY BillsAfterFields DEF Inv, Shape
  <2>2. Consistent(BillsAfter(f, column)[b], Total[b])
    BY SettledIsConsistent
  <2>3. Consistent(bill'[b], Total[b])
    BY <2>2
  <2> QED
    BY <2>1, <2>3 DEF Consistent
<1> QED
  BY <1>1, <1>2

LEMMA SettledAmounts ==
  ASSUME Inv, NEW D, NEW f \in [D -> Nat], Allocatable(f), NEW b \in Bills
  PROVE  /\ OnBills(f)[b] \in Nat /\ OnBills(f)[b] <= bill[b].due
         /\ bill' = BillsAfter(f, "paid") =>
              /\ bill'[b].paid = bill[b].paid + OnBills(f)[b]
              /\ bill'[b].credited = bill[b].credited + 0
         /\ bill' = BillsAfter(f, "credited") =>
              /\ bill'[b].paid = bill[b].paid + 0
              /\ bill'[b].credited = bill[b].credited + OnBills(f)[b]
         /\ \A column \in {"paid", "credited"} :
              bill' = BillsAfter(f, column) =>
                /\ bill'[b].due = bill[b].due - OnBills(f)[b]
                /\ OnBills(f)[b] = 0 => bill'[b] = bill[b]
                /\ OnBills(f)[b] > 0 =>
                     /\ bill[b].status \in Open
                     /\ bill'[b].status = IF bill[b].due = OnBills(f)[b] THEN "PAID" ELSE "PARTIALLY_PAID"
<1> DEFINE n == OnBills(f)[b]
           old == bill[b]
<1>1. ASSUME NEW column \in {"paid", "credited"}
      PROVE  LET new == BillsAfter(f, column)[b]
             IN /\ n \in Nat /\ n <= old.due
                /\ new.paid = old.paid + (IF column = "paid" THEN n ELSE 0)
                /\ new.credited = old.credited + (IF column = "credited" THEN n ELSE 0)
                /\ new.due = old.due - n
                /\ n = 0 => new = old
                /\ n > 0 => /\ old.status \in Open
                            /\ new.status = IF old.due = n THEN "PAID" ELSE "PARTIALLY_PAID"
  BY BillsAfterFields DEF Inv, Shape
<1> HIDE DEF n, old
<1>2. n \in Nat /\ n <= old.due
  BY <1>1
<1>3. LET new == BillsAfter(f, "paid")[b]
      IN new.paid = old.paid + n /\ new.credited = old.credited + 0
  BY <1>1
<1>4. LET new == BillsAfter(f, "credited")[b]
      IN new.paid = old.paid + 0 /\ new.credited = old.credited + n
  BY <1>1
<1> QED
  BY <1>1, <1>2, <1>3, <1>4 DEF n, old

(* What the two payment handlers have in common.                            *)
LEMMA PayEffects ==
  ASSUME Inv, NEW p \in Payments, NEW f \in [Documents -> Nat],
         CreatePayment(p, f) \/ AllocatePayment(p, f)
  PROVE  LET n == Sum(f, Documents)
             e == EntityOf[p]
         IN /\ n \in Nat /\ n <= payment[p].unapplied
            /\ Allocatable(f)
            /\ bill' = BillsAfter(f, "paid") /\ credit' = CreditsAfter(f) /\ paid' = PaidAfter(p, f)
            /\ payment' \in [Payments -> Payment]
            /\ payment'[p].status # "none"
            /\ payment'[p].allocated = payment[p].allocated + n
            /\ payment'[p].unapplied = payment[p].unapplied - n
            /\ \A q \in Payments \ {p} : payment'[q] = payment[q]
            /\ control' = [control EXCEPT ![e] = @ - n]
            /\ advance' = [advance EXCEPT ![e] = @ + payment'[p].unapplied
                             - (IF payment[p].status = "none" THEN 0 ELSE payment[p].unapplied)]
            /\ UNCHANGED <<credited, hold, run, failed>>
<1> DEFINE n == Sum(f, Documents)
           e == EntityOf[p]
<1>1. n \in Nat
  <2>1. Documents \subseteq Bills \cup Credits
    BY DEF Documents
  <2>2. IsFiniteSet(Documents)
    BY <2>1, FS_Union, FS_Subset
  <2>3. \A d \in Documents : f[d] \in Nat
    OBVIOUS
  <2> QED
    BY <2>2, <2>3, SumNat
<1>2. DOMAIN f = Documents
  OBVIOUS
<1> HIDE DEF n
<1>3. /\ payment[p] \in Payment /\ payment[p].unapplied = Amount[p] - payment[p].allocated
      /\ payment[p].status = "none" => payment[p].allocated = 0
      /\ Amount[p] \in Nat /\ e \in Entities /\ control \in [Entities -> Int] /\ advance \in [Entities -> Int]
  BY DEF Inv, Shape, Columns
<1>4. CASE CreatePayment(p, f)
  <2>1. /\ payment[p].status = "none" /\ n <= Amount[p]
        /\ payment' = [payment EXCEPT ![p] = [status |-> "POSTED", allocated |-> n, unapplied |-> Amount[p] - n]]
        /\ advance' = [advance EXCEPT ![e] = @ + (Amount[p] - n)]
        /\ Allocatable(f) /\ bill' = BillsAfter(f, "paid") /\ credit' = CreditsAfter(f)
        /\ paid' = PaidAfter(p, f) /\ control' = [control EXCEPT ![e] = @ - n]
        /\ UNCHANGED <<credited, hold, run, failed>>
    BY <1>2, <1>4 DEF CreatePayment, n
  <2>2. /\ payment'[p].status = "POSTED" /\ payment'[p].allocated = n /\ payment'[p].unapplied = Amount[p] - n
        /\ payment' \in [Payments -> Payment]
        /\ \A q \in Payments \ {p} : payment'[q] = payment[q]
    <3>1. payment \in [Payments -> Payment] /\ Amount[p] - n \in Nat
      BY <1>1, <1>3, <2>1 DEF Inv, Shape
    <3>2. [status |-> "POSTED", allocated |-> n, unapplied |-> Amount[p] - n] \in Payment
      BY <1>1, <3>1 DEF Payment
    <3> QED
      BY <2>1, <3>1, <3>2
  <2>3. /\ n <= payment[p].unapplied
        /\ payment'[p].allocated = payment[p].allocated + n
        /\ payment'[p].unapplied = payment[p].unapplied - n
    BY <1>1, <1>3, <2>1, <2>2
  <2>4. advance' = [advance EXCEPT ![e] = @ + payment'[p].unapplied - 0]
    <3>1. advance[e] \in Int /\ Amount[p] - n \in Int
      BY <1>1, <1>3
    <3>2. advance[e] + (Amount[p] - n) = advance[e] + payment'[p].unapplied - 0
      BY <2>2, <3>1
    <3> QED
      BY <1>3, <2>1, <3>2
  <2> QED
    BY <1>1, <2>1, <2>2, <2>3, <2>4 DEF n
<1>5. CASE AllocatePayment(p, f)
  <2>1. /\ payment[p].status \in {"POSTED", "CONFIRMED"} /\ n <= payment[p].unapplied
        /\ payment' = [payment EXCEPT ![p].allocated = @ + n, ![p].unapplied = @ - n]
        /\ advance' = [advance EXCEPT ![e] = @ - n]
        /\ Allocatable(f) /\ bill' = BillsAfter(f, "paid") /\ credit' = CreditsAfter(f)
        /\ paid' = PaidAfter(p, f) /\ control' = [control EXCEPT ![e] = @ - n]
        /\ UNCHANGED <<credited, hold, run, failed>>
    BY <1>2, <1>5 DEF AllocatePayment, n
  <2>2. /\ payment'[p].status = payment[p].status
        /\ payment'[p].allocated = payment[p].allocated + n
        /\ payment'[p].unapplied = payment[p].unapplied - n
        /\ payment' \in [Payments -> Payment]
        /\ \A q \in Payments \ {p} : payment'[q] = payment[q]
    <3>1. payment \in [Payments -> Payment] /\ payment[p].unapplied - n \in Nat
      BY <1>1, <1>3, <2>1 DEF Inv, Shape, Payment
    <3> DEFINE now == [payment[p] EXCEPT !.allocated = @ + n, !.unapplied = @ - n]
               a == payment[p].allocated + n
               u == payment[p].unapplied - n
    <3>2. payment' = [payment EXCEPT ![p] = now]
      BY <2>1, <3>1
    <3>3. /\ now \in Payment /\ now.status = payment[p].status
          /\ now.allocated = payment[p].allocated + n /\ now.unapplied = payment[p].unapplied - n
      <4>1. now = [payment[p] EXCEPT !.allocated = a, !.unapplied = u] /\ a \in Nat /\ u \in Nat
        BY <1>1, <1>3, <3>1, PaymentFields
      <4>2. payment[p] \in Payment
        BY <1>3
      <4> HIDE DEF a, u, now
      <4>3. /\ now \in Payment /\ now.status = payment[p].status
            /\ now.allocated = a /\ now.unapplied = u
        BY <4>1, <4>2 DEF Payment
      <4> QED
        BY <4>3 DEF a, u
    <3> HIDE DEF now
    <3> QED
      BY <3>1, <3>2, <3>3
  <2>4. advance' = [advance EXCEPT ![e] = @ + payment'[p].unapplied - payment[p].unapplied]
    <3>1. advance[e] \in Int /\ payment[p].unapplied \in Nat
      BY <1>3 DEF Payment
    <3>2. advance[e] - n = advance[e] + payment'[p].unapplied - payment[p].unapplied
      BY <1>1, <2>2, <3>1
    <3> QED
      BY <1>3, <2>1, <3>2
  <2> QED
    BY <1>1, <2>1, <2>2, <2>4 DEF n
<1> QED
  BY <1>4, <1>5

(* Drawing on a credit.                                                     *)
LEMMA DrawnFields ==
  ASSUME NEW row \in Credit, NEW n \in Nat, n <= row.available
  PROVE  /\ Drawn(row, n) \in Credit
         /\ Drawn(row, n).status = row.status
         /\ Drawn(row, n).applied = row.applied + n
         /\ Drawn(row, n).available = row.available - n
<1> DEFINE a == row.applied + n
           u == row.available - n
<1>1. a \in Nat /\ u \in Nat /\ Drawn(row, n) = [row EXCEPT !.applied = a, !.available = u]
  BY CreditFields DEF Drawn
<1> HIDE DEF a, u
<1>2. /\ Drawn(row, n) \in Credit /\ Drawn(row, n).status = row.status
      /\ Drawn(row, n).applied = a /\ Drawn(row, n).available = u
  BY <1>1 DEF Credit
<1> QED
  BY <1>2 DEF a, u

(* One credit after a payment, which may name it among its targets.         *)
LEMMA CreditsAfterFields ==
  ASSUME credit \in [Credits -> Credit], NEW D, NEW f \in [D -> Nat], Allocatable(f), NEW c \in Credits
  PROVE  LET new == CreditsAfter(f)[c]
             n == IF c \in D THEN f[c] ELSE 0
         IN /\ n \in Nat
            /\ new \in Credit
            /\ new.applied = credit[c].applied + n
            /\ new.available = credit[c].available - n
            /\ new.status = credit[c].status
            /\ n > 0 => credit[c].status = "POSTED"
            /\ c \notin D => new = credit[c]
<1> DEFINE new == CreditsAfter(f)[c]
           n == IF c \in D THEN f[c] ELSE 0
           old == credit[c]
<1>1. new = (IF n > 0 THEN Drawn(old, n) ELSE old) /\ n \in Nat /\ old \in Credit /\ (c \notin D => n = 0)
  BY DEF CreditsAfter
<1>2. n > 0 => old.status = "POSTED" /\ n <= old.available
  BY DEF Allocatable
<1> HIDE DEF new, n, old
<1>3. CASE n > 0
  <2>1. new = Drawn(old, n) /\ n <= old.available /\ old.status = "POSTED" /\ c \in D
    BY <1>1, <1>2, <1>3
  <2>2. /\ new \in Credit /\ new.status = old.status
        /\ new.applied = old.applied + n /\ new.available = old.available - n
    BY <1>1, <2>1, DrawnFields
  <2> QED
    BY <1>1, <2>1, <2>2 DEF new, n, old
<1>4. CASE ~(n > 0)
  <2>1. n = 0 /\ new = old /\ old.applied \in Nat /\ old.available \in Nat
    BY <1>1, <1>4, CreditFields
  <2>2. new.applied = old.applied + n /\ new.available = old.available - n
    BY <2>1
  <2> QED
    BY <1>1, <2>1, <2>2 DEF new, n, old
<1> QED
  BY <1>3, <1>4

LEMMA ApplyEffects ==
  ASSUME Inv, NEW c \in Credits, NEW f \in [Bills -> Nat], ApplyVendorCredit(c, f)
  PROVE  LET n == Sum(f, Bills)
         IN /\ n \in Nat /\ n <= credit[c].available
            /\ credit[c].status = "POSTED"
            /\ \A b \in Bills : f[b] > 0 => EntityOf[b] = CreditEntity(c)
            /\ Allocatable(f)
            /\ bill' = BillsAfter(f, "credited")
            /\ credited' = [credited EXCEPT ![c] = [b \in Bills |-> @[b] + f[b]]]
            /\ credit' \in [Credits -> Credit]
            /\ credit'[c].status = "POSTED"
            /\ credit'[c].applied = credit[c].applied + n
            /\ credit'[c].available = credit[c].available - n
            /\ \A d \in Credits \ {c} : credit'[d] = credit[d]
            /\ UNCHANGED <<payment, paid, hold, run, control, advance, failed>>
<1> DEFINE n == Sum(f, Bills)
           row == credit[c]
<1>1. n \in Nat
  <2>1. \A b \in Bills : f[b] \in Nat
    OBVIOUS
  <2> QED
    BY <2>1, SumNat
<1>2. DOMAIN f = Bills
  OBVIOUS
<1> HIDE DEF n
<1>3. /\ row.status = "POSTED" /\ Allocatable(f) /\ n <= row.available
      /\ \A b \in Bills : f[b] > 0 => EntityOf[b] = CreditEntity(c)
      /\ bill' = BillsAfter(f, "credited")
      /\ credited' = [credited EXCEPT ![c] = [b \in Bills |-> @[b] + f[b]]]
      /\ credit' = [credit EXCEPT ![c] = Drawn(credit[c], n)]
      /\ UNCHANGED <<payment, paid, hold, run, control, advance, failed>>
  BY <1>2, Zenon DEF ApplyVendorCredit, n
<1>4. credit \in [Credits -> Credit] /\ row \in Credit
  BY DEF Inv, Shape
<1> DEFINE new == Drawn(row, n)
<1>5. /\ new \in Credit /\ new.status = row.status
      /\ new.applied = row.applied + n /\ new.available = row.available - n
  BY <1>1, <1>3, <1>4, DrawnFields
<1>6. /\ credit' \in [Credits -> Credit] /\ credit'[c] = new
      /\ \A d \in Credits \ {c} : credit'[d] = credit[d]
  BY <1>3, <1>4, <1>5
<1> QED
  BY <1>1, <1>3, <1>5, <1>6 DEF n
-----------------------------------------------------------------------------
LEMMA InitInv == Init => Inv /\ FlagHasHold
<1> SUFFICES ASSUME Init PROVE Inv /\ FlagHasHold
  OBVIOUS
<1>1. /\ bill = [b \in Bills |-> [status |-> "DRAFT", match |-> "UNMATCHED", onHold |-> FALSE,
                                  paid |-> 0, credited |-> 0, due |-> Total[b]]]
      /\ payment = [p \in Payments |-> [status |-> "none", allocated |-> 0, unapplied |-> Amount[p]]]
      /\ credit = [c \in Credits |-> [status |-> "none", applied |-> 0, available |-> Total[CreditOf[c]]]]
  BY DEF Init
<1>2. bill \in [Bills -> Bill] /\ payment \in [Payments -> Payment] /\ credit \in [Credits -> Credit]
  BY <1>1 DEF Bill, Payment, Credit
<1>3. hold \in [Holds -> Hold] /\ paid \in [Payments -> [Documents -> Nat]]
  BY DEF Init, Hold, Unplaced
<1>4. Shape
  BY <1>2, <1>3 DEF Init, Shape
<1>5. Columns
  <2>1. ASSUME NEW b \in Bills PROVE Consistent(bill[b], Total[b])
    <3>1. /\ bill[b].status = "DRAFT" /\ bill[b].paid = 0 /\ bill[b].credited = 0 /\ bill[b].due = Total[b]
          /\ Total[b] \in Nat \ {0}
      BY <1>1
    <3> DEFINE row == bill[b]
               total == Total[b]
    <3>2. Consistent(row, total)
      <4> HIDE DEF row, total
      <4> QED
        BY <3>1 DEF Consistent, row, total
    <3> QED
      BY <3>2
  <2>2. ASSUME NEW p \in Payments
        PROVE  payment[p].unapplied = Amount[p] - payment[p].allocated /\ payment[p].allocated = 0
    BY <1>1
  <2>3. ASSUME NEW c \in Credits
        PROVE  credit[c].available = Total[CreditOf[c]] - credit[c].applied /\ credit[c].applied = 0
    <3> DEFINE total == Total[CreditOf[c]]
    <3>1. credit[c].available = total /\ credit[c].applied = 0 /\ total \in Nat
      BY <1>1
    <3> HIDE DEF total
    <3>2. credit[c].available = total - credit[c].applied
      BY <3>1
    <3> QED
      BY <3>1, <3>2 DEF total
  <2> QED
    BY <2>1, <2>2, <2>3 DEF Columns
<1> QED
  BY <1>1, <1>4, <1>5 DEF Inv, FlagHasHold

(* What a step does to a bill when it is none of the settling ones: its     *)
(* columns stay.                                                            *)
LEMMA BillKept ==
  ASSUME Inv, NEW b \in Bills, bill'[b] \in Bill,
         \/ bill'[b].status = bill[b].status
         \/ {bill'[b].status, bill[b].status} \subseteq {"DRAFT", "APPROVED", "POSTED"},
         bill'[b].paid = bill[b].paid, bill'[b].credited = bill[b].credited, bill'[b].due = bill[b].due
  PROVE  Consistent(bill[b], Total[b])'
BY DEF Inv, Columns, Consistent

(* Nothing is lost where nothing moves money.                               *)
LEMMA PaymentsKept ==
  ASSUME Inv, bill' \in [Bills -> Bill], \A b \in Bills : Consistent(bill[b], Total[b])',
         UNCHANGED <<payment, credit, paid, credited, failed>>, run' \subseteq Runs,
         hold' \in [Holds -> Hold], control' \in [Entities -> Int], advance' \in [Entities -> Int]
  PROVE  Inv'
<1>1. Shape'
  BY DEF Inv, Shape
<1>2. Columns'
  BY DEF Inv, Columns
<1> QED
  BY <1>1, <1>2 DEF Inv

(* The steps that change a bill in other fields than its amounts.           *)
LEMMA BillStep ==
  ASSUME Inv, NEW b \in Bills, MatchBill(b) \/ ApproveVendorBill(b) \/ PostBill(b)
  PROVE  Inv' /\ \A x \in Bills : bill'[x].onHold = bill[x].onHold
<1> DEFINE row == bill[b]
<1>1. bill \in [Bills -> Bill] /\ row \in Bill /\ control \in [Entities -> Int]
      /\ EntityOf[b] \in Entities /\ Total[b] \in Int
  <2>1. bill \in [Bills -> Bill] /\ control \in [Entities -> Int]
    BY DEF Inv, Shape
  <2>2. EntityOf[b] \in Entities
    OBVIOUS
  <2>3. Total[b] \in Nat \ {0}
    OBVIOUS
  <2>4. Total[b] \in Int
    BY <2>3
  <2>5. row \in Bill
    BY <2>1, Zenon
  <2> HIDE DEF row
  <2> QED
    BY <2>1, <2>2, <2>4, <2>5, Zenon
<1>2. PICK new : bill' = [bill EXCEPT ![b] = new]
                 /\ \/ \E result \in MatchResults : new = [row EXCEPT !.match = result]
                    \/ row.status = "DRAFT" /\ new = [row EXCEPT !.status = "APPROVED"]
                    \/ row.status \in {"DRAFT", "APPROVED"} /\ new = [row EXCEPT !.status = "POSTED"]
  <2>1. CASE MatchBill(b)
    BY <2>1 DEF MatchBill
  <2>2. CASE ApproveVendorBill(b)
    BY <2>2 DEF ApproveVendorBill
  <2>3. CASE PostBill(b)
    BY <2>3 DEF PostBill
  <2> QED
    BY <2>1, <2>2, <2>3
<1>3. /\ new \in Bill /\ new.paid = row.paid /\ new.credited = row.credited /\ new.due = row.due
      /\ new.onHold = row.onHold
      /\ \/ new.status = row.status
         \/ {new.status, row.status} \subseteq {"DRAFT", "APPROVED", "POSTED"}
  <2> HIDE DEF row
  <2>1. CASE \E result \in MatchResults : new = [row EXCEPT !.match = result]
    BY <1>1, <2>1 DEF Bill
  <2>2. CASE row.status = "DRAFT" /\ new = [row EXCEPT !.status = "APPROVED"]
    BY <1>1, <2>2 DEF Bill
  <2>3. CASE row.status \in {"DRAFT", "APPROVED"} /\ new = [row EXCEPT !.status = "POSTED"]
    BY <1>1, <2>3 DEF Bill
  <2> QED
    BY <1>2, <2>1, <2>2, <2>3
<1>4. bill' \in [Bills -> Bill] /\ bill'[b] = new /\ \A x \in Bills \ {b} : bill'[x] = bill[x]
  BY <1>1, <1>2, <1>3
<1>5. ASSUME NEW x \in Bills
      PROVE  Consistent(bill[x], Total[x])' /\ bill'[x].onHold = bill[x].onHold
  <2>1. /\ bill'[x] \in Bill
        /\ \/ bill'[x].status = bill[x].status
           \/ {bill'[x].status, bill[x].status} \subseteq {"DRAFT", "APPROVED", "POSTED"}
        /\ bill'[x].paid = bill[x].paid /\ bill'[x].credited = bill[x].credited
        /\ bill'[x].due = bill[x].due /\ bill'[x].onHold = bill[x].onHold
    BY <1>1, <1>3, <1>4
  <2> QED
    BY <2>1, BillKept
<1>6. control' \in [Entities -> Int]
  BY <1>1 DEF MatchBill, ApproveVendorBill, PostBill
<1>7. UNCHANGED <<payment, credit, paid, credited, hold, run, advance, failed>>
  BY DEF MatchBill, ApproveVendorBill, PostBill
<1>8. run' \subseteq Runs /\ hold' \in [Holds -> Hold] /\ advance' \in [Entities -> Int]
  BY <1>7 DEF Inv, Shape
<1>9. Inv'
  BY <1>4, <1>5, <1>6, <1>7, <1>8, PaymentsKept
<1> QED
  BY <1>5, <1>9

(* Holds change the flag on a bill and nothing else of it.                  *)
LEMMA FlagSet ==
  ASSUME Inv, NEW x \in Bills, NEW up \in BOOLEAN, bill' = [bill EXCEPT ![x].onHold = up]
  PROVE  /\ bill' \in [Bills -> Bill] /\ \A b \in Bills : Consistent(bill[b], Total[b])'
         /\ bill'[x].onHold = up /\ \A b \in Bills \ {x} : bill'[b] = bill[b]
         /\ bill'[x] = [bill[x] EXCEPT !.onHold = up]
<1> DEFINE row == bill[x]
           new == [row EXCEPT !.onHold = up]
<1>1. bill \in [Bills -> Bill] /\ row \in Bill
  BY DEF Inv, Shape
<1>2. /\ new \in Bill /\ new.onHold = up /\ new.status = row.status
      /\ new.paid = row.paid /\ new.credited = row.credited /\ new.due = row.due
  <2> HIDE DEF row
  <2> QED
    BY <1>1 DEF Bill
<1>3. bill' \in [Bills -> Bill] /\ bill'[x] = new /\ \A b \in Bills \ {x} : bill'[b] = bill[b]
  <2>1. bill' = [bill EXCEPT ![x] = new]
    OBVIOUS
  <2> HIDE DEF new
  <2> QED
    BY <1>1, <1>2, <2>1
<1>4. ASSUME NEW b \in Bills PROVE Consistent(bill[b], Total[b])'
  <2>1. /\ bill'[b] \in Bill /\ bill'[b].status = bill[b].status
        /\ bill'[b].paid = bill[b].paid /\ bill'[b].credited = bill[b].credited
        /\ bill'[b].due = bill[b].due
    <3> HIDE DEF new
    <3> QED
      BY <1>1, <1>2, <1>3 DEF row
  <2> QED
    BY <2>1, BillKept
<1> QED
  BY <1>2, <1>3, <1>4

LEMMA PlaceHoldStep ==
  ASSUME Inv, FlagHasHold, NEW h \in Holds, NEW scope \in Bills \cup Vendors, PlaceHold(h, scope)
  PROVE  Inv' /\ FlagHasHold'
<1>1. /\ hold[h].state = "none" /\ hold' = [hold EXCEPT ![h] = [state |-> "active", scope |-> scope]]
      /\ bill' = IF scope \in Bills THEN [bill EXCEPT ![scope].onHold = TRUE] ELSE bill
      /\ UNCHANGED <<payment, credit, paid, credited, run, control, advance, failed>>
  BY DEF PlaceHold
<1>2. bill \in [Bills -> Bill] /\ hold \in [Holds -> Hold] /\ \A b \in Bills : Consistent(bill[b], Total[b])
  BY DEF Inv, Shape, Columns
<1>3. [state |-> "active", scope |-> scope] \in Hold
  BY DEF Hold
<1>4. hold' \in [Holds -> Hold]
  BY <1>1, <1>2, <1>3
<1>5. /\ bill' \in [Bills -> Bill] /\ \A b \in Bills : Consistent(bill[b], Total[b])'
      /\ \A b \in Bills : b # scope => bill'[b] = bill[b]
  <2>1. CASE scope \in Bills
    BY <1>1, <2>1, FlagSet
  <2>2. CASE scope \notin Bills
    BY <1>1, <1>2, <2>2
  <2> QED
    BY <2>1, <2>2
<1>6. Inv'
  <2>1. run' \subseteq Runs /\ control' \in [Entities -> Int] /\ advance' \in [Entities -> Int]
    BY <1>1 DEF Inv, Shape
  <2> QED
    BY <1>1, <1>4, <1>5, <2>1, PaymentsKept
<1>7. ASSUME NEW b \in Bills, bill'[b].onHold PROVE ActiveHold(b)'
  <2>1. CASE b = scope
    <3>1. hold'[h] = [state |-> "active", scope |-> b]
      BY <1>1, <1>2, <2>1
    <3> QED
      BY <3>1 DEF ActiveHold
  <2>2. CASE b # scope
    <3>1. PICK g \in Holds : hold[g] = [state |-> "active", scope |-> b]
      BY <1>5, <1>7, <2>2 DEF FlagHasHold, ActiveHold
    <3>2. hold[g].state = "active"
      BY <3>1
    <3>3. hold'[g] = hold[g]
      BY <1>1, <1>2, <3>2
    <3> QED
      BY <3>1, <3>3 DEF ActiveHold
  <2> QED
    BY <2>1, <2>2
<1> QED
  BY <1>6, <1>7 DEF FlagHasHold

LEMMA ReleaseHoldStep ==
  ASSUME Inv, FlagHasHold, NEW h \in Holds, ReleaseHold(h)
  PROVE  Inv' /\ FlagHasHold'
<1> DEFINE scope == hold[h].scope
           released == [hold[h] EXCEPT !.state = "released"]
<1>1. /\ hold[h].state = "active" /\ hold' = [hold EXCEPT ![h] = released]
      /\ bill' = IF scope \in Bills THEN [bill EXCEPT ![scope].onHold = FALSE] ELSE bill
      /\ UNCHANGED <<payment, credit, paid, credited, run, control, advance, failed>>
  BY DEF ReleaseHold
<1>2. bill \in [Bills -> Bill] /\ hold \in [Holds -> Hold] /\ \A b \in Bills : Consistent(bill[b], Total[b])
  BY DEF Inv, Shape, Columns
<1>3. released \in Hold
  <2>1. hold[h] \in Hold
    BY <1>2
  <2> QED
    BY <2>1 DEF Hold
<1> HIDE DEF released
<1>4. hold' \in [Holds -> Hold] /\ \A g \in Holds \ {h} : hold'[g] = hold[g]
  BY <1>1, <1>2, <1>3
<1>5. /\ bill' \in [Bills -> Bill] /\ \A b \in Bills : Consistent(bill[b], Total[b])'
      /\ \A b \in Bills : b # scope => bill'[b] = bill[b]
      /\ scope \in Bills => ~bill'[scope].onHold
  <2> HIDE DEF scope
  <2>1. CASE scope \in Bills
    BY <1>1, <2>1, FlagSet
  <2>2. CASE scope \notin Bills
    BY <1>1, <1>2, <2>2
  <2> QED
    BY <2>1, <2>2
<1>6. Inv'
  <2>1. run' \subseteq Runs /\ control' \in [Entities -> Int] /\ advance' \in [Entities -> Int]
    BY <1>1 DEF Inv, Shape
  <2> QED
    BY <1>1, <1>4, <1>5, <2>1, PaymentsKept
<1>7. ASSUME NEW b \in Bills, bill'[b].onHold PROVE ActiveHold(b)'
  <2>1. b # scope /\ bill'[b] = bill[b]
    BY <1>5, <1>7
  <2>2. PICK g \in Holds : hold[g] = [state |-> "active", scope |-> b]
    BY <1>7, <2>1 DEF FlagHasHold, ActiveHold
  <2>3. hold[g].scope = b
    BY <2>2
  <2>4. g # h
    BY <2>1, <2>3
  <2> QED
    BY <1>4, <2>2, <2>4 DEF ActiveHold
<1> QED
  BY <1>6, <1>7 DEF FlagHasHold

LEMMA PayStep ==
  ASSUME Inv, NEW p \in Payments, NEW f \in [Documents -> Nat],
         CreatePayment(p, f) \/ AllocatePayment(p, f)
  PROVE  Inv' /\ \A b \in Bills : bill'[b].onHold = bill[b].onHold
<1> DEFINE n == Sum(f, Documents)
<1>1. /\ n \in Nat /\ n <= payment[p].unapplied
      /\ Allocatable(f)
      /\ bill' = BillsAfter(f, "paid") /\ credit' = CreditsAfter(f) /\ paid' = PaidAfter(p, f)
      /\ payment' \in [Payments -> Payment]
      /\ payment'[p].status # "none"
      /\ payment'[p].allocated = payment[p].allocated + n
      /\ payment'[p].unapplied = payment[p].unapplied - n
      /\ \A q \in Payments \ {p} : payment'[q] = payment[q]
      /\ UNCHANGED <<credited, hold, run, failed>>
  BY PayEffects
<1>2. control' = [control EXCEPT ![EntityOf[p]] = @ - n]
  BY PayEffects
<1>3. advance' = [advance EXCEPT ![EntityOf[p]] = @ + payment'[p].unapplied
                    - (IF payment[p].status = "none" THEN 0 ELSE payment[p].unapplied)]
  BY PayEffects
<1> HIDE DEF n
<1>4. Shape
  BY DEF Inv
<1>5. /\ bill' \in [Bills -> Bill]
      /\ \A b \in Bills : Consistent(bill[b], Total[b])' /\ bill'[b].onHold = bill[b].onHold
  BY <1>1, SettledBills
<1>6. /\ credit' \in [Credits -> Credit]
      /\ \A c \in Credits : /\ credit'[c].available = Total[CreditOf[c]] - credit'[c].applied
                            /\ credit'[c].status # "POSTED" => credit'[c].applied = 0
  <2>1. credit' = [c \in Credits |-> CreditsAfter(f)[c]]
    BY <1>1 DEF CreditsAfter
  <2>2. ASSUME NEW c \in Credits
        PROVE  /\ credit'[c] \in Credit
               /\ credit'[c].available = Total[CreditOf[c]] - credit'[c].applied
               /\ credit'[c].status # "POSTED" => credit'[c].applied = 0
    <3> DEFINE k == IF c \in Documents THEN f[c] ELSE 0
               new == CreditsAfter(f)[c]
               old == credit[c]
               total == Total[CreditOf[c]]
    <3>1. /\ k \in Nat /\ new \in Credit /\ new.applied = old.applied + k
          /\ new.available = old.available - k /\ new.status = old.status
          /\ k > 0 => old.status = "POSTED"
      <4>1. credit \in [Credits -> Credit] /\ Allocatable(f)
        BY <1>1, <1>4 DEF Shape
      <4> QED
        BY <4>1, CreditsAfterFields
    <3>2. old \in Credit /\ total \in Nat
      BY <1>4 DEF Shape
    <3>3. old.available = total - old.applied /\ (old.status # "POSTED" => old.applied = 0)
      BY DEF Inv, Columns
    <3>4. old.applied \in Nat
      BY <3>2, CreditFields
    <3> HIDE DEF k, new, old, total
    <3>5. new.available = total - new.applied /\ (new.status # "POSTED" => new.applied = 0)
      BY <3>1, <3>2, <3>3, <3>4
    <3> QED
      BY <1>1, <3>1, <3>5 DEF new, total
  <2> QED
    BY <2>1, <2>2
<1>7. paid' \in [Payments -> [Documents -> Nat]]
  <2>1. ASSUME NEW d \in Documents PROVE paid[p][d] + (IF d \in DOMAIN f THEN f[d] ELSE 0) \in Nat
    BY <1>4 DEF Shape
  <2> QED
    BY <1>1, <1>4, <2>1 DEF PaidAfter, Shape
<1>8. control' \in [Entities -> Int] /\ advance' \in [Entities -> Int]
  <2>1. EntityOf[p] \in Entities /\ payment[p] \in Payment /\ payment'[p] \in Payment
    BY <1>1, <1>4 DEF Shape
  <2>2. payment[p].unapplied \in Nat /\ payment'[p].unapplied \in Nat
    BY <2>1, PaymentFields
  <2>3. control \in [Entities -> Int] /\ advance \in [Entities -> Int]
    BY <1>4 DEF Shape
  <2> QED
    BY <1>1, <1>2, <1>3, <2>1, <2>2, <2>3
<1>9. \A q \in Payments : /\ payment'[q].unapplied = Amount[q] - payment'[q].allocated
                          /\ payment'[q].status = "none" => payment'[q].allocated = 0
  <2>1. payment[p].allocated \in Nat /\ Amount[p] \in Nat /\ payment[p].unapplied = Amount[p] - payment[p].allocated
    BY <1>4, PaymentFields DEF Shape, Inv, Columns
  <2>2. payment'[p].unapplied = Amount[p] - payment'[p].allocated
    BY <1>1, <2>1
  <2> QED
    BY <1>1, <2>2 DEF Inv, Columns
<1>10. Shape'
  BY <1>1, <1>4, <1>5, <1>6, <1>7, <1>8 DEF Shape
<1>11. Columns'
  BY <1>5, <1>6, <1>9 DEF Columns
<1> QED
  BY <1>5, <1>10, <1>11 DEF Inv

LEMMA ConfirmStep ==
  ASSUME Inv, NEW p \in Payments, ConfirmPayment(p)
  PROVE  Inv'
<1> DEFINE row == payment[p]
           new == [row EXCEPT !.status = "CONFIRMED"]
<1>1. /\ row.status = "POSTED" /\ payment' = [payment EXCEPT ![p] = new]
      /\ UNCHANGED <<bill, credit, paid, credited, hold, run, control, advance, failed>>
  BY DEF ConfirmPayment
<1>2. payment \in [Payments -> Payment] /\ row \in Payment
  BY DEF Inv, Shape
<1>3. /\ new \in Payment /\ new.status = "CONFIRMED"
      /\ new.allocated = row.allocated /\ new.unapplied = row.unapplied
  <2> HIDE DEF row
  <2> QED
    BY <1>2 DEF Payment
<1> HIDE DEF new
<1>4. /\ payment' \in [Payments -> Payment] /\ payment'[p] = new
      /\ \A q \in Payments \ {p} : payment'[q] = payment[q]
  BY <1>1, <1>2, <1>3
<1>5. Shape'
  BY <1>1, <1>4 DEF Inv, Shape
<1>6. \A q \in Payments : /\ payment'[q].unapplied = Amount[q] - payment'[q].allocated
                          /\ payment'[q].status = "none" => payment'[q].allocated = 0
  BY <1>3, <1>4 DEF Inv, Columns
<1>7. Columns'
  BY <1>1, <1>6 DEF Inv, Columns, Consistent
<1> QED
  BY <1>5, <1>7 DEF Inv

(* A credit is drawn up and posted before anything is taken from it.        *)
LEMMA CreditStep ==
  ASSUME Inv, NEW c \in Credits, CreateVendorCredit(c) \/ PostVendorCredit(c)
  PROVE  Inv' /\ credit[c].status # "POSTED"
         /\ credit'[c].applied = credit[c].applied /\ credit'[c].available = credit[c].available
         /\ credit'[c].status = (IF CreateVendorCredit(c) THEN "DRAFT" ELSE "POSTED")
         /\ \A d \in Credits \ {c} : credit'[d] = credit[d]
<1> DEFINE row == credit[c]
           st == IF CreateVendorCredit(c) THEN "DRAFT" ELSE "POSTED"
           new == [row EXCEPT !.status = st]
<1>1. /\ row.status \in {"none", "DRAFT"} /\ credit' = [credit EXCEPT ![c] = new]
      /\ UNCHANGED <<bill, payment, paid, credited, hold, run, advance, failed>>
  BY DEF CreateVendorCredit, PostVendorCredit
<1>2. credit \in [Credits -> Credit] /\ row \in Credit /\ st \in {"DRAFT", "POSTED"}
  BY DEF Inv, Shape
<1>3. /\ new \in Credit /\ new.status = st
      /\ new.applied = row.applied /\ new.available = row.available
  <2> HIDE DEF row, st
  <2> QED
    BY <1>2 DEF Credit
<1> HIDE DEF new, st
<1>4. /\ credit' \in [Credits -> Credit] /\ credit'[c] = new
      /\ \A d \in Credits \ {c} : credit'[d] = credit[d]
  BY <1>1, <1>2, <1>3
<1>5. control' \in [Entities -> Int]
  <2>1. CreditEntity(c) \in Entities /\ Total[CreditOf[c]] \in Int /\ control \in [Entities -> Int]
    <3>1. CreditOf[c] \in Bills
      OBVIOUS
    <3>2. EntityOf[CreditOf[c]] \in Entities /\ Total[CreditOf[c]] \in Int
      <4> DEFINE b == CreditOf[c]
      <4>1. b \in Bills
        BY <3>1
      <4> HIDE DEF b
      <4>2. EntityOf[b] \in Entities /\ Total[b] \in Int
        BY <4>1
      <4> QED
        BY <4>2 DEF b
    <3>3. control \in [Entities -> Int]
      BY DEF Inv, Shape
    <3> QED
      BY <3>2, <3>3 DEF CreditEntity
  <2> QED
    BY <2>1 DEF CreateVendorCredit, PostVendorCredit
<1>6. Shape'
  BY <1>1, <1>4, <1>5 DEF Inv, Shape
<1>7. \A d \in Credits : /\ credit'[d].available = Total[CreditOf[d]] - credit'[d].applied
                         /\ credit'[d].status # "POSTED" => credit'[d].applied = 0
  BY <1>1, <1>3, <1>4 DEF Inv, Columns
<1>8. Columns'
  BY <1>1, <1>7 DEF Inv, Columns, Consistent
<1> QED
  BY <1>1, <1>3, <1>4, <1>6, <1>8 DEF Inv, st

LEMMA ApplyStep ==
  ASSUME Inv, NEW c \in Credits, NEW f \in [Bills -> Nat], ApplyVendorCredit(c, f)
  PROVE  Inv' /\ \A b \in Bills : bill'[b].onHold = bill[b].onHold
<1> DEFINE n == Sum(f, Bills)
<1>1. /\ n \in Nat /\ n <= credit[c].available
      /\ Allocatable(f)
      /\ bill' = BillsAfter(f, "credited")
      /\ credited' = [credited EXCEPT ![c] = [b \in Bills |-> @[b] + f[b]]]
      /\ credit' \in [Credits -> Credit]
      /\ credit'[c].status = "POSTED"
      /\ credit'[c].applied = credit[c].applied + n
      /\ credit'[c].available = credit[c].available - n
      /\ \A d \in Credits \ {c} : credit'[d] = credit[d]
      /\ UNCHANGED <<payment, paid, hold, run, control, advance, failed>>
  BY ApplyEffects
<1> HIDE DEF n
<1>2. Shape
  BY DEF Inv
<1>3. /\ bill' \in [Bills -> Bill]
      /\ \A b \in Bills : Consistent(bill[b], Total[b])' /\ bill'[b].onHold = bill[b].onHold
  BY <1>1, SettledBills
<1>4. credited' \in [Credits -> [Bills -> Nat]]
  <2>1. ASSUME NEW b \in Bills PROVE credited[c][b] + f[b] \in Nat
    <3>1. credited[c] \in [Bills -> Nat]
      BY <1>2 DEF Shape
    <3>2. credited[c][b] \in Nat /\ f[b] \in Nat
      BY <3>1
    <3> QED
      BY <3>2
  <2> QED
    BY <1>1, <1>2, <2>1 DEF Shape
<1>5. \A d \in Credits : /\ credit'[d].available = Total[CreditOf[d]] - credit'[d].applied
                         /\ credit'[d].status # "POSTED" => credit'[d].applied = 0
  <2>1. /\ credit[c].applied \in Nat /\ Total[CreditOf[c]] \in Nat
        /\ credit[c].available = Total[CreditOf[c]] - credit[c].applied
    BY <1>2, CreditFields DEF Shape, Inv, Columns
  <2>2. credit'[c].available = Total[CreditOf[c]] - credit'[c].applied
    BY <1>1, <2>1
  <2> QED
    BY <1>1, <2>2 DEF Inv, Columns
<1>6. Shape'
  BY <1>1, <1>2, <1>3, <1>4 DEF Shape
<1>7. Columns'
  BY <1>1, <1>3, <1>5 DEF Inv, Columns
<1> QED
  BY <1>3, <1>6, <1>7 DEF Inv

LEMMA RestStep ==
  ASSUME Inv,
         \/ \E p \in Payments : FailPayment(p)
         \/ \E r \in Runs, e \in Entities : CreatePaymentRun(r, e)
         \/ UNCHANGED vars
  PROVE  Inv' /\ UNCHANGED <<bill, payment, credit, paid, credited, hold, control, advance>>
<1>1. /\ UNCHANGED <<bill, payment, credit, paid, credited, hold, control, advance>>
      /\ run' \subseteq Runs /\ failed' \subseteq Payments \cup Runs
  BY DEF FailPayment, CreatePaymentRun, vars, Inv, Shape
<1>2. Shape'
  BY <1>1 DEF Inv, Shape
<1>3. Columns'
  BY <1>1 DEF Inv, Columns, Consistent
<1> QED
  BY <1>1, <1>2, <1>3 DEF Inv
-----------------------------------------------------------------------------
(* A sum of which one term changes.                                         *)
Moves(f, g, S, p, k) ==
  /\ IsFiniteSet(S) /\ p \in S /\ k \in Int
  /\ \A x \in S : f[x] \in Int /\ g[x] = f[x] + (IF x = p THEN k ELSE 0)

LEMMA SumMoves ==
  ASSUME NEW S, NEW p, NEW k, NEW f, NEW g, Moves(f, g, S, p, k)
  PROVE  Sum(g, S) = Sum(f, S) + k /\ Sum(f, S) \in Int
<1> USE DEF Moves
<1>1. (\A x \in S : f[x] \in Int /\ g[x] \in Int) /\ g[p] - f[p] = k
  OBVIOUS
<1>2. \A x \in S \ {p} : f[x] = g[x]
  OBVIOUS
<1>3. Sum(g, S) = Sum(f, S) + (g[p] - f[p])
  <2>1. DifferAt(f, g, S, p)
    BY <1>1, <1>2 DEF DifferAt
  <2> QED
    BY <2>1, SumDiffers, Zenon
<1>4. Sum(f, S) \in Int
  BY <1>1, SumInt
<1> QED
  BY <1>1, <1>3, <1>4

(* A sum of which every term is a sum.                                      *)
Adds(h, f, g, S) == IsFiniteSet(S) /\ \A x \in S : f[x] \in Int /\ g[x] \in Int /\ h[x] = f[x] + g[x]

LEMMA SumAdds ==
  ASSUME NEW S, NEW f, NEW g, NEW h, Adds(h, f, g, S)
  PROVE  Sum(h, S) = Sum(f, S) + Sum(g, S)
BY SumPlus DEF Adds

(* These steps leave the amounts of every bill alone.                       *)
Amounts(row) == <<row.paid, row.credited, row.due>>

LEMMA AmountsStay ==
  ASSUME Inv,
         \/ \E b \in Bills : MatchBill(b) \/ ApproveVendorBill(b) \/ PostBill(b)
         \/ \E h \in Holds : ReleaseHold(h)
         \/ \E h \in Holds, scope \in Bills \cup Vendors : PlaceHold(h, scope)
  PROVE  /\ UNCHANGED <<payment, credit, paid, credited, advance>>
         /\ \A x \in Bills : Amounts(bill'[x]) = Amounts(bill[x])
<1>1. bill \in [Bills -> Bill]
  BY DEF Inv, Shape
<1>2. ASSUME NEW b \in Bills, MatchBill(b)
      PROVE  /\ UNCHANGED <<payment, credit, paid, credited, advance>>
             /\ \A x \in Bills : Amounts(bill'[x]) = Amounts(bill[x])
  BY <1>1, <1>2 DEF MatchBill, Amounts, Bill
<1>3. ASSUME NEW b \in Bills, ApproveVendorBill(b) \/ PostBill(b)
      PROVE  /\ UNCHANGED <<payment, credit, paid, credited, advance>>
             /\ \A x \in Bills : Amounts(bill'[x]) = Amounts(bill[x])
  BY <1>1, <1>3 DEF ApproveVendorBill, PostBill, Amounts, Bill
<1>4. CASE \E h \in Holds : ReleaseHold(h)
  BY <1>1, <1>4 DEF ReleaseHold, Amounts, Bill
<1>5. CASE \E h \in Holds, scope \in Bills \cup Vendors : PlaceHold(h, scope)
  BY <1>1, <1>5 DEF PlaceHold, Amounts, Bill
<1> QED
  BY <1>2, <1>3, <1>4, <1>5, Zenon

(* The steps there are.                                                     *)
LEMMA NextCases ==
  ASSUME [Next]_vars
  PROVE  \/ \E b \in Bills : MatchBill(b) \/ ApproveVendorBill(b) \/ PostBill(b)
         \/ \E p \in Payments, f \in [Documents -> Nat] :
              \/ CreatePayment(p, f) /\ (f \in Apportioned(Documents, Amount[p])
                                         \/ f = [d \in Documents |-> 0])
              \/ AllocatePayment(p, f) /\ f \in Apportioned(Documents, Amount[p])
         \/ \E p \in Payments : ConfirmPayment(p)
         \/ \E c \in Credits : CreateVendorCredit(c) \/ PostVendorCredit(c)
         \/ \E c \in Credits, f \in [Bills -> Nat] :
              ApplyVendorCredit(c, f) /\ f \in Apportioned(Bills, Total[CreditOf[c]])
         \/ \E h \in Holds : ReleaseHold(h)
         \/ \E h \in Holds, scope \in Bills \cup Vendors : PlaceHold(h, scope)
         \/ \E p \in Payments : FailPayment(p)
         \/ \E r \in Runs, e \in Entities : CreatePaymentRun(r, e)
         \/ UNCHANGED vars
<1>1. ASSUME NEW S, NEW n \in Nat, NEW f \in Apportioned(S, n) PROVE f \in [S -> Nat]
  BY <1>1 DEF Apportioned
<1>2. [d \in Documents |-> 0] \in [Documents -> Nat]
  OBVIOUS
<1>3. \A p \in Payments : Amount[p] \in Nat
  OBVIOUS
<1>4. \A c \in Credits : Total[CreditOf[c]] \in Nat
  OBVIOUS
<1>5. \A p \in Payments : \A f \in Apportioned(Documents, Amount[p]) : f \in [Documents -> Nat]
  BY <1>1, <1>3
<1>6. \A c \in Credits : \A f \in Apportioned(Bills, Total[CreditOf[c]]) : f \in [Bills -> Nat]
  BY <1>1, <1>4
<1> QED
  BY <1>2, <1>5, <1>6, Zenon DEF Next

LEMMA InvStep == Inv /\ FlagHasHold /\ [Next]_vars => Inv' /\ FlagHasHold'
<1> SUFFICES ASSUME Inv, FlagHasHold, [Next]_vars PROVE Inv' /\ FlagHasHold'
  OBVIOUS
<1>0. ASSUME UNCHANGED hold, \A b \in Bills : bill'[b].onHold = bill[b].onHold PROVE FlagHasHold'
  BY <1>0 DEF FlagHasHold, ActiveHold
<1>1. ASSUME NEW b \in Bills, MatchBill(b) \/ ApproveVendorBill(b) \/ PostBill(b)
      PROVE  Inv' /\ FlagHasHold'
  BY <1>0, <1>1, BillStep DEF MatchBill, ApproveVendorBill, PostBill
<1>2. ASSUME NEW p \in Payments, NEW f \in [Documents -> Nat], CreatePayment(p, f) \/ AllocatePayment(p, f)
      PROVE  Inv' /\ FlagHasHold'
  BY <1>0, <1>2, PayStep DEF CreatePayment, AllocatePayment
<1>3. ASSUME NEW p \in Payments, ConfirmPayment(p) PROVE Inv' /\ FlagHasHold'
  BY <1>0, <1>3, ConfirmStep DEF ConfirmPayment
<1>4. ASSUME NEW c \in Credits, CreateVendorCredit(c) \/ PostVendorCredit(c) PROVE Inv' /\ FlagHasHold'
  BY <1>0, <1>4, CreditStep DEF CreateVendorCredit, PostVendorCredit
<1>5. ASSUME NEW c \in Credits, NEW f \in [Bills -> Nat], ApplyVendorCredit(c, f) PROVE Inv' /\ FlagHasHold'
  BY <1>0, <1>5, ApplyStep DEF ApplyVendorCredit
<1>6. ASSUME NEW h \in Holds, ReleaseHold(h) PROVE Inv' /\ FlagHasHold'
  BY <1>6, ReleaseHoldStep
<1>7. ASSUME NEW h \in Holds, NEW scope \in Bills \cup Vendors, PlaceHold(h, scope) PROVE Inv' /\ FlagHasHold'
  BY <1>7, PlaceHoldStep
<1>8. CASE \/ \E p \in Payments : FailPayment(p)
           \/ \E r \in Runs, e \in Entities : CreatePaymentRun(r, e)
           \/ UNCHANGED vars
  BY <1>0, <1>8, RestStep
<1> QED
  BY <1>1, <1>2, <1>3, <1>4, <1>5, <1>6, <1>7, <1>8, NextCases, Zenon

LEMMA Invariance == Spec => [](Inv /\ FlagHasHold)
BY InitInv, InvStep, PTL DEF Spec
-----------------------------------------------------------------------------
(* The columns of a bill and the rows they sum up.                          *)
PaidRows(b) == [p \in Payments |-> paid[p][b]]
CreditedRows(b) == [c \in Credits |-> credited[c][b]]

Rows ==
  \A b \in Bills : /\ bill[b].paid = Sum(PaidRows(b), Payments)
                   /\ bill[b].credited = Sum(CreditedRows(b), Credits)

LEMMA FiniteDocuments == IsFiniteSet(Documents)
BY FS_Union DEF Documents

(* A payment gives each document what the request asks for it.              *)
LEMMA PaidMoves ==
  ASSUME Inv, NEW p \in Payments, NEW f \in [Documents -> Nat], paid' = PaidAfter(p, f)
  PROVE  /\ Sum(paid'[p], Documents) = Sum(paid[p], Documents) + Sum(f, Documents)
         /\ \A q \in Payments \ {p} : paid'[q] = paid[q]
         /\ \A d \in Documents : PaidTo(d)' = PaidTo(d) + f[d] /\ PaidTo(d) \in Nat
<1>1. paid \in [Payments -> [Documents -> Nat]] /\ DOMAIN f = Documents
  BY DEF Inv, Shape
<1>2. /\ \A q \in Payments \ {p} : paid'[q] = paid[q]
      /\ paid'[p] = [d \in Documents |-> paid[p][d] + f[d]]
  BY <1>1 DEF PaidAfter
<1>3. \A q \in Payments : \A d \in Documents : paid[q][d] \in Nat
  <2>1. \A q \in Payments : paid[q] \in [Documents -> Nat]
    BY <1>1
  <2> QED
    BY <2>1
<1>4. Sum(paid'[p], Documents) = Sum(paid[p], Documents) + Sum(f, Documents)
  <2>1. PICK now, old : now = paid'[p] /\ old = paid[p]
    OBVIOUS
  <2>2. \A d \in Documents : old[d] \in Int /\ f[d] \in Int /\ now[d] = old[d] + f[d]
    BY <1>2, <1>3, <2>1
  <2>3. Sum(now, Documents) = Sum(old, Documents) + Sum(f, Documents)
    <3>1. Adds(now, old, f, Documents)
      BY ONLY <2>2, FiniteDocuments DEF Adds
    <3> QED
      BY ONLY <3>1, SumAdds, Zenon
  <2> QED
    BY <2>1, <2>3
<1>5. ASSUME NEW d \in Documents PROVE PaidTo(d)' = PaidTo(d) + f[d] /\ PaidTo(d) \in Nat
  <2> DEFINE before == PaidRows(d)
             after == PaidRows(d)'
             k == f[d]
  <2>1. \A q \in Payments : before[q] \in Nat /\ after[q] = before[q] + (IF q = p THEN k ELSE 0)
    <3> SUFFICES ASSUME NEW q \in Payments
                 PROVE  before[q] \in Nat /\ after[q] = before[q] + (IF q = p THEN k ELSE 0)
      OBVIOUS
    <3>1. before[q] = paid[q][d] /\ after[q] = paid'[q][d] /\ paid[q][d] \in Nat
      BY <1>3 DEF PaidRows
    <3>2. CASE q = p
      BY <1>2, <3>1, <3>2
    <3>3. CASE q # p
      BY <1>2, <3>1, <3>3
    <3> QED
      BY <3>2, <3>3
  <2>2. /\ \A q \in Payments : before[q] \in Int /\ after[q] = before[q] + (IF q = p THEN k ELSE 0)
        /\ \A q \in Payments : before[q] \in Nat
        /\ k \in Int /\ IsFiniteSet(Payments) /\ p \in Payments
    BY <2>1
  <2>3. PaidTo(d) = Sum(before, Payments) /\ PaidTo(d)' = Sum(after, Payments)
    BY DEF PaidTo, PaidRows
  <2> HIDE DEF before, after, k
  <2>4. Sum(after, Payments) = Sum(before, Payments) + k
    <3>1. Moves(before, after, Payments, p, k)
      BY ONLY <2>2 DEF Moves
    <3> QED
      BY ONLY <3>1, SumMoves, Zenon
  <2>5. Sum(before, Payments) \in Nat
    BY ONLY <2>2, SumNat
  <2> QED
    BY <2>3, <2>4, <2>5 DEF k
<1> QED
  BY <1>2, <1>4, <1>5

LEMMA RowsInvariance == Spec => []Rows
<1>1. Init => Rows
  <2> SUFFICES ASSUME Init, NEW b \in Bills
               PROVE  /\ bill[b].paid = Sum(PaidRows(b), Payments)
                      /\ bill[b].credited = Sum(CreditedRows(b), Credits)
    BY DEF Rows
  <2>1. bill[b].paid = 0 /\ bill[b].credited = 0
    BY DEF Init
  <2>2. \A p \in Payments : PaidRows(b)[p] \in Nat /\ PaidRows(b)[p] = 0
    BY DEF Init, PaidRows, Documents
  <2>3. \A c \in Credits : CreditedRows(b)[c] \in Nat /\ CreditedRows(b)[c] = 0
    BY DEF Init, CreditedRows
  <2>4. Sum(PaidRows(b), Payments) = 0
    BY <2>2, SumNat
  <2>5. Sum(CreditedRows(b), Credits) = 0
    BY <2>3, SumNat
  <2> QED
    BY <2>1, <2>4, <2>5
<1>2. Inv /\ Rows /\ [Next]_vars => Rows'
  <2> SUFFICES ASSUME Inv, Rows, [Next]_vars PROVE Rows'
    OBVIOUS
  <2>0. ASSUME UNCHANGED <<paid, credited>>,
               \A b \in Bills : bill'[b].paid = bill[b].paid /\ bill'[b].credited = bill[b].credited
        PROVE  Rows'
    <3>1. ASSUME NEW b \in Bills
          PROVE  PaidRows(b)' = PaidRows(b) /\ CreditedRows(b)' = CreditedRows(b)
      BY <2>0 DEF PaidRows, CreditedRows
    <3> QED
      BY <2>0, <3>1 DEF Rows
  <2>1. ASSUME NEW p \in Payments, NEW f \in [Documents -> Nat], CreatePayment(p, f) \/ AllocatePayment(p, f)
        PROVE  Rows'
    <3>1. Allocatable(f) /\ bill' = BillsAfter(f, "paid") /\ paid' = PaidAfter(p, f) /\ UNCHANGED credited
      BY <2>1, PayEffects
    <3>2. paid \in [Payments -> [Documents -> Nat]] /\ bill \in [Bills -> Bill]
      BY DEF Inv, Shape
    <3> SUFFICES ASSUME NEW b \in Bills
                 PROVE  /\ bill'[b].paid = Sum(PaidRows(b)', Payments)
                        /\ bill'[b].credited = Sum(CreditedRows(b)', Credits)
      BY DEF Rows
    <3> DEFINE n == OnBills(f)[b]
    <3>3. n = f[b] /\ bill'[b].paid = bill[b].paid + n /\ bill'[b].credited = bill[b].credited + 0
      <4>1. Inv /\ f \in [Documents -> Nat] /\ Allocatable(f) /\ b \in Bills /\ bill' = BillsAfter(f, "paid")
        BY <3>1
      <4>2. n = f[b]
        BY DEF OnBills, Documents
      <4> QED
        BY ONLY <4>1, <4>2, SettledAmounts
    <3>4. bill[b].paid = Sum(PaidRows(b), Payments) /\ bill[b].credited = Sum(CreditedRows(b), Credits)
          /\ bill[b].credited \in Nat
      BY <3>2, BillFields DEF Rows
    <3>5. PaidTo(b)' = PaidTo(b) + f[b]
      BY <3>1, PaidMoves DEF Documents
    <3> HIDE DEF n
    <3>6. bill'[b].paid = Sum(PaidRows(b)', Payments)
      BY <3>3, <3>4, <3>5 DEF PaidTo, PaidRows
    <3>7. bill'[b].credited = Sum(CreditedRows(b)', Credits)
      BY <3>1, <3>3, <3>4 DEF CreditedRows
    <3> QED
      BY <3>6, <3>7
  <2>2. ASSUME NEW c \in Credits, NEW f \in [Bills -> Nat], ApplyVendorCredit(c, f)
        PROVE  Rows'
    <3>1. /\ Allocatable(f) /\ bill' = BillsAfter(f, "credited") /\ UNCHANGED paid
          /\ credited' = [credited EXCEPT ![c] = [b \in Bills |-> @[b] + f[b]]]
      BY <2>2, ApplyEffects
    <3>2. credited \in [Credits -> [Bills -> Nat]] /\ bill \in [Bills -> Bill]
      BY DEF Inv, Shape
    <3> SUFFICES ASSUME NEW b \in Bills
                 PROVE  /\ bill'[b].paid = Sum(PaidRows(b)', Payments)
                        /\ bill'[b].credited = Sum(CreditedRows(b)', Credits)
      BY DEF Rows
    <3> DEFINE n == OnBills(f)[b]
               before == CreditedRows(b)
               after == CreditedRows(b)'
    <3>3. n \in Nat /\ bill'[b].credited = bill[b].credited + n /\ bill'[b].paid = bill[b].paid + 0
      <4>1. Inv /\ b \in Bills /\ f \in [Bills -> Nat]
        OBVIOUS
      <4> QED
        BY ONLY <3>1, <4>1, SettledAmounts
    <3>4. bill[b].credited = Sum(before, Credits) /\ bill[b].paid = Sum(PaidRows(b), Payments)
          /\ bill[b].paid \in Nat /\ bill[b].credited \in Nat
      BY <3>2, BillFields DEF Rows
    <3>5. \A q \in Credits : before[q] \in Nat /\ after[q] = before[q] + (IF q = c THEN n ELSE 0)
      <4>2. ASSUME NEW q \in Credits
            PROVE  credited'[q][b] = credited[q][b] + (IF q = c THEN n ELSE 0) /\ credited[q][b] \in Nat
        <5>1. credited[q] \in [Bills -> Nat] /\ credited[q][b] \in Nat
          <6>1. credited[q] \in [Bills -> Nat]
            BY <3>2
          <6> QED
            BY <6>1
        <5>2. CASE q = c
          <6>1. credited'[q] = [x \in Bills |-> credited[q][x] + f[x]]
            BY <3>1, <3>2, <5>2
          <6>2. n = f[b]
            BY DEF OnBills
          <6> QED
            BY <5>1, <5>2, <6>1, <6>2
        <5>3. CASE q # c
          <6>1. credited'[q] = credited[q]
            BY <3>1, <3>2, <5>3
          <6> QED
            BY <5>1, <5>3, <6>1
        <5> QED
          BY <5>1, <5>2, <5>3
      <4> QED
        BY <4>2 DEF CreditedRows
    <3> HIDE DEF n, before, after
    <3>6. Sum(after, Credits) = Sum(before, Credits) + n
      <4>1. /\ \A q \in Credits : before[q] \in Int /\ after[q] = before[q] + (IF q = c THEN n ELSE 0)
            /\ n \in Int /\ IsFiniteSet(Credits) /\ c \in Credits
        BY <3>3, <3>5
      <4> QED
        <5>1. Moves(before, after, Credits, c, n)
          BY ONLY <4>1 DEF Moves
        <5> QED
          BY ONLY <5>1, SumMoves, Zenon
    <3>8. bill'[b].credited = Sum(after, Credits)
      BY <3>3, <3>4, <3>6
    <3>9. bill'[b].paid = Sum(PaidRows(b)', Payments)
      BY <3>1, <3>3, <3>4 DEF PaidRows
    <3> QED
      BY <3>8, <3>9 DEF after
  <2>3. CASE \/ \E b \in Bills : MatchBill(b) \/ ApproveVendorBill(b) \/ PostBill(b)
             \/ \E h \in Holds : ReleaseHold(h)
             \/ \E h \in Holds, scope \in Bills \cup Vendors : PlaceHold(h, scope)
    BY <2>0, <2>3, AmountsStay DEF Amounts
  <2>5. CASE \/ \E p \in Payments : ConfirmPayment(p) \/ FailPayment(p)
             \/ \E c \in Credits : CreateVendorCredit(c) \/ PostVendorCredit(c)
             \/ \E r \in Runs, e \in Entities : CreatePaymentRun(r, e)
             \/ UNCHANGED vars
    <3>1. UNCHANGED <<bill, paid, credited>>
      BY <2>5 DEF ConfirmPayment, FailPayment, CreateVendorCredit, PostVendorCredit, CreatePaymentRun, vars
    <3> QED
      BY <2>0, <3>1
  <2> QED
    BY <2>1, <2>2, <2>3, <2>5, NextCases, Zenon
<1> QED
  BY <1>1, <1>2, Invariance, PTL DEF Spec
-----------------------------------------------------------------------------
(* What some have is what all have, if the others have nothing.             *)
IsPart(f, T, g, S) ==
  /\ IsFiniteSet(S) /\ T \in SUBSET S /\ \A x \in S : g[x] \in Int
  /\ (\A x \in T : f[x] = g[x]) /\ \A x \in S \ T : g[x] = 0

LEMMA SumOfSome ==
  ASSUME NEW S, NEW T, NEW f, NEW g, IsPart(f, T, g, S)
  PROVE  Sum(f, T) = Sum(g, S)
<1> USE DEF IsPart
<1>1. IsFiniteSet(T)
  BY FS_Subset
<1>2. Sum(g, S) = Sum(g, T)
  BY SumSubset
<1>3. Sum(f, T) = Sum(g, T)
  BY <1>1, SumAgrees
<1> QED
  BY <1>2, <1>3

(* The columns of a payment and of a credit, and the rows they sum up.      *)
PaymentRows == \A p \in Payments : payment[p].allocated = Sum(paid[p], Documents)
CreditRows == \A c \in Credits : credit[c].applied = Sum(credited[c], Bills) + PaidTo(c)

LEMMA PaymentRowsInvariance == Spec => []PaymentRows
<1>1. Init => PaymentRows
  <2> SUFFICES ASSUME Init, NEW p \in Payments PROVE payment[p].allocated = Sum(paid[p], Documents)
    BY DEF PaymentRows
  <2>1. payment[p].allocated = 0 /\ \A d \in Documents : paid[p][d] \in Nat /\ paid[p][d] = 0
    BY DEF Init
  <2>2. Sum(paid[p], Documents) = 0
    BY <2>1, FiniteDocuments, SumNat
  <2> QED
    BY <2>1, <2>2
<1>2. Inv /\ PaymentRows /\ [Next]_vars => PaymentRows'
  <2> SUFFICES ASSUME Inv, PaymentRows, [Next]_vars PROVE PaymentRows'
    OBVIOUS
  <2>1. ASSUME NEW p \in Payments, NEW f \in [Documents -> Nat], CreatePayment(p, f) \/ AllocatePayment(p, f)
        PROVE  PaymentRows'
    <3> DEFINE n == Sum(f, Documents)
    <3>1. /\ payment'[p].allocated = payment[p].allocated + n
          /\ \A q \in Payments \ {p} : payment'[q] = payment[q]
          /\ paid' = PaidAfter(p, f)
      BY <2>1, PayEffects
    <3>2. /\ Sum(paid'[p], Documents) = Sum(paid[p], Documents) + n
          /\ \A q \in Payments \ {p} : paid'[q] = paid[q]
      BY <3>1, PaidMoves
    <3> HIDE DEF n
    <3> QED
      BY <3>1, <3>2 DEF PaymentRows
  <2>2. ASSUME NEW p \in Payments, ConfirmPayment(p) PROVE PaymentRows'
    <3> DEFINE row == payment[p]
               new == [row EXCEPT !.status = "CONFIRMED"]
    <3>1. /\ payment' = [payment EXCEPT ![p] = new] /\ row \in Payment
          /\ payment \in [Payments -> Payment] /\ paid' = paid
      BY <2>2 DEF ConfirmPayment, Inv, Shape
    <3>2. new.allocated = row.allocated
      <4> HIDE DEF row
      <4> QED
        BY <3>1 DEF Payment
    <3> HIDE DEF new
    <3>3. \A q \in Payments : payment'[q].allocated = payment[q].allocated
      BY <3>1, <3>2
    <3> QED
      BY <3>1, <3>3 DEF PaymentRows
  <2>3. CASE \/ \E b \in Bills : MatchBill(b) \/ ApproveVendorBill(b) \/ PostBill(b)
             \/ \E h \in Holds : ReleaseHold(h)
             \/ \E h \in Holds, scope \in Bills \cup Vendors : PlaceHold(h, scope)
    BY <2>3, AmountsStay DEF PaymentRows
  <2>4. CASE \/ \E p \in Payments : FailPayment(p)
             \/ \E r \in Runs, e \in Entities : CreatePaymentRun(r, e)
             \/ UNCHANGED vars
    <3>1. UNCHANGED <<payment, paid>>
      BY <2>4, RestStep, Zenon
    <3> QED
      BY <3>1 DEF PaymentRows
  <2>5. ASSUME NEW c \in Credits, CreateVendorCredit(c) \/ PostVendorCredit(c) PROVE PaymentRows'
    BY <2>5 DEF CreateVendorCredit, PostVendorCredit, PaymentRows
  <2>6. ASSUME NEW c \in Credits, NEW f \in [Bills -> Nat], ApplyVendorCredit(c, f) PROVE PaymentRows'
    BY <2>6 DEF ApplyVendorCredit, PaymentRows
  <2> QED
    BY <2>1, <2>2, <2>3, <2>4, <2>5, <2>6, NextCases, Zenon
<1> QED
  BY <1>1, <1>2, Invariance, PTL DEF Spec

LEMMA CreditRowsInvariance == Spec => []CreditRows
<1>1. Init => CreditRows
  <2> SUFFICES ASSUME Init, NEW c \in Credits
               PROVE  credit[c].applied = Sum(credited[c], Bills) + PaidTo(c)
    BY DEF CreditRows
  <2> DEFINE rows == PaidRows(c)
  <2>1. credit[c].applied = 0 /\ \A b \in Bills : credited[c][b] \in Nat /\ credited[c][b] = 0
    BY DEF Init
  <2>2. \A p \in Payments : rows[p] \in Nat /\ rows[p] = 0
    BY DEF Init, PaidRows, Documents
  <2>3. PaidTo(c) = Sum(rows, Payments)
    BY DEF PaidTo, PaidRows
  <2> HIDE DEF rows
  <2>4. Sum(credited[c], Bills) = 0
    BY <2>1, SumNat
  <2>5. Sum(rows, Payments) = 0
    BY <2>2, SumNat
  <2> QED
    BY <2>1, <2>3, <2>4, <2>5
<1>2. Inv /\ CreditRows /\ [Next]_vars => CreditRows'
  <2> SUFFICES ASSUME Inv, CreditRows, [Next]_vars PROVE CreditRows'
    OBVIOUS
  <2>0. ASSUME UNCHANGED <<paid, credited>>, \A c \in Credits : credit'[c].applied = credit[c].applied
        PROVE  CreditRows'
    <3>1. \A c \in Credits : PaidTo(c)' = PaidTo(c)
      BY <2>0 DEF PaidTo
    <3> QED
      BY <2>0, <3>1 DEF CreditRows
  <2>1. ASSUME NEW p \in Payments, NEW f \in [Documents -> Nat], CreatePayment(p, f) \/ AllocatePayment(p, f)
        PROVE  CreditRows'
    <3>1. /\ Allocatable(f) /\ credit' = CreditsAfter(f) /\ paid' = PaidAfter(p, f) /\ UNCHANGED credited
      BY <2>1, PayEffects
    <3> SUFFICES ASSUME NEW c \in Credits
                 PROVE  credit'[c].applied = Sum(credited'[c], Bills) + PaidTo(c)'
      BY DEF CreditRows
    <3>2. c \in Documents /\ f[c] \in Nat
      BY DEF Documents
    <3>3. credit'[c].applied = credit[c].applied + f[c]
      <4>1. credit \in [Credits -> Credit] /\ f \in [Documents -> Nat] /\ Allocatable(f) /\ c \in Credits
        BY <3>1 DEF Inv, Shape
      <4>2. CreditsAfter(f)[c].applied = credit[c].applied + (IF c \in Documents THEN f[c] ELSE 0)
        BY ONLY <4>1, CreditsAfterFields
      <4> QED
        BY <3>1, <3>2, <4>2
    <3>4. PaidTo(c)' = PaidTo(c) + f[c] /\ PaidTo(c) \in Nat
      BY <3>1, <3>2, PaidMoves
    <3>5. credit[c].applied = Sum(credited[c], Bills) + PaidTo(c) /\ Sum(credited[c], Bills) \in Nat
      <4>1. credited[c] \in [Bills -> Nat]
        BY DEF Inv, Shape
      <4>2. \A b \in Bills : credited[c][b] \in Nat
        BY <4>1
      <4> QED
        BY <4>2, SumNat DEF CreditRows
    <3> QED
      BY <3>1, <3>2, <3>3, <3>4, <3>5
  <2>2. ASSUME NEW c \in Credits, NEW f \in [Bills -> Nat], ApplyVendorCredit(c, f)
        PROVE  CreditRows'
    <3> DEFINE n == Sum(f, Bills)
               old == credited[c]
               now == credited'[c]
    <3>1. /\ credited' = [credited EXCEPT ![c] = [b \in Bills |-> @[b] + f[b]]]
          /\ credit'[c].applied = credit[c].applied + n
          /\ \A d \in Credits \ {c} : credit'[d] = credit[d]
          /\ UNCHANGED paid
      BY <2>2, ApplyEffects
    <3>2. /\ credited \in [Credits -> [Bills -> Nat]]
          /\ \A d \in Credits \ {c} : credited'[d] = credited[d]
          /\ now = [b \in Bills |-> old[b] + f[b]]
      BY <3>1 DEF Inv, Shape
    <3>3. \A b \in Bills : old[b] \in Nat /\ f[b] \in Nat /\ now[b] = old[b] + f[b]
      <4>1. old \in [Bills -> Nat]
        BY <3>2
      <4> HIDE DEF old, now
      <4> QED
        BY <3>2, <4>1
    <3>4. \A d \in Credits : PaidTo(d)' = PaidTo(d) /\ PaidTo(d) \in Nat
      <4> SUFFICES ASSUME NEW d \in Credits PROVE PaidTo(d)' = PaidTo(d) /\ PaidTo(d) \in Nat
        OBVIOUS
      <4>1. \A p \in Payments : PaidRows(d)[p] \in Nat
        BY DEF PaidRows, Inv, Shape, Documents
      <4>2. Sum(PaidRows(d), Payments) \in Nat
        BY <4>1, SumNat
      <4>3. PaidTo(d) = Sum(PaidRows(d), Payments)
        BY DEF PaidTo, PaidRows
      <4> QED
        BY <3>1, <4>2, <4>3 DEF PaidTo
    <3>5. /\ credit[c].applied = Sum(old, Bills) + PaidTo(c)
          /\ \A d \in Credits \ {c} : credit'[d].applied = Sum(credited'[d], Bills) + PaidTo(d)'
      BY <3>1, <3>2, <3>4 DEF CreditRows
    <3>6. Sum(now, Bills) = Sum(old, Bills) + n /\ Sum(old, Bills) \in Nat /\ n \in Nat
      <4>1. /\ \A b \in Bills : old[b] \in Int /\ f[b] \in Int /\ now[b] = old[b] + f[b]
            /\ \A b \in Bills : old[b] \in Nat /\ f[b] \in Nat
            /\ IsFiniteSet(Bills)
        BY <3>3
      <4> HIDE DEF old, now
      <4>2. Sum(now, Bills) = Sum(old, Bills) + Sum(f, Bills)
        <5>1. Adds(now, old, f, Bills)
          BY ONLY <4>1 DEF Adds
        <5> QED
          BY ONLY <5>1, SumAdds, Zenon
      <4>3. Sum(old, Bills) \in Nat /\ Sum(f, Bills) \in Nat
        BY ONLY <4>1, SumNat
      <4> QED
        BY <4>2, <4>3
    <3> HIDE DEF n, old
    <3>7. credit'[c].applied = Sum(now, Bills) + PaidTo(c)'
      <4> HIDE DEF now
      <4> QED
        BY <3>1, <3>4, <3>5, <3>6
    <3> QED
      BY <3>5, <3>7 DEF CreditRows
  <2>3. CASE \/ \E b \in Bills : MatchBill(b) \/ ApproveVendorBill(b) \/ PostBill(b)
             \/ \E h \in Holds : ReleaseHold(h)
             \/ \E h \in Holds, scope \in Bills \cup Vendors : PlaceHold(h, scope)
    BY <2>0, <2>3, AmountsStay
  <2>4. CASE \/ \E p \in Payments : ConfirmPayment(p) \/ FailPayment(p)
             \/ \E r \in Runs, e \in Entities : CreatePaymentRun(r, e)
             \/ UNCHANGED vars
    <3>1. UNCHANGED <<credit, paid, credited>>
      BY <2>4 DEF ConfirmPayment, FailPayment, CreatePaymentRun, vars
    <3> QED
      BY <2>0, <3>1
  <2>5. ASSUME NEW c \in Credits, CreateVendorCredit(c) \/ PostVendorCredit(c) PROVE CreditRows'
    <3>1. UNCHANGED <<paid, credited>>
      BY <2>5 DEF CreateVendorCredit, PostVendorCredit
    <3>2. \A d \in Credits : credit'[d].applied = credit[d].applied
      BY <2>5, CreditStep
    <3> QED
      BY <2>0, <3>1, <3>2
  <2> QED
    BY <2>1, <2>2, <2>3, <2>4, <2>5, NextCases, Zenon
<1> QED
  BY <1>1, <1>2, Invariance, PTL DEF Spec
-----------------------------------------------------------------------------
LEMMA PaidToIsNat == ASSUME Inv, NEW d \in Documents PROVE PaidTo(d) \in Nat
<1> DEFINE rows == PaidRows(d)
<1>1. \A p \in Payments : rows[p] \in Nat
  <2>1. \A p \in Payments : paid[p] \in [Documents -> Nat]
    BY DEF Inv, Shape
  <2> QED
    BY <2>1 DEF PaidRows
<1>2. PaidTo(d) = Sum(rows, Payments)
  BY DEF PaidTo, PaidRows
<1> HIDE DEF rows
<1>3. Sum(rows, Payments) \in Nat
  BY <1>1, SumNat
<1> QED
  BY <1>2, <1>3

LEMMA CreditSums ==
  ASSUME Inv, NEW c \in Credits
  PROVE  /\ Sum(credited[c], Bills) \in Nat /\ Total[CreditOf[c]] \in Nat
         /\ PaidTo(c) \in Nat /\ CreditEntity(c) \in Entities
<1>1. Sum(credited[c], Bills) \in Nat
  <2>1. credited[c] \in [Bills -> Nat]
    BY DEF Inv, Shape
  <2>2. \A b \in Bills : credited[c][b] \in Nat
    BY <2>1
  <2> QED
    BY <2>2, SumNat
<1>2. PICK b \in Bills : b = CreditOf[c]
  OBVIOUS
<1>3. Total[b] \in Nat \ {0}
  OBVIOUS
<1>4. EntityOf[b] \in Entities
  OBVIOUS
<1>5. PaidTo(c) \in Nat
  BY PaidToIsNat DEF Documents
<1> QED
  BY <1>1, <1>2, <1>3, <1>4, <1>5 DEF CreditEntity

(* What each bill, credit and payment has put into the control account of   *)
(* an entity, whoever paid for it: a bill its total less the credits that   *)
(* were applied to it, a posted credit what was not applied, a payment of   *)
(* the entity what it has allocated.  A payment that nothing was allocated  *)
(* from yet is in the advance account.                                      *)
Kept(e) == [b \in Bills |-> IF EntityOf[b] = e /\ Posted(b) THEN Total[b] - bill[b].credited ELSE 0]
Left(e) == [c \in Credits |-> IF CreditEntity(c) = e /\ credit[c].status = "POSTED"
                              THEN Total[CreditOf[c]] - Sum(credited[c], Bills) ELSE 0]
Debited(e) == [p \in Payments |-> IF EntityOf[p] = e THEN payment[p].allocated ELSE 0]
Holding(e) == [p \in Payments |-> IF EntityOf[p] = e /\ payment[p].status # "none"
                                  THEN payment[p].unapplied ELSE 0]

ControlExplained(e) ==
  control[e] = Sum(Kept(e), Bills) - Sum(Left(e), Credits) - Sum(Debited(e), Payments)
AdvanceExplained(e) == advance[e] = Sum(Holding(e), Payments)
Accounts == \A e \in Entities : ControlExplained(e) /\ AdvanceExplained(e)

LEMMA Terms ==
  ASSUME Inv, NEW e
  PROVE  /\ \A b \in Bills : Kept(e)[b] \in Int
         /\ \A c \in Credits : Left(e)[c] \in Int
         /\ \A p \in Payments : Debited(e)[p] \in Nat /\ Holding(e)[p] \in Nat
<1>1. ASSUME NEW b \in Bills PROVE Kept(e)[b] \in Int
  <2>1. bill[b].credited \in Nat /\ Total[b] \in Nat
    BY BillFields DEF Inv, Shape
  <2> QED
    BY <2>1 DEF Kept
<1>2. ASSUME NEW c \in Credits PROVE Left(e)[c] \in Int
  <2>1. PICK u \in Nat, v \in Nat : u = Total[CreditOf[c]] /\ v = Sum(credited[c], Bills)
    BY CreditSums
  <2>2. u - v \in Int
    OBVIOUS
  <2> QED
    BY <2>1, <2>2 DEF Left
<1>3. \A p \in Payments : payment[p].allocated \in Nat /\ payment[p].unapplied \in Nat
  BY PaymentFields DEF Inv, Shape
<1> QED
  BY <1>1, <1>2, <1>3 DEF Debited, Holding

LEMMA TermSums ==
  ASSUME Inv, NEW e
  PROVE  /\ Sum(Kept(e), Bills) \in Int /\ Sum(Left(e), Credits) \in Int
         /\ Sum(Debited(e), Payments) \in Int /\ Sum(Holding(e), Payments) \in Int
<1>1. PICK k, l, d, h : k = Kept(e) /\ l = Left(e) /\ d = Debited(e) /\ h = Holding(e)
  OBVIOUS
<1>2. /\ \A b \in Bills : k[b] \in Int
      /\ \A c \in Credits : l[c] \in Int
      /\ \A p \in Payments : d[p] \in Int
      /\ \A p \in Payments : h[p] \in Int
  BY <1>1, Terms
<1>3. /\ Sum(k, Bills) \in Int /\ Sum(l, Credits) \in Int
      /\ Sum(d, Payments) \in Int /\ Sum(h, Payments) \in Int
  BY <1>2, SumInt
<1> QED
  BY <1>1, <1>3

(* The account moves with its terms.                                        *)
LEMMA ControlMoves ==
  ASSUME Inv, Accounts, NEW e \in Entities, NEW k \in Int, NEW l \in Int, NEW d \in Int,
         Sum(Kept(e)', Bills) = Sum(Kept(e), Bills) + k,
         Sum(Left(e)', Credits) = Sum(Left(e), Credits) + l,
         Sum(Debited(e)', Payments) = Sum(Debited(e), Payments) + d,
         control'[e] = control[e] + k - l - d
  PROVE  ControlExplained(e)'
<1>1. control[e] = Sum(Kept(e), Bills) - Sum(Left(e), Credits) - Sum(Debited(e), Payments)
  BY DEF Accounts, ControlExplained
<1>2. /\ Sum(Kept(e), Bills) \in Int /\ Sum(Left(e), Credits) \in Int
      /\ Sum(Debited(e), Payments) \in Int
  BY TermSums
<1>3. control'[e] = Sum(Kept(e)', Bills) - Sum(Left(e)', Credits) - Sum(Debited(e)', Payments)
  BY <1>1, <1>2
<1> QED
  BY <1>3 DEF ControlExplained

LEMMA TermStays ==
  ASSUME Inv, NEW e
  PROVE  /\ Kept(e)' = Kept(e) => Sum(Kept(e)', Bills) = Sum(Kept(e), Bills) + 0
         /\ Left(e)' = Left(e) => Sum(Left(e)', Credits) = Sum(Left(e), Credits) + 0
         /\ Debited(e)' = Debited(e) => Sum(Debited(e)', Payments) = Sum(Debited(e), Payments) + 0
<1>1. /\ Sum(Kept(e), Bills) \in Int /\ Sum(Left(e), Credits) \in Int
      /\ Sum(Debited(e), Payments) \in Int
  BY TermSums
<1> QED
  BY <1>1

LEMMA SameTerms ==
  ASSUME Accounts, NEW e \in Entities
  PROVE  /\ Kept(e)' = Kept(e) /\ Left(e)' = Left(e) /\ Debited(e)' = Debited(e)
              /\ control'[e] = control[e] => ControlExplained(e)'
         /\ Holding(e)' = Holding(e) /\ advance'[e] = advance[e] => AdvanceExplained(e)'
<1>1. ControlExplained(e) /\ AdvanceExplained(e)
  BY DEF Accounts
<1>2. ASSUME Kept(e)' = Kept(e), Left(e)' = Left(e), Debited(e)' = Debited(e), control'[e] = control[e]
      PROVE  control'[e] = Sum(Kept(e)', Bills) - Sum(Left(e)', Credits) - Sum(Debited(e)', Payments)
  BY <1>1, <1>2 DEF ControlExplained
<1>3. ASSUME Holding(e)' = Holding(e), advance'[e] = advance[e]
      PROVE  advance'[e] = Sum(Holding(e)', Payments)
  BY <1>1, <1>3 DEF AdvanceExplained
<1> QED
  BY <1>2, <1>3 DEF ControlExplained, AdvanceExplained

LEMMA InitAccounts == Init => Accounts
<1> SUFFICES ASSUME Init, NEW e \in Entities PROVE ControlExplained(e) /\ AdvanceExplained(e)
  BY DEF Accounts
<1>1. PICK k, l, d, h : k = Kept(e) /\ l = Left(e) /\ d = Debited(e) /\ h = Holding(e)
  OBVIOUS
<1>2. \A b \in Bills : k[b] = 0
  BY <1>1 DEF Init, Kept, Posted, Open
<1>3. \A c \in Credits : l[c] = 0
  BY <1>1 DEF Init, Left
<1>4. \A p \in Payments : d[p] = 0 /\ h[p] = 0
  BY <1>1 DEF Init, Debited, Holding
<1>5. /\ \A b \in Bills : k[b] \in Nat
      /\ \A c \in Credits : l[c] \in Nat
      /\ \A p \in Payments : d[p] \in Nat
      /\ \A p \in Payments : h[p] \in Nat
  BY <1>2, <1>3, <1>4
<1>6. Sum(k, Bills) = 0 /\ Sum(l, Credits) = 0 /\ Sum(d, Payments) = 0 /\ Sum(h, Payments) = 0
  BY <1>2, <1>3, <1>4, <1>5, SumNat
<1>7. control[e] = 0 /\ advance[e] = 0
  BY DEF Init
<1> QED
  BY <1>1, <1>6, <1>7 DEF ControlExplained, AdvanceExplained

(* A settled bill was posted, and stays so.                                 *)
LEMMA SettledPosted ==
  ASSUME Inv, NEW D, NEW f \in [D -> Nat], Allocatable(f), NEW column \in {"paid", "credited"},
         bill' = BillsAfter(f, column), NEW b \in Bills
  PROVE  /\ Posted(b)' <=> Posted(b)
         /\ OnBills(f)[b] > 0 => Posted(b)
<1> DEFINE n == OnBills(f)[b]
<1>1. /\ n \in Nat
      /\ n = 0 => bill'[b] = bill[b]
      /\ n > 0 => /\ bill[b].status \in Open
                  /\ bill'[b].status = IF bill[b].due = n THEN "PAID" ELSE "PARTIALLY_PAID"
  BY SettledAmounts
<1> HIDE DEF n
<1>2. CASE n = 0
  BY <1>1, <1>2 DEF Posted, n
<1>3. CASE n > 0
  BY <1>1, <1>3 DEF Posted, Open, n
<1> QED
  BY <1>1, <1>2, <1>3

LEMMA PayKeepsAccounts ==
  ASSUME Inv, Accounts, Inv', NEW p \in Payments, NEW f \in [Documents -> Nat],
         CreatePayment(p, f) \/ AllocatePayment(p, f)
  PROVE  Accounts'
<1> DEFINE n == Sum(f, Documents)
           home == EntityOf[p]
           worth == IF payment[p].status = "none" THEN 0 ELSE payment[p].unapplied
<1>1. /\ n \in Nat /\ Allocatable(f)
      /\ bill' = BillsAfter(f, "paid") /\ credit' = CreditsAfter(f)
      /\ payment'[p].status # "none"
      /\ payment'[p].allocated = payment[p].allocated + n
      /\ \A q \in Payments \ {p} : payment'[q] = payment[q]
      /\ control' = [control EXCEPT ![home] = @ - n]
      /\ credited' = credited
  BY PayEffects
<1>2. advance' = [advance EXCEPT ![home] = @ + payment'[p].unapplied - worth]
  BY PayEffects
<1>3. /\ control \in [Entities -> Int] /\ advance \in [Entities -> Int] /\ home \in Entities
      /\ payment[p].allocated \in Nat
      /\ payment[p].unapplied \in Nat /\ payment'[p].unapplied \in Nat /\ worth \in Nat
  BY PaymentFields DEF Inv, Shape
<1> SUFFICES ASSUME NEW e \in Entities PROVE ControlExplained(e)' /\ AdvanceExplained(e)'
  BY DEF Accounts
<1>4. Kept(e)' = Kept(e)
  <2>1. ASSUME NEW b \in Bills
        PROVE  bill'[b].credited = bill[b].credited /\ (Posted(b)' <=> Posted(b))
    <3>1. bill'[b].credited = bill[b].credited + 0
      BY <1>1, SettledAmounts
    <3>2. bill[b].credited \in Nat
      BY BillFields DEF Inv, Shape
    <3>3. Posted(b)' <=> Posted(b)
      BY <1>1, SettledPosted
    <3> QED
      BY <3>1, <3>2, <3>3
  <2> QED
    BY <2>1 DEF Kept
<1>5. Left(e)' = Left(e)
  <2>1. ASSUME NEW c \in Credits PROVE credit'[c].status = credit[c].status
    <3>1. credit \in [Credits -> Credit] /\ f \in [Documents -> Nat] /\ Allocatable(f) /\ c \in Credits
      BY <1>1 DEF Inv, Shape
    <3>2. CreditsAfter(f)[c].status = credit[c].status
      BY ONLY <3>1, CreditsAfterFields
    <3> QED
      BY <1>1, <3>2
  <2> QED
    BY <1>1, <2>1 DEF Left
<1> DEFINE k == IF home = e THEN n ELSE 0
           m == IF home = e THEN payment'[p].unapplied - worth ELSE 0
<1>6. Sum(Debited(e)', Payments) = Sum(Debited(e), Payments) + k
  <2> DEFINE before == Debited(e)
             after == Debited(e)'
  <2>1. \A q \in Payments : before[q] \in Int
    BY Terms
  <2>2. after[p] = before[p] + k
    BY <1>1, <1>3 DEF Debited
  <2>3. \A q \in Payments \ {p} : after[q] = before[q]
    BY <1>1 DEF Debited
  <2>4. k \in Int /\ IsFiniteSet(Payments) /\ p \in Payments
    BY <1>1
  <2> HIDE DEF before, after, k
  <2>5. \A q \in Payments : before[q] \in Int /\ after[q] = before[q] + (IF q = p THEN k ELSE 0)
    BY <2>1, <2>2, <2>3
  <2>6. Sum(after, Payments) = Sum(before, Payments) + k
    <3>1. Moves(before, after, Payments, p, k)
      BY ONLY <2>4, <2>5 DEF Moves
    <3> QED
      BY ONLY <3>1, SumMoves, Zenon
  <2> QED
    BY <2>6 DEF before, after
<1>7. Sum(Holding(e)', Payments) = Sum(Holding(e), Payments) + m /\ Sum(Holding(e), Payments) \in Int
  <2> DEFINE before == Holding(e)
             after == Holding(e)'
  <2>1. \A q \in Payments : before[q] \in Int
    BY Terms
  <2>2. after[p] = before[p] + m
    <3>1. /\ before[p] = (IF home = e THEN worth ELSE 0)
          /\ after[p] = (IF home = e THEN payment'[p].unapplied ELSE 0)
      BY <1>1 DEF Holding
    <3> HIDE DEF before, after, worth
    <3> QED
      BY <1>3, <3>1
  <2>3. \A q \in Payments \ {p} : after[q] = before[q]
    BY <1>1 DEF Holding
  <2>4. m \in Int /\ IsFiniteSet(Payments) /\ p \in Payments
    <3> HIDE DEF worth
    <3> QED
      BY <1>3
  <2> HIDE DEF before, after, m
  <2>5. \A q \in Payments : before[q] \in Int /\ after[q] = before[q] + (IF q = p THEN m ELSE 0)
    BY <2>1, <2>2, <2>3
  <2>6. Sum(after, Payments) = Sum(before, Payments) + m /\ Sum(before, Payments) \in Int
    <3>1. Moves(before, after, Payments, p, m)
      BY ONLY <2>4, <2>5 DEF Moves
    <3> QED
      BY ONLY <3>1, SumMoves, Zenon
  <2> QED
    BY <2>6 DEF before, after
<1>8. control'[e] = control[e] + 0 - 0 - k /\ advance'[e] = advance[e] + m
  <2> HIDE DEF n, worth
  <2>1. control[e] \in Int /\ advance[e] \in Int
    BY <1>3
  <2>2. CASE home = e
    BY <1>1, <1>2, <1>3, <2>1, <2>2
  <2>3. CASE home # e
    BY <1>1, <1>2, <1>3, <2>1, <2>3
  <2> QED
    BY <2>2, <2>3
<1>9. k \in Int
  BY <1>1
<1> HIDE DEF n, home, worth, k, m
<1>10. ControlExplained(e)'
  <2>1. /\ Sum(Kept(e)', Bills) = Sum(Kept(e), Bills) + 0
        /\ Sum(Left(e)', Credits) = Sum(Left(e), Credits) + 0
    BY <1>4, <1>5, TermStays
  <2> QED
    BY <1>6, <1>8, <1>9, <2>1, ControlMoves
<1>11. advance'[e] = Sum(Holding(e)', Payments)
  BY <1>7, <1>8 DEF Accounts, AdvanceExplained
<1> QED
  BY <1>10, <1>11 DEF AdvanceExplained

LEMMA ApplyKeepsAccounts ==
  ASSUME Inv, Accounts, Inv', NEW c \in Credits, NEW f \in [Bills -> Nat], ApplyVendorCredit(c, f)
  PROVE  Accounts'
<1> DEFINE n == Sum(f, Bills)
           home == CreditEntity(c)
<1>1. /\ n \in Nat /\ Allocatable(f) /\ bill' = BillsAfter(f, "credited")
      /\ credit[c].status = "POSTED" /\ credit'[c].status = "POSTED"
      /\ \A b \in Bills : f[b] > 0 => EntityOf[b] = home
      /\ credited' = [credited EXCEPT ![c] = [b \in Bills |-> @[b] + f[b]]]
      /\ \A d \in Credits \ {c} : credit'[d] = credit[d]
      /\ UNCHANGED <<payment, control, advance>>
  BY ApplyEffects
<1>2. /\ credited \in [Credits -> [Bills -> Nat]]
      /\ \A d \in Credits \ {c} : credited'[d] = credited[d]
      /\ credited'[c] = [b \in Bills |-> credited[c][b] + f[b]]
  BY <1>1 DEF Inv, Shape
<1> SUFFICES ASSUME NEW e \in Entities PROVE ControlExplained(e)' /\ AdvanceExplained(e)'
  BY DEF Accounts
<1>3. PICK k \in Int : k = IF home = e THEN 0 - n ELSE 0
  BY <1>1
<1>4. Sum(Kept(e)', Bills) = Sum(Kept(e), Bills) + k
  <2> DEFINE before == Kept(e)
             after == Kept(e)'
             part == [b \in Bills |-> IF home = e THEN f[b] ELSE 0]
  <2>1. ASSUME NEW b \in Bills
        PROVE  before[b] \in Int /\ after[b] \in Int /\ part[b] \in Int /\ before[b] = after[b] + part[b]
    <3>1. /\ OnBills(f)[b] = f[b] /\ f[b] \in Nat /\ bill'[b].credited = bill[b].credited + f[b]
          /\ bill[b].credited \in Nat /\ Total[b] \in Nat
      <4>1. OnBills(f)[b] = f[b] /\ f[b] \in Nat
        BY DEF OnBills
      <4>2. Inv /\ f \in [Bills -> Nat] /\ Allocatable(f) /\ b \in Bills /\ bill' = BillsAfter(f, "credited")
        BY <1>1
      <4>3. bill'[b].credited = bill[b].credited + OnBills(f)[b]
        BY ONLY <4>2, SettledAmounts
      <4>4. bill[b].credited \in Nat
        BY BillFields DEF Inv, Shape
      <4> QED
        BY <4>1, <4>3, <4>4
    <3>2. (Posted(b)' <=> Posted(b)) /\ (f[b] > 0 => Posted(b))
      BY <1>1, <3>1, SettledPosted
    <3>3. /\ before[b] = (IF EntityOf[b] = e /\ Posted(b) THEN Total[b] - bill[b].credited ELSE 0)
          /\ after[b] = (IF EntityOf[b] = e /\ Posted(b) THEN Total[b] - bill'[b].credited ELSE 0)
          /\ part[b] = IF home = e THEN f[b] ELSE 0
      BY <3>2 DEF Kept
    <3> HIDE DEF before, after, part, home
    <3>4. CASE f[b] = 0
      BY <3>1, <3>3, <3>4
    <3>5. CASE f[b] > 0
      <4>1. EntityOf[b] = home /\ Posted(b)
        BY <1>1, <3>2, <3>5
      <4> QED
        BY <3>1, <3>3, <4>1
    <3> QED
      BY <3>1, <3>4, <3>5
  <2>2. Sum(part, Bills) = 0 - k
    <3>1. CASE home = e
      <4>1. \A b \in Bills : part[b] = f[b]
        BY <3>1
      <4> HIDE DEF part, n, home
      <4>2. Sum(part, Bills) = Sum(f, Bills)
        BY <4>1, SumAgrees
      <4> QED
        BY <1>1, <1>3, <3>1, <4>2 DEF n
    <3>2. CASE home # e
      <4>1. \A b \in Bills : part[b] \in Nat /\ part[b] = 0
        BY <3>2
      <4> HIDE DEF part, n, home
      <4>2. Sum(part, Bills) = 0
        BY <4>1, SumNat
      <4> QED
        BY <1>3, <3>2, <4>2
    <3> QED
      BY <3>1, <3>2
  <2> HIDE DEF before, after, part
  <2>3. /\ \A b \in Bills : after[b] \in Int /\ part[b] \in Int /\ before[b] = after[b] + part[b]
        /\ \A b \in Bills : after[b] \in Int
        /\ IsFiniteSet(Bills)
    BY <2>1
  <2>4. Sum(before, Bills) = Sum(after, Bills) + Sum(part, Bills)
    <3>1. Adds(before, after, part, Bills)
      BY ONLY <2>3 DEF Adds
    <3> QED
      BY ONLY <3>1, SumAdds, Zenon
  <2>5. Sum(after, Bills) \in Int
    BY ONLY <2>3, SumInt
  <2>6. Sum(after, Bills) = Sum(before, Bills) + k
    BY <2>2, <2>4, <2>5
  <2> QED
    BY <2>6 DEF before, after
<1>5. Sum(Left(e)', Credits) = Sum(Left(e), Credits) + k
  <2> DEFINE before == Left(e)
             after == Left(e)'
  <2>1. \A d \in Credits : before[d] \in Int
    BY Terms
  <2>2. \A d \in Credits \ {c} : after[d] = before[d]
    BY <1>1, <1>2 DEF Left
  <2>3. after[c] = before[c] + k
    <3>1. PICK now, old : now = credited'[c] /\ old = credited[c]
      OBVIOUS
    <3>2. \A b \in Bills : old[b] \in Int /\ f[b] \in Int /\ now[b] = old[b] + f[b]
      BY <1>2, <3>1
    <3>3. Sum(now, Bills) = Sum(old, Bills) + Sum(f, Bills)
      <4>1. Adds(now, old, f, Bills)
        BY <3>2 DEF Adds
      <4> QED
        BY ONLY <4>1, SumAdds, Zenon
    <3>4. PICK worth \in Nat : worth = Total[CreditOf[c]]
      BY CreditSums
    <3>5. Sum(old, Bills) \in Nat
      BY <3>1, CreditSums
    <3>6. /\ before[c] = (IF home = e THEN worth - Sum(old, Bills) ELSE 0)
          /\ after[c] = (IF home = e THEN worth - Sum(now, Bills) ELSE 0)
      BY <1>1, <3>1, <3>4 DEF Left
    <3> HIDE DEF before, after, home, n
    <3> QED
      BY <1>1, <1>3, <3>3, <3>5, <3>6 DEF n
  <2> HIDE DEF before, after
  <2>4. /\ \A d \in Credits : before[d] \in Int /\ after[d] = before[d] + (IF d = c THEN k ELSE 0)
        /\ k \in Int /\ IsFiniteSet(Credits) /\ c \in Credits
    BY <2>1, <2>2, <2>3
  <2>5. Sum(after, Credits) = Sum(before, Credits) + k
    <3>1. Moves(before, after, Credits, c, k)
      BY ONLY <2>4 DEF Moves
    <3> QED
      BY ONLY <3>1, SumMoves, Zenon
  <2> QED
    BY <2>5 DEF before, after
<1>6. Debited(e)' = Debited(e) /\ Holding(e)' = Holding(e)
  BY <1>1 DEF Debited, Holding
<1> HIDE DEF n, home
<1>7. control'[e] = control[e] + k - k - 0
  <2>1. control[e] \in Int
    BY DEF Inv, Shape
  <2> QED
    BY <1>1, <2>1
<1>8. Sum(Debited(e)', Payments) = Sum(Debited(e), Payments) + 0
  BY <1>6, TermStays
<1>9. ControlExplained(e)'
  BY <1>4, <1>5, <1>7, <1>8, ControlMoves
<1>10. AdvanceExplained(e)'
  BY <1>1, <1>6, SameTerms
<1> QED
  BY <1>9, <1>10

(* A bill is posted with all of it owed.                                    *)
LEMMA PostKeepsAccounts ==
  ASSUME Inv, Accounts, Inv', NEW x \in Bills, PostBill(x)
  PROVE  Accounts'
<1> DEFINE home == EntityOf[x]
<1>1. /\ bill[x].status \in {"DRAFT", "APPROVED"}
      /\ bill' = [bill EXCEPT ![x].status = "POSTED"]
      /\ control' = [control EXCEPT ![home] = @ + Total[x]]
      /\ UNCHANGED <<payment, credit, credited, advance>>
  BY DEF PostBill
<1>2. bill \in [Bills -> Bill] /\ control \in [Entities -> Int]
  BY DEF Inv, Shape
<1>3. home \in Entities /\ Total[x] \in Nat \ {0}
  <2>1. home \in Entities
    OBVIOUS
  <2>2. Total[x] \in Nat \ {0}
    OBVIOUS
  <2> QED
    BY <2>1, <2>2
<1>4. /\ bill'[x].status = "POSTED" /\ bill'[x].credited = bill[x].credited
      /\ \A b \in Bills \ {x} : bill'[b] = bill[b]
  BY <1>1, <1>2 DEF Bill
<1>5. bill[x].credited = 0
  <2> DEFINE row == bill[x]
             total == Total[x]
  <2>1. Consistent(row, total) /\ row.status \in {"DRAFT", "APPROVED"}
    BY <1>1 DEF Inv, Columns
  <2>2. row.paid \in Nat /\ row.credited \in Nat /\ row.due \in Nat /\ total \in Nat \ {0}
    BY <1>2, <1>3, BillFields
  <2> HIDE DEF row, total
  <2>3. row.due # 0 /\ row.due \notin 1..total - 1 /\ row.due = total - row.paid - row.credited
    BY <2>1 DEF Consistent
  <2>4. row.credited = 0
    BY <2>2, <2>3
  <2> QED
    BY <2>4 DEF row
<1> SUFFICES ASSUME NEW e \in Entities PROVE ControlExplained(e)' /\ AdvanceExplained(e)'
  BY DEF Accounts
<1>6. PICK k \in Int : k = IF home = e THEN Total[x] ELSE 0
  BY <1>3
<1>7. Left(e)' = Left(e) /\ Debited(e)' = Debited(e) /\ Holding(e)' = Holding(e)
  BY <1>1 DEF Left, Debited, Holding
<1>8. Sum(Kept(e)', Bills) = Sum(Kept(e), Bills) + k
  <2> DEFINE before == Kept(e)
             after == Kept(e)'
  <2>1. \A b \in Bills : before[b] \in Int
    BY Terms
  <2>2. \A b \in Bills \ {x} : after[b] = before[b]
    BY <1>4 DEF Kept, Posted
  <2>3. before[x] = 0 /\ after[x] = (IF home = e THEN Total[x] - 0 ELSE 0)
    BY <1>1, <1>4, <1>5 DEF Kept, Posted, Open
  <2>4. after[x] = before[x] + k
    BY <1>3, <1>6, <2>3
  <2> HIDE DEF before, after
  <2>5. Moves(before, after, Bills, x, k)
    BY <1>6, <2>1, <2>2, <2>4 DEF Moves
  <2>6. Sum(after, Bills) = Sum(before, Bills) + k
    BY ONLY <2>5, SumMoves, Zenon
  <2> QED
    BY <2>6 DEF before, after
<1>9. control'[e] = control[e] + k - 0 - 0
  <2> HIDE DEF home
  <2>1. control[e] \in Int
    BY <1>2
  <2>2. CASE home = e
    BY <1>1, <1>2, <1>3, <1>6, <2>1, <2>2
  <2>3. CASE home # e
    BY <1>1, <1>2, <1>3, <1>6, <2>1, <2>3
  <2> QED
    BY <2>2, <2>3
<1>10. /\ Sum(Left(e)', Credits) = Sum(Left(e), Credits) + 0
       /\ Sum(Debited(e)', Payments) = Sum(Debited(e), Payments) + 0
  BY <1>7, TermStays
<1> HIDE DEF home
<1>11. ControlExplained(e)'
  BY <1>8, <1>9, <1>10, ControlMoves
<1>12. AdvanceExplained(e)'
  BY <1>1, <1>7, SameTerms
<1> QED
  BY <1>11, <1>12

(* A posted credit takes its whole worth from the account at once.          *)
LEMMA CreditKeepsAccounts ==
  ASSUME Inv, Accounts, Inv', CreditRows, NEW c \in Credits,
         CreateVendorCredit(c) \/ PostVendorCredit(c)
  PROVE  Accounts'
<1> DEFINE home == CreditEntity(c)
<1>1. /\ credit[c].status # "POSTED"
      /\ credit'[c].status = (IF CreateVendorCredit(c) THEN "DRAFT" ELSE "POSTED")
      /\ \A d \in Credits \ {c} : credit'[d] = credit[d]
  BY CreditStep
<1>2. /\ CreateVendorCredit(c) <=> ~PostVendorCredit(c)
      /\ control' = (IF PostVendorCredit(c) THEN [control EXCEPT ![home] = @ - Total[CreditOf[c]]] ELSE control)
      /\ UNCHANGED <<bill, payment, credited, advance>>
  BY DEF CreateVendorCredit, PostVendorCredit
<1>3. PICK worth \in Nat : worth = Total[CreditOf[c]]
  BY CreditSums
<1>4. control \in [Entities -> Int] /\ home \in Entities
  BY CreditSums DEF Inv, Shape
<1>5. Sum(credited[c], Bills) = 0
  <2>1. credit[c].applied = 0 /\ credit[c].applied = Sum(credited[c], Bills) + PaidTo(c)
    BY <1>1 DEF Inv, Columns, CreditRows
  <2>2. Sum(credited[c], Bills) \in Nat /\ PaidTo(c) \in Nat
    BY CreditSums
  <2> QED
    BY <2>1, <2>2
<1> SUFFICES ASSUME NEW e \in Entities PROVE ControlExplained(e)' /\ AdvanceExplained(e)'
  BY DEF Accounts
<1>6. PICK l \in Int : l = IF home = e /\ PostVendorCredit(c) THEN worth ELSE 0
  OBVIOUS
<1>7. Kept(e)' = Kept(e) /\ Debited(e)' = Debited(e) /\ Holding(e)' = Holding(e)
  BY <1>2 DEF Kept, Posted, Debited, Holding
<1>8. Sum(Left(e)', Credits) = Sum(Left(e), Credits) + l
  <2> DEFINE before == Left(e)
             after == Left(e)'
  <2>1. \A d \in Credits : before[d] \in Int
    BY Terms
  <2>2. \A d \in Credits \ {c} : after[d] = before[d]
    BY <1>1, <1>2 DEF Left
  <2>3. before[c] = 0 /\ after[c] = (IF home = e /\ credit'[c].status = "POSTED" THEN worth - 0 ELSE 0)
    BY <1>1, <1>2, <1>3, <1>5 DEF Left
  <2>4. credit'[c].status = "POSTED" <=> PostVendorCredit(c)
    BY <1>1, <1>2
  <2> HIDE DEF before, after, home
  <2>5. after[c] = before[c] + l
    BY <1>6, <2>3, <2>4
  <2>6. Moves(before, after, Credits, c, l)
    BY <1>6, <2>1, <2>2, <2>5 DEF Moves
  <2>7. Sum(after, Credits) = Sum(before, Credits) + l
    BY ONLY <2>6, SumMoves, Zenon
  <2> QED
    BY <2>7 DEF before, after
<1>9. control'[e] = control[e] + 0 - l - 0
  <2> HIDE DEF home
  <2>1. control[e] \in Int
    BY <1>4
  <2>2. CASE PostVendorCredit(c)
    <3>1. control' = [control EXCEPT ![home] = @ - worth]
      BY <1>2, <1>3, <2>2
    <3>2. CASE home = e
      BY <1>4, <1>6, <2>1, <2>2, <3>1, <3>2
    <3>3. CASE home # e
      BY <1>4, <1>6, <2>1, <3>1, <3>3
    <3> QED
      BY <3>2, <3>3
  <2>3. CASE ~PostVendorCredit(c)
    BY <1>2, <1>6, <2>1, <2>3
  <2> QED
    BY <2>2, <2>3
<1>10. /\ Sum(Kept(e)', Bills) = Sum(Kept(e), Bills) + 0
       /\ Sum(Debited(e)', Payments) = Sum(Debited(e), Payments) + 0
  BY <1>7, TermStays
<1> HIDE DEF home
<1>11. ControlExplained(e)'
  BY <1>8, <1>9, <1>10, ControlMoves
<1>12. AdvanceExplained(e)'
  BY <1>2, <1>7, SameTerms
<1> QED
  BY <1>11, <1>12

(* Approval, matching and holds neither post a bill nor settle it.          *)
LEMMA PostedStays ==
  ASSUME Inv,
         \/ \E b \in Bills : MatchBill(b) \/ ApproveVendorBill(b)
         \/ \E h \in Holds : ReleaseHold(h)
         \/ \E h \in Holds, scope \in Bills \cup Vendors : PlaceHold(h, scope)
  PROVE  /\ \A x \in Bills : bill'[x].credited = bill[x].credited /\ (Posted(x)' <=> Posted(x))
         /\ UNCHANGED <<payment, credit, credited, control, advance>>
<1>1. bill \in [Bills -> Bill]
  BY DEF Inv, Shape
<1>2. CASE \E b \in Bills : MatchBill(b) \/ ApproveVendorBill(b)
  BY <1>1, <1>2 DEF MatchBill, ApproveVendorBill, Posted, Open, Bill
<1>3. CASE \E h \in Holds : ReleaseHold(h)
  BY <1>1, <1>3 DEF ReleaseHold, Posted, Bill
<1>4. CASE \E h \in Holds, scope \in Bills \cup Vendors : PlaceHold(h, scope)
  BY <1>1, <1>4 DEF PlaceHold, Posted, Bill
<1> QED
  BY <1>2, <1>3, <1>4, Zenon

LEMMA AccountsStep == Inv /\ Inv' /\ CreditRows /\ Accounts /\ [Next]_vars => Accounts'
<1> SUFFICES ASSUME Inv, Inv', CreditRows, Accounts, [Next]_vars PROVE Accounts'
  OBVIOUS
<1>0. ASSUME UNCHANGED <<credit, credited, control, advance>>,
             \A b \in Bills : bill'[b].credited = bill[b].credited /\ (Posted(b)' <=> Posted(b)),
             \A p \in Payments : /\ payment'[p].allocated = payment[p].allocated
                                 /\ payment'[p].unapplied = payment[p].unapplied
                                 /\ payment'[p].status # "none" <=> payment[p].status # "none"
      PROVE  Accounts'
  <2> SUFFICES ASSUME NEW e \in Entities PROVE ControlExplained(e)' /\ AdvanceExplained(e)'
    BY DEF Accounts
  <2>1. Kept(e)' = Kept(e)
    BY <1>0 DEF Kept
  <2>2. Left(e)' = Left(e)
    BY <1>0 DEF Left
  <2>3. Debited(e)' = Debited(e)
    BY <1>0 DEF Debited
  <2>4. Holding(e)' = Holding(e)
    BY <1>0 DEF Holding
  <2> QED
    BY <1>0, <2>1, <2>2, <2>3, <2>4, SameTerms
<1>1. CASE \/ \E b \in Bills : MatchBill(b) \/ ApproveVendorBill(b)
           \/ \E h \in Holds : ReleaseHold(h)
           \/ \E h \in Holds, scope \in Bills \cup Vendors : PlaceHold(h, scope)
  BY <1>0, <1>1, PostedStays
<1>2. ASSUME NEW p \in Payments, ConfirmPayment(p) PROVE Accounts'
  <2>1. payment \in [Payments -> Payment] /\ UNCHANGED <<bill, credit, credited, control, advance>>
    BY <1>2 DEF Inv, Shape, ConfirmPayment
  <2>2. \A q \in Payments : /\ payment'[q].allocated = payment[q].allocated
                            /\ payment'[q].unapplied = payment[q].unapplied
                            /\ payment'[q].status # "none" <=> payment[q].status # "none"
    <3> DEFINE row == payment[p]
               new == [row EXCEPT !.status = "CONFIRMED"]
    <3>1. payment' = [payment EXCEPT ![p] = new] /\ row.status = "POSTED" /\ row \in Payment
      BY <1>2, <2>1 DEF ConfirmPayment
    <3>2. new.status = "CONFIRMED" /\ new.unapplied = row.unapplied /\ new.allocated = row.allocated
      <4> HIDE DEF row
      <4> QED
        BY <3>1 DEF Payment
    <3> HIDE DEF new
    <3>3. \A q \in Payments : payment'[q] = IF q = p THEN new ELSE payment[q]
      BY <2>1, <3>1
    <3> QED
      BY <3>1, <3>2, <3>3
  <2>3. \A b \in Bills : bill'[b].credited = bill[b].credited /\ (Posted(b)' <=> Posted(b))
    BY <2>1 DEF Posted
  <2> QED
    BY <1>0, <2>1, <2>2, <2>3
<1>3. CASE \/ \E p \in Payments : FailPayment(p)
           \/ \E r \in Runs, e \in Entities : CreatePaymentRun(r, e)
           \/ UNCHANGED vars
  <2>1. UNCHANGED <<bill, payment, credit, credited, control, advance>>
    BY <1>3, RestStep, Zenon
  <2>2. \A b \in Bills : bill'[b].credited = bill[b].credited /\ (Posted(b)' <=> Posted(b))
    BY <2>1 DEF Posted
  <2> QED
    BY <1>0, <2>1, <2>2
<1>4. ASSUME NEW b \in Bills, PostBill(b) PROVE Accounts'
  BY <1>4, PostKeepsAccounts
<1>5. ASSUME NEW p \in Payments, NEW f \in [Documents -> Nat], CreatePayment(p, f) \/ AllocatePayment(p, f)
      PROVE  Accounts'
  BY <1>5, PayKeepsAccounts
<1>6. ASSUME NEW c \in Credits, CreateVendorCredit(c) \/ PostVendorCredit(c) PROVE Accounts'
  BY <1>6, CreditKeepsAccounts
<1>7. ASSUME NEW c \in Credits, NEW f \in [Bills -> Nat], ApplyVendorCredit(c, f) PROVE Accounts'
  BY <1>7, ApplyKeepsAccounts
<1> QED
  BY <1>1, <1>2, <1>3, <1>4, <1>5, <1>6, <1>7, NextCases, Zenon
-----------------------------------------------------------------------------
(* What is open of the bills and credits, and what payments have put on     *)
(* them, by entity.                                                         *)
Owing(e) == [b \in Bills |-> IF EntityOf[b] = e /\ bill[b].status \in Open THEN bill[b].due ELSE 0]
Giving(e) == [c \in Credits |-> IF CreditEntity(c) = e /\ credit[c].status = "POSTED"
                                THEN credit[c].available ELSE 0]
PaidBills(e) == [b \in Bills |-> IF EntityOf[b] = e THEN PaidTo(b) ELSE 0]
PaidCredits(e) == [c \in Credits |-> IF CreditEntity(c) = e THEN PaidTo(c) ELSE 0]

(* What a bill has kept in the account is what it is still owed and what    *)
(* payments have given it.                                                  *)
LEMMA KeptIsOwing ==
  ASSUME Inv, Rows, NEW e
  PROVE  Adds(Kept(e), Owing(e), PaidBills(e), Bills)
<1>1. ASSUME NEW b \in Bills
      PROVE  /\ Owing(e)[b] \in Int /\ PaidBills(e)[b] \in Int
             /\ Kept(e)[b] = Owing(e)[b] + PaidBills(e)[b]
  <2> DEFINE row == bill[b]
             total == Total[b]
             given == PaidTo(b)
  <2>1. /\ row \in Bill /\ Consistent(row, total) /\ row.paid = given
        /\ (Posted(b) <=> row.status \in {"POSTED", "PARTIALLY_PAID", "PAID"})
    BY DEF Inv, Shape, Columns, Rows, PaidRows, PaidTo, Posted, Open
  <2>2. total \in Nat \ {0}
    OBVIOUS
  <2>3. /\ Owing(e)[b] = (IF EntityOf[b] = e /\ row.status \in Open THEN row.due ELSE 0)
        /\ PaidBills(e)[b] = (IF EntityOf[b] = e THEN given ELSE 0)
        /\ Kept(e)[b] = (IF EntityOf[b] = e /\ Posted(b) THEN total - row.credited ELSE 0)
    BY DEF Owing, PaidBills, Kept
  <2> HIDE DEF row, total, given
  <2>4. row.paid \in Nat /\ row.credited \in Nat /\ row.due \in Nat
        /\ row.status \in {"DRAFT", "APPROVED", "POSTED", "PARTIALLY_PAID", "PAID"}
    BY <2>1, BillFields
  <2>5. row.due = total - row.paid - row.credited /\ (row.status = "PAID" <=> row.due = 0)
    BY <2>1 DEF Consistent
  <2>6. row.status \in {"DRAFT", "APPROVED"} => row.paid = 0
    <3>1. ASSUME row.status \in {"DRAFT", "APPROVED"} PROVE row.due # 0 /\ row.due \notin 1..total - 1
      BY <2>1, <3>1 DEF Consistent
    <3> QED
      BY <2>2, <2>4, <2>5, <3>1
  <2>7. row.status \in Open <=> row.status \in {"POSTED", "PARTIALLY_PAID"}
    BY DEF Open
  <2>8. CASE EntityOf[b] = e
    BY <2>1, <2>2, <2>3, <2>4, <2>5, <2>6, <2>7, <2>8
  <2>9. CASE EntityOf[b] # e
    BY <2>3, <2>9
  <2> QED
    BY <2>8, <2>9
<1> QED
  BY <1>1 DEF Adds

(* A credit may be applied to bills, and payments allocated to it.          *)
LEMMA LeftIsGiving ==
  ASSUME Inv, CreditRows, NEW e
  PROVE  Adds(Left(e), Giving(e), PaidCredits(e), Credits)
<1>1. ASSUME NEW c \in Credits
      PROVE  /\ Giving(e)[c] \in Int /\ PaidCredits(e)[c] \in Int
             /\ Left(e)[c] = Giving(e)[c] + PaidCredits(e)[c]
  <2> DEFINE row == credit[c]
             total == Total[CreditOf[c]]
             given == PaidTo(c)
             used == Sum(credited[c], Bills)
  <2>1. /\ row \in Credit /\ row.applied = used + given /\ row.available = total - row.applied
        /\ row.status # "POSTED" => row.applied = 0
    BY DEF Inv, Shape, Columns, CreditRows
  <2>2. total \in Nat /\ given \in Nat /\ used \in Nat
    BY CreditSums
  <2>3. /\ Giving(e)[c] = (IF CreditEntity(c) = e /\ row.status = "POSTED" THEN row.available ELSE 0)
        /\ PaidCredits(e)[c] = (IF CreditEntity(c) = e THEN given ELSE 0)
        /\ Left(e)[c] = (IF CreditEntity(c) = e /\ row.status = "POSTED" THEN total - used ELSE 0)
    BY DEF Giving, PaidCredits, Left
  <2> HIDE DEF row, total, given, used
  <2>4. row.applied \in Nat /\ row.available \in Nat
    BY <2>1, CreditFields
  <2>5. CASE CreditEntity(c) = e
    BY <2>1, <2>2, <2>3, <2>4, <2>5
  <2>6. CASE CreditEntity(c) # e
    BY <2>3, <2>6
  <2> QED
    BY <2>5, <2>6
<1> QED
  BY <1>1 DEF Adds

(* The sums over the documents of an entity are sums over all.              *)
LEMMA AgingIsOwing ==
  ASSUME Inv, NEW e
  PROVE  /\ Aging(e) = Sum(Owing(e), Bills)
         /\ LET left == {c \in Credits : CreditEntity(c) = e /\ credit[c].status = "POSTED"}
            IN Sum([c \in left |-> credit[c].available], left) = Sum(Giving(e), Credits)
         /\ LET made == {p \in Payments : EntityOf[p] = e /\ payment[p].status # "none"}
            IN Sum([p \in made |-> payment[p].unapplied], made) = Sum(Holding(e), Payments)
<1>1. /\ \A b \in Bills : bill[b].due \in Nat
      /\ \A c \in Credits : credit[c].available \in Nat
  BY BillFields, CreditFields DEF Inv, Shape
<1>2. PICK o, g, h : o = Owing(e) /\ g = Giving(e) /\ h = Holding(e)
  OBVIOUS
<1>3. /\ \A b \in Bills : o[b] \in Int
      /\ \A c \in Credits : g[c] \in Int
      /\ \A p \in Payments : h[p] \in Int
  BY <1>1, <1>2, Terms DEF Owing, Giving
<1>4. Aging(e) = Sum(o, Bills)
  <2>1. PICK open : open = {b \in Bills : EntityOf[b] = e /\ bill[b].status \in Open}
    OBVIOUS
  <2>2. PICK dues : dues = [b \in open |-> bill[b].due]
    OBVIOUS
  <2>3. open \in SUBSET Bills /\ (\A b \in open : dues[b] = o[b]) /\ \A b \in Bills \ open : o[b] = 0
    BY <1>2, <2>1, <2>2 DEF Owing
  <2>4. Aging(e) = Sum(dues, open)
    BY <2>1, <2>2, Zenon DEF Aging
  <2>5. IsPart(dues, open, o, Bills)
    BY <1>3, <2>3 DEF IsPart
  <2>6. Sum(dues, open) = Sum(o, Bills)
    BY <2>5, SumOfSome
  <2> QED
    BY <2>4, <2>6
<1>5. ASSUME NEW left, left = {c \in Credits : CreditEntity(c) = e /\ credit[c].status = "POSTED"}
      PROVE  Sum([c \in left |-> credit[c].available], left) = Sum(g, Credits)
  <2>1. PICK rests : rests = [c \in left |-> credit[c].available]
    OBVIOUS
  <2>2. left \in SUBSET Credits /\ (\A c \in left : rests[c] = g[c]) /\ \A c \in Credits \ left : g[c] = 0
    BY <1>2, <1>5, <2>1 DEF Giving
  <2>3. IsPart(rests, left, g, Credits)
    BY <1>3, <2>2 DEF IsPart
  <2>4. Sum(rests, left) = Sum(g, Credits)
    BY <2>3, SumOfSome
  <2> QED
    BY <2>1, <2>4
<1>6. ASSUME NEW made, made = {p \in Payments : EntityOf[p] = e /\ payment[p].status # "none"}
      PROVE  Sum([p \in made |-> payment[p].unapplied], made) = Sum(h, Payments)
  <2>1. PICK spare : spare = [p \in made |-> payment[p].unapplied]
    OBVIOUS
  <2>2. made \in SUBSET Payments /\ (\A p \in made : spare[p] = h[p]) /\ \A p \in Payments \ made : h[p] = 0
    BY <1>2, <1>6, <2>1 DEF Holding
  <2>3. IsPart(spare, made, h, Payments)
    BY <1>3, <2>2 DEF IsPart
  <2>4. Sum(spare, made) = Sum(h, Payments)
    BY <2>3, SumOfSome
  <2> QED
    BY <2>1, <2>4
<1> QED
  BY <1>2, <1>4, <1>5, <1>6, Zenon

LEMMA MisplacedIs ==
  ASSUME Inv, PaymentRows, NEW e
  PROVE  Misplaced(e) = Sum(PaidBills(e), Bills) - Sum(PaidCredits(e), Credits) - Sum(Debited(e), Payments)
<1>1. PICK o, g, h : o = PaidBills(e) /\ g = PaidCredits(e) /\ h = Debited(e)
  OBVIOUS
<1>2. /\ \A b \in Bills : o[b] \in Int
      /\ \A c \in Credits : g[c] \in Int
      /\ \A p \in Payments : h[p] \in Int
  <2>1. (\A b \in Bills : PaidTo(b) \in Nat) /\ \A c \in Credits : PaidTo(c) \in Nat
    BY PaidToIsNat DEF Documents
  <2>2. \A p \in Payments : h[p] \in Nat
    BY <1>1, Terms
  <2> QED
    BY <1>1, <2>1, <2>2 DEF PaidBills, PaidCredits
<1>3. ASSUME NEW bills, bills = {b \in Bills : EntityOf[b] = e}
      PROVE  Sum([b \in bills |-> PaidTo(b)], bills) = Sum(o, Bills)
  <2>1. PICK f : f = [b \in bills |-> PaidTo(b)]
    OBVIOUS
  <2>2. bills \in SUBSET Bills /\ (\A b \in bills : f[b] = o[b]) /\ \A b \in Bills \ bills : o[b] = 0
    BY <1>1, <1>3, <2>1 DEF PaidBills
  <2>3. IsPart(f, bills, o, Bills)
    BY <1>2, <2>2 DEF IsPart
  <2>4. Sum(f, bills) = Sum(o, Bills)
    BY <2>3, SumOfSome
  <2> QED
    BY <2>1, <2>4
<1>4. ASSUME NEW credits, credits = {c \in Credits : CreditEntity(c) = e}
      PROVE  Sum([c \in credits |-> PaidTo(c)], credits) = Sum(g, Credits)
  <2>1. PICK f : f = [c \in credits |-> PaidTo(c)]
    OBVIOUS
  <2>2. credits \in SUBSET Credits /\ (\A c \in credits : f[c] = g[c]) /\ \A c \in Credits \ credits : g[c] = 0
    BY <1>1, <1>4, <2>1 DEF PaidCredits
  <2>3. IsPart(f, credits, g, Credits)
    BY <1>2, <2>2 DEF IsPart
  <2>4. Sum(f, credits) = Sum(g, Credits)
    BY <2>3, SumOfSome
  <2> QED
    BY <2>1, <2>4
<1>5. ASSUME NEW payments, payments = {p \in Payments : EntityOf[p] = e}
      PROVE  Sum([p \in payments |-> Sum(paid[p], Documents)], payments) = Sum(h, Payments)
  <2>1. PICK f : f = [p \in payments |-> Sum(paid[p], Documents)]
    OBVIOUS
  <2>2. payments \in SUBSET Payments /\ (\A p \in payments : f[p] = h[p])
        /\ \A p \in Payments \ payments : h[p] = 0
    BY <1>1, <1>5, <2>1 DEF Debited, PaymentRows
  <2>3. IsPart(f, payments, h, Payments)
    BY <1>2, <2>2 DEF IsPart
  <2>4. Sum(f, payments) = Sum(h, Payments)
    BY <2>3, SumOfSome
  <2> QED
    BY <2>1, <2>4
<1>6. Misplaced(e) = Sum(o, Bills) - Sum(g, Credits) - Sum(h, Payments)
  <2>1. PICK bills, credits, payments :
               /\ bills = {b \in Bills : EntityOf[b] = e}
               /\ credits = {c \in Credits : CreditEntity(c) = e}
               /\ payments = {p \in Payments : EntityOf[p] = e}
    OBVIOUS
  <2>2. Misplaced(e) = Sum([b \in bills |-> PaidTo(b)], bills) - Sum([c \in credits |-> PaidTo(c)], credits)
                         - Sum([p \in payments |-> Sum(paid[p], Documents)], payments)
    BY ONLY <2>1, Zenon DEF Misplaced
  <2> QED
    BY <1>3, <1>4, <1>5, <2>1, <2>2, Zenon
<1> QED
  BY <1>1, <1>6

LEMMA AccountsAreOpenItems == Inv /\ Rows /\ PaymentRows /\ CreditRows /\ Accounts => LedgerIsOpenItems
<1> SUFFICES ASSUME Inv, Rows, PaymentRows, CreditRows, Accounts, NEW e \in Entities
             PROVE LET left == {c \in Credits : CreditEntity(c) = e /\ credit[c].status = "POSTED"}
                       made == {p \in Payments : EntityOf[p] = e /\ payment[p].status # "none"}
                   IN /\ control[e] = Aging(e) - Sum([c \in left |-> credit[c].available], left) + Misplaced(e)
                      /\ advance[e] = Sum([p \in made |-> payment[p].unapplied], made)
  BY DEF LedgerIsOpenItems
<1>1. PICK o, g, x, y, d : /\ o = Sum(Owing(e), Bills) /\ g = Sum(Giving(e), Credits)
                           /\ x = Sum(PaidBills(e), Bills) /\ y = Sum(PaidCredits(e), Credits)
                           /\ d = Sum(Debited(e), Payments)
  OBVIOUS
<1>2. Sum(Kept(e), Bills) = o + x /\ o \in Int /\ x \in Int
  <2>1. PICK k, u, v : k = Kept(e) /\ u = Owing(e) /\ v = PaidBills(e)
    OBVIOUS
  <2>2. Adds(k, u, v, Bills)
    BY <2>1, KeptIsOwing
  <2>3. Sum(k, Bills) = Sum(u, Bills) + Sum(v, Bills)
    BY ONLY <2>2, SumAdds, Zenon
  <2>4. Sum(u, Bills) \in Int /\ Sum(v, Bills) \in Int
    BY <2>2, SumInt DEF Adds
  <2> QED
    BY <1>1, <2>1, <2>3, <2>4
<1>3. Sum(Left(e), Credits) = g + y /\ g \in Int /\ y \in Int
  <2>1. PICK k, u, v : k = Left(e) /\ u = Giving(e) /\ v = PaidCredits(e)
    OBVIOUS
  <2>2. Adds(k, u, v, Credits)
    BY <2>1, LeftIsGiving
  <2>3. Sum(k, Credits) = Sum(u, Credits) + Sum(v, Credits)
    BY ONLY <2>2, SumAdds, Zenon
  <2>4. Sum(u, Credits) \in Int /\ Sum(v, Credits) \in Int
    BY <2>2, SumInt DEF Adds
  <2> QED
    BY <1>1, <2>1, <2>3, <2>4
<1>4. d \in Int
  BY <1>1, TermSums
<1>5. control[e] = (o + x) - (g + y) - d
  BY <1>1, <1>2, <1>3 DEF Accounts, ControlExplained
<1>6. Misplaced(e) = x - y - d
  BY <1>1, MisplacedIs
<1>7. control[e] = o - g + Misplaced(e)
  BY <1>2, <1>3, <1>4, <1>5, <1>6
<1>8. advance[e] = Sum(Holding(e), Payments)
  BY DEF Accounts, AdvanceExplained
<1> QED
  BY <1>1, <1>7, <1>8, AgingIsOwing, Zenon
-----------------------------------------------------------------------------
(* Types of everything the tables hold, once there is a bill that an        *)
(* unplaced hold may be said to be on.                                      *)
THEOREM TypeCorrect == Bills # {} => (Spec => []TypeOK)
<1> SUFFICES ASSUME Bills # {} PROVE Spec => []TypeOK
  OBVIOUS
<1>1. Inv => TypeOK
  <2> SUFFICES ASSUME Inv PROVE TypeOK
    OBVIOUS
  <2>1. ASSUME NEW b \in Bills
        PROVE  /\ bill[b].status \in {"DRAFT", "APPROVED", "POSTED", "PARTIALLY_PAID", "PAID"}
               /\ bill[b].match \in {"UNMATCHED"} \cup MatchResults
               /\ bill[b].onHold \in BOOLEAN
               /\ {bill[b].paid, bill[b].credited, bill[b].due} \subseteq 0..Total[b]
    <3> DEFINE row == bill[b]
               total == Total[b]
    <3>1. row \in Bill /\ total \in Nat /\ row.due = total - row.paid - row.credited
      BY DEF Inv, Shape, Columns, Consistent
    <3>2. /\ row.status \in {"DRAFT", "APPROVED", "POSTED", "PARTIALLY_PAID", "PAID"}
          /\ row.match \in {"UNMATCHED"} \cup MatchResults /\ row.onHold \in BOOLEAN
          /\ row.paid \in Nat /\ row.credited \in Nat /\ row.due \in Nat
      BY <3>1, BillFields
    <3> HIDE DEF row, total
    <3>3. row.paid \in 0..total /\ row.credited \in 0..total /\ row.due \in 0..total
      BY <3>1, <3>2
    <3> QED
      BY <3>2, <3>3 DEF row, total
  <2>2. Unplaced \in Bills
    BY DEF Unplaced
  <2>3. hold \in [Holds -> [state : {"none", "active", "released"}, scope : Bills \cup Vendors]]
    BY <2>2 DEF Inv, Shape, Hold
  <2> QED
    BY <2>1, <2>3 DEF Inv, Shape, TypeOK, Payment, Credit
<1> QED
  BY <1>1, Invariance, PTL

(* The columns of bills, payments and vendor credits are the sums of their *)
(* rows, and a bill's decide its status: applyToTarget moves row, column,   *)
(* balance and status together, whichever document settles the bill, and    *)
(* whether a payment names bills or vendor credits.                         *)
THEOREM StatusIsBalance == Spec => []StatusFollowsBalance
<1>1. Inv /\ Rows /\ PaymentRows /\ CreditRows => StatusFollowsBalance
  <2> SUFFICES ASSUME Inv, Rows, PaymentRows, CreditRows PROVE StatusFollowsBalance
    OBVIOUS
  <2>1. ASSUME NEW b \in Bills
        PROVE  /\ bill[b].paid = PaidTo(b)
               /\ bill[b].credited = Sum([c \in Credits |-> credited[c][b]], Credits)
               /\ bill[b].due = Total[b] - bill[b].paid - bill[b].credited
               /\ bill[b].status = "PAID" <=> bill[b].due = 0
               /\ bill[b].status = "PARTIALLY_PAID" <=> bill[b].due \in 1..Total[b] - 1
    BY Zenon DEF Inv, Columns, Consistent, Rows, PaidRows, CreditedRows, PaidTo
  <2>2. \A p \in Payments : /\ payment[p].allocated = Sum(paid[p], Documents)
                            /\ payment[p].unapplied = Amount[p] - payment[p].allocated
    BY Zenon DEF Inv, Columns, PaymentRows
  <2>3. \A c \in Credits : /\ credit[c].applied = Sum(credited[c], Bills) + PaidTo(c)
                           /\ credit[c].available = Total[CreditOf[c]] - credit[c].applied
    BY Zenon DEF Inv, Columns, CreditRows
  <2> QED
    BY <2>1, <2>2, <2>3, Zenon DEF StatusFollowsBalance
<1> QED
  BY <1>1, Invariance, RowsInvariance, PaymentRowsInvariance, CreditRowsInvariance, PTL

(* No sequence of holds placed and released, on the bill or its vendor,     *)
(* makes a run pay a held bill or leave out one that is not.                *)
THEOREM HoldsDecide == Spec => []ExcludedExactlyByHolds
<1>1. Inv /\ FlagHasHold => ExcludedExactlyByHolds
  <2> SUFFICES ASSUME Inv, FlagHasHold, NEW b \in Bills, bill[b].status \in Open, ~Blocked(b)
               PROVE  b \in Eligible(EntityOf[b]) <=> ~ActiveHold(b) /\ ~ActiveHold(VendorOf[b])
    BY DEF ExcludedExactlyByHolds
  <2>1. bill[b].due > 0
    <3>1. bill[b].due \in Nat
      BY BillFields DEF Inv, Shape
    <3>2. bill[b].due # 0
      BY DEF Inv, Columns, Consistent, Open
    <3> QED
      BY <3>1, <3>2
  <2>2. bill[b].onHold => ActiveHold(b)
    BY DEF FlagHasHold
  <2> QED
    BY <2>1, <2>2 DEF Eligible
<1> QED
  BY <1>1, Invariance, PTL

(* The two payables accounts of the ledger are explained by the open items  *)
(* and by what allocations misplaced, which allocatePayment does not keep   *)
(* from happening: createPayment, allocatePayment, applyVendorCredit and    *)
(* the postings move both sides by the same amount.                         *)
THEOREM ControlIsOpenItems == Spec => []LedgerIsOpenItems
<1>1. Inv /\ Inv' /\ CreditRows /\ Accounts /\ [Next]_vars => Accounts'
  BY AccountsStep
<1>2. Spec => []Accounts
  BY <1>1, InitAccounts, Invariance, CreditRowsInvariance, PTL DEF Spec
<1> QED
  BY <1>2, AccountsAreOpenItems, Invariance, RowsInvariance, PaymentRowsInvariance,
     CreditRowsInvariance, PTL
-----------------------------------------------------------------------------
(* The open items that payables show to OpenItems.                          *)
SourceOf ==
  [x \in Sources |->
     IF x \in Payments
     THEN [posted |-> payment[x].status # "none", used |-> payment[x].allocated]
     ELSE [posted |-> credit[x].status = "POSTED", used |-> Sum(credited[x], Bills)]]
TargetOf == [d \in Documents |-> IF d \in Bills THEN bill[d].paid + bill[d].credited ELSE PaidTo(d)]

(* What is given to each document is still owed it, and arrives.            *)
Taken(g) ==
  /\ g \in [Documents -> Nat]
  /\ \A d \in Documents : TargetOf[d] + g[d] <= Owed[d]
  /\ TargetOf' = [d \in Documents |-> TargetOf[d] + g[d]]

(* A settlement of OpenItems, said of payments, credits and documents.      *)
LEMMA Settling ==
  ASSUME Inv, NEW x \in Sources, NEW g, Taken(g), NEW n \in Nat, NEW op \in {"create", "allocate"},
         [op |-> op, source |-> x, amount |-> g, total |-> n] \in Requests,
         SourceOf[x].posted <=> op # "create",
         SourceOf[x].used + n <= Worth[x],
         SourceOf' = [SourceOf EXCEPT ![x] = [posted |-> TRUE, used |-> @.used + n]]
  PROVE  Promise!Next
<1> DEFINE r == [op |-> op, source |-> x, amount |-> g, total |-> n]
<1>1. r.op = op /\ r.source = x /\ r.amount = g /\ r.total = n /\ x # "none"
  BY DEF Sources
<1>2. r \in Requests
  OBVIOUS
<1> HIDE DEF r
<1>3. Promise!Settle(r)
  <2>1. /\ r.source # "none" => SourceOf[r.source].used + r.total <= Worth[r.source]
        /\ \A d \in Documents : TargetOf[d] + r.amount[d] <= Owed[d]
        /\ r.source # "none" => (SourceOf[r.source].posted <=> r.op # "create")
        /\ SourceOf' = [SourceOf EXCEPT ![r.source] = [posted |-> TRUE, used |-> @.used + r.total]]
        /\ TargetOf' = [d \in Documents |-> TargetOf[d] + r.amount[d]]
    BY <1>1 DEF Taken
  <2>2. Promise!Fits(r)
    BY <2>1 DEF Promise!Fits, SourceOf, TargetOf
  <2> QED
    BY <1>1, <2>1, <2>2 DEF Promise!Settle, SourceOf, TargetOf
<1> QED
  BY <1>2, <1>3 DEF Promise!Next

(* What a request to a payment or a credit asks is one OpenItems knows.     *)
LEMMA RequestOf ==
  ASSUME NEW x \in Sources, NEW op \in {"create", "allocate"},
         NEW g \in {[d \in Documents |-> 0]} \cup Apportioned(Documents, Worth[x])
  PROVE  [op |-> op, source |-> x, amount |-> g, total |-> Sum(g, Documents)] \in Requests
<1> DEFINE A == {"create", "allocate"}
           G(y) == {[d \in Documents |-> 0]} \cup Apportioned(Documents, Worth[y])
           T(f) == Sum(f, Documents)
           R(y) == {[op |-> o, source |-> y, amount |-> f, total |-> T(f)] : o \in A, f \in G(y)}
<1>1. op \in A /\ g \in G(x)
  OBVIOUS
<1>2. Requests = UNION {R(y) : y \in Sources}
  BY DEF Requests
<1> HIDE DEF A, G, T
<1>3. [op |-> op, source |-> x, amount |-> g, total |-> T(g)] \in R(x)
  BY <1>1
<1>4. R(x) \in {R(y) : y \in Sources}
  OBVIOUS
<1> HIDE DEF R
<1>5. [op |-> op, source |-> x, amount |-> g, total |-> T(g)] \in Requests
  BY <1>2, <1>3, <1>4
<1> QED
  BY <1>5 DEF T

LEMMA NothingIsRequest ==
  ASSUME NEW x \in Sources
  PROVE  [op |-> "create", source |-> x, amount |-> [d \in Documents |-> 0], total |-> 0] \in Requests
<1>1. PICK g : g = [d \in Documents |-> 0]
  OBVIOUS
<1>2. \A d \in Documents : g[d] \in Nat /\ g[d] = 0
  BY <1>1
<1>3. [op |-> "create", source |-> x, amount |-> g, total |-> Sum(g, Documents)] \in Requests
  <2>1. "create" \in {"create", "allocate"} /\ g \in {[d \in Documents |-> 0]} \cup Apportioned(Documents, Worth[x])
    BY <1>1
  <2> QED
    BY <2>1, RequestOf
<1>4. Sum(g, Documents) = 0
  BY ONLY <1>2, FiniteDocuments, SumNat
<1> QED
  BY <1>1, <1>3, <1>4

(* No document has been given more than it is owed.                         *)
LEMMA TargetsBounded ==
  ASSUME Inv, CreditRows, NEW d \in Documents
  PROVE  TargetOf[d] \in Nat /\ Owed[d] \in Nat /\ TargetOf[d] <= Owed[d]
<1>1. CASE d \in Bills
  <2> DEFINE old == bill[d]
             total == Total[d]
  <2>1. total \in Nat \ {0}
    BY <1>1
  <2>2. /\ old.paid \in Nat /\ old.credited \in Nat /\ old.due \in Nat
        /\ old.due = total - old.paid - old.credited
    BY <1>1, BillFields DEF Inv, Shape, Columns, Consistent
  <2>3. TargetOf[d] = old.paid + old.credited /\ Owed[d] = total
    BY <1>1 DEF TargetOf, Owed
  <2> HIDE DEF old, total
  <2> QED
    BY <2>1, <2>2, <2>3
<1>2. CASE d \in Credits
  <2>1. /\ TargetOf[d] = PaidTo(d) /\ Owed[d] = Total[CreditOf[d]]
        /\ Total[CreditOf[d]] \in Nat /\ PaidTo(d) \in Nat /\ Sum(credited[d], Bills) \in Nat
    BY <1>2, CreditSums DEF TargetOf, Owed
  <2>2. /\ credit[d].available \in Nat /\ credit[d].applied = Sum(credited[d], Bills) + PaidTo(d)
        /\ credit[d].available = Total[CreditOf[d]] - credit[d].applied
    BY <1>2, CreditFields DEF Inv, Shape, Columns, CreditRows
  <2>3. PICK u, v, w : u = Total[CreditOf[d]] /\ v = PaidTo(d) /\ w = Sum(credited[d], Bills)
    OBVIOUS
  <2>4. u \in Nat /\ v \in Nat /\ w \in Nat /\ u - (w + v) \in Nat
    BY <2>1, <2>2, <2>3
  <2>5. v <= u
    BY ONLY <2>4
  <2> QED
    BY <2>1, <2>3, <2>4, <2>5
<1> QED
  BY <1>1, <1>2 DEF Documents

(* Payments give to bills and to vendor credits what the request asks.      *)
LEMMA PaidIsTaken ==
  ASSUME Inv, CreditRows, NEW p \in Payments, NEW f \in [Documents -> Nat], Allocatable(f),
         bill' = BillsAfter(f, "paid"), paid' = PaidAfter(p, f)
  PROVE  Taken(f)
<1>1. ASSUME NEW b \in Bills
      PROVE  TargetOf[b] + f[b] <= Owed[b] /\ TargetOf'[b] = TargetOf[b] + f[b]
  <2> DEFINE old == bill[b]
             new == bill'[b]
             n == OnBills(f)[b]
             total == Total[b]
  <2>1. n \in Nat /\ n <= old.due /\ new.paid = old.paid + n /\ new.credited = old.credited + 0
    BY SettledAmounts
  <2>2. total \in Nat \ {0}
    OBVIOUS
  <2>3. /\ old.paid \in Nat /\ old.credited \in Nat /\ old.due \in Nat
        /\ old.due = total - old.paid - old.credited
    BY BillFields DEF Inv, Shape, Columns, Consistent
  <2>4. /\ TargetOf[b] = old.paid + old.credited /\ TargetOf'[b] = new.paid + new.credited
        /\ Owed[b] = total /\ n = f[b]
    BY DEF TargetOf, Owed, Documents, OnBills
  <2> HIDE DEF old, new, n, total
  <2> QED
    BY <2>1, <2>2, <2>3, <2>4
<1>2. ASSUME NEW c \in Credits
      PROVE  TargetOf[c] + f[c] <= Owed[c] /\ TargetOf'[c] = TargetOf[c] + f[c]
  <2>1. c \in Documents /\ c \notin Bills /\ f[c] \in Nat
    BY DEF Documents
  <2>2. PaidTo(c)' = PaidTo(c) + f[c]
    BY <2>1, PaidMoves
  <2>3. TargetOf[c] = PaidTo(c) /\ TargetOf'[c] = PaidTo(c)' /\ Owed[c] = Total[CreditOf[c]]
    BY <2>1 DEF TargetOf, Owed
  <2>4. credit[c].available - f[c] \in Nat
    <3>1. credit \in [Credits -> Credit] /\ f \in [Documents -> Nat] /\ Allocatable(f) /\ c \in Credits
      BY DEF Inv, Shape
    <3>2. PICK new : new = CreditsAfter(f)[c]
      OBVIOUS
    <3>3. new \in Credit /\ new.available = credit[c].available - (IF c \in Documents THEN f[c] ELSE 0)
      BY ONLY <3>1, <3>2, CreditsAfterFields
    <3>4. new.available \in Nat
      BY <3>3, CreditFields
    <3> QED
      BY <2>1, <3>3, <3>4
  <2>5. PICK u, v, w : u = Total[CreditOf[c]] /\ v = PaidTo(c) /\ w = Sum(credited[c], Bills)
    OBVIOUS
  <2>6. u \in Nat /\ v \in Nat /\ w \in Nat /\ credit[c].available = u - (w + v)
    BY <2>5, CreditSums DEF Inv, Columns, CreditRows
  <2>7. v + f[c] <= u
    BY <2>1, <2>4, <2>6
  <2> QED
    BY <2>2, <2>3, <2>5, <2>7
<1>3. TargetOf' = [d \in Documents |-> TargetOf'[d]]
  BY DEF TargetOf
<1>4. \A d \in Documents : TargetOf[d] + f[d] <= Owed[d] /\ TargetOf'[d] = TargetOf[d] + f[d]
  BY <1>1, <1>2 DEF Documents
<1> QED
  BY <1>3, <1>4 DEF Taken

LEMMA PayRefines ==
  ASSUME Inv, CreditRows, NEW p \in Payments, NEW f \in [Documents -> Nat],
         \/ CreatePayment(p, f) /\ (f \in Apportioned(Documents, Amount[p])
                                    \/ f = [d \in Documents |-> 0])
         \/ AllocatePayment(p, f) /\ f \in Apportioned(Documents, Amount[p])
  PROVE  Promise!Next
<1> DEFINE n == Sum(f, Documents)
           op == IF payment[p].status = "none" THEN "create" ELSE "allocate"
<1>1. /\ n \in Nat /\ n <= payment[p].unapplied
      /\ Allocatable(f)
      /\ bill' = BillsAfter(f, "paid") /\ credit' = CreditsAfter(f) /\ paid' = PaidAfter(p, f)
      /\ payment'[p].status # "none"
      /\ payment'[p].allocated = payment[p].allocated + n
      /\ \A q \in Payments \ {p} : payment'[q] = payment[q]
      /\ credited' = credited
  BY PayEffects
<1>2. \A c \in Credits : credit'[c].status = credit[c].status
  <2> SUFFICES ASSUME NEW c \in Credits PROVE credit'[c].status = credit[c].status
    OBVIOUS
  <2>1. credit \in [Credits -> Credit] /\ f \in [Documents -> Nat] /\ Allocatable(f) /\ c \in Credits
    BY <1>1 DEF Inv, Shape
  <2>2. CreditsAfter(f)[c].status = credit[c].status
    BY ONLY <2>1, CreditsAfterFields
  <2> QED
    BY <1>1, <2>2
<1>3. Taken(f)
  BY <1>1, PaidIsTaken
<1>4. p \in Sources /\ Worth[p] = Amount[p] /\ Amount[p] \in Nat
  BY DEF Sources, Worth
<1>5. [op |-> op, source |-> p, amount |-> f, total |-> n] \in Requests
  <2>1. CASE f \in Apportioned(Documents, Amount[p])
    <3>1. /\ f \in {[d \in Documents |-> 0]} \cup Apportioned(Documents, Worth[p])
          /\ op \in {"create", "allocate"}
      BY <1>4, <2>1
    <3> HIDE DEF op
    <3> QED
      BY <1>4, <3>1, RequestOf
  <2>2. CASE CreatePayment(p, f) /\ f = [d \in Documents |-> 0]
    <3>1. op = "create"
      BY <2>2 DEF CreatePayment
    <3>2. n = 0
      <4>1. \A d \in Documents : f[d] \in Nat /\ f[d] = 0
        BY <2>2
      <4> QED
        BY ONLY <4>1, FiniteDocuments, SumNat
    <3>3. [op |-> "create", source |-> p, amount |-> [d \in Documents |-> 0], total |-> 0] \in Requests
      BY <1>4, NothingIsRequest
    <3> HIDE DEF op, n
    <3> QED
      BY <2>2, <3>1, <3>2, <3>3
  <2> QED
    BY <2>1, <2>2
<1>6. SourceOf[p].posted <=> op # "create"
  BY <1>4 DEF SourceOf
<1>7. SourceOf[p].used = payment[p].allocated
  BY <1>4 DEF SourceOf
<1>8. SourceOf[p].used + n <= Worth[p]
  <2>1. payment[p].allocated \in Nat /\ payment[p].unapplied = Amount[p] - payment[p].allocated
    BY PaymentFields DEF Inv, Shape, Columns
  <2> HIDE DEF n
  <2> QED
    BY <1>1, <1>4, <1>7, <2>1
<1>9. SourceOf' = [SourceOf EXCEPT ![p] = [posted |-> TRUE, used |-> SourceOf[p].used + n]]
  <2>1. ASSUME NEW x \in Sources, x # p PROVE SourceOf'[x] = SourceOf[x]
    <3>1. CASE x \in Payments
      BY <1>1, <2>1, <3>1 DEF SourceOf
    <3>2. CASE x \in Credits /\ x \notin Payments
      BY <1>1, <1>2, <3>2 DEF SourceOf
    <3> QED
      BY <3>1, <3>2 DEF Sources
  <2>2. SourceOf'[p] = [posted |-> TRUE, used |-> SourceOf[p].used + n]
    <3> HIDE DEF n
    <3> QED
      BY <1>1, <1>4, <1>7 DEF SourceOf
  <2>3. SourceOf' = [x \in Sources |-> SourceOf'[x]] /\ SourceOf = [x \in Sources |-> SourceOf[x]]
    BY DEF SourceOf
  <2> HIDE DEF n
  <2> QED
    BY <1>4, <2>1, <2>2, <2>3
<1>10. op \in {"create", "allocate"}
  OBVIOUS
<1> HIDE DEF n, op
<1> QED
  BY <1>1, <1>3, <1>4, <1>5, <1>6, <1>8, <1>9, <1>10, Settling

(* A credit gives to bills and to nothing else.                             *)
LEMMA CreditedIsTaken ==
  ASSUME Inv, CreditRows, NEW f \in [Bills -> Nat], Allocatable(f),
         bill' = BillsAfter(f, "credited"), paid' = paid,
         NEW g, g = [d \in Documents |-> IF d \in Bills THEN f[d] ELSE 0]
  PROVE  Taken(g)
<1>1. ASSUME NEW b \in Bills
      PROVE  TargetOf[b] + g[b] <= Owed[b] /\ TargetOf'[b] = TargetOf[b] + g[b] /\ g[b] \in Nat
  <2> DEFINE old == bill[b]
             new == bill'[b]
             n == OnBills(f)[b]
             total == Total[b]
  <2>1. n \in Nat /\ n <= old.due /\ new.paid = old.paid + 0 /\ new.credited = old.credited + n
    <3>1. Inv /\ f \in [Bills -> Nat] /\ Allocatable(f) /\ b \in Bills /\ bill' = BillsAfter(f, "credited")
      OBVIOUS
    <3> QED
      BY ONLY <3>1, SettledAmounts
  <2>2. total \in Nat \ {0}
    OBVIOUS
  <2>3. /\ old.paid \in Nat /\ old.credited \in Nat /\ old.due \in Nat
        /\ old.due = total - old.paid - old.credited
    BY BillFields DEF Inv, Shape, Columns, Consistent
  <2>4. /\ TargetOf[b] = old.paid + old.credited /\ TargetOf'[b] = new.paid + new.credited
        /\ Owed[b] = total /\ n = g[b]
    BY DEF TargetOf, Owed, Documents, OnBills
  <2> HIDE DEF old, new, n, total
  <2> QED
    BY <2>1, <2>2, <2>3, <2>4
<1>2. ASSUME NEW c \in Credits
      PROVE  TargetOf[c] + g[c] <= Owed[c] /\ TargetOf'[c] = TargetOf[c] + g[c] /\ g[c] \in Nat
  <2>1. c \in Documents /\ c \notin Bills
    BY DEF Documents
  <2>2. TargetOf[c] \in Nat /\ Owed[c] \in Nat /\ TargetOf[c] <= Owed[c]
    BY <2>1, TargetsBounded
  <2>3. TargetOf'[c] = TargetOf[c] /\ g[c] = 0
    BY <2>1 DEF TargetOf, PaidTo
  <2> QED
    BY <2>2, <2>3
<1>3. TargetOf' = [d \in Documents |-> TargetOf'[d]]
  BY DEF TargetOf
<1>4. \A d \in Documents :
        TargetOf[d] + g[d] <= Owed[d] /\ TargetOf'[d] = TargetOf[d] + g[d] /\ g[d] \in Nat
  BY <1>1, <1>2 DEF Documents
<1> QED
  BY <1>3, <1>4 DEF Taken

LEMMA ApplyRefines ==
  ASSUME Inv, CreditRows, NEW c \in Credits, NEW f \in [Bills -> Nat], ApplyVendorCredit(c, f),
         f \in Apportioned(Bills, Total[CreditOf[c]])
  PROVE  Promise!Next
<1> DEFINE n == Sum(f, Bills)
<1>1. /\ n \in Nat /\ n <= credit[c].available
      /\ Allocatable(f)
      /\ bill' = BillsAfter(f, "credited")
      /\ credited' = [credited EXCEPT ![c] = [b \in Bills |-> @[b] + f[b]]]
      /\ credit[c].status = "POSTED" /\ credit'[c].status = "POSTED"
      /\ \A d \in Credits \ {c} : credit'[d] = credit[d]
      /\ UNCHANGED <<payment, paid>>
  BY ApplyEffects
<1>2. PICK g : g = [d \in Documents |-> IF d \in Bills THEN f[d] ELSE 0]
  OBVIOUS
<1>3. Taken(g)
  BY <1>1, <1>2, CreditedIsTaken
<1>4. PICK worth \in Nat : worth = Total[CreditOf[c]]
  BY CreditSums
<1>5. c \in Sources /\ c \notin Payments /\ Worth[c] = worth
  BY <1>4 DEF Sources, Worth
<1>6. [op |-> "allocate", source |-> c, amount |-> g, total |-> n] \in Requests
  <2>1. f \in [Bills -> 0..worth] /\ n \in 1..worth
    BY <1>4 DEF Apportioned
  <2>2. Sum(g, Documents) = n
    <3>1. IsPart(f, Bills, g, Documents)
      BY <1>2, FiniteDocuments DEF IsPart, Documents
    <3> QED
      BY <3>1, SumOfSome
  <2>3. g \in Apportioned(Documents, worth)
    <3>1. g \in [Documents -> 0..worth]
      <4>1. PICK top : top = 0..worth /\ 0 \in top
        OBVIOUS
      <4>2. f \in [Bills -> top]
        BY <2>1, <4>1
      <4>3. g \in [Documents -> top]
        BY ONLY <1>2, <4>1, <4>2
      <4> QED
        BY <4>1, <4>3
    <3> HIDE DEF n
    <3> QED
      BY <2>1, <2>2, <3>1 DEF Apportioned
  <2>4. [op |-> "allocate", source |-> c, amount |-> g, total |-> Sum(g, Documents)] \in Requests
    BY <1>5, <2>3, RequestOf
  <2> HIDE DEF n
  <2> QED
    BY <2>2, <2>4
<1>7. (SourceOf[c].posted <=> "allocate" # "create") /\ SourceOf[c].used = Sum(credited[c], Bills)
  BY <1>1, <1>5 DEF SourceOf
<1>8. SourceOf[c].used + n <= Worth[c]
  <2>1. PICK v, w : v = PaidTo(c) /\ w = Sum(credited[c], Bills)
    OBVIOUS
  <2>2. v \in Nat /\ w \in Nat /\ credit[c].available = worth - (w + v)
    BY <1>4, <2>1, CreditSums DEF Inv, Columns, CreditRows
  <2> HIDE DEF n
  <2>3. w + n <= worth
    BY <1>1, <2>2
  <2> QED
    BY <1>5, <1>7, <2>1, <2>3
<1>9. SourceOf' = [SourceOf EXCEPT ![c] = [posted |-> TRUE, used |-> SourceOf[c].used + n]]
  <2>1. credited \in [Credits -> [Bills -> Nat]]
    BY DEF Inv, Shape
  <2>2. ASSUME NEW x \in Sources, x # c PROVE SourceOf'[x] = SourceOf[x]
    <3>1. CASE x \in Payments
      BY <1>1, <3>1 DEF SourceOf
    <3>2. CASE x \in Credits /\ x \notin Payments
      <4>1. credited'[x] = credited[x] /\ credit'[x] = credit[x]
        BY <1>1, <2>1, <2>2, <3>2
      <4> QED
        BY <3>2, <4>1 DEF SourceOf
    <3> QED
      BY <3>1, <3>2 DEF Sources
  <2>3. Sum(credited'[c], Bills) = Sum(credited[c], Bills) + n
    <3>1. PICK now, old : now = credited'[c] /\ old = credited[c]
      OBVIOUS
    <3>2. old \in [Bills -> Nat] /\ now = [b \in Bills |-> old[b] + f[b]]
      BY <1>1, <2>1, <3>1
    <3>3. Adds(now, old, f, Bills)
      BY <3>2 DEF Adds
    <3>4. Sum(now, Bills) = Sum(old, Bills) + Sum(f, Bills)
      BY ONLY <3>3, SumAdds, Zenon
    <3> QED
      BY <3>1, <3>4
  <2> HIDE DEF n
  <2>4. SourceOf'[c] = [posted |-> TRUE, used |-> SourceOf[c].used + n]
    BY <1>1, <1>5, <1>7, <2>3 DEF SourceOf
  <2>5. SourceOf' = [x \in Sources |-> SourceOf'[x]] /\ SourceOf = [x \in Sources |-> SourceOf[x]]
    BY DEF SourceOf
  <2> QED
    BY <1>5, <2>2, <2>4, <2>5
<1>10. "allocate" \in {"create", "allocate"}
  OBVIOUS
<1> HIDE DEF n
<1> QED
  BY <1>1, <1>3, <1>5, <1>6, <1>7, <1>8, <1>9, <1>10, Settling

(* Posting a vendor credit creates a source nothing has been taken from.    *)
LEMMA CreditRefines ==
  ASSUME Inv, CreditRows, NEW c \in Credits, CreateVendorCredit(c) \/ PostVendorCredit(c)
  PROVE  Promise!Next \/ UNCHANGED <<SourceOf, TargetOf>>
<1>1. /\ credit[c].status # "POSTED"
      /\ credit'[c].status = (IF CreateVendorCredit(c) THEN "DRAFT" ELSE "POSTED")
      /\ \A d \in Credits \ {c} : credit'[d] = credit[d]
  BY CreditStep
<1>2. UNCHANGED <<bill, payment, paid, credited>>
  BY DEF CreateVendorCredit, PostVendorCredit
<1>3. Sum(credited[c], Bills) = 0
  <2>1. credit[c].applied = 0 /\ credit[c].applied = Sum(credited[c], Bills) + PaidTo(c)
    BY <1>1 DEF Inv, Columns, CreditRows
  <2>2. Sum(credited[c], Bills) \in Nat /\ PaidTo(c) \in Nat
    BY CreditSums
  <2> QED
    BY <2>1, <2>2
<1>4. UNCHANGED TargetOf
  BY <1>2 DEF TargetOf, PaidTo
<1>5. c \in Sources /\ c \notin Payments /\ Worth[c] = Total[CreditOf[c]] /\ Worth[c] \in Nat
  BY CreditSums DEF Sources, Worth
<1>6. ASSUME NEW x \in Sources, x # c PROVE SourceOf'[x] = SourceOf[x]
  BY <1>1, <1>2, <1>6 DEF SourceOf, Sources
<1>7. SourceOf' = [x \in Sources |-> SourceOf'[x]] /\ SourceOf = [x \in Sources |-> SourceOf[x]]
  BY DEF SourceOf
<1>8. SourceOf[c] = [posted |-> FALSE, used |-> 0]
  BY <1>1, <1>3, <1>5 DEF SourceOf
<1>9. CASE CreateVendorCredit(c)
  <2>1. SourceOf'[c] = SourceOf[c]
    BY <1>1, <1>2, <1>3, <1>5, <1>8, <1>9 DEF SourceOf
  <2>2. SourceOf' = SourceOf
    BY <1>6, <1>7, <2>1
  <2> QED
    BY <1>4, <2>2
<1>10. CASE ~CreateVendorCredit(c)
  <2>1. SourceOf'[c] = [posted |-> TRUE, used |-> 0]
    BY <1>1, <1>2, <1>3, <1>5, <1>10 DEF SourceOf
  <2>2. SourceOf' = [SourceOf EXCEPT ![c] = [posted |-> TRUE, used |-> SourceOf[c].used + 0]]
    BY <1>5, <1>6, <1>7, <1>8, <2>1
  <2>3. PICK g : g = [d \in Documents |-> 0]
    OBVIOUS
  <2>4. [op |-> "create", source |-> c, amount |-> g, total |-> 0] \in Requests
    BY <1>5, <2>3, NothingIsRequest
  <2>5. Taken(g)
    <3>1. \A d \in Documents : TargetOf[d] \in Nat /\ TargetOf[d] <= Owed[d]
      BY TargetsBounded
    <3>2. PICK T : T = TargetOf
      OBVIOUS
    <3>3. \A d \in Documents : T[d] + g[d] = T[d] /\ T[d] <= Owed[d] /\ g[d] \in Nat
      BY <2>3, <3>1, <3>2
    <3>4. T = [d \in Documents |-> T[d]]
      BY <3>2 DEF TargetOf
    <3>5. T = [d \in Documents |-> T[d] + g[d]]
      BY <3>3, <3>4
    <3>6. g \in [Documents -> Nat]
      BY <2>3
    <3> QED
      BY <1>4, <3>2, <3>3, <3>5, <3>6 DEF Taken
  <2>6. SourceOf[c].posted <=> "create" # "create"
    BY <1>8
  <2>7. SourceOf[c].used + 0 <= Worth[c]
    BY <1>5, <1>8
  <2>8. 0 \in Nat /\ "create" \in {"create", "allocate"}
    OBVIOUS
  <2>9. Promise!Next
    BY <1>5, <2>2, <2>4, <2>5, <2>6, <2>7, <2>8, Settling
  <2> QED
    BY <2>9
<1> QED
  BY <1>9, <1>10

LEMMA StepRefines == Inv /\ CreditRows /\ [Next]_vars => Promise!Next \/ UNCHANGED <<SourceOf, TargetOf>>
<1> SUFFICES ASSUME Inv, CreditRows, [Next]_vars
             PROVE  Promise!Next \/ UNCHANGED <<SourceOf, TargetOf>>
  OBVIOUS
<1>0. ASSUME UNCHANGED <<paid, credited>>, \A c \in Credits : credit'[c].status = credit[c].status,
             \A p \in Payments : /\ payment'[p].allocated = payment[p].allocated
                                 /\ payment'[p].status # "none" <=> payment[p].status # "none",
             \A b \in Bills : bill'[b].paid = bill[b].paid /\ bill'[b].credited = bill[b].credited
      PROVE  UNCHANGED <<SourceOf, TargetOf>>
  <2>1. UNCHANGED TargetOf
    BY <1>0 DEF TargetOf, PaidTo
  <2>2. UNCHANGED SourceOf
    BY <1>0 DEF SourceOf, Sources
  <2> QED
    BY <2>1, <2>2
<1>1. CASE \/ \E b \in Bills : MatchBill(b) \/ ApproveVendorBill(b) \/ PostBill(b)
           \/ \E h \in Holds : ReleaseHold(h)
           \/ \E h \in Holds, scope \in Bills \cup Vendors : PlaceHold(h, scope)
  <2>1. UNCHANGED <<payment, credit, paid, credited>> /\ \A x \in Bills : Amounts(bill'[x]) = Amounts(bill[x])
    BY <1>1, AmountsStay
  <2>2. \A x \in Bills : bill'[x].paid = bill[x].paid /\ bill'[x].credited = bill[x].credited
    BY <2>1 DEF Amounts
  <2> QED
    BY <1>0, <2>1, <2>2
<1>2. ASSUME NEW p \in Payments, ConfirmPayment(p) PROVE UNCHANGED <<SourceOf, TargetOf>>
  <2> DEFINE row == payment[p]
             new == [row EXCEPT !.status = "CONFIRMED"]
  <2>1. /\ payment' = [payment EXCEPT ![p] = new] /\ row.status = "POSTED" /\ row \in Payment
        /\ payment \in [Payments -> Payment] /\ UNCHANGED <<bill, credit, paid, credited>>
    BY <1>2 DEF ConfirmPayment, Inv, Shape
  <2>2. new.status = "CONFIRMED" /\ new.allocated = row.allocated
    <3> HIDE DEF row
    <3> QED
      BY <2>1 DEF Payment
  <2> HIDE DEF new
  <2>3. \A q \in Payments : payment'[q] = IF q = p THEN new ELSE payment[q]
    BY <2>1
  <2>4. \A q \in Payments : /\ payment'[q].allocated = payment[q].allocated
                            /\ payment'[q].status # "none" <=> payment[q].status # "none"
    BY <2>1, <2>2, <2>3
  <2> QED
    BY <1>0, <2>1, <2>4
<1>3. CASE \/ \E p \in Payments : FailPayment(p)
           \/ \E r \in Runs, e \in Entities : CreatePaymentRun(r, e)
           \/ UNCHANGED vars
  <2>1. UNCHANGED <<bill, payment, credit, paid, credited>>
    BY <1>3, RestStep, Zenon
  <2> QED
    BY <1>0, <2>1
<1>4. ASSUME NEW p \in Payments, NEW f \in [Documents -> Nat],
             \/ CreatePayment(p, f) /\ (f \in Apportioned(Documents, Amount[p])
                                        \/ f = [d \in Documents |-> 0])
             \/ AllocatePayment(p, f) /\ f \in Apportioned(Documents, Amount[p])
      PROVE  Promise!Next
  BY <1>4, PayRefines
<1>5. ASSUME NEW c \in Credits, CreateVendorCredit(c) \/ PostVendorCredit(c)
      PROVE  Promise!Next \/ UNCHANGED <<SourceOf, TargetOf>>
  BY <1>5, CreditRefines
<1>6. ASSUME NEW c \in Credits, NEW f \in [Bills -> Nat], ApplyVendorCredit(c, f),
             f \in Apportioned(Bills, Total[CreditOf[c]])
      PROVE  Promise!Next
  BY <1>6, ApplyRefines
<1> QED
  BY <1>1, <1>2, <1>3, <1>4, <1>5, <1>6, NextCases, Zenon

(* Whichever documents payments name, every interleaving of payments and    *)
(* vendor credits settles as OpenItems promises: no document gives more     *)
(* than it has, no bill or credit takes more than it is owed, and both      *)
(* sides move in one step.                                                  *)
THEOREM SettlesAsOpenItems == Spec => SettlesAsPromised
<1>1. Init => Promise!Init
  <2> SUFFICES ASSUME Init PROVE Promise!Init
    OBVIOUS
  <2>1. SourceOf = [x \in Sources |-> [posted |-> FALSE, used |-> 0]]
    <3>1. ASSUME NEW c \in Credits PROVE Sum(credited[c], Bills) = 0
      <4>1. \A b \in Bills : credited[c][b] \in Nat /\ credited[c][b] = 0
        BY DEF Init
      <4> QED
        BY <4>1, SumNat
    <3>2. \A x \in Sources : SourceOf[x] = [posted |-> FALSE, used |-> 0]
      BY <3>1 DEF Init, Sources, SourceOf
    <3>3. SourceOf = [x \in Sources |-> SourceOf[x]]
      BY DEF SourceOf
    <3> QED
      BY <3>2, <3>3
  <2>2. TargetOf = [d \in Documents |-> 0]
    <3>1. ASSUME NEW c \in Credits PROVE PaidTo(c) = 0
      <4>1. PICK rows : rows = PaidRows(c)
        OBVIOUS
      <4>2. \A p \in Payments : rows[p] \in Nat /\ rows[p] = 0
        BY <4>1 DEF Init, PaidRows, Documents
      <4>3. Sum(rows, Payments) = 0
        BY <4>2, SumNat
      <4> QED
        BY <4>1, <4>3 DEF PaidTo, PaidRows
    <3>2. \A d \in Documents : TargetOf[d] = 0
      BY <3>1 DEF Init, TargetOf, Documents
    <3>3. TargetOf = [d \in Documents |-> TargetOf[d]]
      BY DEF TargetOf
    <3> QED
      BY <3>2, <3>3
  <2> QED
    BY <2>1, <2>2 DEF Promise!Init, Promise!Unposted, SourceOf, TargetOf
<1>2. Inv /\ CreditRows /\ [Next]_vars => [Promise!Next]_(Promise!vars)
  <2>1. Promise!vars = <<SourceOf, TargetOf>>
    BY DEF Promise!vars, SourceOf, TargetOf
  <2> QED
    BY <2>1, StepRefines DEF Promise!vars, SourceOf, TargetOf
<1> QED
  BY <1>1, <1>2, Invariance, CreditRowsInvariance, PTL DEF Spec, SettlesAsPromised, Promise!Spec
=============================================================================

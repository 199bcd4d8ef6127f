-------------------------- MODULE PurchaseDocuments --------------------------
(***************************************************************************)
(* What stands before a vendor bill is owed: requisitions, purchase        *)
(* orders, goods receipts and their accrual, the suspicion of a duplicate, *)
(* and the match of a bill against what was ordered or accepted            *)
(* (procurement.service, the drafting half of ap.service).  Documents have *)
(* one line each, of one price.                                            *)
(*                                                                         *)
(* A handler that changes one document locks it and is one step.  Creating *)
(* a bill is two: bills like it are looked for without a lock, so another  *)
(* request may insert one before this one does.  Receiving and billing do  *)
(* not ask for the status of the order they name.                          *)
(***************************************************************************)
EXTENDS Integers, FiniteSetsExt

CONSTANTS
  Requisitions, Orders, Receipts, Bills,
  Ordered,         \* quantity of an order's line
  Quantities,      \* what a client may receive or bill at once
  Signals,         \* of a bill: what findDuplicateBills compares, all of one vendor
  Overriding,      \* the bills created with a duplicate override reason and its permission
  Destinations,    \* the accounts clients debit bills to: "expense", "grni"
  Tolerances       \* the quantity variance a match is asked to tolerate

None == "none"

(* A document's key is not none; a quantity is not negative.                *)
OrdersAssumption ==
  /\ IsFiniteSet(Receipts) /\ IsFiniteSet(Bills)
  /\ None \notin Requisitions \cup Orders \cup Receipts
  /\ Ordered \in [Orders -> Nat] /\ Quantities \subseteq Nat

VARIABLES
  requisition,   \* status
  order,         \* status, requisition, quantity_received, quantity_billed
  receipt,       \* goods_receipts: status, order, quantity_accepted, quantity_billed
  bill,          \* status, its line, match_state, an open match exception
  grni           \* credits less debits of Goods Received Not Invoiced

vars == <<requisition, order, receipt, bill, grni>>

Sum(f, S) == MapThenSumSet(LAMBDA x : f[x], S)
NoOrder == [status |-> None, requisition |-> None, received |-> 0, billed |-> 0]
NoBill == [status |-> None, order |-> None, receipt |-> None, quantity |-> 0, match |-> "UNMATCHED",
           blocked |-> FALSE, to |-> "expense"]

Init ==
  /\ requisition = [q \in Requisitions |-> None]
  /\ order = [o \in Orders |-> NoOrder]
  /\ receipt = [g \in Receipts |-> [status |-> None, order |-> None, accepted |-> 0, billed |-> 0]]
  /\ bill = [b \in Bills |-> NoBill]
  /\ grni = 0
-----------------------------------------------------------------------------
CreatePurchaseRequisition(q) ==
  /\ requisition[q] = None
  /\ requisition' = [requisition EXCEPT ![q] = "DRAFT"]
  /\ UNCHANGED <<order, receipt, bill, grni>>

ApprovePurchaseRequisition(q) ==
  /\ requisition[q] = "DRAFT"
  /\ requisition' = [requisition EXCEPT ![q] = "APPROVED"]
  /\ UNCHANGED <<order, receipt, bill, grni>>

(* An order consumes the requisition it names, which must be approved.      *)
CreatePurchaseOrder(o, q) ==
  /\ order[o].status = None
  /\ q # None => requisition[q] = "APPROVED"
  /\ order' = [order EXCEPT ![o] = [NoOrder EXCEPT !.status = "DRAFT", !.requisition = q]]
  /\ requisition' = [p \in Requisitions |-> IF p = q THEN "CONVERTED" ELSE requisition[p]]
  /\ UNCHANGED <<receipt, bill, grni>>

ApprovePurchaseOrder(o) ==
  /\ order[o].status = "DRAFT"
  /\ order' = [order EXCEPT ![o].status = "APPROVED"]
  /\ UNCHANGED <<requisition, receipt, bill, grni>>
-----------------------------------------------------------------------------
CreateGoodsReceipt(g, o, n) ==   \* counted as received before it is posted
  /\ receipt[g].status = None /\ order[o].status # None
  /\ receipt' = [receipt EXCEPT ![g] = [status |-> "DRAFT", order |-> o, accepted |-> n, billed |-> 0]]
  /\ order' = [order EXCEPT ![o].received = @ + n]
  /\ UNCHANGED <<requisition, bill, grni>>

PostGoodsReceipt(g) ==   \* Dr destination, Cr goods received not invoiced
  /\ receipt[g].status = "DRAFT"
  /\ receipt' = [receipt EXCEPT ![g].status = "POSTED"]
  /\ grni' = grni + receipt[g].accepted
  /\ UNCHANGED <<requisition, order, bill>>
-----------------------------------------------------------------------------
Recorded(b) == bill[b].status \notin {None, "checked"}
Suspected(b) == {c \in Bills : Recorded(c) /\ Signals[c] = Signals[b]}

FindDuplicateBills(b) ==   \* none is found, or the suspicion is overridden
  /\ bill[b].status = None
  /\ Suspected(b) = {} \/ b \in Overriding
  /\ bill' = [bill EXCEPT ![b].status = "checked"]
  /\ UNCHANGED <<requisition, order, receipt, grni>>

(* The line adds to what is billed of the order and of the receipt it       *)
(* names, which need not belong together; a receipt is bounded by what was  *)
(* accepted, an order by nothing.                                           *)
WriteBillLines_Unreceived(o, g, n) ==   \* mutant: what is billed of a receipt is not counted
  /\ order' = [p \in Orders |-> IF p = o THEN [order[p] EXCEPT !.billed = @ + n] ELSE order[p]]
  /\ UNCHANGED receipt
WriteBillLines(o, g, n) ==
  /\ o # None => order[o].status # None
  /\ g # None => receipt[g].status # None /\ receipt[g].billed + n <= receipt[g].accepted
  /\ order' = [p \in Orders |-> IF p = o THEN [order[p] EXCEPT !.billed = @ + n] ELSE order[p]]
  /\ receipt' = [h \in Receipts |-> IF h = g THEN [receipt[h] EXCEPT !.billed = @ + n] ELSE receipt[h]]

CreateBill(b, o, g, n, to) ==
  /\ bill[b].status = "checked"
  /\ WriteBillLines(o, g, n)
  /\ bill' = [bill EXCEPT ![b] = [NoBill EXCEPT !.status = "DRAFT", !.order = o, !.receipt = g,
                                                !.quantity = n, !.to = to]]
  /\ UNCHANGED <<requisition, grni>>

(* Each line that names an order, against the receipt it names or else the  *)
(* order, whatever else has been billed of them.  Earlier results go.       *)
Reference(b) == IF bill[b].receipt # None THEN receipt[bill[b].receipt].accepted
                ELSE Ordered[bill[b].order]

MatchBill(b, tolerance) ==
  LET variance == bill[b].quantity - Reference(b)
      exceeds == variance > tolerance \/ -variance > tolerance
      result == IF bill[b].order = None THEN "UNMATCHED"
                ELSE IF exceeds THEN "EXCEPTION"
                ELSE IF variance # 0 THEN "WITHIN_TOLERANCE" ELSE "MATCHED"
  IN /\ Recorded(b)
     /\ bill' = [bill EXCEPT ![b].match = result, ![b].blocked = result = "EXCEPTION"]
     /\ UNCHANGED <<requisition, order, receipt, grni>>

ApproveVendorBill(b) ==
  /\ bill[b].status = "DRAFT" /\ ~bill[b].blocked
  /\ bill' = [bill EXCEPT ![b].status = "APPROVED"]
  /\ UNCHANGED <<requisition, order, receipt, grni>>

PostBill(b) ==   \* Dr the account the client named, Cr payable
  /\ bill[b].status \in {"DRAFT", "APPROVED"} /\ ~bill[b].blocked
  /\ bill' = [bill EXCEPT ![b].status = "POSTED"]
  /\ grni' = IF bill[b].to = "grni" THEN grni - bill[b].quantity ELSE grni
  /\ UNCHANGED <<requisition, order, receipt>>

Next ==
  \/ \E q \in Requisitions : CreatePurchaseRequisition(q) \/ ApprovePurchaseRequisition(q)
  \/ \E o \in Orders : \/ \E q \in Requisitions \cup {None} : CreatePurchaseOrder(o, q)
                       \/ ApprovePurchaseOrder(o)
  \/ \E g \in Receipts : \/ \E o \in Orders, n \in Quantities : CreateGoodsReceipt(g, o, n)
                         \/ PostGoodsReceipt(g)
  \/ \E b \in Bills :
       \/ FindDuplicateBills(b)
       \/ \E o \in Orders \cup {None}, g \in Receipts \cup {None}, n \in Quantities,
             to \in Destinations : CreateBill(b, o, g, n, to)
       \/ \E tolerance \in Tolerances : MatchBill(b, tolerance)
       \/ ApproveVendorBill(b) \/ PostBill(b)

Spec == Init /\ [][Next]_vars
-----------------------------------------------------------------------------
(* A requisition is authority to spend once: one order at most names it,    *)
(* and it is converted as soon as one does.                                 *)
AuthorityIsSpentOnce ==
  \A q \in Requisitions :
    LET orders == {o \in Orders : order[o].requisition = q}
    IN /\ Cardinality(orders) <= 1
       /\ requisition[q] = "CONVERTED" <=> orders # {}

(* What orders and receipts say was received and billed of them is what the *)
(* receipts and bills hold; "rejecting goods and paying for them" does not  *)
(* happen.                                                                  *)
QuantitiesAddUp ==
  LET accepted == [g \in Receipts |-> receipt[g].accepted]
      billed == [b \in Bills |-> bill[b].quantity]
  IN /\ \A o \in Orders :
          /\ order[o].received = Sum(accepted, {g \in Receipts : receipt[g].order = o})
          /\ order[o].billed = Sum(billed, {b \in Bills : bill[b].order = o})
     /\ \A g \in Receipts :
          /\ receipt[g].billed = Sum(billed, {b \in Bills : bill[b].receipt = g})
          /\ receipt[g].billed <= receipt[g].accepted

(* "Billing 10 against an order for 10 when only 6 arrived": a bill that    *)
(* matched exactly and names a receipt is for all that was accepted, so no  *)
(* two bills for anything match one receipt.                                *)
ReceiptMatchesOnce ==
  \A g \in Receipts :
    Cardinality({b \in Bills : /\ bill[b].receipt = g /\ bill[b].quantity > 0
                               /\ bill[b].match = "MATCHED"}) <= 1

(* A bill like another is only there if somebody overrode the suspicion     *)
(* (refuted: two requests look before either inserts).                      *)
NoSilentDuplicate ==
  \A b, c \in Bills : b # c /\ Recorded(b) /\ Recorded(c) /\ Signals[b] = Signals[c] =>
    b \in Overriding \/ c \in Overriding

(* Once all that was received is billed and posted, nothing is accrued      *)
(* (refuted: bills debit the account their lines name).                     *)
AccrualIsReleased ==
  /\ \A g \in Receipts : receipt[g].status = "POSTED" /\ receipt[g].billed = receipt[g].accepted
  /\ \A b \in Bills : Recorded(b) => bill[b].status = "POSTED"
  => grni <= 0
=============================================================================

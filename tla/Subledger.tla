------------------------------ MODULE Subledger ------------------------------
(***************************************************************************)
(* The documents of the subledger, checked together: a behaviour is one of *)
(* one component, the others staying as they begin, and every property     *)
(* speaks of each component it concerns.                                   *)
(***************************************************************************)
EXTENDS Receivables, Sequences, TLC

CONSTANTS
  q1, o1, o2, i1, i2, g1, b1, b2, r1, c1, c2,
  Parts,            \* the components a run is about
  (* What the components take, under names of their own.                    *)
  Quotes, SalesOrders, SoldQuantity, OrderInvoices, InvoicedQuantities, Recognised, Attempts,
  Workers, Templates, Frequency, Start, End, MonthLength, AsOf,
  Requisitions, PurchaseOrders, BoughtQuantity, GoodsReceipts, Bills, Quantities, Signals,
  Overriding, Destinations, Tolerances,
  Users, Claims, Claimant, Item

VARIABLES part,
  lapsed, quote, salesOrder, orderInvoice, einvoice, sending, lost, taken,
  cursor, issued, run,
  requisition, order, goodsReceipt, bill, grni,
  claim, flagged, approver, payable

Sales == INSTANCE SalesDocuments WITH
  order <- salesOrder, invoice <- orderInvoice,
  Orders <- SalesOrders, Invoices <- OrderInvoices, Ordered <- SoldQuantity,
  Quantities <- InvoicedQuantities

Recurring == INSTANCE RecurringInvoices

Purchases == INSTANCE PurchaseDocuments WITH
  receipt <- goodsReceipt, Orders <- PurchaseOrders, Receipts <- GoodsReceipts,
  Ordered <- BoughtQuantity

Expenses == INSTANCE ExpenseClaims

ASSUME SalesAssumption == Sales!OrdersAssumption

ASSUME PurchasesAssumption == Purchases!OrdersAssumption

ASSUME TemplatesAssumption == Recurring!CalendarAssumption

sales == <<lapsed, quote, salesOrder, orderInvoice, einvoice, sending, lost, taken>>
recurring == <<cursor, issued, run>>
purchases == <<requisition, order, goodsReceipt, bill, grni>>
expenses == <<claim, flagged, approver, payable>>
subledger == <<part, sales, recurring, purchases, expenses, vars>>

SubledgerInit ==
  /\ part \in Parts
  /\ Sales!Init /\ Recurring!Init /\ Purchases!Init /\ Expenses!Init /\ Init

SubledgerNext ==
  \/ part = "sales" /\ Sales!Next
       /\ UNCHANGED <<part, recurring, purchases, expenses, vars>>
  \/ part = "recurring" /\ Recurring!Next
       /\ UNCHANGED <<part, sales, purchases, expenses, vars>>
  \/ part = "purchases" /\ Purchases!Next
       /\ UNCHANGED <<part, sales, recurring, expenses, vars>>
  \/ part = "claims" /\ Expenses!Next
       /\ UNCHANGED <<part, sales, recurring, purchases, vars>>
  \/ part = "receivables" /\ Next
       /\ UNCHANGED <<part, sales, recurring, purchases, expenses>>

SubledgerSpec == SubledgerInit /\ [][SubledgerNext]_subledger
-----------------------------------------------------------------------------
(* What may happen once happens once, however often it is asked for and     *)
(* whatever is undone in between: a quote becomes one document, a template  *)
(* issues one invoice a period, a requisition is ordered once, a receipt is *)
(* billed once.  An invoice is submitted once, and once more for each       *)
(* transaction lost after the provider took it, unless the provider         *)
(* recognises its key.                                                      *)
HappensOnce ==
  /\ part = "sales" => Sales!QuoteBecomesOneDocument /\ Sales!SubmittedOnce
  /\ part = "recurring" => Recurring!OncePerMonth
  /\ part = "purchases" => Purchases!AuthorityIsSpentOnce /\ Purchases!ReceiptMatchesOnce

(* The quantities a sales order or a purchase order keeps of what was       *)
(* invoiced, received and billed are those of the documents there are.      *)
QuantitiesAddUp ==
  /\ part = "sales" => Sales!OrdersKnowWhatIsInvoiced
  /\ part = "purchases" => Purchases!QuantitiesAddUp

(* However receipts, notes, write-offs and refunds are mixed: what is due   *)
(* of an invoice is its total less the rows behind it, and no credit is     *)
(* used twice; the receivables and advance accounts hold what the open      *)
(* items say, each at the rate it was booked at.                            *)
ReceivablesAddUp ==
  part = "receivables" => SettlementAddsUp /\ CreditIsUsedOnce /\ LedgerFollowsOpenItems

(* Of two claims for one expense the later carries a flag: see              *)
(* ExpenseClaims.                                                           *)
EverySecondClaimIsFlagged == part = "claims" => Expenses!EverySecondClaimIsFlagged
-----------------------------------------------------------------------------
(* The values TLC checks it with.                                           *)

(* Two orders of one unit each.                                             *)
MCOne(S) == [x \in S |-> 1]
MCSold == MCOne({o1, o2})
MCSignals == MCOne({b1, b2})

(* A monthly and a quarterly template over a year of months, both due at    *)
(* the end of a long one.                                                   *)
MCFrequency == <<1, 3>>
MCStart == <<131, 331>>
MCEnd == <<515, 930>>
MCMonths == <<31, 28, 31, 30, 31, 30, 31, 31, 30, 31, 30, 31>>

(* One user spends the same twice and something else, another the same too. *)
MCClaimant == <<1, 1, 1, 2>>
MCItem == <<1, 1, 2, 1>>

(* Two invoices and two credit notes of one customer, and a receipt of two  *)
(* units booked at another rate.                                            *)
MCBooked == 1 :> 2 @@ 2 :> 2 @@ r1 :> 3
MCReceived == r1 :> 2
MCFigures == [gross : {1, 2}, discount : {0, 1}]
MCCustomerOf == [d \in {1, 2, c1, c2} |-> "k"]
=============================================================================

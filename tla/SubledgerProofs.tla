--------------------------- MODULE SubledgerProofs ---------------------------
(***************************************************************************)
(* Proofs about the documents Subledger puts side by side, for every value *)
(* of its constants.  A step of the subledger is a step of one component   *)
(* and leaves the others alone, so each component keeps the invariant it   *)
(* keeps by itself; Only... below says so of each.                         *)
(***************************************************************************)
EXTENDS Subledger

LEMMA OnlyExpenses ==
  /\ SubledgerInit => Expenses!Init
  /\ [SubledgerNext]_subledger => [Expenses!Next]_(Expenses!vars)
  BY DEF SubledgerInit, SubledgerNext, subledger, expenses, Expenses!vars

LEMMA OnlySales ==
  /\ SubledgerInit => Sales!Init
  /\ [SubledgerNext]_subledger => [Sales!Next]_(Sales!vars)
  BY DEF SubledgerInit, SubledgerNext, subledger, sales, Sales!vars

LEMMA OnlyPurchases ==
  /\ SubledgerInit => Purchases!Init
  /\ [SubledgerNext]_subledger => [Purchases!Next]_(Purchases!vars)
  BY DEF SubledgerInit, SubledgerNext, subledger, purchases, Purchases!vars

LEMMA OnlyRecurring ==
  /\ SubledgerInit => Recurring!Init
  /\ [SubledgerNext]_subledger => [Recurring!Next]_(Recurring!vars)
  BY DEF SubledgerInit, SubledgerNext, subledger, recurring, Recurring!vars

LEMMA OnlyReceivables ==
  /\ SubledgerInit => Init
  /\ [SubledgerNext]_subledger => [Next]_vars
  BY DEF SubledgerInit, SubledgerNext, subledger, vars
-----------------------------------------------------------------------------
(***************************************************************************)
(* Expense claims.  What a claim's flag says of other claims holds because *)
(* a draft counts and no claim leaves the table.                           *)
(***************************************************************************)
Submitted == {"SUBMITTED", "APPROVED", "POSTED"}

ClaimsInv ==
  /\ claim \in [Claims -> {Expenses!None, "DRAFT"} \cup Submitted]
  /\ approver \in [Claims -> Users \cup {Expenses!None}]
  /\ payable = [c \in Claims |-> IF claim[c] = "POSTED" THEN 1 ELSE 0]
  /\ \A c \in Claims : claim[c] \in {"APPROVED", "POSTED"} => approver[c] \in Users \ {Claimant[c]}
  /\ \A c, d \in Claims :
       c # d /\ Claimant[c] = Claimant[d] /\ Item[c] = Item[d]
         /\ claim[c] \in Submitted /\ claim[d] \in Submitted => c \in flagged \/ d \in flagged

LEMMA ClaimsInit == Expenses!Init => ClaimsInv
  BY DEF Expenses!Init, ClaimsInv, Submitted, Expenses!None

LEMMA ClaimsStep == ClaimsInv /\ [Expenses!Next]_(Expenses!vars) => ClaimsInv'
<1> SUFFICES ASSUME ClaimsInv, [Expenses!Next]_(Expenses!vars) PROVE ClaimsInv'
  OBVIOUS
<1> USE DEF ClaimsInv, Submitted, Expenses!None
<1>1. ASSUME NEW c \in Claims, Expenses!CreateExpenseClaim(c) PROVE ClaimsInv'
  BY <1>1 DEF Expenses!CreateExpenseClaim
<1>2. ASSUME NEW c \in Claims, Expenses!SubmitExpenseClaim(c) PROVE ClaimsInv'
  <2>1. \A d \in Claims \ {c} :
          claim[d] \in Submitted /\ Claimant[d] = Claimant[c] /\ Item[d] = Item[c] => c \in flagged'
    BY <1>2 DEF Expenses!SubmitExpenseClaim, Expenses!Prior
  <2>2. flagged \subseteq flagged' /\ claim' = [claim EXCEPT ![c] = "SUBMITTED"]
    BY <1>2 DEF Expenses!SubmitExpenseClaim
  <2> QED
    BY <1>2, <2>1, <2>2 DEF Expenses!SubmitExpenseClaim
<1>3. ASSUME NEW c \in Claims, NEW u \in Users, Expenses!ApproveExpenseClaim(c, u) PROVE ClaimsInv'
  BY <1>3 DEF Expenses!ApproveExpenseClaim
<1>4. ASSUME NEW c \in Claims, Expenses!PostExpenseClaim(c) PROVE ClaimsInv'
  BY <1>4 DEF Expenses!PostExpenseClaim
<1>5. CASE UNCHANGED Expenses!vars
  BY <1>5 DEF Expenses!vars
<1> QED
  BY <1>1, <1>2, <1>3, <1>4, <1>5 DEF Expenses!Next

LEMMA ClaimsImply == ClaimsInv => Expenses!EverySecondClaimIsFlagged
<1> SUFFICES ASSUME ClaimsInv PROVE Expenses!EverySecondClaimIsFlagged
  OBVIOUS
<1>1. ASSUME NEW c \in Claims, {claim[c]} \cap {Expenses!None, "DRAFT"} = {} PROVE claim[c] \in Submitted
  BY <1>1 DEF ClaimsInv
<1>2. \A c \in Claims : payable[c] > 0 =>
        payable[c] = 1 /\ approver[c] \in Users \ {Claimant[c]}
  BY DEF ClaimsInv
<1> QED
  BY <1>1, <1>2 DEF ClaimsInv, Expenses!EverySecondClaimIsFlagged

(* For any users and claims: the second of two claims for one item finds    *)
(* the first, in whatever order they are drafted and submitted, since a     *)
(* draft counts and no claim leaves the table.                              *)
THEOREM SecondIsFlagged == SubledgerSpec => []EverySecondClaimIsFlagged
<1>1. ClaimsInv => EverySecondClaimIsFlagged
  BY ClaimsImply DEF EverySecondClaimIsFlagged
<1> QED
  BY <1>1, ClaimsInit, ClaimsStep, OnlyExpenses, PTL DEF SubledgerSpec
-----------------------------------------------------------------------------
(***************************************************************************)
(* Quotes, orders and invoices.  An invoice names the quote it was made    *)
(* from, and the quote names it back; an order names the quote it was made *)
(* from, but others may name it too.  An order is only invoiced once it    *)
(* exists, or a new order of that key would begin with less than the       *)
(* invoices hold of it.                                                    *)
(***************************************************************************)
Sold == [status : {"none", "DRAFT", "CONFIRMED"}, quote : Quotes \cup {Sales!None}, invoiced : Int]
Invoiced == [status : {"none", "DRAFT", "POSTED", "PAID"}, quote : Quotes \cup {Sales!None},
             lines : [SalesOrders -> Nat]]
Submission == [status : {"none", "PENDING", "SUBMITTED", "ACCEPTED", "REJECTED"}, attempts : Nat]

SalesShape ==
  /\ quote \in [Quotes -> [status : {"none", "DRAFT", "ACCEPTED", "CONVERTED"},
                           became : SalesOrders \cup OrderInvoices \cup {Sales!None}]]
  /\ salesOrder \in [SalesOrders -> Sold]
  /\ orderInvoice \in [OrderInvoices -> Invoiced]
  /\ einvoice \in [OrderInvoices -> Submission]
  /\ sending \in [OrderInvoices -> Sales!Took \cup {"none", "REJECTED"}]
  /\ taken \in [OrderInvoices -> Nat] /\ lost \in [OrderInvoices -> Nat]

QuotesAgree ==
  /\ \A q \in Quotes :
       IF quote[q].status = "CONVERTED"
       THEN \/ quote[q].became \in OrderInvoices /\ orderInvoice[quote[q].became].quote = q
            \/ /\ quote[q].became \in SalesOrders /\ salesOrder[quote[q].became].status # Sales!None
               /\ salesOrder[quote[q].became].quote = q
       ELSE quote[q].became = Sales!None
  /\ \A i \in OrderInvoices : orderInvoice[i].quote # Sales!None =>
       quote[orderInvoice[i].quote].status = "CONVERTED" /\ quote[orderInvoice[i].quote].became = i

NothingBefore ==
  /\ \A i \in OrderInvoices : orderInvoice[i].status = Sales!None => orderInvoice[i] = Sales!NoInvoice
  /\ \A o \in SalesOrders : salesOrder[o].status = Sales!None => salesOrder[o].invoiced = 0

(* The row is locked while its call is open, so that it cannot say before   *)
(* the call's own commit that the provider took it.                         *)
Known(i) == einvoice[i].status \in Sales!Took \/ sending[i] \in Sales!Took
TakenAsKnown ==
  \A i \in OrderInvoices :
    /\ sending[i] # "none" => einvoice[i].status \notin Sales!Took
    /\ Known(i) => taken[i] > 0
    /\ taken[i] <= lost[i] + (IF Known(i) THEN 1 ELSE 0)
    /\ i \in Recognised => taken[i] <= 1

Of(o) == [i \in OrderInvoices |-> orderInvoice[i].lines[o]]
InvoicedAddsUp ==
  \A o \in SalesOrders :
    salesOrder[o].invoiced = Sum(Of(o), OrderInvoices) /\ salesOrder[o].invoiced <= SoldQuantity[o]

SalesInv == SalesShape /\ QuotesAgree /\ NothingBefore /\ TakenAsKnown /\ InvoicedAddsUp

LEMMA SalesFacts ==
  /\ IsFiniteSet(OrderInvoices) /\ SalesOrders \cap OrderInvoices = {}
  /\ Sales!None \notin Quotes \cup SalesOrders \cup OrderInvoices
  /\ SoldQuantity \in [SalesOrders -> Nat] /\ InvoicedQuantities \subseteq Nat
  BY SalesAssumption, Zenon DEF Sales!OrdersAssumption, Sales!IsFiniteSet, IsFiniteSet

LEMMA SalesSumIs == \A f, S : Sales!Sum(f, S) = Sum(f, S)
  BY Zenon DEF Sales!Sum, Sum, Sales!MapThenSumSet, MapThenSumSet, Sales!MapThenFoldSet, MapThenFoldSet

LEMMA SalesInit == Sales!Init => SalesInv
<1> SUFFICES ASSUME Sales!Init PROVE SalesInv
  OBVIOUS
<1> USE DEF Sales!None
<1>0. Sales!NoInvoice = [status |-> "none", quote |-> "none", lines |-> [o \in SalesOrders |-> 0]]
  BY DEF Sales!NoInvoice
<1>1. Sales!NoInvoice \in Invoiced
  BY <1>0 DEF Invoiced
<1>2. SalesShape
  BY <1>1 DEF Sales!Init, SalesShape, Sold, Submission, Sales!Took
<1>3. QuotesAgree /\ NothingBefore /\ TakenAsKnown
  BY <1>0 DEF Sales!Init, QuotesAgree, NothingBefore, TakenAsKnown, Known, Sales!Took
<1>4. ASSUME NEW o \in SalesOrders
      PROVE  salesOrder[o].invoiced = Sum(Of(o), OrderInvoices) /\ salesOrder[o].invoiced <= SoldQuantity[o]
  <2>1. \A i \in OrderInvoices : Of(o)[i] = 0
    BY <1>0 DEF Of, Sales!Init
  <2>2. Sum(Of(o), OrderInvoices) = 0
    BY <2>1, SalesFacts, SumNat
  <2> QED
    BY <2>2, SalesFacts DEF Sales!Init
<1> QED
  BY <1>2, <1>3, <1>4 DEF SalesInv, InvoicedAddsUp

LEMMA SalesFields ==
  ASSUME SalesInv
  PROVE  /\ \A q \in Quotes : quote[q].status \in {"none", "DRAFT", "ACCEPTED", "CONVERTED"}
         /\ \A o \in SalesOrders : salesOrder[o] \in Sold /\ salesOrder[o].invoiced \in Int
         /\ \A i \in OrderInvoices : /\ orderInvoice[i] \in Invoiced
                                     /\ \A o \in SalesOrders : orderInvoice[i].lines[o] \in Nat
         /\ \A o \in SalesOrders, i \in OrderInvoices : Of(o)[i] = orderInvoice[i].lines[o]
         /\ \A o \in SalesOrders : SoldQuantity[o] \in Nat
  BY SalesFacts DEF SalesInv, SalesShape, Sold, Invoiced, Of

(* What neither an order nor an invoice's lines lose is still the sum.      *)
LEMMA InvoicedKept ==
  ASSUME SalesInv,
         \A o \in SalesOrders : salesOrder'[o].invoiced = salesOrder[o].invoiced,
         \A i \in OrderInvoices : orderInvoice'[i].lines = orderInvoice[i].lines
  PROVE  InvoicedAddsUp'
<1> SUFFICES ASSUME NEW o \in SalesOrders
             PROVE  salesOrder'[o].invoiced = Sum(Of(o)', OrderInvoices)
                    /\ salesOrder'[o].invoiced <= SoldQuantity[o]
  BY DEF InvoicedAddsUp
<1>1. \A i \in OrderInvoices : Of(o)[i] = Of(o)'[i]
  BY DEF Of
<1>2. Sum(Of(o), OrderInvoices) = Sum(Of(o)', OrderInvoices)
  BY <1>1, SalesFacts, SumAgrees
<1> QED
  BY <1>2 DEF SalesInv, InvoicedAddsUp

(* What is not there counts for nothing in any order.                       *)
LEMMA NoInvoiceIs ==
  /\ Sales!NoInvoice = [status |-> "none", quote |-> "none", lines |-> [o \in SalesOrders |-> 0]]
  /\ Sales!NoInvoice \in Invoiced
  /\ \A o \in SalesOrders : Sales!NoInvoice.lines[o] = 0
<1>1. Sales!NoInvoice = [status |-> "none", quote |-> "none", lines |-> [o \in SalesOrders |-> 0]]
  BY DEF Sales!NoInvoice, Sales!None
<1> QED
  BY <1>1 DEF Invoiced, Sales!None

(* What keeps the quotes, and what the other documents say of them.         *)
LEMMA QuotesKept ==
  ASSUME QuotesAgree, quote' = quote,
         \A i \in OrderInvoices : orderInvoice'[i].quote = orderInvoice[i].quote,
         \A o \in SalesOrders : salesOrder[o].status # Sales!None =>
           salesOrder'[o].quote = salesOrder[o].quote /\ salesOrder'[o].status # Sales!None
  PROVE  QuotesAgree'
  BY DEF QuotesAgree

LEMMA CreateQuoteStep ==
  ASSUME SalesInv, NEW q \in Quotes, Sales!CreateQuote(q) \/ Sales!AcceptQuote(q)
  PROVE  SalesInv'
<1> USE DEF Sales!None
<1>1. PICK st \in {"DRAFT", "ACCEPTED"} :
        /\ quote' = [quote EXCEPT ![q].status = st] /\ quote[q].status # "CONVERTED"
        /\ UNCHANGED <<lapsed, salesOrder, orderInvoice, einvoice, sending, lost, taken>>
  BY DEF Sales!CreateQuote, Sales!AcceptQuote
<1>2. SalesShape'
  BY <1>1 DEF SalesInv, SalesShape
<1>3. QuotesAgree'
  BY <1>1, SalesFacts DEF SalesInv, QuotesAgree, SalesShape, Invoiced
<1>4. NothingBefore' /\ TakenAsKnown'
  BY <1>1 DEF SalesInv, NothingBefore, TakenAsKnown, Known
<1>5. InvoicedAddsUp'
  BY <1>1, InvoicedKept
<1> QED
  BY <1>2, <1>3, <1>4, <1>5 DEF SalesInv

LEMMA ConvertToOrderStep ==
  ASSUME SalesInv, NEW q \in Quotes, NEW o \in SalesOrders, Sales!ConvertQuoteToOrder(q, o)
  PROVE  SalesInv'
<1> USE DEF Sales!None
<1>1. /\ quote[q].status = "ACCEPTED" /\ salesOrder[o].status = "none"
      /\ salesOrder' = [salesOrder EXCEPT ![o] = [status |-> "DRAFT", quote |-> q, invoiced |-> 0]]
      /\ quote' = [quote EXCEPT ![q] = [status |-> "CONVERTED", became |-> o]]
      /\ UNCHANGED <<lapsed, orderInvoice, einvoice, sending, lost, taken>>
  BY DEF Sales!ConvertQuoteToOrder, Sales!Convertible, Sales!MarkQuoteConverted
<1>2. SalesShape'
  BY <1>1 DEF SalesInv, SalesShape, Sold
<1>3. QuotesAgree'
  BY <1>1, SalesFacts DEF SalesInv, QuotesAgree, SalesShape, Sold, Invoiced
<1>4. NothingBefore' /\ TakenAsKnown'
  BY <1>1 DEF SalesInv, NothingBefore, TakenAsKnown, Known, SalesShape
<1>5. \A p \in SalesOrders : salesOrder'[p].invoiced = salesOrder[p].invoiced
  BY <1>1 DEF SalesInv, NothingBefore, SalesShape
<1>6. InvoicedAddsUp'
  BY <1>1, <1>5, InvoicedKept
<1> QED
  BY <1>2, <1>3, <1>4, <1>6 DEF SalesInv

LEMMA ConvertToInvoiceStep ==
  ASSUME SalesInv, NEW q \in Quotes, NEW i \in OrderInvoices, Sales!ConvertQuoteToInvoice(q, i)
  PROVE  SalesInv'
<1> USE DEF Sales!None
<1>1. PICK new : new = [Sales!NoInvoice EXCEPT !.status = "DRAFT", !.quote = q]
  OBVIOUS
<1>2. /\ quote[q].status = "ACCEPTED" /\ orderInvoice[i].status = "none"
      /\ orderInvoice' = [orderInvoice EXCEPT ![i] = new]
      /\ quote' = [quote EXCEPT ![q] = [status |-> "CONVERTED", became |-> i]]
      /\ UNCHANGED <<lapsed, salesOrder, einvoice, sending, lost, taken>>
  BY <1>1 DEF Sales!ConvertQuoteToInvoice, Sales!Convertible, Sales!MarkQuoteConverted
<1>3. /\ new \in Invoiced /\ new.status = "DRAFT" /\ new.quote = q
      /\ new.lines = Sales!NoInvoice.lines
  <2> HIDE DEF Sales!None
  <2> QED
    BY <1>1, NoInvoiceIs DEF Invoiced
<1>4. SalesShape'
  BY <1>2, <1>3 DEF SalesInv, SalesShape
<1>5. QuotesAgree'
  <2>1. /\ orderInvoice'[i].quote = q /\ quote'[q].status = "CONVERTED" /\ quote'[q].became = i
        /\ \A j \in OrderInvoices \ {i} : orderInvoice'[j] = orderInvoice[j]
        /\ \A p \in Quotes \ {q} : quote'[p] = quote[p]
    BY <1>2, <1>3 DEF SalesInv, SalesShape
  <2>2. orderInvoice[i].quote = "none"
    BY <1>2, NoInvoiceIs DEF SalesInv, NothingBefore
  <2>3. \A j \in OrderInvoices : orderInvoice[j].quote \in Quotes \cup {"none"}
    BY DEF SalesInv, SalesShape, Invoiced
  <2>4. \A j \in OrderInvoices : orderInvoice[j].quote # q
    BY <1>2, SalesFacts DEF SalesInv, QuotesAgree
  <2> QED
    BY <1>2, <2>1, <2>2, <2>3, <2>4, SalesFacts DEF SalesInv, QuotesAgree
<1>6. NothingBefore' /\ TakenAsKnown'
  BY <1>2, <1>3 DEF SalesInv, NothingBefore, TakenAsKnown, Known, SalesShape
<1>7. orderInvoice[i].lines = Sales!NoInvoice.lines
  BY <1>2 DEF SalesInv, NothingBefore
<1>8. \A j \in OrderInvoices : orderInvoice'[j].lines = orderInvoice[j].lines
  BY <1>2, <1>3, <1>7 DEF SalesInv, SalesShape
<1>9. InvoicedAddsUp'
  BY <1>2, <1>8, InvoicedKept
<1> QED
  BY <1>4, <1>5, <1>6, <1>9 DEF SalesInv

LEMMA CreateOrderStep ==
  ASSUME SalesInv, NEW q \in Quotes \cup {Sales!None}, NEW o \in SalesOrders,
         Sales!CreateSalesOrder(o, q) \/ Sales!ConfirmSalesOrder(o)
  PROVE  SalesInv'
<1> USE DEF Sales!None
<1>1. PICK row \in Sold :
        /\ salesOrder' = [salesOrder EXCEPT ![o] = row] /\ row.status # "none"
        /\ salesOrder[o].status # "none" => row.quote = salesOrder[o].quote
        /\ row.invoiced = salesOrder[o].invoiced
        /\ UNCHANGED <<lapsed, quote, orderInvoice, einvoice, sending, lost, taken>>
  <2>1. CASE Sales!CreateSalesOrder(o, q)
    <3>1. [status |-> "DRAFT", quote |-> q, invoiced |-> 0] \in Sold
      BY DEF Sold
    <3> QED
      BY <2>1, <3>1 DEF Sales!CreateSalesOrder, SalesInv, NothingBefore, Sold
  <2>2. CASE Sales!ConfirmSalesOrder(o)
    <3>1. [salesOrder[o] EXCEPT !.status = "CONFIRMED"] \in Sold
      BY SalesFields DEF Sold
    <3>2. salesOrder' = [salesOrder EXCEPT ![o] = [salesOrder[o] EXCEPT !.status = "CONFIRMED"]]
      BY <2>2 DEF Sales!ConfirmSalesOrder
    <3> QED
      BY <2>2, <3>1, <3>2, SalesFields DEF Sales!ConfirmSalesOrder, Sold
  <2> QED
    BY <2>1, <2>2
<1>2. SalesShape'
  BY <1>1 DEF SalesInv, SalesShape
<1>3. QuotesAgree'
  <2>1. \A p \in SalesOrders : salesOrder[p].status # "none" =>
          salesOrder'[p].quote = salesOrder[p].quote /\ salesOrder'[p].status # "none"
    BY <1>1 DEF SalesInv, SalesShape
  <2> QED
    BY <1>1, <2>1, QuotesKept DEF SalesInv
<1>4. NothingBefore' /\ TakenAsKnown'
  BY <1>1 DEF SalesInv, NothingBefore, TakenAsKnown, Known, SalesShape
<1>5. \A p \in SalesOrders : salesOrder'[p].invoiced = salesOrder[p].invoiced
  BY <1>1 DEF SalesInv, SalesShape
<1>6. InvoicedAddsUp'
  BY <1>1, <1>5, InvoicedKept
<1> QED
  BY <1>2, <1>3, <1>4, <1>6 DEF SalesInv

(* An invoice's lines are written: what was on them is taken back from the  *)
(* orders, what is on them now is added.                                    *)
WriteLines(i, change, new) ==
  /\ new \in Invoiced /\ new.status # "none" /\ new.quote = orderInvoice[i].quote
  /\ orderInvoice' = [orderInvoice EXCEPT ![i] = new]
  /\ \A o \in SalesOrders : change[o] = new.lines[o] - orderInvoice[i].lines[o]
  /\ salesOrder' = [o \in SalesOrders |-> [salesOrder[o] EXCEPT !.invoiced = @ + change[o]]]
  /\ \A o \in SalesOrders : new.lines[o] > 0 =>
       salesOrder[o].status # Sales!None /\ salesOrder'[o].invoiced <= SoldQuantity[o]
  /\ UNCHANGED <<lapsed, quote, einvoice, sending, lost, taken>>

LEMMA WriteLinesStep ==
  ASSUME SalesInv, NEW i \in OrderInvoices, NEW change, NEW new, WriteLines(i, change, new)
  PROVE  SalesInv'
<1> USE DEF Sales!None
<1>1. /\ new \in Invoiced /\ new.status # "none" /\ new.quote = orderInvoice[i].quote
      /\ orderInvoice' = [orderInvoice EXCEPT ![i] = new]
      /\ \A o \in SalesOrders : new.lines[o] > 0 =>
           salesOrder[o].status # "none" /\ salesOrder'[o].invoiced <= SoldQuantity[o]
      /\ UNCHANGED <<lapsed, quote, einvoice, sending, lost, taken>>
  BY DEF WriteLines
<1>2. \A o \in SalesOrders : /\ orderInvoice[i].lines[o] \in Nat /\ new.lines[o] \in Nat
                            /\ salesOrder[o] \in Sold /\ salesOrder[o].invoiced \in Int
  BY <1>1, SalesFields DEF Invoiced
<1>3. ASSUME NEW o \in SalesOrders
      PROVE  /\ salesOrder'[o] \in Sold
             /\ salesOrder'[o].invoiced = salesOrder[o].invoiced + (new.lines[o] - orderInvoice[i].lines[o])
             /\ salesOrder'[o].status = salesOrder[o].status
             /\ salesOrder'[o].quote = salesOrder[o].quote
  <2>1. PICK n \in Int : /\ n = salesOrder[o].invoiced + (new.lines[o] - orderInvoice[i].lines[o])
                         /\ n = salesOrder[o].invoiced + change[o]
    BY <1>2 DEF WriteLines
  <2>2. salesOrder'[o] = [salesOrder[o] EXCEPT !.invoiced = n]
    BY <2>1 DEF WriteLines
  <2> QED
    BY <1>2, <2>1, <2>2 DEF Sold
<1>4. salesOrder' \in [SalesOrders -> Sold]
  <2>1. salesOrder' = [o \in SalesOrders |-> salesOrder'[o]]
    BY DEF WriteLines
  <2> QED
    BY <1>3, <2>1
<1>5. SalesShape'
  BY <1>1, <1>4 DEF SalesInv, SalesShape
<1>6. QuotesAgree'
  <2>1. \A j \in OrderInvoices : orderInvoice'[j].quote = orderInvoice[j].quote
    BY <1>1 DEF SalesInv, SalesShape
  <2> QED
    BY <1>1, <1>3, <2>1, QuotesKept DEF SalesInv
<1>7. InvoicedAddsUp'
  <2> SUFFICES ASSUME NEW o \in SalesOrders
               PROVE  salesOrder'[o].invoiced = Sum(Of(o)', OrderInvoices)
                      /\ salesOrder'[o].invoiced <= SoldQuantity[o]
    BY DEF InvoicedAddsUp
  <2>1. PICK f, g : f = Of(o) /\ g = Of(o)'
    OBVIOUS
  <2>2. \A j \in OrderInvoices : f[j] = orderInvoice[j].lines[o] /\ g[j] = orderInvoice'[j].lines[o]
    BY <2>1 DEF Of
  <2>3. \A j \in OrderInvoices : j # i => g[j] = f[j]
    BY <1>1, <2>2 DEF SalesInv, SalesShape
  <2>4. g[i] = new.lines[o] /\ f[i] = orderInvoice[i].lines[o]
    BY <1>1, <2>2 DEF SalesInv, SalesShape
  <2>5. \A j \in OrderInvoices : f[j] \in Int /\ g[j] \in Int
    <3>1. \A j \in OrderInvoices : f[j] \in Int
      BY <2>2, SalesFields
    <3> QED
      BY <1>2, <2>3, <2>4, <3>1
  <2>6. Sum(g, OrderInvoices) = Sum(f, OrderInvoices) + (g[i] - f[i])
    <3>1. DifferAt(f, g, OrderInvoices, i)
      BY <2>3, <2>5, SalesFacts DEF DifferAt
    <3> QED
      BY ONLY <3>1, SumDiffers
  <2>7. salesOrder[o].invoiced = Sum(f, OrderInvoices) /\ salesOrder[o].invoiced <= SoldQuantity[o]
    BY <2>1 DEF SalesInv, InvoicedAddsUp
  <2>8. salesOrder'[o].invoiced <= SoldQuantity[o]
    BY <1>1, <1>2, <1>3, <2>7, SalesFacts
  <2> QED
    BY <1>2, <1>3, <2>1, <2>4, <2>6, <2>7, <2>8
<1>8. ASSUME NEW o \in SalesOrders, salesOrder[o].status = "none"
      PROVE  salesOrder'[o].invoiced = 0
  <2>1. salesOrder[o].invoiced = 0 /\ salesOrder[o].invoiced = Sum(Of(o), OrderInvoices)
    BY <1>8 DEF SalesInv, NothingBefore, InvoicedAddsUp
  <2>2. Of(o)[i] \in Nat /\ Of(o)[i] <= 0
    <3>1. \A j \in OrderInvoices : Of(o)[j] \in Nat
      BY SalesFields
    <3> QED
      BY <2>1, <3>1, SalesFacts, SumNat
  <2>3. orderInvoice[i].lines[o] = 0
    BY <1>2, <2>2, SalesFields
  <2>4. new.lines[o] = 0
    BY <1>1, <1>2, <1>8
  <2>5. salesOrder'[o].invoiced = salesOrder[o].invoiced + (new.lines[o] - orderInvoice[i].lines[o])
    BY <1>3
  <2> QED
    BY ONLY <2>1, <2>3, <2>4, <2>5
<1>9. NothingBefore'
  BY <1>1, <1>3, <1>8 DEF SalesInv, NothingBefore, SalesShape
<1>10. TakenAsKnown'
  BY <1>1 DEF SalesInv, TakenAsKnown, Known
<1> QED
  BY <1>5, <1>6, <1>7, <1>9, <1>10 DEF SalesInv

LEMMA CreateInvoiceStep ==
  ASSUME SalesInv, NEW i \in OrderInvoices, NEW ls \in [SalesOrders -> InvoicedQuantities],
         Sales!CreateInvoice(i, ls)
  PROVE  SalesInv'
<1>1. PICK new : new = [status |-> "DRAFT", quote |-> Sales!None, lines |-> ls]
  OBVIOUS
<1>2. new \in Invoiced /\ new.status # "none" /\ new.quote = Sales!None /\ new.lines = ls
  BY <1>1, SalesFacts DEF Invoiced
<1>3. orderInvoice[i] = Sales!NoInvoice
  BY DEF Sales!CreateInvoice, SalesInv, NothingBefore
<1>4. ASSUME NEW o \in SalesOrders PROVE ls[o] = new.lines[o] - orderInvoice[i].lines[o]
  <2>1. ls[o] \in Nat /\ new.lines[o] = ls[o]
    BY <1>2, SalesFacts
  <2>2. orderInvoice[i].lines[o] = 0
    BY <1>3, NoInvoiceIs
  <2> QED
    BY <2>1, <2>2
<1>5. orderInvoice[i].quote = new.quote
  BY <1>2, <1>3, NoInvoiceIs DEF Sales!None
<1>6. WriteLines(i, ls, new)
  BY <1>1, <1>2, <1>4, <1>5 DEF WriteLines, Sales!CreateInvoice, Sales!WithInvoiced, Sales!Writable
<1> QED
  BY <1>6, WriteLinesStep

LEMMA UpdateInvoiceStep ==
  ASSUME SalesInv, NEW i \in OrderInvoices, NEW ls \in [SalesOrders -> InvoicedQuantities],
         Sales!UpdateInvoice(i, ls)
  PROVE  SalesInv'
<1>1. PICK was \in Invoiced : was = orderInvoice[i] /\ was.status = "DRAFT"
  BY SalesFields DEF Sales!UpdateInvoice
<1>2. PICK new : new = [was EXCEPT !.lines = ls]
  OBVIOUS
<1>3. new \in Invoiced /\ new.status # "none" /\ new.quote = was.quote /\ new.lines = ls
  BY <1>1, <1>2, SalesFacts DEF Invoiced
<1>4. PICK change : change = Sales!Unwound(i, ls)
  OBVIOUS
<1>5. \A o \in SalesOrders : change[o] = new.lines[o] - orderInvoice[i].lines[o]
  BY <1>3, <1>4 DEF Sales!Unwound
<1>6. orderInvoice' = [orderInvoice EXCEPT ![i] = new]
  BY <1>1, <1>2 DEF Sales!UpdateInvoice
<1>7. WriteLines(i, change, new)
  BY <1>1, <1>3, <1>4, <1>5, <1>6 DEF WriteLines, Sales!UpdateInvoice, Sales!WithInvoiced, Sales!Writable
<1> QED
  BY <1>7, WriteLinesStep

LEMMA PostInvoiceStep ==
  ASSUME SalesInv, NEW i \in OrderInvoices, Sales!PostInvoice(i) \/ Sales!VoidOrCreditInvoice(i)
  PROVE  SalesInv'
<1> USE DEF Sales!None
<1>1. PICK was \in Invoiced, st \in {"POSTED", "PAID"}, new \in Invoiced :
        /\ was = orderInvoice[i] /\ was.status # "none" /\ new = [was EXCEPT !.status = st]
        /\ orderInvoice' = [orderInvoice EXCEPT ![i] = new]
        /\ UNCHANGED <<lapsed, quote, salesOrder, einvoice, sending, lost, taken>>
  <2>1. PICK was \in Invoiced : was = orderInvoice[i]
    BY SalesFields
  <2> QED
    BY <2>1 DEF Sales!PostInvoice, Sales!VoidOrCreditInvoice, Invoiced
<1>2. new \in Invoiced /\ new.status = st /\ new.quote = was.quote /\ new.lines = was.lines
  BY <1>1 DEF Invoiced
<1>3. SalesShape'
  BY <1>1, <1>2 DEF SalesInv, SalesShape
<1>4. QuotesAgree'
  BY <1>1, <1>2, SalesFacts DEF SalesInv, QuotesAgree, SalesShape, Invoiced
<1>5. NothingBefore' /\ TakenAsKnown'
  BY <1>1, <1>2 DEF SalesInv, NothingBefore, TakenAsKnown, Known, SalesShape
<1>6. \A j \in OrderInvoices : orderInvoice'[j].lines = orderInvoice[j].lines
  BY <1>1, <1>2 DEF SalesInv, SalesShape
<1>7. InvoicedAddsUp'
  BY <1>1, <1>6, InvoicedKept
<1> QED
  BY <1>3, <1>4, <1>5, <1>7 DEF SalesInv

(* A call, its commit, its loss: one invoice's submission changes.          *)
LEMMA SubmitStep ==
  ASSUME SalesInv, NEW i \in OrderInvoices,
         \/ \E answer \in Sales!Took \cup {"REJECTED"} : Sales!CallProvider(i, answer)
         \/ Sales!SubmitEInvoice(i) \/ Sales!RollBack(i) \/ Sales!NotTransmitted(i)
  PROVE  SalesInv'
<1> USE DEF Sales!None, Sales!Took
<1>1. UNCHANGED <<lapsed, quote, salesOrder, orderInvoice>>
  BY DEF Sales!CallProvider, Sales!SubmitEInvoice, Sales!RollBack, Sales!NotTransmitted
<1>0. /\ einvoice \in [OrderInvoices -> Submission]
      /\ sending \in [OrderInvoices -> Sales!Took \cup {"none", "REJECTED"}]
      /\ taken \in [OrderInvoices -> Nat] /\ lost \in [OrderInvoices -> Nat]
  BY DEF SalesInv, SalesShape
<1>2. PICK row, was, n, k :
        /\ row = einvoice[i] /\ was = sending[i] /\ n = taken[i] /\ k = lost[i]
  OBVIOUS
<1>9. /\ row \in Submission /\ was \in Sales!Took \cup {"none", "REJECTED"} /\ n \in Nat /\ k \in Nat
      /\ was # "none" => row.status \notin Sales!Took
      /\ row.status \in Sales!Took \/ was \in Sales!Took => n > 0
      /\ n <= k + (IF row.status \in Sales!Took \/ was \in Sales!Took THEN 1 ELSE 0)
      /\ i \in Recognised => n <= 1
  <2>1. /\ sending[i] # "none" => einvoice[i].status \notin Sales!Took
        /\ Known(i) => taken[i] > 0
        /\ taken[i] <= lost[i] + (IF Known(i) THEN 1 ELSE 0)
        /\ i \in Recognised => taken[i] <= 1
    BY DEF SalesInv, TakenAsKnown
  <2> QED
    BY <1>0, <1>2, <2>1 DEF Known
<1> DEFINE Becomes(row1, is, n1, k1) ==
      /\ einvoice' = [einvoice EXCEPT ![i] = row1] /\ sending' = [sending EXCEPT ![i] = is]
      /\ taken' = [taken EXCEPT ![i] = n1] /\ lost' = [lost EXCEPT ![i] = k1]
      /\ is # "none" => row1.status \notin Sales!Took
      /\ row1.status \in Sales!Took \/ is \in Sales!Took => n1 > 0
      /\ n1 <= k1 + (IF row1.status \in Sales!Took \/ is \in Sales!Took THEN 1 ELSE 0)
      /\ i \in Recognised => n1 <= 1
<1> HIDE DEF Becomes
<1>3. \E row1 \in Submission, is \in Sales!Took \cup {"none", "REJECTED"}, n1 \in Nat, k1 \in Nat :
        Becomes(row1, is, n1, k1)
  <2>1. ASSUME NEW answer \in Sales!Took \cup {"REJECTED"}, Sales!CallProvider(i, answer)
        PROVE  \E n1 \in Nat : Becomes(row, answer, n1, k)
    <3>1. /\ row.status \notin Sales!Took /\ was = "none" /\ sending' = [sending EXCEPT ![i] = answer]
          /\ einvoice' = [einvoice EXCEPT ![i] = row] /\ lost' = [lost EXCEPT ![i] = k]
      BY <1>0, <1>2, <1>9, <2>1 DEF Sales!CallProvider, Sales!Sendable
    <3>2. PICK n1 : n1 = n + Sales!Entries(i, answer)
      OBVIOUS
    <3>3. taken' = [taken EXCEPT ![i] = n1]
      BY <1>0, <1>2, <2>1, <3>2 DEF Sales!CallProvider
    <3>4. CASE i \in Recognised /\ n > 0
      <4>1. Sales!Entered(i) /\ Sales!Entries(i, answer) = 0
        BY <1>2, <3>4 DEF Sales!Entries, Sales!Entered
      <4>2. answer \in Sales!Took /\ n1 = n
        BY <1>9, <2>1, <3>2, <4>1 DEF Sales!CallProvider
      <4>3. Becomes(row, answer, n1, k)
        BY <1>9, <3>1, <3>3, <3>4, <4>2 DEF Becomes
      <4> QED
        BY <1>9, <4>2, <4>3
    <3>5. CASE ~(i \in Recognised /\ n > 0)
      <4>1. Sales!Entries(i, answer) = IF answer \in Sales!Took THEN 1 ELSE 0
        BY <1>2, <3>5 DEF Sales!Entries, Sales!Entered
      <4>2. n1 \in Nat /\ n1 = n + (IF answer \in Sales!Took THEN 1 ELSE 0)
        BY <1>9, <3>2, <4>1
      <4>3. Becomes(row, answer, n1, k)
        BY <1>9, <3>1, <3>3, <3>5, <4>2 DEF Becomes
      <4> QED
        BY <4>2, <4>3
    <3> QED
      BY <3>4, <3>5
  <2>2. ASSUME Sales!SubmitEInvoice(i)
        PROVE  \E row1 \in Submission : Becomes(row1, "none", n, k)
    <3>1. PICK row1 : row1 = [status |-> was, attempts |-> row.attempts + 1]
      OBVIOUS
    <3>2. row1 \in Submission /\ row1.status = was /\ was # "none"
      BY <1>0, <1>2, <1>9, <2>2, <3>1 DEF Submission, Sales!SubmitEInvoice
    <3>3. /\ einvoice' = [einvoice EXCEPT ![i] = row1] /\ sending' = [sending EXCEPT ![i] = "none"]
          /\ taken' = [taken EXCEPT ![i] = n] /\ lost' = [lost EXCEPT ![i] = k]
      BY <1>0, <1>2, <1>9, <2>2, <3>1 DEF Sales!SubmitEInvoice
    <3>4. Becomes(row1, "none", n, k)
      BY <1>9, <3>2, <3>3 DEF Becomes
    <3> QED
      BY <3>2, <3>4
  <2>3. ASSUME Sales!RollBack(i)
        PROVE  \E k1 \in Nat : Becomes(row, "none", n, k1)
    <3>1. /\ einvoice' = [einvoice EXCEPT ![i] = row] /\ sending' = [sending EXCEPT ![i] = "none"]
          /\ taken' = [taken EXCEPT ![i] = n]
      BY <1>0, <1>2, <1>9, <2>3 DEF Sales!RollBack
    <3>2. PICK k1 : k1 = IF was \in Sales!Took THEN k + 1 ELSE k
      OBVIOUS
    <3>3. k1 \in Nat /\ lost' = [lost EXCEPT ![i] = k1]
      <4>1. CASE was \in Sales!Took
        BY <1>0, <1>2, <1>9, <2>3, <3>2, <4>1 DEF Sales!RollBack
      <4>2. CASE was \notin Sales!Took
        <5>1. lost' = lost
          BY <1>2, <2>3, <4>2 DEF Sales!RollBack
        <5> QED
          BY <1>0, <1>2, <1>9, <3>2, <4>2, <5>1
      <4> QED
        BY <4>1, <4>2
    <3>4. Becomes(row, "none", n, k1)
      BY <1>9, <3>1, <3>2, <3>3 DEF Becomes
    <3> QED
      BY <3>3, <3>4
  <2>4. ASSUME Sales!NotTransmitted(i)
        PROVE  \E row1 \in Submission : Becomes(row1, was, n, k)
    <3>1. PICK row1 : row1 = [row EXCEPT !.status = "PENDING"]
      OBVIOUS
    <3>2. row1 \in Submission /\ row1.status = "PENDING"
      BY <1>2, <1>9, <3>1 DEF Submission
    <3>3. /\ row.status \notin Sales!Took
          /\ einvoice' = [einvoice EXCEPT ![i] = row1] /\ sending' = [sending EXCEPT ![i] = was]
          /\ taken' = [taken EXCEPT ![i] = n] /\ lost' = [lost EXCEPT ![i] = k]
      BY <1>0, <1>2, <1>9, <2>4, <3>1 DEF Sales!NotTransmitted, Sales!Sendable
    <3>4. Becomes(row1, was, n, k)
      BY <1>9, <3>2, <3>3 DEF Becomes
    <3> QED
      BY <3>2, <3>4
  <2> HIDE DEF Sales!Took
  <2>5. "none" \in Sales!Took \cup {"none", "REJECTED"}
    OBVIOUS
  <2> QED
    BY <1>9, <2>1, <2>2, <2>3, <2>4, <2>5
<1>4. PICK row1 \in Submission, is \in Sales!Took \cup {"none", "REJECTED"}, n1 \in Nat, k1 \in Nat :
        Becomes(row1, is, n1, k1)
  BY <1>3
<1>5. SalesShape'
  BY <1>1, <1>4 DEF SalesInv, SalesShape, Becomes
<1>6. TakenAsKnown'
  BY <1>0, <1>4 DEF SalesInv, TakenAsKnown, Known, Becomes
<1>7. QuotesAgree' /\ NothingBefore'
  BY <1>1 DEF SalesInv, QuotesAgree, NothingBefore
<1>8. InvoicedAddsUp'
  BY <1>1, InvoicedKept
<1> QED
  BY <1>5, <1>6, <1>7, <1>8 DEF SalesInv

LEMMA SalesStep == SalesInv /\ [Sales!Next]_(Sales!vars) => SalesInv'
<1> SUFFICES ASSUME SalesInv, [Sales!Next]_(Sales!vars) PROVE SalesInv'
  OBVIOUS
<1>1. CASE UNCHANGED Sales!vars
  <2>1. UNCHANGED <<lapsed, quote, salesOrder, orderInvoice, einvoice, sending, lost, taken>>
    BY <1>1 DEF Sales!vars
  <2>2. InvoicedAddsUp'
    BY <2>1, InvoicedKept
  <2> QED
    BY <2>1, <2>2 DEF SalesInv, SalesShape, QuotesAgree, NothingBefore, TakenAsKnown, Known
<1>2. ASSUME NEW q \in Quotes, Sales!Lapse(q) PROVE SalesInv'
  <2>1. UNCHANGED <<quote, salesOrder, orderInvoice, einvoice, sending, lost, taken>>
    BY <1>2 DEF Sales!Lapse
  <2>2. InvoicedAddsUp'
    BY <2>1, InvoicedKept
  <2> QED
    BY <2>1, <2>2 DEF SalesInv, SalesShape, QuotesAgree, NothingBefore, TakenAsKnown, Known
<1> QED
  BY <1>1, <1>2, CreateQuoteStep, ConvertToOrderStep, ConvertToInvoiceStep, CreateOrderStep,
     CreateInvoiceStep, UpdateInvoiceStep, PostInvoiceStep, SubmitStep DEF Sales!Next

(* What has one element at most.                                            *)
LEMMA AtMostOne == ASSUME NEW S, \A x, y \in S : x = y PROVE Cardinality(S) <= 1
<1>1. CASE S = {}
  <2>1. Cardinality(S) = 0
    BY <1>1, FS_EmptySet
  <2> QED
    BY <2>1
<1>2. ASSUME NEW x \in S PROVE Cardinality(S) <= 1
  <2>1. S = {x}
    OBVIOUS
  <2>2. Cardinality({x}) = 1
    BY FS_Singleton
  <2> QED
    BY <2>1, <2>2
<1> QED
  BY <1>1, <1>2

LEMMA SalesImply ==
  SalesInv => Sales!QuoteBecomesOneDocument /\ Sales!SubmittedOnce /\ Sales!OrdersKnowWhatIsInvoiced
<1> SUFFICES ASSUME SalesInv
             PROVE  Sales!QuoteBecomesOneDocument /\ Sales!SubmittedOnce /\ Sales!OrdersKnowWhatIsInvoiced
  OBVIOUS
<1>1. ASSUME NEW q \in Quotes
      PROVE  LET orders == {o \in SalesOrders : quote[q].became = o}
                 invoices == {i \in OrderInvoices : orderInvoice[i].quote = q}
             IN /\ Sales!Cardinality(invoices) <= 1
                /\ quote[q].status = "CONVERTED" =>
                     \/ invoices = {quote[q].became}
                     \/ invoices = {} /\ orders = {quote[q].became}
                          /\ \A o \in orders : salesOrder[o].status # Sales!None /\ salesOrder[o].quote = q
  <2> DEFINE orders == {o \in SalesOrders : quote[q].became = o}
             invoices == {i \in OrderInvoices : orderInvoice[i].quote = q}
  <2>1. \A i \in invoices : quote[q].became = i
    BY SalesFacts DEF SalesInv, QuotesAgree
  <2>2. Cardinality(invoices) <= 1
    <3>1. \A i, j \in invoices : i = j
      BY <2>1
    <3> HIDE DEF invoices
    <3> QED
      BY <3>1, AtMostOne
  <2>3. Sales!Cardinality(invoices) <= 1
    BY <2>2, Zenon DEF Sales!Cardinality, Cardinality, Sales!IsFiniteSet, IsFiniteSet
  <2>4. ASSUME quote[q].status = "CONVERTED"
        PROVE  \/ invoices = {quote[q].became}
               \/ invoices = {} /\ orders = {quote[q].became}
                    /\ \A o \in orders : salesOrder[o].status # Sales!None /\ salesOrder[o].quote = q
    <3>1. CASE quote[q].became \in OrderInvoices
      BY <2>1, <2>4, <3>1, SalesFacts DEF SalesInv, QuotesAgree
    <3>2. CASE quote[q].became \notin OrderInvoices
      BY <2>1, <2>4, <3>2, SalesFacts DEF SalesInv, QuotesAgree
    <3> QED
      BY <3>1, <3>2
  <2> QED
    BY <2>3, <2>4
<1>2. Sales!QuoteBecomesOneDocument
  BY <1>1 DEF Sales!QuoteBecomesOneDocument
<1>3. Sales!SubmittedOnce
  BY DEF SalesInv, TakenAsKnown, Known, Sales!SubmittedOnce, Sales!Took
<1>4. Sales!OrdersKnowWhatIsInvoiced
  BY SalesSumIs DEF SalesInv, InvoicedAddsUp, Of, Sales!OrdersKnowWhatIsInvoiced
<1> QED
  BY <1>2, <1>3, <1>4
-----------------------------------------------------------------------------
(***************************************************************************)
(* Requisitions, purchase orders, receipts of goods and bills.  Orders and *)
(* receipts are bounded by no status but existence, so the argument counts *)
(* rows: what is billed of a receipt is the sum of the bills that name it, *)
(* and a bill that matched takes all of it.                                *)
(***************************************************************************)
Bought == [status : {"none", "DRAFT", "APPROVED"}, requisition : Requisitions \cup {Purchases!None},
           received : Nat, billed : Nat]
Arrived == [status : {"none", "DRAFT", "POSTED"}, order : PurchaseOrders \cup {Purchases!None},
            accepted : Nat, billed : Nat]
Matches == {"UNMATCHED", "EXCEPTION", "WITHIN_TOLERANCE", "MATCHED"}
Billed == [status : {"none", "checked", "DRAFT", "APPROVED", "POSTED"},
           order : PurchaseOrders \cup {Purchases!None}, receipt : GoodsReceipts \cup {Purchases!None},
           quantity : Nat, match : Matches, blocked : BOOLEAN, to : Destinations \cup {"expense"}]

PurchasesShape ==
  /\ requisition \in [Requisitions -> {"none", "DRAFT", "APPROVED", "CONVERTED"}]
  /\ order \in [PurchaseOrders -> Bought]
  /\ goodsReceipt \in [GoodsReceipts -> Arrived]
  /\ bill \in [Bills -> Billed]

Authorised ==
  /\ \A o \in PurchaseOrders : order[o].requisition # Purchases!None =>
       requisition[order[o].requisition] = "CONVERTED"
  /\ \A o, p \in PurchaseOrders :
       order[o].requisition # Purchases!None /\ order[o].requisition = order[p].requisition => o = p
  /\ \A q \in Requisitions : requisition[q] = "CONVERTED" => \E o \in PurchaseOrders : order[o].requisition = q

Unwritten ==
  /\ \A o \in PurchaseOrders : order[o].status = Purchases!None => order[o] = Purchases!NoOrder
  /\ \A g \in GoodsReceipts : goodsReceipt[g].status = Purchases!None =>
       goodsReceipt[g].order = Purchases!None /\ goodsReceipt[g].billed = 0
  /\ \A b \in Bills : /\ bill[b].status \in {Purchases!None, "checked"} =>
                         /\ bill[b].order = Purchases!None /\ bill[b].receipt = Purchases!None
                      /\ bill[b].receipt # Purchases!None =>
                         goodsReceipt[bill[b].receipt].status # Purchases!None

(* What each document adds to an order or a receipt.                        *)
ReceivedOf(o) == [g \in GoodsReceipts |-> IF goodsReceipt[g].order = o THEN goodsReceipt[g].accepted ELSE 0]
BilledOf(o) == [b \in Bills |-> IF bill[b].order = o THEN bill[b].quantity ELSE 0]
BilledFrom(g) == [b \in Bills |-> IF bill[b].receipt = g THEN bill[b].quantity ELSE 0]

CountedOrders ==
  \A o \in PurchaseOrders : /\ order[o].received = Sum(ReceivedOf(o), GoodsReceipts)
                            /\ order[o].billed = Sum(BilledOf(o), Bills)
CountedReceipts ==
  \A g \in GoodsReceipts : /\ goodsReceipt[g].billed = Sum(BilledFrom(g), Bills)
                           /\ goodsReceipt[g].billed <= goodsReceipt[g].accepted

MatchedWhole ==
  \A b \in Bills : bill[b].match = "MATCHED" /\ bill[b].receipt # Purchases!None =>
    bill[b].quantity = goodsReceipt[bill[b].receipt].accepted

PurchasesInv ==
  PurchasesShape /\ Authorised /\ Unwritten /\ CountedOrders /\ CountedReceipts /\ MatchedWhole

LEMMA PurchasesFacts ==
  /\ IsFiniteSet(GoodsReceipts) /\ IsFiniteSet(Bills)
  /\ Purchases!None \notin Requisitions \cup PurchaseOrders \cup GoodsReceipts
  /\ Quantities \subseteq Nat /\ Purchases!None = "none"
<1>1. Purchases!None = "none"
  BY DEF Purchases!None
<1> QED
  BY <1>1, PurchasesAssumption, Zenon DEF Purchases!OrdersAssumption, Purchases!IsFiniteSet, IsFiniteSet

LEMMA PurchasesSumIs == \A f, S : Purchases!Sum(f, S) = Sum(f, S)
  BY Zenon DEF Purchases!Sum, Sum, Purchases!MapThenSumSet, MapThenSumSet, Purchases!MapThenFoldSet,
               MapThenFoldSet

LEMMA NoOrderIs ==
  /\ Purchases!NoOrder \in Bought /\ Purchases!NoOrder.status = "none"
  /\ Purchases!NoOrder.requisition = Purchases!None
  /\ Purchases!NoOrder.received = 0 /\ Purchases!NoOrder.billed = 0
  BY DEF Purchases!NoOrder, Bought, Purchases!None

LEMMA NoBillIs ==
  /\ Purchases!NoBill \in Billed /\ Purchases!NoBill.status = "none"
  /\ Purchases!NoBill.order = Purchases!None /\ Purchases!NoBill.receipt = Purchases!None
  /\ Purchases!NoBill.quantity = 0 /\ Purchases!NoBill.match = "UNMATCHED"
<1>1. Purchases!NoBill = [status |-> "none", order |-> "none", receipt |-> "none", quantity |-> 0,
                          match |-> "UNMATCHED", blocked |-> FALSE, to |-> "expense"]
  BY DEF Purchases!NoBill, Purchases!None
<1>2. PICK f \in BOOLEAN : f = FALSE
  OBVIOUS
<1>3. Purchases!NoBill = [status |-> "none", order |-> "none", receipt |-> "none", quantity |-> 0,
                          match |-> "UNMATCHED", blocked |-> f, to |-> "expense"]
  BY <1>1, <1>2
<1> QED
  BY <1>3 DEF Billed, Matches, Purchases!None

LEMMA PurchaseFields ==
  ASSUME PurchasesShape
  PROVE  /\ \A o \in PurchaseOrders : /\ order[o] \in Bought /\ order[o].received \in Nat /\ order[o].billed \in Nat
                                      /\ order[o].requisition \in Requisitions \cup {Purchases!None}
         /\ \A g \in GoodsReceipts : /\ goodsReceipt[g] \in Arrived
                                     /\ goodsReceipt[g].accepted \in Nat /\ goodsReceipt[g].billed \in Nat
                                     /\ goodsReceipt[g].order \in PurchaseOrders \cup {Purchases!None}
         /\ \A b \in Bills : /\ bill[b] \in Billed /\ bill[b].quantity \in Nat
                             /\ bill[b].order \in PurchaseOrders \cup {Purchases!None}
                             /\ bill[b].receipt \in GoodsReceipts \cup {Purchases!None}
         /\ \A o, g : g \in GoodsReceipts => ReceivedOf(o)[g] \in Nat
         /\ \A o, b : b \in Bills => BilledOf(o)[b] \in Nat /\ BilledFrom(o)[b] \in Nat
<1>1. \A o \in PurchaseOrders : /\ order[o] \in Bought /\ order[o].received \in Nat /\ order[o].billed \in Nat
                                /\ order[o].requisition \in Requisitions \cup {Purchases!None}
  BY DEF PurchasesShape, Bought
<1>2. \A g \in GoodsReceipts : /\ goodsReceipt[g] \in Arrived
                               /\ goodsReceipt[g].accepted \in Nat /\ goodsReceipt[g].billed \in Nat
                               /\ goodsReceipt[g].order \in PurchaseOrders \cup {Purchases!None}
  BY DEF PurchasesShape, Arrived
<1>3. \A b \in Bills : /\ bill[b] \in Billed /\ bill[b].quantity \in Nat
                       /\ bill[b].order \in PurchaseOrders \cup {Purchases!None}
                       /\ bill[b].receipt \in GoodsReceipts \cup {Purchases!None}
  BY DEF PurchasesShape, Billed
<1> QED
  BY <1>1, <1>2, <1>3 DEF ReceivedOf, BilledOf, BilledFrom

LEMMA PurchasesInit == Purchases!Init => PurchasesInv
<1> SUFFICES ASSUME Purchases!Init PROVE PurchasesInv
  OBVIOUS
<1>1. PurchasesShape
  <2>1. goodsReceipt \in [GoodsReceipts -> Arrived]
    BY DEF Purchases!Init, Arrived, Purchases!None
  <2> QED
    BY <2>1, NoOrderIs, NoBillIs DEF Purchases!Init, PurchasesShape, Purchases!None
<1>2. /\ \A o \in PurchaseOrders : order[o] = Purchases!NoOrder
      /\ \A b \in Bills : bill[b] = Purchases!NoBill
      /\ \A g \in GoodsReceipts : /\ goodsReceipt[g].order = Purchases!None
                                  /\ goodsReceipt[g].accepted = 0 /\ goodsReceipt[g].billed = 0
  BY DEF Purchases!Init
<1>3. Authorised /\ Unwritten /\ MatchedWhole
  BY <1>2, NoOrderIs, NoBillIs DEF Authorised, Unwritten, MatchedWhole, Purchases!Init, Purchases!None
<1>4. \A o : /\ Sum(ReceivedOf(o), GoodsReceipts) = 0
             /\ Sum(BilledOf(o), Bills) = 0 /\ Sum(BilledFrom(o), Bills) = 0
  <2> TAKE o
  <2>1. \A g \in GoodsReceipts : ReceivedOf(o)[g] = 0
    BY <1>2 DEF ReceivedOf
  <2>2. \A b \in Bills : BilledOf(o)[b] = 0 /\ BilledFrom(o)[b] = 0
    BY <1>2, NoBillIs DEF BilledOf, BilledFrom
  <2> QED
    BY <2>1, <2>2, PurchasesFacts, SumNat
<1>5. CountedOrders
  BY <1>2, <1>4, NoOrderIs DEF CountedOrders
<1>6. CountedReceipts
  BY <1>2, <1>4 DEF CountedReceipts
<1> QED
  BY <1>1, <1>3, <1>5, <1>6 DEF PurchasesInv
-----------------------------------------------------------------------------
(* What is counted stays so while rows and columns stay.                    *)
LEMMA OrdersStayCounted ==
  ASSUME PurchasesInv,
         \A o \in PurchaseOrders : order'[o].received = order[o].received /\ order'[o].billed = order[o].billed,
         \A g \in GoodsReceipts : /\ goodsReceipt'[g].order = goodsReceipt[g].order
                                  /\ goodsReceipt'[g].accepted = goodsReceipt[g].accepted,
         \A b \in Bills : bill'[b].order = bill[b].order /\ bill'[b].quantity = bill[b].quantity
  PROVE  CountedOrders'
<1> SUFFICES ASSUME NEW o \in PurchaseOrders
             PROVE  order'[o].received = Sum(ReceivedOf(o)', GoodsReceipts)
                    /\ order'[o].billed = Sum(BilledOf(o)', Bills)
  BY DEF CountedOrders
<1>1. ReceivedOf(o)' = ReceivedOf(o) /\ BilledOf(o)' = BilledOf(o)
  BY DEF ReceivedOf, BilledOf
<1> QED
  BY <1>1 DEF PurchasesInv, CountedOrders

LEMMA ReceiptsStayCounted ==
  ASSUME PurchasesInv,
         \A g \in GoodsReceipts : /\ goodsReceipt'[g].billed = goodsReceipt[g].billed
                                  /\ goodsReceipt[g].accepted <= goodsReceipt'[g].accepted,
         \A g \in GoodsReceipts : goodsReceipt'[g].accepted \in Nat,
         \A b \in Bills : bill'[b].receipt = bill[b].receipt /\ bill'[b].quantity = bill[b].quantity
  PROVE  CountedReceipts'
<1> SUFFICES ASSUME NEW g \in GoodsReceipts
             PROVE  goodsReceipt'[g].billed = Sum(BilledFrom(g)', Bills)
                    /\ goodsReceipt'[g].billed <= goodsReceipt'[g].accepted
  BY DEF CountedReceipts
<1>1. BilledFrom(g)' = BilledFrom(g)
  BY DEF BilledFrom
<1>2. goodsReceipt[g].billed \in Nat /\ goodsReceipt[g].accepted \in Nat
  BY PurchaseFields DEF PurchasesInv
<1> QED
  BY <1>1, <1>2 DEF PurchasesInv, CountedReceipts

LEMMA RequisitionStep ==
  ASSUME PurchasesInv, NEW q \in Requisitions,
         Purchases!CreatePurchaseRequisition(q) \/ Purchases!ApprovePurchaseRequisition(q)
  PROVE  PurchasesInv'
<1>1. PICK st \in {"DRAFT", "APPROVED"} :
        /\ requisition' = [requisition EXCEPT ![q] = st] /\ requisition[q] # "CONVERTED"
        /\ UNCHANGED <<order, goodsReceipt, bill, grni>>
  BY DEF Purchases!CreatePurchaseRequisition, Purchases!ApprovePurchaseRequisition, Purchases!None
<1>2. PurchasesShape'
  BY <1>1 DEF PurchasesInv, PurchasesShape
<1>3. Authorised'
  BY <1>1, PurchaseFields DEF PurchasesInv, PurchasesShape, Authorised
<1>4. Unwritten' /\ MatchedWhole'
  BY <1>1 DEF PurchasesInv, Unwritten, MatchedWhole
<1>5. CountedOrders' /\ CountedReceipts'
  BY <1>1, OrdersStayCounted, ReceiptsStayCounted, PurchaseFields DEF PurchasesInv
<1> QED
  BY <1>2, <1>3, <1>4, <1>5 DEF PurchasesInv

LEMMA CreateOrderedStep ==
  ASSUME PurchasesInv, NEW o \in PurchaseOrders, NEW q \in Requisitions \cup {Purchases!None},
         Purchases!CreatePurchaseOrder(o, q)
  PROVE  PurchasesInv'
<1>1. PICK new : new = [Purchases!NoOrder EXCEPT !.status = "DRAFT", !.requisition = q]
  OBVIOUS
<1>2. /\ new \in Bought /\ new.status = "DRAFT" /\ new.requisition = q /\ new.received = 0 /\ new.billed = 0
  BY <1>1, NoOrderIs DEF Bought
<1>3. /\ order' = [order EXCEPT ![o] = new] /\ order[o] = Purchases!NoOrder
      /\ q # Purchases!None => requisition[q] = "APPROVED"
      /\ requisition' = [p \in Requisitions |-> IF p = q THEN "CONVERTED" ELSE requisition[p]]
      /\ UNCHANGED <<goodsReceipt, bill, grni>>
  BY <1>1 DEF Purchases!CreatePurchaseOrder, PurchasesInv, Unwritten
<1>4. PurchasesShape'
  BY <1>2, <1>3 DEF PurchasesInv, PurchasesShape
<1>5. /\ order'[o].requisition = q /\ order[o].requisition = Purchases!None
      /\ \A p \in PurchaseOrders \ {o} : order'[p] = order[p]
  BY <1>2, <1>3, NoOrderIs DEF PurchasesInv, PurchasesShape
<1>6. Authorised'
  <2>1. \A p \in PurchaseOrders : order[p].requisition # Purchases!None => order[p].requisition # q
    BY <1>3 DEF PurchasesInv, Authorised
  <2>2. \A r \in Requisitions : requisition'[r] = IF r = q THEN "CONVERTED" ELSE requisition[r]
    BY <1>3
  <2>3. \A p \in PurchaseOrders : order'[p].requisition # Purchases!None => requisition'[order'[p].requisition] = "CONVERTED"
    BY <1>5, <2>2, PurchaseFields DEF PurchasesInv, Authorised
  <2>4. \A r \in Requisitions : requisition'[r] = "CONVERTED" => \E p \in PurchaseOrders : order'[p].requisition = r
    <3> SUFFICES ASSUME NEW r \in Requisitions, requisition'[r] = "CONVERTED"
                 PROVE  \E p \in PurchaseOrders : order'[p].requisition = r
      OBVIOUS
    <3>1. CASE r = q
      BY <1>5, <3>1
    <3>2. CASE r # q
      <4>1. PICK p \in PurchaseOrders : order[p].requisition = r
        BY <2>2, <3>2 DEF PurchasesInv, Authorised
      <4> QED
        BY <1>5, <4>1, PurchasesFacts
    <3> QED
      BY <3>1, <3>2
  <2>5. \A p, r \in PurchaseOrders :
          order'[p].requisition # Purchases!None /\ order'[p].requisition = order'[r].requisition => p = r
    BY <1>5, <2>1 DEF PurchasesInv, Authorised
  <2> QED
    BY <2>3, <2>4, <2>5 DEF Authorised
<1>7. Unwritten' /\ MatchedWhole'
  BY <1>2, <1>3, PurchasesFacts DEF PurchasesInv, PurchasesShape, Unwritten, MatchedWhole
<1>8. \A p \in PurchaseOrders : order'[p].received = order[p].received /\ order'[p].billed = order[p].billed
  BY <1>2, <1>3, NoOrderIs DEF PurchasesInv, PurchasesShape
<1>9. CountedOrders' /\ CountedReceipts'
  BY <1>3, <1>8, OrdersStayCounted, ReceiptsStayCounted, PurchaseFields DEF PurchasesInv
<1> QED
  BY <1>4, <1>6, <1>7, <1>9 DEF PurchasesInv

LEMMA ApproveOrderStep ==
  ASSUME PurchasesInv, NEW o \in PurchaseOrders, Purchases!ApprovePurchaseOrder(o)
  PROVE  PurchasesInv'
<1>1. PICK was \in Bought, new \in Bought :
        /\ was = order[o] /\ was.status = "DRAFT" /\ new = [was EXCEPT !.status = "APPROVED"]
        /\ order' = [order EXCEPT ![o] = new] /\ UNCHANGED <<requisition, goodsReceipt, bill, grni>>
  BY PurchaseFields DEF PurchasesInv, Purchases!ApprovePurchaseOrder, Bought
<1>2. /\ new \in Bought /\ new.status = "APPROVED" /\ new.requisition = was.requisition
      /\ new.received = was.received /\ new.billed = was.billed
  BY <1>1 DEF Bought
<1>3. PurchasesShape'
  BY <1>1, <1>2 DEF PurchasesInv, PurchasesShape
<1>4. \A p \in PurchaseOrders : /\ order'[p].requisition = order[p].requisition
                                /\ order'[p].received = order[p].received /\ order'[p].billed = order[p].billed
  BY <1>1, <1>2 DEF PurchasesInv, PurchasesShape
<1>5. Authorised'
  BY <1>1, <1>4 DEF PurchasesInv, Authorised
<1>6. Unwritten' /\ MatchedWhole'
  BY <1>1, <1>2, PurchasesFacts DEF PurchasesInv, PurchasesShape, Unwritten, MatchedWhole
<1>7. CountedOrders' /\ CountedReceipts'
  BY <1>1, <1>4, OrdersStayCounted, ReceiptsStayCounted, PurchaseFields DEF PurchasesInv
<1> QED
  BY <1>3, <1>5, <1>6, <1>7 DEF PurchasesInv

LEMMA CreateGoodsReceiptStep ==
  ASSUME PurchasesInv, NEW g \in GoodsReceipts, NEW o \in PurchaseOrders, NEW n \in Quantities,
         Purchases!CreateGoodsReceipt(g, o, n)
  PROVE  PurchasesInv'
<1>1. PICK made : made = [status |-> "DRAFT", order |-> o, accepted |-> n, billed |-> 0]
  OBVIOUS
<1>2. PICK was \in Bought, total \in Nat, new \in Bought :
        was = order[o] /\ total = was.received + n /\ new = [was EXCEPT !.received = total]
  <2>1. order[o] \in Bought /\ order[o].received \in Nat /\ n \in Nat
    BY PurchaseFields, PurchasesFacts DEF PurchasesInv
  <2>2. order[o].received + n \in Nat
    BY <2>1
  <2> QED
    BY <2>1, <2>2 DEF Bought
<1>3. /\ goodsReceipt[g].status = Purchases!None /\ was.status # Purchases!None
      /\ goodsReceipt' = [goodsReceipt EXCEPT ![g] = made] /\ order' = [order EXCEPT ![o] = new]
      /\ UNCHANGED <<requisition, bill, grni>>
  BY <1>1, <1>2 DEF Purchases!CreateGoodsReceipt
<1>4. /\ made \in Arrived /\ made.status = "DRAFT" /\ made.order = o /\ made.accepted = n /\ made.billed = 0
      /\ new \in Bought /\ new.status = was.status /\ new.requisition = was.requisition
      /\ new.received = total /\ new.billed = was.billed
  BY <1>1, <1>2, PurchasesFacts DEF Arrived, Bought
<1>5. PurchasesShape'
  BY <1>3, <1>4 DEF PurchasesInv, PurchasesShape
<1>6. /\ \A p \in PurchaseOrders : /\ order'[p].requisition = order[p].requisition
                                   /\ order'[p].billed = order[p].billed
      /\ \A p \in PurchaseOrders \ {o} : order'[p] = order[p]
      /\ order'[o].received = order[o].received + n /\ order'[o].status # Purchases!None
      /\ goodsReceipt'[g] = made /\ \A h \in GoodsReceipts \ {g} : goodsReceipt'[h] = goodsReceipt[h]
  BY <1>2, <1>3, <1>4 DEF PurchasesInv, PurchasesShape
<1>7. Authorised'
  BY <1>3, <1>6 DEF PurchasesInv, Authorised
<1>8. \A b \in Bills : bill[b].receipt # g
  BY <1>3, PurchasesFacts DEF PurchasesInv, Unwritten
<1>9. Unwritten'
  BY <1>3, <1>4, <1>6, PurchasesFacts DEF PurchasesInv, Unwritten
<1>10. MatchedWhole'
  BY <1>3, <1>6, <1>8, PurchaseFields DEF PurchasesInv, MatchedWhole
<1>11. CountedOrders'
  <2> SUFFICES ASSUME NEW p \in PurchaseOrders
               PROVE  order'[p].received = Sum(ReceivedOf(p)', GoodsReceipts)
                      /\ order'[p].billed = Sum(BilledOf(p)', Bills)
    BY DEF CountedOrders
  <2>1. BilledOf(p)' = BilledOf(p)
    BY <1>3 DEF BilledOf
  <2>2. PICK f, h : f = ReceivedOf(p) /\ h = ReceivedOf(p)'
    OBVIOUS
  <2>3. \A x \in GoodsReceipts : /\ f[x] = IF goodsReceipt[x].order = p THEN goodsReceipt[x].accepted ELSE 0
                                 /\ h[x] = IF goodsReceipt'[x].order = p THEN goodsReceipt'[x].accepted ELSE 0
    BY <2>2 DEF ReceivedOf
  <2>4. f[g] = 0
    BY <1>3, <2>3, PurchasesFacts DEF PurchasesInv, Unwritten
  <2>5. h[g] = IF o = p THEN n ELSE 0
    BY <1>4, <1>6, <2>3
  <2>6. DifferAt(f, h, GoodsReceipts, g)
    <3>1. \A x \in GoodsReceipts \ {g} : f[x] = h[x]
      BY <1>6, <2>3
    <3>2. \A x \in GoodsReceipts : f[x] \in Int
      BY <2>2, PurchaseFields DEF PurchasesInv
    <3>3. h[g] \in Int
      BY <2>5, PurchasesFacts
    <3> QED
      BY <3>1, <3>2, <3>3, PurchasesFacts DEF DifferAt
  <2>7. Sum(h, GoodsReceipts) = Sum(f, GoodsReceipts) + (h[g] - f[g])
    BY ONLY <2>6, SumDiffers
  <2>8. order[p].received = Sum(f, GoodsReceipts) /\ order[p].billed = Sum(BilledOf(p), Bills)
        /\ order[p].received \in Nat
    BY <2>2, PurchaseFields DEF PurchasesInv, CountedOrders
  <2>9. n \in Nat
    BY PurchasesFacts
  <2>10. order'[p].received = order[p].received + IF o = p THEN n ELSE 0
    BY <1>6, <2>8
  <2> QED
    BY <1>6, <2>1, <2>2, <2>4, <2>5, <2>7, <2>8, <2>9, <2>10
<1>12. CountedReceipts'
  <2>1. goodsReceipt[g].billed = 0
    BY <1>3 DEF PurchasesInv, Unwritten
  <2> SUFFICES ASSUME NEW h \in GoodsReceipts
               PROVE  goodsReceipt'[h].billed = Sum(BilledFrom(h)', Bills)
                      /\ goodsReceipt'[h].billed <= goodsReceipt'[h].accepted
    BY DEF CountedReceipts
  <2>2. BilledFrom(h)' = BilledFrom(h)
    BY <1>3 DEF BilledFrom
  <2> QED
    BY <1>4, <1>6, <2>1, <2>2, PurchasesFacts DEF PurchasesInv, CountedReceipts
<1> QED
  BY <1>5, <1>7, <1>9, <1>10, <1>11, <1>12 DEF PurchasesInv

LEMMA PostGoodsReceiptStep ==
  ASSUME PurchasesInv, NEW g \in GoodsReceipts, Purchases!PostGoodsReceipt(g)
  PROVE  PurchasesInv'
<1>1. PICK was \in Arrived, new \in Arrived :
        /\ was = goodsReceipt[g] /\ was.status = "DRAFT" /\ new = [was EXCEPT !.status = "POSTED"]
        /\ goodsReceipt' = [goodsReceipt EXCEPT ![g] = new] /\ UNCHANGED <<requisition, order, bill>>
  BY PurchaseFields DEF PurchasesInv, Purchases!PostGoodsReceipt, Arrived
<1>2. /\ new \in Arrived /\ new.status = "POSTED" /\ new.order = was.order
      /\ new.accepted = was.accepted /\ new.billed = was.billed
  BY <1>1 DEF Arrived
<1>3. PurchasesShape'
  BY <1>1, <1>2 DEF PurchasesInv, PurchasesShape
<1>4. \A h \in GoodsReceipts : /\ goodsReceipt'[h].order = goodsReceipt[h].order
                               /\ goodsReceipt'[h].accepted = goodsReceipt[h].accepted
                               /\ goodsReceipt'[h].billed = goodsReceipt[h].billed
                               /\ goodsReceipt'[h].status = Purchases!None <=> goodsReceipt[h].status = Purchases!None
  BY <1>1, <1>2, PurchasesFacts DEF PurchasesInv, PurchasesShape
<1>5. Authorised'
  BY <1>1 DEF PurchasesInv, Authorised
<1>6. Unwritten'
  BY <1>1, <1>4, PurchaseFields, PurchasesFacts DEF PurchasesInv, Unwritten
<1>7. MatchedWhole'
  BY <1>1, <1>4, PurchaseFields DEF PurchasesInv, MatchedWhole
<1>8. CountedOrders' /\ CountedReceipts'
  BY <1>1, <1>4, OrdersStayCounted, ReceiptsStayCounted, PurchaseFields DEF PurchasesInv
<1> QED
  BY <1>3, <1>5, <1>6, <1>7, <1>8 DEF PurchasesInv

(* A bill is changed in nothing that its order or its receipt counts.       *)
BillRemarked(b, new) ==
  /\ new \in Billed /\ new.order = bill[b].order /\ new.receipt = bill[b].receipt
  /\ new.quantity = bill[b].quantity
  /\ new.match = "MATCHED" /\ new.receipt # Purchases!None => new.quantity = goodsReceipt[new.receipt].accepted
  /\ new.status \in {Purchases!None, "checked"} => bill[b].status \in {Purchases!None, "checked"}
  /\ bill' = [bill EXCEPT ![b] = new]
  /\ UNCHANGED <<requisition, order, goodsReceipt>>

LEMMA RemarkStep ==
  ASSUME PurchasesInv, NEW b \in Bills, NEW new, BillRemarked(b, new)
  PROVE  PurchasesInv'
<1> USE DEF BillRemarked
<1>1. PurchasesShape'
  BY DEF PurchasesInv, PurchasesShape
<1>2. \A c \in Bills : /\ bill'[c].order = bill[c].order /\ bill'[c].receipt = bill[c].receipt
                       /\ bill'[c].quantity = bill[c].quantity
                       /\ c # b => bill'[c] = bill[c]
                       /\ c = b => bill'[c] = new
  BY DEF PurchasesInv, PurchasesShape
<1>3. Authorised'
  BY DEF PurchasesInv, Authorised
<1>4. Unwritten' /\ MatchedWhole'
  BY <1>2 DEF PurchasesInv, Unwritten, MatchedWhole
<1>5. CountedOrders' /\ CountedReceipts'
  BY <1>2, OrdersStayCounted, ReceiptsStayCounted, PurchaseFields DEF PurchasesInv
<1> QED
  BY <1>1, <1>3, <1>4, <1>5 DEF PurchasesInv

LEMMA BillStatusStep ==
  ASSUME PurchasesInv, NEW b \in Bills,
         Purchases!FindDuplicateBills(b) \/ Purchases!ApproveVendorBill(b) \/ Purchases!PostBill(b)
  PROVE  PurchasesInv'
<1>1. PICK was \in Billed, st \in {"checked", "APPROVED", "POSTED"}, new \in Billed :
        /\ was = bill[b] /\ new = [was EXCEPT !.status = st]
        /\ st = "checked" => was.status = Purchases!None
        /\ bill' = [bill EXCEPT ![b] = new] /\ UNCHANGED <<requisition, order, goodsReceipt>>
  <2>1. PICK was \in Billed : was = bill[b]
    BY PurchaseFields DEF PurchasesInv
  <2> QED
    BY <2>1, ZenonT(60) DEF Purchases!FindDuplicateBills, Purchases!ApproveVendorBill, Purchases!PostBill, Billed
<1>2. /\ new \in Billed /\ new.status = st /\ new.order = was.order /\ new.receipt = was.receipt
      /\ new.quantity = was.quantity /\ new.match = was.match
  BY <1>1 DEF Billed
<1>3. BillRemarked(b, new)
  BY <1>1, <1>2, PurchasesFacts DEF BillRemarked, PurchasesInv, MatchedWhole
<1> QED
  BY <1>3, RemarkStep

LEMMA MatchBillStep ==
  ASSUME PurchasesInv, NEW b \in Bills, NEW tolerance, Purchases!MatchBill(b, tolerance)
  PROVE  PurchasesInv'
<1>1. PICK was \in Billed, result \in Matches, exceeded \in BOOLEAN, new \in Billed :
        /\ was = bill[b] /\ new = [was EXCEPT !.match = result, !.blocked = exceeded]
        /\ was.status \notin {Purchases!None, "checked"}
        /\ result = "MATCHED" => was.quantity - Purchases!Reference(b) = 0
        /\ bill' = [bill EXCEPT ![b] = new] /\ UNCHANGED <<requisition, order, goodsReceipt>>
  <2>1. PICK was \in Billed : was = bill[b]
    BY PurchaseFields DEF PurchasesInv
  <2> DEFINE variance == bill[b].quantity - Purchases!Reference(b)
             exceeds == variance > tolerance \/ -variance > tolerance
             result == IF bill[b].order = Purchases!None THEN "UNMATCHED"
                       ELSE IF exceeds THEN "EXCEPTION"
                       ELSE IF variance # 0 THEN "WITHIN_TOLERANCE" ELSE "MATCHED"
  <2>2. PICK exceeded \in BOOLEAN : exceeded = (result = "EXCEPTION")
    OBVIOUS
  <2>3. result \in Matches /\ (result = "MATCHED" => variance = 0)
    BY DEF Matches
  <2>4. /\ was.status \notin {Purchases!None, "checked"}
        /\ bill' = [bill EXCEPT ![b].match = result, ![b].blocked = exceeded]
        /\ UNCHANGED <<requisition, order, goodsReceipt>>
    BY <2>1, <2>2 DEF Purchases!MatchBill, Purchases!Recorded
  <2> HIDE DEF result, variance
  <2>5. bill' = [bill EXCEPT ![b] = [was EXCEPT !.match = result, !.blocked = exceeded]]
    BY <2>1, <2>4
  <2> QED
    <3>1. PICK next : next = [was EXCEPT !.match = result, !.blocked = exceeded]
      OBVIOUS
    <3>2. next \in Billed
      BY <2>1, <2>2, <2>3, <3>1 DEF Billed
    <3> QED
      BY <2>1, <2>2, <2>3, <2>4, <2>5, <3>1, <3>2, ZenonT(60) DEF variance
<1>2. /\ new \in Billed /\ new.status = was.status /\ new.order = was.order /\ new.receipt = was.receipt
      /\ new.quantity = was.quantity /\ new.match = result
  BY <1>1 DEF Billed
<1>3. ASSUME result = "MATCHED", was.receipt # Purchases!None
      PROVE  was.quantity = goodsReceipt[was.receipt].accepted
  BY <1>1, <1>3, PurchaseFields DEF Purchases!Reference, PurchasesInv
<1>4. BillRemarked(b, new)
  BY <1>1, <1>2, <1>3 DEF BillRemarked
<1> QED
  BY <1>4, RemarkStep

(* A sum over one more bill.                                                *)
BillAdded(f, h, b, n) ==
  /\ n \in Nat /\ b \in Bills /\ f[b] = 0 /\ h[b] = n
  /\ \A c \in Bills : f[c] \in Nat
  /\ \A c \in Bills \ {b} : h[c] = f[c]

LEMMA AddedBill ==
  ASSUME NEW f, NEW h, NEW b, NEW n, BillAdded(f, h, b, n)
  PROVE  Sum(f, Bills) \in Nat /\ Sum(h, Bills) = Sum(f, Bills) + n
<1>1. DifferAt(f, h, Bills, b)
  BY PurchasesFacts DEF DifferAt, BillAdded
<1>2. Sum(h, Bills) = Sum(f, Bills) + (h[b] - f[b])
  BY ONLY <1>1, SumDiffers
<1>3. Sum(f, Bills) \in Nat
  <2>1. \A c \in Bills : f[c] \in Nat
    BY DEF BillAdded
  <2> QED
    BY <2>1, PurchasesFacts, SumNat
<1> QED
  BY <1>2, <1>3 DEF BillAdded

LEMMA CreateBillStep ==
  ASSUME PurchasesInv, NEW b \in Bills, NEW o \in PurchaseOrders \cup {Purchases!None},
         NEW g \in GoodsReceipts \cup {Purchases!None}, NEW n \in Quantities, NEW to \in Destinations,
         Purchases!CreateBill(b, o, g, n, to)
  PROVE  PurchasesInv'
<1>0. n \in Nat
  BY PurchasesFacts
<1>1. PICK made : made = [Purchases!NoBill EXCEPT !.status = "DRAFT", !.order = o, !.receipt = g,
                                                  !.quantity = n, !.to = to]
  OBVIOUS
<1>2. /\ made \in Billed /\ made.status = "DRAFT" /\ made.order = o /\ made.receipt = g
      /\ made.quantity = n /\ made.match = "UNMATCHED"
  BY <1>0, <1>1, NoBillIs DEF Billed
<1>3. /\ bill[b].status = "checked"
      /\ o # Purchases!None => order[o].status # Purchases!None
      /\ g # Purchases!None =>
           goodsReceipt[g].status # Purchases!None /\ goodsReceipt[g].billed + n <= goodsReceipt[g].accepted
      /\ order' = [p \in PurchaseOrders |-> IF p = o THEN [order[p] EXCEPT !.billed = @ + n] ELSE order[p]]
      /\ goodsReceipt' = [h \in GoodsReceipts |->
                            IF h = g THEN [goodsReceipt[h] EXCEPT !.billed = @ + n] ELSE goodsReceipt[h]]
      /\ bill' = [bill EXCEPT ![b] = made] /\ requisition' = requisition
  BY <1>1 DEF Purchases!CreateBill, Purchases!WriteBillLines
<1>4. ASSUME NEW p \in PurchaseOrders
      PROVE  /\ order'[p] \in Bought /\ order'[p].status = order[p].status
             /\ order'[p].requisition = order[p].requisition /\ order'[p].received = order[p].received
             /\ order'[p].billed = order[p].billed + IF p = o THEN n ELSE 0
             /\ p # o => order'[p] = order[p]
  <2>1. PICK was \in Bought, total \in Nat, new \in Bought :
          was = order[p] /\ total = was.billed + n /\ new = [was EXCEPT !.billed = total]
    <3>1. order[p] \in Bought /\ order[p].billed + n \in Nat
      BY <1>0, PurchaseFields DEF PurchasesInv
    <3> QED
      BY <3>1 DEF Bought
  <2>2. /\ new \in Bought /\ new.status = was.status /\ new.requisition = was.requisition
        /\ new.received = was.received /\ new.billed = total
    BY <2>1 DEF Bought
  <2>3. order'[p] = IF p = o THEN new ELSE was
    BY <1>3, <2>1
  <2>4. was.billed \in Nat
    BY <2>1, PurchaseFields DEF PurchasesInv
  <2> QED
    BY <2>1, <2>2, <2>3, <2>4
<1>5. ASSUME NEW h \in GoodsReceipts
      PROVE  /\ goodsReceipt'[h] \in Arrived /\ goodsReceipt'[h].status = goodsReceipt[h].status
             /\ goodsReceipt'[h].order = goodsReceipt[h].order
             /\ goodsReceipt'[h].accepted = goodsReceipt[h].accepted
             /\ goodsReceipt'[h].billed = goodsReceipt[h].billed + IF h = g THEN n ELSE 0
             /\ h # g => goodsReceipt'[h] = goodsReceipt[h]
  <2>1. PICK was \in Arrived, total \in Nat, new \in Arrived :
          was = goodsReceipt[h] /\ total = was.billed + n /\ new = [was EXCEPT !.billed = total]
    <3>1. goodsReceipt[h] \in Arrived /\ goodsReceipt[h].billed + n \in Nat
      BY <1>0, PurchaseFields DEF PurchasesInv
    <3> QED
      BY <3>1 DEF Arrived
  <2>2. /\ new \in Arrived /\ new.status = was.status /\ new.order = was.order
        /\ new.accepted = was.accepted /\ new.billed = total
    BY <2>1 DEF Arrived
  <2>3. goodsReceipt'[h] = IF h = g THEN new ELSE was
    BY <1>3, <2>1
  <2>4. was.billed \in Nat
    BY <2>1, PurchaseFields DEF PurchasesInv
  <2> QED
    BY <2>1, <2>2, <2>3, <2>4
<1>6. bill'[b] = made /\ \A c \in Bills \ {b} : bill'[c] = bill[c]
  BY <1>3 DEF PurchasesInv, PurchasesShape
<1>7. PurchasesShape'
  <2>1. order' = [p \in PurchaseOrders |-> order'[p]] /\ goodsReceipt' = [h \in GoodsReceipts |-> goodsReceipt'[h]]
    BY <1>3
  <2>2. order' \in [PurchaseOrders -> Bought]
    BY <1>4, <2>1
  <2>3. goodsReceipt' \in [GoodsReceipts -> Arrived]
    BY <1>5, <2>1
  <2> QED
    BY <1>2, <1>3, <2>2, <2>3 DEF PurchasesInv, PurchasesShape
<1>8. Authorised'
  BY <1>3, <1>4 DEF PurchasesInv, Authorised
<1>9. bill[b].order = Purchases!None /\ bill[b].receipt = Purchases!None
  BY <1>3 DEF PurchasesInv, Unwritten
<1>10. Unwritten'
  <2>1. \A p \in PurchaseOrders : order'[p].status = Purchases!None => order'[p] = Purchases!NoOrder
    BY <1>3, <1>4, PurchasesFacts DEF PurchasesInv, Unwritten
  <2>2. \A h \in GoodsReceipts : goodsReceipt'[h].status = Purchases!None =>
          goodsReceipt'[h].order = Purchases!None /\ goodsReceipt'[h].billed = 0
    BY <1>3, <1>5, PurchasesFacts DEF PurchasesInv, Unwritten
  <2>3. \A c \in Bills : /\ bill'[c].status \in {Purchases!None, "checked"} =>
                            bill'[c].order = Purchases!None /\ bill'[c].receipt = Purchases!None
                         /\ bill'[c].receipt # Purchases!None =>
                            goodsReceipt'[bill'[c].receipt].status # Purchases!None
    BY <1>2, <1>3, <1>5, <1>6, PurchaseFields, PurchasesFacts DEF PurchasesInv, Unwritten
  <2> QED
    BY <2>1, <2>2, <2>3 DEF Unwritten
<1>11. MatchedWhole'
  BY <1>2, <1>5, <1>6, PurchaseFields, PurchasesFacts DEF PurchasesInv, MatchedWhole
<1>12. CountedOrders'
  <2> SUFFICES ASSUME NEW p \in PurchaseOrders
               PROVE  order'[p].received = Sum(ReceivedOf(p)', GoodsReceipts)
                      /\ order'[p].billed = Sum(BilledOf(p)', Bills)
    BY DEF CountedOrders
  <2>1. ReceivedOf(p)' = ReceivedOf(p)
    BY <1>5 DEF ReceivedOf
  <2>2. PICK f, h, m : f = BilledOf(p) /\ h = BilledOf(p)' /\ m = IF p = o THEN n ELSE 0
    OBVIOUS
  <2>3. \A c \in Bills : /\ f[c] = IF bill[c].order = p THEN bill[c].quantity ELSE 0
                         /\ h[c] = IF bill'[c].order = p THEN bill'[c].quantity ELSE 0
                         /\ f[c] \in Nat
    BY <2>2, PurchaseFields DEF BilledOf, PurchasesInv
  <2>4. BillAdded(f, h, b, m)
    BY <1>0, <1>2, <1>6, <1>9, <2>2, <2>3, PurchasesFacts DEF BillAdded
  <2>5. Sum(h, Bills) = Sum(f, Bills) + m
    BY ONLY <2>4, AddedBill
  <2>6. order[p].received = Sum(ReceivedOf(p), GoodsReceipts) /\ order[p].billed = Sum(f, Bills)
    BY <2>2 DEF PurchasesInv, CountedOrders
  <2> QED
    BY <1>4, <2>1, <2>2, <2>5, <2>6
<1>13. CountedReceipts'
  <2> SUFFICES ASSUME NEW p \in GoodsReceipts
               PROVE  goodsReceipt'[p].billed = Sum(BilledFrom(p)', Bills)
                      /\ goodsReceipt'[p].billed <= goodsReceipt'[p].accepted
    BY DEF CountedReceipts
  <2>2. PICK f, h, m : f = BilledFrom(p) /\ h = BilledFrom(p)' /\ m = IF p = g THEN n ELSE 0
    OBVIOUS
  <2>3. \A c \in Bills : /\ f[c] = IF bill[c].receipt = p THEN bill[c].quantity ELSE 0
                         /\ h[c] = IF bill'[c].receipt = p THEN bill'[c].quantity ELSE 0
                         /\ f[c] \in Nat
    BY <2>2, PurchaseFields DEF BilledFrom, PurchasesInv
  <2>4. BillAdded(f, h, b, m)
    BY <1>0, <1>2, <1>6, <1>9, <2>2, <2>3, PurchasesFacts DEF BillAdded
  <2>5. Sum(h, Bills) = Sum(f, Bills) + m
    BY ONLY <2>4, AddedBill
  <2>6. goodsReceipt[p].billed = Sum(f, Bills) /\ goodsReceipt[p].billed <= goodsReceipt[p].accepted
        /\ goodsReceipt[p].billed \in Nat
    BY <2>2, PurchaseFields DEF PurchasesInv, CountedReceipts
  <2>7. p = g => goodsReceipt[p].billed + n <= goodsReceipt[p].accepted
    BY <1>3, PurchasesFacts
  <2> QED
    BY <1>5, <2>2, <2>5, <2>6, <2>7
<1> QED
  BY <1>7, <1>8, <1>10, <1>11, <1>12, <1>13 DEF PurchasesInv

LEMMA PurchasesStep == PurchasesInv /\ [Purchases!Next]_(Purchases!vars) => PurchasesInv'
<1> SUFFICES ASSUME PurchasesInv, [Purchases!Next]_(Purchases!vars) PROVE PurchasesInv'
  OBVIOUS
<1>1. CASE UNCHANGED Purchases!vars
  <2>1. UNCHANGED <<requisition, order, goodsReceipt, bill, grni>>
    BY <1>1 DEF Purchases!vars
  <2>2. CountedOrders' /\ CountedReceipts'
    BY <2>1, OrdersStayCounted, ReceiptsStayCounted, PurchaseFields DEF PurchasesInv
  <2> QED
    BY <2>1, <2>2 DEF PurchasesInv, PurchasesShape, Authorised, Unwritten, MatchedWhole
<1> QED
  BY <1>1, RequisitionStep, CreateOrderedStep, ApproveOrderStep, CreateGoodsReceiptStep,
     PostGoodsReceiptStep, BillStatusStep, MatchBillStep, CreateBillStep DEF Purchases!Next

(* What some of a set hold is what all of it holds, with nothing for the    *)
(* others.                                                                  *)
LEMMA SumSome ==
  ASSUME NEW S, IsFiniteSet(S), NEW T \in SUBSET S, NEW f, NEW h,
         \A x \in S : h[x] = (IF x \in T THEN f[x] ELSE 0) /\ h[x] \in Int
  PROVE  Sum(f, T) = Sum(h, S)
<1>1. Sum(h, S) = Sum(h, T)
  BY SumSubset
<1>2. IsFiniteSet(T)
  BY FS_Subset
<1>3. Sum(h, T) = Sum(f, T)
  BY <1>2, SumAgrees
<1> QED
  BY <1>1, <1>3

(* Two of them together hold no more than all.                              *)
LEMMA SumTwo ==
  ASSUME NEW S, IsFiniteSet(S), NEW f, \A x \in S : f[x] \in Nat, NEW x \in S, NEW y \in S, x # y
  PROVE  f[x] + f[y] <= Sum(f, S)
<1>1. Sum(f, S) = f[x] + Sum(f, S \ {x})
  BY SumRemove, SMTT(60)
<1>2. IsFiniteSet(S \ {x})
  BY FS_Subset
<1>3. Sum(f, S \ {x}) \in Nat /\ f[y] <= Sum(f, S \ {x})
  BY <1>2, SumNat
<1> QED
  BY <1>1, <1>3

LEMMA PurchasesImply ==
  PurchasesInv => /\ Purchases!AuthorityIsSpentOnce /\ Purchases!QuantitiesAddUp
                  /\ Purchases!ReceiptMatchesOnce
<1> SUFFICES ASSUME PurchasesInv
             PROVE  /\ Purchases!AuthorityIsSpentOnce /\ Purchases!QuantitiesAddUp
                    /\ Purchases!ReceiptMatchesOnce
  OBVIOUS
<1>0. \A S : Cardinality(S) <= 1 => Purchases!Cardinality(S) <= 1
  BY Zenon DEF Purchases!Cardinality, Cardinality, Purchases!IsFiniteSet, IsFiniteSet
<1>1. ASSUME NEW q \in Requisitions
      PROVE  LET orders == {o \in PurchaseOrders : order[o].requisition = q}
             IN /\ Purchases!Cardinality(orders) <= 1
                /\ requisition[q] = "CONVERTED" <=> orders # {}
  <2> DEFINE orders == {o \in PurchaseOrders : order[o].requisition = q}
  <2>1. \A o, p \in orders : o = p
    BY PurchasesFacts DEF PurchasesInv, Authorised
  <2>2. requisition[q] = "CONVERTED" <=> orders # {}
    BY PurchasesFacts DEF PurchasesInv, Authorised
  <2>3. Purchases!Cardinality(orders) <= 1
    <3> HIDE DEF orders
    <3> QED
      BY <1>0, <2>1, AtMostOne
  <2> QED
    BY <2>2, <2>3
<1>2. Purchases!AuthorityIsSpentOnce
  BY <1>1 DEF Purchases!AuthorityIsSpentOnce
<1>3. PICK accepted, billed : /\ accepted = [g \in GoodsReceipts |-> goodsReceipt[g].accepted]
                              /\ billed = [b \in Bills |-> bill[b].quantity]
  OBVIOUS
<1>4. ASSUME NEW o \in PurchaseOrders
      PROVE  /\ order[o].received = Sum(accepted, {g \in GoodsReceipts : goodsReceipt[g].order = o})
             /\ order[o].billed = Sum(billed, {b \in Bills : bill[b].order = o})
  <2>1. PICK T \in SUBSET GoodsReceipts : T = {g \in GoodsReceipts : goodsReceipt[g].order = o}
    OBVIOUS
  <2>2. \A g \in GoodsReceipts : /\ ReceivedOf(o)[g] = IF g \in T THEN accepted[g] ELSE 0
                                 /\ ReceivedOf(o)[g] \in Int
    BY <1>3, <2>1, PurchaseFields DEF PurchasesInv, ReceivedOf
  <2>3. Sum(accepted, T) = Sum(ReceivedOf(o), GoodsReceipts)
    BY <2>2, SumSome, PurchasesFacts
  <2>4. PICK U \in SUBSET Bills : U = {b \in Bills : bill[b].order = o}
    OBVIOUS
  <2>5. \A b \in Bills : /\ BilledOf(o)[b] = IF b \in U THEN billed[b] ELSE 0
                         /\ BilledOf(o)[b] \in Int
    BY <1>3, <2>4, PurchaseFields DEF PurchasesInv, BilledOf
  <2>6. Sum(billed, U) = Sum(BilledOf(o), Bills)
    BY <2>5, SumSome, PurchasesFacts
  <2> QED
    BY <2>1, <2>3, <2>4, <2>6 DEF PurchasesInv, CountedOrders
<1>5. ASSUME NEW g \in GoodsReceipts
      PROVE  /\ goodsReceipt[g].billed = Sum(billed, {b \in Bills : bill[b].receipt = g})
             /\ goodsReceipt[g].billed <= goodsReceipt[g].accepted
  <2>4. PICK U \in SUBSET Bills : U = {b \in Bills : bill[b].receipt = g}
    OBVIOUS
  <2>5. \A b \in Bills : /\ BilledFrom(g)[b] = IF b \in U THEN billed[b] ELSE 0
                         /\ BilledFrom(g)[b] \in Int
    BY <1>3, <2>4, PurchaseFields DEF PurchasesInv, BilledFrom
  <2>6. Sum(billed, U) = Sum(BilledFrom(g), Bills)
    BY <2>5, SumSome, PurchasesFacts
  <2> QED
    BY <2>4, <2>6 DEF PurchasesInv, CountedReceipts
<1>6. Purchases!QuantitiesAddUp
  BY <1>3, <1>4, <1>5, PurchasesSumIs DEF Purchases!QuantitiesAddUp
<1>7. ASSUME NEW g \in GoodsReceipts
      PROVE  Purchases!Cardinality({b \in Bills : /\ bill[b].receipt = g /\ bill[b].quantity > 0
                                                  /\ bill[b].match = "MATCHED"}) <= 1
  <2>1. PICK whole : whole = {b \in Bills : /\ bill[b].receipt = g /\ bill[b].quantity > 0
                                            /\ bill[b].match = "MATCHED"}
    OBVIOUS
  <2>2. ASSUME NEW b \in whole, NEW c \in whole, b # c PROVE FALSE
    <3>1. /\ bill[b].quantity = goodsReceipt[g].accepted /\ bill[c].quantity = goodsReceipt[g].accepted
          /\ bill[b].quantity > 0 /\ b \in Bills /\ c \in Bills
          /\ BilledFrom(g)[b] = bill[b].quantity /\ BilledFrom(g)[c] = bill[c].quantity
      BY <2>1, PurchasesFacts DEF PurchasesInv, MatchedWhole, BilledFrom
    <3>2. BilledFrom(g)[b] + BilledFrom(g)[c] <= Sum(BilledFrom(g), Bills)
      <4>1. \A x \in Bills : BilledFrom(g)[x] \in Nat
        BY PurchaseFields DEF PurchasesInv
      <4> QED
        BY <2>2, <3>1, <4>1, SumTwo, PurchasesFacts
    <3>3. /\ Sum(BilledFrom(g), Bills) = goodsReceipt[g].billed
          /\ goodsReceipt[g].billed <= goodsReceipt[g].accepted
          /\ goodsReceipt[g].billed \in Nat /\ goodsReceipt[g].accepted \in Nat
      BY PurchaseFields DEF PurchasesInv, CountedReceipts
    <3> QED
      BY <3>1, <3>2, <3>3
  <2>3. Cardinality(whole) <= 1
    BY <2>2, AtMostOne
  <2> QED
    BY <1>0, <2>1, <2>3
<1>8. Purchases!ReceiptMatchesOnce
  BY <1>7 DEF Purchases!ReceiptMatchesOnce
<1> QED
  BY <1>2, <1>6, <1>8

(* For any documents: what a sales order says was invoiced of it is what    *)
(* the invoices hold and no more than was ordered; what a purchase order    *)
(* says was received and billed, and a receipt was billed, is what the      *)
(* receipts and bills hold.                                                 *)
THEOREM QuantitiesAgree == SubledgerSpec => []QuantitiesAddUp
<1>1. SalesInv /\ PurchasesInv => QuantitiesAddUp
  BY SalesImply, PurchasesImply DEF QuantitiesAddUp
<1> QED
  BY <1>1, SalesInit, SalesStep, OnlySales, PurchasesInit, PurchasesStep, OnlyPurchases, PTL DEF SubledgerSpec
-----------------------------------------------------------------------------
(***************************************************************************)
(* Recurring invoices.  The months of a template's rhythm that the cursor  *)
(* has passed are those before the month it names, and every one of them   *)
(* has its invoice, on the day that is kept up to it.                      *)
(***************************************************************************)
Occurrence(t, m) == Recurring!Day(m, Recurring!KeptDay(t, m))

TemplateInv(t) ==
  \/ \E m \in Recurring!Rhythm(t) :
       /\ cursor[t] = Occurrence(t, m)
       /\ \A k \in Recurring!Rhythm(t) : k < m => Occurrence(t, k) <= End[t]
       /\ issued[t] = {Occurrence(t, k) : k \in {k \in Recurring!Rhythm(t) : k < m}}
  \/ /\ cursor[t] = Recurring!Parked
     /\ issued[t] = {Occurrence(t, k) : k \in {k \in Recurring!Rhythm(t) : Occurrence(t, k) <= End[t]}}

RecurringInv ==
  /\ cursor \in [Templates -> Nat] /\ DOMAIN issued = Templates
  /\ \A w \in Workers : run[w].asOf \in Nat /\ run[w].todo \subseteq Templates
  /\ DOMAIN run = Workers
  /\ \A t \in Templates : TemplateInv(t)

LEMMA DayIs ==
  ASSUME NEW m \in Nat, NEW d \in 1..99
  PROVE  /\ Recurring!Day(m, d) \in Nat /\ Recurring!Day(m, d) = 100 * m + d
         /\ Recurring!Month(Recurring!Day(m, d)) = m /\ Recurring!DayOfMonth(Recurring!Day(m, d)) = d
  BY DEF Recurring!Day, Recurring!Month, Recurring!DayOfMonth

LEMMA IsDay == ASSUME NEW day \in Nat PROVE
  /\ Recurring!Month(day) \in Nat
  /\ day = Recurring!Day(Recurring!Month(day), Recurring!DayOfMonth(day))
  BY DEF Recurring!Day, Recurring!Month, Recurring!DayOfMonth

Last == Len(MonthLength)

LEMMA TemplateFacts ==
  ASSUME NEW t \in Templates
  PROVE  /\ Last \in Nat /\ DOMAIN MonthLength = 1..Last
         /\ \A m \in 1..Last : MonthLength[m] \in 1..99
         /\ Frequency[t] \in Nat /\ 1 <= Frequency[t]
         /\ Start[t] \in Nat /\ End[t] \in Nat
         /\ Recurring!Month(Start[t]) \in 1..Last
         /\ Recurring!DayOfMonth(Start[t]) \in 1..MonthLength[Recurring!Month(Start[t])]
         /\ Recurring!Month(End[t]) + Frequency[t] <= Last
<1>1. MonthLength \in Seq(1..99) /\ Start \in [Templates -> Nat]
  BY TemplatesAssumption DEF Recurring!CalendarAssumption
<1>2. /\ Frequency[t] \in Nat \ {0} /\ End[t] \in Nat
      /\ Recurring!Month(Start[t]) \in DOMAIN MonthLength
      /\ Recurring!DayOfMonth(Start[t]) \in 1..MonthLength[Recurring!Month(Start[t])]
      /\ Recurring!Month(End[t]) + Frequency[t] <= Last
  BY TemplatesAssumption DEF Recurring!CalendarAssumption, Last
<1>3. Last \in Nat /\ DOMAIN MonthLength = 1..Last /\ \A m \in 1..Last : MonthLength[m] \in 1..99
  <2>1. PICK D : D = 1..99
    OBVIOUS
  <2>2. MonthLength \in Seq(D)
    BY <1>1, <2>1
  <2>3. Len(MonthLength) \in Nat /\ DOMAIN MonthLength = 1..Len(MonthLength)
        /\ \A m \in 1..Len(MonthLength) : MonthLength[m] \in D
    BY ONLY <2>2
  <2> QED
    BY <2>1, <2>3 DEF Last
<1>4. Frequency[t] \in Nat /\ 1 <= Frequency[t]
  BY <1>2
<1>5. Start[t] \in Nat
  BY <1>1
<1> QED
  BY <1>2, <1>3, <1>4, <1>5

(* The months of a rhythm: the first, and from each the next, with none     *)
(* between.                                                                 *)
LEMMA Multiples ==
  ASSUME NEW F \in Nat, 1 <= F, NEW a \in Nat, NEW b \in Nat
  PROVE  /\ a * F \in Nat /\ (a + 1) * F = a * F + F /\ a <= a * F
         /\ a < b => a * F + F <= b * F
<1>1. a * F \in Nat /\ b * F \in Nat /\ (a + 1) * F = a * F + F
  OBVIOUS
<1>2. a * F = a + a * (F - 1) /\ a * (F - 1) \in Nat
  OBVIOUS
<1>3. a < b => a * F + F <= b * F
  <2> SUFFICES ASSUME a < b PROVE a * F + F <= b * F
    OBVIOUS
  <2>1. PICK c \in Nat : b = (a + 1) + c
    <3>1. b - (a + 1) \in Nat /\ b = (a + 1) + (b - (a + 1))
      OBVIOUS
    <3> QED
      BY <3>1
  <2>2. b * F = (a + 1) * F + c * F /\ c * F \in Nat
    BY <2>1
  <2> QED
    BY <1>1, <2>2
<1> QED
  BY <1>1, <1>2, <1>3

LEMMA RhythmIs ==
  ASSUME NEW t \in Templates
  PROVE  LET R == Recurring!Rhythm(t)
             s == Recurring!Month(Start[t])
         IN /\ R \subseteq 1..Last /\ s \in R /\ \A m \in R : s <= m
            /\ \A m \in R : m + Frequency[t] <= Last => m + Frequency[t] \in R
            /\ \A m \in R : m # s => m - Frequency[t] \in R
            /\ \A m, k \in R : m < k => m + Frequency[t] <= k
<1> DEFINE R == Recurring!Rhythm(t)
           s == Recurring!Month(Start[t])
<1>1. PICK F \in Nat, S \in Nat : F = Frequency[t] /\ 1 <= F /\ S = s /\ S \in 1..Last
  BY TemplateFacts
<1>2. Last \in Nat
  BY TemplateFacts
<1>3. \A m : m \in R <=> m \in 1..Last /\ \E n \in 0..Last : m = S + n * F
  BY <1>1, TemplateFacts DEF Recurring!Rhythm, Last
<1> HIDE DEF R, s
<1>4. S \in R
  <2>1. S = S + 0 * F /\ 0 \in 0..Last
    BY <1>2
  <2> QED
    BY <1>1, <1>3, <2>1
<1>5. ASSUME NEW m \in R PROVE S <= m /\ (m + F <= Last => m + F \in R) /\ (m # S => m - F \in R)
  <2>1. PICK n \in 0..Last : m = S + n * F
    BY <1>3
  <2>2. n \in Nat /\ m \in 1..Last
    BY <1>2, <1>3
  <2>3. n * F \in Nat /\ (n + 1) * F = n * F + F /\ n <= n * F
    BY <1>1, <2>2, Multiples
  <2>4. m + F <= Last => m + F \in R
    <3>1. m + F <= Last => m + F = S + (n + 1) * F /\ n + 1 \in 0..Last /\ m + F \in 1..Last
      BY ONLY <1>1, <1>2, <2>1, <2>2, <2>3
    <3> QED
      BY <1>3, <3>1
  <2>5. ASSUME m # S PROVE m - F \in R
    <3>1. n # 0
      BY <1>1, <2>1, <2>5
    <3>2. PICK p \in Nat : n = p + 1
      <4>1. n - 1 \in Nat /\ n = (n - 1) + 1
        BY <2>2, <3>1
      <4> QED
        BY <4>1
    <3>3. p * F \in Nat /\ (p + 1) * F = p * F + F
      BY <1>1, Multiples
    <3>4. m - F = S + p * F /\ p \in 0..Last /\ m - F \in 1..Last
      BY <1>1, <1>2, <2>1, <2>2, <3>2, <3>3
    <3> QED
      BY <1>3, <3>4
  <2> QED
    BY <1>1, <2>1, <2>3, <2>4, <2>5
<1>6. ASSUME NEW m \in R, NEW k \in R, m < k PROVE m + F <= k
  <2>1. PICK a \in Nat, b \in Nat : m = S + a * F /\ k = S + b * F
    <3>1. \A x \in 0..Last : x \in Nat
      BY <1>2
    <3> QED
      BY <1>3, <3>1
  <2>2. a * F \in Nat /\ b * F \in Nat /\ (a < b => a * F + F <= b * F) /\ (b < a => b * F + F <= a * F)
    BY <1>1, Multiples
  <2>3. a < b
    <3>1. a = b => a * F = b * F
      OBVIOUS
    <3> QED
      BY <1>1, <1>6, <2>1, <2>2, <3>1
  <2> QED
    BY <1>1, <2>1, <2>2, <2>3
<1>7. R \subseteq 1..Last
  BY <1>3
<1> QED
  BY <1>1, <1>4, <1>5, <1>6, <1>7 DEF R, s

LEMMA LeastIs ==
  ASSUME NEW S \in SUBSET Nat, S # {}
  PROVE  Recurring!Min(S) \in S /\ \A y \in S : Recurring!Min(S) <= y
<1>1. \E x \in S : \A y \in S : x <= y
  BY LeastExists
<1>2. Recurring!Min(S) = CHOOSE x \in S : \A y \in S : x <= y
  BY DEF Recurring!Min
<1> QED
  BY <1>1, <1>2

LEMMA LeastOnly ==
  ASSUME NEW S \in SUBSET Nat, NEW x \in S, \A y \in S : x <= y
  PROVE  Recurring!Min(S) = x
<1>1. PICK n \in S : n = Recurring!Min(S) /\ n <= x
  BY LeastIs
<1>2. n \in Nat /\ x \in Nat /\ x <= n
  OBVIOUS
<1> QED
  BY <1>1, <1>2

LEMMA KeptDayIs ==
  ASSUME NEW t \in Templates, NEW m \in Recurring!Rhythm(t)
  PROVE  /\ Recurring!KeptDay(t, m) \in 1..99 /\ Recurring!KeptDay(t, m) <= MonthLength[m]
         /\ m = Recurring!Month(Start[t]) =>
              Recurring!KeptDay(t, m) = Recurring!DayOfMonth(Start[t])
         /\ m + Frequency[t] <= Last =>
              Recurring!KeptDay(t, m + Frequency[t]) =
                Recurring!Min({Recurring!KeptDay(t, m), MonthLength[m + Frequency[t]]})
<1> DEFINE R == Recurring!Rhythm(t)
           Days(n) == {Recurring!DayOfMonth(Start[t])} \cup {MonthLength[k] : k \in {k \in R : k <= n}}
<1>1. PICK F, s, d : F = Frequency[t] /\ s = Recurring!Month(Start[t]) /\ d = Recurring!DayOfMonth(Start[t])
  OBVIOUS
<1>2. /\ Last \in Nat /\ F \in Nat /\ 1 <= F /\ R \subseteq 1..Last /\ s \in R
      /\ \A k \in R : k \in Nat /\ MonthLength[k] \in 1..99 /\ s <= k
      /\ \A k \in R : k + F <= Last => k + F \in R
      /\ \A k, n \in R : k < n => k + F <= n
      /\ d \in 1..MonthLength[s] /\ d \in 1..99
  <2>1. R \subseteq 1..Last /\ s \in R
    BY <1>1, RhythmIs
  <2>2. Last \in Nat /\ F \in Nat /\ 1 <= F /\ \A k \in 1..Last : k \in Nat /\ MonthLength[k] \in 1..99
    BY <1>1, TemplateFacts
  <2>3. d \in 1..MonthLength[s]
    BY <1>1, TemplateFacts
  <2>4. d \in 1..99
    BY <2>1, <2>2, <2>3
  <2>5. /\ \A k \in R : s <= k
        /\ \A k \in R : k + F <= Last => k + F \in R
        /\ \A k, n \in R : k < n => k + F <= n
    BY <1>1, RhythmIs
  <2> QED
    BY <2>1, <2>2, <2>3, <2>4, <2>5
<1>3. \A n : Recurring!KeptDay(t, n) = Recurring!Min(Days(n))
  BY DEF Recurring!KeptDay
<1>4. \A n, x : x \in Days(n) <=> x = d \/ \E k \in R : k <= n /\ x = MonthLength[k]
  BY <1>1
<1> HIDE DEF Days, R
<1>5. \A n : Days(n) \in SUBSET Nat /\ Days(n) # {}
  <2>1. \A n : \A x \in Days(n) : x \in Nat
    BY <1>2, <1>4
  <2>2. \A n : d \in Days(n)
    BY <1>4
  <2> QED
    BY <2>1, <2>2
<1>6. m \in R
  BY DEF R
<1>7. \A n : Recurring!Min(Days(n)) \in Days(n) /\ \A x \in Days(n) : Recurring!Min(Days(n)) <= x
  BY <1>5, LeastIs
<1>8. PICK kept : kept = Recurring!Min(Days(m)) /\ kept \in Days(m) /\ \A x \in Days(m) : kept <= x
  BY <1>7
<1>9. kept \in 1..99 /\ kept <= MonthLength[m]
  <2>1. \A x \in Days(m) : x \in 1..99
    BY <1>2, <1>4
  <2>2. MonthLength[m] \in Days(m)
    BY <1>2, <1>4, <1>6
  <2> QED
    BY <1>8, <2>1, <2>2
<1>10. ASSUME m = s PROVE kept = d
  <2>1. \A k \in R : k <= m => k = m
    BY <1>2, <1>6, <1>10
  <2>2. \A x \in Days(m) : x = d \/ x = MonthLength[m]
    BY <1>4, <2>1
  <2>3. d \in Days(m) /\ d <= MonthLength[m]
    BY <1>2, <1>4, <1>10
  <2>4. d \in Nat /\ kept \in Nat
    BY <1>2, <1>9
  <2> QED
    BY <1>8, <2>2, <2>3, <2>4
<1>11. ASSUME m + F <= Last
       PROVE  Recurring!Min(Days(m + F)) = Recurring!Min({kept, MonthLength[m + F]})
  <2>1. PICK n : n = m + F /\ n \in R /\ m <= n
    BY <1>2, <1>6, <1>11
  <2>2. \A k \in R : k <= n <=> k <= m \/ k = n
    BY <1>2, <1>6, <2>1
  <2>3. \A x : x \in Days(n) <=> x \in Days(m) \/ x = MonthLength[n]
    BY <1>4, <2>1, <2>2
  <2>4. PICK last \in 1..99 : last = MonthLength[n]
    BY <1>2, <2>1
  <2>5. PICK pair : pair = {kept, last} /\ pair \in SUBSET Nat /\ pair # {}
    <3>1. kept \in Nat /\ last \in Nat
      BY <1>9
    <3> QED
      BY <3>1
  <2>6. PICK x : x = Recurring!Min(pair) /\ x \in pair /\ x <= kept /\ x <= last
    BY <2>5, LeastIs
  <2>7. x \in Days(n) /\ \A y \in Days(n) : x <= y
    <3>1. x \in Nat /\ kept \in Nat /\ \A y \in Days(m) : y \in Nat
      BY <1>5, <1>9, <2>5, <2>6
    <3> QED
      BY <1>8, <2>3, <2>4, <2>5, <2>6, <3>1
  <2>8. Recurring!Min(Days(n)) = x
    BY <1>5, <2>7, LeastOnly
  <2> QED
    BY <2>1, <2>4, <2>5, <2>6, <2>8
<1> QED
  BY <1>1, <1>3, <1>8, <1>9, <1>10, <1>11

(* Occurrences come in the order of their months, each from the last.       *)
LEMMA OccurrencesAre ==
  ASSUME NEW t \in Templates
  PROVE  LET R == Recurring!Rhythm(t)
         IN /\ \A m \in R : /\ Occurrence(t, m) \in Nat /\ 100 <= Occurrence(t, m)
                            /\ Recurring!Month(Occurrence(t, m)) = m
            /\ Occurrence(t, Recurring!Month(Start[t])) = Start[t]
            /\ \A k, m \in R : k < m => Occurrence(t, k) < Occurrence(t, m)
            /\ \A m \in R : m + Frequency[t] <= Last =>
                 Recurring!NextOccurrence(Occurrence(t, m), Frequency[t]) = Occurrence(t, m + Frequency[t])
<1> DEFINE R == Recurring!Rhythm(t)
<1>1. \A m \in R : m \in 1..Last /\ m \in Nat /\ 1 <= m
  BY RhythmIs, TemplateFacts
<1>2. \A m \in R : /\ Occurrence(t, m) \in Nat /\ Recurring!Month(Occurrence(t, m)) = m
                   /\ Recurring!DayOfMonth(Occurrence(t, m)) = Recurring!KeptDay(t, m)
                   /\ Occurrence(t, m) = 100 * m + Recurring!KeptDay(t, m)
  BY <1>1, DayIs, KeptDayIs, ZenonT(60) DEF Occurrence
<1>3. \A m \in R : Recurring!KeptDay(t, m) \in 1..99
  BY KeptDayIs
<1>4. Occurrence(t, Recurring!Month(Start[t])) = Start[t]
  BY RhythmIs, KeptDayIs, IsDay, TemplateFacts DEF Occurrence
<1>5. \A m \in R : 100 <= Occurrence(t, m)
  BY <1>1, <1>2, <1>3
<1>6. \A k, m \in R : k < m => Occurrence(t, k) < Occurrence(t, m)
  BY <1>1, <1>2, <1>3
<1>7. ASSUME NEW m \in R, m + Frequency[t] <= Last
      PROVE  Recurring!NextOccurrence(Occurrence(t, m), Frequency[t]) = Occurrence(t, m + Frequency[t])
  BY <1>2, <1>7, KeptDayIs DEF Recurring!NextOccurrence, Occurrence
<1> QED
  BY <1>2, <1>4, <1>5, <1>6, <1>7

(* What Occurrences counts through: from the cursor, each day from the last.*)
Following(t, day) ==
  IF Recurring!Month(day) + Frequency[t] > Len(MonthLength) THEN day
  ELSE Recurring!NextOccurrence(day, Frequency[t])
Counting(f, t, N) == f = [n \in 0..N |-> IF n = 0 THEN cursor[t] ELSE Following(t, f[n - 1])]

LEMMA CountingExists == ASSUME NEW t, NEW N \in Nat PROVE \E f : Counting(f, t, N)
<1> DEFINE Bad == {n \in Nat : ~\E f : Counting(f, t, n)}
<1> SUFFICES ASSUME N \in Bad PROVE FALSE
  OBVIOUS
<1>1. PICK n \in Bad : \A k \in Bad : n <= k
  BY LeastExists
<1>2. CASE n = 0
  <2>1. PICK f : f = [i \in 0..0 |-> cursor[t]]
    OBVIOUS
  <2>2. \A i \in 0..0 : i = 0
    OBVIOUS
  <2>3. Counting(f, t, 0)
    BY <2>1, <2>2 DEF Counting
  <2> QED
    BY <1>2, <2>3
<1>3. CASE n # 0
  <2>1. n - 1 \in Nat /\ n - 1 \notin Bad
    BY <1>1, <1>3
  <2>2. PICK f : Counting(f, t, n - 1)
    BY <2>1
  <2>3. PICK g : g = [i \in 0..n |-> IF i = n THEN Following(t, f[n - 1]) ELSE f[i]]
    OBVIOUS
  <2>4. \A i \in 0..n : i # n => i \in 0..(n - 1)
    BY <2>1
  <2>5. \A i \in 0..(n - 1) : f[i] = IF i = 0 THEN cursor[t] ELSE Following(t, f[i - 1])
    BY <2>2 DEF Counting
  <2>6. ASSUME NEW i \in 0..n PROVE g[i] = IF i = 0 THEN cursor[t] ELSE Following(t, g[i - 1])
    <3>1. i # 0 => i - 1 \in 0..n /\ i - 1 # n /\ g[i - 1] = f[i - 1]
      BY <2>1, <2>3
    <3> QED
      BY <1>3, <2>3, <2>4, <2>5, <3>1
  <2>7. Counting(g, t, n)
    BY <2>3, <2>6 DEF Counting
  <2> QED
    BY <2>7
<1> QED
  BY <1>2, <1>3

LEMMA OccurrencesCount ==
  ASSUME NEW t \in Templates
  PROVE  \E f : /\ Recurring!Occurrences(t) = {f[n] : n \in 0..Last}
                /\ f[0] = cursor[t]
                /\ \A n \in 1..Last : f[n] = Following(t, f[n - 1])
<1>1. PICK f : f = CHOOSE h : Counting(h, t, Last)
  OBVIOUS
<1>2. Counting(f, t, Last)
  BY <1>1, CountingExists, TemplateFacts
<1>3. Recurring!Occurrences(t) = {f[n] : n \in 0..Last}
  BY <1>1 DEF Recurring!Occurrences, Counting, Following, Last
<1>4. f[0] = cursor[t] /\ \A n \in 1..Last : f[n] = Following(t, f[n - 1])
  <2>1. 0 \in 0..Last /\ \A n \in 1..Last : n \in 0..Last /\ n # 0
    BY TemplateFacts
  <2>2. \A n \in 0..Last : f[n] = IF n = 0 THEN cursor[t] ELSE Following(t, f[n - 1])
    BY <1>2 DEF Counting
  <2> QED
    BY <2>1, <2>2
<1> QED
  BY <1>3, <1>4

(* From an occurrence on they are those of the rhythm that the calendar     *)
(* reaches.                                                                 *)
LEMMA OccurrencesFrom ==
  ASSUME NEW t \in Templates, NEW m \in Recurring!Rhythm(t), cursor[t] = Occurrence(t, m)
  PROVE  Recurring!Occurrences(t) = {Occurrence(t, k) : k \in {k \in Recurring!Rhythm(t) : m <= k}}
<1> DEFINE R == Recurring!Rhythm(t)
<1>1. PICK F, L : F = Frequency[t] /\ L = Last
  OBVIOUS
<1>2. /\ L \in Nat /\ F \in Nat /\ 1 <= F
      /\ \A k \in R : k \in Nat /\ 1 <= k /\ k <= L
      /\ \A k \in R : k + F <= L => k + F \in R
      /\ \A k, n \in R : k < n => k + F <= n
  <2>1. L \in Nat /\ F \in Nat /\ 1 <= F
    BY <1>1, TemplateFacts
  <2>2. \A k \in R : k \in 1..L
    BY <1>1, RhythmIs
  <2>3. \A k \in R : k \in Nat /\ 1 <= k /\ k <= L
    BY <2>1, <2>2
  <2> QED
    BY <1>1, <2>1, <2>3, RhythmIs
<1>3. \A k, n \in R : m <= k /\ k < n => m <= n - F /\ n - F \in R
  <2>1. \A n \in R : n # Recurring!Month(Start[t]) => n - F \in R
    BY <1>1, RhythmIs
  <2>2. \A k \in R : Recurring!Month(Start[t]) <= k
    BY RhythmIs
  <2>3. Recurring!Month(Start[t]) \in R
    BY RhythmIs
  <2>4. \A k, n \in R : k < n => n # Recurring!Month(Start[t])
    BY <1>2, <2>2, <2>3
  <2>5. \A k, n \in R : k < n => k <= n - F
    BY <1>2
  <2>6. m \in R
    OBVIOUS
  <2> QED
    BY <1>2, <2>1, <2>4, <2>5, <2>6
<1>4. ASSUME NEW k \in R
      PROVE  Following(t, Occurrence(t, k)) = Occurrence(t, IF k + F <= L THEN k + F ELSE k)
  <2>1. Recurring!Month(Occurrence(t, k)) = k
    BY OccurrencesAre
  <2>2. k + F <= L => Recurring!NextOccurrence(Occurrence(t, k), F) = Occurrence(t, k + F)
    BY <1>1, OccurrencesAre
  <2> QED
    BY <1>1, <1>2, <2>1, <2>2 DEF Following, Last
<1>5. PICK f : /\ Recurring!Occurrences(t) = {f[n] : n \in 0..L}
               /\ f[0] = Occurrence(t, m)
               /\ \A n \in 1..L : f[n] = Following(t, f[n - 1])
  BY <1>1, OccurrencesCount
<1> HIDE DEF R
<1>6. m \in R
  BY DEF R
<1>7. ASSUME NEW n \in 0..L PROVE \E k \in R : m <= k /\ f[n] = Occurrence(t, k)
  <2> DEFINE Bad == {i \in Nat : i <= L /\ ~\E k \in R : m <= k /\ f[i] = Occurrence(t, k)}
  <2> SUFFICES ASSUME n \in Bad PROVE FALSE
    BY <1>2
  <2>1. PICK i \in Bad : \A j \in Bad : i <= j
    BY LeastExists
  <2>2. i # 0
    BY <1>2, <1>5, <1>6, <2>1
  <2>3. i - 1 \in Nat /\ i - 1 <= L /\ i - 1 \notin Bad /\ i \in 1..L
    BY <1>2, <2>1, <2>2
  <2>4. PICK k \in R : m <= k /\ f[i - 1] = Occurrence(t, k)
    BY <2>3
  <2>5. PICK q : q = (IF k + F <= L THEN k + F ELSE k) /\ q \in R /\ m <= q
    BY <1>2, <1>6, <2>4
  <2>6. f[i] = Occurrence(t, q)
    BY <1>4, <1>5, <2>3, <2>4, <2>5
  <2> QED
    BY <2>1, <2>5, <2>6
<1>8. ASSUME NEW k \in R, m <= k PROVE \E n \in 0..L : f[n] = Occurrence(t, k)
  <2> DEFINE Reached(i) == \E n \in 0..L : n <= i - m /\ f[n] = Occurrence(t, i)
             Bad == {i \in Nat : i \in R /\ m <= i /\ ~Reached(i)}
  <2> SUFFICES ASSUME ~Reached(k) PROVE FALSE
    OBVIOUS
  <2>0. k \in Bad
    BY <1>2, <1>8
  <2>1. PICK i \in Bad : \A j \in Bad : i <= j
    BY <2>0, LeastExists
  <2>2. i \in R /\ m <= i /\ i \in Nat /\ m \in Nat /\ i <= L
    BY <1>2, <1>6
  <2>3. i # m
    <3>1. i = m => Reached(i)
      BY <1>2, <1>5, <2>2
    <3> QED
      BY <2>1, <3>1
  <2>4. i - F \in R /\ m <= i - F
    BY <1>2, <1>3, <1>6, <2>2, <2>3
  <2>5. i - F \in Nat /\ i - F < i
    BY <1>2, <2>2, <2>4
  <2>6. Reached(i - F)
    BY <2>1, <2>2, <2>4, <2>5
  <2>7. PICK n \in 0..L : n <= (i - F) - m /\ f[n] = Occurrence(t, i - F)
    BY <2>6
  <2>8. n + 1 \in 1..L /\ n + 1 <= i - m /\ (n + 1) - 1 = n
    BY <1>2, <1>6, <2>2, <2>7
  <2>9. f[n + 1] = Occurrence(t, i)
    <3>1. f[n + 1] = Following(t, f[n])
      BY <1>5, <2>8
    <3>2. (i - F) + F <= L /\ (i - F) + F = i
      BY <1>2, <2>2
    <3> QED
      BY <1>4, <2>4, <2>7, <3>1, <3>2
  <2>10. n + 1 \in 0..L
    BY <1>2, <2>8
  <2>11. Reached(i)
    BY <2>8, <2>9, <2>10
  <2> QED
    BY <2>1, <2>11
<1> QED
  BY <1>5, <1>7, <1>8 DEF R

LEMMA RecurringInit == Recurring!Init => RecurringInv
<1> SUFFICES ASSUME Recurring!Init PROVE RecurringInv
  OBVIOUS
<1>1. cursor = Start /\ issued = [t \in Templates |-> {}] /\ run = [w \in Workers |-> Recurring!Idle]
  BY DEF Recurring!Init, Recurring!CreateRecurringInvoice
<1>2. Start \in [Templates -> Nat]
  BY TemplatesAssumption DEF Recurring!CalendarAssumption
<1>3. ASSUME NEW t \in Templates PROVE TemplateInv(t)
  <2>1. PICK s \in Recurring!Rhythm(t) :
          s = Recurring!Month(Start[t]) /\ ~\E k \in Recurring!Rhythm(t) : k < s
    <3>1. \A k \in Recurring!Rhythm(t) : Recurring!Month(Start[t]) <= k /\ k \in Nat
      BY RhythmIs, TemplateFacts
    <3>2. Recurring!Month(Start[t]) \in Recurring!Rhythm(t)
      BY RhythmIs
    <3> QED
      BY <3>1, <3>2
  <2>2. cursor[t] = Occurrence(t, s)
    BY <1>1, <2>1, OccurrencesAre
  <2>3. issued[t] = {Occurrence(t, k) : k \in {k \in Recurring!Rhythm(t) : k < s}}
    BY <1>1, <2>1
  <2> QED
    BY <2>1, <2>2, <2>3 DEF TemplateInv
<1>4. \A w \in Workers : run[w].asOf \in Nat /\ run[w].todo \subseteq Templates
  BY <1>1 DEF Recurring!Idle
<1> QED
  BY <1>1, <1>2, <1>3, <1>4 DEF RecurringInv

(* What is due from an occurrence on is what there is up to the last of it, *)
(* and the cursor moves to the occurrence after that.                       *)
LEMMA DueAre ==
  ASSUME NEW t \in Templates, NEW m \in Recurring!Rhythm(t), cursor[t] = Occurrence(t, m),
         NEW asOf \in Nat, NEW due, due = Recurring!DueOccurrences(t, asOf), due # {}
  PROVE  \E n \in Recurring!Rhythm(t) :
           /\ m < n /\ \A k \in Recurring!Rhythm(t) : m <= k /\ k < n => Occurrence(t, k) <= End[t]
           /\ due = {Occurrence(t, k) : k \in {k \in Recurring!Rhythm(t) : m <= k /\ k < n}}
           /\ Recurring!NextOccurrence(Recurring!Max(due), Frequency[t]) = Occurrence(t, n)
<1> DEFINE R == Recurring!Rhythm(t)
<1>1. PICK F, L, e : F = Frequency[t] /\ L = Last /\ e = End[t]
  OBVIOUS
<1>2. /\ L \in Nat /\ F \in Nat /\ 1 <= F /\ e \in Nat /\ Recurring!Month(e) + F <= L
      /\ \A k \in R : k \in Nat /\ 1 <= k /\ k <= L
      /\ \A k \in R : k + F <= L => k + F \in R
      /\ \A k, n \in R : k < n => k + F <= n
  <2>1. L \in Nat /\ F \in Nat /\ 1 <= F /\ e \in Nat /\ Recurring!Month(e) + F <= L
    BY <1>1, TemplateFacts
  <2>2. \A k \in R : k \in 1..L
    BY <1>1, RhythmIs
  <2>3. \A k \in R : k \in Nat /\ 1 <= k /\ k <= L
    BY <2>1, <2>2
  <2> QED
    BY <1>1, <2>1, <2>3, RhythmIs
<1>3. /\ \A k \in R : Occurrence(t, k) \in Nat /\ Recurring!Month(Occurrence(t, k)) = k
      /\ \A k, n \in R : k < n => Occurrence(t, k) < Occurrence(t, n)
      /\ \A k \in R : k + F <= L => Recurring!NextOccurrence(Occurrence(t, k), F) = Occurrence(t, k + F)
  BY <1>1, OccurrencesAre
<1>4. \A day : day \in due <=> \E k \in R : m <= k /\ day = Occurrence(t, k) /\ day <= asOf /\ day <= e
  BY <1>1, OccurrencesFrom DEF Recurring!DueOccurrences
<1>5. PICK last \in due : (\A day \in due : day <= last) /\ last = Recurring!Max(due)
  <2>1. \A day \in due : day \in Nat /\ day <= asOf
    BY <1>3, <1>4
  <2>2. IsFiniteSet(due)
    <3>1. PICK I : I = 0..asOf /\ IsFiniteSet(I)
      <4>1. 0 \in Int /\ asOf \in Int
        OBVIOUS
      <4>2. IsFiniteSet(0..asOf)
        BY ONLY <4>1, FS_Interval, Zenon
      <4> QED
        BY <4>2
    <3>2. \A day \in due : day \in I
      BY <2>1, <3>1
    <3> QED
      BY <3>1, <3>2, FS_Subset
  <2>3. \E x \in due : \A y \in due : y <= x
    BY <2>1, <2>2, GreatestExists
  <2>4. \E x \in due : \A y \in due : x >= y
    BY <2>1, <2>3
  <2>5. Recurring!Max(due) = CHOOSE x \in due : \A y \in due : x >= y
    BY DEF Recurring!Max
  <2>6. Recurring!Max(due) \in due /\ \A y \in due : Recurring!Max(due) >= y
    BY <2>4, <2>5
  <2>7. \A y \in due : y <= Recurring!Max(due)
    BY <2>1, <2>6
  <2> QED
    BY <2>6, <2>7
<1> HIDE DEF R
<1>6. PICK q \in R : m <= q /\ last = Occurrence(t, q) /\ last <= asOf /\ last <= e
  BY <1>4, <1>5
<1>7. q + F <= L
  <2>1. q <= Recurring!Month(e)
    <3>1. Recurring!Month(last) = q /\ last \in Nat
      BY <1>3, <1>6
    <3>2. Recurring!Month(last) <= Recurring!Month(e)
      BY <1>2, <1>6, <3>1 DEF Recurring!Month
    <3> QED
      BY <3>1, <3>2
  <2>2. Recurring!Month(e) \in Nat
    BY <1>2, IsDay
  <2> QED
    BY <1>2, <2>1, <2>2
<1>8. PICK n : n = q + F /\ n \in R /\ q < n /\ m < n /\ \A k \in R : k < n <=> k <= q
  <2>1. q + F \in R
    BY <1>2, <1>7
  <2>2. m \in R
    BY DEF R
  <2> QED
    BY <1>2, <1>6, <2>1, <2>2
<1>9. \A k \in R : k <= q => Occurrence(t, k) <= last
  BY <1>2, <1>3, <1>6
<1>10. \A k \in R : m <= k /\ k < n <=> m <= k /\ Occurrence(t, k) \in due
  <2>1. ASSUME NEW k \in R, m <= k, k < n PROVE Occurrence(t, k) \in due
    <3>1. Occurrence(t, k) <= last /\ Occurrence(t, k) \in Nat /\ last \in Nat
      BY <1>3, <1>6, <1>8, <1>9, <2>1
    <3> QED
      BY <1>2, <1>4, <1>6, <2>1, <3>1
  <2>2. ASSUME NEW k \in R, Occurrence(t, k) \in due PROVE k < n
    <3>1. Occurrence(t, k) <= last
      BY <1>5, <2>2
    <3>2. q < k => Occurrence(t, q) < Occurrence(t, k)
      BY <1>3
    <3>3. k <= q
      BY <1>2, <1>3, <1>6, <3>1, <3>2
    <3> QED
      BY <1>8, <3>3
  <2> QED
    BY <2>1, <2>2
<1>11. due = {Occurrence(t, k) : k \in {k \in R : m <= k /\ k < n}}
  BY <1>4, <1>10
<1>12. \A k \in R : m <= k /\ k < n => Occurrence(t, k) <= e
  BY <1>2, <1>3, <1>4, <1>10
<1>13. Recurring!NextOccurrence(Recurring!Max(due), F) = Occurrence(t, n)
  BY <1>3, <1>5, <1>6, <1>7, <1>8
<1> QED
  BY <1>1, <1>8, <1>11, <1>12, <1>13 DEF R

LEMMA GeneratedStep ==
  ASSUME NEW t \in Templates, TemplateInv(t), NEW asOf \in Nat, cursor[t] \in 1..asOf,
         NEW due, due = Recurring!DueOccurrences(t, asOf), due # {},
         NEW next, next = Recurring!NextOccurrence(Recurring!Max(due), Frequency[t]),
         issued'[t] = issued[t] \cup due,
         cursor'[t] = IF next > End[t] THEN Recurring!Parked ELSE next
  PROVE  TemplateInv(t)' /\ cursor'[t] \in Nat
<1> DEFINE R == Recurring!Rhythm(t)
<1>1. PICK m \in R : /\ cursor[t] = Occurrence(t, m)
                     /\ \A k \in R : k < m => Occurrence(t, k) <= End[t]
                     /\ issued[t] = {Occurrence(t, k) : k \in {k \in R : k < m}}
  BY DEF TemplateInv, Recurring!Parked
<1>2. PICK n \in R :
        /\ m < n /\ \A k \in R : m <= k /\ k < n => Occurrence(t, k) <= End[t]
        /\ due = {Occurrence(t, k) : k \in {k \in R : m <= k /\ k < n}}
        /\ next = Occurrence(t, n)
  BY <1>1, DueAre
<1>3. \A k \in R : k \in Nat /\ Occurrence(t, k) \in Nat /\ \A l \in R : k < l => Occurrence(t, k) < Occurrence(t, l)
  BY RhythmIs, OccurrencesAre, TemplateFacts
<1>4. R' = R /\ \A k : Occurrence(t, k)' = Occurrence(t, k)
  BY DEF Occurrence
<1> HIDE DEF R
<1>5. \A k \in R : k < n => Occurrence(t, k) <= End[t]
  BY <1>1, <1>2, <1>3
<1>6. issued'[t] = {Occurrence(t, k) : k \in {k \in R : k < n}}
  BY <1>1, <1>2, <1>3
<1>7. CASE next > End[t]
  <2>1. \A k \in R : Occurrence(t, k) <= End[t] <=> k < n
    BY <1>2, <1>3, <1>5, <1>7, TemplateFacts, SMTT(60)
  <2>2. issued'[t] = {Occurrence(t, k) : k \in {k \in R : Occurrence(t, k) <= End[t]}}
    BY <1>6, <2>1
  <2>3. cursor'[t] = Recurring!Parked
    BY <1>7
  <2> QED
    BY <2>2, <2>3 DEF TemplateInv, R, Recurring!Parked
<1>8. CASE ~(next > End[t])
  <2>1. cursor'[t] = Occurrence(t, n)
    BY <1>2, <1>8
  <2> QED
    BY <1>2, <1>3, <1>5, <1>6, <2>1 DEF TemplateInv, R
<1> QED
  BY <1>7, <1>8

LEMMA RecurringStep == RecurringInv /\ [Recurring!Next]_(Recurring!vars) => RecurringInv'
<1> SUFFICES ASSUME RecurringInv, [Recurring!Next]_(Recurring!vars) PROVE RecurringInv'
  OBVIOUS
<1>1. ASSUME UNCHANGED <<cursor, issued>>, DOMAIN run' = Workers,
             \A w \in Workers : run'[w].asOf \in Nat /\ run'[w].todo \subseteq Templates
      PROVE  RecurringInv'
  BY <1>1 DEF RecurringInv, TemplateInv
<1>2. CASE UNCHANGED Recurring!vars
  BY <1>1, <1>2 DEF Recurring!vars, RecurringInv
<1>3. ASSUME NEW w \in Workers, NEW asOf \in AsOf, Recurring!Scan(w, asOf) PROVE RecurringInv'
  <2>1. asOf \in Nat
    BY TemplatesAssumption DEF Recurring!CalendarAssumption
  <2> QED
    BY <1>1, <1>3, <2>1 DEF Recurring!Scan, RecurringInv
<1>4. ASSUME NEW w \in Workers, NEW t \in Templates,
             run' = [run EXCEPT ![w].todo = @ \ {t}]
      PROVE  DOMAIN run' = Workers /\ \A x \in Workers : run'[x].asOf \in Nat /\ run'[x].todo \subseteq Templates
  <2>1. \A x \in Workers : x # w => run'[x] = run[x]
    BY <1>4 DEF RecurringInv
  <2>2. run'[w] = [run[w] EXCEPT !.todo = @ \ {t}]
    BY <1>4 DEF RecurringInv
  <2>3. run'[w].asOf \in Nat /\ run'[w].todo \subseteq Templates
    BY <2>2 DEF RecurringInv
  <2> QED
    BY <1>4, <2>1, <2>3 DEF RecurringInv
<1>5. ASSUME NEW w \in Workers, NEW t \in Templates, Recurring!GenerateForTemplate(w, t) PROVE RecurringInv'
  <2> DEFINE due == Recurring!DueOccurrences(t, run[w].asOf)
             next == Recurring!NextOccurrence(Recurring!Max(due), Frequency[t])
  <2>1. run' = [run EXCEPT ![w].todo = @ \ {t}]
    BY <1>5 DEF Recurring!GenerateForTemplate
  <2>2. CASE UNCHANGED <<cursor, issued>>
    BY <1>1, <1>4, <2>1, <2>2
  <2>3. CASE /\ cursor[t] \in 1..run[w].asOf /\ due # {}
             /\ issued' = [issued EXCEPT ![t] = @ \cup due]
             /\ cursor' = [cursor EXCEPT ![t] = IF next > End[t] THEN Recurring!Parked ELSE next]
    <3>1. PICK asOf, d, nxt : asOf \in Nat /\ asOf = run[w].asOf /\ d = due /\ nxt = next
      BY DEF RecurringInv
    <3>2. d = Recurring!DueOccurrences(t, asOf) /\ nxt = Recurring!NextOccurrence(Recurring!Max(d), Frequency[t])
      BY <3>1
    <3> HIDE DEF due, next
    <3>3. /\ cursor[t] \in 1..asOf /\ d # {} /\ issued'[t] = issued[t] \cup d
          /\ cursor'[t] = IF nxt > End[t] THEN Recurring!Parked ELSE nxt
      BY <2>3, <3>1 DEF RecurringInv
    <3>4. TemplateInv(t)
      BY DEF RecurringInv
    <3>5. TemplateInv(t)' /\ cursor'[t] \in Nat
      BY ONLY t \in Templates, <3>1, <3>2, <3>3, <3>4, GeneratedStep
    <3>6. \A x \in Templates : x # t => TemplateInv(x)' /\ cursor'[x] \in Nat
      <4>1. \A x \in Templates : x # t => cursor'[x] = cursor[x] /\ issued'[x] = issued[x]
        BY <2>3 DEF RecurringInv
      <4> QED
        BY <4>1 DEF RecurringInv, TemplateInv
    <3>7. DOMAIN issued' = Templates /\ cursor' \in [Templates -> Nat]
      <4>1. DOMAIN cursor' = Templates /\ cursor' = [x \in Templates |-> cursor'[x]]
        BY <2>3 DEF RecurringInv
      <4>2. \A x \in Templates : cursor'[x] \in Nat
        BY <3>5, <3>6
      <4>3. DOMAIN issued' = Templates
        BY <2>3 DEF RecurringInv
      <4> QED
        BY <4>1, <4>2, <4>3
    <3> QED
      BY <1>4, <2>1, <3>5, <3>6, <3>7 DEF RecurringInv
  <2> QED
    BY <1>5, <2>2, <2>3 DEF Recurring!GenerateForTemplate
<1>6. ASSUME NEW w \in Workers, NEW t \in Templates, Recurring!Failed(w, t) PROVE RecurringInv'
  BY <1>1, <1>4, <1>6 DEF Recurring!Failed
<1>7. ASSUME NEW w \in Workers, Recurring!Finish(w) PROVE RecurringInv'
  BY <1>1, <1>7 DEF Recurring!Finish, Recurring!Idle, RecurringInv
<1> QED
  BY <1>2, <1>3, <1>5, <1>6, <1>7 DEF Recurring!Next

LEMMA RecurringImply == RecurringInv => Recurring!OncePerMonth
<1> SUFFICES ASSUME RecurringInv, NEW t \in Templates
             PROVE  LET occurrence(m) == Recurring!Day(m, Recurring!KeptDay(t, m))
                        passed == {m \in Recurring!Rhythm(t) :
                                     IF cursor[t] = Recurring!Parked THEN occurrence(m) <= End[t]
                                     ELSE m < Recurring!Month(cursor[t])}
                    IN /\ \A m \in passed : {day \in issued[t] : Recurring!Month(day) = m} = {occurrence(m)}
                       /\ \A day \in issued[t] : Recurring!Month(day) \in passed
  BY DEF Recurring!OncePerMonth
<1>1. PICK passed : passed = {m \in Recurring!Rhythm(t) :
                                IF cursor[t] = Recurring!Parked THEN Occurrence(t, m) <= End[t]
                                ELSE m < Recurring!Month(cursor[t])}
  OBVIOUS
<1>2. issued[t] = {Occurrence(t, k) : k \in passed}
  <2>1. CASE \E m \in Recurring!Rhythm(t) :
               /\ cursor[t] = Occurrence(t, m)
               /\ issued[t] = {Occurrence(t, k) : k \in {k \in Recurring!Rhythm(t) : k < m}}
    <3>1. PICK m \in Recurring!Rhythm(t) :
               /\ cursor[t] = Occurrence(t, m)
               /\ issued[t] = {Occurrence(t, k) : k \in {k \in Recurring!Rhythm(t) : k < m}}
      BY <2>1
    <3>2. Recurring!Month(cursor[t]) = m /\ cursor[t] # Recurring!Parked
      <4>1. Recurring!Month(Occurrence(t, m)) = m /\ Occurrence(t, m) \in Nat /\ 100 <= Occurrence(t, m)
        BY OccurrencesAre
      <4> QED
        BY <3>1, <4>1 DEF Recurring!Parked
    <3>3. passed = {k \in Recurring!Rhythm(t) : k < m}
      BY <1>1, <3>2
    <3> QED
      BY <3>1, <3>3
  <2>2. CASE /\ cursor[t] = Recurring!Parked
             /\ issued[t] = {Occurrence(t, k) : k \in {k \in Recurring!Rhythm(t) : Occurrence(t, k) <= End[t]}}
    BY <1>1, <2>2
  <2> QED
    BY <2>1, <2>2 DEF RecurringInv, TemplateInv
<1>3. \A k \in passed : Recurring!Month(Occurrence(t, k)) = k
  BY <1>1, OccurrencesAre
<1>4. \A m \in passed : {day \in issued[t] : Recurring!Month(day) = m} = {Occurrence(t, m)}
  BY <1>2, <1>3
<1>5. \A day \in issued[t] : Recurring!Month(day) \in passed
  BY <1>2, <1>3
<1> QED
  BY <1>1, <1>4, <1>5 DEF Occurrence

(* For any quotes, orders, invoices, templates, requisitions, receipts and  *)
(* bills, any calendar and any number of workers: a quote becomes one       *)
(* document, an invoice is submitted once, a template issues one invoice in *)
(* every month of its rhythm that the cursor has passed and no other, a     *)
(* requisition is ordered once and a receipt is billed whole once.          *)
THEOREM OnceOnly == SubledgerSpec => []HappensOnce
<1>1. SalesInv /\ RecurringInv /\ PurchasesInv => HappensOnce
  BY SalesImply, RecurringImply, PurchasesImply DEF HappensOnce
<1> QED
  BY <1>1, SalesInit, SalesStep, OnlySales, RecurringInit, RecurringStep, OnlyRecurring,
     PurchasesInit, PurchasesStep, OnlyPurchases, PTL DEF SubledgerSpec
-----------------------------------------------------------------------------
(***************************************************************************)
(* Receivables.  The columns of invoices, receipts and notes are the sums  *)
(* of the rows behind them, and decide the status; the accounts hold what  *)
(* every open item is worth at its own rate.  Neither is inductive alone:  *)
(* that no row takes more than is left needs the columns to add up, and    *)
(* that a draft is worth nothing needs nothing to be settled of it.        *)
(***************************************************************************)
Posted == Open \cup {"PAID"}
Row == [status : {"none", "DRAFT"} \cup Posted, gross : Nat, total : Nat,
        paid : Nat, credited : Nat, writtenOff : Nat, due : Nat]
Funds == [status : {"none", "POSTED"}, allocated : Nat, unapplied : Nat]
Credit == [status : {"none", "DRAFT", "POSTED"}, total : Nat, rate : Nat, applied : Nat, available : Nat]

ReceivablesShape ==
  /\ invoice \in [Invoices -> Row]
  /\ receipt \in [Receipts -> Funds]
  /\ note \in [Notes -> Credit]
  /\ received \in [Receipts -> [Documents -> Nat]]
  /\ credited \in [Notes -> [Invoices -> Nat]]
  /\ refunded \in [Receipts \cup Notes -> Nat]

RowAgrees(row) ==
  /\ row.due = row.total - row.paid - row.credited - row.writtenOff
  /\ row.status \notin Posted => row.paid = 0 /\ row.credited = 0 /\ row.writtenOff = 0
  /\ row.status \in Posted =>
       row.status = IF row.due = row.total THEN "POSTED"
                    ELSE IF row.due > 0 THEN "PARTIALLY_PAID" ELSE "PAID"

ReceivedBy(d) == [r \in Receipts |-> received[r][d]]
CreditedBy(i) == [c \in Notes |-> credited[c][i]]

InvoicesAgree ==
  \A i \in Invoices : /\ RowAgrees(invoice[i])
                      /\ invoice[i].paid = Sum(ReceivedBy(i), Receipts)
                      /\ invoice[i].credited = Sum(CreditedBy(i), Notes)
ReceiptsAgree ==
  \A r \in Receipts : /\ receipt[r].allocated = Sum(received[r], Documents) + refunded[r]
                      /\ receipt[r].allocated + receipt[r].unapplied = Amount[r]
                      /\ receipt[r].status = "none" => receipt[r].allocated = 0
NotesAgree ==
  \A c \in Notes : /\ note[c].applied = Sum(credited[c], Invoices) + refunded[c] + Sum(ReceivedBy(c), Receipts)
                   /\ note[c].applied + note[c].available = note[c].total
                   /\ note[c].status # "POSTED" => note[c].applied = 0

ReceivablesInv == ReceivablesShape /\ InvoicesAgree /\ ReceiptsAgree /\ NotesAgree

(* What each open item is worth in base currency.                           *)
Worth(row, rate) == IF row.status \in Posted THEN (row.due + row.gross - row.total) * rate ELSE 0
Given(row) == IF row.status = "POSTED" THEN row.available * row.rate ELSE 0
Held(row, rate) == IF row.status = "POSTED" THEN row.unapplied * rate ELSE 0
CreditedInBase(c) == [i \in Invoices |-> credited[c][i] * Rate[i]]
Standing(c) == Given(note[c]) - LeftBehind(c)
Worths == [i \in Invoices |-> Worth(invoice[i], Rate[i])]
Standings == [c \in Notes |-> Standing(c)]
Helds == [r \in Receipts |-> Held(receipt[r], Rate[r])]

AccountsAgree ==
  /\ control = Sum(Worths, Invoices) - Sum(Standings, Notes)
  /\ advance = Sum(Helds, Receipts)

LEMMA ReceivablesFacts ==
  /\ IsFiniteSet(Invoices) /\ IsFiniteSet(Receipts) /\ IsFiniteSet(Notes) /\ IsFiniteSet(Documents)
  /\ Invoices \cap Notes = {} /\ Receipts \cap Notes = {} /\ Documents = Invoices \cup Notes
  /\ ReceiptTargets \in SUBSET Documents /\ IsFiniteSet(ReceiptTargets)
<1>1. IsFiniteSet(Invoices) /\ IsFiniteSet(Receipts) /\ IsFiniteSet(Notes)
  BY DocumentsAssumption
<1>2. IsFiniteSet(Documents)
  BY <1>1, FS_Union DEF Documents
<1>3. ReceiptTargets \in SUBSET Documents
  BY DocumentsAssumption
<1>4. IsFiniteSet(ReceiptTargets)
  BY <1>2, <1>3, FS_Subset
<1> QED
  BY <1>1, <1>2, <1>3, <1>4, DocumentsAssumption DEF Documents

LEMMA FiguresFacts ==
  /\ \A f \in Figures : f.gross \in Nat /\ f.gross - f.discount \in Nat
  /\ NoteTotals \subseteq Nat /\ NoteRates \subseteq Nat
  /\ \A r \in Receipts : Amount[r] \in Nat /\ Rate[r] \in Nat
  /\ \A i \in Invoices : Rate[i] \in Nat
  BY FiguresAssumption

LEMMA Times ==
  ASSUME NEW a \in Int, NEW b \in Int, NEW r \in Int
  PROVE  a * r \in Int /\ b * r \in Int /\ (a + b) * r = a * r + b * r /\ (a - b) * r = a * r - b * r
  OBVIOUS

LEMMA RowFields ==
  ASSUME NEW row \in Row
  PROVE  /\ row.status \in {"none", "DRAFT", "POSTED", "PARTIALLY_PAID", "PAID"}
         /\ row.gross \in Nat /\ row.total \in Nat /\ row.paid \in Nat /\ row.credited \in Nat
         /\ row.writtenOff \in Nat /\ row.due \in Nat
  BY DEF Row, Posted, Open

LEMMA FundsFields ==
  ASSUME NEW row \in Funds
  PROVE  /\ row.status \in {"none", "POSTED"} /\ row.allocated \in Nat /\ row.unapplied \in Nat
  BY DEF Funds

LEMMA CreditFields ==
  ASSUME NEW row \in Credit
  PROVE  /\ row.status \in {"none", "DRAFT", "POSTED"} /\ row.total \in Nat /\ row.rate \in Nat
         /\ row.applied \in Nat /\ row.available \in Nat
  BY DEF Credit

(* Rows that are added to a table in one of its rows.                       *)
RowAdded(M, N, A, B, a, g) ==
  /\ IsFiniteSet(A) /\ IsFiniteSet(B) /\ a \in A
  /\ M \in [A -> [B -> Nat]] /\ N \in [A -> [B -> Nat]] /\ \A b \in B : g[b] \in Nat
  /\ \A x \in A \ {a} : N[x] = M[x]
  /\ \A b \in B : N[a][b] = M[a][b] + g[b]

Column(M, A, b) == [x \in A |-> M[x][b]]

LEMMA AddedRow ==
  ASSUME NEW M, NEW N, NEW A, NEW B, NEW a, NEW g, RowAdded(M, N, A, B, a, g)
  PROVE  /\ Sum(N[a], B) = Sum(M[a], B) + Sum(g, B)
         /\ \A x \in A : Sum(M[x], B) \in Nat
         /\ \A b \in B : /\ Sum(Column(N, A, b), A) = Sum(Column(M, A, b), A) + g[b]
                         /\ Sum(Column(M, A, b), A) \in Nat
<1> USE DEF RowAdded
<1>1. Sum(N[a], B) = Sum(M[a], B) + Sum(g, B)
  <2>1. \A b \in B : M[a][b] \in Int /\ g[b] \in Int /\ N[a][b] = M[a][b] + g[b]
    OBVIOUS
  <2> QED
    BY <2>1, SumPlus
<1>2. \A x \in A : Sum(M[x], B) \in Nat
  <2>1. \A x \in A : \A b \in B : M[x][b] \in Nat
    OBVIOUS
  <2> QED
    BY <2>1, SumNat
<1>3. ASSUME NEW b \in B
      PROVE  /\ Sum(Column(N, A, b), A) = Sum(Column(M, A, b), A) + g[b]
             /\ Sum(Column(M, A, b), A) \in Nat
  <2>1. PICK p, q : p = Column(M, A, b) /\ q = Column(N, A, b)
    OBVIOUS
  <2>2. \A x \in A : p[x] \in Nat /\ q[x] \in Nat /\ p[x] = M[x][b] /\ q[x] = N[x][b]
    BY <2>1 DEF Column
  <2>3. DifferAt(p, q, A, a)
    BY <2>2 DEF DifferAt
  <2>4. Sum(q, A) = Sum(p, A) + (q[a] - p[a])
    BY ONLY <2>3, SumDiffers
  <2>5. Sum(p, A) \in Nat
    BY <2>2, SumNat
  <2>6. q[a] = p[a] + g[b] /\ p[a] \in Nat /\ g[b] \in Nat
    BY <2>2
  <2>7. Sum(q, A) = Sum(p, A) + g[b]
    BY ONLY <2>4, <2>5, <2>6
  <2> QED
    BY <2>1, <2>5, <2>7
<1> QED
  BY <1>1, <1>2, <1>3

Columns == {"paid", "credited", "writtenOff"}

LEMMA SettledFields ==
  ASSUME NEW row \in Row, NEW n \in Nat, n <= row.due, NEW column \in Columns
  PROVE  LET new == Settled(row, n, column)
         IN /\ new \in Row
            /\ new.paid = row.paid + (IF column = "paid" THEN n ELSE 0)
            /\ new.credited = row.credited + (IF column = "credited" THEN n ELSE 0)
            /\ new.writtenOff = row.writtenOff + (IF column = "writtenOff" THEN n ELSE 0)
            /\ new.due = row.due - n /\ new.gross = row.gross /\ new.total = row.total
            /\ new.status = IF row.due = n THEN "PAID" ELSE "PARTIALLY_PAID"
<1> DEFINE st == IF row.due = n THEN "PAID" ELSE "PARTIALLY_PAID"
           pa == row.paid + (IF column = "paid" THEN n ELSE 0)
           cr == row.credited + (IF column = "credited" THEN n ELSE 0)
           wo == row.writtenOff + (IF column = "writtenOff" THEN n ELSE 0)
           du == row.due - n
           new == Settled(row, n, column)
<1>1. /\ st \in {"PARTIALLY_PAID", "PAID"} /\ pa \in Nat /\ cr \in Nat /\ wo \in Nat /\ du \in Nat
  BY RowFields
<1>2. row.paid + 0 = row.paid /\ row.credited + 0 = row.credited /\ row.writtenOff + 0 = row.writtenOff
  BY RowFields
<1>3. /\ new \in Row /\ new.paid = pa /\ new.credited = cr /\ new.writtenOff = wo /\ new.due = du
      /\ new.gross = row.gross /\ new.total = row.total /\ new.status = st
  <2>1. CASE column = "paid"
    <3>1. new = [row EXCEPT !.paid = pa, !.due = du, !.status = st]
      BY <2>1 DEF Settled
    <3>2. cr = row.credited /\ wo = row.writtenOff
      BY <1>2, <2>1
    <3> HIDE DEF st, pa, cr, wo, du, new
    <3> QED
      BY <1>1, <3>1, <3>2 DEF Row, Posted, Open
  <2>2. CASE column = "credited"
    <3>1. new = [row EXCEPT !.credited = cr, !.due = du, !.status = st]
      BY <2>2 DEF Settled
    <3>2. pa = row.paid /\ wo = row.writtenOff
      BY <1>2, <2>2
    <3> HIDE DEF st, pa, cr, wo, du, new
    <3> QED
      BY <1>1, <3>1, <3>2 DEF Row, Posted, Open
  <2>3. CASE column = "writtenOff"
    <3>1. new = [row EXCEPT !.writtenOff = wo, !.due = du, !.status = st]
      BY <2>3 DEF Settled
    <3>2. pa = row.paid /\ cr = row.credited
      BY <1>2, <2>3
    <3> HIDE DEF st, pa, cr, wo, du, new
    <3> QED
      BY <1>1, <3>1, <3>2 DEF Row, Posted, Open
  <2> HIDE DEF st, pa, cr, wo, du, new
  <2> QED
    BY <2>1, <2>2, <2>3 DEF Columns
<1> QED
  BY <1>3

LEMMA DrawnFields ==
  ASSUME NEW row \in Credit, NEW n \in Nat, n <= row.available
  PROVE  LET new == Drawn(row, n)
         IN /\ new \in Credit /\ new.status = row.status /\ new.total = row.total /\ new.rate = row.rate
            /\ new.applied = row.applied + n /\ new.available = row.available - n
<1> DEFINE a == row.applied + n
           u == row.available - n
<1>1. a \in Nat /\ u \in Nat /\ Drawn(row, n) = [row EXCEPT !.applied = a, !.available = u]
  BY CreditFields DEF Drawn
<1> HIDE DEF a, u
<1>2. /\ Drawn(row, n) \in Credit /\ Drawn(row, n).status = row.status
      /\ Drawn(row, n).total = row.total /\ Drawn(row, n).rate = row.rate
      /\ Drawn(row, n).applied = a /\ Drawn(row, n).available = u
  BY <1>1 DEF Credit
<1> QED
  BY <1>2 DEF a, u

(* One invoice settled by some or by nothing.                               *)
SettledBy(row, n, column) == IF n > 0 THEN Settled(row, n, column) ELSE row

LEMMA SettledRow ==
  ASSUME NEW row \in Row, RowAgrees(row), NEW n \in Nat, NEW column \in Columns, NEW rate \in Nat,
         n > 0 => row.status \in Open /\ n <= row.due
  PROVE  LET new == SettledBy(row, n, column)
         IN /\ new \in Row /\ RowAgrees(new)
            /\ new.paid = row.paid + (IF column = "paid" THEN n ELSE 0)
            /\ new.credited = row.credited + (IF column = "credited" THEN n ELSE 0)
            /\ Worth(new, rate) = Worth(row, rate) - n * rate
            /\ Worth(new, rate) \in Int /\ Worth(row, rate) \in Int /\ n * rate \in Int
<1> DEFINE x == row.due + row.gross - row.total
<1>1. PICK new : new = SettledBy(row, n, column)
  OBVIOUS
<1>0. row.due \in Nat /\ row.gross \in Nat /\ row.total \in Nat /\ x \in Int
  BY RowFields
<1>2. x * rate \in Int /\ n * rate \in Int /\ (x - n) * rate = x * rate - n * rate
  <2> HIDE DEF x
  <2> QED
    BY <1>0, Times
<1>3. CASE n = 0
  <2>1. new = row /\ n * rate = 0
    BY <1>1, <1>3 DEF SettledBy
  <2>2. Worth(row, rate) \in Int
    BY <1>2 DEF Worth
  <2>3. row.paid \in Nat /\ row.credited \in Nat
    BY RowFields
  <2> QED
    BY <1>1, <1>3, <2>1, <2>2, <2>3
<1>4. CASE n > 0
  <2>1. /\ new \in Row
        /\ new.paid = row.paid + (IF column = "paid" THEN n ELSE 0)
        /\ new.credited = row.credited + (IF column = "credited" THEN n ELSE 0)
        /\ new.writtenOff = row.writtenOff + (IF column = "writtenOff" THEN n ELSE 0)
        /\ new.due = row.due - n /\ new.gross = row.gross /\ new.total = row.total
        /\ new.status = IF row.due = n THEN "PAID" ELSE "PARTIALLY_PAID"
    <3>1. new = Settled(row, n, column)
      BY <1>1, <1>4 DEF SettledBy
    <3> QED
      BY <1>4, <3>1, SettledFields
  <2>2. new.due + new.gross - new.total = x - n
    BY <1>0, <2>1
  <2>3. row.status \in Posted /\ new.status \in Posted
    BY <1>4, <2>1 DEF Posted, Open
  <2>4. Worth(row, rate) = x * rate /\ Worth(new, rate) = (x - n) * rate
    BY <2>2, <2>3 DEF Worth
  <2>5. row.paid \in Nat /\ row.credited \in Nat /\ row.writtenOff \in Nat
    BY RowFields
  <2>6. row.due = row.total - row.paid - row.credited - row.writtenOff
    BY DEF RowAgrees
  <2>7. new.due = new.total - new.paid - new.credited - new.writtenOff
    BY <1>0, <2>1, <2>5, <2>6 DEF Columns
  <2>8. new.status = IF new.due = new.total THEN "POSTED"
                     ELSE IF new.due > 0 THEN "PARTIALLY_PAID" ELSE "PAID"
    BY <1>0, <1>4, <2>1, <2>5, <2>6
  <2>9. RowAgrees(new)
    BY <2>3, <2>7, <2>8 DEF RowAgrees
  <2> HIDE DEF x
  <2> QED
    BY <1>1, <1>2, <2>1, <2>4, <2>9
<1> QED
  BY <1>3, <1>4

(* All invoices.                                                            *)
InvoicesSettled(g, column) ==
  /\ g \in [Invoices -> Nat] /\ column \in Columns
  /\ \A i \in Invoices : g[i] > 0 => invoice[i].status \in Open /\ g[i] <= invoice[i].due
  /\ invoice' = [i \in Invoices |-> SettledBy(invoice[i], g[i], column)]

InBase(g) == [i \in Invoices |-> g[i] * Rate[i]]

LEMMA SettledInvoices ==
  ASSUME ReceivablesInv, NEW g, NEW column, InvoicesSettled(g, column)
  PROVE  /\ invoice' \in [Invoices -> Row]
         /\ \A i \in Invoices :
              /\ RowAgrees(invoice'[i])
              /\ invoice'[i].paid = invoice[i].paid + (IF column = "paid" THEN g[i] ELSE 0)
              /\ invoice'[i].credited = invoice[i].credited + (IF column = "credited" THEN g[i] ELSE 0)
         /\ Sum(Worths', Invoices) = Sum(Worths, Invoices) - Sum(InBase(g), Invoices)
         /\ Sum(Worths, Invoices) \in Int /\ Sum(InBase(g), Invoices) \in Int
<1> USE DEF InvoicesSettled
<1>1. ASSUME NEW i \in Invoices
      PROVE  /\ invoice'[i] \in Row /\ RowAgrees(invoice'[i])
             /\ invoice'[i].paid = invoice[i].paid + (IF column = "paid" THEN g[i] ELSE 0)
             /\ invoice'[i].credited = invoice[i].credited + (IF column = "credited" THEN g[i] ELSE 0)
             /\ Worth(invoice'[i], Rate[i]) = Worth(invoice[i], Rate[i]) - g[i] * Rate[i]
             /\ Worth(invoice'[i], Rate[i]) \in Int /\ Worth(invoice[i], Rate[i]) \in Int
             /\ g[i] * Rate[i] \in Int
  <2>1. PICK row \in Row, n \in Nat, rate \in Nat :
          /\ row = invoice[i] /\ n = g[i] /\ rate = Rate[i] /\ RowAgrees(row)
          /\ n > 0 => row.status \in Open /\ n <= row.due
    BY FiguresFacts DEF ReceivablesInv, ReceivablesShape, InvoicesAgree
  <2>2. invoice'[i] = SettledBy(row, n, column)
    BY <2>1
  <2>3. column \in Columns
    OBVIOUS
  <2> QED
    BY <2>1, <2>2, <2>3, SettledRow
<1>2. PICK v, w, h : v = Worths /\ w = Worths' /\ h = InBase(g)
  OBVIOUS
<1>3. \A i \in Invoices : /\ v[i] = Worth(invoice[i], Rate[i]) /\ w[i] = Worth(invoice'[i], Rate[i])
                          /\ h[i] = g[i] * Rate[i]
  BY <1>2 DEF Worths, InBase
<1>4. \A i \in Invoices : w[i] \in Int /\ h[i] \in Int /\ v[i] = w[i] + h[i]
  BY <1>1, <1>3
<1>5. Sum(v, Invoices) = Sum(w, Invoices) + Sum(h, Invoices)
  BY <1>4, SumPlus, ReceivablesFacts
<1>6. Sum(w, Invoices) \in Int /\ Sum(h, Invoices) \in Int
  BY <1>4, SumInt, ReceivablesFacts
<1>7. invoice' \in [Invoices -> Row]
  <2>1. invoice' = [i \in Invoices |-> invoice'[i]]
    OBVIOUS
  <2> QED
    BY <1>1, <2>1
<1> QED
  BY <1>1, <1>2, <1>5, <1>6, <1>7

(* One note that is drawn on.                                               *)
DrawnBy(row, n) == IF n > 0 THEN Drawn(row, n) ELSE row

Draws(row, n, new) ==
  /\ row \in Credit /\ n \in Nat /\ new = DrawnBy(row, n)
  /\ n > 0 => row.status = "POSTED" /\ n <= row.available

LEMMA DrawnRow ==
  ASSUME NEW row, NEW n, NEW new, Draws(row, n, new)
  PROVE  /\ new \in Credit /\ new.status = row.status /\ new.total = row.total /\ new.rate = row.rate
         /\ new.applied = row.applied + n /\ new.available = row.available - n
         /\ Given(new) = Given(row) - n * row.rate
         /\ Given(new) \in Int /\ Given(row) \in Int /\ n * row.rate \in Int
<1> USE DEF Draws
<1>1. new = DrawnBy(row, n)
  OBVIOUS
<1>2. /\ row.status \in {"none", "DRAFT", "POSTED"} /\ row.total \in Nat /\ row.rate \in Nat
      /\ row.applied \in Nat /\ row.available \in Nat
  BY CreditFields
<1>3. /\ row.available * row.rate \in Int /\ n * row.rate \in Int
      /\ (row.available - n) * row.rate = row.available * row.rate - n * row.rate
  BY <1>2, Times
<1>4. /\ new \in Credit /\ new.status = row.status /\ new.total = row.total /\ new.rate = row.rate
      /\ new.applied = row.applied + n /\ new.available = row.available - n
  <2>1. CASE n = 0
    BY <1>1, <1>2, <2>1 DEF DrawnBy
  <2>2. CASE n > 0
    <3>1. new = Drawn(row, n)
      BY <1>1, <2>2 DEF DrawnBy
    <3> QED
      BY <2>2, <3>1, DrawnFields
  <2> QED
    BY <2>1, <2>2
<1>5. Given(new) = Given(row) - n * row.rate /\ Given(row) \in Int /\ Given(new) \in Int
  <2>1. CASE row.status = "POSTED"
    <3>1. Given(row) = row.available * row.rate /\ Given(new) = (row.available - n) * row.rate
      BY <1>4, <2>1 DEF Given
    <3> QED
      BY <1>3, <3>1
  <2>2. CASE row.status # "POSTED"
    <3>1. Given(row) = 0 /\ Given(new) = 0 /\ n = 0
      BY <1>4, <2>2 DEF Given
    <3>2. n * row.rate = 0
      BY <1>2, <3>1
    <3> QED
      BY <3>1, <3>2
  <2> QED
    BY <2>1, <2>2
<1> QED
  BY <1>1, <1>3, <1>4, <1>5

(* What a note stands for beside what it has left to give.                  *)
LEMMA LeftIs ==
  ASSUME ReceivablesShape, NEW c \in Notes
  PROVE  /\ Sum(CreditedInBase(c), Invoices) \in Int /\ Sum(credited[c], Invoices) \in Nat
         /\ Sum(ReceivedBy(c), Receipts) \in Nat /\ note[c].rate \in Nat
         /\ LeftBehind(c) = Sum(CreditedInBase(c), Invoices) - Sum(credited[c], Invoices) * note[c].rate
                            - 2 * (Sum(ReceivedBy(c), Receipts) * note[c].rate)
         /\ LeftBehind(c) \in Int /\ Given(note[c]) \in Int /\ Standing(c) \in Int
<1>1. \A i \in Invoices : CreditedInBase(c)[i] \in Int /\ credited[c][i] \in Nat
  BY FiguresFacts DEF ReceivablesShape, CreditedInBase
<1>2. \A r \in Receipts : ReceivedBy(c)[r] \in Nat
  BY ReceivablesFacts DEF ReceivablesShape, ReceivedBy
<1>3. Sum(CreditedInBase(c), Invoices) \in Int /\ Sum(credited[c], Invoices) \in Nat /\ Sum(ReceivedBy(c), Receipts) \in Nat
  BY <1>1, <1>2, SumInt, SumNat, ReceivablesFacts
<1>4. note[c].rate \in Nat /\ note[c].available \in Nat
  BY CreditFields DEF ReceivablesShape
<1>5. LeftBehind(c) = Sum(CreditedInBase(c), Invoices) - Sum(credited[c], Invoices) * note[c].rate
                      - 2 * (Sum(ReceivedBy(c), Receipts) * note[c].rate)
  BY Zenon DEF LeftBehind, CreditedInBase, ReceivedBy
<1>6. /\ Sum(credited[c], Invoices) * note[c].rate \in Int
      /\ Sum(ReceivedBy(c), Receipts) * note[c].rate \in Int /\ note[c].available * note[c].rate \in Int
  BY <1>3, <1>4, Times
<1>7. LeftBehind(c) \in Int /\ Given(note[c]) \in Int
  BY <1>3, <1>5, <1>6 DEF Given
<1> QED
  BY <1>3, <1>4, <1>5, <1>7 DEF Standing

(* All notes.                                                               *)
NotesDrawn(h) ==
  /\ h \in [Notes -> Nat]
  /\ \A c \in Notes : h[c] > 0 => note[c].status = "POSTED" /\ h[c] <= note[c].available
  /\ note' = [c \in Notes |-> DrawnBy(note[c], h[c])]

LEMMA DrawnNotes ==
  ASSUME ReceivablesShape, NEW h, NotesDrawn(h)
  PROVE  /\ note' \in [Notes -> Credit]
         /\ \A c \in Notes :
              /\ note'[c].status = note[c].status /\ note'[c].total = note[c].total
              /\ note'[c].rate = note[c].rate
              /\ note'[c].applied = note[c].applied + h[c]
              /\ note'[c].available = note[c].available - h[c]
              /\ h[c] > 0 => note[c].status = "POSTED"
              /\ Given(note'[c]) = Given(note[c]) - h[c] * note[c].rate
              /\ h[c] * note[c].rate \in Int
<1> USE DEF NotesDrawn
<1>1. ASSUME NEW c \in Notes
      PROVE  /\ note'[c] \in Credit
             /\ note'[c].status = note[c].status /\ note'[c].total = note[c].total
             /\ note'[c].rate = note[c].rate
             /\ note'[c].applied = note[c].applied + h[c]
             /\ note'[c].available = note[c].available - h[c]
             /\ h[c] > 0 => note[c].status = "POSTED"
             /\ Given(note'[c]) = Given(note[c]) - h[c] * note[c].rate
             /\ h[c] * note[c].rate \in Int
  <2>1. PICK row \in Credit, n \in Nat :
          /\ row = note[c] /\ n = h[c]
          /\ n > 0 => row.status = "POSTED" /\ n <= row.available
    BY DEF ReceivablesShape
  <2>2. note'[c] = DrawnBy(row, n)
    BY <2>1
  <2>3. PICK new : new = DrawnBy(row, n)
    OBVIOUS
  <2>4. /\ new \in Credit /\ new.status = row.status /\ new.total = row.total /\ new.rate = row.rate
        /\ new.applied = row.applied + n /\ new.available = row.available - n
        /\ Given(new) = Given(row) - n * row.rate
        /\ n * row.rate \in Int
    <3>1. Draws(row, n, new)
      BY <2>1, <2>3 DEF Draws
    <3> QED
      BY ONLY <3>1, DrawnRow
  <2>5. row = note[c] /\ n = h[c] /\ new = note'[c]
    BY <2>1, <2>2, <2>3
  <2>6. n > 0 => row.status = "POSTED"
    BY <2>1
  <2> QED
    BY ONLY <2>4, <2>5, <2>6
<1>2. note' = [c \in Notes |-> note'[c]]
  OBVIOUS
<1> QED
  BY <1>1, <1>2

(* A receipt takes from what a request names, and from nothing else.        *)
Full(f) == [d \in Documents |-> IF d \in DOMAIN f THEN f[d] ELSE 0]
InvoicesOf(f) == [i \in Invoices |-> Full(f)[i]]
NotesOf(f) == [c \in Notes |-> Full(f)[c]]
NotesInBase(h) == [c \in Notes |-> h[c] * note[c].rate]

Receives(r, f) ==
  /\ r \in Receipts /\ f \in [ReceiptTargets -> Nat] /\ Allocatable(f)
  /\ invoice' = InvoicesAfter(f, "paid") /\ note' = NotesAfter(f) /\ received' = ReceivedAfter(r, f)
  /\ credited' = credited /\ refunded' = refunded

LEMMA FullFacts ==
  ASSUME NEW f \in [ReceiptTargets -> Nat]
  PROVE  /\ \A d \in Documents : Full(f)[d] \in Nat
         /\ \A i \in Invoices : InvoicesOf(f)[i] = Full(f)[i]
         /\ \A c \in Notes : NotesOf(f)[c] = Full(f)[c]
         /\ Sum(f, ReceiptTargets) = Sum(Full(f), Documents) /\ Sum(f, ReceiptTargets) \in Nat
<1>1. \A d \in Documents : Full(f)[d] \in Nat /\ Full(f)[d] = (IF d \in ReceiptTargets THEN f[d] ELSE 0)
  BY DEF Full
<1>2. PICK h : h = Full(f)
  OBVIOUS
<1>3. Sum(f, ReceiptTargets) = Sum(h, Documents)
  BY <1>1, <1>2, SumSome, ReceivablesFacts
<1>4. Sum(f, ReceiptTargets) \in Nat
  BY SumNat, ReceivablesFacts
<1> QED
  BY <1>1, <1>2, <1>3, <1>4 DEF InvoicesOf, NotesOf

LEMMA ReceivesIs ==
  ASSUME ReceivablesInv, NEW r, NEW f, Receives(r, f)
  PROVE  /\ InvoicesSettled(InvoicesOf(f), "paid")
         /\ NotesDrawn(NotesOf(f))
         /\ RowAdded(received, received', Receipts, Documents, r, Full(f))
<1> USE DEF Receives
<1>1. PICK x, g, h : x = Full(f) /\ g = InvoicesOf(f) /\ h = NotesOf(f)
  OBVIOUS
<1>2. /\ \A d \in Documents : x[d] \in Nat /\ x[d] = IF d \in ReceiptTargets THEN f[d] ELSE 0
      /\ g \in [Invoices -> Nat] /\ h \in [Notes -> Nat]
      /\ \A i \in Invoices : g[i] = x[i]
      /\ \A c \in Notes : h[c] = x[c]
  <2>1. \A d \in Documents : x[d] \in Nat /\ x[d] = IF d \in ReceiptTargets THEN f[d] ELSE 0
    BY <1>1 DEF Full
  <2>2. \A i \in Invoices : x[i] \in Nat
    BY <2>1, ReceivablesFacts
  <2>3. \A c \in Notes : x[c] \in Nat
    BY <2>1, ReceivablesFacts
  <2>4. g = [i \in Invoices |-> x[i]] /\ h = [c \in Notes |-> x[c]]
    BY <1>1 DEF InvoicesOf, NotesOf
  <2> QED
    BY <2>1, <2>2, <2>3, <2>4
<1>3. InvoicesSettled(g, "paid")
  <2>1. ASSUME NEW i \in Invoices PROVE g[i] = IF i \in ReceiptTargets THEN f[i] ELSE 0
    BY <1>2, ReceivablesFacts
  <2>2. \A i \in Invoices : g[i] > 0 => invoice[i].status \in Open /\ g[i] <= invoice[i].due
    BY <2>1 DEF Allocatable
  <2>3. invoice' = [i \in Invoices |-> SettledBy(invoice[i], g[i], "paid")]
    <3>1. ASSUME NEW i \in Invoices
          PROVE  (IF i \in DOMAIN f /\ f[i] > 0 THEN Settled(invoice[i], f[i], "paid") ELSE invoice[i])
                 = SettledBy(invoice[i], g[i], "paid")
      BY <2>1 DEF SettledBy
    <3> QED
      BY <3>1 DEF InvoicesAfter
  <2>4. "paid" \in Columns
    BY DEF Columns
  <2> QED
    BY <1>2, <2>2, <2>3, <2>4 DEF InvoicesSettled
<1>4. NotesDrawn(h)
  <2>1. ASSUME NEW c \in Notes PROVE h[c] = IF c \in ReceiptTargets THEN f[c] ELSE 0
    BY <1>2, ReceivablesFacts
  <2>2. \A c \in Notes : h[c] > 0 => note[c].status = "POSTED" /\ h[c] <= note[c].available
    BY <2>1, ReceivablesFacts DEF Allocatable
  <2>3. note' = [c \in Notes |-> DrawnBy(note[c], h[c])]
    <3>1. ASSUME NEW c \in Notes
          PROVE  (IF c \in DOMAIN f /\ f[c] > 0 THEN Drawn(note[c], f[c]) ELSE note[c])
                 = DrawnBy(note[c], h[c])
      BY <2>1 DEF DrawnBy
    <3> QED
      BY <3>1 DEF NotesAfter
  <2> QED
    BY <1>2, <2>2, <2>3 DEF NotesDrawn
<1>5. RowAdded(received, received', Receipts, Documents, r, x)
  <2>1. received \in [Receipts -> [Documents -> Nat]]
    BY DEF ReceivablesInv, ReceivablesShape
  <2>2. PICK was \in [Documents -> Nat] : was = received[r]
    BY <2>1
  <2>3. PICK new : new = [d \in Documents |-> was[d] + x[d]]
    OBVIOUS
  <2>4. [d \in Documents |-> received[r][d] + (IF d \in DOMAIN f THEN f[d] ELSE 0)] = new
    BY <1>2, <2>2, <2>3
  <2>5. received' = [received EXCEPT ![r] = new]
    BY <2>4 DEF ReceivedAfter
  <2>6. new \in [Documents -> Nat] /\ \A d \in Documents : new[d] = was[d] + x[d]
    BY <1>2, <2>3
  <2>7. /\ received' \in [Receipts -> [Documents -> Nat]] /\ received'[r] = new
        /\ \A y \in Receipts \ {r} : received'[y] = received[y]
    BY <2>1, <2>5, <2>6
  <2>8. \A d \in Documents : received'[r][d] = received[r][d] + x[d]
    BY <2>2, <2>6, <2>7
  <2>9. IsFiniteSet(Receipts) /\ IsFiniteSet(Documents) /\ r \in Receipts /\ \A d \in Documents : x[d] \in Nat
    BY <1>2, ReceivablesFacts
  <2> QED
    BY ONLY <2>1, <2>7, <2>8, <2>9 DEF RowAdded
<1> QED
  BY <1>1, <1>3, <1>4, <1>5

(* What a receipt settles leaves the columns and the rows equal.            *)
LEMMA ReceivesKeeps ==
  ASSUME ReceivablesInv, NEW r, NEW f, Receives(r, f)
  PROVE  /\ invoice' \in [Invoices -> Row] /\ note' \in [Notes -> Credit]
         /\ received' \in [Receipts -> [Documents -> Nat]]
         /\ InvoicesAgree' /\ NotesAgree'
         /\ Sum(received'[r], Documents) = Sum(received[r], Documents) + Sum(f, ReceiptTargets)
         /\ Sum(received[r], Documents) \in Nat /\ Sum(f, ReceiptTargets) \in Nat
         /\ \A x \in Receipts \ {r} : received'[x] = received[x]
<1>1. PICK x, g, h : x = Full(f) /\ g = InvoicesOf(f) /\ h = NotesOf(f)
  OBVIOUS
<1>2. f \in [ReceiptTargets -> Nat] /\ credited' = credited /\ refunded' = refunded
  BY DEF Receives
<1>3. /\ \A d \in Documents : x[d] \in Nat
      /\ \A i \in Invoices : g[i] = x[i]
      /\ \A c \in Notes : h[c] = x[c]
      /\ Sum(f, ReceiptTargets) = Sum(x, Documents) /\ Sum(f, ReceiptTargets) \in Nat
  BY <1>1, <1>2, FullFacts
<1>4. InvoicesSettled(g, "paid") /\ NotesDrawn(h) /\ RowAdded(received, received', Receipts, Documents, r, x)
  BY <1>1, ReceivesIs
<1>5. /\ invoice' \in [Invoices -> Row]
      /\ \A i \in Invoices : /\ RowAgrees(invoice'[i])
                             /\ invoice'[i].paid = invoice[i].paid + g[i]
                             /\ invoice'[i].credited = invoice[i].credited + 0
  BY <1>4, SettledInvoices
<1>6. /\ note' \in [Notes -> Credit]
      /\ \A c \in Notes :
           /\ note'[c].status = note[c].status /\ note'[c].total = note[c].total
           /\ note'[c].applied = note[c].applied + h[c]
           /\ note'[c].available = note[c].available - h[c]
           /\ h[c] > 0 => note[c].status = "POSTED"
  <2>1. ReceivablesShape
    BY DEF ReceivablesInv
  <2> QED
    BY <1>4, <2>1, DrawnNotes
<1>7. /\ Sum(received'[r], Documents) = Sum(received[r], Documents) + Sum(x, Documents)
      /\ \A y \in Receipts : Sum(received[y], Documents) \in Nat
      /\ \A d \in Documents : Sum(ReceivedBy(d)', Receipts) = Sum(ReceivedBy(d), Receipts) + x[d]
  <2>1. /\ Sum(received'[r], Documents) = Sum(received[r], Documents) + Sum(x, Documents)
        /\ \A y \in Receipts : Sum(received[y], Documents) \in Nat
        /\ \A d \in Documents :
             Sum(Column(received', Receipts, d), Receipts) = Sum(Column(received, Receipts, d), Receipts) + x[d]
    <3>1. PICK M, N : M = received /\ N = received'
      OBVIOUS
    <3>2. RowAdded(M, N, Receipts, Documents, r, x)
      BY <1>4, <3>1
    <3>3. /\ Sum(N[r], Documents) = Sum(M[r], Documents) + Sum(x, Documents)
          /\ \A y \in Receipts : Sum(M[y], Documents) \in Nat
          /\ \A d \in Documents : Sum(Column(N, Receipts, d), Receipts) = Sum(Column(M, Receipts, d), Receipts) + x[d]
      BY ONLY <3>2, AddedRow
    <3> QED
      BY <3>1, <3>3, Zenon
  <2> QED
    BY <2>1 DEF ReceivedBy, Column
<1>8. InvoicesAgree'
  <2>1. ASSUME NEW i \in Invoices
        PROVE  /\ RowAgrees(invoice'[i])
               /\ invoice'[i].paid = Sum(ReceivedBy(i)', Receipts)
               /\ invoice'[i].credited = Sum(CreditedBy(i)', Notes)
    <3>1. invoice[i].paid = Sum(ReceivedBy(i), Receipts) /\ invoice[i].credited = Sum(CreditedBy(i), Notes)
      BY DEF ReceivablesInv, InvoicesAgree
    <3>2. CreditedBy(i)' = CreditedBy(i)
      BY <1>2 DEF CreditedBy
    <3>3. i \in Documents /\ invoice[i].credited \in Nat
      BY ReceivablesFacts, RowFields DEF ReceivablesInv, ReceivablesShape
    <3> QED
      BY <1>3, <1>5, <1>7, <3>1, <3>2, <3>3
  <2> QED
    BY <2>1 DEF InvoicesAgree
<1>9. NotesAgree'
  <2>1. ASSUME NEW c \in Notes
        PROVE  /\ note'[c].applied = Sum(credited'[c], Invoices) + refunded'[c] + Sum(ReceivedBy(c)', Receipts)
               /\ note'[c].applied + note'[c].available = note'[c].total
               /\ note'[c].status # "POSTED" => note'[c].applied = 0
    <3>1. /\ note[c].applied = Sum(credited[c], Invoices) + refunded[c] + Sum(ReceivedBy(c), Receipts)
          /\ note[c].applied + note[c].available = note[c].total
          /\ note[c].status # "POSTED" => note[c].applied = 0
      BY DEF ReceivablesInv, NotesAgree
    <3>2. c \in Documents /\ note[c].applied \in Nat /\ note[c].available \in Nat
      BY ReceivablesFacts, CreditFields DEF ReceivablesInv, ReceivablesShape
    <3>3. h[c] \in Nat /\ h[c] = x[c] /\ Sum(ReceivedBy(c)', Receipts) = Sum(ReceivedBy(c), Receipts) + x[c]
      BY <1>3, <1>7, <3>2
    <3>4. /\ Sum(credited[c], Invoices) \in Nat /\ Sum(ReceivedBy(c), Receipts) \in Nat
          /\ refunded[c] \in Nat
      BY LeftIs, ReceivablesFacts DEF ReceivablesInv, ReceivablesShape
    <3>5. /\ note'[c].status = note[c].status /\ note'[c].total = note[c].total
          /\ note'[c].applied = note[c].applied + h[c]
          /\ note'[c].available = note[c].available - h[c]
          /\ h[c] > 0 => note[c].status = "POSTED"
      BY <1>6
    <3>6. credited'[c] = credited[c] /\ refunded'[c] = refunded[c]
      BY <1>2
    <3>7. PICK s, q, n : s = Sum(credited[c], Invoices) /\ q = Sum(ReceivedBy(c), Receipts) /\ n = h[c]
      OBVIOUS
    <3>8. /\ s \in Nat /\ q \in Nat /\ n \in Nat
          /\ Sum(credited'[c], Invoices) = s /\ Sum(ReceivedBy(c)', Receipts) = q + n
      BY <3>3, <3>4, <3>6, <3>7
    <3>9. /\ note'[c].applied = s + refunded'[c] + (q + n)
          /\ note'[c].applied + note'[c].available = note'[c].total
      <4>1. PICK v, w, z : v = note[c].applied /\ w = note[c].available /\ z = refunded[c]
        OBVIOUS
      <4>2. /\ v \in Nat /\ w \in Nat /\ z \in Nat /\ s \in Nat /\ q \in Nat /\ n \in Nat
            /\ v = s + z + q /\ v + w = note[c].total
        BY <3>1, <3>2, <3>4, <3>7, <3>8, <4>1
      <4>3. /\ note'[c].applied = v + n /\ note'[c].available = w - n /\ note'[c].total = note[c].total
            /\ refunded'[c] = z
        BY <3>5, <3>6, <3>7, <4>1
      <4> QED
        BY ONLY <4>2, <4>3
    <3>10. note'[c].status # "POSTED" => note'[c].applied = 0
      BY <3>1, <3>2, <3>5, <3>7, <3>8
    <3> QED
      BY <3>8, <3>9, <3>10
  <2> QED
    BY <2>1 DEF NotesAgree
<1>10. /\ received' \in [Receipts -> [Documents -> Nat]] /\ r \in Receipts
       /\ \A y \in Receipts \ {r} : received'[y] = received[y]
  BY <1>4 DEF RowAdded
<1> QED
  BY <1>3, <1>5, <1>6, <1>7, <1>8, <1>9, <1>10

(* At the rates of what is settled, a receipt settles invoices and notes.   *)
LEMMA BookedRates ==
  ASSUME ReceivablesShape, NEW f \in [ReceiptTargets -> Nat]
  PROVE  /\ AtBookedRates(f) = Sum(InBase(InvoicesOf(f)), Invoices) + Sum(NotesInBase(NotesOf(f)), Notes)
         /\ Sum(InBase(InvoicesOf(f)), Invoices) \in Int /\ Sum(NotesInBase(NotesOf(f)), Notes) \in Int
<1> DEFINE rate(d) == IF d \in Invoices THEN Rate[d] ELSE note[d].rate
<1>1. PICK w, p, q, u : /\ w = [d \in Documents |-> Full(f)[d] * rate(d)]
                        /\ p = InBase(InvoicesOf(f)) /\ q = NotesInBase(NotesOf(f))
                        /\ u = [d \in ReceiptTargets |-> f[d] * rate(d)]
  OBVIOUS
<1>2. /\ \A d \in Documents : w[d] = Full(f)[d] * rate(d)
      /\ \A i \in Invoices : p[i] = Full(f)[i] * Rate[i]
      /\ \A c \in Notes : q[c] = Full(f)[c] * note[c].rate
      /\ \A d \in ReceiptTargets : u[d] = f[d] * rate(d)
  <2>1. \A d \in Documents : w[d] = Full(f)[d] * rate(d)
    BY <1>1
  <2>2. \A i \in Invoices : p[i] = Full(f)[i] * Rate[i]
    BY <1>1, FullFacts DEF InBase
  <2>3. \A c \in Notes : q[c] = Full(f)[c] * note[c].rate
    BY <1>1, FullFacts DEF NotesInBase
  <2>4. \A d \in ReceiptTargets : u[d] = f[d] * rate(d)
    BY <1>1
  <2> QED
    BY <2>1, <2>2, <2>3, <2>4
<1>3. \A d \in Documents : rate(d) \in Nat /\ Full(f)[d] \in Nat
  <2>1. ASSUME NEW d \in Documents PROVE rate(d) \in Nat
    <3>1. CASE d \in Invoices
      BY <3>1, FiguresFacts
    <3>2. CASE d \notin Invoices
      <4>1. d \in Notes
        BY <3>2, ReceivablesFacts
      <4>2. note[d] \in Credit
        BY <4>1 DEF ReceivablesShape
      <4> QED
        BY <3>2, <4>2, CreditFields
    <3> QED
      BY <3>1, <3>2
  <2> QED
    BY <2>1, FullFacts
<1>4. \A d \in Documents : w[d] \in Int
  BY <1>2, <1>3, Times
<1>5. PICK wi, wn : /\ wi = [d \in Documents |-> IF d \in Invoices THEN p[d] ELSE 0]
                    /\ wn = [d \in Documents |-> IF d \in Notes THEN q[d] ELSE 0]
  OBVIOUS
<1>6. /\ \A d \in Documents : wi[d] = (IF d \in Invoices THEN p[d] ELSE 0)
      /\ \A d \in Documents : wn[d] = (IF d \in Notes THEN q[d] ELSE 0)
  BY <1>5
<1>7. \A i \in Invoices : i \in Documents /\ i \notin Notes /\ p[i] = w[i]
  BY <1>2, ReceivablesFacts
<1>8. \A c \in Notes : c \in Documents /\ c \notin Invoices /\ q[c] = w[c]
  BY <1>2, ReceivablesFacts
<1>9. \A d \in Documents : wi[d] \in Int /\ wn[d] \in Int /\ w[d] = wi[d] + wn[d]
  <2> HIDE DEF rate
  <2>1. \A d \in Documents : d \in Invoices \/ d \in Notes
    BY ReceivablesFacts
  <2> QED
    BY <1>4, <1>6, <1>7, <1>8, <2>1
<1>10. Sum(w, Documents) = Sum(wi, Documents) + Sum(wn, Documents)
  BY <1>9, SumPlus, ReceivablesFacts
<1>11. Sum(p, Invoices) = Sum(wi, Documents) /\ Sum(q, Notes) = Sum(wn, Documents)
  <2>1. Invoices \in SUBSET Documents /\ Notes \in SUBSET Documents /\ IsFiniteSet(Documents)
    BY ReceivablesFacts
  <2>2. Sum(p, Invoices) = Sum(wi, Documents)
    BY <1>6, <1>9, <2>1, SumSome
  <2>3. Sum(q, Notes) = Sum(wn, Documents)
    BY <1>6, <1>9, <2>1, SumSome
  <2> QED
    BY <2>2, <2>3
<1>12. Sum(wi, Documents) \in Int /\ Sum(wn, Documents) \in Int
  BY <1>9, SumInt, ReceivablesFacts
<1>13. Sum(u, ReceiptTargets) = Sum(w, Documents)
  <2>1. ASSUME NEW d \in Documents PROVE w[d] = IF d \in ReceiptTargets THEN u[d] ELSE 0
    <3>1. Full(f)[d] = IF d \in ReceiptTargets THEN f[d] ELSE 0
      BY DEF Full
    <3>2. PICK n \in Nat : n = rate(d)
      BY <1>3
    <3>3. 0 * n = 0
      OBVIOUS
    <3>4. w[d] = Full(f)[d] * n
      BY <1>2, <3>2
    <3>5. d \in ReceiptTargets => u[d] = f[d] * n
      BY <1>2, <3>2
    <3> HIDE DEF rate
    <3> QED
      BY <3>1, <3>3, <3>4, <3>5
  <2>2. ReceiptTargets \in SUBSET Documents /\ IsFiniteSet(Documents)
    BY ReceivablesFacts
  <2> HIDE DEF rate
  <2> QED
    BY <1>4, <2>1, <2>2, SumSome
<1>14. AtBookedRates(f) = Sum(u, ReceiptTargets)
  BY <1>1 DEF AtBookedRates
<1> QED
  BY <1>1, <1>10, <1>11, <1>12, <1>13, <1>14

LEMMA WorthInt ==
  ASSUME NEW row \in Row, NEW rate \in Nat
  PROVE  Worth(row, rate) \in Int
<1>1. PICK x \in Int : x = row.due + row.gross - row.total
  BY RowFields
<1> QED
  BY <1>1, Times DEF Worth

LEMMA HeldInt ==
  ASSUME NEW row \in Funds, NEW rate \in Nat
  PROVE  Held(row, rate) \in Int
  BY FundsFields, Times DEF Held

(* One document changes, and the account with it.                           *)
LEMMA OneInvoice ==
  ASSUME ReceivablesShape, NEW i \in Invoices, NEW row \in Row, invoice' = [invoice EXCEPT ![i] = row]
  PROVE  /\ invoice' \in [Invoices -> Row] /\ invoice'[i] = row
         /\ \A j \in Invoices \ {i} : invoice'[j] = invoice[j]
         /\ Sum(Worths', Invoices) = Sum(Worths, Invoices) + (Worth(row, Rate[i]) - Worth(invoice[i], Rate[i]))
         /\ Sum(Worths, Invoices) \in Int /\ Worth(row, Rate[i]) \in Int /\ Worth(invoice[i], Rate[i]) \in Int
<1>1. /\ invoice' \in [Invoices -> Row] /\ invoice'[i] = row
      /\ \A j \in Invoices \ {i} : invoice'[j] = invoice[j]
  BY DEF ReceivablesShape
<1>2. PICK v, w : v = Worths /\ w = Worths'
  OBVIOUS
<1>3. \A j \in Invoices : v[j] = Worth(invoice[j], Rate[j]) /\ w[j] = Worth(invoice'[j], Rate[j])
  BY <1>2 DEF Worths
<1>4. \A j \in Invoices : v[j] \in Int /\ w[j] \in Int
  <2>1. \A j \in Invoices : invoice[j] \in Row /\ invoice'[j] \in Row /\ Rate[j] \in Nat
    BY <1>1, FiguresFacts DEF ReceivablesShape
  <2> QED
    BY <1>3, <2>1, WorthInt
<1>5. DifferAt(v, w, Invoices, i)
  BY <1>1, <1>3, <1>4, ReceivablesFacts DEF DifferAt
<1>6. Sum(w, Invoices) = Sum(v, Invoices) + (w[i] - v[i])
  BY ONLY <1>5, SumDiffers
<1>7. Sum(v, Invoices) \in Int
  BY <1>4, SumInt, ReceivablesFacts
<1> QED
  BY <1>1, <1>2, <1>3, <1>4, <1>6, <1>7

(* Of what notes stand for, only that of one changes.                       *)
OnlyNote(c) ==
  /\ c \in Notes /\ received' = received
  /\ note' \in [Notes -> Credit] /\ credited' \in [Notes -> [Invoices -> Nat]]
  /\ \A x \in Notes \ {c} : note'[x] = note[x] /\ credited'[x] = credited[x]

LEMMA NextLeft ==
  ASSUME note' \in [Notes -> Credit], credited' \in [Notes -> [Invoices -> Nat]],
         received' \in [Receipts -> [Documents -> Nat]], NEW c \in Notes
  PROVE  /\ LeftBehind(c)' = Sum(CreditedInBase(c)', Invoices) - Sum(credited'[c], Invoices) * note'[c].rate
                             - 2 * (Sum(ReceivedBy(c)', Receipts) * note'[c].rate)
         /\ Standing(c)' = Given(note'[c]) - LeftBehind(c)'
         /\ Standing(c)' \in Int /\ Given(note'[c]) \in Int /\ LeftBehind(c)' \in Int
<1>1. \A i \in Invoices : CreditedInBase(c)'[i] \in Int /\ credited'[c][i] \in Nat
  BY FiguresFacts DEF CreditedInBase
<1>2. \A r \in Receipts : ReceivedBy(c)'[r] \in Nat
  BY ReceivablesFacts DEF ReceivedBy
<1>3. /\ Sum(CreditedInBase(c)', Invoices) \in Int /\ Sum(credited'[c], Invoices) \in Nat
      /\ Sum(ReceivedBy(c)', Receipts) \in Nat
  BY <1>1, <1>2, SumInt, SumNat, ReceivablesFacts
<1>4. note'[c].rate \in Nat /\ note'[c].available \in Nat
  BY CreditFields
<1>5. LeftBehind(c)' = Sum(CreditedInBase(c)', Invoices) - Sum(credited'[c], Invoices) * note'[c].rate
                       - 2 * (Sum(ReceivedBy(c)', Receipts) * note'[c].rate)
  BY Zenon DEF LeftBehind, CreditedInBase, ReceivedBy
<1>6. /\ Sum(credited'[c], Invoices) * note'[c].rate \in Int
      /\ Sum(ReceivedBy(c)', Receipts) * note'[c].rate \in Int /\ note'[c].available * note'[c].rate \in Int
  BY <1>3, <1>4, Times
<1>7. LeftBehind(c)' \in Int /\ Given(note'[c]) \in Int
  BY <1>3, <1>5, <1>6 DEF Given
<1>8. Standing(c)' = Given(note'[c]) - LeftBehind(c)'
  BY DEF Standing
<1> QED
  BY <1>5, <1>7, <1>8

LEMMA OneNote ==
  ASSUME ReceivablesShape, NEW c, OnlyNote(c)
  PROVE  /\ Sum(Standings', Notes) = Sum(Standings, Notes) + (Standing(c)' - Standing(c))
         /\ Sum(Standings, Notes) \in Int /\ Standing(c) \in Int /\ Standing(c)' \in Int
<1> USE DEF OnlyNote
<1>1. PICK v, w : v = Standings /\ w = Standings'
  OBVIOUS
<1>2. \A x \in Notes : v[x] = Standing(x) /\ w[x] = Standing(x)'
  BY <1>1 DEF Standings
<1>3. \A x \in Notes : v[x] \in Int /\ w[x] \in Int
  <2>1. received' \in [Receipts -> [Documents -> Nat]]
    BY DEF ReceivablesShape
  <2> QED
    BY <1>2, <2>1, LeftIs, NextLeft
<1>4. \A x \in Notes \ {c} : w[x] = v[x]
  <2>1. ASSUME NEW x \in Notes \ {c} PROVE Standing(x)' = Standing(x)
    <3>1. note'[x] = note[x] /\ credited'[x] = credited[x] /\ received' = received
      OBVIOUS
    <3>2. LeftBehind(x)' = LeftBehind(x)
      BY <3>1 DEF LeftBehind
    <3> QED
      BY <3>1, <3>2 DEF Standing
  <2> QED
    BY <1>2, <2>1
<1>5. DifferAt(v, w, Notes, c)
  BY <1>3, <1>4, ReceivablesFacts DEF DifferAt
<1>6. Sum(w, Notes) = Sum(v, Notes) + (w[c] - v[c])
  BY ONLY <1>5, SumDiffers
<1>7. Sum(v, Notes) \in Int
  BY <1>3, SumInt, ReceivablesFacts
<1> QED
  BY <1>1, <1>2, <1>3, <1>6, <1>7

LEMMA OneReceipt ==
  ASSUME ReceivablesShape, NEW r \in Receipts, NEW row \in Funds, receipt' = [receipt EXCEPT ![r] = row]
  PROVE  /\ receipt' \in [Receipts -> Funds] /\ receipt'[r] = row
         /\ \A x \in Receipts \ {r} : receipt'[x] = receipt[x]
         /\ Sum(Helds', Receipts) = Sum(Helds, Receipts) + (Held(row, Rate[r]) - Held(receipt[r], Rate[r]))
         /\ Sum(Helds, Receipts) \in Int /\ Held(row, Rate[r]) \in Int /\ Held(receipt[r], Rate[r]) \in Int
<1>1. /\ receipt' \in [Receipts -> Funds] /\ receipt'[r] = row
      /\ \A x \in Receipts \ {r} : receipt'[x] = receipt[x]
  BY DEF ReceivablesShape
<1>2. PICK v, w : v = Helds /\ w = Helds'
  OBVIOUS
<1>3. \A x \in Receipts : v[x] = Held(receipt[x], Rate[x]) /\ w[x] = Held(receipt'[x], Rate[x])
  BY <1>2 DEF Helds
<1>4. \A x \in Receipts : v[x] \in Int /\ w[x] \in Int
  <2>1. \A x \in Receipts : receipt[x] \in Funds /\ receipt'[x] \in Funds /\ Rate[x] \in Nat
    BY <1>1, FiguresFacts DEF ReceivablesShape
  <2> QED
    BY <1>3, <2>1, HeldInt
<1>5. DifferAt(v, w, Receipts, r)
  BY <1>1, <1>3, <1>4, ReceivablesFacts DEF DifferAt
<1>6. Sum(w, Receipts) = Sum(v, Receipts) + (w[r] - v[r])
  BY ONLY <1>5, SumDiffers
<1>7. Sum(v, Receipts) \in Int
  BY <1>4, SumInt, ReceivablesFacts
<1> QED
  BY <1>1, <1>2, <1>3, <1>4, <1>6, <1>7

(* A receipt lowers the control account by what it settles, at the rates of *)
(* what is settled.                                                         *)
LEMMA ReceivesAccounts ==
  ASSUME ReceivablesInv, NEW r, NEW f, Receives(r, f)
  PROVE  /\ Sum(Worths', Invoices) - Sum(Standings', Notes)
              = Sum(Worths, Invoices) - Sum(Standings, Notes) - AtBookedRates(f)
         /\ Sum(Worths, Invoices) \in Int /\ Sum(Standings, Notes) \in Int /\ AtBookedRates(f) \in Int
<1>1. PICK g, h : g = InvoicesOf(f) /\ h = NotesOf(f)
  OBVIOUS
<1>2. /\ f \in [ReceiptTargets -> Nat] /\ credited' = credited /\ ReceivablesShape
      /\ \A c \in Notes : c \in Documents
  BY ReceivablesFacts DEF Receives, ReceivablesInv
<1>3. InvoicesSettled(g, "paid") /\ NotesDrawn(h) /\ RowAdded(received, received', Receipts, Documents, r, Full(f))
  BY <1>1, ReceivesIs
<1>4. /\ Sum(Worths', Invoices) = Sum(Worths, Invoices) - Sum(InBase(g), Invoices)
      /\ Sum(Worths, Invoices) \in Int /\ Sum(InBase(g), Invoices) \in Int
  BY <1>3, SettledInvoices
<1>5. /\ AtBookedRates(f) = Sum(InBase(g), Invoices) + Sum(NotesInBase(h), Notes)
      /\ Sum(NotesInBase(h), Notes) \in Int
  BY <1>1, <1>2, BookedRates
<1>6. /\ note' \in [Notes -> Credit]
      /\ \A c \in Notes : /\ note'[c].rate = note[c].rate /\ h[c] * note[c].rate \in Int
                          /\ Given(note'[c]) = Given(note[c]) - h[c] * note[c].rate
  BY <1>2, <1>3, DrawnNotes
<1>7. \A c \in Notes : h[c] = Full(f)[c] /\ h[c] \in Nat
  BY <1>1, <1>2, FullFacts
<1>8. \A c \in Notes : Sum(ReceivedBy(c)', Receipts) = Sum(ReceivedBy(c), Receipts) + h[c]
  <2>1. \A d \in Documents :
           Sum(Column(received', Receipts, d), Receipts) = Sum(Column(received, Receipts, d), Receipts) + Full(f)[d]
    <3>1. PICK M, N, x : M = received /\ N = received' /\ x = Full(f)
      OBVIOUS
    <3>2. RowAdded(M, N, Receipts, Documents, r, x)
      BY <1>3, <3>1
    <3>3. \A d \in Documents : Sum(Column(N, Receipts, d), Receipts) = Sum(Column(M, Receipts, d), Receipts) + x[d]
      BY ONLY <3>2, AddedRow
    <3> QED
      BY <3>1, <3>3
  <2> QED
    BY <1>2, <1>7, <2>1 DEF ReceivedBy, Column
<1>9. received' \in [Receipts -> [Documents -> Nat]]
  BY <1>3 DEF RowAdded
<1>10. ASSUME NEW c \in Notes
       PROVE  /\ Standing(c)' = Standing(c) + NotesInBase(h)[c]
              /\ Standing(c) \in Int /\ Standing(c)' \in Int /\ NotesInBase(h)[c] \in Int
  <2>1. PICK s, q, a, n, t : /\ s = Sum(CreditedInBase(c), Invoices) /\ q = Sum(ReceivedBy(c), Receipts)
                             /\ a = Sum(credited[c], Invoices) /\ n = h[c] /\ t = note[c].rate
    OBVIOUS
  <2>2. /\ s \in Int /\ q \in Nat /\ a \in Nat /\ t \in Nat /\ n \in Nat
        /\ LeftBehind(c) = s - a * t - 2 * (q * t) /\ LeftBehind(c) \in Int
        /\ Standing(c) = Given(note[c]) - LeftBehind(c) /\ Given(note[c]) \in Int /\ Standing(c) \in Int
    BY <1>2, <1>7, <2>1, LeftIs DEF Standing
  <2>3. credited' \in [Notes -> [Invoices -> Nat]]
    BY <1>2 DEF ReceivablesShape
  <2>4. /\ LeftBehind(c)' = Sum(CreditedInBase(c)', Invoices) - Sum(credited'[c], Invoices) * note'[c].rate
                             - 2 * (Sum(ReceivedBy(c)', Receipts) * note'[c].rate)
        /\ Standing(c)' = Given(note'[c]) - LeftBehind(c)' /\ Standing(c)' \in Int
    BY <1>6, <1>9, <2>3, NextLeft
  <2>5. CreditedInBase(c)' = CreditedInBase(c)
    BY <1>2 DEF CreditedInBase
  <2>6. LeftBehind(c)' = s - a * t - 2 * ((q + n) * t)
    BY <1>2, <1>6, <1>8, <2>1, <2>4, <2>5
  <2>7. /\ q * t \in Int /\ n * t \in Int /\ (q + n) * t = q * t + n * t /\ a * t \in Int
    BY <2>2, Times
  <2>8. Given(note'[c]) = Given(note[c]) - n * t /\ NotesInBase(h)[c] = n * t
    BY <1>6, <2>1 DEF NotesInBase
  <2>9. PICK x \in Int, y \in Int, z \in Int, k \in Int, l \in Int :
           x = q * t /\ y = n * t /\ z = a * t /\ k = LeftBehind(c)' /\ l = Given(note[c])
    BY <2>2, <2>6, <2>7
  <2> QED
    BY <2>2, <2>4, <2>6, <2>7, <2>8, <2>9
<1>11. PICK v, w, u : v = Standings /\ w = Standings' /\ u = NotesInBase(h)
  OBVIOUS
<1>12. \A c \in Notes : v[c] \in Int /\ u[c] \in Int /\ w[c] = v[c] + u[c]
  BY <1>10, <1>11 DEF Standings
<1>13. Sum(w, Notes) = Sum(v, Notes) + Sum(u, Notes) /\ Sum(v, Notes) \in Int
  BY <1>12, SumPlus, SumInt, ReceivablesFacts
<1> QED
  BY <1>4, <1>5, <1>11, <1>13

BooksInv == ReceivablesInv /\ AccountsAgree

(* The step keeps what it does not mention.                                 *)
LEMMA RowsStand ==
  ASSUME ReceivablesInv, received' = received, credited' = credited,
         NEW i \in Invoices, RowAgrees(invoice'[i]),
         invoice'[i].paid = invoice[i].paid, invoice'[i].credited = invoice[i].credited
  PROVE  /\ RowAgrees(invoice'[i])
         /\ invoice'[i].paid = Sum(ReceivedBy(i)', Receipts)
         /\ invoice'[i].credited = Sum(CreditedBy(i)', Notes)
<1>1. ReceivedBy(i)' = ReceivedBy(i) /\ CreditedBy(i)' = CreditedBy(i)
  BY DEF ReceivedBy, CreditedBy
<1> QED
  BY <1>1 DEF ReceivablesInv, InvoicesAgree

LEMMA ReceiptsStand ==
  ASSUME ReceiptsAgree, receipt' = receipt, received' = received,
         \A r \in Receipts : refunded'[r] = refunded[r]
  PROVE  ReceiptsAgree' /\ Helds' = Helds
<1>1. ASSUME NEW r \in Receipts
      PROVE  /\ receipt'[r].allocated = Sum(received'[r], Documents) + refunded'[r]
             /\ receipt'[r].allocated + receipt'[r].unapplied = Amount[r]
             /\ receipt'[r].status = "none" => receipt'[r].allocated = 0
  BY DEF ReceiptsAgree
<1> QED
  BY <1>1 DEF ReceiptsAgree, Helds

LEMMA NotesStand ==
  ASSUME NotesAgree, note' = note, received' = received, credited' = credited,
         \A c \in Notes : refunded'[c] = refunded[c]
  PROVE  NotesAgree' /\ Standings' = Standings
<1>1. ASSUME NEW c \in Notes
      PROVE  /\ note'[c].applied = Sum(credited'[c], Invoices) + refunded'[c] + Sum(ReceivedBy(c)', Receipts)
             /\ note'[c].applied + note'[c].available = note'[c].total
             /\ note'[c].status # "POSTED" => note'[c].applied = 0
  <2>1. ReceivedBy(c)' = ReceivedBy(c)
    BY DEF ReceivedBy
  <2> QED
    BY <2>1 DEF NotesAgree
<1>2. \A c \in Notes : LeftBehind(c)' = LeftBehind(c)
  BY DEF LeftBehind
<1>3. \A c \in Notes : Standing(c)' = Standing(c)
  BY <1>2 DEF Standing
<1> QED
  BY <1>1, <1>3 DEF NotesAgree, Standings

LEMMA BooksInit == Init => BooksInv
<1> SUFFICES ASSUME Init PROVE BooksInv
  OBVIOUS
<1> USE DEF Init
<1>1. NoInvoice \in Row /\ NoNote \in Credit
  BY DEF NoInvoice, NoNote, Row, Credit
<1>2. \A r \in Receipts : receipt[r] \in Funds /\ receipt[r].status = "none" /\ receipt[r].allocated = 0
                           /\ receipt[r].unapplied = Amount[r]
  BY FiguresFacts DEF Funds
<1>3. ReceivablesShape
  <2>1. invoice \in [Invoices -> Row] /\ note \in [Notes -> Credit]
    BY <1>1
  <2>2. receipt \in [Receipts -> Funds]
    BY <1>2
  <2>3. /\ received \in [Receipts -> [Documents -> Nat]]
        /\ credited \in [Notes -> [Invoices -> Nat]]
        /\ refunded \in [Receipts \cup Notes -> Nat]
    OBVIOUS
  <2> QED
    BY <2>1, <2>2, <2>3 DEF ReceivablesShape
<1>4. /\ \A d \in Documents : Sum(ReceivedBy(d), Receipts) = 0
      /\ \A r \in Receipts : Sum(received[r], Documents) = 0
      /\ \A c \in Notes : Sum(credited[c], Invoices) = 0 /\ Sum(CreditedInBase(c), Invoices) = 0
      /\ \A i \in Invoices : Sum(CreditedBy(i), Notes) = 0
  <2>1. ASSUME NEW d \in Documents PROVE Sum(ReceivedBy(d), Receipts) = 0
    <3>1. \A r \in Receipts : ReceivedBy(d)[r] = 0
      BY DEF ReceivedBy
    <3> QED
      BY <3>1, SumNat, ReceivablesFacts
  <2>2. ASSUME NEW r \in Receipts PROVE Sum(received[r], Documents) = 0
    <3>1. \A d \in Documents : received[r][d] = 0
      OBVIOUS
    <3> QED
      BY <3>1, SumNat, ReceivablesFacts
  <2>3. ASSUME NEW c \in Notes PROVE Sum(credited[c], Invoices) = 0 /\ Sum(CreditedInBase(c), Invoices) = 0
    <3>1. \A i \in Invoices : credited[c][i] = 0
      OBVIOUS
    <3>2. \A i \in Invoices : CreditedInBase(c)[i] = 0
      BY <3>1, FiguresFacts DEF CreditedInBase
    <3>3. Sum(credited[c], Invoices) = 0
      BY <3>1, SumNat, ReceivablesFacts
    <3>4. Sum(CreditedInBase(c), Invoices) = 0
      BY <3>2, SumNat, ReceivablesFacts
    <3> QED
      BY <3>3, <3>4
  <2>4. ASSUME NEW i \in Invoices PROVE Sum(CreditedBy(i), Notes) = 0
    <3>1. \A c \in Notes : CreditedBy(i)[c] = 0
      BY DEF CreditedBy
    <3> QED
      BY <3>1, SumNat, ReceivablesFacts
  <2> QED
    BY <2>1, <2>2, <2>3, <2>4
<1>5. InvoicesAgree
  <2>1. \A i \in Invoices : RowAgrees(invoice[i]) /\ invoice[i].paid = 0 /\ invoice[i].credited = 0
    BY DEF NoInvoice, RowAgrees, Posted, Open
  <2> QED
    BY <1>4, <2>1, ReceivablesFacts DEF InvoicesAgree
<1>6. ReceiptsAgree
  BY <1>2, <1>4, FiguresFacts DEF ReceiptsAgree
<1>7. NotesAgree
  <2>1. \A c \in Notes : note[c].status = "none" /\ note[c].applied = 0 /\ note[c].available = 0 /\ note[c].total = 0
    BY DEF NoNote
  <2> QED
    BY <1>4, <2>1, ReceivablesFacts DEF NotesAgree
<1>8. AccountsAgree
  <2>1. \A i \in Invoices : Worths[i] = 0
    BY DEF Worths, Worth, NoInvoice, Posted, Open
  <2>2. \A r \in Receipts : Helds[r] = 0
    BY <1>2 DEF Helds, Held
  <2>3. ASSUME NEW c \in Notes PROVE Standings[c] = 0
    <3>1. /\ note[c].status = "none" /\ note[c].rate = 1
          /\ Sum(credited[c], Invoices) = 0 /\ Sum(CreditedInBase(c), Invoices) = 0
          /\ Sum(ReceivedBy(c), Receipts) = 0
      BY <1>4, ReceivablesFacts DEF NoNote
    <3>2. LeftBehind(c) = 0
      BY <1>3, <3>1, LeftIs
    <3>3. Given(note[c]) = 0
      BY <3>1 DEF Given
    <3> QED
      BY <3>2, <3>3 DEF Standings, Standing
  <2>4. Sum(Worths, Invoices) = 0
    BY <2>1, SumNat, ReceivablesFacts
  <2>5. Sum(Helds, Receipts) = 0
    BY <2>2, SumNat, ReceivablesFacts
  <2>6. Sum(Standings, Notes) = 0
    BY <2>3, SumNat, ReceivablesFacts
  <2> QED
    BY <2>4, <2>5, <2>6 DEF AccountsAgree
<1> QED
  BY <1>3, <1>5, <1>6, <1>7, <1>8 DEF BooksInv, ReceivablesInv

(* A step that changes one invoice and nothing that settles it.             *)
LEMMA InvoiceStep ==
  ASSUME BooksInv, NEW i \in Invoices, NEW row \in Row, invoice' = [invoice EXCEPT ![i] = row],
         RowAgrees(row), row.paid = invoice[i].paid, row.credited = invoice[i].credited,
         UNCHANGED <<receipt, note, received, credited, refunded, advance>>,
         control' = control + (Worth(row, Rate[i]) - Worth(invoice[i], Rate[i]))
  PROVE  BooksInv'
<1>1. /\ ReceivablesShape /\ InvoicesAgree /\ ReceiptsAgree /\ NotesAgree /\ AccountsAgree /\ ReceivablesInv
  BY DEF BooksInv, ReceivablesInv
<1>2. /\ invoice' \in [Invoices -> Row] /\ invoice'[i] = row
      /\ \A j \in Invoices \ {i} : invoice'[j] = invoice[j]
      /\ Sum(Worths', Invoices) = Sum(Worths, Invoices) + (Worth(row, Rate[i]) - Worth(invoice[i], Rate[i]))
      /\ Sum(Worths, Invoices) \in Int /\ Worth(row, Rate[i]) \in Int /\ Worth(invoice[i], Rate[i]) \in Int
  BY <1>1, OneInvoice
<1>3. ReceivablesShape'
  BY <1>1, <1>2 DEF ReceivablesShape
<1>4. InvoicesAgree'
  <2>1. ASSUME NEW j \in Invoices
        PROVE  /\ RowAgrees(invoice'[j]) /\ invoice'[j].paid = invoice[j].paid
               /\ invoice'[j].credited = invoice[j].credited
    BY <1>1, <1>2 DEF InvoicesAgree
  <2>2. \A j \in Invoices : /\ RowAgrees(invoice'[j])
                            /\ invoice'[j].paid = Sum(ReceivedBy(j)', Receipts)
                            /\ invoice'[j].credited = Sum(CreditedBy(j)', Notes)
    BY <1>1, <2>1, RowsStand
  <2> QED
    BY <2>2 DEF InvoicesAgree
<1>5. ReceiptsAgree' /\ Helds' = Helds
  BY <1>1, ReceiptsStand
<1>6. NotesAgree' /\ Standings' = Standings
  BY <1>1, NotesStand
<1>7. Sum(Standings, Notes) \in Int
  <2>1. \A c \in Notes : Standings[c] \in Int
    BY <1>1, LeftIs DEF Standings
  <2> QED
    BY <2>1, SumInt, ReceivablesFacts
<1>8. AccountsAgree'
  BY <1>1, <1>2, <1>5, <1>6, <1>7 DEF AccountsAgree
<1> QED
  BY <1>3, <1>4, <1>5, <1>6, <1>8 DEF BooksInv, ReceivablesInv

LEMMA DraftFields ==
  ASSUME NEW figures \in Figures
  PROVE  /\ Draft(figures) \in Row /\ RowAgrees(Draft(figures)) /\ Draft(figures).status = "DRAFT"
         /\ Draft(figures).paid = 0 /\ Draft(figures).credited = 0
<1>1. PICK g \in Nat, t \in Nat : g = figures.gross /\ t = figures.gross - figures.discount
  BY FiguresFacts
<1>0. PICK no \in Row : no = NoInvoice /\ no.paid = 0 /\ no.credited = 0 /\ no.writtenOff = 0
  <2>1. NoInvoice \in Row /\ NoInvoice.paid = 0 /\ NoInvoice.credited = 0 /\ NoInvoice.writtenOff = 0
    BY DEF NoInvoice, Row
  <2> QED
    BY <2>1
<1>2. Draft(figures) = [no EXCEPT !.status = "DRAFT", !.gross = g, !.total = t, !.due = t]
  BY <1>0, <1>1 DEF Draft
<1>3. /\ Draft(figures).status = "DRAFT" /\ Draft(figures).total = t /\ Draft(figures).due = t
      /\ Draft(figures).paid = 0 /\ Draft(figures).credited = 0 /\ Draft(figures).writtenOff = 0
      /\ Draft(figures) \in Row
  BY <1>0, <1>2 DEF Row
<1> QED
  BY <1>3 DEF RowAgrees, Posted, Open

LEMMA DraftKeeps ==
  ASSUME BooksInv, NEW i \in Invoices, NEW figures \in Figures,
         CreateInvoice(i, figures) \/ UpdateInvoice(i, figures)
  PROVE  BooksInv'
<1>1. PICK row : row = Draft(figures)
  OBVIOUS
<1>2. /\ row \in Row /\ RowAgrees(row) /\ row.status = "DRAFT" /\ row.paid = 0 /\ row.credited = 0
  BY <1>1, DraftFields
<1>3. /\ invoice[i].status \in {"none", "DRAFT"} /\ invoice' = [invoice EXCEPT ![i] = row]
      /\ UNCHANGED <<receipt, note, received, credited, refunded, control, advance>>
  BY <1>1 DEF CreateInvoice, UpdateInvoice
<1>4. Worth(row, Rate[i]) = 0 /\ Worth(invoice[i], Rate[i]) = 0
  BY <1>2, <1>3 DEF Worth, Posted, Open
<1>5. invoice[i].paid = 0 /\ invoice[i].credited = 0
  BY <1>3 DEF BooksInv, ReceivablesInv, InvoicesAgree, RowAgrees, Posted, Open
<1>6. control' = control + (Worth(row, Rate[i]) - Worth(invoice[i], Rate[i]))
  <2>1. control \in Int
    <3>1. Sum(Worths, Invoices) \in Int
      BY OneInvoice, <1>2, <1>3 DEF BooksInv, ReceivablesInv
    <3>2. \A c \in Notes : Standings[c] \in Int
      BY LeftIs DEF Standings, BooksInv, ReceivablesInv
    <3>3. Sum(Standings, Notes) \in Int
      BY <3>2, SumInt, ReceivablesFacts
    <3> QED
      BY <3>1, <3>3 DEF BooksInv, AccountsAgree
  <2> QED
    BY <1>3, <1>4, <2>1
<1> QED
  BY <1>2, <1>3, <1>5, <1>6, InvoiceStep

LEMMA PostKeeps ==
  ASSUME BooksInv, NEW i \in Invoices, PostInvoice(i)
  PROVE  BooksInv'
<1>1. PICK was \in Row, rate \in Nat : was = invoice[i] /\ rate = Rate[i]
  BY FiguresFacts DEF BooksInv, ReceivablesInv, ReceivablesShape
<1>2. PICK row : row = [was EXCEPT !.status = "POSTED"]
  OBVIOUS
<1>3. /\ row \in Row /\ row.status = "POSTED" /\ row.gross = was.gross /\ row.total = was.total
      /\ row.paid = was.paid /\ row.credited = was.credited /\ row.writtenOff = was.writtenOff /\ row.due = was.due
  BY <1>2 DEF Row, Posted, Open
<1>4. /\ was.status = "DRAFT" /\ invoice' = [invoice EXCEPT ![i] = row]
      /\ control' = control + was.gross * rate
      /\ UNCHANGED <<receipt, note, received, credited, refunded, advance>>
  BY <1>1, <1>2 DEF PostInvoice, BooksInv, ReceivablesInv, ReceivablesShape
<1>5. RowAgrees(was)
  BY <1>1 DEF BooksInv, ReceivablesInv, InvoicesAgree
<1>6. /\ was.paid = 0 /\ was.credited = 0 /\ was.writtenOff = 0 /\ was.due = was.total
      /\ was.total \in Nat /\ was.gross \in Nat
  BY <1>4, <1>5, RowFields DEF RowAgrees, Posted, Open
<1>7. RowAgrees(row)
  BY <1>3, <1>6 DEF RowAgrees, Posted, Open
<1>8. Worth(was, rate) = 0
  BY <1>4 DEF Worth, Posted, Open
<1>9. Worth(row, rate) = was.gross * rate
  <2>1. row.due + row.gross - row.total = was.gross
    BY <1>3, <1>6
  <2> QED
    BY <1>3, <2>1 DEF Worth, Posted, Open
<1>10. control' = control + (Worth(row, Rate[i]) - Worth(invoice[i], Rate[i]))
  <2>1. was.gross * rate \in Int
    BY <1>1, <1>6
  <2> QED
    BY <1>1, <1>4, <1>8, <1>9, <2>1
<1> QED
  BY <1>1, <1>3, <1>4, <1>7, <1>10, InvoiceStep

LEMMA WriteOffKeeps ==
  ASSUME BooksInv, NEW i \in Invoices, NEW n \in 1..invoice[i].gross, CreateArWriteOff(i, n)
  PROVE  BooksInv'
<1>1. PICK was \in Row, rate \in Nat : was = invoice[i] /\ rate = Rate[i] /\ RowAgrees(was)
  BY FiguresFacts DEF BooksInv, ReceivablesInv, ReceivablesShape, InvoicesAgree
<1>2. n \in Nat /\ n > 0 /\ "writtenOff" \in Columns
  BY <1>1, RowFields DEF Columns
<1>3. PICK row : row = SettledBy(was, n, "writtenOff")
  OBVIOUS
<1>4. /\ was.status \in Open /\ n <= was.due /\ invoice' = [invoice EXCEPT ![i] = row]
      /\ control' = control - n * rate
      /\ UNCHANGED <<receipt, note, received, credited, refunded, advance>>
  BY <1>1, <1>2, <1>3 DEF CreateArWriteOff, SettledBy, BooksInv, ReceivablesInv, ReceivablesShape
<1>5. /\ row \in Row /\ RowAgrees(row) /\ row.paid = was.paid + 0 /\ row.credited = was.credited + 0
      /\ Worth(row, rate) = Worth(was, rate) - n * rate
      /\ Worth(row, rate) \in Int /\ Worth(was, rate) \in Int /\ n * rate \in Int
  <2>1. was \in Row /\ rate \in Nat /\ RowAgrees(was) /\ (n > 0 => was.status \in Open /\ n <= was.due)
    BY <1>1, <1>4
  <2>2. LET new == SettledBy(was, n, "writtenOff")
        IN /\ new \in Row /\ RowAgrees(new)
           /\ new.paid = was.paid + (IF "writtenOff" = "paid" THEN n ELSE 0)
           /\ new.credited = was.credited + (IF "writtenOff" = "credited" THEN n ELSE 0)
           /\ Worth(new, rate) = Worth(was, rate) - n * rate
           /\ Worth(new, rate) \in Int /\ Worth(was, rate) \in Int /\ n * rate \in Int
    BY ONLY <1>2, <2>1, SettledRow, Zenon
  <2> QED
    BY ONLY <1>3, <2>2
<1>6. row.paid = was.paid /\ row.credited = was.credited
  BY <1>5, RowFields
<1>7. control' = control + (Worth(row, Rate[i]) - Worth(invoice[i], Rate[i]))
  <2>1. Worth(row, rate) - Worth(was, rate) = 0 - n * rate
    <3>1. PICK x \in Int, y \in Int, z \in Int : x = Worth(row, rate) /\ y = Worth(was, rate) /\ z = n * rate
      BY <1>5
    <3> QED
      BY <1>5, <3>1
  <2>2. control' = control + (0 - n * rate)
    <3>1. PICK z \in Int : z = n * rate
      BY <1>5
    <3>2. control \in Int
      <4>1. Sum(Worths, Invoices) \in Int
        BY <1>4, <1>5, OneInvoice DEF BooksInv, ReceivablesInv
      <4>2. \A c \in Notes : Standings[c] \in Int
        BY LeftIs DEF Standings, BooksInv, ReceivablesInv
      <4>3. Sum(Standings, Notes) \in Int
        BY <4>2, SumInt, ReceivablesFacts
      <4> QED
        BY <4>1, <4>3 DEF BooksInv, AccountsAgree
    <3> QED
      BY <1>4, <3>1, <3>2
  <2> QED
    BY <1>1, <2>1, <2>2
<1> QED
  BY <1>1, <1>4, <1>5, <1>6, <1>7, InvoiceStep

LEMMA BooksInts ==
  ASSUME BooksInv
  PROVE  /\ Sum(Worths, Invoices) \in Int /\ Sum(Standings, Notes) \in Int /\ Sum(Helds, Receipts) \in Int
         /\ control \in Int /\ advance \in Int
<1>1. ReceivablesShape /\ AccountsAgree
  BY DEF BooksInv, ReceivablesInv
<1>2. \A i \in Invoices : Worths[i] \in Int
  <2>1. \A i \in Invoices : invoice[i] \in Row /\ Rate[i] \in Nat
    BY <1>1, FiguresFacts DEF ReceivablesShape
  <2> QED
    BY <2>1, WorthInt DEF Worths
<1>3. \A c \in Notes : Standings[c] \in Int
  BY <1>1, LeftIs DEF Standings
<1>4. \A r \in Receipts : Helds[r] \in Int
  <2>1. \A r \in Receipts : receipt[r] \in Funds /\ Rate[r] \in Nat
    BY <1>1, FiguresFacts DEF ReceivablesShape
  <2> QED
    BY <2>1, HeldInt DEF Helds
<1>5. Sum(Worths, Invoices) \in Int /\ Sum(Standings, Notes) \in Int /\ Sum(Helds, Receipts) \in Int
  BY <1>2, <1>3, <1>4, SumInt, ReceivablesFacts
<1> QED
  BY <1>1, <1>5 DEF AccountsAgree

(* A receipt settles what a request names.                                  *)
ReceiptMoves(r, f, row) ==
  /\ Receives(r, f) /\ row \in Funds /\ row.status = "POSTED"
  /\ receipt' = [receipt EXCEPT ![r] = row]
  /\ row.allocated = receipt[r].allocated + Sum(f, ReceiptTargets)
  /\ row.allocated + row.unapplied = Amount[r]
  /\ control' = control - AtBookedRates(f)
  /\ advance' = advance + (Held(row, Rate[r]) - Held(receipt[r], Rate[r]))

LEMMA ReceiptMovesKeeps ==
  ASSUME BooksInv, NEW r, NEW f, NEW row, ReceiptMoves(r, f, row)
  PROVE  BooksInv'
<1>1. /\ ReceivablesShape /\ InvoicesAgree /\ ReceiptsAgree /\ NotesAgree /\ AccountsAgree /\ ReceivablesInv
  BY DEF BooksInv, ReceivablesInv
<1>2. /\ Receives(r, f) /\ row \in Funds /\ r \in Receipts /\ receipt' = [receipt EXCEPT ![r] = row]
      /\ credited' = credited /\ refunded' = refunded
  BY DEF ReceiptMoves, Receives
<1>3. /\ invoice' \in [Invoices -> Row] /\ note' \in [Notes -> Credit]
      /\ received' \in [Receipts -> [Documents -> Nat]]
      /\ InvoicesAgree' /\ NotesAgree'
      /\ Sum(received'[r], Documents) = Sum(received[r], Documents) + Sum(f, ReceiptTargets)
      /\ Sum(received[r], Documents) \in Nat /\ Sum(f, ReceiptTargets) \in Nat
      /\ \A x \in Receipts \ {r} : received'[x] = received[x]
  BY <1>1, <1>2, ReceivesKeeps
<1>4. /\ receipt' \in [Receipts -> Funds] /\ receipt'[r] = row
      /\ \A x \in Receipts \ {r} : receipt'[x] = receipt[x]
      /\ Sum(Helds', Receipts) = Sum(Helds, Receipts) + (Held(row, Rate[r]) - Held(receipt[r], Rate[r]))
  BY <1>1, <1>2, OneReceipt
<1>5. ReceivablesShape'
  BY <1>1, <1>2, <1>3, <1>4 DEF ReceivablesShape
<1>6. ReceiptsAgree'
  <2>1. ASSUME NEW x \in Receipts
        PROVE  /\ receipt'[x].allocated = Sum(received'[x], Documents) + refunded'[x]
               /\ receipt'[x].allocated + receipt'[x].unapplied = Amount[x]
               /\ receipt'[x].status = "none" => receipt'[x].allocated = 0
    <3>1. /\ receipt[x].allocated = Sum(received[x], Documents) + refunded[x]
          /\ receipt[x].allocated + receipt[x].unapplied = Amount[x]
          /\ receipt[x].status = "none" => receipt[x].allocated = 0
      BY <1>1 DEF ReceiptsAgree
    <3>2. CASE x = r
      <4>1. refunded[r] \in Nat
        BY <1>1, <1>2 DEF ReceivablesShape
      <4>2. /\ row.allocated = receipt[r].allocated + Sum(f, ReceiptTargets)
            /\ row.allocated + row.unapplied = Amount[r] /\ row.status = "POSTED"
        BY DEF ReceiptMoves
      <4> QED
        BY <1>2, <1>3, <1>4, <3>1, <3>2, <4>1, <4>2
    <3>3. CASE x # r
      BY <1>2, <1>3, <1>4, <3>1, <3>3
    <3> QED
      BY <3>2, <3>3
  <2> QED
    BY <2>1 DEF ReceiptsAgree
<1>7. AccountsAgree'
  <2>1. /\ Sum(Worths', Invoices) - Sum(Standings', Notes)
              = Sum(Worths, Invoices) - Sum(Standings, Notes) - AtBookedRates(f)
        /\ AtBookedRates(f) \in Int
    BY <1>1, <1>2, ReceivesAccounts
  <2>2. /\ control' = control - AtBookedRates(f)
        /\ advance' = advance + (Held(row, Rate[r]) - Held(receipt[r], Rate[r]))
    BY DEF ReceiptMoves
  <2> QED
    BY <1>1, <1>4, <2>1, <2>2, BooksInts DEF AccountsAgree
<1> QED
  BY <1>3, <1>5, <1>6, <1>7 DEF BooksInv, ReceivablesInv

LEMMA RequestIs ==
  ASSUME NEW S, NEW n \in Nat, NEW f \in Apportioned(S, n)
  PROVE  f \in [S -> Nat] /\ Sum(f, S) \in 1..n
  BY DEF Apportioned

LEMMA CreateReceiptKeeps ==
  ASSUME BooksInv, NEW r \in Receipts, NEW f \in [ReceiptTargets -> Nat], CreateReceipt(r, f)
  PROVE  BooksInv'
<1>1. PICK n \in Nat, a \in Nat, t \in Nat : n = Sum(f, ReceiptTargets) /\ a = Amount[r] /\ t = Rate[r]
  BY SumNat, ReceivablesFacts, FiguresFacts
<1>2. PICK row : row = [status |-> "POSTED", allocated |-> n, unapplied |-> a - n]
  OBVIOUS
<1>3. /\ receipt[r].status = "none" /\ n <= a /\ receipt' = [receipt EXCEPT ![r] = row]
      /\ control' = control - AtBookedRates(f) /\ advance' = advance + (a - n) * t
      /\ Receives(r, f)
  BY <1>1, <1>2 DEF CreateReceipt, Receives
<1>4. /\ row \in Funds /\ row.status = "POSTED" /\ row.allocated = n /\ row.unapplied = a - n
  BY <1>1, <1>2, <1>3 DEF Funds
<1>5. receipt[r].allocated = 0
  BY <1>3 DEF BooksInv, ReceivablesInv, ReceiptsAgree
<1>6. Held(receipt[r], Rate[r]) = 0 /\ Held(row, Rate[r]) = (a - n) * t
  BY <1>1, <1>3, <1>4 DEF Held
<1>7. (a - n) * t \in Int
  BY <1>1
<1>8. ReceiptMoves(r, f, row)
  BY <1>1, <1>3, <1>4, <1>5, <1>6, <1>7 DEF ReceiptMoves
<1> QED
  BY <1>8, ReceiptMovesKeeps

LEMMA AllocateReceiptKeeps ==
  ASSUME BooksInv, NEW r \in Receipts, NEW f \in [ReceiptTargets -> Nat], AllocateReceipt(r, f)
  PROVE  BooksInv'
<1>1. PICK n \in Nat, t \in Nat, was \in Funds :
         n = Sum(f, ReceiptTargets) /\ t = Rate[r] /\ was = receipt[r]
  BY SumNat, ReceivablesFacts, FiguresFacts DEF BooksInv, ReceivablesInv, ReceivablesShape
<1>2. PICK a \in Nat, u \in Nat : a = was.allocated /\ u = was.unapplied
  BY FundsFields
<1>3. PICK row : row = [was EXCEPT !.allocated = a + n, !.unapplied = u - n]
  OBVIOUS
<1>4. /\ was.status = "POSTED" /\ n <= u /\ receipt' = [receipt EXCEPT ![r] = row]
      /\ control' = control - AtBookedRates(f) /\ advance' = advance - n * t
      /\ Receives(r, f)
  BY <1>1, <1>2, <1>3 DEF AllocateReceipt, Receives, BooksInv, ReceivablesInv, ReceivablesShape
<1>5. row \in Funds /\ row.status = "POSTED" /\ row.allocated = a + n /\ row.unapplied = u - n
  <2>1. a + n \in Nat /\ u - n \in Nat
    BY <1>4
  <2> QED
    BY <1>3, <1>4, <2>1 DEF Funds
<1>6. a + u = Amount[r]
  BY <1>1, <1>2 DEF BooksInv, ReceivablesInv, ReceiptsAgree
<1>7. Held(was, t) = u * t /\ Held(row, t) = (u - n) * t
  BY <1>2, <1>4, <1>5 DEF Held
<1>8. (u - n) * t = u * t - n * t /\ u * t \in Int /\ n * t \in Int
  BY Times
<1>9. advance' = advance + (Held(row, t) - Held(was, t))
  <2>1. PICK x \in Int, y \in Int : x = u * t /\ y = n * t
    BY <1>8
  <2> QED
    BY <1>4, <1>7, <1>8, <2>1, BooksInts
<1>10. ReceiptMoves(r, f, row)
  BY <1>1, <1>2, <1>4, <1>5, <1>6, <1>9 DEF ReceiptMoves
<1> QED
  BY <1>10, ReceiptMovesKeeps

LEMMA RefundReceiptKeeps ==
  ASSUME BooksInv, NEW r \in Receipts, NEW n \in 1..Amount[r], RefundReceipt(r, n)
  PROVE  BooksInv'
<1>0. /\ ReceivablesShape /\ InvoicesAgree /\ ReceiptsAgree /\ NotesAgree /\ AccountsAgree /\ ReceivablesInv
  BY DEF BooksInv, ReceivablesInv
<1>1. PICK t \in Nat, was \in Funds : t = Rate[r] /\ was = receipt[r]
  BY <1>0, FiguresFacts DEF ReceivablesShape
<1>2. PICK a \in Nat, u \in Nat : a = was.allocated /\ u = was.unapplied
  BY FundsFields
<1>3. PICK row : row = [was EXCEPT !.allocated = a + n, !.unapplied = u - n]
  OBVIOUS
<1>4. /\ was.status = "POSTED" /\ n <= u /\ receipt' = [receipt EXCEPT ![r] = row] /\ n \in Nat
      /\ advance' = advance - n * t /\ refunded' = [refunded EXCEPT ![r] = @ + n]
      /\ UNCHANGED <<invoice, note, received, credited, control>>
  <2>1. n \in Nat
    BY FiguresFacts
  <2>2. was.status = "POSTED" /\ n <= u /\ receipt' = [receipt EXCEPT ![r] = row]
    BY <1>0, <1>1, <1>2, <1>3 DEF RefundReceipt, ReceivablesShape
  <2>3. /\ advance' = advance - n * t /\ refunded' = [refunded EXCEPT ![r] = @ + n]
        /\ UNCHANGED <<invoice, note, received, credited, control>>
    BY <1>1 DEF RefundReceipt
  <2> QED
    BY <2>1, <2>2, <2>3
<1>5. row \in Funds /\ row.status = "POSTED" /\ row.allocated = a + n /\ row.unapplied = u - n
  <2>1. a + n \in Nat /\ u - n \in Nat
    BY <1>4
  <2> QED
    BY <1>3, <1>4, <2>1 DEF Funds
<1>6. /\ receipt' \in [Receipts -> Funds] /\ receipt'[r] = row
      /\ \A x \in Receipts \ {r} : receipt'[x] = receipt[x]
      /\ Sum(Helds', Receipts) = Sum(Helds, Receipts) + (Held(row, Rate[r]) - Held(receipt[r], Rate[r]))
  BY <1>0, <1>4, <1>5, OneReceipt
<1>7. /\ refunded' \in [Receipts \cup Notes -> Nat] /\ refunded'[r] = refunded[r] + n
      /\ \A x \in (Receipts \cup Notes) \ {r} : refunded'[x] = refunded[x]
      /\ refunded[r] \in Nat
  BY <1>0, <1>4 DEF ReceivablesShape
<1>8. ReceivablesShape'
  BY <1>0, <1>4, <1>6, <1>7 DEF ReceivablesShape
<1>9. ReceiptsAgree'
  <2>1. ASSUME NEW x \in Receipts
        PROVE  /\ receipt'[x].allocated = Sum(received'[x], Documents) + refunded'[x]
               /\ receipt'[x].allocated + receipt'[x].unapplied = Amount[x]
               /\ receipt'[x].status = "none" => receipt'[x].allocated = 0
    <3>1. /\ receipt[x].allocated = Sum(received[x], Documents) + refunded[x]
          /\ receipt[x].allocated + receipt[x].unapplied = Amount[x]
          /\ receipt[x].status = "none" => receipt[x].allocated = 0
          /\ received'[x] = received[x]
      BY <1>0, <1>4 DEF ReceiptsAgree
    <3>2. CASE x = r
      <4>1. Sum(received[r], Documents) \in Nat
        <5>1. \A d \in Documents : received[r][d] \in Nat
          BY <1>0 DEF ReceivablesShape
        <5> QED
          BY <5>1, SumNat, ReceivablesFacts
      <4> QED
        BY <1>1, <1>2, <1>4, <1>5, <1>6, <1>7, <3>1, <3>2, <4>1
    <3>3. CASE x # r
      BY <1>6, <1>7, <3>1, <3>3
    <3> QED
      BY <3>2, <3>3
  <2> QED
    BY <2>1 DEF ReceiptsAgree
<1>10. NotesAgree' /\ Standings' = Standings
  <2>1. \A c \in Notes : refunded'[c] = refunded[c]
    BY <1>7, ReceivablesFacts
  <2> QED
    BY <1>0, <1>4, <2>1, NotesStand
<1>11. InvoicesAgree' /\ Worths' = Worths
  <2>1. \A i \in Invoices : /\ RowAgrees(invoice'[i])
                            /\ invoice'[i].paid = Sum(ReceivedBy(i)', Receipts)
                            /\ invoice'[i].credited = Sum(CreditedBy(i)', Notes)
    BY <1>0, <1>4, RowsStand DEF InvoicesAgree
  <2> QED
    BY <1>4, <2>1 DEF InvoicesAgree, Worths
<1>12. Held(was, t) = u * t /\ Held(row, t) = (u - n) * t
  BY <1>2, <1>4, <1>5 DEF Held
<1>13. (u - n) * t = u * t - n * t /\ u * t \in Int /\ n * t \in Int
  BY <1>4, Times
<1>14. AccountsAgree'
  <2>1. PICK x \in Int, y \in Int : x = u * t /\ y = n * t
    BY <1>13
  <2>2. advance' = Sum(Helds', Receipts)
    BY <1>0, <1>1, <1>4, <1>6, <1>12, <1>13, <2>1, BooksInts DEF AccountsAgree
  <2> QED
    BY <1>0, <1>4, <1>10, <1>11, <2>2 DEF AccountsAgree
<1> QED
  BY <1>8, <1>9, <1>10, <1>11, <1>14 DEF BooksInv, ReceivablesInv

(* What a note leaves behind follows what is settled with it.               *)
Spends(c, g) ==
  /\ c \in Notes /\ received' = received /\ note' \in [Notes -> Credit]
  /\ RowAdded(credited, credited', Notes, Invoices, c, g)
  /\ note'[c].rate = note[c].rate \/ note[c].applied = 0

LEMMA NothingSpent ==
  ASSUME ReceivablesShape, NotesAgree, NEW c \in Notes, note[c].applied = 0
  PROVE  /\ \A i \in Invoices : credited[c][i] = 0
         /\ Sum(credited[c], Invoices) = 0 /\ Sum(CreditedInBase(c), Invoices) = 0
         /\ Sum(ReceivedBy(c), Receipts) = 0
<1>1. note[c].applied = Sum(credited[c], Invoices) + refunded[c] + Sum(ReceivedBy(c), Receipts)
  BY DEF NotesAgree
<1>2. refunded[c] \in Nat
  BY DEF ReceivablesShape
<1>3. Sum(credited[c], Invoices) = 0 /\ Sum(ReceivedBy(c), Receipts) = 0
  <2>1. Sum(credited[c], Invoices) \in Nat /\ Sum(ReceivedBy(c), Receipts) \in Nat
    BY LeftIs
  <2> QED
    BY <1>1, <1>2, <2>1
<1>4. \A i \in Invoices : credited[c][i] = 0
  <2>1. \A i \in Invoices : credited[c][i] \in Nat
    BY DEF ReceivablesShape
  <2> QED
    BY <1>3, <2>1, SumNat, ReceivablesFacts
<1>5. Sum(CreditedInBase(c), Invoices) = 0
  <2>1. \A i \in Invoices : CreditedInBase(c)[i] = 0
    BY <1>4, FiguresFacts DEF CreditedInBase
  <2> QED
    BY <2>1, SumNat, ReceivablesFacts
<1> QED
  BY <1>3, <1>4, <1>5

LEMMA InBaseInt ==
  ASSUME NEW g, \A i \in Invoices : g[i] \in Nat
  PROVE  Sum(InBase(g), Invoices) \in Int /\ \A i \in Invoices : InBase(g)[i] \in Int
<1>1. \A i \in Invoices : InBase(g)[i] \in Int
  BY FiguresFacts DEF InBase
<1> QED
  BY <1>1, SumInt, ReceivablesFacts

LEMMA LeftAfter ==
  ASSUME ReceivablesShape, NotesAgree, NEW c, NEW g, Spends(c, g)
  PROVE  /\ LeftBehind(c)' = LeftBehind(c) + Sum(InBase(g), Invoices) - Sum(g, Invoices) * note'[c].rate
         /\ LeftBehind(c) \in Int /\ Sum(InBase(g), Invoices) \in Int
         /\ Sum(g, Invoices) * note'[c].rate \in Int /\ Sum(g, Invoices) \in Nat
<1>1. PICK M, N : M = credited /\ N = credited'
  OBVIOUS
<1>2. RowAdded(M, N, Notes, Invoices, c, g) /\ c \in Notes
  BY <1>1 DEF Spends
<1>3. Sum(N[c], Invoices) = Sum(M[c], Invoices) + Sum(g, Invoices)
  BY ONLY <1>2, AddedRow
<1>4. /\ \A i \in Invoices : g[i] \in Nat /\ credited'[c][i] = credited[c][i] + g[i]
      /\ credited' \in [Notes -> [Invoices -> Nat]]
  BY <1>1, <1>2 DEF RowAdded
<1>5. Sum(g, Invoices) \in Nat /\ Sum(InBase(g), Invoices) \in Int
  BY <1>4, SumNat, ReceivablesFacts, InBaseInt
<1>6. Sum(CreditedInBase(c)', Invoices) = Sum(CreditedInBase(c), Invoices) + Sum(InBase(g), Invoices)
  <2>1. PICK v, w, u : v = CreditedInBase(c) /\ w = CreditedInBase(c)' /\ u = InBase(g)
    OBVIOUS
  <2>2. \A i \in Invoices : /\ v[i] = credited[c][i] * Rate[i] /\ w[i] = credited'[c][i] * Rate[i]
                            /\ u[i] = g[i] * Rate[i]
    BY <2>1 DEF CreditedInBase, InBase
  <2>3. ASSUME NEW i \in Invoices PROVE v[i] \in Int /\ u[i] \in Int /\ w[i] = v[i] + u[i]
    <3>1. PICK a \in Nat, b \in Nat, t \in Nat : a = credited[c][i] /\ b = g[i] /\ t = Rate[i]
      BY <1>2, <1>4, FiguresFacts DEF ReceivablesShape
    <3>2. v[i] = a * t /\ u[i] = b * t /\ w[i] = (a + b) * t
      BY <1>4, <2>2, <3>1
    <3> QED
      BY <3>2, Times
  <2>4. Sum(w, Invoices) = Sum(v, Invoices) + Sum(u, Invoices)
    BY <2>3, SumPlus, ReceivablesFacts
  <2> QED
    BY <2>1, <2>4
<1>7. PICK s, a, q, t, z, n, b :
         /\ s = Sum(CreditedInBase(c), Invoices) /\ a = Sum(credited[c], Invoices)
         /\ q = Sum(ReceivedBy(c), Receipts) /\ t = note[c].rate /\ z = note'[c].rate
         /\ n = Sum(g, Invoices) /\ b = Sum(InBase(g), Invoices)
  OBVIOUS
<1>8. /\ s \in Int /\ a \in Nat /\ q \in Nat /\ t \in Nat /\ n \in Nat /\ b \in Int
      /\ LeftBehind(c) = s - a * t - 2 * (q * t) /\ LeftBehind(c) \in Int
  BY <1>2, <1>5, <1>7, LeftIs
<1>9. z \in Nat
  <2>1. note'[c] \in Credit
    BY <1>2 DEF Spends
  <2> QED
    BY <1>7, <2>1, CreditFields
<1>10. LeftBehind(c)' = (s + b) - (a + n) * z - 2 * (q * z)
  <2>1. note' \in [Notes -> Credit] /\ received' = received /\ received' \in [Receipts -> [Documents -> Nat]]
    BY DEF Spends, ReceivablesShape
  <2>2. LeftBehind(c)' = Sum(CreditedInBase(c)', Invoices) - Sum(credited'[c], Invoices) * note'[c].rate
                         - 2 * (Sum(ReceivedBy(c)', Receipts) * note'[c].rate)
    BY <1>2, <1>4, <2>1, NextLeft
  <2>3. ReceivedBy(c)' = ReceivedBy(c)
    BY <2>1 DEF ReceivedBy
  <2>4. Sum(credited'[c], Invoices) = a + n
    BY <1>1, <1>3, <1>7
  <2> QED
    BY <1>6, <1>7, <2>2, <2>3, <2>4
<1>11. /\ a * z \in Int /\ n * z \in Int /\ q * z \in Int /\ a * t \in Int /\ q * t \in Int
       /\ (a + n) * z = a * z + n * z
  BY <1>8, <1>9, Times
<1>12. s - a * t - 2 * (q * t) = s - a * z - 2 * (q * z)
  <2>1. CASE note'[c].rate = note[c].rate
    BY <1>7, <2>1
  <2>2. CASE note[c].applied = 0
    <3>1. a = 0 /\ q = 0
      BY <1>2, <1>7, <2>2, NothingSpent
    <3>2. a * t = 0 /\ a * z = 0 /\ q * t = 0 /\ q * z = 0
      BY <1>8, <1>9, <3>1
    <3> QED
      BY <3>2
  <2> QED
    BY <2>1, <2>2 DEF Spends
<1>13. LeftBehind(c)' = LeftBehind(c) + b - n * z
  <2>1. PICK k \in Int, l \in Int, m \in Int, d \in Int : k = a * z /\ l = n * z /\ m = q * z /\ d = LeftBehind(c)
    BY <1>8, <1>11
  <2>2. d = s - k - 2 * m
    BY <1>8, <1>12, <2>1
  <2>3. LeftBehind(c)' = (s + b) - (k + l) - 2 * m
    BY <1>10, <1>11, <2>1
  <2>4. LeftBehind(c)' = d + b - l
    BY <1>8, <2>2, <2>3
  <2> QED
    BY <2>1, <2>4
<1> QED
  BY <1>5, <1>7, <1>8, <1>11, <1>13

(* One note is drafted, posted, applied, made with an invoice or refunded.  *)
NoteMoves(c, row, g, m) ==
  /\ Spends(c, g) /\ InvoicesSettled(g, "credited")
  /\ row \in Credit /\ note' = [note EXCEPT ![c] = row] /\ m \in Nat
  /\ row.applied = note[c].applied + Sum(g, Invoices) + m
  /\ row.applied + row.available = row.total
  /\ row.status # "POSTED" => row.applied = 0
  /\ refunded' \in [Receipts \cup Notes -> Nat] /\ refunded'[c] = refunded[c] + m
  /\ \A x \in (Receipts \cup Notes) \ {c} : refunded'[x] = refunded[x]
  /\ receipt' = receipt /\ advance' = advance
  /\ control' = control - (Given(row) - Given(note[c])) - Sum(g, Invoices) * row.rate

LEMMA NoteMovesKeeps ==
  ASSUME BooksInv, NEW c, NEW row, NEW g, NEW m, NoteMoves(c, row, g, m)
  PROVE  BooksInv'
<1>1. /\ ReceivablesShape /\ InvoicesAgree /\ ReceiptsAgree /\ NotesAgree /\ AccountsAgree /\ ReceivablesInv
  BY DEF BooksInv, ReceivablesInv
<1>2. /\ c \in Notes /\ c \notin Receipts /\ received' = received /\ receipt' = receipt /\ advance' = advance
      /\ note' \in [Notes -> Credit] /\ note'[c] = row /\ \A x \in Notes \ {c} : note'[x] = note[x]
      /\ RowAdded(credited, credited', Notes, Invoices, c, g) /\ Spends(c, g)
  BY <1>1, ReceivablesFacts DEF NoteMoves, Spends, ReceivablesShape
<1>3. PICK M, N : M = credited /\ N = credited'
  OBVIOUS
<1>4. RowAdded(M, N, Notes, Invoices, c, g)
  BY <1>2, <1>3
<1>5. /\ Sum(N[c], Invoices) = Sum(M[c], Invoices) + Sum(g, Invoices)
      /\ \A i \in Invoices : /\ Sum(Column(N, Notes, i), Notes) = Sum(Column(M, Notes, i), Notes) + g[i]
                             /\ Sum(Column(M, Notes, i), Notes) \in Nat
  BY ONLY <1>4, AddedRow
<1>6. /\ credited' \in [Notes -> [Invoices -> Nat]] /\ \A i \in Invoices : g[i] \in Nat
      /\ \A x \in Notes \ {c} : credited'[x] = credited[x]
  BY <1>3, <1>4 DEF RowAdded
<1>7. /\ invoice' \in [Invoices -> Row]
      /\ \A i \in Invoices : /\ RowAgrees(invoice'[i])
                             /\ invoice'[i].paid = invoice[i].paid + 0
                             /\ invoice'[i].credited = invoice[i].credited + g[i]
      /\ Sum(Worths', Invoices) = Sum(Worths, Invoices) - Sum(InBase(g), Invoices)
  <2>1. InvoicesSettled(g, "credited")
    BY DEF NoteMoves
  <2> QED
    BY <1>1, <2>1, SettledInvoices
<1>8. ReceivablesShape'
  <2>1. refunded' \in [Receipts \cup Notes -> Nat]
    BY DEF NoteMoves
  <2> QED
    BY <1>1, <1>2, <1>6, <1>7, <2>1 DEF ReceivablesShape
<1>9. InvoicesAgree'
  <2>1. ASSUME NEW i \in Invoices
        PROVE  /\ RowAgrees(invoice'[i])
               /\ invoice'[i].paid = Sum(ReceivedBy(i)', Receipts)
               /\ invoice'[i].credited = Sum(CreditedBy(i)', Notes)
    <3>1. ReceivedBy(i)' = ReceivedBy(i) /\ CreditedBy(i)' = Column(N, Notes, i) /\ CreditedBy(i) = Column(M, Notes, i)
      BY <1>2, <1>3 DEF ReceivedBy, CreditedBy, Column
    <3>2. invoice[i].paid = Sum(ReceivedBy(i), Receipts) /\ invoice[i].credited = Sum(CreditedBy(i), Notes)
      BY <1>1 DEF InvoicesAgree
    <3>3. invoice[i].paid \in Nat
      BY <1>1, RowFields DEF ReceivablesShape
    <3> QED
      BY <1>5, <1>7, <3>1, <3>2, <3>3
  <2> QED
    BY <2>1 DEF InvoicesAgree
<1>10. ReceiptsAgree' /\ Helds' = Helds
  <2>1. \A r \in Receipts : refunded'[r] = refunded[r]
    BY <1>2 DEF NoteMoves
  <2> QED
    BY <1>1, <1>2, <2>1, ReceiptsStand
<1>11. NotesAgree'
  <2>1. ASSUME NEW x \in Notes
        PROVE  /\ note'[x].applied = Sum(credited'[x], Invoices) + refunded'[x] + Sum(ReceivedBy(x)', Receipts)
               /\ note'[x].applied + note'[x].available = note'[x].total
               /\ note'[x].status # "POSTED" => note'[x].applied = 0
    <3>1. ReceivedBy(x)' = ReceivedBy(x)
      BY <1>2 DEF ReceivedBy
    <3>2. /\ note[x].applied = Sum(credited[x], Invoices) + refunded[x] + Sum(ReceivedBy(x), Receipts)
          /\ note[x].applied + note[x].available = note[x].total
          /\ note[x].status # "POSTED" => note[x].applied = 0
      BY <1>1 DEF NotesAgree
    <3>3. CASE x = c
      <4>1. PICK a, s, q, n : /\ a = Sum(credited[c], Invoices) /\ s = refunded[c]
                              /\ q = Sum(ReceivedBy(c), Receipts) /\ n = Sum(g, Invoices)
        OBVIOUS
      <4>2. a \in Nat /\ s \in Nat /\ q \in Nat /\ n \in Nat /\ m \in Nat
        <5>1. n \in Nat
          BY <1>6, <4>1, SumNat, ReceivablesFacts
        <5>2. m \in Nat
          BY DEF NoteMoves
        <5>3. a \in Nat /\ q \in Nat
          BY <1>1, <1>2, <4>1, LeftIs
        <5>4. s \in Nat
          BY <1>1, <1>2, <4>1 DEF ReceivablesShape
        <5> QED
          BY <5>1, <5>2, <5>3, <5>4
      <4>3. /\ row.applied = (a + s + q) + n + m /\ row.applied + row.available = row.total
            /\ row.status # "POSTED" => row.applied = 0
            /\ refunded'[c] = s + m
        BY <3>2, <3>3, <4>1 DEF NoteMoves
      <4>4. Sum(credited'[c], Invoices) = a + n /\ Sum(ReceivedBy(c)', Receipts) = q
        BY <1>3, <1>5, <3>1, <3>3, <4>1
      <4>5. row.applied = (a + n) + (s + m) + q
        BY <4>2, <4>3
      <4> QED
        BY <1>2, <3>3, <4>3, <4>4, <4>5
    <3>4. CASE x # c
      <4>1. refunded'[x] = refunded[x]
        BY <3>4 DEF NoteMoves
      <4> QED
        BY <1>2, <1>6, <3>1, <3>2, <3>4, <4>1
    <3> QED
      BY <3>3, <3>4
  <2> QED
    BY <2>1 DEF NotesAgree
<1>12. AccountsAgree'
  <2>1. OnlyNote(c)
    BY <1>2, <1>6 DEF OnlyNote
  <2>2. /\ Sum(Standings', Notes) = Sum(Standings, Notes) + (Standing(c)' - Standing(c))
        /\ Sum(Standings, Notes) \in Int /\ Standing(c) \in Int /\ Standing(c)' \in Int
    BY <1>1, <2>1, OneNote
  <2>3. /\ LeftBehind(c)' = LeftBehind(c) + Sum(InBase(g), Invoices) - Sum(g, Invoices) * row.rate
        /\ LeftBehind(c) \in Int /\ Sum(InBase(g), Invoices) \in Int /\ Sum(g, Invoices) * row.rate \in Int
    BY <1>1, <1>2, LeftAfter
  <2>4. /\ Standing(c)' = Given(row) - LeftBehind(c)' /\ Standing(c) = Given(note[c]) - LeftBehind(c)
        /\ Given(row) \in Int /\ Given(note[c]) \in Int
    <3>1. received' \in [Receipts -> [Documents -> Nat]]
      BY <1>1, <1>2 DEF ReceivablesShape
    <3>2. Standing(c)' = Given(note'[c]) - LeftBehind(c)' /\ Given(note'[c]) \in Int
      BY <1>2, <1>6, <3>1, NextLeft
    <3>3. Given(note[c]) \in Int
      BY <1>1, <1>2, LeftIs
    <3> QED
      BY <1>2, <3>2, <3>3 DEF Standing
  <2>5. control' = control - (Given(row) - Given(note[c])) - Sum(g, Invoices) * row.rate
    BY DEF NoteMoves
  <2>6. PICK x \in Int, y \in Int, z \in Int, k \in Int, l \in Int :
           /\ x = Sum(InBase(g), Invoices) /\ y = Sum(g, Invoices) * row.rate /\ z = Given(row)
           /\ k = Given(note[c]) /\ l = LeftBehind(c)
    BY <2>3, <2>4
  <2>7. Standing(c)' - Standing(c) = z - k - x + y
    BY <2>3, <2>4, <2>6
  <2>8. Sum(Standings', Notes) = Sum(Standings, Notes) + (z - k - x + y)
    BY <2>2, <2>7
  <2>9. control' = Sum(Worths', Invoices) - Sum(Standings', Notes)
    BY <1>1, <1>7, <2>5, <2>6, <2>8, BooksInts DEF AccountsAgree
  <2>10. advance' = Sum(Helds', Receipts)
    BY <1>1, <1>2, <1>10 DEF AccountsAgree
  <2> QED
    BY <2>9, <2>10 DEF AccountsAgree
<1> QED
  BY <1>8, <1>9, <1>10, <1>11, <1>12 DEF BooksInv, ReceivablesInv

Nothing == [i \in Invoices |-> 0]

(* A note that settles nothing.                                             *)
NoteAlone(c, row, m) ==
  /\ c \in Notes /\ row \in Credit /\ note' = [note EXCEPT ![c] = row] /\ m \in Nat
  /\ UNCHANGED <<invoice, receipt, received, credited, advance>>
  /\ row.applied = note[c].applied + m
  /\ row.applied + row.available = row.total
  /\ row.status # "POSTED" => row.applied = 0
  /\ row.rate = note[c].rate \/ note[c].applied = 0
  /\ refunded' \in [Receipts \cup Notes -> Nat] /\ refunded'[c] = refunded[c] + m
  /\ \A x \in (Receipts \cup Notes) \ {c} : refunded'[x] = refunded[x]
  /\ control' = control - (Given(row) - Given(note[c]))

LEMMA NoteAloneKeeps ==
  ASSUME BooksInv, NEW c, NEW row, NEW m, NoteAlone(c, row, m)
  PROVE  BooksInv'
<1>1. /\ ReceivablesShape /\ InvoicesAgree /\ ReceiptsAgree /\ NotesAgree /\ AccountsAgree /\ ReceivablesInv
  BY DEF BooksInv, ReceivablesInv
<1>2. PICK g : g = Nothing
  OBVIOUS
<1>3. /\ g \in [Invoices -> Nat] /\ \A i \in Invoices : g[i] = 0
  BY <1>2 DEF Nothing
<1>4. Sum(g, Invoices) = 0
  BY <1>3, SumNat, ReceivablesFacts
<1>5. InvoicesSettled(g, "credited")
  <2>1. "credited" \in Columns
    BY DEF Columns
  <2>2. \A i \in Invoices : SettledBy(invoice[i], g[i], "credited") = invoice[i]
    BY <1>3 DEF SettledBy
  <2>3. invoice' = [i \in Invoices |-> invoice[i]]
    BY <1>1 DEF NoteAlone, ReceivablesShape
  <2>4. invoice' = [i \in Invoices |-> SettledBy(invoice[i], g[i], "credited")]
    BY <2>2, <2>3
  <2> QED
    BY <1>3, <2>1, <2>4 DEF InvoicesSettled
<1>6. c \in Notes /\ credited' = credited /\ row \in Credit /\ note' = [note EXCEPT ![c] = row] /\ received' = received
  BY DEF NoteAlone
<1>7. RowAdded(credited, credited', Notes, Invoices, c, g)
  <2>1. credited \in [Notes -> [Invoices -> Nat]]
    BY <1>1 DEF ReceivablesShape
  <2>2. \A i \in Invoices : credited[c][i] + g[i] = credited[c][i]
    BY <1>3, <1>6, <2>1
  <2> QED
    BY <1>3, <1>6, <2>1, <2>2, ReceivablesFacts DEF RowAdded
<1>8. note' \in [Notes -> Credit] /\ note'[c] = row
  BY <1>1, <1>6 DEF ReceivablesShape
<1>9. Spends(c, g)
  BY <1>6, <1>7, <1>8 DEF Spends, NoteAlone
<1>10. row.applied = note[c].applied + Sum(g, Invoices) + m
  <2>1. note[c].applied \in Nat /\ m \in Nat
    BY <1>1, <1>6, CreditFields DEF ReceivablesShape, NoteAlone
  <2> QED
    BY <1>4, <2>1 DEF NoteAlone
<1>11. control' = control - (Given(row) - Given(note[c])) - Sum(g, Invoices) * row.rate
  <2>1. Sum(g, Invoices) * row.rate = 0
    BY <1>4, <1>6, CreditFields
  <2>2. Given(row) \in Int /\ Given(note[c]) \in Int
    <3>1. Given(note[c]) \in Int
      BY <1>1, <1>6, LeftIs
    <3>2. row.available * row.rate \in Int
      BY <1>6, CreditFields, Times
    <3> QED
      BY <3>1, <3>2 DEF Given
  <2>3. control' = control - (Given(row) - Given(note[c]))
    BY DEF NoteAlone
  <2> QED
    BY <2>1, <2>2, <2>3, BooksInts
<1>12. NoteMoves(c, row, g, m)
  BY <1>5, <1>9, <1>10, <1>11 DEF NoteMoves, NoteAlone
<1> QED
  BY <1>12, NoteMovesKeeps

LEMMA CreateCreditNoteKeeps ==
  ASSUME BooksInv, NEW c \in Notes, NEW total \in NoteTotals, NEW rate \in NoteRates,
         CreateCreditNote(c, total, rate)
  PROVE  BooksInv'
<1>1. /\ ReceivablesShape /\ NotesAgree /\ AccountsAgree
  BY DEF BooksInv, ReceivablesInv
<1>2. total \in Nat /\ rate \in Nat
  BY FiguresFacts
<1>3. PICK row : row = [NoNote EXCEPT !.status = "DRAFT", !.total = total, !.rate = rate, !.available = total]
  OBVIOUS
<1>4. /\ row \in Credit /\ row.status = "DRAFT" /\ row.total = total /\ row.available = total /\ row.applied = 0
  BY <1>2, <1>3 DEF NoNote, Credit
<1>5. /\ note[c].status = "none" /\ note' = [note EXCEPT ![c] = row]
      /\ UNCHANGED <<invoice, receipt, received, credited, refunded, control, advance>>
  BY <1>3 DEF CreateCreditNote
<1>6. note[c].applied = 0
  BY <1>1, <1>5 DEF NotesAgree
<1>7. Given(row) = 0 /\ Given(note[c]) = 0
  BY <1>4, <1>5 DEF Given
<1>8. control' = control - (Given(row) - Given(note[c]))
  BY <1>5, <1>7, BooksInts
<1>9. refunded' \in [Receipts \cup Notes -> Nat] /\ refunded'[c] = refunded[c] + 0
  BY <1>1, <1>5 DEF ReceivablesShape
<1>10. NoteAlone(c, row, 0)
  BY <1>2, <1>4, <1>5, <1>6, <1>8, <1>9 DEF NoteAlone
<1> QED
  BY <1>10, NoteAloneKeeps

LEMMA PostCreditNoteKeeps ==
  ASSUME BooksInv, NEW c \in Notes, PostCreditNote(c)
  PROVE  BooksInv'
<1>1. /\ ReceivablesShape /\ NotesAgree /\ AccountsAgree
  BY DEF BooksInv, ReceivablesInv
<1>2. PICK was \in Credit : was = note[c]
  BY <1>1 DEF ReceivablesShape
<1>3. PICK row : row = [was EXCEPT !.status = "POSTED"]
  OBVIOUS
<1>4. /\ row \in Credit /\ row.status = "POSTED" /\ row.total = was.total /\ row.rate = was.rate
      /\ row.applied = was.applied /\ row.available = was.available
  BY <1>3 DEF Credit
<1>5. /\ was.status = "DRAFT" /\ note' = [note EXCEPT ![c] = row]
      /\ control' = control - was.total * was.rate
      /\ UNCHANGED <<invoice, receipt, received, credited, refunded, advance>>
  BY <1>1, <1>2, <1>3 DEF PostCreditNote, ReceivablesShape
<1>6. was.applied = 0 /\ was.applied + was.available = was.total
  BY <1>1, <1>2, <1>5 DEF NotesAgree
<1>7. was.available = was.total /\ was.total \in Nat /\ was.rate \in Nat
  BY <1>2, <1>6, CreditFields
<1>8. Given(row) = was.total * was.rate /\ Given(was) = 0
  BY <1>4, <1>5, <1>7 DEF Given
<1>9. control' = control - (Given(row) - Given(note[c]))
  <2>1. was.total * was.rate \in Int
    BY <1>7, Times
  <2> QED
    BY <1>2, <1>5, <1>8, <2>1, BooksInts
<1>10. refunded' \in [Receipts \cup Notes -> Nat] /\ refunded'[c] = refunded[c] + 0
  BY <1>1, <1>5 DEF ReceivablesShape
<1>11. row.applied = was.applied + 0
  BY <1>4, <1>6
<1>12. NoteAlone(c, row, 0)
  BY <1>2, <1>4, <1>5, <1>6, <1>9, <1>10, <1>11 DEF NoteAlone
<1> QED
  BY <1>12, NoteAloneKeeps

LEMMA RefundCreditNoteKeeps ==
  ASSUME BooksInv, NEW c \in Notes, NEW n \in 1..note[c].total, RefundCreditNote(c, n)
  PROVE  BooksInv'
<1>1. /\ ReceivablesShape /\ NotesAgree /\ AccountsAgree
  BY DEF BooksInv, ReceivablesInv
<1>2. PICK was \in Credit : was = note[c]
  BY <1>1 DEF ReceivablesShape
<1>3. n \in Nat /\ n > 0
  BY <1>2, CreditFields
<1>4. PICK row : row = DrawnBy(was, n)
  OBVIOUS
<1>5. /\ was.status = "POSTED" /\ n <= was.available /\ note' = [note EXCEPT ![c] = row]
      /\ refunded' = [refunded EXCEPT ![c] = @ + n] /\ control' = control + n * was.rate
      /\ UNCHANGED <<invoice, receipt, received, credited, advance>>
  BY <1>1, <1>2, <1>3, <1>4 DEF RefundCreditNote, DrawnBy, ReceivablesShape
<1>6. Draws(was, n, row)
  BY <1>2, <1>3, <1>4, <1>5 DEF Draws
<1>7. /\ row \in Credit /\ row.status = was.status /\ row.total = was.total /\ row.rate = was.rate
      /\ row.applied = was.applied + n /\ row.available = was.available - n
      /\ Given(row) = Given(was) - n * was.rate
      /\ Given(row) \in Int /\ Given(was) \in Int /\ n * was.rate \in Int
  BY ONLY <1>6, DrawnRow
<1>8. was.applied + was.available = was.total
  BY <1>1, <1>2 DEF NotesAgree
<1>9. row.applied + row.available = row.total
  BY <1>3, <1>7, <1>8, CreditFields
<1>10. control' = control - (Given(row) - Given(note[c]))
  <2>1. PICK x \in Int, y \in Int : x = Given(was) /\ y = n * was.rate
    BY <1>7
  <2> QED
    BY <1>2, <1>5, <1>7, <2>1, BooksInts
<1>11. /\ refunded' \in [Receipts \cup Notes -> Nat] /\ refunded'[c] = refunded[c] + n
       /\ \A x \in (Receipts \cup Notes) \ {c} : refunded'[x] = refunded[x]
  BY <1>1, <1>3, <1>5 DEF ReceivablesShape
<1>12. NoteAlone(c, row, n)
  BY <1>2, <1>3, <1>5, <1>7, <1>9, <1>10, <1>11 DEF NoteAlone
<1> QED
  BY <1>12, NoteAloneKeeps

LEMMA ApplyCreditNoteKeeps ==
  ASSUME BooksInv, NEW c \in Notes, NEW f \in [Invoices -> Nat], Sum(f, Invoices) > 0, ApplyCreditNote(c, f)
  PROVE  BooksInv'
<1>1. /\ ReceivablesShape /\ NotesAgree /\ AccountsAgree /\ ReceivablesInv
  BY DEF BooksInv, ReceivablesInv
<1>2. PICK was \in Credit, n \in Nat : was = note[c] /\ n = Sum(f, Invoices) /\ n > 0
  BY <1>1, SumNat, ReceivablesFacts DEF ReceivablesShape
<1>3. PICK row : row = DrawnBy(was, n)
  OBVIOUS
<1>4. /\ was.status = "POSTED" /\ n <= was.available /\ Allocatable(f)
      /\ UNCHANGED <<receipt, received, refunded, control, advance>>
      /\ invoice' = InvoicesAfter(f, "credited")
  BY <1>2 DEF ApplyCreditNote
<1>5. note' = [note EXCEPT ![c] = row]
  BY <1>1, <1>2, <1>3 DEF ApplyCreditNote, DrawnBy, ReceivablesShape
<1>6. Draws(was, n, row)
  BY <1>2, <1>3, <1>4 DEF Draws
<1>7. /\ row \in Credit /\ row.status = was.status /\ row.total = was.total /\ row.rate = was.rate
      /\ row.applied = was.applied + n /\ row.available = was.available - n
      /\ Given(row) = Given(was) - n * was.rate
      /\ Given(row) \in Int /\ Given(was) \in Int /\ n * was.rate \in Int
  BY ONLY <1>6, DrawnRow
<1>8. was.applied + was.available = was.total
  BY <1>1, <1>2 DEF NotesAgree
<1>9. row.applied + row.available = row.total /\ row.applied = was.applied + n + 0
  BY <1>2, <1>7, <1>8, CreditFields
<1>10. control' = control - (Given(row) - Given(note[c])) - n * row.rate
  <2>1. PICK x \in Int, y \in Int : x = Given(was) /\ y = n * was.rate
    BY <1>7
  <2> QED
    BY <1>2, <1>4, <1>7, <2>1, BooksInts
<1>11. RowAdded(credited, credited', Notes, Invoices, c, f)
  <2>1. credited \in [Notes -> [Invoices -> Nat]]
    BY <1>1 DEF ReceivablesShape
  <2>2. PICK old \in [Invoices -> Nat] : old = credited[c]
    BY <2>1
  <2>3. PICK new : new = [i \in Invoices |-> old[i] + f[i]]
    OBVIOUS
  <2>4. credited' = [credited EXCEPT ![c] = new]
    BY <2>2, <2>3 DEF ApplyCreditNote
  <2>5. new \in [Invoices -> Nat] /\ \A i \in Invoices : new[i] = old[i] + f[i]
    BY <2>2, <2>3
  <2>6. /\ credited' \in [Notes -> [Invoices -> Nat]] /\ credited'[c] = new
        /\ \A x \in Notes \ {c} : credited'[x] = credited[x]
    BY <2>1, <2>4, <2>5
  <2> QED
    BY <2>1, <2>2, <2>5, <2>6, ReceivablesFacts DEF RowAdded
<1>12. InvoicesSettled(f, "credited")
  <2>1. \A i \in Invoices : f[i] > 0 => invoice[i].status \in Open /\ f[i] <= invoice[i].due
    BY <1>4 DEF Allocatable
  <2>2. invoice' = [i \in Invoices |-> SettledBy(invoice[i], f[i], "credited")]
    <3>1. ASSUME NEW i \in Invoices
          PROVE  (IF i \in DOMAIN f /\ f[i] > 0 THEN Settled(invoice[i], f[i], "credited") ELSE invoice[i])
                 = SettledBy(invoice[i], f[i], "credited")
      BY DEF SettledBy
    <3> QED
      BY <1>4, <3>1 DEF InvoicesAfter
  <2>3. "credited" \in Columns
    BY DEF Columns
  <2> QED
    BY <2>1, <2>2, <2>3 DEF InvoicesSettled
<1>13. note' \in [Notes -> Credit] /\ note'[c] = row
  BY <1>1, <1>5, <1>7 DEF ReceivablesShape
<1>14. Spends(c, f)
  BY <1>2, <1>4, <1>7, <1>11, <1>13 DEF Spends
<1>15. /\ refunded' \in [Receipts \cup Notes -> Nat] /\ refunded'[c] = refunded[c] + 0
       /\ \A x \in (Receipts \cup Notes) \ {c} : refunded'[x] = refunded[x]
  BY <1>1, <1>4 DEF ReceivablesShape
<1>16. NoteMoves(c, row, f, 0)
  BY <1>2, <1>4, <1>5, <1>7, <1>9, <1>10, <1>12, <1>14, <1>15 DEF NoteMoves
<1> QED
  BY <1>16, NoteMovesKeeps

LEMMA VoidOrCreditKeeps ==
  ASSUME BooksInv, NEW i \in Invoices, NEW c \in Notes, VoidOrCreditInvoice(i, c)
  PROVE  BooksInv'
<1>1. /\ ReceivablesShape /\ NotesAgree /\ AccountsAgree /\ ReceivablesInv
  BY DEF BooksInv, ReceivablesInv
<1>2. PICK n \in Nat, rate \in Nat, was \in Row : n = invoice[i].gross /\ rate = Rate[i] /\ was = invoice[i]
  BY <1>1, FiguresFacts, RowFields DEF ReceivablesShape
<1>3. PICK row : row = [status |-> "POSTED", total |-> n, rate |-> rate, applied |-> n, available |-> 0]
  OBVIOUS
<1>4. /\ note[c].status = "none" /\ was.status = "POSTED" /\ n > 0 /\ n <= was.due
      /\ note' = [note EXCEPT ![c] = row]
      /\ invoice' = [invoice EXCEPT ![i] = Settled(was, n, "credited")]
      /\ credited' = [credited EXCEPT ![c][i] = n]
      /\ control' = control - n * rate
      /\ UNCHANGED <<receipt, received, refunded, advance>>
  <2>1. n \in 1..was.due /\ was.due \in Nat
    BY <1>2, RowFields DEF VoidOrCreditInvoice
  <2>2. n > 0 /\ n <= was.due
    BY <2>1
  <2> QED
    BY <1>2, <1>3, <2>2 DEF VoidOrCreditInvoice, Untouched
<1>5. /\ row \in Credit /\ row.status = "POSTED" /\ row.total = n /\ row.rate = rate
      /\ row.applied = n /\ row.available = 0
  BY <1>3 DEF Credit
<1>6. note[c].applied = 0
  BY <1>1, <1>4 DEF NotesAgree
<1>7. \A j \in Invoices : credited[c][j] = 0
  BY <1>1, <1>6, NothingSpent
<1>8. PICK g : g = [j \in Invoices |-> IF j = i THEN n ELSE 0]
  OBVIOUS
<1>9. g \in [Invoices -> Nat] /\ g[i] = n /\ \A j \in Invoices \ {i} : g[j] = 0
  BY <1>8
<1>10. Sum(g, Invoices) = n
  <2>1. {i} \in SUBSET Invoices /\ \A j \in Invoices : g[j] \in Int
    BY <1>9
  <2>2. Sum(g, Invoices) = Sum(g, {i})
    BY <1>9, <2>1, SumSubset, ReceivablesFacts
  <2>3. IsFiniteSet({i}) /\ IsFiniteSet({})
    BY FS_Singleton, FS_EmptySet
  <2>4. Sum(g, {i}) = g[i] + Sum(g, {i} \ {i})
    <3>1. \A j \in {i} : g[j] \in Int
      BY <1>9
    <3> QED
      BY <2>3, <3>1, SumRemove
  <2>5. {i} \ {i} = {} /\ Sum(g, {}) = 0
    BY <2>3, SumStep
  <2> QED
    BY <1>9, <2>2, <2>4, <2>5
<1>11. RowAdded(credited, credited', Notes, Invoices, c, g)
  <2>1. credited \in [Notes -> [Invoices -> Nat]]
    BY <1>1 DEF ReceivablesShape
  <2>2. PICK old \in [Invoices -> Nat] : old = credited[c]
    BY <2>1
  <2>3. PICK new : new = [old EXCEPT ![i] = n]
    OBVIOUS
  <2>4. credited' = [credited EXCEPT ![c] = new]
    BY <1>4, <2>1, <2>2, <2>3
  <2>5. new \in [Invoices -> Nat] /\ \A j \in Invoices : new[j] = old[j] + g[j]
    BY <1>7, <1>9, <2>2, <2>3
  <2>6. /\ credited' \in [Notes -> [Invoices -> Nat]] /\ credited'[c] = new
        /\ \A x \in Notes \ {c} : credited'[x] = credited[x]
    BY <2>1, <2>4, <2>5
  <2> QED
    BY <1>9, <2>1, <2>2, <2>5, <2>6, ReceivablesFacts DEF RowAdded
<1>12. InvoicesSettled(g, "credited")
  <2>1. \A j \in Invoices : g[j] > 0 => invoice[j].status \in Open /\ g[j] <= invoice[j].due
    BY <1>2, <1>4, <1>9 DEF Open
  <2>2. \A j \in Invoices \ {i} : SettledBy(invoice[j], g[j], "credited") = invoice[j]
    BY <1>9 DEF SettledBy
  <2>3. SettledBy(invoice[i], g[i], "credited") = Settled(was, n, "credited")
    BY <1>2, <1>4, <1>9 DEF SettledBy
  <2>4. PICK new : new = Settled(was, n, "credited")
    OBVIOUS
  <2>5. invoice' = [j \in Invoices |-> IF j = i THEN new ELSE invoice[j]]
    BY <1>1, <1>4, <2>4 DEF ReceivablesShape
  <2>6. \A j \in Invoices : (IF j = i THEN new ELSE invoice[j]) = SettledBy(invoice[j], g[j], "credited")
    BY <2>2, <2>3, <2>4
  <2>7. invoice' = [j \in Invoices |-> SettledBy(invoice[j], g[j], "credited")]
    BY <2>5, <2>6
  <2>8. "credited" \in Columns
    BY DEF Columns
  <2> QED
    BY <1>9, <2>1, <2>7, <2>8 DEF InvoicesSettled
<1>13. note' \in [Notes -> Credit] /\ note'[c] = row
  BY <1>1, <1>4, <1>5 DEF ReceivablesShape
<1>14. Spends(c, g)
  BY <1>4, <1>6, <1>11, <1>13 DEF Spends
<1>15. /\ refunded' \in [Receipts \cup Notes -> Nat] /\ refunded'[c] = refunded[c] + 0
       /\ \A x \in (Receipts \cup Notes) \ {c} : refunded'[x] = refunded[x]
  BY <1>1, <1>4 DEF ReceivablesShape
<1>16. control' = control - (Given(row) - Given(note[c])) - n * row.rate
  <2>1. 0 * rate = 0
    OBVIOUS
  <2>2. Given(row) = 0 /\ Given(note[c]) = 0
    BY <1>4, <1>5, <2>1 DEF Given
  <2> QED
    BY <1>4, <1>5, <2>2, BooksInts
<1>17. row.applied = note[c].applied + n + 0 /\ row.applied + row.available = row.total
  BY <1>5, <1>6
<1>18. NoteMoves(c, row, g, 0)
  BY <1>4, <1>5, <1>10, <1>12, <1>14, <1>15, <1>16, <1>17 DEF NoteMoves
<1> QED
  BY <1>18, NoteMovesKeeps

LEMMA BooksStand ==
  ASSUME BooksInv, UNCHANGED vars
  PROVE  BooksInv'
<1>1. /\ ReceivablesShape /\ InvoicesAgree /\ ReceiptsAgree /\ NotesAgree /\ AccountsAgree /\ ReceivablesInv
  BY DEF BooksInv, ReceivablesInv
<1>2. /\ invoice' = invoice /\ receipt' = receipt /\ note' = note /\ received' = received
      /\ credited' = credited /\ refunded' = refunded /\ control' = control /\ advance' = advance
  BY DEF vars
<1>3. ReceivablesShape'
  BY <1>1, <1>2 DEF ReceivablesShape
<1>4. InvoicesAgree' /\ Worths' = Worths
  <2>1. \A i \in Invoices : /\ RowAgrees(invoice'[i])
                            /\ invoice'[i].paid = Sum(ReceivedBy(i)', Receipts)
                            /\ invoice'[i].credited = Sum(CreditedBy(i)', Notes)
    BY <1>1, <1>2, RowsStand DEF InvoicesAgree
  <2> QED
    BY <1>2, <2>1 DEF InvoicesAgree, Worths
<1>5. ReceiptsAgree' /\ Helds' = Helds
  BY <1>1, <1>2, ReceiptsStand
<1>6. NotesAgree' /\ Standings' = Standings
  BY <1>1, <1>2, NotesStand
<1>7. AccountsAgree'
  BY <1>1, <1>2, <1>4, <1>5, <1>6 DEF AccountsAgree
<1> QED
  BY <1>3, <1>4, <1>5, <1>6, <1>7 DEF BooksInv, ReceivablesInv

LEMMA BooksStep == BooksInv /\ [Next]_vars => BooksInv'
<1> SUFFICES ASSUME BooksInv, [Next]_vars PROVE BooksInv'
  OBVIOUS
<1>1. ASSUME NEW i \in Invoices, NEW figures \in Figures,
             CreateInvoice(i, figures) \/ UpdateInvoice(i, figures)
      PROVE  BooksInv'
  BY <1>1, DraftKeeps
<1>2. ASSUME NEW i \in Invoices, PostInvoice(i) PROVE BooksInv'
  BY <1>2, PostKeeps
<1>3. ASSUME NEW i \in Invoices, NEW c \in Notes, VoidOrCreditInvoice(i, c) PROVE BooksInv'
  BY <1>3, VoidOrCreditKeeps
<1>4. ASSUME NEW i \in Invoices, NEW n \in 1..invoice[i].gross, CreateArWriteOff(i, n) PROVE BooksInv'
  BY <1>4, WriteOffKeeps
<1>5. ASSUME NEW r \in Receipts, NEW f \in Apportioned(ReceiptTargets, Amount[r]),
             CreateReceipt(r, f) \/ AllocateReceipt(r, f)
      PROVE  BooksInv'
  <2>1. f \in [ReceiptTargets -> Nat]
    BY RequestIs, FiguresFacts
  <2> QED
    BY <1>5, <2>1, CreateReceiptKeeps, AllocateReceiptKeeps
<1>6. ASSUME NEW r \in Receipts, CreateReceipt(r, [d \in ReceiptTargets |-> 0]) PROVE BooksInv'
  <2>1. [d \in ReceiptTargets |-> 0] \in [ReceiptTargets -> Nat]
    OBVIOUS
  <2> QED
    BY <1>6, <2>1, CreateReceiptKeeps
<1>7. ASSUME NEW r \in Receipts, NEW n \in 1..Amount[r], RefundReceipt(r, n) PROVE BooksInv'
  BY <1>7, RefundReceiptKeeps
<1>8. ASSUME NEW c \in Notes, NEW total \in NoteTotals, NEW rate \in NoteRates, CreateCreditNote(c, total, rate)
      PROVE  BooksInv'
  BY <1>8, CreateCreditNoteKeeps
<1>9. ASSUME NEW c \in Notes, PostCreditNote(c) PROVE BooksInv'
  BY <1>9, PostCreditNoteKeeps
<1>10. ASSUME NEW c \in Notes, NEW f \in Apportioned(Invoices, note[c].total), ApplyCreditNote(c, f)
       PROVE  BooksInv'
  <2>1. PICK n \in Nat : n = note[c].total
    BY CreditFields DEF BooksInv, ReceivablesInv, ReceivablesShape
  <2>2. f \in [Invoices -> Nat] /\ Sum(f, Invoices) \in 1..n
    BY <2>1, RequestIs
  <2>3. Sum(f, Invoices) > 0
    BY <2>1, <2>2
  <2> QED
    BY <1>10, <2>2, <2>3, ApplyCreditNoteKeeps
<1>11. ASSUME NEW c \in Notes, NEW n \in 1..note[c].total, RefundCreditNote(c, n) PROVE BooksInv'
  BY <1>11, RefundCreditNoteKeeps
<1>12. CASE UNCHANGED vars
  BY <1>12, BooksStand
<1> QED
  BY <1>1, <1>2, <1>3, <1>4, <1>5, <1>6, <1>7, <1>8, <1>9, <1>10, <1>11, <1>12 DEF Next

(* What the invariant says of the columns.                                  *)
LEMMA ColumnsImply == ReceivablesInv => SettlementAddsUp /\ CreditIsUsedOnce
<1> SUFFICES ASSUME ReceivablesInv PROVE SettlementAddsUp /\ CreditIsUsedOnce
  OBVIOUS
<1>1. ReceivablesShape /\ InvoicesAgree /\ ReceiptsAgree /\ NotesAgree
  BY DEF ReceivablesInv
<1>2. SettlementAddsUp
  <2>1. ASSUME NEW i \in Invoices
        PROVE  /\ invoice[i].paid = Sum([r \in Receipts |-> received[r][i]], Receipts)
               /\ invoice[i].credited = Sum([c \in Notes |-> credited[c][i]], Notes)
               /\ invoice[i].due = invoice[i].total - invoice[i].paid - invoice[i].credited - invoice[i].writtenOff
               /\ invoice[i].due >= 0
               /\ invoice[i].status \in Open \cup {"PAID"} =>
                    invoice[i].status = IF invoice[i].due = invoice[i].total THEN "POSTED"
                                        ELSE IF invoice[i].due > 0 THEN "PARTIALLY_PAID" ELSE "PAID"
    <3>1. invoice[i].due \in Nat
      BY <1>1, RowFields DEF ReceivablesShape
    <3>2. RowAgrees(invoice[i])
      BY <1>1 DEF InvoicesAgree
    <3>3. /\ invoice[i].paid = Sum([r \in Receipts |-> received[r][i]], Receipts)
          /\ invoice[i].credited = Sum([c \in Notes |-> credited[c][i]], Notes)
      BY <1>1, Zenon DEF InvoicesAgree, ReceivedBy, CreditedBy
    <3> QED
      BY <3>1, <3>2, <3>3 DEF RowAgrees, Posted
  <2> QED
    BY <2>1 DEF SettlementAddsUp
<1>3. ASSUME NEW r \in Receipts
      PROVE  /\ receipt[r].allocated = Sum(received[r], Documents) + refunded[r]
             /\ receipt[r].allocated + receipt[r].unapplied = Amount[r] /\ receipt[r].unapplied >= 0
  <2>1. receipt[r].unapplied \in Nat
    BY <1>1, FundsFields DEF ReceivablesShape
  <2> QED
    BY <1>1, <2>1 DEF ReceiptsAgree
<1>4. ASSUME NEW c \in Notes
      PROVE  /\ note[c].applied = Sum(credited[c], Invoices) + refunded[c]
                                  + Sum([r \in Receipts |-> received[r][c]], Receipts)
             /\ note[c].applied + note[c].available = note[c].total /\ note[c].available >= 0
  <2>1. note[c].available \in Nat
    BY <1>1, CreditFields DEF ReceivablesShape
  <2>2. note[c].applied = Sum(credited[c], Invoices) + refunded[c]
                          + Sum([r \in Receipts |-> received[r][c]], Receipts)
    BY <1>1, Zenon DEF NotesAgree, ReceivedBy
  <2> QED
    BY <1>1, <2>1, <2>2 DEF NotesAgree
<1> QED
  BY <1>2, <1>3, <1>4 DEF CreditIsUsedOnce

(* And of the accounts.                                                     *)
LEMMA AccountsImply == BooksInv => LedgerFollowsOpenItems
<1> SUFFICES ASSUME BooksInv PROVE LedgerFollowsOpenItems
  OBVIOUS
<1>1. ReceivablesShape /\ InvoicesAgree /\ AccountsAgree
  BY DEF BooksInv, ReceivablesInv
<1>2. \A i \in Invoices : /\ invoice[i] \in Row /\ RowAgrees(invoice[i]) /\ Rate[i] \in Nat
  BY <1>1, FiguresFacts DEF ReceivablesShape, InvoicesAgree
<1>3. PICK open, posted : open = InvoicesWith(Open) /\ posted = InvoicesWith(Open \cup {"PAID"})
  OBVIOUS
<1>4. /\ open \in SUBSET Invoices /\ posted \in SUBSET Invoices
      /\ \A i \in Invoices : (i \in open <=> invoice[i].status \in Open) /\ (i \in posted <=> invoice[i].status \in Posted)
  BY <1>3 DEF InvoicesWith, Posted
<1>5. PICK owed, off, p, q :
         /\ owed = [i \in open |-> invoice[i].due * Rate[i]]
         /\ off = [i \in posted |-> (invoice[i].gross - invoice[i].total) * Rate[i]]
         /\ p = [i \in Invoices |-> IF i \in open THEN owed[i] ELSE 0]
         /\ q = [i \in Invoices |-> IF i \in posted THEN off[i] ELSE 0]
  OBVIOUS
<1>6. Owed = Sum(owed, open) /\ Discounts = Sum(off, posted)
  BY <1>3, <1>5, Zenon DEF Owed, Discounts
<1>7. ASSUME NEW i \in Invoices
      PROVE  p[i] \in Int /\ q[i] \in Int /\ Worths[i] = p[i] + q[i]
  <2>1. PICK row \in Row, rate \in Nat : row = invoice[i] /\ rate = Rate[i] /\ RowAgrees(row)
    BY <1>2
  <2>2. row.due \in Nat /\ row.gross \in Nat /\ row.total \in Nat
    BY RowFields
  <2>3. PICK d \in Int, g \in Int : d = row.due /\ g = row.gross - row.total
    BY <2>2
  <2>4. d * rate \in Int /\ g * rate \in Int /\ (d + g) * rate = d * rate + g * rate
    BY Times
  <2>5. Worths[i] = IF row.status \in Posted THEN (row.due + row.gross - row.total) * rate ELSE 0
    BY <2>1 DEF Worths, Worth
  <2>6. row.due + row.gross - row.total = d + g
    BY <2>2, <2>3
  <2>7. /\ p[i] = IF row.status \in Open THEN d * rate ELSE 0
        /\ q[i] = IF row.status \in Posted THEN g * rate ELSE 0
    BY <1>4, <1>5, <2>1, <2>3
  <2>8. row.status \in Posted /\ row.status \notin Open => d = 0
    <3>1. row.status \in Posted /\ row.status \notin Open => row.status = "PAID"
      BY DEF Posted
    <3>2. row.status = "PAID" => ~(row.due > 0)
      BY <2>1 DEF RowAgrees, Posted
    <3> QED
      BY <2>2, <2>3, <3>1, <3>2
  <2>9. row.status \in Open => row.status \in Posted
    BY DEF Posted
  <2>10. 0 * rate = 0
    OBVIOUS
  <2>11. PICK x \in Int, y \in Int : x = d * rate /\ y = g * rate
    BY <2>4
  <2> QED
    BY <2>4, <2>5, <2>6, <2>7, <2>8, <2>9, <2>10, <2>11
<1>8. /\ Sum(Worths, Invoices) = Sum(p, Invoices) + Sum(q, Invoices)
      /\ Sum(p, Invoices) = Sum(owed, open) /\ Sum(q, Invoices) = Sum(off, posted)
  <2>1. PICK w : w = Worths
    OBVIOUS
  <2>2. Sum(w, Invoices) = Sum(p, Invoices) + Sum(q, Invoices)
    BY <1>7, <2>1, SumPlus, ReceivablesFacts
  <2>3. \A i \in Invoices : /\ p[i] = (IF i \in open THEN owed[i] ELSE 0)
                            /\ q[i] = (IF i \in posted THEN off[i] ELSE 0)
    BY <1>5
  <2>4. Sum(owed, open) = Sum(p, Invoices)
    BY <1>4, <1>7, <2>3, SumSome, ReceivablesFacts
  <2>5. Sum(off, posted) = Sum(q, Invoices)
    BY <1>4, <1>7, <2>3, SumSome, ReceivablesFacts
  <2> QED
    BY <2>1, <2>2, <2>4, <2>5
<1>9. PICK left, given, v, spent :
         /\ left = [c \in NotesPosted |-> note[c].available * note[c].rate]
         /\ given = [c \in Notes |-> Given(note[c])]
         /\ v = Standings /\ spent = [c \in Notes |-> LeftBehind(c)]
  OBVIOUS
<1>10. Creditable = Sum(given, Notes) /\ \A c \in Notes : given[c] \in Int
  <2>1. PICK some \in SUBSET Notes : some = NotesPosted
    BY DEF NotesPosted
  <2>2. \A c \in Notes : given[c] \in Int
    BY <1>1, <1>9, LeftIs
  <2>3. \A c \in Notes : given[c] = IF c \in some THEN left[c] ELSE 0
    BY <1>9, <2>1 DEF Given, NotesPosted
  <2>4. Sum(left, some) = Sum(given, Notes)
    BY <2>1, <2>2, <2>3, SumSome, ReceivablesFacts
  <2> QED
    BY <1>9, <2>1, <2>2, <2>4 DEF Creditable
<1>11. /\ Sum(given, Notes) = Sum(v, Notes) + Sum(spent, Notes)
       /\ Sum(v, Notes) \in Int /\ Sum(spent, Notes) \in Int /\ Sum(given, Notes) \in Int
  <2>1. \A c \in Notes : v[c] \in Int /\ spent[c] \in Int /\ given[c] = v[c] + spent[c]
    <3>1. ASSUME NEW c \in Notes
          PROVE  /\ Given(note[c]) \in Int /\ LeftBehind(c) \in Int /\ Standing(c) \in Int
                 /\ Standing(c) = Given(note[c]) - LeftBehind(c)
      BY <1>1, LeftIs DEF Standing
    <3>2. \A c \in Notes : v[c] = Standing(c) /\ spent[c] = LeftBehind(c) /\ given[c] = Given(note[c])
      BY <1>9 DEF Standings
    <3> QED
      BY <3>1, <3>2
  <2> QED
    BY <1>10, <2>1, SumPlus, SumInt, ReceivablesFacts
<1>12. control = Owed + Discounts - Creditable + Sum([c \in Notes |-> LeftBehind(c)], Notes)
  <2>1. Sum(p, Invoices) \in Int /\ Sum(q, Invoices) \in Int
    BY <1>7, SumInt, ReceivablesFacts
  <2>2. control = Sum(p, Invoices) + Sum(q, Invoices) - Sum(v, Notes)
    <3>1. control = Sum(Worths, Invoices) - Sum(Standings, Notes)
      BY <1>1 DEF AccountsAgree
    <3>2. Sum(Worths, Invoices) = Sum(p, Invoices) + Sum(q, Invoices)
      BY <1>8
    <3>3. v = Standings
      BY <1>9
    <3> QED
      BY <1>11, <2>1, <3>1, <3>2, <3>3
  <2>3. Sum(v, Notes) = Creditable - Sum(spent, Notes)
    BY <1>10, <1>11
  <2> QED
    BY <1>6, <1>8, <1>9, <1>10, <1>11, <2>1, <2>2, <2>3
<1>13. advance = Unapplied
  <2>1. PICK some, rest, held :
           /\ some \in SUBSET Receipts /\ some = ReceiptsPosted /\ rest = [r \in some |-> receipt[r].unapplied * Rate[r]] /\ held = Helds
    BY DEF ReceiptsPosted
  <2>2. \A r \in Receipts : held[r] \in Int
    <3>1. \A r \in Receipts : receipt[r] \in Funds /\ Rate[r] \in Nat
      BY <1>1, FiguresFacts DEF ReceivablesShape
    <3> QED
      BY <2>1, <3>1, HeldInt DEF Helds
  <2>3. \A r \in Receipts : held[r] = IF r \in some THEN rest[r] ELSE 0
    BY <2>1 DEF Helds, Held, ReceiptsPosted
  <2>4. Sum(rest, some) = Sum(held, Receipts)
    BY <2>1, <2>2, <2>3, SumSome, ReceivablesFacts
  <2> QED
    BY <1>1, <2>1, <2>4 DEF Unapplied, AccountsAgree
<1> QED
  BY <1>12, <1>13 DEF LedgerFollowsOpenItems

(* For any invoices, receipts and notes, any figures, amounts and rates,    *)
(* and whatever receipts are made to settle: columns, rows and status of    *)
(* every document agree, no money and no credit is used twice, and the two  *)
(* accounts hold what the open items say, to the last of what discounts     *)
(* and notes leave behind.                                                  *)
THEOREM ReceivablesAgree == SubledgerSpec => []ReceivablesAddUp
<1>1. BooksInv => ReceivablesAddUp
  BY ColumnsImply, AccountsImply DEF ReceivablesAddUp, BooksInv
<1> QED
  BY <1>1, BooksInit, BooksStep, OnlyReceivables, PTL DEF SubledgerSpec

(* Columns, balances and statuses of receivables keep their types; what is  *)
(* owed, unapplied or available never falls below nothing.                  *)
THEOREM ReceivablesTypes == SubledgerSpec => []TypeOK
<1>1. BooksInv => TypeOK
  BY BooksInts DEF BooksInv, ReceivablesInv, ReceivablesShape, TypeOK, Row, Funds, Credit, Posted
<1> QED
  BY <1>1, BooksInit, BooksStep, OnlyReceivables, PTL DEF SubledgerSpec
=============================================================================

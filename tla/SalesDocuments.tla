---------------------------- MODULE SalesDocuments ----------------------------
(***************************************************************************)
(* What stands before and after an invoice is posted: quotes and what they *)
(* become, orders and how much of them is invoiced, and the submission of  *)
(* a posted invoice to a government provider (sales.service, the drafting  *)
(* half of ar.service).  Every handler is one transaction that locks the   *)
(* document it changes.                                                    *)
(*                                                                         *)
(* A quote's EXPIRED is never stored: the update and the error that        *)
(* reports it belong to one transaction.  Nothing sets SENT or             *)
(* APPROVAL_PENDING, and nothing cancels an order.                         *)
(***************************************************************************)
EXTENDS Integers, FiniteSetsExt

CONSTANTS
  Quotes, Orders, Invoices,
  Ordered,         \* quantity of an order's line
  Quantities,      \* what a client may invoice of an order's line
  Recognised,      \* invoices whose provider enters what comes under one key once (external)
  Attempts         \* bound on the calls of the provider, all invoices together

None == "none"

(* A document's key names nothing else; a quantity is not negative.         *)
OrdersAssumption ==
  /\ IsFiniteSet(Invoices) /\ Orders \cap Invoices = {}
  /\ None \notin Quotes \cup Orders \cup Invoices
  /\ Ordered \in [Orders -> Nat] /\ Quantities \subseteq Nat

VARIABLES
  lapsed,      \* quotes whose valid_until has passed
  quote,       \* status, and the document it became
  order,       \* status, the quote named by it, quantity_invoiced
  invoice,     \* status, the quote it was made from, the quantity of each order's line on it
  einvoice,    \* einvoice_submissions: status and attempts, by invoice
  sending,     \* per invoice, the provider's answer in the transaction that is still open
  lost,        \* per invoice, how often such a transaction rolled back though the provider took it
  taken        \* per invoice, how often the provider entered it (external)

vars == <<lapsed, quote, order, invoice, einvoice, sending, lost, taken>>

Sum(f, S) == MapThenSumSet(LAMBDA x : f[x], S)
NoInvoice == [status |-> None, quote |-> None, lines |-> [o \in Orders |-> 0]]

Init ==
  /\ lapsed = {}
  /\ quote = [q \in Quotes |-> [status |-> None, became |-> None]]
  /\ order = [o \in Orders |-> [status |-> None, quote |-> None, invoiced |-> 0]]
  /\ invoice = [i \in Invoices |-> NoInvoice]
  /\ einvoice = [i \in Invoices |-> [status |-> None, attempts |-> 0]]
  /\ sending = [i \in Invoices |-> None]
  /\ lost = [i \in Invoices |-> 0] /\ taken = [i \in Invoices |-> 0]
-----------------------------------------------------------------------------
Lapse(q) ==   \* a day passes; once a quote is accepted, nothing asks for its date
  /\ quote[q].status \in {None, "DRAFT"} /\ q \notin lapsed /\ lapsed' = lapsed \cup {q}
  /\ UNCHANGED <<quote, order, invoice, einvoice, sending, lost, taken>>

CreateQuote(q) ==
  /\ quote[q].status = None
  /\ quote' = [quote EXCEPT ![q].status = "DRAFT"]
  /\ UNCHANGED <<lapsed, order, invoice, einvoice, sending, lost, taken>>

AcceptQuote(q) ==
  /\ quote[q].status = "DRAFT" /\ q \notin lapsed
  /\ quote' = [quote EXCEPT ![q].status = "ACCEPTED"]
  /\ UNCHANGED <<lapsed, order, invoice, einvoice, sending, lost, taken>>

Convertible(q) == quote[q].status = "ACCEPTED"

MarkQuoteConverted(q, document) ==
  quote' = [quote EXCEPT ![q] = [status |-> "CONVERTED", became |-> document]]

ConvertQuoteToOrder(q, o) ==
  /\ Convertible(q) /\ order[o].status = None
  /\ order' = [order EXCEPT ![o] = [status |-> "DRAFT", quote |-> q, invoiced |-> 0]]
  /\ MarkQuoteConverted(q, o)
  /\ UNCHANGED <<lapsed, invoice, einvoice, sending, lost, taken>>

ConvertQuoteToInvoice(q, i) ==   \* its lines name no order
  /\ Convertible(q) /\ invoice[i].status = None
  /\ invoice' = [invoice EXCEPT ![i] = [NoInvoice EXCEPT !.status = "DRAFT", !.quote = q]]
  /\ MarkQuoteConverted(q, i)
  /\ UNCHANGED <<lapsed, order, einvoice, sending, lost, taken>>

(* The quote a new order names is stored unread: neither its status nor     *)
(* what it became is looked at.                                             *)
CreateSalesOrder(o, q) ==
  /\ order[o].status = None
  /\ q # None => quote[q].status # None
  /\ order' = [order EXCEPT ![o] = [status |-> "DRAFT", quote |-> q, invoiced |-> 0]]
  /\ UNCHANGED <<lapsed, quote, invoice, einvoice, sending, lost, taken>>

ConfirmSalesOrder(o) ==
  /\ order[o].status = "DRAFT"
  /\ order' = [order EXCEPT ![o].status = "CONFIRMED"]
  /\ UNCHANGED <<lapsed, quote, invoice, einvoice, sending, lost, taken>>
-----------------------------------------------------------------------------
(* Writing an invoice's lines adds to the orders what they invoice of them, *)
(* confirmed or not.  The table bounds it by what was ordered.              *)
WithInvoiced(change) == [o \in Orders |-> [order[o] EXCEPT !.invoiced = @ + change[o]]]

Writable(lines, after) ==
  \A o \in Orders : lines[o] > 0 => order[o].status # None /\ after[o].invoiced <= Ordered[o]

CreateInvoice(i, lines) ==
  /\ invoice[i].status = None
  /\ order' = WithInvoiced(lines) /\ Writable(lines, order')
  /\ invoice' = [invoice EXCEPT ![i] = [status |-> "DRAFT", quote |-> None, lines |-> lines]]
  /\ UNCHANGED <<lapsed, quote, einvoice, sending, lost, taken>>

(* An edit takes the old lines back from the orders, then writes the new.   *)
Unwound(i, lines) == [o \in Orders |-> lines[o] - invoice[i].lines[o]]

UpdateInvoice(i, lines) ==
  /\ invoice[i].status = "DRAFT"
  /\ order' = WithInvoiced(Unwound(i, lines)) /\ Writable(lines, order')
  /\ invoice' = [invoice EXCEPT ![i].lines = lines]
  /\ UNCHANGED <<lapsed, quote, einvoice, sending, lost, taken>>

PostInvoice(i) ==
  /\ invoice[i].status = "DRAFT"
  /\ invoice' = [invoice EXCEPT ![i].status = "POSTED"]
  /\ UNCHANGED <<lapsed, quote, order, einvoice, sending, lost, taken>>

(* Credited in full by a note: the orders are not given back what it took.  *)
VoidOrCreditInvoice(i) ==
  /\ invoice[i].status = "POSTED"
  /\ invoice' = [invoice EXCEPT ![i].status = "PAID"]
  /\ UNCHANGED <<lapsed, quote, order, einvoice, sending, lost, taken>>
-----------------------------------------------------------------------------
(* One row per invoice and provider; a row the provider took is not sent    *)
(* again.  The call is made in the middle of the transaction, under the     *)
(* invoice's key, and what it answers is written, announced, audited and    *)
(* committed after it.  The row's lock, or its unique key while it is new,  *)
(* keeps a second call of the same invoice out until then.                  *)
Took == {"SUBMITTED", "ACCEPTED"}

Sendable_Again(i) ==   \* mutant: a submission on its way is sent again
  /\ invoice[i].status \in {"POSTED", "PAID"}
  /\ einvoice[i].status # "ACCEPTED" /\ sending[i] = None
Sendable(i) ==
  /\ invoice[i].status \in {"POSTED", "PAID"}
  /\ einvoice[i].status \notin Took /\ sending[i] = None

Called(i) == einvoice[i].attempts + lost[i] + (IF sending[i] = None THEN 0 ELSE 1)

(* A provider that recognises the key answers for what it has entered.      *)
Entered(i) == i \in Recognised /\ taken[i] > 0
Entries(i, answer) == IF answer \in Took /\ ~Entered(i) THEN 1 ELSE 0

CallProvider(i, answer) ==
  /\ Sendable(i) /\ Sum([j \in Invoices |-> Called(j)], Invoices) < Attempts
  /\ Entered(i) => answer \in Took
  /\ taken' = [taken EXCEPT ![i] = @ + Entries(i, answer)]
  /\ sending' = [sending EXCEPT ![i] = answer]
  /\ UNCHANGED <<lapsed, quote, order, invoice, einvoice, lost>>

SubmitEInvoice(i) ==   \* the row, its event and its audit entry commit
  /\ sending[i] # None /\ sending' = [sending EXCEPT ![i] = None]
  /\ einvoice' = [einvoice EXCEPT ![i] = [status |-> sending[i], attempts |-> @.attempts + 1]]
  /\ UNCHANGED <<lapsed, quote, order, invoice, lost, taken>>

(* A later statement fails, the commit does, or the process dies: the row   *)
(* is as it was, and a retry finds nothing of the call.                     *)
RollBack(i) ==
  /\ sending[i] # None /\ sending' = [sending EXCEPT ![i] = None]
  /\ lost' = IF sending[i] \in Took THEN [lost EXCEPT ![i] = @ + 1] ELSE lost
  /\ UNCHANGED <<lapsed, quote, order, invoice, einvoice, taken>>

NotTransmitted(i) ==   \* no provider is configured: the row stays PENDING
  /\ Sendable(i) /\ einvoice[i].status \in {None, "PENDING"}
  /\ einvoice' = [einvoice EXCEPT ![i].status = "PENDING"]
  /\ UNCHANGED <<lapsed, quote, order, invoice, sending, lost, taken>>

Next ==
  \/ \E q \in Quotes : \/ Lapse(q) \/ CreateQuote(q) \/ AcceptQuote(q)
                       \/ \E o \in Orders : ConvertQuoteToOrder(q, o)
                       \/ \E i \in Invoices : ConvertQuoteToInvoice(q, i)
  \/ \E o \in Orders : \/ \E q \in Quotes \cup {None} : CreateSalesOrder(o, q)
                       \/ ConfirmSalesOrder(o)
  \/ \E i \in Invoices :
       \/ \E lines \in [Orders -> Quantities] : CreateInvoice(i, lines) \/ UpdateInvoice(i, lines)
       \/ PostInvoice(i) \/ VoidOrCreditInvoice(i)
       \/ \E answer \in Took \cup {"REJECTED"} : CallProvider(i, answer)
       \/ SubmitEInvoice(i) \/ RollBack(i) \/ NotTransmitted(i)

Spec == Init /\ [][Next]_vars
-----------------------------------------------------------------------------
(* However often drafts are edited, posted and credited, what an order says *)
(* is invoiced of it is what the invoices hold, and never more than was     *)
(* ordered.                                                                 *)
OrdersKnowWhatIsInvoiced ==
  \A o \in Orders :
    /\ order[o].invoiced = Sum([i \in Invoices |-> invoice[i].lines[o]], Invoices)
    /\ order[o].invoiced <= Ordered[o]

(* "Converting it again would duplicate the customer's order": a quote is   *)
(* converted into one document, which exists, and which it names; whatever  *)
(* order names a quote that it did not become was opened by hand.           *)
QuoteBecomesOneDocument ==
  \A q \in Quotes :
    LET orders == {o \in Orders : quote[q].became = o}
        invoices == {i \in Invoices : invoice[i].quote = q}
    IN /\ Cardinality(invoices) <= 1
       /\ quote[q].status = "CONVERTED" =>
            \/ invoices = {quote[q].became}
            \/ invoices = {} /\ orders = {quote[q].became}
                 /\ \A o \in orders : order[o].status # None /\ order[o].quote = q

(* What the rows say of the provider, whatever was refused, lost or not     *)
(* transmitted before: what is recorded as taken was entered, and an        *)
(* invoice is entered once, and once more for each transaction that was     *)
(* lost after the provider took it.  Where the provider recognises the key  *)
(* it is entered once, come what may.                                       *)
SubmittedOnce ==
  \A i \in Invoices :
    LET known == {einvoice[i].status, sending[i]} \cap Took # {}
    IN /\ known => taken[i] > 0
       /\ taken[i] <= lost[i] + (IF known THEN 1 ELSE 0)
       /\ i \in Recognised => taken[i] <= 1

(* "Retry must never cause a duplicate government submission" (refuted: the *)
(* provider took the invoice, the transaction rolled back, and it is sent   *)
(* again; only the provider could tell).                                    *)
NeverSubmittedTwice == \A i \in Invoices : taken[i] <= 1

(* A quote is ordered once (refuted: an order opened by hand may name a     *)
(* quote that has become another).                                          *)
OrderedOnce == \A q \in Quotes : Cardinality({o \in Orders : order[o].quote = q}) <= 1
=============================================================================

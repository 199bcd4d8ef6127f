----------------------------- MODULE Receivables -----------------------------
(***************************************************************************)
(* Accounts receivable: invoices, receipts, credit notes, write-offs and   *)
(* refunds of one legal entity, and the journal lines each posts to the    *)
(* receivables control account and to the customer advance account         *)
(* (ar.service, the credit note half of sales.service).                    *)
(*                                                                         *)
(* Documents are in one foreign currency, each booked at a rate of its     *)
(* own; the accounts are in base currency.  A handler is one transaction   *)
(* that locks what it reads, so it is one step.  An invoice can be neither *)
(* approved nor voided as a draft: the number it still lacks is required   *)
(* of both statuses, and the database refuses the update.                  *)
(***************************************************************************)
EXTENDS Sums

CONSTANTS
  Invoices, Receipts, Notes, Customers,
  CustomerOf,      \* of an invoice or a credit note
  Figures,         \* what an invoice's lines and document discount may come to
  NoteTotals,      \* what a manual credit note's lines may come to
  NoteRates,       \* the rates it may be booked at
  Amount,          \* customer_receipts.amount
  Rate,            \* exchange_rate of an invoice or a receipt
  Limit,           \* contacts.credit_limit, 0 for none
  ReceiptTargets   \* the documents that clients name in receipt allocations

Documents == Invoices \cup Notes

(* A document's key names nothing else, and quantities, prices and totals   *)
(* are not negative.                                                        *)
ASSUME DocumentsAssumption ==
  /\ IsFiniteSet(Invoices) /\ IsFiniteSet(Receipts) /\ IsFiniteSet(Notes)
  /\ Invoices \cap Notes = {} /\ Receipts \cap Notes = {}
  /\ ReceiptTargets \subseteq Documents

ASSUME FiguresAssumption ==
  /\ \A f \in Figures : f.gross \in Nat /\ f.discount \in 0..f.gross
  /\ NoteTotals \subseteq Nat /\ NoteRates \subseteq Nat
  /\ Amount \in [Receipts -> Nat] /\ Rate \in [Invoices \cup Receipts -> Nat]

VARIABLES
  invoice,    \* invoices: status, figures and settlement columns
  receipt,    \* customer_receipts
  note,       \* credit_notes
  received,   \* receipt_allocations, summed per receipt and document
  credited,   \* credit_note_applications, summed per note and invoice
  refunded,   \* customer_refunds, summed per receipt or note
  control,    \* debits less credits of the receivables control account, in base
  advance     \* credits less debits of the customer advance account, in base

vars == <<invoice, receipt, note, received, credited, refunded, control, advance>>

Open == {"POSTED", "PARTIALLY_PAID"}
Apportioned(S, n) == {f \in [S -> 0..n] : Sum(f, S) \in 1..n}   \* what a request may ask for

NoInvoice == [status |-> "none", gross |-> 0, total |-> 0,
              paid |-> 0, credited |-> 0, writtenOff |-> 0, due |-> 0]
NoNote == [status |-> "none", total |-> 0, rate |-> 1, applied |-> 0, available |-> 0]

Init ==
  /\ invoice = [i \in Invoices |-> NoInvoice]
  /\ receipt = [r \in Receipts |-> [status |-> "none", allocated |-> 0, unapplied |-> Amount[r]]]
  /\ note = [c \in Notes |-> NoNote]
  /\ received = [r \in Receipts |-> [d \in Documents |-> 0]]
  /\ credited = [c \in Notes |-> [i \in Invoices |-> 0]]
  /\ refunded = [x \in Receipts \cup Notes |-> 0]
  /\ control = 0 /\ advance = 0
-----------------------------------------------------------------------------
(* A draft is refused when it would take the customer's posted exposure     *)
(* beyond the limit; other drafts are not looked at, and posting does not   *)
(* ask again.                                                               *)
Exposure(k) == LET open == {i \in Invoices : CustomerOf[i] = k /\ invoice[i].status \in Open}
               IN Sum([i \in open |-> invoice[i].due], open)
WithinLimit(i, total) == Limit = 0 \/ Exposure(CustomerOf[i]) + total <= Limit

(* The document discount lowers the total and leaves the lines alone.       *)
Draft(figures) ==
  [NoInvoice EXCEPT !.status = "DRAFT", !.gross = figures.gross,
                    !.total = figures.gross - figures.discount,
                    !.due = figures.gross - figures.discount]

CreateInvoice(i, figures) ==
  /\ invoice[i].status = "none"
  /\ WithinLimit(i, Draft(figures).total)
  /\ invoice' = [invoice EXCEPT ![i] = Draft(figures)]
  /\ UNCHANGED <<receipt, note, received, credited, refunded, control, advance>>

UpdateInvoice(i, figures) ==
  /\ invoice[i].status = "DRAFT"
  /\ WithinLimit(i, Draft(figures).total)
  /\ invoice' = [invoice EXCEPT ![i] = Draft(figures)]
  /\ UNCHANGED <<receipt, note, received, credited, refunded, control, advance>>

(* The journal is calculated again from the stored lines.                   *)
PostInvoice(i) ==
  /\ invoice[i].status = "DRAFT"
  /\ invoice' = [invoice EXCEPT ![i].status = "POSTED"]
  /\ control' = control + invoice[i].gross * Rate[i]
  /\ UNCHANGED <<receipt, note, received, credited, refunded, advance>>
-----------------------------------------------------------------------------
(* The allocation protocol: open documents only, none beyond what it owes   *)
(* or has left.                                                             *)
Allocatable(f) ==
  \A d \in DOMAIN f : f[d] > 0 =>
    IF d \in Invoices THEN invoice[d].status \in Open /\ f[d] <= invoice[d].due
    ELSE note[d].status = "POSTED" /\ f[d] <= note[d].available

Settled(row, n, column) ==   \* applyToTarget on an invoice
  [row EXCEPT ![column] = @ + n, !.due = @ - n,
              !.status = IF row.due = n THEN "PAID" ELSE "PARTIALLY_PAID"]

Drawn(row, n) == [row EXCEPT !.applied = @ + n, !.available = @ - n]

InvoicesAfter(f, column) ==
  [i \in Invoices |-> IF i \in DOMAIN f /\ f[i] > 0 THEN Settled(invoice[i], f[i], column)
                      ELSE invoice[i]]
NotesAfter(f) == [c \in Notes |-> IF c \in DOMAIN f /\ f[c] > 0 THEN Drawn(note[c], f[c]) ELSE note[c]]

(* What the control account gives back: each document at the rate it was    *)
(* booked at, the difference to the receipt's rate being realized.          *)
AtBookedRates(f) ==
  LET rate(d) == IF d \in Invoices THEN Rate[d] ELSE note[d].rate
  IN Sum([d \in DOMAIN f |-> f[d] * rate(d)], DOMAIN f)

ReceivedAfter(r, f) ==
  [received EXCEPT ![r] = [d \in Documents |-> @[d] + (IF d \in DOMAIN f THEN f[d] ELSE 0)]]

(* Recorded and posted at once: Cr control with what is allocated, Cr       *)
(* advance with the rest.                                                   *)
CreateReceipt(r, f) ==
  LET n == Sum(f, DOMAIN f) IN
    /\ receipt[r].status = "none"
    /\ Allocatable(f) /\ n <= Amount[r]
    /\ invoice' = InvoicesAfter(f, "paid") /\ note' = NotesAfter(f)
    /\ received' = ReceivedAfter(r, f)
    /\ receipt' = [receipt EXCEPT ![r] = [status |-> "POSTED", allocated |-> n,
                                          unapplied |-> Amount[r] - n]]
    /\ control' = control - AtBookedRates(f)
    /\ advance' = advance + (Amount[r] - n) * Rate[r]
    /\ UNCHANGED <<credited, refunded>>

(* Dr advance, Cr control.  Neither customer nor entity is compared.        *)
AllocateReceipt(r, f) ==
  LET n == Sum(f, DOMAIN f) IN
    /\ receipt[r].status = "POSTED"
    /\ Allocatable(f) /\ n <= receipt[r].unapplied
    /\ invoice' = InvoicesAfter(f, "paid") /\ note' = NotesAfter(f)
    /\ received' = ReceivedAfter(r, f)
    /\ receipt' = [receipt EXCEPT ![r].allocated = @ + n, ![r].unapplied = @ - n]
    /\ control' = control - AtBookedRates(f)
    /\ advance' = advance - n * Rate[r]
    /\ UNCHANGED <<credited, refunded>>
-----------------------------------------------------------------------------
CreateCreditNote(c, total, rate) ==
  /\ note[c].status = "none"
  /\ note' = [note EXCEPT ![c] = [NoNote EXCEPT !.status = "DRAFT", !.total = total,
                                                !.rate = rate, !.available = total]]
  /\ UNCHANGED <<invoice, receipt, received, credited, refunded, control, advance>>

PostCreditNote(c) ==   \* recalculated, and refused unless it comes to the drafted total
  /\ note[c].status = "DRAFT"
  /\ note' = [note EXCEPT ![c].status = "POSTED"]
  /\ control' = control - note[c].total * note[c].rate
  /\ UNCHANGED <<invoice, receipt, received, credited, refunded, advance>>

(* Invoices of the note's customer only; no journal.                        *)
ApplyCreditNote(c, f) ==
  LET n == Sum(f, DOMAIN f) IN
    /\ note[c].status = "POSTED"
    /\ \A i \in Invoices : f[i] > 0 => CustomerOf[i] = CustomerOf[c]
    /\ Allocatable(f) /\ n <= note[c].available
    /\ invoice' = InvoicesAfter(f, "credited")
    /\ credited' = [credited EXCEPT ![c] = [i \in Invoices |-> @[i] + f[i]]]
    /\ note' = [note EXCEPT ![c] = Drawn(@, n)]
    /\ UNCHANGED <<receipt, received, refunded, control, advance>>

(* A posted invoice nothing was settled of is credited in full by a note    *)
(* that is made, posted and applied at once.                                *)
Untouched(i) == /\ invoice[i].status = "POSTED"
                /\ invoice[i].paid = 0 /\ invoice[i].credited = 0 /\ invoice[i].writtenOff = 0

VoidOrCreditInvoice(i, c) ==
  LET n == invoice[i].gross IN
    /\ note[c].status = "none" /\ CustomerOf[c] = CustomerOf[i]
    /\ Untouched(i) /\ n \in 1..invoice[i].due
    /\ note' = [note EXCEPT ![c] = [status |-> "POSTED", total |-> n, rate |-> Rate[i],
                                    applied |-> n, available |-> 0]]
    /\ invoice' = [invoice EXCEPT ![i] = Settled(@, n, "credited")]
    /\ credited' = [credited EXCEPT ![c][i] = n]
    /\ control' = control - n * Rate[i]
    /\ UNCHANGED <<receipt, received, refunded, advance>>

CreateArWriteOff(i, n) ==   \* Dr bad debt, Cr control at the invoice's rate
  /\ invoice[i].status \in Open /\ n <= invoice[i].due
  /\ invoice' = [invoice EXCEPT ![i] = Settled(@, n, "writtenOff")]
  /\ control' = control - n * Rate[i]
  /\ UNCHANGED <<receipt, note, received, credited, refunded, advance>>

(* Credit paid out leaves the account that holds it: the control account    *)
(* for a note, the advance account for a receipt.                           *)
RefundCreditNote(c, n) ==
  /\ note[c].status = "POSTED" /\ n <= note[c].available
  /\ note' = [note EXCEPT ![c] = Drawn(@, n)]
  /\ refunded' = [refunded EXCEPT ![c] = @ + n]
  /\ control' = control + n * note[c].rate
  /\ UNCHANGED <<invoice, receipt, received, credited, advance>>

RefundReceipt_Twice(r, n) ==   \* mutant: the receipt's columns are left as they were
  /\ receipt[r].status = "POSTED" /\ n <= receipt[r].unapplied
  /\ refunded' = [refunded EXCEPT ![r] = @ + n]
  /\ advance' = advance - n * Rate[r]
  /\ UNCHANGED <<invoice, receipt, note, received, credited, control>>

RefundReceipt(r, n) ==
  /\ receipt[r].status = "POSTED" /\ n <= receipt[r].unapplied
  /\ receipt' = [receipt EXCEPT ![r].allocated = @ + n, ![r].unapplied = @ - n]
  /\ refunded' = [refunded EXCEPT ![r] = @ + n]
  /\ advance' = advance - n * Rate[r]
  /\ UNCHANGED <<invoice, note, received, credited, control>>

Next ==
  \/ \E i \in Invoices :
       \/ \E figures \in Figures : CreateInvoice(i, figures) \/ UpdateInvoice(i, figures)
       \/ PostInvoice(i)
       \/ \E c \in Notes : VoidOrCreditInvoice(i, c)
       \/ \E n \in 1..invoice[i].gross : CreateArWriteOff(i, n)
  \/ \E r \in Receipts :
       \/ \E f \in Apportioned(ReceiptTargets, Amount[r]) : CreateReceipt(r, f) \/ AllocateReceipt(r, f)
       \/ CreateReceipt(r, [d \in ReceiptTargets |-> 0])
       \/ \E n \in 1..Amount[r] : RefundReceipt(r, n)
  \/ \E c \in Notes :
       \/ \E total \in NoteTotals, rate \in NoteRates : CreateCreditNote(c, total, rate)
       \/ PostCreditNote(c)
       \/ \E f \in Apportioned(Invoices, note[c].total) : ApplyCreditNote(c, f)
       \/ \E n \in 1..note[c].total : RefundCreditNote(c, n)

Spec == Init /\ [][Next]_vars
-----------------------------------------------------------------------------
TypeOK ==
  /\ invoice \in [Invoices -> [status : {"none", "DRAFT", "PAID"} \cup Open, gross : Nat, total : Nat,
                               paid : Nat, credited : Nat, writtenOff : Nat, due : Nat]]
  /\ receipt \in [Receipts -> [status : {"none", "POSTED"}, allocated : Nat, unapplied : Nat]]
  /\ note \in [Notes -> [status : {"none", "DRAFT", "POSTED"}, total : Nat, rate : Nat,
                         applied : Nat, available : Nat]]
  /\ received \in [Receipts -> [Documents -> Nat]]
  /\ credited \in [Notes -> [Invoices -> Nat]]
  /\ refunded \in [Receipts \cup Notes -> Nat]
  /\ control \in Int /\ advance \in Int

(* Every way of settling an invoice, taken together: the columns are the    *)
(* sums of the rows behind them, what is due is the rest and never less     *)
(* than nothing, and the status says how much that is.                      *)
SettlementAddsUp ==
  \A i \in Invoices : LET row == invoice[i] IN
    /\ row.paid = Sum([r \in Receipts |-> received[r][i]], Receipts)
    /\ row.credited = Sum([c \in Notes |-> credited[c][i]], Notes)
    /\ row.due = row.total - row.paid - row.credited - row.writtenOff /\ row.due >= 0
    /\ row.status \in Open \cup {"PAID"} =>
         row.status = IF row.due = row.total THEN "POSTED"
                      ELSE IF row.due > 0 THEN "PARTIALLY_PAID" ELSE "PAID"

(* Money or credit is used once: what a receipt or a note has settled,      *)
(* together with what was refunded of it, is what it no longer has, and     *)
(* never more than it had.                                                  *)
CreditIsUsedOnce ==
  /\ \A r \in Receipts :
       /\ receipt[r].allocated = Sum(received[r], Documents) + refunded[r]
       /\ receipt[r].allocated + receipt[r].unapplied = Amount[r] /\ receipt[r].unapplied >= 0
  /\ \A c \in Notes :
       /\ note[c].applied = Sum(credited[c], Invoices) + refunded[c]
                            + Sum([r \in Receipts |-> received[r][c]], Receipts)
       /\ note[c].applied + note[c].available = note[c].total /\ note[c].available >= 0

(* The two sides reconcile compares, in base currency: the control account  *)
(* is what open invoices still owe less what posted notes still have to     *)
(* give, each at the rate it was booked at, what document discounts took    *)
(* off the totals of posted invoices and off no journal, and what settling  *)
(* with a note leaves behind: applied to an invoice of another rate, the    *)
(* difference; settled by a receipt, which credits the account once more,   *)
(* all of it twice.  The advance account is what receipts have not applied, *)
(* at their rates.                                                          *)
InvoicesWith(statuses) == {i \in Invoices : invoice[i].status \in statuses}
NotesPosted == {c \in Notes : note[c].status = "POSTED"}
ReceiptsPosted == {r \in Receipts : receipt[r].status = "POSTED"}

Owed == LET open == InvoicesWith(Open) IN Sum([i \in open |-> invoice[i].due * Rate[i]], open)
Discounts == LET posted == InvoicesWith(Open \cup {"PAID"})
             IN Sum([i \in posted |-> (invoice[i].gross - invoice[i].total) * Rate[i]], posted)
Creditable == Sum([c \in NotesPosted |-> note[c].available * note[c].rate], NotesPosted)
Unapplied == Sum([r \in ReceiptsPosted |-> receipt[r].unapplied * Rate[r]], ReceiptsPosted)

LeftBehind(c) ==
  LET rate == note[c].rate
  IN Sum([i \in Invoices |-> credited[c][i] * Rate[i]], Invoices) - Sum(credited[c], Invoices) * rate
     - 2 * (Sum([r \in Receipts |-> received[r][c]], Receipts) * rate)

LedgerFollowsOpenItems ==
  /\ control = Owed + Discounts - Creditable + Sum([c \in Notes |-> LeftBehind(c)], Notes)
  /\ advance = Unapplied

(* A posted invoice's total is what its own journal says it is (refuted: a  *)
(* document discount lowers the total and not the journal).                 *)
TotalIsJournal ==
  \A i \in Invoices : invoice[i].status \in Open \cup {"PAID"} => invoice[i].total = invoice[i].gross

(* A customer's posted exposure stays within the limit (refuted: two drafts *)
(* are each held against what is posted, then both posted).                 *)
WithinCreditLimit == \A k \in Customers : Limit > 0 => Exposure(k) <= Limit
=============================================================================

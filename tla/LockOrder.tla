----------------------------- MODULE LockOrder -----------------------------
(***************************************************************************)
(* The locks the document handlers of the subledger take, in the order in  *)
(* which their statements take them (ADR-0004).  A handler is one database *)
(* transaction: it takes row locks one after the other and keeps them all  *)
(* until COMMIT or ROLLBACK.  What the handlers do to the rows is left     *)
(* out here; only who waits for whom is kept.                              *)
(*                                                                         *)
(* Documents are natural numbers, in the order of their ids (uuidv7).  The *)
(* other resources are one row each: the number sequence of a document     *)
(* type, the journal sequence of the book, and the advisory lock under     *)
(* which the tenant's audit chain is extended.                             *)
(***************************************************************************)
EXTENDS Naturals, Sequences, SequencesExt

CONSTANTS
  Sessions,    \* transactions that may run at the same time
  Requests     \* the requests they may serve: [handler, source, targets], the
               \* targets of each posting as the request lists them

VARIABLES
  serving,  \* per session: the request, or Nothing
  plan,     \* per session: the locks its handler takes, in order
  taken     \* per session: how many of them it has

vars == <<serving, plan, taken>>

Nothing == [handler |-> "none", source |-> 0, targets |-> <<>>]
-----------------------------------------------------------------------------
(* Resources, and the locking steps handlers share.                         *)

Row(d) == [table |-> "document", id |-> d]
Number(type) == <<[table |-> type, id |-> 0]>>     \* allocateDocumentNumber
Source(r) == <<Row(r.source)>>                     \* SELECT ... FOR UPDATE
Audit == <<[table |-> "audit", id |-> 0]>>         \* recordAudit

(* UPDATE ... in the order the rows happen to come back.                    *)
AnyOrder(S) == {[i \in DOMAIN order |-> Row(order[i])] : order \in SetToSeqs(S)}

(* lockTargets: ascending id order across all target tables, whatever order *)
(* the request lists its targets in.                                        *)
Ascending_AsListed(listed) ==   \* mutant: the sort is dropped
  {[i \in DOMAIN listed |-> Row(listed[i])]}

Ascending(listed) ==
  {order \in AnyOrder(ToSet(listed)) : \A i, j \in DOMAIN order : i < j => order[i].id < order[j].id}

Between(first, orders, last) == {first \o order \o last : order \in orders}

Targets(r) == Ascending(r.targets[1])

(* DocumentPostingService.post: the journal number, then the audit row      *)
(* commitPosting writes.                                                    *)
Posting == Number("journal") \o Audit
-----------------------------------------------------------------------------
(* Receivables.                                                             *)

CreateReceipt(r) == Between(Number("RECEIPT"), Targets(r), Posting)
AllocateReceipt(r) == Between(Source(r), Targets(r), Posting)
PostInvoice(r) == Source(r) \o Posting \o Number("INVOICE")
VoidOrCreditInvoice(r) == Source(r) \o Posting \o Number("CREDIT_NOTE")
PostCreditNote(r) == Source(r) \o Posting \o Number("CREDIT_NOTE")
ApplyCreditNote(r) == Between(Source(r), Targets(r), Audit)

CreateArWriteOff(r) == Source(r) \o Posting
CreateCustomerRefund(r) == Source(r) \o Number("CUSTOMER_REFUND") \o Posting

(* Payables.                                                                *)

PostBill(r) == Source(r) \o Posting
CreatePayment(r) == Between(Number("PAYMENT"), Targets(r), Posting)
AllocatePayment(r) == Between(Source(r), Targets(r), Posting)
ConfirmPayment(r) == Source(r) \o Audit
CreateVendorCredit(r) == Source(r) \o Number("VENDOR_CREDIT") \o Audit
PostVendorCredit(r) == Source(r) \o Posting
ApplyVendorCredit(r) == Between(Source(r), Targets(r), Audit)
PlaceHold(r) == Source(r) \o Audit

(* The outcome FAILED reopens the bills in the order of a SELECT without    *)
(* ORDER BY.                                                                *)
FailPayment(r) == Between(Source(r), AnyOrder(ToSet(r.targets[1])), <<>>)

(* A run that finds bills to pay gets as far as the first payment's number: *)
(* the payment's INSERT refers to the run, whose own row comes later, and   *)
(* the foreign key is checked at once.  An empty run has no payments.       *)
CreatePaymentRun(r) ==
  IF r.targets[1] = <<>> THEN {Number("PAYMENT_RUN") \o Audit}
  ELSE Between(<<>>, Targets(r), Number("PAYMENT_RUN") \o Number("PAYMENT"))

ExecutePaymentRun(r) == Source(r) \o Audit

Plans(r) ==
  CASE r.handler = "createReceipt" -> CreateReceipt(r)
    [] r.handler = "allocateReceipt" -> AllocateReceipt(r)
    [] r.handler = "postInvoice" -> {PostInvoice(r)}
    [] r.handler = "voidOrCreditInvoice" -> {VoidOrCreditInvoice(r)}
    [] r.handler = "postCreditNote" -> {PostCreditNote(r)}
    [] r.handler = "applyCreditNote" -> ApplyCreditNote(r)
    [] r.handler = "createArWriteOff" -> {CreateArWriteOff(r)}
    [] r.handler = "createCustomerRefund" -> {CreateCustomerRefund(r)}
    [] r.handler = "postBill" -> {PostBill(r)}
    [] r.handler = "createPayment" -> CreatePayment(r)
    [] r.handler = "allocatePayment" -> AllocatePayment(r)
    [] r.handler = "confirmPayment" -> {ConfirmPayment(r)}
    [] r.handler = "failPayment" -> FailPayment(r)
    [] r.handler = "createVendorCredit" -> {CreateVendorCredit(r)}
    [] r.handler = "postVendorCredit" -> {PostVendorCredit(r)}
    [] r.handler = "applyVendorCredit" -> ApplyVendorCredit(r)
    [] r.handler = "placeHold" -> {PlaceHold(r)}
    [] r.handler = "createPaymentRun" -> CreatePaymentRun(r)
    [] r.handler = "executePaymentRun" -> {ExecutePaymentRun(r)}

(* What clients can ask for: a receipt or a payment is nobody's target, and *)
(* a credit only that of a receipt or a payment.                            *)
Settling == {"createReceipt", "allocateReceipt", "createPayment", "allocatePayment"}
Crediting == {"applyCreditNote", "applyVendorCredit"}
Drawing == {"allocateReceipt", "allocatePayment", "failPayment"}
Others == {"postInvoice", "voidOrCreditInvoice", "postCreditNote", "createArWriteOff", "createCustomerRefund",
           "postBill", "confirmPayment", "createVendorCredit", "postVendorCredit", "placeHold",
           "executePaymentRun"}
Listing == Settling \cup Crediting \cup {"failPayment", "createPaymentRun"}

RequestsAssumption ==
  \A r \in Requests :
    /\ r.handler \in Listing \cup Others /\ r.source \in Nat
    /\ r.handler \in Listing =>
         /\ r.targets[1] \in Seq(Nat)
         /\ \A q \in Requests : q.source \in ToSet(r.targets[1]) =>
              q.handler \notin Drawing /\ (q.handler \in Crediting => r.handler \in Settling)
-----------------------------------------------------------------------------
(* Waiting.                                                                 *)

Held(s) == {plan[s][i] : i \in 1..taken[s]}
Wants(s) == taken[s] < Len(plan[s])
Wanted(s) == plan[s][taken[s] + 1]
WaitsFor(s, t) == s # t /\ Wants(s) /\ Wanted(s) \in Held(t)

Init ==
  /\ serving = [s \in Sessions |-> Nothing]
  /\ plan = [s \in Sessions |-> <<>>]
  /\ taken = [s \in Sessions |-> 0]

Begin(s) ==
  /\ serving[s] = Nothing
  /\ \E r \in Requests : \E p \in Plans(r) :
       /\ serving' = [serving EXCEPT ![s] = r]
       /\ plan' = [plan EXCEPT ![s] = p]
  /\ UNCHANGED taken

Take(s) ==   \* a lock the transaction already holds is granted at once
  /\ Wants(s)
  /\ \A t \in Sessions : ~WaitsFor(s, t)
  /\ taken' = [taken EXCEPT ![s] = @ + 1]
  /\ UNCHANGED <<serving, plan>>

End(s) ==    \* COMMIT, or ROLLBACK after a refusal between two locks
  /\ serving[s] # Nothing
  /\ serving' = [serving EXCEPT ![s] = Nothing]
  /\ plan' = [plan EXCEPT ![s] = <<>>]
  /\ taken' = [taken EXCEPT ![s] = 0]

Next == \E s \in Sessions : Begin(s) \/ Take(s) \/ End(s)

Spec == Init /\ [][Next]_vars
-----------------------------------------------------------------------------
(* A handler never has more locks than it takes, and no row is locked by    *)
(* two transactions.                                                        *)
TypeOK ==
  /\ serving \in [Sessions -> Requests \cup {Nothing}]
  /\ taken \in [Sessions -> Nat]
  /\ \A s \in Sessions : taken[s] <= Len(plan[s])
  /\ \A s, t \in Sessions : s # t => Held(s) \cap Held(t) = {}

(* Three kinds of request do not take their locks in the common order: a    *)
(* run with bills to pay locks them before the payment sequence, which      *)
(* createPayment takes first; a failed payment reopens several bills in no  *)
(* order; and a receipt that settles a credit note, or a payment a vendor   *)
(* credit, locks it among the documents that whoever applies it locks after *)
(* it.                                                                      *)
BuildsRun(r) == r.handler = "createPaymentRun" /\ r.targets[1] # <<>>
ReopensSeveral(r) == r.handler = "failPayment" /\ Len(r.targets[1]) > 1
SettlesCredit(r) ==
  /\ r.handler \in Settling
  /\ \E q \in Requests : q.handler \in Crediting /\ q.source \in ToSet(r.targets[1])
OutOfOrder(r) == BuildsRun(r) \/ ReopensSeveral(r) \/ SettlesCredit(r)

(* Whatever requests arrive at the same time and in whatever order they     *)
(* name their documents, no set of transactions waits for itself unless one *)
(* of these is among them: the lock order of ADR-0004, of which the         *)
(* ascending order of lockTargets is a part.                                *)
NoWaitCycle ==
  \A D \in (SUBSET Sessions) \ {{}} :
    \/ \E s \in D : \A t \in D : ~WaitsFor(s, t)
    \/ \E s \in D : OutOfOrder(serving[s])
=============================================================================

----------------------------- MODULE OpenItems -----------------------------
(***************************************************************************)
(* What settlement promises: money a document still has is handed to       *)
(* documents that are still owed it, in one indivisible step, never more   *)
(* than the one has or the other is owed.                                  *)
(*                                                                         *)
(* Sources are receipts, vendor payments, credit notes and vendor credits; *)
(* targets are invoices, vendor bills and, for a payment, vendor credits.  *)
(* Amounts are whole units of one currency.                                *)
(***************************************************************************)
EXTENDS Naturals, Sums

CONSTANTS
  Sources,
  Targets,
  NoSource,  \* a write-off settles an invoice out of nothing
  Worth,     \* customer_receipts.amount, vendor_payments.amount, credit_notes.total
  Owed,      \* invoices.total, vendor_bills.total
  Requests   \* [op, source, amount, total]: what each request asks for

Operation == {"create", "allocate", "refund", "writeOff"}

ASSUME DocumentsAssumption ==
  /\ NoSource \notin Sources
  /\ Worth \in [Sources -> Nat]
  /\ Owed \in [Targets -> Nat]

ASSUME FiniteAssumption == IsFiniteSet(Sources) /\ IsFiniteSet(Targets)

ASSUME RequestsAssumption ==
  /\ Requests # {}
  /\ Requests \subseteq [op : Operation, source : Sources \cup {NoSource},
                         amount : [Targets -> Nat], total : Nat]
  /\ \A r \in Requests : r.op = "writeOff" <=> r.source = NoSource

(* The handlers add the amounts of a request up; a refund has one amount    *)
(* and no target.                                                           *)
ASSUME TotalsAssumption ==
  \A r \in Requests :
    IF r.op = "refund" THEN \A t \in Targets : r.amount[t] = 0
    ELSE r.total = Sum(r.amount, Targets)

VARIABLES
  source,    \* posted or not, and allocated_amount or amount_applied
  target     \* amount_paid + amount_credited + amount_written_off

vars == <<source, target>>

Unposted == [posted |-> FALSE, used |-> 0]

Fits(r) ==
  /\ r.source # NoSource => source[r.source].used + r.total <= Worth[r.source]
  /\ \A t \in Targets : target[t] + r.amount[t] <= Owed[t]

Init ==
  /\ source = [x \in Sources |-> Unposted]
  /\ target = [t \in Targets |-> 0]

(* create* posts the source together with its first allocations; a source   *)
(* is posted once, and used only after that.                                *)
Settle(r) ==
  /\ r.source # NoSource => (source[r.source].posted <=> r.op # "create")
  /\ Fits(r)
  /\ source' = IF r.source = NoSource THEN source
               ELSE [source EXCEPT ![r.source] = [posted |-> TRUE, used |-> @.used + r.total]]
  /\ target' = [t \in Targets |-> target[t] + r.amount[t]]

Next == \E r \in Requests : Settle(r)

Spec == Init /\ [][Next]_vars
=============================================================================

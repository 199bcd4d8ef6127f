---------------------------- MODULE Settlement -----------------------------
(***************************************************************************)
(* The settlement protocol of the subledger, statement by statement, for   *)
(* transactions that run at the same time: lock the source and read what   *)
(* it has left, lock the targets in ascending id order and read what they  *)
(* are owed (lockTargets), validate the whole request against what was     *)
(* read (validateAllocations), then write the allocation rows and move the *)
(* columns (recordAllocation, applyToTarget).                              *)
(*                                                                         *)
(* createReceipt, createPayment, allocateReceipt, allocatePayment,         *)
(* applyCreditNote, applyVendorCredit, createArWriteOff and                *)
(* createCustomerRefund all follow it.  What they write becomes visible    *)
(* with their COMMIT, so the writes are one step here.                     *)
(***************************************************************************)
EXTENDS OpenItems

CONSTANT Sessions

ASSUME OrderAssumption == Targets \subseteq Nat   \* the order of their ids

VARIABLES
  alloc,       \* sums of the receipt_allocations, payment_allocations and
               \* credit applications from a source to a target
  refunded,    \* sums of the customer_refunds out of a source
  writtenOff,  \* sums of the ar_write_offs of a target
  pc,          \* per session: "idle", "begun", "locking", when its source is settled
  req,         \* per session: its request
  locked,      \* per session: the targets it has locked
  seenUsed,    \* per session: its source's column, as read
  seenSettled  \* per session: its targets' columns, as read

documents == <<source, target, alloc, refunded, writtenOff>>
mine == <<pc, req, locked, seenUsed, seenSettled>>
all == <<documents, mine>>

AnyRequest == CHOOSE r \in Requests : TRUE   \* what an idle session is left with
-----------------------------------------------------------------------------
Wanted(s) == {t \in Targets : req[s].amount[t] > 0}
Missing(s) == Wanted(s) \ locked[s]
Ready(s) == pc[s] = "locking" /\ Missing(s) = {}

HoldsSource_Never(s, x) == FALSE   \* mutant: the source is read without FOR UPDATE

HoldsSource(s, x) == pc[s] = "locking" /\ req[s].source = x

HoldsTarget_Never(s, t) == FALSE   \* mutant: the targets are read without FOR UPDATE

HoldsTarget(s, t) == pc[s] = "locking" /\ t \in locked[s]

(* validateAllocations and assertRefundWithinAvailable: the request against *)
(* what the transaction read.                                               *)
Valid_Strict(s) ==   \* mutant: the exact balance is refused
  /\ req[s].source # NoSource => seenUsed[s] + req[s].total <= Worth[req[s].source]
  /\ \A t \in Wanted(s) : seenSettled[s][t] + req[s].amount[t] < Owed[t]

Valid(s) ==
  /\ req[s].source # NoSource => seenUsed[s] + req[s].total <= Worth[req[s].source]
  /\ \A t \in Targets : seenSettled[s][t] + req[s].amount[t] <= Owed[t]

(* The CHECKs on the columns and the deferred triggers on the rows.         *)
Backstop(s) == Fits(req[s])
-----------------------------------------------------------------------------
SettlementInit ==
  /\ Init
  /\ alloc = [x \in Sources |-> [t \in Targets |-> 0]]
  /\ refunded = [x \in Sources |-> 0]
  /\ writtenOff = [t \in Targets |-> 0]
  /\ pc = [s \in Sessions |-> "idle"]
  /\ req = [s \in Sessions |-> AnyRequest]
  /\ locked = [s \in Sessions |-> {}]
  /\ seenUsed = [s \in Sessions |-> 0]
  /\ seenSettled = [s \in Sessions |-> [t \in Targets |-> 0]]

(* A request arrives.  A created source is a row nobody else can name yet;  *)
(* a write-off has none.  Any other source has still to be locked.          *)
Begin(s) ==
  /\ pc[s] = "idle"
  /\ \E r \in Requests :
       /\ r.op = "create" => /\ ~source[r.source].posted
                             /\ \A o \in Sessions : ~HoldsSource(o, r.source)
       /\ req' = [req EXCEPT ![s] = r]
       /\ pc' = [pc EXCEPT ![s] = IF r.op \in {"create", "writeOff"} THEN "locking" ELSE "begun"]
  /\ UNCHANGED <<documents, locked, seenUsed, seenSettled>>

(* SELECT ... FOR UPDATE of a posted source; the read waits for the lock.   *)
LockSource(s) ==
  /\ pc[s] = "begun"
  /\ source[req[s].source].posted
  /\ \A o \in Sessions : ~HoldsSource(o, req[s].source)
  /\ pc' = [pc EXCEPT ![s] = "locking"]
  /\ seenUsed' = [seenUsed EXCEPT ![s] = source[req[s].source].used]
  /\ UNCHANGED <<documents, req, locked, seenSettled>>

LockTarget(s) ==   \* the next one in ascending order
  /\ pc[s] = "locking"
  /\ \E t \in Missing(s) :
       /\ \A u \in Missing(s) : t <= u
       /\ \A o \in Sessions : ~HoldsTarget(o, t)
       /\ locked' = [locked EXCEPT ![s] = @ \cup {t}]
       /\ seenSettled' = [seenSettled EXCEPT ![s][t] = target[t]]
  /\ UNCHANGED <<documents, pc, req, seenUsed>>

Forget(s) ==
  /\ pc' = [pc EXCEPT ![s] = "idle"]
  /\ req' = [req EXCEPT ![s] = AnyRequest]
  /\ locked' = [locked EXCEPT ![s] = {}]
  /\ seenUsed' = [seenUsed EXCEPT ![s] = 0]
  /\ seenSettled' = [seenSettled EXCEPT ![s] = [t \in Targets |-> 0]]

Refuse(s) ==   \* OVER_ALLOCATION
  /\ Ready(s) /\ ~Valid(s)
  /\ Forget(s)
  /\ UNCHANGED documents

Abort(s) ==    \* any other refusal, or a lost connection: ROLLBACK
  /\ pc[s] # "idle"
  /\ Forget(s)
  /\ UNCHANGED documents

SourceAfter_NotConsumed(r) ==   \* mutant: a refund leaves the source's column alone
  IF r.source = NoSource \/ r.op = "refund" THEN source
  ELSE [source EXCEPT ![r.source] = [posted |-> TRUE, used |-> @.used + r.total]]

SourceAfter(r) ==
  IF r.source = NoSource THEN source
  ELSE [source EXCEPT ![r.source] = [posted |-> TRUE, used |-> @.used + r.total]]

TargetAfter_LastOnly(r) ==   \* mutant: the columns of the last target only
  [t \in Targets |-> IF \E u \in Targets : u > t /\ r.amount[u] > 0 THEN target[t]
                     ELSE target[t] + r.amount[t]]

TargetAfter(r) == [t \in Targets |-> target[t] + r.amount[t]]

(* The writes and COMMIT.                                                   *)
SettleLocked(s) ==
  LET r == req[s] IN
    /\ Ready(s) /\ Valid(s) /\ Backstop(s)
    /\ source' = SourceAfter(r)
    /\ target' = TargetAfter(r)
    /\ alloc' = [x \in Sources |-> [t \in Targets |->
                   alloc[x][t] + (IF x = r.source THEN r.amount[t] ELSE 0)]]
    /\ refunded' = [x \in Sources |->
                      refunded[x] + (IF x = r.source /\ r.op = "refund" THEN r.total ELSE 0)]
    /\ writtenOff' = [t \in Targets |->
                        writtenOff[t] + (IF r.op = "writeOff" THEN r.amount[t] ELSE 0)]
    /\ Forget(s)

SettlementNext ==
  \E s \in Sessions : \/ Begin(s) \/ LockSource(s) \/ LockTarget(s)
                      \/ Refuse(s) \/ Abort(s) \/ SettleLocked(s)

SettlementSpec == SettlementInit /\ [][SettlementNext]_all
-----------------------------------------------------------------------------
SourceRow == [posted : BOOLEAN, used : Nat]

TypeOK ==
  /\ source \in [Sources -> SourceRow]
  /\ target \in [Targets -> Nat]
  /\ alloc \in [Sources -> [Targets -> Nat]]
  /\ refunded \in [Sources -> Nat]
  /\ writtenOff \in [Targets -> Nat]
  /\ pc \in [Sessions -> {"idle", "begun", "locking"}]
  /\ req \in [Sessions -> Requests]
  /\ locked \in [Sessions -> SUBSET Targets]
  /\ seenUsed \in [Sessions -> Nat]
  /\ seenSettled \in [Sessions -> [Targets -> Nat]]

(* What a transaction has read under a lock is what the row still holds,    *)
(* and no row is locked twice.                                              *)
ReadsAreCurrent ==
  \A s \in Sessions :
    /\ pc[s] = "locking" /\ req[s].source # NoSource =>
         /\ seenUsed[s] = source[req[s].source].used
         /\ source[req[s].source].posted <=> req[s].op # "create"
         /\ \A o \in Sessions \ {s} : ~HoldsSource(o, req[s].source)
    /\ \A t \in locked[s] :
         /\ seenSettled[s][t] = target[t]
         /\ \A o \in Sessions \ {s} : ~HoldsTarget(o, t)

(* Validation is enough: a request that passes validateAllocations is never *)
(* refused by a CHECK or a deferred trigger, because nothing it read can    *)
(* change before it commits.                                                *)
BackstopNeverFires == \A s \in Sessions : Ready(s) /\ Valid(s) => Backstop(s)

(* The columns and the rows tell the same story: what a source has given    *)
(* up is its allocations and its refunds, what a target has received is its *)
(* allocations and its write-offs, and each stays within its document.      *)
RowsExplainColumns ==
  /\ \A x \in Sources :
       /\ source[x].used = refunded[x] + Sum(alloc[x], Targets)
       /\ source[x].used <= Worth[x]
  /\ \A t \in Targets :
       /\ target[t] = writtenOff[t] + Sum([x \in Sources |-> alloc[x][t]], Sources)
       /\ target[t] <= Owed[t]

(* A request is refused for what is true when it is refused, never for a    *)
(* balance that has moved since it was read.                                *)
RefusedForCause == [][\A s \in Sessions : Refuse(s) => ~Fits(req[s])]_all

(* The statements implement the indivisible settlement of OpenItems.        *)
Atomic == INSTANCE OpenItems
ImplementsOpenItems == Atomic!Spec
=============================================================================

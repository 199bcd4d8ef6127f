------------------------------ MODULE Posting ------------------------------
(***************************************************************************)
(* The posting protocol of the general ledger, one PostgreSQL transaction  *)
(* per session at READ COMMITTED: JournalService.post and .reverse,        *)
(* PostingService, allocateNumber, LedgerProjectionService.refresh, and    *)
(* the period transitions of FinanceSetupService.                          *)
(*                                                                         *)
(* The variables `entry', `period', `next' and `balance' are the COMMITTED *)
(* tables.  What a transaction has locked follows from its program counter *)
(* `pc'; what it has written is kept aside (`took', `cleared', `rows') and *)
(* reaches the tables in Commit, or nowhere.  One action is one statement  *)
(* another transaction can be ordered against; statements that only read   *)
(* constants or touch rows the transaction already owns are part of their  *)
(* neighbour.                                                              *)
(***************************************************************************)
EXTENDS LedgerData

CONSTANTS
  Sessions,       \* database sessions: API requests and worker jobs
  Regular,        \* periods that are not adjustment periods
  SoftClosers,    \* sessions whose user holds accounting_period.soft_close
  Configured      \* the entity-wide sequence is set up before the first posting

ASSUME SessionAssumption ==
  /\ Regular \subseteq Periods
  /\ SoftClosers \subseteq Sessions
  /\ Configured \in BOOLEAN

VARIABLES
  entry,    \* journal_entries with their lines
  period,   \* accounting_periods.status
  next,     \* number_sequences.next_number; 0: the row does not exist
  balance,  \* ledger_account_balances; NoRow: the row does not exist
  pc,       \* per session: the last statement of its transaction
  req,      \* per session: the operation and its arguments
  took,     \* per session: the sequence it uses, and the number taken
  cleared,  \* per session: projection rows it has deleted
  rows      \* per session: projection rows it has inserted

committed == <<entry, period, next, balance>>
vars == <<entry, period, next, balance, pc, req, took, cleared, rows>>
-----------------------------------------------------------------------------
(* Rows, requests and what a transaction sees.                              *)

Request == [op : {"none", "post", "reverse", "transition", "rebuild"}, entry : Entries \cup {NoEntry},
            reversal : Entries \cup {NoEntry}, period : Periods \cup {0}, to : PeriodStatus]

NoRequest == [op |-> "none", entry |-> NoEntry, reversal |-> NoEntry, period |-> 0, to |-> "OPEN"]

Taken == [sequence : Branch, created : BOOLEAN, number : Nat]
NothingTaken == [sequence |-> EntityWide, created |-> FALSE, number |-> 0]

(* The journal_entries table as session s sees it: the committed rows and   *)
(* its own posting.                                                         *)
View(s) ==
  CASE req[s].op = "post" -> AfterPost(entry, req[s].entry, took[s].sequence, took[s].number)
    [] req[s].op = "reverse" -> AfterReverse(entry, req[s].entry, req[s].reversal,
                                             req[s].period, took[s].sequence, took[s].number)
    [] OTHER -> entry

Touched_OnePeriod(s) ==   \* mutant: refreshes the posted period only
  {k \in Keys : \/ req[s].op = "rebuild"
                \/ k[2] \in entry[req[s].entry].accounts /\ k[1] = req[s].period}

Touched(s) ==   \* a rebuild covers the whole book
  {k \in Keys : req[s].op = "rebuild" \/ k[2] \in entry[req[s].entry].accounts}

(* INSERT INTO ledger_account_balances ... RECOMPUTE, for session s.        *)
Inserted(s) == [k \in Keys |-> IF k \in Touched(s) THEN Recompute(View(s), k) ELSE NoRow]
-----------------------------------------------------------------------------
(* Locks: who holds what, and who waits for whom.                           *)

JournalOps == {"post", "reverse"}
IsJournalOp(s) == req[s].op \in JournalOps

HoldsEntry_PostOnly(s, e) ==  \* mutant: reverse() loads the original without a lock
  req[s].op = "post" /\ req[s].entry = e /\ pc[s] \notin {"idle", "begin"}

HoldsEntry(s, e) ==     \* SELECT ... FROM journal_entries ... FOR UPDATE
  /\ IsJournalOp(s) /\ req[s].entry = e
  /\ pc[s] \notin {"idle", "begin"}

SharesPeriod_Unlocked(s, p) == FALSE  \* mutant: the status is read without FOR SHARE

SharesPeriod(s, p) ==   \* lockPeriodForPosting: FOR SHARE
  /\ IsJournalOp(s) /\ req[s].period = p
  /\ pc[s] \notin {"idle", "begin", "entry"}

OwnsPeriod(s, p) ==     \* lockPeriodForClose: FOR UPDATE
  /\ req[s].op = "transition" /\ req[s].period = p
  /\ pc[s] \notin {"idle", "begin"}

HoldsSequence_Early(s, q) ==  \* mutant: the number is taken in a transaction of its own
  IsJournalOp(s) /\ took[s].sequence = q /\ pc[s] = "numbered"

HoldsSequence(s, q) ==  \* lockSequenceForUpdate, or an INSERT not yet committed
  /\ IsJournalOp(s) /\ took[s].sequence = q
  /\ pc[s] \in {"numbered", "clearing", "cleared", "written", "ready"}

HoldsAudit_First(s) ==  \* mutant: the audit row is written before the projection
  IsJournalOp(s) /\ pc[s] \in {"numbered", "clearing", "cleared", "written", "ready"}

HoldsAudit(s) ==        \* recordAudit: pg_advisory_xact_lock, one per tenant
  \/ pc[s] = "ready"
  \/ IsJournalOp(s) /\ took[s].created /\ pc[s] \in {"numbered", "clearing", "cleared", "written"}

(* The next statement of s waits until t has ended.                         *)
WaitsFor(s, t) ==
  /\ s # t
  /\ \/ pc[s] = "begin" /\ IsJournalOp(s) /\ HoldsEntry(t, req[s].entry)
     \/ /\ pc[s] = "begin" /\ req[s].op = "transition"
        /\ SharesPeriod(t, req[s].period) \/ OwnsPeriod(t, req[s].period)
     \/ pc[s] = "entry" /\ OwnsPeriod(t, req[s].period)
     \/ pc[s] = "sequence" /\ HoldsSequence(t, took[s].sequence)
     \/ pc[s] = "sequence" /\ took[s].created /\ HoldsAudit(t)
     \/ /\ pc[s] = "clearing" /\ pc[t] \in {"cleared", "written", "ready"}
        /\ cleared[s] \cap cleared[t] # {}
     \/ /\ pc[s] = "cleared" /\ pc[t] \in {"written", "ready"}
        /\ \E k \in Keys : Inserted(s)[k] # NoRow /\ rows[t][k] # NoRow
     \/ pc[s] = "written" /\ HoldsAudit(t)

At(s, label) == pc[s] = label /\ \A t \in Sessions : ~WaitsFor(s, t)

(* ROLLBACK, or a COMMIT that wrote nothing.                                *)
EndWithNothing(s) ==
  /\ pc' = [pc EXCEPT ![s] = "idle"]
  /\ req' = [req EXCEPT ![s] = NoRequest]
  /\ took' = [took EXCEPT ![s] = NothingTaken]
  /\ cleared' = [cleared EXCEPT ![s] = {}]
  /\ rows' = [rows EXCEPT ![s] = [k \in Keys |-> NoRow]]

Step(s, label) == pc' = [pc EXCEPT ![s] = label]
-----------------------------------------------------------------------------
Init ==
  /\ entry = [e \in Entries |-> Absent]
  /\ period = [p \in Periods |-> "OPEN"]
  /\ next = [q \in Branch |-> IF q = EntityWide /\ ~Configured THEN 0 ELSE 1]
  /\ balance = [k \in Keys |-> NoRow]
  /\ pc = [s \in Sessions |-> "idle"]
  /\ req = [s \in Sessions |-> NoRequest]
  /\ took = [s \in Sessions |-> NothingTaken]
  /\ cleared = [s \in Sessions |-> {}]
  /\ rows = [s \in Sessions |-> [k \in Keys |-> NoRow]]

(* Drafts.  Each handler locks nothing but its own row, so it is one step.  *)
Unlocked_Always(e) == TRUE   \* mutant: updateDraft loads the entry without FOR UPDATE

Unlocked(e) == \A s \in Sessions : ~HoldsEntry(s, e) /\ req[s].reversal # e

CreateDraft(e, c) ==
  /\ entry[e].status = "ABSENT" /\ Unlocked(e)
  /\ entry' = [entry EXCEPT ![e] = DraftOf(c)]
  /\ UNCHANGED <<period, next, balance, pc, req, took, cleared, rows>>

(* The lines may change; the period may not: the UPDATE of the parent runs  *)
(* before the lines are rewritten, and jl_entry_scope_fk refuses it.        *)
UpdateDraft(e, c) ==
  /\ entry[e].status = "DRAFT" /\ Unlocked(e)
  /\ c.period = entry[e].period
  /\ entry' = [entry EXCEPT ![e].accounts = c.accounts, ![e].balanced = c.balanced]
  /\ UNCHANGED <<period, next, balance, pc, req, took, cleared, rows>>

DiscardDraft(e) ==
  /\ entry[e].status = "DRAFT" /\ Unlocked(e)
  /\ entry' = [entry EXCEPT ![e] = [Absent EXCEPT !.status = "DISCARDED"]]
  /\ UNCHANGED <<period, next, balance, pc, req, took, cleared, rows>>
-----------------------------------------------------------------------------
(* Requests arrive.                                                         *)
BeginPost(s, e, p) ==
  /\ pc[s] = "idle" /\ Step(s, "begin")
  /\ entry[e].status # "ABSENT"
  /\ req' = [req EXCEPT ![s] = [NoRequest EXCEPT !.op = "post", !.entry = e, !.period = p]]
  /\ UNCHANGED <<committed, took, cleared, rows>>

BeginReverse(s, e, r, p) ==
  /\ pc[s] = "idle" /\ Step(s, "begin")
  /\ entry[e].status # "ABSENT"
  /\ e # r /\ entry[r].status = "ABSENT" /\ \A t \in Sessions : req[t].reversal # r
  /\ req' = [req EXCEPT ![s] = [NoRequest EXCEPT !.op = "reverse", !.entry = e,
                                                 !.reversal = r, !.period = p]]
  /\ UNCHANGED <<committed, took, cleared, rows>>

BeginTransition(s, p, to) ==
  /\ pc[s] = "idle" /\ Step(s, "begin")
  /\ req' = [req EXCEPT ![s] = [NoRequest EXCEPT !.op = "transition", !.period = p, !.to = to]]
  /\ UNCHANGED <<committed, took, cleared, rows>>

BeginRebuild(s) ==
  /\ pc[s] = "idle" /\ Step(s, "begin")
  /\ req' = [req EXCEPT ![s] = [NoRequest EXCEPT !.op = "rebuild"]]
  /\ UNCHANGED <<committed, took, cleared, rows>>

(* load(..., {forUpdate: true}) and the checks on the locked row.           *)
MayProceed_Again(s) ==   \* mutant: post() loses its early return and its status check
  entry[req[s].entry].status # "ABSENT"

MayProceed(s) ==
  LET e == req[s].entry IN
  \/ req[s].op = "post" /\ entry[e].status = "DRAFT"
  \/ /\ req[s].op = "reverse" /\ entry[e].status = "POSTED"
     /\ \A f \in Entries : entry[f].reverses # e

LockEntry(s) ==
  /\ At(s, "begin") /\ IsJournalOp(s)
  /\ IF MayProceed(s)
     THEN Step(s, "entry") /\ UNCHANGED <<req, took, cleared, rows>>
     ELSE EndWithNothing(s)
  /\ UNCHANGED committed

Accepts(s, status) ==
  \/ status = "OPEN"
  \/ status = "SOFT_CLOSED" /\ AllowPrivileged /\ s \in SoftClosers

LockPeriod(s) ==
  /\ At(s, "entry")
  /\ IF Accepts(s, period[req[s].period])
     THEN Step(s, "period") /\ UNCHANGED <<req, took, cleared, rows>>
     ELSE EndWithNothing(s)
  /\ UNCHANGED committed

(* prepare and writeLines, then the SELECT that picks the sequence.  A line *)
(* written in another period than its parent's violates jl_entry_scope_fk.  *)
Prepare(s) ==
  LET e == req[s].entry
      q == SequenceFor(entry[e].branch) IN
  /\ At(s, "period")
  /\ IF /\ entry[e].balanced
        /\ req[s].op = "post" => req[s].period = entry[e].period
     THEN /\ Step(s, "sequence")
          /\ took' = [took EXCEPT ![s] = [sequence |-> q, created |-> next[q] = 0, number |-> 0]]
          /\ UNCHANGED <<req, cleared, rows>>
     ELSE EndWithNothing(s)
  /\ UNCHANGED committed

(* allocateNumber; the first posting of an entity creates its sequence and  *)
(* records that in the audit; number_sequences_uq refuses a second creation.*)
AllocateNumber(s) ==
  LET q == took[s].sequence IN
  /\ At(s, "sequence")
  /\ IF took[s].created /\ next[q] # 0
     THEN EndWithNothing(s)
     ELSE /\ Step(s, "numbered")
          /\ took' = [took EXCEPT ![s].number = NumberFrom(next[q])]
          /\ UNCHANGED <<req, cleared, rows>>
  /\ UNCHANGED committed

(* projections.refresh, or .rebuild: the DELETE fixes its snapshot, then    *)
(* waits for the rows; one that was replaced meanwhile is skipped.          *)
StartClear(s) ==
  /\ At(s, "numbered") \/ (At(s, "begin") /\ req[s].op = "rebuild")
  /\ Step(s, "clearing")
  /\ cleared' = [cleared EXCEPT ![s] = {k \in Touched(s) : balance[k] # NoRow}]
  /\ UNCHANGED <<committed, req, took, rows>>

FinishClear(s) ==
  /\ At(s, "clearing") /\ Step(s, "cleared")
  /\ UNCHANGED <<committed, req, took, cleared, rows>>

(* The INSERT meets the primary key (book, period, account).                *)
Collides(s) == \E k \in Keys : /\ Inserted(s)[k] # NoRow
                               /\ balance[k] # NoRow
                               /\ k \notin cleared[s]

InsertRows(s) ==
  /\ At(s, "cleared")
  /\ IF Collides(s)
     THEN EndWithNothing(s)
     ELSE /\ Step(s, "written")
          /\ rows' = [rows EXCEPT ![s] = Inserted(s)]
          /\ UNCHANGED <<req, took, cleared>>
  /\ UNCHANGED committed

(* publish and recordAudit: the last statements of a posting and of a       *)
(* transition.                                                              *)
Audit(s) ==
  /\ At(s, "written") /\ Step(s, "ready")
  /\ UNCHANGED <<committed, req, took, cleared, rows>>

(* At COMMIT the row versions of s replace the ones it deleted, and a       *)
(* DELETE that was waiting for those skips them.                            *)
ReplaceRows(s) ==
  /\ balance' = [k \in Keys |-> IF rows[s][k] # NoRow THEN rows[s][k]
                                ELSE IF k \in cleared[s] THEN NoRow ELSE balance[k]]
  /\ cleared' = [t \in Sessions |-> IF t = s THEN {}
                                    ELSE IF pc[t] = "clearing" THEN cleared[t] \ cleared[s]
                                    ELSE cleared[t]]
  /\ pc' = [pc EXCEPT ![s] = "idle"]
  /\ req' = [req EXCEPT ![s] = NoRequest]
  /\ took' = [took EXCEPT ![s] = NothingTaken]
  /\ rows' = [rows EXCEPT ![s] = [k \in Keys |-> NoRow]]

CommitPosting(s) ==
  /\ pc[s] = "ready" /\ IsJournalOp(s)
  /\ entry' = View(s)
  /\ next' = [next EXCEPT ![took[s].sequence] = took[s].number + 1]
  /\ ReplaceRows(s)
  /\ UNCHANGED period

CommitRebuild(s) ==
  /\ pc[s] = "ready" /\ req[s].op = "rebuild"
  /\ ReplaceRows(s)
  /\ UNCHANGED <<entry, next, period>>
-----------------------------------------------------------------------------
(* FinanceSetupService.transitionPeriod.                                    *)
LockPeriodForClose_AnyStatus(s) ==   \* mutant: the `from' check is dropped
  /\ At(s, "begin") /\ req[s].op = "transition" /\ Step(s, "closing")
  /\ UNCHANGED <<committed, req, took, cleared, rows>>

LockPeriodForClose(s) ==
  /\ At(s, "begin") /\ req[s].op = "transition"
  /\ IF period[req[s].period] \in TransitionFrom[req[s].to]
     THEN Step(s, "closing") /\ UNCHANGED <<req, took, cleared, rows>>
     ELSE EndWithNothing(s)
  /\ UNCHANGED committed

(* assertEarlierPeriodsClosed reads the earlier rows and locks none.        *)
EarlierPeriodsClosed(p) ==
  p \in Regular => \A earlier \in Regular : earlier < p => period[earlier] = "HARD_CLOSED"

CheckEarlier(s) ==
  /\ At(s, "closing")
  /\ IF req[s].to = "HARD_CLOSED" => EarlierPeriodsClosed(req[s].period)
     THEN Step(s, "written") /\ UNCHANGED <<req, took, cleared, rows>>
     ELSE EndWithNothing(s)
  /\ UNCHANGED committed

CommitTransition(s) ==
  /\ pc[s] = "ready" /\ req[s].op = "transition"
  /\ period' = [period EXCEPT ![req[s].period] = req[s].to]
  /\ EndWithNothing(s)
  /\ UNCHANGED <<entry, next, balance>>

(* Any statement may fail, a deadlock may be broken, the client or the      *)
(* server may die: PostgreSQL rolls back and releases the locks.            *)
Rollback(s) == pc[s] # "idle" /\ EndWithNothing(s) /\ UNCHANGED committed
-----------------------------------------------------------------------------
Drafting == \E e \in Entries : \/ \E c \in Contents : CreateDraft(e, c) \/ UpdateDraft(e, c)
                               \/ DiscardDraft(e)

Arrival(s) ==
  \/ \E e \in Entries, p \in Periods :
       \/ BeginPost(s, e, p)
       \/ \E r \in Entries : BeginReverse(s, e, r, p)
  \/ \E p \in Periods, to \in PeriodStatus : BeginTransition(s, p, to)
  \/ BeginRebuild(s)

Statement(s) ==
  \/ LockEntry(s) \/ LockPeriod(s) \/ Prepare(s) \/ AllocateNumber(s)
  \/ StartClear(s) \/ FinishClear(s) \/ InsertRows(s) \/ Audit(s)
  \/ CommitPosting(s) \/ CommitRebuild(s)
  \/ LockPeriodForClose(s) \/ CheckEarlier(s) \/ CommitTransition(s)

Next == Drafting \/ \E s \in Sessions : Arrival(s) \/ Statement(s) \/ Rollback(s)

Spec == Init /\ [][Next]_vars
-----------------------------------------------------------------------------
(* Properties.                                                              *)

TypeOK ==
  /\ entry \in [Entries -> Entry]
  /\ period \in [Periods -> PeriodStatus]
  /\ next \in [Branch -> Nat]
  /\ balance \in [Keys -> Row]
  /\ pc \in [Sessions -> {"idle", "begin", "entry", "period", "sequence", "numbered",
                          "clearing", "cleared", "written", "ready", "closing"}]
  /\ req \in [Sessions -> Request]
  /\ took \in [Sessions -> Taken]
  /\ cleared \in [Sessions -> SUBSET Keys]
  /\ rows \in [Sessions -> [Keys -> Row]]

(* The projection never drifts: at every commit the stored balances are     *)
(* what a full rebuild from the posted lines would write, although postings *)
(* on different sequences refresh the same accounts concurrently            *)
(* (LedgerProjectionService.refresh against .rebuild).                      *)
ProjectionIsRebuildable == \A k \in Keys : balance[k] = Recompute(entry, k)

(* Numbers are gapless and unique per sequence whatever fails or overlaps:  *)
(* each number below next_number is on exactly one posted entry, and no     *)
(* posted entry carries another (allocateNumber, ADR-0004 section 1).       *)
NumbersAreGapless ==
  \A q \in Branch :
    LET issued == {e \in Counted(entry) : entry[e].sequence = q} IN
    /\ \A e, f \in issued : entry[e].number = entry[f].number => e = f
    /\ {entry[e].number : e \in issued} = 1 .. next[q] - 1

(* An entry reaches the ledger only while its period accepts postings: a    *)
(* close waits for the posts in flight and a later post sees it (lockPeriod *)
(* FOR SHARE against lockPeriodForClose FOR UPDATE, ADR-0004 section 4).    *)
PostsOnlyIntoAcceptingPeriod ==
  [][\A e \in Counted(entry') \ Counted(entry) :
       \E s \in Sessions : /\ pc[s] = "ready"
                           /\ Accepts(s, period[entry'[e].period])]_vars

(* What was validated is what is posted: no edit of a draft slips between   *)
(* the balance check of a post and its commit.                              *)
PostedIsBalanced == \A e \in Counted(entry) : entry[e].balanced

(* A reversed entry has exactly one posted reversal, with the same accounts *)
(* on the same branch, and an entry that is still POSTED has none.          *)
ReversedExactlyOnce ==
  \A e \in Entries :
    LET reversals == {f \in Counted(entry) : entry[f].reverses = e} IN
    /\ entry[e].status = "REVERSED" <=> reversals # {}
    /\ \A f, g \in reversals : f = g
    /\ \A f \in reversals : entry[f].accounts = entry[e].accounts

(* Posted history is permanent: a posted entry never leaves the ledger and  *)
(* none of its facts changes (doc 01 rule 4; trigger in 0006).              *)
PostedIsPermanent ==
  [][\A e \in Counted(entry) :
       /\ entry'[e].status \in {entry[e].status, "REVERSED"}
       /\ [entry'[e] EXCEPT !.status = entry[e].status] = entry[e]]_vars

(* No set of sessions waits on itself: locks are taken in one order on      *)
(* every path (ADR-0004).  It holds once the entity-wide sequence exists;   *)
(* creating it takes the audit lock before the projection rows.             *)
NoDeadlock ==
  \A S \in (SUBSET Sessions) \ {{}} : \E s \in S : \A t \in S : ~WaitsFor(s, t)

(* A hard-closed period was signed off against its opening balances, so     *)
(* they must stand for as long as it stays hard-closed                      *)
(* (assertEarlierPeriodsClosed; refuted: nothing stops an earlier period    *)
(* from being reopened and posted into under it).                           *)
SignedOffOpeningFrozen ==
  [][\A k \in Keys : period[k[1]] = "HARD_CLOSED" /\ period'[k[1]] = "HARD_CLOSED"
                       => balance'[k].opening = balance[k].opening]_vars

(* Two posts into the same open period get by each other: neither is        *)
(* refused because of the other (lockPeriodForPosting; refuted: on two      *)
(* sequences the second meets the primary key of the balances the first     *)
(* wrote, and its transaction fails).                                       *)
ConcurrentPostsDoNotCollide ==
  \A s \in Sessions : At(s, "cleared") => ~Collides(s)

(* The transactions together are the atomic ledger: the committed tables    *)
(* are the state of Ledger, and no step of a transaction but its commit     *)
(* changes them.                                                            *)
Abstract == INSTANCE Ledger
ImplementsLedger == Abstract!Spec
=============================================================================

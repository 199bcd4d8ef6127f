---------------------------- MODULE PostingProofs ---------------------------
(***************************************************************************)
(* What holds of Posting for every number of sessions, entries, periods,   *)
(* accounts and branches.                                                  *)
(***************************************************************************)
EXTENDS Posting, TLAPS

(* The label of a transaction fits the operation, and the operation its     *)
(* arguments.                                                               *)
RequestOK(s) ==
  /\ pc[s] = "idle" <=> req[s].op = "none"
  /\ IsJournalOp(s) => /\ req[s].entry \in Entries
                       /\ req[s].period \in Periods
                       /\ pc[s] # "closing"
  /\ IF req[s].op = "reverse" THEN req[s].reversal \in Entries \ {req[s].entry}
                              ELSE req[s].reversal = NoEntry
  /\ req[s].op = "transition" => /\ req[s].period \in Periods
                                 /\ pc[s] \in {"begin", "closing", "written", "ready"}
  /\ req[s].op = "rebuild" => pc[s] \in {"begin", "clearing", "cleared", "written", "ready"}

TypeInv == TypeOK /\ \A s \in Sessions : RequestOK(s)

(* Every row the protocol builds is a journal_entries row.                  *)
LEMMA RowTypes ==
  /\ Absent \in Entry
  /\ \A c \in Content : DraftOf(c) \in Entry
  /\ \A from \in Entry, q \in Branch, n \in Nat : PostedAs(from, q, n) \in Entry
  /\ \A from \in Entry, e \in Entries, p \in Periods : ReversalOf(e, from, p) \in Entry
  BY DEF Absent, Entry, DraftOf, Content, PostedAs, ReversalOf, Branch

(* A posting changes status, sequence and number, a reversal row differs    *)
(* from the original in period and reverses, and in nothing else.           *)
LEMMA RowFields ==
  ASSUME NEW from \in Entry, NEW q \in Branch, NEW n \in Nat, NEW e \in Entries, NEW p \in Periods
  PROVE LET posted == PostedAs(from, q, n)
            reversal == PostedAs(ReversalOf(e, from, p), q, n) IN
        /\ posted.status = "POSTED" /\ posted.sequence = q /\ posted.number = n
        /\ posted.period = from.period /\ posted.accounts = from.accounts
        /\ posted.balanced = from.balanced /\ posted.reverses = from.reverses
        /\ reversal.status = "POSTED" /\ reversal.sequence = q /\ reversal.number = n
        /\ reversal.period = p /\ reversal.accounts = from.accounts
        /\ reversal.balanced = from.balanced /\ reversal.reverses = e
  BY DEF Entry, PostedAs, ReversalOf

LEMMA RequestTypes == NoRequest \in Request /\ NothingTaken \in Taken
  BY DEF NoRequest, Request, NothingTaken, Taken, PeriodStatus, Branch

(* What RECOMPUTE returns is a ledger_account_balances row.                 *)
LEMMA RecomputeType ==
  ASSUME NEW es, NEW k PROVE Recompute(es, k) \in Row
  BY DEF Recompute, Row, Counted

LEMMA RowsType == ASSUME NEW s PROVE Inserted(s) \in [Keys -> Row]
  BY RecomputeType DEF Inserted, NoRow, Row

LEMMA NumberType ==
  ASSUME NEW n \in Nat PROVE NumberFrom(n) \in Nat /\ NumberFrom(n) > 0
  BY DEF NumberFrom

LEMMA SequenceType == ASSUME NEW b \in Branch PROVE SequenceFor(b) \in Branch
  BY DEF SequenceFor, Branch

(* The journal as a transaction sees it, and leaves it at COMMIT.           *)
LEMMA ViewType ==
  ASSUME TypeInv, NEW s \in Sessions, IsJournalOp(s)
  PROVE View(s) \in [Entries -> Entry]
<1> USE DEF TypeInv, TypeOK, RequestOK, IsJournalOp, JournalOps, Request, Taken
<1>1. CASE req[s].op = "post"
  BY <1>1, RowTypes DEF View, AfterPost
<1>2. CASE req[s].op = "reverse"
  <2> DEFINE e == req[s].entry
             new == PostedAs(ReversalOf(e, entry[e], req[s].period), took[s].sequence, took[s].number)
  <2>1. e \in Entries /\ entry[e] \in Entry /\ req[s].period \in Periods
    BY <1>2
  <2>2. new \in Entry
    BY <2>1, RowTypes
  <2>3. [entry EXCEPT ![e].status = "REVERSED"] \in [Entries -> Entry]
    BY <2>1 DEF Entry
  <2>4. View(s) = [[entry EXCEPT ![e].status = "REVERSED"] EXCEPT ![req[s].reversal] = new]
    BY <1>2 DEF View, AfterReverse
  <2>5. req[s].reversal \in Entries
    BY <1>2
  <2> HIDE DEF new
  <2> QED BY <2>2, <2>3, <2>4, <2>5
<1> QED BY <1>1, <1>2

LEMMA EndType ==
  ASSUME TypeInv, NEW s \in Sessions, EndWithNothing(s)
  PROVE /\ pc' \in [Sessions -> {"idle", "begin", "entry", "period", "sequence", "numbered",
                                 "clearing", "cleared", "written", "ready", "closing"}]
        /\ req' \in [Sessions -> Request]
        /\ took' \in [Sessions -> Taken]
        /\ cleared' \in [Sessions -> SUBSET Keys]
        /\ rows' \in [Sessions -> [Keys -> Row]]
        /\ \A t \in Sessions : RequestOK(t)'
  BY RequestTypes DEF TypeInv, TypeOK, EndWithNothing, NoRow, Row, RequestOK, NoRequest,
     IsJournalOp, JournalOps

(* A statement that succeeds moves the transaction to the next label.       *)
LEMMA AdvanceType ==
  ASSUME TypeInv, NEW s \in Sessions, pc[s] # "idle",
         NEW label \in {"entry", "period", "sequence", "numbered", "clearing", "cleared",
                        "written", "ready", "closing"},
         Step(s, label), req' = req,
         IsJournalOp(s) => label # "closing",
         req[s].op = "transition" => label \in {"closing", "written", "ready"},
         req[s].op = "rebuild" => label \in {"clearing", "cleared", "written", "ready"}
  PROVE /\ pc' \in [Sessions -> {"idle", "begin", "entry", "period", "sequence", "numbered",
                                 "clearing", "cleared", "written", "ready", "closing"}]
        /\ \A t \in Sessions : RequestOK(t)'
  BY DEF TypeInv, TypeOK, Step, RequestOK, IsJournalOp

-----------------------------------------------------------------------------
LEMMA TypeInit == Init => TypeInv
  BY DataAssumption, SessionAssumption, RowTypes, RequestTypes
  DEF Init, TypeInv, TypeOK, RequestOK, IsJournalOp, JournalOps, NoRequest, NoRow, Row, PeriodStatus

LEMMA TypeStep == TypeInv /\ [Next]_vars => TypeInv'
<1> SUFFICES ASSUME TypeInv, [Next]_vars PROVE TypeInv'
  OBVIOUS
<1> USE DEF TypeInv, TypeOK
<1>1. ASSUME NEW e \in Entries, NEW c \in Contents, CreateDraft(e, c) PROVE TypeInv'
  BY <1>1, RowTypes, DataAssumption DEF CreateDraft, RequestOK, IsJournalOp
<1>2. ASSUME NEW e \in Entries, NEW c \in Contents, UpdateDraft(e, c) PROVE TypeInv'
  <2> DEFINE row == [entry[e] EXCEPT !.accounts = c.accounts, !.balanced = c.balanced]
  <2>0. entry[e] \in Entry /\ c.accounts \in SUBSET Accounts /\ c.balanced \in BOOLEAN
    BY DataAssumption DEF Content
  <2>1. row \in Entry
    BY <2>0 DEF Entry
  <2>2. entry' = [entry EXCEPT ![e] = row]
    BY <1>2 DEF UpdateDraft
  <2> QED BY <1>2, <2>1, <2>2 DEF UpdateDraft, RequestOK, IsJournalOp
<1>3. ASSUME NEW e \in Entries, DiscardDraft(e) PROVE TypeInv'
  BY <1>3, RowTypes DEF DiscardDraft, RequestOK, IsJournalOp, Entry
<1>4. ASSUME NEW s \in Sessions, NEW e \in Entries, NEW p \in Periods, BeginPost(s, e, p)
      PROVE TypeInv'
  BY <1>4, DataAssumption
  DEF BeginPost, RequestOK, IsJournalOp, JournalOps, committed, Step, NoRequest, Request, PeriodStatus
<1>5. ASSUME NEW s \in Sessions, NEW e \in Entries, NEW r \in Entries, NEW p \in Periods,
             BeginReverse(s, e, r, p)
      PROVE TypeInv'
  <2>1. req' \in [Sessions -> Request]
    BY <1>5 DEF BeginReverse, NoRequest, Request, PeriodStatus
  <2>2. \A t \in Sessions : RequestOK(t)'
    BY <1>5, DataAssumption
    DEF BeginReverse, Step, RequestOK, IsJournalOp, JournalOps, NoRequest
  <2> QED BY <1>5, <2>1, <2>2 DEF BeginReverse, Step, committed
<1>6. ASSUME NEW s \in Sessions, NEW p \in Periods, NEW to \in PeriodStatus,
             BeginTransition(s, p, to)
      PROVE TypeInv'
  BY <1>6, DataAssumption
  DEF BeginTransition, RequestOK, IsJournalOp, JournalOps, committed, Step, NoRequest, Request
<1>7. ASSUME NEW s \in Sessions, BeginRebuild(s) PROVE TypeInv'
  BY <1>7, DataAssumption
  DEF BeginRebuild, RequestOK, IsJournalOp, JournalOps, committed, Step, NoRequest, Request, PeriodStatus
<1>8. ASSUME NEW s \in Sessions, Rollback(s) PROVE TypeInv'
  BY <1>8, EndType DEF Rollback, committed
<1>9. ASSUME NEW s \in Sessions, LockEntry(s) PROVE TypeInv'
  BY <1>9, EndType DEF LockEntry, committed, At, Step, RequestOK, IsJournalOp, JournalOps
<1>10. ASSUME NEW s \in Sessions, LockPeriod(s) PROVE TypeInv'
  BY <1>10, EndType DEF LockPeriod, committed, At, Step, RequestOK, IsJournalOp, JournalOps
<1>11. ASSUME NEW s \in Sessions, Prepare(s) PROVE TypeInv'
  <2> DEFINE q == SequenceFor(entry[req[s].entry].branch)
  <2>1. CASE EndWithNothing(s)
    BY <1>11, <2>1, EndType DEF Prepare, committed
  <2>2. CASE ~EndWithNothing(s)
    <3>1. IsJournalOp(s)
      BY <1>11 DEF Prepare, At, RequestOK, Request, IsJournalOp, JournalOps
    <3>2. q \in Branch
      BY <3>1, SequenceType DEF RequestOK, Entry
    <3>3. [sequence |-> q, created |-> next[q] = 0, number |-> 0] \in Taken
      BY <3>2, Zenon DEF Taken
    <3>4. took' \in [Sessions -> Taken]
      BY <1>11, <2>2, <3>3 DEF Prepare
    <3> QED BY <1>11, <2>2, <3>1, <3>4, AdvanceType
            DEF Prepare, committed, At, IsJournalOp, JournalOps
  <2> QED BY <2>1, <2>2
<1>12. ASSUME NEW s \in Sessions, AllocateNumber(s) PROVE TypeInv'
  <2>1. CASE EndWithNothing(s)
    BY <1>12, <2>1, EndType DEF AllocateNumber, committed
  <2>2. CASE ~EndWithNothing(s)
    <3>1. IsJournalOp(s)
      BY <1>12 DEF AllocateNumber, At, RequestOK, Request, IsJournalOp, JournalOps
    <3>2. took[s] \in Taken /\ NumberFrom(next[took[s].sequence]) \in Nat
      BY NumberType DEF Taken
    <3>3. [took[s] EXCEPT !.number = NumberFrom(next[took[s].sequence])] \in Taken
      BY <3>2 DEF Taken
    <3>4. took' \in [Sessions -> Taken]
      BY <1>12, <2>2, <3>3 DEF AllocateNumber
    <3> QED BY <1>12, <2>2, <3>1, <3>4, AdvanceType
            DEF AllocateNumber, committed, At, IsJournalOp, JournalOps
  <2> QED BY <2>1, <2>2
<1>13. ASSUME NEW s \in Sessions, StartClear(s) PROVE TypeInv'
  BY <1>13 DEF StartClear, committed, At, Step, Touched, RequestOK, IsJournalOp, JournalOps
<1>14. ASSUME NEW s \in Sessions, FinishClear(s) PROVE TypeInv'
  BY <1>14 DEF FinishClear, committed, At, Step, RequestOK, IsJournalOp, JournalOps
<1>15. ASSUME NEW s \in Sessions, InsertRows(s) PROVE TypeInv'
  <2>1. CASE Collides(s)
    BY <1>15, <2>1, EndType DEF InsertRows, committed
  <2>2. CASE ~Collides(s)
    <3>1. /\ pc[s] = "cleared" /\ Step(s, "written") /\ UNCHANGED <<committed, req, took, cleared>>
          /\ rows' = [rows EXCEPT ![s] = Inserted(s)]
      BY <1>15, <2>2 DEF InsertRows, At
    <3>2. rows' \in [Sessions -> [Keys -> Row]]
      BY <3>1, RowsType
    <3> QED BY <3>1, <3>2, AdvanceType DEF committed
  <2> QED BY <2>1, <2>2
<1>16. ASSUME NEW s \in Sessions, Audit(s) PROVE TypeInv'
  BY <1>16 DEF Audit, committed, At, Step, RequestOK, IsJournalOp, JournalOps
<1>17. ASSUME NEW s \in Sessions, ReplaceRows(s)
       PROVE /\ (balance \in [Keys -> Row])' /\ (cleared \in [Sessions -> SUBSET Keys])'
             /\ (rows \in [Sessions -> [Keys -> Row]])' /\ (req \in [Sessions -> Request])'
             /\ (took \in [Sessions -> Taken])'
             /\ \A t \in Sessions : RequestOK(t)'
             /\ pc' = [pc EXCEPT ![s] = "idle"]
  <2>1. (balance \in [Keys -> Row])'
    BY <1>17 DEF ReplaceRows, NoRow, Row
  <2>2. (cleared \in [Sessions -> SUBSET Keys])'
    BY <1>17 DEF ReplaceRows
  <2> QED BY <1>17, <2>1, <2>2, RequestTypes
          DEF ReplaceRows, NoRow, Row, RequestOK, NoRequest, IsJournalOp, JournalOps
<1>18. ASSUME NEW s \in Sessions, CommitPosting(s) PROVE TypeInv'
  <2>1. entry' \in [Entries -> Entry]
    BY <1>18, ViewType DEF CommitPosting
  <2>2. next' \in [Branch -> Nat]
    BY <1>18 DEF CommitPosting, Taken
  <2> QED BY <1>17, <1>18, <2>1, <2>2 DEF CommitPosting
<1>19. ASSUME NEW s \in Sessions, CommitRebuild(s) PROVE TypeInv'
  BY <1>17, <1>19 DEF CommitRebuild
<1>20. ASSUME NEW s \in Sessions, LockPeriodForClose(s) PROVE TypeInv'
  BY <1>20, EndType DEF LockPeriodForClose, committed, At, Step, RequestOK, IsJournalOp, JournalOps
<1>21. ASSUME NEW s \in Sessions, CheckEarlier(s) PROVE TypeInv'
  BY <1>21, EndType DEF CheckEarlier, committed, At, Step, RequestOK, IsJournalOp, JournalOps
<1>22. ASSUME NEW s \in Sessions, CommitTransition(s) PROVE TypeInv'
  BY <1>22, EndType DEF CommitTransition, Request
<1>23. CASE UNCHANGED vars
  BY <1>23 DEF vars, RequestOK, IsJournalOp
<1> QED
  BY <1>1, <1>2, <1>3, <1>4, <1>5, <1>6, <1>7, <1>8, <1>9, <1>10, <1>11, <1>12, <1>13, <1>14,
     <1>15, <1>16, <1>18, <1>19, <1>20, <1>21, <1>22, <1>23
  DEF Next, Drafting, Arrival, Statement

(* The tables and the transactions keep their types, for any number of      *)
(* sessions and rows.                                                       *)
THEOREM TypeCorrect == Spec => []TypeOK
<1>1. TypeInv => TypeOK
  BY DEF TypeInv
<1> QED BY <1>1, TypeInit, TypeStep, PTL DEF Spec
-----------------------------------------------------------------------------
(* The inductive invariant: who can hold what at the same time, and what a  *)
(* transaction has checked stays true for as long as it holds the lock.     *)
Holding == {"numbered", "clearing", "cleared", "written", "ready"}

EntryExclusive == \A s, t \in Sessions, e \in Entries : HoldsEntry(s, e) /\ HoldsEntry(t, e) => s = t

SequenceExclusive ==
  \A s, t \in Sessions, q \in Branch : HoldsSequence(s, q) /\ HoldsSequence(t, q) => s = t

PeriodExclusive ==
  \A s, t \in Sessions, p \in Periods : ~(OwnsPeriod(s, p) /\ SharesPeriod(t, p))

ReversalExclusive ==
  \A s, t \in Sessions : req[s].reversal = req[t].reversal /\ req[s].reversal # NoEntry => s = t

LockInv == EntryExclusive /\ SequenceExclusive /\ PeriodExclusive /\ ReversalExclusive

(* The status of the locked entry, and of the row a reversal will create.   *)
EntryChecked(s) ==
  /\ HoldsEntry(s, req[s].entry) => MayProceed(s)
  /\ req[s].reversal # NoEntry => entry[req[s].reversal].status = "ABSENT"

(* The status of the period held FOR SHARE.                                 *)
PeriodChecked(s) ==
  SharesPeriod(s, req[s].period) => Accepts(s, period[req[s].period])

(* What prepare validated, and the number taken from the locked sequence.   *)
Validated(s) ==
  LET e == req[s].entry IN
  IsJournalOp(s) /\ pc[s] \in Holding \cup {"sequence"} =>
    /\ entry[e].balanced
    /\ req[s].op = "post" => req[s].period = entry[e].period
    /\ took[s].sequence = SequenceFor(entry[e].branch)

NumberHeld(s) ==
  IsJournalOp(s) /\ pc[s] \in Holding => took[s].number = NumberFrom(next[took[s].sequence])

CheckedInv ==
  \A s \in Sessions : EntryChecked(s) /\ PeriodChecked(s) /\ Validated(s) /\ NumberHeld(s)

(* Only a posted row is a reversal.                                         *)
ReversalsPosted ==
  \A f \in Entries : entry[f].reverses # NoEntry => entry[f].status \in {"POSTED", "REVERSED"}

Inv == TypeInv /\ LockInv /\ CheckedInv /\ ReversalsPosted

-----------------------------------------------------------------------------
LEMMA InvInit == Init => Inv
<1> SUFFICES ASSUME Init PROVE Inv
  OBVIOUS
<1>1. TypeInv
  BY TypeInit
<1>2. \A s \in Sessions : pc[s] = "idle" /\ ~IsJournalOp(s) /\ req[s].reversal = NoEntry /\ req[s].op = "none"
  BY DEF Init, NoRequest, IsJournalOp, JournalOps
<1>3. LockInv
  BY <1>2 DEF LockInv, EntryExclusive, SequenceExclusive, PeriodExclusive, ReversalExclusive,
              HoldsEntry, HoldsSequence, OwnsPeriod
<1>4. CheckedInv
  BY <1>2 DEF CheckedInv, EntryChecked, PeriodChecked, Validated, NumberHeld, HoldsEntry, SharesPeriod
<1>5. ReversalsPosted
  BY DEF Init, ReversalsPosted, Absent
<1> QED BY <1>1, <1>3, <1>4, <1>5 DEF Inv

(* A transaction that ends without effect only releases locks.              *)
LEMMA EndInv ==
  ASSUME Inv, NEW s \in Sessions, EndWithNothing(s), UNCHANGED <<entry, next>>,
         \/ UNCHANGED period
         \/ \E p \in Periods : /\ OwnsPeriod(s, p)
                               /\ \A q \in Periods : q # p => period'[q] = period[q]
  PROVE LockInv' /\ CheckedInv' /\ ReversalsPosted'
<1> USE DEF Inv, TypeInv, TypeOK
<1>1. /\ pc'[s] = "idle" /\ req'[s] = NoRequest
      /\ \A t \in Sessions : t # s => pc'[t] = pc[t] /\ req'[t] = req[t] /\ took'[t] = took[t]
  BY DEF EndWithNothing
<1>2. /\ ~IsJournalOp(s)' /\ req'[s].op = "none" /\ req'[s].reversal = NoEntry
      /\ \A t \in Sessions : t # s => (IsJournalOp(t)' <=> IsJournalOp(t))
  BY <1>1 DEF NoRequest, IsJournalOp, JournalOps
<1>3. LockInv'
  <2>1. \A t \in Sessions :
          /\ \A e : HoldsEntry(t, e)' => HoldsEntry(t, e)
          /\ \A q : HoldsSequence(t, q)' => HoldsSequence(t, q)
          /\ \A p : OwnsPeriod(t, p)' => OwnsPeriod(t, p)
          /\ \A p : SharesPeriod(t, p)' => SharesPeriod(t, p)
          /\ req'[t].reversal # NoEntry => req'[t].reversal = req[t].reversal
    BY <1>1, <1>2 DEF HoldsEntry, HoldsSequence, OwnsPeriod, SharesPeriod
  <2> QED BY <2>1 DEF LockInv, EntryExclusive, SequenceExclusive, PeriodExclusive, ReversalExclusive
<1>4. ASSUME NEW t \in Sessions
      PROVE EntryChecked(t)' /\ PeriodChecked(t)' /\ Validated(t)' /\ NumberHeld(t)'
  <2>1. CASE t = s
    BY <1>1, <1>2, <2>1 DEF EntryChecked, PeriodChecked, Validated, NumberHeld, HoldsEntry, SharesPeriod
  <2>2. CASE t # s
    <3>1. EntryChecked(t) /\ PeriodChecked(t) /\ Validated(t) /\ NumberHeld(t)
      BY DEF CheckedInv
    <3>2. EntryChecked(t)' /\ Validated(t)' /\ NumberHeld(t)'
      BY <1>1, <1>2, <2>2, <3>1 DEF EntryChecked, Validated, NumberHeld, HoldsEntry, MayProceed
    <3>3. PeriodChecked(t)'
      <4>1. CASE UNCHANGED period
        BY <1>1, <1>2, <2>2, <3>1, <4>1 DEF PeriodChecked, SharesPeriod, Accepts
      <4>2. CASE ~UNCHANGED period
        <5>1. SharesPeriod(t, req[t].period) =>
                /\ req[t].period \in Periods
                /\ period'[req[t].period] = period[req[t].period]
          BY <4>2 DEF LockInv, PeriodExclusive, SharesPeriod, RequestOK
        <5> QED BY <1>1, <1>2, <2>2, <3>1, <5>1 DEF PeriodChecked, SharesPeriod, Accepts
      <4> QED BY <4>1, <4>2
    <3> QED BY <3>2, <3>3
  <2> QED BY <2>1, <2>2
<1>5. ReversalsPosted'
  BY DEF ReversalsPosted
<1> QED BY <1>3, <1>4, <1>5 DEF CheckedInv

(* A statement that neither takes a new lock nor checks anything.           *)
LEMMA QuietInv ==
  ASSUME Inv, NEW s \in Sessions, NEW label \in Holding \cup {"closing"}, Step(s, label),
         UNCHANGED <<entry, period, next, req, took>>,
         IsJournalOp(s) => pc[s] \in Holding /\ label \in Holding,
         req[s].op = "transition" => pc[s] \notin {"idle", "begin"}
  PROVE LockInv' /\ CheckedInv' /\ ReversalsPosted'
<1> USE DEF Inv, TypeInv, TypeOK
<1>1. \A t \in Sessions : /\ t # s => pc'[t] = pc[t]
                          /\ IsJournalOp(t)' <=> IsJournalOp(t)
  BY DEF Step, IsJournalOp
<1>2. pc'[s] = label
  BY DEF Step
<1>3. /\ \A t \in Sessions : \A e : HoldsEntry(t, e)' <=> HoldsEntry(t, e)
      /\ \A t \in Sessions : \A q : HoldsSequence(t, q)' <=> HoldsSequence(t, q)
      /\ \A t \in Sessions : \A p : SharesPeriod(t, p)' <=> SharesPeriod(t, p)
      /\ \A t \in Sessions : \A p : OwnsPeriod(t, p)' <=> OwnsPeriod(t, p)
  BY <1>1, <1>2 DEF HoldsEntry, HoldsSequence, SharesPeriod, OwnsPeriod, Holding
<1>4. LockInv'
  BY <1>3 DEF LockInv, EntryExclusive, SequenceExclusive, PeriodExclusive, ReversalExclusive
<1>5. CheckedInv'
  BY <1>1, <1>2, <1>3 DEF CheckedInv, EntryChecked, PeriodChecked, Validated, NumberHeld, MayProceed, Accepts
<1>6. ReversalsPosted'
  BY DEF ReversalsPosted
<1> QED BY <1>4, <1>5, <1>6

-----------------------------------------------------------------------------
(* Drafts: only rows nobody has locked are written.                         *)
LEMMA DraftInv ==
  ASSUME Inv, NEW e \in Entries, Unlocked(e), NEW row \in Entry,
         entry[e].status \in {"ABSENT", "DRAFT"},
         row.reverses = NoEntry,
         entry' = [entry EXCEPT ![e] = row],
         UNCHANGED <<period, next, pc, req, took>>
  PROVE LockInv' /\ CheckedInv' /\ ReversalsPosted'
<1> USE DEF Inv, TypeInv, TypeOK
<1>1. /\ \A s \in Sessions : \A f : HoldsEntry(s, f)' <=> HoldsEntry(s, f)
      /\ \A s \in Sessions : \A q : HoldsSequence(s, q)' <=> HoldsSequence(s, q)
      /\ \A s \in Sessions : \A p : SharesPeriod(s, p)' <=> SharesPeriod(s, p)
      /\ \A s \in Sessions : \A p : OwnsPeriod(s, p)' <=> OwnsPeriod(s, p)
      /\ \A s \in Sessions : IsJournalOp(s)' <=> IsJournalOp(s)
  BY DEF HoldsEntry, HoldsSequence, SharesPeriod, OwnsPeriod, IsJournalOp
<1>2. LockInv'
  BY <1>1 DEF LockInv, EntryExclusive, SequenceExclusive, PeriodExclusive, ReversalExclusive
<1>3. ASSUME NEW s \in Sessions
      PROVE EntryChecked(s)' /\ PeriodChecked(s)' /\ Validated(s)' /\ NumberHeld(s)'
  <2>1. EntryChecked(s) /\ PeriodChecked(s) /\ Validated(s) /\ NumberHeld(s)
    BY DEF CheckedInv
  <2>2. HoldsEntry(s, req[s].entry) => entry'[req[s].entry] = entry[req[s].entry]
    BY DEF Unlocked
  <2>3. EntryChecked(s)'
    <3>1. req[s].reversal # NoEntry => entry'[req[s].reversal] = entry[req[s].reversal]
      BY DEF Unlocked, RequestOK
    <3>2. \A f \in Entries : entry'[f].reverses \in {entry[f].reverses, NoEntry}
      OBVIOUS
    <3>3. HoldsEntry(s, req[s].entry) => req[s].entry # NoEntry
      BY DataAssumption DEF HoldsEntry, RequestOK
    <3> QED BY <1>1, <2>1, <2>2, <3>1, <3>2, <3>3 DEF EntryChecked, MayProceed
  <2>4. Validated(s)'
    BY <1>1, <2>1, <2>2 DEF Validated, HoldsEntry, Holding
  <2> QED BY <1>1, <2>1, <2>3, <2>4 DEF PeriodChecked, NumberHeld, Accepts
<1>4. ReversalsPosted'
  BY DEF ReversalsPosted
<1> QED BY <1>2, <1>3, <1>4 DEF CheckedInv

(* A request that has just arrived holds nothing; a reversal names a row    *)
(* that does not exist and that no other request will create.               *)
LEMMA BeginInv ==
  ASSUME Inv, NEW s \in Sessions, pc[s] = "idle", Step(s, "begin"),
         NEW r \in Request, req' = [req EXCEPT ![s] = r],
         \/ r.reversal = NoEntry
         \/ /\ r.reversal \in Entries /\ entry[r.reversal].status = "ABSENT"
            /\ \A t \in Sessions : req[t].reversal # r.reversal,
         UNCHANGED <<entry, period, next, took>>
  PROVE LockInv' /\ CheckedInv' /\ ReversalsPosted'
<1> USE DEF Inv, TypeInv, TypeOK
<1>1. /\ pc'[s] = "begin" /\ req'[s] = r
      /\ \A t \in Sessions : t # s => pc'[t] = pc[t] /\ req'[t] = req[t] /\ took'[t] = took[t]
      /\ \A t \in Sessions : t # s => (IsJournalOp(t)' <=> IsJournalOp(t))
  BY DEF Step, IsJournalOp
<1>2. LockInv'
  <2>1. \A t \in Sessions :
          /\ \A e : HoldsEntry(t, e)' => HoldsEntry(t, e)
          /\ \A q : HoldsSequence(t, q)' => HoldsSequence(t, q)
          /\ \A p : OwnsPeriod(t, p)' => OwnsPeriod(t, p)
          /\ \A p : SharesPeriod(t, p)' => SharesPeriod(t, p)
    BY <1>1 DEF HoldsEntry, HoldsSequence, OwnsPeriod, SharesPeriod
  <2>2. ReversalExclusive'
    BY <1>1 DEF LockInv, ReversalExclusive
  <2> QED BY <2>1, <2>2 DEF LockInv, EntryExclusive, SequenceExclusive, PeriodExclusive
<1>3. ASSUME NEW t \in Sessions
      PROVE EntryChecked(t)' /\ PeriodChecked(t)' /\ Validated(t)' /\ NumberHeld(t)'
  <2>1. CASE t = s
    BY <1>1, <2>1 DEF EntryChecked, PeriodChecked, Validated, NumberHeld, HoldsEntry, SharesPeriod, Holding
  <2>2. CASE t # s
    BY <1>1, <2>2
    DEF CheckedInv, EntryChecked, PeriodChecked, Validated, NumberHeld, HoldsEntry, SharesPeriod,
        MayProceed, Accepts
  <2> QED BY <2>1, <2>2
<1>4. ReversalsPosted'
  BY DEF ReversalsPosted
<1> QED BY <1>2, <1>3, <1>4 DEF CheckedInv
-----------------------------------------------------------------------------
(* The statements that take a lock: what they need to know of the others is *)
(* that none of them is in the way.                                         *)
LEMMA LockEntryInv ==
  ASSUME Inv, NEW s \in Sessions, LockEntry(s)
  PROVE LockInv' /\ CheckedInv' /\ ReversalsPosted'
<1> USE DEF Inv, TypeInv, TypeOK
<1>1. CASE ~MayProceed(s)
  BY <1>1, EndInv DEF LockEntry, committed
<1>2. CASE MayProceed(s)
  <2>1. /\ pc[s] = "begin" /\ pc'[s] = "entry" /\ IsJournalOp(s)
        /\ \A t \in Sessions : t # s => pc'[t] = pc[t]
        /\ UNCHANGED <<entry, period, next, req, took>>
    BY <1>2 DEF LockEntry, Step, At, committed
  <2>2. \A t \in Sessions : t # s => ~HoldsEntry(t, req[s].entry)
    BY <2>1 DEF LockEntry, At, WaitsFor
  <2>3. \A t \in Sessions :
          /\ \A e : HoldsEntry(t, e)' => HoldsEntry(t, e) \/ (t = s /\ e = req[s].entry)
          /\ \A q : HoldsSequence(t, q)' => HoldsSequence(t, q)
          /\ \A p : OwnsPeriod(t, p)' => OwnsPeriod(t, p)
          /\ \A p : SharesPeriod(t, p)' => SharesPeriod(t, p)
          /\ IsJournalOp(t)' <=> IsJournalOp(t)
    BY <2>1 DEF HoldsEntry, HoldsSequence, OwnsPeriod, SharesPeriod, IsJournalOp, JournalOps
  <2>4. LockInv'
    BY <2>1, <2>2, <2>3
    DEF LockInv, EntryExclusive, SequenceExclusive, PeriodExclusive, ReversalExclusive
  <2>5. \A t \in Sessions : EntryChecked(t)' /\ PeriodChecked(t)' /\ Validated(t)' /\ NumberHeld(t)'
    BY <1>2, <2>1, <2>3
    DEF CheckedInv, EntryChecked, PeriodChecked, Validated, NumberHeld, Holding, MayProceed, Accepts
  <2>6. ReversalsPosted'
    BY <2>1 DEF ReversalsPosted
  <2> QED BY <2>4, <2>5, <2>6 DEF CheckedInv
<1> QED BY <1>1, <1>2

LEMMA LockPeriodInv ==
  ASSUME Inv, NEW s \in Sessions, LockPeriod(s)
  PROVE LockInv' /\ CheckedInv' /\ ReversalsPosted'
<1> USE DEF Inv, TypeInv, TypeOK
<1>1. CASE ~Accepts(s, period[req[s].period])
  BY <1>1, EndInv DEF LockPeriod, committed
<1>2. CASE Accepts(s, period[req[s].period])
  <2>1. /\ pc[s] = "entry" /\ pc'[s] = "period" /\ IsJournalOp(s)
        /\ \A t \in Sessions : t # s => pc'[t] = pc[t]
        /\ UNCHANGED <<entry, period, next, req, took>>
    BY <1>2 DEF LockPeriod, Step, At, committed, RequestOK, Request, IsJournalOp, JournalOps
  <2>2. \A t \in Sessions : ~OwnsPeriod(t, req[s].period)
    BY <2>1 DEF LockPeriod, At, WaitsFor, OwnsPeriod, IsJournalOp, JournalOps
  <2>3. \A t \in Sessions :
          /\ \A e : HoldsEntry(t, e)' => HoldsEntry(t, e)
          /\ \A q : HoldsSequence(t, q)' => HoldsSequence(t, q)
          /\ \A p : OwnsPeriod(t, p)' => OwnsPeriod(t, p)
          /\ \A p : SharesPeriod(t, p)' => SharesPeriod(t, p) \/ (t = s /\ p = req[s].period)
          /\ IsJournalOp(t)' <=> IsJournalOp(t)
    BY <2>1 DEF HoldsEntry, HoldsSequence, OwnsPeriod, SharesPeriod, IsJournalOp, JournalOps
  <2>4. LockInv'
    BY <2>1, <2>2, <2>3
    DEF LockInv, EntryExclusive, SequenceExclusive, PeriodExclusive, ReversalExclusive
  <2>5. \A t \in Sessions : EntryChecked(t)' /\ PeriodChecked(t)' /\ Validated(t)' /\ NumberHeld(t)'
    BY <1>2, <2>1, <2>3
    DEF CheckedInv, EntryChecked, PeriodChecked, Validated, NumberHeld, Holding, MayProceed, Accepts
  <2>6. ReversalsPosted'
    BY <2>1 DEF ReversalsPosted
  <2> QED BY <2>4, <2>5, <2>6 DEF CheckedInv
<1> QED BY <1>1, <1>2

LEMMA PrepareInv ==
  ASSUME Inv, NEW s \in Sessions, Prepare(s)
  PROVE LockInv' /\ CheckedInv' /\ ReversalsPosted'
<1> USE DEF Inv, TypeInv, TypeOK
<1> DEFINE e == req[s].entry
           valid == entry[e].balanced /\ (req[s].op = "post" => req[s].period = entry[e].period)
<1>1. CASE ~valid
  BY <1>1, EndInv DEF Prepare, committed
<1>2. CASE valid
  <2>0. pc[s] = "period" /\ IsJournalOp(s)
    BY DEF Prepare, At, RequestOK, Request, IsJournalOp, JournalOps
  <2>1. /\ pc[s] = "period" /\ pc'[s] = "sequence" /\ IsJournalOp(s)
        /\ \A t \in Sessions : t # s => pc'[t] = pc[t] /\ took'[t] = took[t]
        /\ took'[s].sequence = SequenceFor(entry[e].branch)
        /\ UNCHANGED <<entry, period, next, req>>
    BY <1>2, <2>0 DEF Prepare, Step, committed
  <2>2. \A t \in Sessions :
          /\ \A f : HoldsEntry(t, f)' => HoldsEntry(t, f)
          /\ \A q : HoldsSequence(t, q)' => HoldsSequence(t, q)
          /\ \A p : OwnsPeriod(t, p)' => OwnsPeriod(t, p)
          /\ \A p : SharesPeriod(t, p)' => SharesPeriod(t, p)
          /\ IsJournalOp(t)' <=> IsJournalOp(t)
    BY <2>1 DEF HoldsEntry, HoldsSequence, OwnsPeriod, SharesPeriod, IsJournalOp, JournalOps
  <2>3. LockInv'
    BY <2>1, <2>2
    DEF LockInv, EntryExclusive, SequenceExclusive, PeriodExclusive, ReversalExclusive
  <2>4. \A t \in Sessions : EntryChecked(t)' /\ PeriodChecked(t)' /\ Validated(t)' /\ NumberHeld(t)'
    BY <1>2, <2>1, <2>2
    DEF CheckedInv, EntryChecked, PeriodChecked, Validated, NumberHeld, Holding, MayProceed, Accepts
  <2>5. ReversalsPosted'
    BY <2>1 DEF ReversalsPosted
  <2> QED BY <2>3, <2>4, <2>5 DEF CheckedInv
<1> QED BY <1>1, <1>2

LEMMA AllocateInv ==
  ASSUME Inv, NEW s \in Sessions, AllocateNumber(s)
  PROVE LockInv' /\ CheckedInv' /\ ReversalsPosted'
<1> USE DEF Inv, TypeInv, TypeOK
<1> DEFINE q == took[s].sequence
<1>1. CASE took[s].created /\ next[q] # 0
  BY <1>1, EndInv DEF AllocateNumber, committed
<1>2. CASE ~(took[s].created /\ next[q] # 0)
  <2>0. pc[s] = "sequence" /\ IsJournalOp(s)
    BY DEF AllocateNumber, At, RequestOK, Request, IsJournalOp, JournalOps
  <2>1. /\ pc[s] = "sequence" /\ pc'[s] = "numbered" /\ IsJournalOp(s)
        /\ \A t \in Sessions : t # s => pc'[t] = pc[t] /\ took'[t] = took[t]
        /\ took'[s].sequence = q /\ took'[s].number = NumberFrom(next[q])
        /\ UNCHANGED <<entry, period, next, req>>
    BY <1>2, <2>0 DEF AllocateNumber, Step, committed, Taken
  <2>2. \A t \in Sessions : t # s => ~HoldsSequence(t, q)
    BY <2>1 DEF AllocateNumber, At, WaitsFor
  <2>3. \A t \in Sessions :
          /\ \A f : HoldsEntry(t, f)' => HoldsEntry(t, f)
          /\ \A k : HoldsSequence(t, k)' => HoldsSequence(t, k) \/ (t = s /\ k = q)
          /\ \A p : OwnsPeriod(t, p)' => OwnsPeriod(t, p)
          /\ \A p : SharesPeriod(t, p)' => SharesPeriod(t, p)
          /\ IsJournalOp(t)' <=> IsJournalOp(t)
    BY <2>1 DEF HoldsEntry, HoldsSequence, OwnsPeriod, SharesPeriod, IsJournalOp, JournalOps
  <2>4. LockInv'
    <3>1. SequenceExclusive'
      BY <2>2, <2>3 DEF LockInv, SequenceExclusive
    <3> QED BY <2>1, <2>3, <3>1 DEF LockInv, EntryExclusive, PeriodExclusive, ReversalExclusive
  <2>5. \A t \in Sessions : EntryChecked(t)' /\ PeriodChecked(t)' /\ Validated(t)' /\ NumberHeld(t)'
    BY <2>1, <2>3
    DEF CheckedInv, EntryChecked, PeriodChecked, Validated, NumberHeld, Holding, MayProceed, Accepts
  <2>6. ReversalsPosted'
    BY <2>1 DEF ReversalsPosted
  <2> QED BY <2>4, <2>5, <2>6 DEF CheckedInv
<1> QED BY <1>1, <1>2

LEMMA LockPeriodForCloseInv ==
  ASSUME Inv, NEW s \in Sessions, LockPeriodForClose(s)
  PROVE LockInv' /\ CheckedInv' /\ ReversalsPosted'
<1> USE DEF Inv, TypeInv, TypeOK
<1>1. CASE period[req[s].period] \notin TransitionFrom[req[s].to]
  BY <1>1, EndInv DEF LockPeriodForClose, committed
<1>2. CASE period[req[s].period] \in TransitionFrom[req[s].to]
  <2>1. /\ pc[s] = "begin" /\ pc'[s] = "closing" /\ req[s].op = "transition"
        /\ \A t \in Sessions : t # s => pc'[t] = pc[t]
        /\ UNCHANGED <<entry, period, next, req, took>>
    BY <1>2 DEF LockPeriodForClose, Step, At, committed
  <2>2. \A t \in Sessions : ~SharesPeriod(t, req[s].period)
    BY <2>1 DEF LockPeriodForClose, At, WaitsFor, SharesPeriod, IsJournalOp, JournalOps
  <2>3. \A t \in Sessions :
          /\ \A f : HoldsEntry(t, f)' => HoldsEntry(t, f)
          /\ \A q : HoldsSequence(t, q)' => HoldsSequence(t, q)
          /\ \A p : OwnsPeriod(t, p)' => OwnsPeriod(t, p) \/ (t = s /\ p = req[s].period)
          /\ \A p : SharesPeriod(t, p)' => SharesPeriod(t, p)
          /\ IsJournalOp(t)' <=> IsJournalOp(t)
    BY <2>1 DEF HoldsEntry, HoldsSequence, OwnsPeriod, SharesPeriod, IsJournalOp, JournalOps
  <2>4. LockInv'
    BY <2>1, <2>2, <2>3
    DEF LockInv, EntryExclusive, SequenceExclusive, PeriodExclusive, ReversalExclusive
  <2>5. \A t \in Sessions : EntryChecked(t)' /\ PeriodChecked(t)' /\ Validated(t)' /\ NumberHeld(t)'
    BY <2>1, <2>3
    DEF CheckedInv, EntryChecked, PeriodChecked, Validated, NumberHeld, Holding, MayProceed, Accepts,
        IsJournalOp, JournalOps
  <2>6. ReversalsPosted'
    BY <2>1 DEF ReversalsPosted
  <2> QED BY <2>4, <2>5, <2>6 DEF CheckedInv
<1> QED BY <1>1, <1>2
-----------------------------------------------------------------------------
(* What a commit writes into journal_entries.                               *)
LEMMA CommitEffect ==
  ASSUME Inv, NEW s \in Sessions, CommitPosting(s)
  PROVE LET e == req[s].entry  r == req[s].reversal  q == took[s].sequence  n == took[s].number IN
        /\ e \in Entries /\ HoldsEntry(s, e) /\ SharesPeriod(s, req[s].period)
        /\ req[s].period \in Periods /\ Accepts(s, period[req[s].period])
        /\ HoldsSequence(s, q) /\ q \in Branch /\ n = NumberFrom(next[q])
        /\ entry[e].balanced
        /\ \A f \in Entries : f \notin {e, r} => entry'[f] = entry[f]
        /\ \/ /\ req[s].op = "post" /\ entry[e].status = "DRAFT"
              /\ entry[e].period = req[s].period /\ r = NoEntry
              /\ entry'[e] = PostedAs(entry[e], q, n)
           \/ /\ req[s].op = "reverse" /\ entry[e].status = "POSTED"
              /\ r \in Entries /\ r # e /\ entry[r].status = "ABSENT"
              /\ \A f \in Entries : entry[f].reverses # e
              /\ entry'[e] = [entry[e] EXCEPT !.status = "REVERSED"]
              /\ entry'[r] = PostedAs(ReversalOf(e, entry[e], req[s].period), q, n)
<1> USE DEF Inv, TypeInv, TypeOK
<1> DEFINE e == req[s].entry
           r == req[s].reversal
           q == took[s].sequence
           n == took[s].number
<1>1. /\ pc[s] = "ready" /\ IsJournalOp(s) /\ e \in Entries /\ req[s].period \in Periods
      /\ q \in Branch /\ entry' = View(s)
  BY DEF CommitPosting, RequestOK, Taken
<1>2. HoldsEntry(s, e) /\ SharesPeriod(s, req[s].period) /\ HoldsSequence(s, q)
  BY <1>1 DEF HoldsEntry, SharesPeriod, HoldsSequence
<1>3. EntryChecked(s) /\ PeriodChecked(s) /\ Validated(s) /\ NumberHeld(s)
  BY DEF CheckedInv
<1>4. Accepts(s, period[req[s].period]) /\ n = NumberFrom(next[q]) /\ entry[e].balanced
  BY <1>1, <1>2, <1>3 DEF PeriodChecked, NumberHeld, Validated, Holding
<1>5. CASE req[s].op = "post"
  <2>1. r = NoEntry /\ entry[e].status = "DRAFT" /\ entry[e].period = req[s].period
    BY <1>1, <1>2, <1>3, <1>5 DEF RequestOK, EntryChecked, MayProceed, Validated, Holding
  <2>2. entry' = [entry EXCEPT ![e] = PostedAs(entry[e], q, n)]
    BY <1>1, <1>5 DEF View, AfterPost
  <2> QED BY <1>1, <1>2, <1>4, <1>5, <2>1, <2>2
<1>6. CASE req[s].op = "reverse"
  <2>1. /\ r \in Entries /\ r # e /\ entry[r].status = "ABSENT"
        /\ entry[e].status = "POSTED" /\ \A f \in Entries : entry[f].reverses # e
    BY <1>1, <1>2, <1>3, <1>6, DataAssumption DEF RequestOK, EntryChecked, MayProceed
  <2>2. entry' = [entry EXCEPT ![e].status = "REVERSED",
                               ![r] = PostedAs(ReversalOf(e, entry[e], req[s].period), q, n)]
    BY <1>1, <1>6 DEF View, AfterReverse
  <2> QED BY <1>1, <1>2, <1>4, <1>6, <2>1, <2>2
<1> QED BY <1>1, <1>5, <1>6 DEF IsJournalOp, JournalOps

(* The same, field by field.                                                *)
LEMMA CommitFields ==
  ASSUME Inv, NEW s \in Sessions, CommitPosting(s)
  PROVE LET e == req[s].entry  r == req[s].reversal  q == took[s].sequence  n == took[s].number IN
        /\ entry'[e].accounts = entry[e].accounts /\ entry'[e].balanced = entry[e].balanced
        /\ entry'[e].period = entry[e].period /\ entry'[e].reverses = entry[e].reverses
        /\ req[s].op = "post" =>
             entry'[e].status = "POSTED" /\ entry'[e].sequence = q /\ entry'[e].number = n
        /\ req[s].op = "reverse" =>
             /\ entry'[e] = [entry[e] EXCEPT !.status = "REVERSED"]
             /\ entry'[e].status = "REVERSED"
             /\ entry'[e].sequence = entry[e].sequence /\ entry'[e].number = entry[e].number
             /\ entry'[r].status = "POSTED" /\ entry'[r].sequence = q /\ entry'[r].number = n
             /\ entry'[r].period = req[s].period /\ entry'[r].accounts = entry[e].accounts
             /\ entry'[r].balanced = entry[e].balanced /\ entry'[r].reverses = e
<1> DEFINE e == req[s].entry
           r == req[s].reversal
           q == took[s].sequence
           n == took[s].number
<1>1. e \in Entries /\ entry[e] \in Entry /\ q \in Branch /\ n \in Nat /\ req[s].period \in Periods
  BY CommitEffect DEF Inv, TypeInv, TypeOK, Taken
<1>2. CASE req[s].op = "post"
  <2>1. entry'[e] = PostedAs(entry[e], q, n)
    BY <1>2, CommitEffect
  <2> QED BY <1>1, <1>2, <2>1, RowFields
<1>3. CASE req[s].op = "reverse"
  <2>1. /\ entry'[e] = [entry[e] EXCEPT !.status = "REVERSED"]
        /\ entry'[r] = PostedAs(ReversalOf(e, entry[e], req[s].period), q, n)
    BY <1>3, CommitEffect
  <2>2. LET row == [entry[e] EXCEPT !.status = "REVERSED"] IN
        /\ row.status = "REVERSED" /\ row.accounts = entry[e].accounts
        /\ row.balanced = entry[e].balanced /\ row.period = entry[e].period
        /\ row.reverses = entry[e].reverses /\ row.sequence = entry[e].sequence
        /\ row.number = entry[e].number
    BY <1>1 DEF Entry
  <2> QED BY <1>1, <1>3, <2>1, <2>2, RowFields
<1> QED BY <1>2, <1>3, CommitEffect

LEMMA CommitPostingInv ==
  ASSUME Inv, NEW s \in Sessions, CommitPosting(s)
  PROVE LockInv' /\ CheckedInv' /\ ReversalsPosted'
<1> USE DEF Inv, TypeInv, TypeOK
<1> DEFINE e == req[s].entry
           r == req[s].reversal
           q == took[s].sequence
<1>1. /\ pc'[s] = "idle" /\ req'[s] = NoRequest
      /\ \A t \in Sessions : t # s => pc'[t] = pc[t] /\ req'[t] = req[t] /\ took'[t] = took[t]
      /\ next' = [next EXCEPT ![q] = took[s].number + 1]
      /\ UNCHANGED period
  BY DEF CommitPosting, ReplaceRows
<1>2. /\ ~IsJournalOp(s)' /\ req'[s].op = "none" /\ req'[s].reversal = NoEntry
      /\ \A t \in Sessions : t # s => (IsJournalOp(t)' <=> IsJournalOp(t))
  BY <1>1 DEF NoRequest, IsJournalOp, JournalOps
<1>3. LockInv'
  <2>1. \A t \in Sessions :
          /\ \A f : HoldsEntry(t, f)' => HoldsEntry(t, f)
          /\ \A k : HoldsSequence(t, k)' => HoldsSequence(t, k)
          /\ \A p : OwnsPeriod(t, p)' => OwnsPeriod(t, p)
          /\ \A p : SharesPeriod(t, p)' => SharesPeriod(t, p)
          /\ req'[t].reversal # NoEntry => req'[t].reversal = req[t].reversal
    BY <1>1, <1>2 DEF HoldsEntry, HoldsSequence, OwnsPeriod, SharesPeriod
  <2> QED BY <2>1 DEF LockInv, EntryExclusive, SequenceExclusive, PeriodExclusive, ReversalExclusive
<1>4. ASSUME NEW t \in Sessions
      PROVE EntryChecked(t)' /\ PeriodChecked(t)' /\ Validated(t)' /\ NumberHeld(t)'
  <2>1. CASE t = s
    BY <1>1, <1>2, <2>1 DEF EntryChecked, PeriodChecked, Validated, NumberHeld, HoldsEntry, SharesPeriod
  <2>2. CASE t # s
    <3> DEFINE f == req[t].entry
    <3>1. EntryChecked(t) /\ PeriodChecked(t) /\ Validated(t) /\ NumberHeld(t)
      BY DEF CheckedInv
    <3>2. e \in Entries /\ HoldsEntry(s, e) /\ HoldsSequence(s, q) /\ entry[e].status \in {"DRAFT", "POSTED"}
      BY CommitEffect
    <3>3. \A g \in Entries : g \notin {e, r} => entry'[g] = entry[g]
      BY CommitEffect
    <3>4. HoldsEntry(t, f) => f \in Entries /\ f # e /\ f # r
      <4>1. HoldsEntry(t, f) => f \in Entries /\ entry[f].status \in {"DRAFT", "POSTED"}
        BY <3>1 DEF HoldsEntry, RequestOK, EntryChecked, MayProceed
      <4>2. r # NoEntry => entry[r].status = "ABSENT"
        BY DEF CheckedInv, EntryChecked
      <4> QED BY <2>2, <3>2, <4>1, <4>2, DataAssumption DEF LockInv, EntryExclusive
    <3>5. req[t].reversal # NoEntry => /\ req[t].reversal \in Entries
                                      /\ req[t].reversal # e /\ req[t].reversal # r
      BY <2>2, <3>1, <3>2 DEF LockInv, ReversalExclusive, EntryChecked, RequestOK
    <3>6. \A g \in Entries : entry'[g].reverses \in {entry[g].reverses, e}
      <4>1. entry'[e].reverses = entry[e].reverses
        BY CommitFields
      <4>2. r # NoEntry => entry'[r].reverses = e
        BY CommitEffect, CommitFields
      <4> QED BY <3>3, <4>1, <4>2, DataAssumption
    <3>7. EntryChecked(t)'
      <4>1. HoldsEntry(t, f)' => HoldsEntry(t, f)
        BY <1>1, <1>2, <2>2 DEF HoldsEntry
      <4>2. HoldsEntry(t, f) => entry'[f] = entry[f] /\ MayProceed(t)
        BY <3>1, <3>3, <3>4 DEF EntryChecked
      <4>3. HoldsEntry(t, f) => MayProceed(t)'
        BY <1>1, <2>2, <3>4, <3>6, <4>2 DEF MayProceed
      <4>4. req[t].reversal # NoEntry => entry'[req[t].reversal].status = "ABSENT"
        BY <3>1, <3>3, <3>5 DEF EntryChecked
      <4> QED BY <1>1, <2>2, <4>1, <4>3, <4>4 DEF EntryChecked
    <3>8. PeriodChecked(t)'
      BY <1>1, <1>2, <2>2, <3>1 DEF PeriodChecked, SharesPeriod, Accepts
    <3>9. Validated(t)'
      <4>1. IsJournalOp(t) /\ pc[t] \in Holding \cup {"sequence"} => entry'[f] = entry[f]
        BY <3>3, <3>4 DEF HoldsEntry, Holding
      <4> QED BY <1>1, <1>2, <2>2, <3>1, <4>1 DEF Validated
    <3>10. NumberHeld(t)'
      <4>1. IsJournalOp(t) /\ pc[t] \in Holding => HoldsSequence(t, took[t].sequence)
        BY DEF HoldsSequence, Holding
      <4>2. took[t].sequence \in Branch /\ q \in Branch
        BY DEF Taken
      <4>3. IsJournalOp(t) /\ pc[t] \in Holding => took[t].sequence # q
        BY <2>2, <3>2, <4>1, <4>2 DEF LockInv, SequenceExclusive
      <4> QED BY <1>1, <1>2, <2>2, <3>1, <4>2, <4>3 DEF NumberHeld
    <3> QED BY <3>7, <3>8, <3>9, <3>10
  <2> QED BY <2>1, <2>2
<1>5. ReversalsPosted'
  <2>1. \A f \in Entries : f \notin {e, r} => entry'[f] = entry[f]
    BY CommitEffect
  <2>2. e \in Entries /\ entry'[e].status \in {"POSTED", "REVERSED"}
    BY CommitEffect, CommitFields
  <2>3. r # NoEntry => entry'[r].status = "POSTED"
    BY CommitEffect, CommitFields
  <2> QED BY <2>1, <2>2, <2>3, DataAssumption DEF ReversalsPosted
<1> QED BY <1>3, <1>4, <1>5 DEF CheckedInv

LEMMA CommitTransitionInv ==
  ASSUME Inv, NEW s \in Sessions, CommitTransition(s)
  PROVE LockInv' /\ CheckedInv' /\ ReversalsPosted'
<1> DEFINE p == req[s].period
<1>1. p \in Periods /\ OwnsPeriod(s, p)
  BY DEF Inv, TypeInv, RequestOK, CommitTransition, OwnsPeriod
<1>2. \A q \in Periods : q # p => period'[q] = period[q]
  BY DEF Inv, TypeInv, TypeOK, CommitTransition
<1>3. EndWithNothing(s) /\ UNCHANGED <<entry, next>>
  BY DEF CommitTransition
<1> QED BY <1>1, <1>2, <1>3, EndInv

LEMMA CommitRebuildInv ==
  ASSUME Inv, NEW s \in Sessions, CommitRebuild(s)
  PROVE LockInv' /\ CheckedInv' /\ ReversalsPosted'
<1> USE DEF Inv, TypeInv, TypeOK
<1>1. /\ pc'[s] = "idle" /\ req'[s] = NoRequest /\ UNCHANGED <<entry, next, period>>
      /\ \A t \in Sessions : t # s => pc'[t] = pc[t] /\ req'[t] = req[t] /\ took'[t] = took[t]
  BY DEF CommitRebuild, ReplaceRows
<1>2. /\ ~IsJournalOp(s)' /\ req'[s].op = "none" /\ req'[s].reversal = NoEntry
      /\ \A t \in Sessions : t # s => (IsJournalOp(t)' <=> IsJournalOp(t))
  BY <1>1 DEF NoRequest, IsJournalOp, JournalOps
<1>3. \A t \in Sessions :
        /\ \A f : HoldsEntry(t, f)' => HoldsEntry(t, f)
        /\ \A q : HoldsSequence(t, q)' => HoldsSequence(t, q)
        /\ \A p : OwnsPeriod(t, p)' => OwnsPeriod(t, p)
        /\ \A p : SharesPeriod(t, p)' => SharesPeriod(t, p)
        /\ req'[t].reversal # NoEntry => req'[t].reversal = req[t].reversal
  BY <1>1, <1>2 DEF HoldsEntry, HoldsSequence, OwnsPeriod, SharesPeriod
<1>4. LockInv'
  BY <1>3 DEF LockInv, EntryExclusive, SequenceExclusive, PeriodExclusive, ReversalExclusive
<1>5. ASSUME NEW t \in Sessions
      PROVE EntryChecked(t)' /\ PeriodChecked(t)' /\ Validated(t)' /\ NumberHeld(t)'
  <2>1. CASE t = s
    BY <1>1, <1>2, <2>1 DEF EntryChecked, PeriodChecked, Validated, NumberHeld, HoldsEntry, SharesPeriod
  <2>2. CASE t # s
    BY <1>1, <1>2, <1>3, <2>2
    DEF CheckedInv, EntryChecked, PeriodChecked, Validated, NumberHeld, MayProceed, Accepts
  <2> QED BY <2>1, <2>2
<1>6. ReversalsPosted'
  BY <1>1 DEF ReversalsPosted
<1> QED BY <1>4, <1>5, <1>6 DEF CheckedInv
-----------------------------------------------------------------------------
LEMMA InvStep == Inv /\ [Next]_vars => Inv'
<1> SUFFICES ASSUME Inv, [Next]_vars PROVE LockInv' /\ CheckedInv' /\ ReversalsPosted'
  BY TypeStep DEF Inv
<1> DEFINE Kept == LockInv' /\ CheckedInv' /\ ReversalsPosted'
<1> USE DEF Inv, TypeInv, TypeOK
<1>1. ASSUME NEW e \in Entries, NEW c \in Contents, CreateDraft(e, c) PROVE Kept
  <2>1. DraftOf(c) \in Entry /\ DraftOf(c).reverses = NoEntry
    BY RowTypes, DataAssumption DEF DraftOf, Absent
  <2> QED BY <1>1, <2>1, DraftInv DEF CreateDraft
<1>2. ASSUME NEW e \in Entries, NEW c \in Contents, UpdateDraft(e, c) PROVE Kept
  <2> DEFINE row == [entry[e] EXCEPT !.accounts = c.accounts, !.balanced = c.balanced]
  <2>1. /\ entry[e] \in Entry /\ entry[e].reverses = NoEntry
        /\ c.accounts \in SUBSET Accounts /\ c.balanced \in BOOLEAN
    BY <1>2, DataAssumption DEF UpdateDraft, ReversalsPosted, Content
  <2>2. row \in Entry /\ row.reverses = NoEntry
    BY <2>1 DEF Entry
  <2>3. entry' = [entry EXCEPT ![e] = row]
    BY <1>2 DEF UpdateDraft
  <2> QED BY <1>2, <2>2, <2>3, DraftInv DEF UpdateDraft
<1>3. ASSUME NEW e \in Entries, DiscardDraft(e) PROVE Kept
  <2> DEFINE row == [Absent EXCEPT !.status = "DISCARDED"]
  <2>1. row \in Entry /\ row.reverses = NoEntry
    BY RowTypes DEF Entry, Absent
  <2> QED BY <1>3, <2>1, DraftInv DEF DiscardDraft
<1>4. ASSUME NEW s \in Sessions, NEW e \in Entries, NEW p \in Periods, BeginPost(s, e, p) PROVE Kept
  <2> DEFINE r == [NoRequest EXCEPT !.op = "post", !.entry = e, !.period = p]
  <2>1. r \in Request /\ r.reversal = NoEntry
    BY DEF NoRequest, Request, PeriodStatus
  <2> QED BY <1>4, <2>1, BeginInv DEF BeginPost, committed
<1>5. ASSUME NEW s \in Sessions, NEW e \in Entries, NEW r \in Entries, NEW p \in Periods,
             BeginReverse(s, e, r, p)
      PROVE Kept
  <2> DEFINE q == [NoRequest EXCEPT !.op = "reverse", !.entry = e, !.reversal = r, !.period = p]
  <2>1. q \in Request /\ q.reversal = r
    BY DEF NoRequest, Request, PeriodStatus
  <2> QED BY <1>5, <2>1, BeginInv DEF BeginReverse, committed
<1>6. ASSUME NEW s \in Sessions, NEW p \in Periods, NEW to \in PeriodStatus,
             BeginTransition(s, p, to)
      PROVE Kept
  <2> DEFINE r == [NoRequest EXCEPT !.op = "transition", !.period = p, !.to = to]
  <2>1. r \in Request /\ r.reversal = NoEntry
    BY DEF NoRequest, Request
  <2> QED BY <1>6, <2>1, BeginInv DEF BeginTransition, committed
<1>7. ASSUME NEW s \in Sessions, BeginRebuild(s) PROVE Kept
  <2> DEFINE r == [NoRequest EXCEPT !.op = "rebuild"]
  <2>1. r \in Request /\ r.reversal = NoEntry
    BY DEF NoRequest, Request, PeriodStatus
  <2> QED BY <1>7, <2>1, BeginInv DEF BeginRebuild, committed
<1>8. ASSUME NEW s \in Sessions, Rollback(s) PROVE Kept
  BY <1>8, EndInv DEF Rollback, committed
<1>9. ASSUME NEW s \in Sessions,
             LockEntry(s) \/ LockPeriod(s) \/ Prepare(s) \/ AllocateNumber(s) \/ LockPeriodForClose(s)
      PROVE Kept
  BY <1>9, LockEntryInv, LockPeriodInv, PrepareInv, AllocateInv, LockPeriodForCloseInv
<1>10. ASSUME NEW s \in Sessions, StartClear(s) PROVE Kept
  BY <1>10, QuietInv DEF StartClear, committed, At, Holding, RequestOK, IsJournalOp, JournalOps
<1>11. ASSUME NEW s \in Sessions, FinishClear(s) PROVE Kept
  BY <1>11, QuietInv DEF FinishClear, committed, At, Holding
<1>12. ASSUME NEW s \in Sessions, InsertRows(s) PROVE Kept
  <2>1. CASE Collides(s)
    BY <1>12, <2>1, EndInv DEF InsertRows, committed
  <2>2. CASE ~Collides(s)
    BY <1>12, <2>2, QuietInv DEF InsertRows, committed, At, Holding
  <2> QED BY <2>1, <2>2
<1>13. ASSUME NEW s \in Sessions, Audit(s) PROVE Kept
  BY <1>13, QuietInv DEF Audit, committed, At, Holding
<1>14. ASSUME NEW s \in Sessions, CheckEarlier(s) PROVE Kept
  <2> DEFINE ok == req[s].to = "HARD_CLOSED" => EarlierPeriodsClosed(req[s].period)
  <2>1. CASE ~ok
    BY <1>14, <2>1, EndInv DEF CheckEarlier, committed
  <2>2. CASE ok
    <3>1. pc[s] = "closing" /\ Step(s, "written") /\ UNCHANGED <<entry, period, next, req, took>>
      BY <1>14, <2>2 DEF CheckEarlier, committed, At
    <3> QED BY <3>1, QuietInv DEF Holding, RequestOK
  <2> QED BY <2>1, <2>2
<1>15. ASSUME NEW s \in Sessions, CommitPosting(s) \/ CommitRebuild(s) \/ CommitTransition(s) PROVE Kept
  BY <1>15, CommitPostingInv, CommitRebuildInv, CommitTransitionInv
<1>16. CASE UNCHANGED vars
  BY <1>16
  DEF vars, LockInv, EntryExclusive, SequenceExclusive, PeriodExclusive, ReversalExclusive, CheckedInv,
      EntryChecked, PeriodChecked, Validated, NumberHeld, ReversalsPosted, HoldsEntry, HoldsSequence,
      OwnsPeriod, SharesPeriod, MayProceed, Accepts, IsJournalOp
<1> QED
  BY <1>1, <1>2, <1>3, <1>4, <1>5, <1>6, <1>7, <1>8, <1>9, <1>10, <1>11, <1>12, <1>13, <1>14, <1>15,
     <1>16
  DEF Next, Drafting, Arrival, Statement

(* Locks are exclusive, and what was checked under one stays true.          *)
THEOREM Invariance == Spec => []Inv
  BY InvInit, InvStep, PTL DEF Spec
-----------------------------------------------------------------------------
(* The steps that write journal_entries: a draft, or the commit of a post.  *)
LEMMA JournalStep ==
  ASSUME Inv, [Next]_vars
  PROVE \/ UNCHANGED <<entry, next>>
        \/ \E e \in Entries : /\ entry[e].status \in {"ABSENT", "DRAFT"} /\ Unlocked(e)
                              /\ entry'[e].status \in {"DRAFT", "DISCARDED"}
                              /\ entry'[e].reverses = NoEntry
                              /\ \A f \in Entries : f # e => entry'[f] = entry[f]
                              /\ UNCHANGED next
        \/ \E s \in Sessions : CommitPosting(s)
<1> USE DEF Inv, TypeInv, TypeOK
<1>1. ASSUME NEW e \in Entries, NEW c \in Contents, CreateDraft(e, c)
      PROVE /\ entry[e].status = "ABSENT" /\ entry'[e].status = "DRAFT" /\ entry'[e].reverses = NoEntry
            /\ Unlocked(e) /\ \A f \in Entries : f # e => entry'[f] = entry[f]
            /\ UNCHANGED next
  BY <1>1 DEF CreateDraft, DraftOf, Absent
<1>2. ASSUME NEW e \in Entries, NEW c \in Contents, UpdateDraft(e, c)
      PROVE /\ entry[e].status = "DRAFT" /\ entry'[e].status = "DRAFT" /\ entry'[e].reverses = NoEntry
            /\ Unlocked(e) /\ \A f \in Entries : f # e => entry'[f] = entry[f]
            /\ UNCHANGED next
  BY <1>2 DEF UpdateDraft, ReversalsPosted, Entry
<1>3. ASSUME NEW e \in Entries, DiscardDraft(e)
      PROVE /\ entry[e].status = "DRAFT" /\ entry'[e].status = "DISCARDED" /\ entry'[e].reverses = NoEntry
            /\ Unlocked(e) /\ \A f \in Entries : f # e => entry'[f] = entry[f]
            /\ UNCHANGED next
  BY <1>3 DEF DiscardDraft, Absent
<1>4. Drafting => \E e \in Entries :
        /\ entry[e].status \in {"ABSENT", "DRAFT"} /\ entry'[e].status \in {"DRAFT", "DISCARDED"}
        /\ entry'[e].reverses = NoEntry /\ \A f \in Entries : f # e => entry'[f] = entry[f]
        /\ Unlocked(e) /\ UNCHANGED next
  BY <1>1, <1>2, <1>3 DEF Drafting
<1>5. ASSUME NEW s \in Sessions, Arrival(s) \/ Rollback(s) PROVE UNCHANGED <<entry, next>>
  BY <1>5 DEF Arrival, BeginPost, BeginReverse, BeginTransition, BeginRebuild, Rollback, committed
<1>6. ASSUME NEW s \in Sessions, Statement(s), ~CommitPosting(s) PROVE UNCHANGED <<entry, next>>
  BY <1>6 DEF Statement, LockEntry, LockPeriod, Prepare, AllocateNumber, StartClear, FinishClear,
              InsertRows, Audit, CommitRebuild, LockPeriodForClose, CheckEarlier, CommitTransition,
              committed
<1>7. CASE UNCHANGED vars
  BY <1>7 DEF vars
<1> QED BY <1>4, <1>5, <1>6, <1>7 DEF Next

(* A commit adds one entry to the ledger and leaves what was there.         *)
Added(s) == IF req[s].op = "post" THEN req[s].entry ELSE req[s].reversal

LEMMA CommitAdds ==
  ASSUME Inv, NEW s \in Sessions, CommitPosting(s)
  PROVE /\ Added(s) \in Entries \ Counted(entry)
        /\ Counted(entry') = Counted(entry) \cup {Added(s)}
        /\ entry'[Added(s)].sequence = took[s].sequence
        /\ entry'[Added(s)].number = took[s].number
        /\ entry'[Added(s)].period = req[s].period
        /\ entry'[Added(s)].balanced
        /\ \A f \in Counted(entry) : /\ entry'[f].status \in {entry[f].status, "REVERSED"}
                                     /\ entry'[f] = [entry[f] EXCEPT !.status = entry'[f].status]
<1> USE DEF Inv, TypeInv, TypeOK
<1> DEFINE e == req[s].entry
           r == req[s].reversal
<1>1. CASE req[s].op = "post"
  <2>1. /\ e \in Entries /\ entry[e].status = "DRAFT" /\ entry'[e].status = "POSTED"
        /\ \A f \in Entries : f # e => entry'[f] = entry[f]
    <3>1. r \notin Entries
      BY <1>1, CommitEffect, DataAssumption
    <3>2. e \in Entries /\ entry[e].status = "DRAFT" /\ \A f \in Entries : f \notin {e, r} => entry'[f] = entry[f]
      BY <1>1, CommitEffect
    <3> QED BY <1>1, <3>1, <3>2, CommitFields
  <2>2. \A f \in Counted(entry) : entry'[f] = [entry[f] EXCEPT !.status = entry'[f].status]
    BY <2>1 DEF Counted, Entry
  <2>3. Counted(entry') = Counted(entry) \cup {e}
    BY <2>1 DEF Counted
  <2>4. entry'[e].sequence = took[s].sequence /\ entry'[e].number = took[s].number
        /\ entry'[e].period = req[s].period /\ entry'[e].balanced
    <3>1. entry[e].period = req[s].period /\ entry[e].balanced
      BY <1>1, CommitEffect
    <3> QED BY <1>1, <3>1, CommitFields
  <2> QED BY <1>1, <2>1, <2>2, <2>3, <2>4 DEF Added, Counted
<1>2. CASE req[s].op = "reverse"
  <2>1. /\ e \in Entries /\ entry[e].status = "POSTED" /\ entry'[e].status = "REVERSED"
        /\ entry'[e] = [entry[e] EXCEPT !.status = "REVERSED"]
        /\ r \in Entries \ {e} /\ entry[r].status = "ABSENT" /\ entry'[r].status = "POSTED"
        /\ \A f \in Entries : f \notin {e, r} => entry'[f] = entry[f]
    BY <1>2, CommitEffect, CommitFields
  <2>2. \A f \in Counted(entry) : entry'[f] = [entry[f] EXCEPT !.status = entry'[f].status]
    <3>1. ASSUME NEW f \in Counted(entry), f # e PROVE entry'[f] = [entry[f] EXCEPT !.status = entry'[f].status]
      BY <2>1, <3>1 DEF Counted, Entry
    <3> QED BY <2>1, <3>1
  <2>3. Counted(entry') = Counted(entry) \cup {r}
    BY <2>1 DEF Counted
  <2>4. entry'[r].sequence = took[s].sequence /\ entry'[r].number = took[s].number
        /\ entry'[r].period = req[s].period /\ entry'[r].balanced
    BY <1>2, CommitEffect, CommitFields
  <2> QED BY <1>2, <2>1, <2>2, <2>3, <2>4 DEF Added, Counted
<1> QED BY <1>1, <1>2, CommitEffect

(* A draft, or no journal write at all, leaves the ledger as it is.         *)
LEMMA OtherwiseUnchanged ==
  ASSUME Inv, [Next]_vars, ~\E s \in Sessions : CommitPosting(s)
  PROVE /\ UNCHANGED next /\ Counted(entry') = Counted(entry)
        /\ \A f \in Counted(entry) : entry'[f] = entry[f]
  BY JournalStep DEF Counted
-----------------------------------------------------------------------------
(* Whatever the interleaving of posts with closes and reopenings, an entry  *)
(* reaches the ledger only while its period accepts it.                     *)
THEOREM PeriodsAreRespected == Spec => PostsOnlyIntoAcceptingPeriod
<1> DEFINE A == \A e \in Counted(entry') \ Counted(entry) :
                  \E s \in Sessions : /\ pc[s] = "ready"
                                      /\ Accepts(s, period[entry'[e].period])
<1>1. Inv /\ [Next]_vars => [A]_vars
  <2> SUFFICES ASSUME Inv, [Next]_vars PROVE A
    OBVIOUS
  <2>1. CASE ~\E s \in Sessions : CommitPosting(s)
    BY <2>1, OtherwiseUnchanged
  <2>2. ASSUME NEW s \in Sessions, CommitPosting(s) PROVE A
    <3>1. pc[s] = "ready" /\ Accepts(s, period[req[s].period])
      BY <2>2, CommitEffect DEF CommitPosting
    <3>2. \A e \in Counted(entry') \ Counted(entry) : entry'[e].period = req[s].period
      BY <2>2, CommitAdds
    <3> QED BY <3>1, <3>2
  <2> QED BY <2>1, <2>2
<1> QED BY <1>1, Invariance, PTL DEF Spec, PostsOnlyIntoAcceptingPeriod

(* Nothing posted is ever unposted or rewritten.                            *)
THEOREM HistoryIsPermanent == Spec => PostedIsPermanent
<1> DEFINE A == \A e \in Counted(entry) :
                  /\ entry'[e].status \in {entry[e].status, "REVERSED"}
                  /\ [entry'[e] EXCEPT !.status = entry[e].status] = entry[e]
<1>1. Inv /\ [Next]_vars => [A]_vars
  <2> SUFFICES ASSUME Inv, [Next]_vars, NEW e \in Counted(entry)
               PROVE /\ entry'[e].status \in {entry[e].status, "REVERSED"}
                     /\ [entry'[e] EXCEPT !.status = entry[e].status] = entry[e]
    OBVIOUS
  <2>1. entry[e] \in Entry
    BY DEF Counted, Inv, TypeInv, TypeOK
  <2>2. /\ entry'[e].status \in {entry[e].status, "REVERSED"}
        /\ entry'[e] = [entry[e] EXCEPT !.status = entry'[e].status]
    <3>1. CASE ~\E s \in Sessions : CommitPosting(s)
      BY <2>1, <3>1, OtherwiseUnchanged DEF Entry
    <3>2. CASE \E s \in Sessions : CommitPosting(s)
      BY <3>2, CommitAdds
    <3> QED BY <3>1, <3>2
  <2> QED BY <2>1, <2>2 DEF Entry
<1> QED BY <1>1, Invariance, PTL DEF Spec, PostedIsPermanent

(* Only balanced entries are posted.                                        *)
THEOREM LedgerIsBalanced == Spec => []PostedIsBalanced
<1>1. Init => PostedIsBalanced
  BY DEF Init, PostedIsBalanced, Counted, Absent
<1>2. Inv /\ PostedIsBalanced /\ [Next]_vars => PostedIsBalanced'
  <2> SUFFICES ASSUME Inv, PostedIsBalanced, [Next]_vars PROVE PostedIsBalanced'
    OBVIOUS
  <2>1. CASE ~\E s \in Sessions : CommitPosting(s)
    BY <2>1, OtherwiseUnchanged DEF PostedIsBalanced
  <2>2. ASSUME NEW s \in Sessions, CommitPosting(s) PROVE PostedIsBalanced'
    <3>1. \A f \in Counted(entry) : entry'[f].balanced = entry[f].balanced
      BY <2>2, CommitAdds DEF Counted, Inv, TypeInv, TypeOK, Entry
    <3> QED BY <2>2, <3>1, CommitAdds DEF PostedIsBalanced
  <2> QED BY <2>1, <2>2
<1> QED BY <1>1, <1>2, Invariance, PTL DEF Spec

(* Each number of a sequence is used exactly once, on every interleaving    *)
(* and after every rollback.                                                *)
THEOREM Gapless == Spec => []NumbersAreGapless
<1>1. Init => NumbersAreGapless
  BY DEF Init, NumbersAreGapless, Counted, Absent
<1>2. Inv /\ NumbersAreGapless /\ [Next]_vars => NumbersAreGapless'
  <2> SUFFICES ASSUME Inv, NumbersAreGapless, [Next]_vars PROVE NumbersAreGapless'
    OBVIOUS
  <2>1. CASE ~\E s \in Sessions : CommitPosting(s)
    BY <2>1, OtherwiseUnchanged DEF NumbersAreGapless
  <2>2. ASSUME NEW s \in Sessions, CommitPosting(s), NEW q \in Branch
        PROVE LET issued == {e \in Counted(entry') : entry'[e].sequence = q} IN
              /\ \A e, f \in issued : entry'[e].number = entry'[f].number => e = f
              /\ {entry'[e].number : e \in issued} = 1 .. next'[q] - 1
    <3> DEFINE x == Added(s)
               n == took[s].number
               before == {e \in Counted(entry) : entry[e].sequence = q}
               after == {e \in Counted(entry') : entry'[e].sequence = q}
    <3>1. /\ \A f \in Counted(entry) : /\ entry'[f].sequence = entry[f].sequence
                                       /\ entry'[f].number = entry[f].number
          /\ x \notin Counted(entry) /\ Counted(entry') = Counted(entry) \cup {x}
          /\ entry'[x].sequence = took[s].sequence /\ entry'[x].number = n
      <4>1. \A f \in Counted(entry) : entry[f] \in Entry
        BY DEF Counted, Inv, TypeInv, TypeOK
      <4>2. ASSUME NEW f \in Counted(entry)
            PROVE entry'[f].sequence = entry[f].sequence /\ entry'[f].number = entry[f].number
        <5>1. entry'[f] = [entry[f] EXCEPT !.status = entry'[f].status]
          BY <2>2, CommitAdds
        <5> QED BY <4>1, <5>1 DEF Entry
      <4>3. Added(s) \notin Counted(entry) /\ Counted(entry') = Counted(entry) \cup {Added(s)}
        BY <2>2, CommitAdds
      <4>4. entry'[Added(s)].sequence = took[s].sequence /\ entry'[Added(s)].number = took[s].number
        BY <2>2, CommitAdds
      <4> QED BY <4>2, <4>3, <4>4
    <3>2. /\ \A e, f \in before : entry[e].number = entry[f].number => e = f
          /\ {entry[e].number : e \in before} = 1 .. next[q] - 1
      BY DEF NumbersAreGapless
    <3>3. /\ next' = [next EXCEPT ![took[s].sequence] = n + 1]
          /\ n = NumberFrom(next[took[s].sequence]) /\ next[q] \in Nat
          /\ next \in [Branch -> Nat]
      BY <2>2, CommitEffect DEF CommitPosting, Inv, TypeInv, TypeOK
    <3>4. CASE q # took[s].sequence
      <4>1. after = before /\ next'[q] = next[q]
        BY <3>1, <3>3, <3>4
      <4>2. \A e \in after : entry'[e].number = entry[e].number
        BY <3>1, <4>1
      <4> HIDE DEF before, after
      <4> QED BY <3>2, <4>1, <4>2 DEF after
    <3>5. CASE q = took[s].sequence
      <4>1. after = before \cup {x} /\ next'[q] = n + 1 /\ n = NumberFrom(next[q]) /\ n \in Nat
        BY <3>1, <3>3, <3>5, NumberType
      <4>2. \A e \in before : entry'[e].number = entry[e].number
        BY <3>1
      <4>3. \A e \in before : entry[e].number \in 1 .. next[q] - 1
        BY <3>2
      <4>4. \A e \in before : entry[e].number < n
        BY <3>3, <4>1, <4>3 DEF NumberFrom
      <4>5. {entry'[e].number : e \in after} = {entry[e].number : e \in before} \cup {n}
        <5> HIDE DEF before, after, x
        <5> QED BY <3>1, <4>1, <4>2
      <4>6. 1 .. n = (1 .. next[q] - 1) \cup {n}
        BY <3>3, <4>1 DEF NumberFrom
      <4>7. n + 1 - 1 = n
        BY <4>1
      <4>8. {entry'[e].number : e \in after} = 1 .. next'[q] - 1
        <5> HIDE DEF before, after, x
        <5> QED BY <3>2, <4>1, <4>5, <4>6, <4>7
      <4>9. \A e, f \in after : entry'[e].number = entry'[f].number => e = f
        <5> HIDE DEF before, after, x
        <5> QED BY <3>1, <3>2, <4>1, <4>2, <4>3, <4>4
      <4> QED BY <4>8, <4>9
    <3> QED BY <3>4, <3>5
  <2> QED BY <2>1, <2>2 DEF NumbersAreGapless
<1> QED BY <1>1, <1>2, Invariance, PTL DEF Spec

(* A REVERSED entry has exactly one posted reversal, over its own accounts, *)
(* and a POSTED entry none.                                                 *)
THEOREM OneReversal == Spec => []ReversedExactlyOnce
<1>1. Init => ReversedExactlyOnce
  BY DEF Init, ReversedExactlyOnce, Counted, Absent
<1>2. Inv /\ ReversedExactlyOnce /\ [Next]_vars => ReversedExactlyOnce'
  <2> SUFFICES ASSUME Inv, ReversedExactlyOnce, [Next]_vars, NEW e \in Entries
               PROVE LET after == {f \in Counted(entry') : entry'[f].reverses = e} IN
                     /\ entry'[e].status = "REVERSED" <=> after # {}
                     /\ \A f, g \in after : f = g
                     /\ \A f \in after : entry'[f].accounts = entry'[e].accounts
    BY DEF ReversedExactlyOnce
  <2> DEFINE before == {f \in Counted(entry) : entry[f].reverses = e}
             after == {f \in Counted(entry') : entry'[f].reverses = e}
  <2>1. /\ entry[e].status = "REVERSED" <=> before # {}
        /\ \A f, g \in before : f = g
        /\ \A f \in before : entry[f].accounts = entry[e].accounts
    BY DEF ReversedExactlyOnce
  <2>2. CASE ~\E s \in Sessions : CommitPosting(s)
    <3>1. /\ \A f \in Counted(entry) : entry'[f] = entry[f]
          /\ Counted(entry') = Counted(entry)
      BY <2>2, OtherwiseUnchanged
    <3>2. after = before
      BY <3>1
    <3>3. entry'[e].status = "REVERSED" <=> entry[e].status = "REVERSED"
      BY <3>1 DEF Counted
    <3>4. before # {} => entry'[e] = entry[e]
      BY <2>1, <3>1 DEF Counted
    <3> HIDE DEF before, after
    <3> QED BY <2>1, <3>1, <3>2, <3>3, <3>4 DEF before
  <2>3. ASSUME NEW s \in Sessions, CommitPosting(s)
        PROVE /\ entry'[e].status = "REVERSED" <=> after # {}
              /\ \A f, g \in after : f = g
              /\ \A f \in after : entry'[f].accounts = entry'[e].accounts
    <3> DEFINE o == req[s].entry
               r == req[s].reversal
    <3>1. CASE req[s].op = "post"
      <4>1. /\ o \in Entries /\ entry[o].status = "DRAFT" /\ entry'[o].status = "POSTED"
            /\ entry'[o].reverses = entry[o].reverses /\ entry'[o].accounts = entry[o].accounts
            /\ r = NoEntry
        BY <2>3, <3>1, CommitEffect, CommitFields
      <4>2. entry[o].reverses = NoEntry
        BY <4>1 DEF Inv, ReversalsPosted
      <4>3. \A f \in Entries : f # o => entry'[f] = entry[f]
        BY <2>3, <4>1, CommitEffect, DataAssumption
      <4>4. after = before
        BY <4>1, <4>2, <4>3, DataAssumption DEF Counted
      <4>5. /\ entry'[e].status = "REVERSED" <=> entry[e].status = "REVERSED"
            /\ \A f \in Entries : entry'[f].accounts = entry[f].accounts
        BY <4>1, <4>3
      <4>6. before \subseteq Entries
        BY DEF Counted
      <4> HIDE DEF before, after
      <4> QED BY <2>1, <4>4, <4>5, <4>6
    <3>2. CASE req[s].op = "reverse"
      <4>1. /\ o \in Entries /\ r \in Entries /\ r # o
            /\ entry[o].status = "POSTED" /\ entry'[o].status = "REVERSED"
            /\ entry'[o].reverses = entry[o].reverses /\ entry'[o].accounts = entry[o].accounts
            /\ entry[r].status = "ABSENT" /\ entry'[r].status = "POSTED"
            /\ entry'[r].reverses = o /\ entry'[r].accounts = entry[o].accounts
        BY <2>3, <3>2, CommitEffect, CommitFields
      <4>2. \A f \in Entries : f \notin {o, r} => entry'[f] = entry[f]
        BY <2>3, CommitEffect
      <4>3. \A f \in Entries : entry[f].reverses # o
        BY <2>3, <3>2, CommitEffect
      <4>4. CASE e = o
        <5>1. after = {r}
          BY <4>1, <4>2, <4>3, <4>4 DEF Counted
        <5> HIDE DEF after
        <5> QED BY <4>1, <4>4, <5>1
      <4>5. CASE e # o
        <5>1. after = before
          BY <4>1, <4>2, <4>5 DEF Counted
        <5>2. entry'[e].status = "REVERSED" <=> entry[e].status = "REVERSED"
          BY <4>1, <4>2, <4>5
        <5>3. \A f \in Counted(entry) : entry'[f].accounts = entry[f].accounts
          BY <4>1, <4>2 DEF Counted
        <5>4. before # {} => entry'[e].accounts = entry[e].accounts
          BY <2>1, <5>3 DEF Counted
        <5>5. before \subseteq Counted(entry)
          OBVIOUS
        <5> HIDE DEF before, after
        <5> QED BY <2>1, <5>1, <5>2, <5>3, <5>4, <5>5
      <4> QED BY <4>4, <4>5
    <3> QED BY <2>3, <3>1, <3>2, CommitEffect
  <2> QED BY <2>2, <2>3
<1> QED BY <1>1, <1>2, Invariance, PTL DEF Spec
-----------------------------------------------------------------------------
(* How one more posted entry shows in a balance: from its own period on.    *)
With(row, x, p, k) ==
  [opening |-> row.opening \cup (IF p < k[1] THEN {x} ELSE {}),
   moved   |-> row.moved \cup (IF p = k[1] THEN {x} ELSE {})]

Balance(es, as, x, p, k) == IF k[2] \in as THEN With(Recompute(es, k), x, p, k) ELSE Recompute(es, k)

LEMMA OneMore ==
  ASSUME NEW es, NEW fs, NEW x \in Entries, x \notin Counted(es), Counted(fs) = Counted(es) \cup {x},
         \A f \in Counted(es) : fs[f].accounts = es[f].accounts /\ fs[f].period = es[f].period,
         NEW k \in Keys
  PROVE  Recompute(fs, k) = Balance(es, fs[x].accounts, x, fs[x].period, k)
<1> DEFINE O(gs) == {e \in Counted(gs) : k[2] \in gs[e].accounts /\ gs[e].period < k[1]}
           M(gs) == {e \in Counted(gs) : k[2] \in gs[e].accounts /\ gs[e].period = k[1]}
<1>1. CASE k[2] \notin fs[x].accounts
  <2>1. O(fs) = O(es) /\ M(fs) = M(es)
    BY <1>1
  <2> QED
    BY <1>1, <2>1 DEF Recompute, Balance
<1>2. CASE k[2] \in fs[x].accounts
  <2> DEFINE p == fs[x].period
  <2>1. O(fs) = O(es) \cup (IF p < k[1] THEN {x} ELSE {})
    BY <1>2
  <2>2. M(fs) = M(es) \cup (IF p = k[1] THEN {x} ELSE {})
    BY <1>2
  <2>3. Recompute(es, k).opening = O(es) /\ Recompute(es, k).moved = M(es)
    BY DEF Recompute
  <2>4. Recompute(fs, k) = [opening |-> O(fs), moved |-> M(fs)]
    BY DEF Recompute
  <2> HIDE DEF O, M, p
  <2>5. Recompute(fs, k) = With(Recompute(es, k), x, p, k)
    BY <2>1, <2>2, <2>3, <2>4 DEF With
  <2> QED
    BY <1>2, <2>5 DEF Balance, p
<1> QED
  BY <1>1, <1>2

LEMMA PostSeen ==
  ASSUME NEW es \in [Entries -> Entry], NEW e \in Entries, NEW q \in Branch, NEW n \in Nat, NEW k \in Keys,
         es[e].status = "DRAFT"
  PROVE  Recompute(AfterPost(es, e, q, n), k) = Balance(es, es[e].accounts, e, es[e].period, k)
<1> DEFINE new == PostedAs(es[e], q, n)
           fs == AfterPost(es, e, q, n)
<1>1. new.status = "POSTED" /\ new.accounts = es[e].accounts /\ new.period = es[e].period
  BY DEF PostedAs, Entry
<1>2. fs = [es EXCEPT ![e] = new]
  BY DEF AfterPost
<1> HIDE DEF new, fs
<1>3. fs[e] = new /\ \A f \in Entries : f # e => fs[f] = es[f]
  BY <1>2
<1>4. e \notin Counted(es) /\ Counted(fs) = Counted(es) \cup {e}
  BY <1>1, <1>3 DEF Counted
<1>5. \A f \in Counted(es) : fs[f].accounts = es[f].accounts /\ fs[f].period = es[f].period
  BY <1>3, <1>4 DEF Counted
<1>6. Recompute(fs, k) = Balance(es, fs[e].accounts, e, fs[e].period, k)
  <2>1. e \in Entries /\ k \in Keys
    OBVIOUS
  <2> QED
    BY ONLY <1>4, <1>5, <2>1, OneMore
<1>7. fs[e].accounts = es[e].accounts /\ fs[e].period = es[e].period
  BY <1>1, <1>3
<1>8. Recompute(fs, k) = Balance(es, es[e].accounts, e, es[e].period, k)
  BY ONLY <1>6, <1>7, Zenon
<1> QED
  BY <1>8 DEF fs

LEMMA ReverseSeen ==
  ASSUME NEW es \in [Entries -> Entry], NEW e \in Entries, NEW r \in Entries, r # e, NEW p \in Periods,
         NEW q \in Branch, NEW n \in Nat, NEW k \in Keys,
         es[e].status = "POSTED", es[r].status = "ABSENT"
  PROVE  Recompute(AfterReverse(es, e, r, p, q, n), k) = Balance(es, es[e].accounts, r, p, k)
<1> DEFINE new == PostedAs(ReversalOf(e, es[e], p), q, n)
           old == [es[e] EXCEPT !.status = "REVERSED"]
           fs == AfterReverse(es, e, r, p, q, n)
<1>1. /\ new.status = "POSTED" /\ new.accounts = es[e].accounts /\ new.period = p
      /\ old.status = "REVERSED" /\ old.accounts = es[e].accounts /\ old.period = es[e].period
  BY DEF PostedAs, ReversalOf, Entry
<1>2. fs = [[es EXCEPT ![e] = old] EXCEPT ![r] = new]
  BY DEF AfterReverse
<1> HIDE DEF new, old, fs
<1>3. fs[r] = new /\ fs[e] = old /\ \A f \in Entries : f \notin {e, r} => fs[f] = es[f]
  BY <1>2
<1>4. r \notin Counted(es) /\ Counted(fs) = Counted(es) \cup {r}
  BY <1>1, <1>3 DEF Counted
<1>5. \A f \in Counted(es) : fs[f].accounts = es[f].accounts /\ fs[f].period = es[f].period
  BY <1>1, <1>3, <1>4 DEF Counted
<1>6. Recompute(fs, k) = Balance(es, fs[r].accounts, r, fs[r].period, k)
  BY <1>4, <1>5, OneMore
<1>7. fs[r].accounts = es[e].accounts /\ fs[r].period = p
  BY <1>1, <1>3
<1>8. Recompute(fs, k) = Balance(es, es[e].accounts, r, p, k)
  BY ONLY <1>6, <1>7, Zenon
<1> QED
  BY <1>8 DEF fs

(* The balance as a transaction that holds its entry sees it, now and after *)
(* a step of another.                                                       *)
LEMMA Seen ==
  ASSUME Inv, NEW s \in Sessions, IsJournalOp(s), pc[s] \in Holding, NEW k \in Keys
  PROVE  Recompute(View(s), k) = Balance(entry, entry[req[s].entry].accounts, Added(s), req[s].period, k)
<1> DEFINE e == req[s].entry
           r == req[s].reversal
           p == req[s].period
           q == took[s].sequence
           n == took[s].number
<1>1. e \in Entries /\ p \in Periods /\ q \in Branch /\ n \in Nat /\ entry \in [Entries -> Entry]
  BY DEF Inv, TypeInv, TypeOK, RequestOK, Taken
<1>2. EntryChecked(s) /\ Validated(s) /\ HoldsEntry(s, e)
  BY DEF Inv, CheckedInv, HoldsEntry, Holding
<1>3. CASE req[s].op = "post"
  <2>1. entry[e].status = "DRAFT" /\ entry[e].period = p
    BY <1>2, <1>3 DEF EntryChecked, MayProceed, Validated
  <2>2. View(s) = AfterPost(entry, e, q, n) /\ Added(s) = e
    BY <1>3 DEF View, Added
  <2> HIDE DEF e, p, q, n
  <2>3. Recompute(AfterPost(entry, e, q, n), k) = Balance(entry, entry[e].accounts, e, entry[e].period, k)
    BY <1>1, <2>1, PostSeen
  <2> QED
    BY <2>1, <2>2, <2>3 DEF e, p
<1>4. CASE req[s].op = "reverse"
  <2>1. entry[e].status = "POSTED" /\ r \in Entries /\ r # e /\ entry[r].status = "ABSENT"
    BY <1>2, <1>4, DataAssumption DEF Inv, TypeInv, EntryChecked, MayProceed, RequestOK
  <2>2. View(s) = AfterReverse(entry, e, r, p, q, n) /\ Added(s) = r
    BY <1>4 DEF View, Added
  <2> HIDE DEF e, r, p, q, n
  <2>3. Recompute(AfterReverse(entry, e, r, p, q, n), k) = Balance(entry, entry[e].accounts, r, p, k)
    BY <1>1, <2>1, ReverseSeen
  <2> QED
    BY <2>2, <2>3 DEF e, p
<1> QED
  BY <1>3, <1>4 DEF IsJournalOp, JournalOps

LEMMA SeenNext ==
  ASSUME Inv', NEW s \in Sessions, IsJournalOp(s)', pc'[s] \in Holding, NEW k \in Keys
  PROVE  Recompute(View(s)', k)
           = Balance(entry', entry'[req'[s].entry].accounts, Added(s)', req'[s].period, k)
<1> DEFINE e == req'[s].entry
           r == req'[s].reversal
           p == req'[s].period
           q == took'[s].sequence
           n == took'[s].number
<1>1. e \in Entries /\ p \in Periods /\ q \in Branch /\ n \in Nat /\ entry' \in [Entries -> Entry]
  <2>1. (TypeOK /\ RequestOK(s))'
    BY DEF Inv, TypeInv
  <2> QED
    BY <2>1 DEF TypeOK, RequestOK, Taken
<1>2. EntryChecked(s)' /\ Validated(s)' /\ HoldsEntry(s, req[s].entry)'
  BY DEF Inv, CheckedInv, HoldsEntry, Holding
<1>3. CASE req'[s].op = "post"
  <2>1. entry'[e].status = "DRAFT" /\ entry'[e].period = p
    BY <1>2, <1>3 DEF EntryChecked, MayProceed, Validated
  <2>2. View(s)' = AfterPost(entry', e, q, n) /\ Added(s)' = e
    BY <1>3 DEF View, Added
  <2> HIDE DEF e, p, q, n
  <2>3. Recompute(AfterPost(entry', e, q, n), k) = Balance(entry', entry'[e].accounts, e, entry'[e].period, k)
    BY <1>1, <2>1, PostSeen
  <2> QED
    BY <2>1, <2>2, <2>3 DEF e, p
<1>4. CASE req'[s].op = "reverse"
  <2>1. entry'[e].status = "POSTED" /\ r \in Entries /\ r # e /\ entry'[r].status = "ABSENT"
    <3>1. RequestOK(s)'
      BY DEF Inv, TypeInv
    <3> QED
      BY <1>2, <1>4, <3>1, DataAssumption DEF EntryChecked, MayProceed, RequestOK
  <2>2. View(s)' = AfterReverse(entry', e, r, p, q, n) /\ Added(s)' = r
    BY <1>4 DEF View, Added
  <2> HIDE DEF e, r, p, q, n
  <2>3. Recompute(AfterReverse(entry', e, r, p, q, n), k) = Balance(entry', entry'[e].accounts, r, p, k)
    BY <1>1, <2>1, ReverseSeen
  <2> QED
    BY <2>2, <2>3 DEF e, p
<1> QED
  BY <1>3, <1>4 DEF IsJournalOp, JournalOps

(* The posting of s moves the balance k.                                    *)
Posts(s, k) == IsJournalOp(s) /\ k[2] \in entry[req[s].entry].accounts /\ req[s].period <= k[1]

LEMMA PostingMoves ==
  ASSUME Inv, NEW s \in Sessions, IsJournalOp(s), pc[s] \in Holding, NEW k \in Keys
  PROVE  /\ ~Posts(s, k) => Recompute(View(s), k) = Recompute(entry, k)
         /\ Posts(s, k) => Recompute(View(s), k) # NoRow
         /\ Recompute(entry, k) # NoRow => Recompute(View(s), k) # NoRow
<1> DEFINE row == Recompute(entry, k)
           p == req[s].period
           x == Added(s)
<1>1. Recompute(View(s), k) = IF k[2] \in entry[req[s].entry].accounts THEN With(row, x, p, k) ELSE row
  BY Seen DEF Balance
<1>2. row \in Row /\ k[1] \in Nat /\ p \in Nat
  BY RecomputeType, DataAssumption DEF Inv, TypeInv, RequestOK, Keys
<1> HIDE DEF row, p, x
<1>3. /\ p > k[1] => With(row, x, p, k) = row
      /\ p <= k[1] => With(row, x, p, k) # NoRow
      /\ row # NoRow => With(row, x, p, k) # NoRow
  BY <1>2 DEF With, Row, NoRow
<1> QED
  BY <1>1, <1>2, <1>3 DEF Posts, p, row
-----------------------------------------------------------------------------
(* What a refresh has deleted and inserted but not committed: rows of its   *)
(* own accounts that hold something, each row it inserted being what a      *)
(* rebuild would still insert, and one for every balance its posting moves. *)
Writing(s) == pc[s] \in {"written", "ready"} /\ req[s].op # "transition"

Refreshing(s) ==
  /\ cleared[s] # {} => pc[s] \in Holding \ {"numbered"} /\ req[s].op # "transition"
  /\ \A k \in cleared[s] : k \in Touched(s) /\ Recompute(entry, k) # NoRow
  /\ \A k \in Keys : rows[s][k] # NoRow => Writing(s) /\ rows[s][k] = Recompute(View(s), k)
  /\ Writing(s) => \A k \in Keys : k \in cleared[s] \/ Posts(s, k) => rows[s][k] # NoRow

(* The primary key of ledger_account_balances.                              *)
RowsExclusive == \A s, t \in Sessions, k \in Keys : rows[s][k] # NoRow /\ rows[t][k] # NoRow => s = t

RefreshInv == RowsExclusive /\ \A s \in Sessions : Refreshing(s)

(* The journal row a transaction has locked is not changed by another.      *)
LEMMA HeldStays ==
  ASSUME Inv, [Next]_vars, NEW s \in Sessions, IsJournalOp(s), pc[s] \notin {"idle", "begin"}, ~CommitPosting(s)
  PROVE  entry'[req[s].entry] = entry[req[s].entry]
<1> DEFINE f == req[s].entry
<1>1. f \in Entries /\ HoldsEntry(s, f) /\ entry[f].status \in {"DRAFT", "POSTED"}
  BY DEF Inv, TypeInv, RequestOK, HoldsEntry, CheckedInv, EntryChecked, MayProceed
<1>2. ASSUME NEW t \in Sessions, CommitPosting(t) PROVE entry'[f] = entry[f]
  <2>1. t # s
    BY <1>2
  <2>2. req[t].entry \in Entries /\ HoldsEntry(t, req[t].entry)
    BY <1>2, CommitEffect
  <2>3. f # req[t].entry
    BY <1>1, <2>1, <2>2 DEF Inv, LockInv, EntryExclusive
  <2>4. f # req[t].reversal
    BY <1>1, DataAssumption DEF Inv, CheckedInv, EntryChecked
  <2> QED
    BY <1>1, <1>2, <2>3, <2>4, CommitEffect
<1>3. ASSUME NEW e \in Entries, Unlocked(e), \A g \in Entries : g # e => entry'[g] = entry[g]
      PROVE  entry'[f] = entry[f]
  BY <1>1, <1>3 DEF Unlocked
<1> QED
  BY <1>2, <1>3, JournalStep

LEMMA RefreshingKept ==
  ASSUME Inv, Inv', [Next]_vars, NEW s \in Sessions, Refreshing(s), ~CommitPosting(s),
         pc'[s] = pc[s], req'[s] = req[s], took'[s] = took[s], rows'[s] = rows[s], cleared'[s] \subseteq cleared[s],
         \A k \in Keys : Recompute(entry, k) # NoRow => Recompute(entry', k) # NoRow,
         \A k \in Keys : rows[s][k] # NoRow => Recompute(entry', k) = Recompute(entry, k)
  PROVE  Refreshing(s)'
<1> USE DEF Inv, TypeInv, TypeOK
<1>1. IsJournalOp(s)' <=> IsJournalOp(s)
  BY DEF IsJournalOp
<1>2. Writing(s)' <=> Writing(s)
  BY DEF Writing
<1>3. CASE IsJournalOp(s) /\ pc[s] \in Holding
  <2>1. entry'[req[s].entry] = entry[req[s].entry]
    BY <1>3, HeldStays DEF Holding
  <2>2. Touched(s)' = Touched(s)
    BY <2>1 DEF Touched
  <2>3. \A k \in Keys : Posts(s, k)' <=> Posts(s, k)
    BY <1>1, <2>1 DEF Posts
  <2>4. ASSUME NEW k \in Keys, rows[s][k] # NoRow PROVE Recompute(View(s)', k) = Recompute(View(s), k)
    <3>1. Added(s)' = Added(s)
      BY DEF Added
    <3>2. Recompute(View(s)', k)
            = Balance(entry', entry'[req'[s].entry].accounts, Added(s)', req'[s].period, k)
      BY <1>1, <1>3, SeenNext
    <3>3. Recompute(View(s), k) = Balance(entry, entry[req[s].entry].accounts, Added(s), req[s].period, k)
      BY <1>3, Seen
    <3>4. Recompute(entry', k) = Recompute(entry, k)
      BY <2>4
    <3> QED
      BY <2>1, <3>1, <3>2, <3>3, <3>4 DEF Balance
  <2> QED
    BY <1>2, <2>2, <2>3, <2>4 DEF Refreshing
<1>4. CASE req[s].op = "rebuild"
  <2>1. View(s) = entry /\ View(s)' = entry'
    BY <1>4 DEF View
  <2>2. Touched(s) = Keys /\ Touched(s)' = Keys
    BY <1>4 DEF Touched
  <2>3. \A k \in Keys : ~Posts(s, k) /\ ~Posts(s, k)'
    BY <1>1, <1>4 DEF Posts, IsJournalOp, JournalOps
  <2> QED
    BY <1>2, <2>1, <2>2, <2>3 DEF Refreshing
<1>5. CASE ~(IsJournalOp(s) /\ pc[s] \in Holding) /\ req[s].op # "rebuild"
  <2>1. ~Writing(s)
    BY <1>5 DEF Writing, IsJournalOp, JournalOps, Request, Holding, RequestOK
  <2>2. cleared[s] = {}
    BY <1>5 DEF Refreshing, IsJournalOp, JournalOps, Request, Holding, RequestOK
  <2> QED
    BY <1>2, <2>1, <2>2 DEF Refreshing
<1> QED
  BY <1>3, <1>4, <1>5

LEMMA Alone ==
  ASSUME TypeInv, NEW s \in Sessions, Arrival(s) \/ Statement(s) \/ Rollback(s), NEW t \in Sessions \ {s}
  PROVE  /\ pc'[t] = pc[t] /\ req'[t] = req[t] /\ took'[t] = took[t] /\ rows'[t] = rows[t]
         /\ cleared'[t] \subseteq cleared[t]
<1> USE DEF TypeInv, TypeOK, committed, Step
<1>1. CASE EndWithNothing(s)
  BY <1>1 DEF EndWithNothing
<1>2. CASE Arrival(s)
  BY <1>2 DEF Arrival, BeginPost, BeginReverse, BeginTransition, BeginRebuild
<1>3. CASE CommitPosting(s) \/ CommitRebuild(s)
  BY <1>3 DEF CommitPosting, CommitRebuild, ReplaceRows
<1>4. CASE (Statement(s) \/ Rollback(s)) /\ ~(CommitPosting(s) \/ CommitRebuild(s)) /\ ~EndWithNothing(s)
  BY <1>4 DEF Statement, Rollback, LockEntry, LockPeriod, Prepare, AllocateNumber, StartClear, FinishClear,
              InsertRows, Audit, LockPeriodForClose, CheckEarlier, CommitTransition
<1> QED
  BY <1>1, <1>2, <1>3, <1>4

(* A transaction that has refreshed nothing yet, or nothing any more.       *)
LEMMA NothingRefreshed ==
  ASSUME NEW s \in Sessions, cleared'[s] = {}, \A k \in Keys : rows'[s][k] = NoRow, ~Writing(s)'
  PROVE  Refreshing(s)'
  BY DEF Refreshing

LEMMA SameEntries ==
  ASSUME Inv, [Next]_vars, ~\E s \in Sessions : CommitPosting(s), NEW k \in Keys
  PROVE  Recompute(entry', k) = Recompute(entry, k)
<1>1. Counted(entry') = Counted(entry) /\ \A f \in Counted(entry) : entry'[f] = entry[f]
  BY OtherwiseUnchanged
<1> QED
  BY <1>1 DEF Recompute

(* The statements of a transaction before its COMMIT.                       *)
LEMMA StatementRefreshes ==
  ASSUME Inv, Inv', RefreshInv, ProjectionIsRebuildable, NEW s \in Sessions,
         Arrival(s) \/ Statement(s) \/ Rollback(s), ~CommitPosting(s), ~CommitRebuild(s)
  PROVE  /\ Refreshing(s)' /\ UNCHANGED balance
         /\ \A t \in Sessions \ {s}, k \in Keys : rows'[s][k] # NoRow => rows[t][k] = NoRow
<1> USE DEF Inv, TypeInv, TypeOK
<1>1. Refreshing(s) /\ RequestOK(s) /\ req[s] \in Request
  BY DEF RefreshInv
<1>2. UNCHANGED balance
  BY DEF Arrival, BeginPost, BeginReverse, BeginTransition, BeginRebuild, Statement, Rollback, LockEntry,
         LockPeriod, Prepare, AllocateNumber, StartClear, FinishClear, InsertRows, Audit, LockPeriodForClose,
         CheckEarlier, CommitTransition, committed
<1>3. ASSUME rows'[s] = rows[s], Refreshing(s)'
      PROVE  /\ Refreshing(s)' /\ UNCHANGED balance
             /\ \A t \in Sessions \ {s}, k \in Keys : rows'[s][k] # NoRow => rows[t][k] = NoRow
  BY <1>2, <1>3 DEF RefreshInv, RowsExclusive
<1>4. CASE EndWithNothing(s)
  <2>1. cleared'[s] = {} /\ rows'[s] = [k \in Keys |-> NoRow] /\ pc'[s] = "idle"
    BY <1>4 DEF EndWithNothing
  <2>2. \A k \in Keys : rows'[s][k] = NoRow
    BY <2>1
  <2>3. Refreshing(s)'
    BY <2>1, <2>2, NothingRefreshed DEF Writing
  <2> QED
    BY <1>2, <2>2, <2>3
<1>5. ASSUME UNCHANGED <<cleared, rows>>, pc[s] \notin (Holding \ {"numbered"}), ~Writing(s)'
      PROVE  rows'[s] = rows[s] /\ Refreshing(s)'
  <2>1. cleared[s] = {} /\ \A k \in Keys : rows[s][k] = NoRow
    BY <1>1, <1>5 DEF Refreshing, Writing, Holding
  <2> QED
    BY <1>5, <2>1, NothingRefreshed
<1>6. CASE Arrival(s)
  BY <1>3, <1>5, <1>6 DEF Arrival, BeginPost, BeginReverse, BeginTransition, BeginRebuild, Step, Writing, Holding
<1>7. CASE ~EndWithNothing(s) /\ (LockEntry(s) \/ LockPeriod(s) \/ Prepare(s) \/ AllocateNumber(s)
                                   \/ LockPeriodForClose(s) \/ CheckEarlier(s))
  <2>1. /\ UNCHANGED <<cleared, rows>> /\ pc[s] \in {"begin", "entry", "period", "sequence", "closing"}
        /\ \/ pc'[s] \in {"entry", "period", "sequence", "numbered", "closing"}
           \/ pc'[s] = "written" /\ pc[s] = "closing" /\ req' = req
    <3>1. CASE LockEntry(s) \/ LockPeriod(s) \/ LockPeriodForClose(s)
      BY <1>7, <3>1 DEF LockEntry, LockPeriod, LockPeriodForClose, Step, At
    <3>2. CASE Prepare(s)
      BY <1>7, <3>2 DEF Prepare, Step, At
    <3>3. CASE AllocateNumber(s)
      BY <1>7, <3>3 DEF AllocateNumber, Step, At
    <3>4. CASE CheckEarlier(s)
      BY <1>7, <3>4 DEF CheckEarlier, Step, At
    <3> QED
      BY <1>7, <3>1, <3>2, <3>3, <3>4
  <2>2. pc[s] = "closing" => req[s].op = "transition"
    BY <1>1 DEF RequestOK, Request, IsJournalOp, JournalOps
  <2>3. pc[s] \notin (Holding \ {"numbered"}) /\ ~Writing(s)'
    BY <2>1, <2>2 DEF Writing, Holding
  <2> QED
    BY <1>3, <1>5, <2>1, <2>3
<1>8. CASE StartClear(s)
  <2>1. /\ pc[s] \in {"numbered", "begin"} /\ req[s].op # "transition" /\ pc'[s] = "clearing"
        /\ UNCHANGED <<entry, req, took, rows>>
        /\ cleared'[s] = {k \in Touched(s) : balance[k] # NoRow}
    BY <1>1, <1>8 DEF StartClear, At, Step, committed, RequestOK
  <2>2. Touched(s)' = Touched(s) /\ Touched(s) \subseteq Keys
    BY <2>1 DEF Touched
  <2>3. \A k \in cleared'[s] : k \in Touched(s)' /\ Recompute(entry', k) # NoRow
    BY <2>1, <2>2 DEF ProjectionIsRebuildable
  <2>4. \A k \in Keys : rows'[s][k] = NoRow
    BY <1>1, <2>1 DEF Refreshing, Writing
  <2>5. Refreshing(s)'
    BY <2>1, <2>3, <2>4 DEF Refreshing, Writing, Holding
  <2> QED
    BY <1>3, <2>1, <2>5
<1>9. CASE FinishClear(s) \/ Audit(s)
  <2>1. /\ pc[s] \in {"clearing", "written"} /\ pc'[s] = (IF pc[s] = "clearing" THEN "cleared" ELSE "ready")
        /\ UNCHANGED <<entry, req, took, cleared, rows>>
    BY <1>9 DEF FinishClear, Audit, At, Step, committed
  <2>2. /\ Writing(s)' <=> Writing(s)
        /\ Touched(s)' = Touched(s) /\ View(s)' = View(s)
        /\ \A k \in Keys : Posts(s, k)' <=> Posts(s, k)
    BY <2>1 DEF Writing, Touched, View, Posts, IsJournalOp
  <2>3. pc[s] \in Holding \ {"numbered"} /\ pc'[s] \in Holding \ {"numbered"}
    BY <2>1 DEF Holding
  <2>4. Refreshing(s)'
    BY <1>1, <2>1, <2>2, <2>3 DEF Refreshing
  <2> QED
    BY <1>3, <2>1, <2>4
<1>10. CASE InsertRows(s) /\ ~EndWithNothing(s)
  <2>1. /\ At(s, "cleared") /\ pc[s] = "cleared" /\ pc'[s] = "written" /\ rows' = [rows EXCEPT ![s] = Inserted(s)]
        /\ UNCHANGED <<entry, req, took, cleared>>
    BY <1>10 DEF InsertRows, At, Step, committed
  <2>2. (IsJournalOp(s) \/ req[s].op = "rebuild") /\ Writing(s)'
    BY <1>1, <2>1 DEF RequestOK, Request, IsJournalOp, JournalOps, Writing
  <2>3. \A k \in Keys : rows'[s][k] = IF k \in Touched(s) THEN Recompute(View(s), k) ELSE NoRow
    BY <2>1 DEF Inserted
  <2>4. Touched(s)' = Touched(s) /\ View(s)' = View(s) /\ \A k \in Keys : Posts(s, k)' <=> Posts(s, k)
    BY <2>1 DEF Touched, View, Posts, IsJournalOp
  <2>5. ASSUME NEW k \in Keys, k \in cleared[s] \/ Posts(s, k) PROVE rows'[s][k] # NoRow
    <3>1. k \in Touched(s)
      BY <1>1, <2>5 DEF Refreshing, Posts, Touched
    <3>2. Posts(s, k) \/ Recompute(entry, k) # NoRow
      BY <1>1, <2>5 DEF Refreshing
    <3>3. Recompute(View(s), k) # NoRow
      <4>1. CASE IsJournalOp(s)
        <5>1. pc[s] \in Holding
          BY <2>1 DEF Holding
        <5> QED
          BY <3>2, <4>1, <5>1, PostingMoves
      <4>2. CASE req[s].op = "rebuild"
        <5>1. View(s) = entry /\ ~Posts(s, k)
          BY <4>2 DEF View, Posts, IsJournalOp, JournalOps
        <5> QED
          BY <3>2, <5>1
      <4> QED
        BY <2>2, <4>1, <4>2
    <3> QED
      BY <2>3, <3>1, <3>3
  <2>6. Refreshing(s)'
    <3>1. cleared'[s] # {} => pc'[s] \in Holding \ {"numbered"} /\ req'[s].op # "transition"
      BY <2>1, <2>2 DEF Holding, IsJournalOp, JournalOps
    <3>2. \A k \in cleared'[s] : k \in Touched(s)' /\ Recompute(entry', k) # NoRow
      BY <1>1, <2>1, <2>4 DEF Refreshing
    <3>3. \A k \in Keys : rows'[s][k] # NoRow => Writing(s)' /\ rows'[s][k] = Recompute(View(s)', k)
      BY <2>2, <2>3, <2>4
    <3>4. \A k \in Keys : k \in cleared'[s] \/ Posts(s, k)' => rows'[s][k] # NoRow
      BY <2>1, <2>4, <2>5
    <3> QED
      BY <3>1, <3>2, <3>3, <3>4 DEF Refreshing
  <2>7. ASSUME NEW t \in Sessions \ {s}, NEW k \in Keys, rows'[s][k] # NoRow PROVE rows[t][k] = NoRow
    <3> SUFFICES ASSUME rows[t][k] # NoRow PROVE FALSE
      OBVIOUS
    <3>1. pc[t] \in {"written", "ready"}
      BY DEF RefreshInv, Refreshing, Writing
    <3>2. Inserted(s)[k] # NoRow
      BY <2>1, <2>7
    <3>3. WaitsFor(s, t)
      BY <2>1, <3>1, <3>2 DEF WaitsFor
    <3> QED
      BY <2>1, <3>3 DEF At
  <2> QED
    BY <1>2, <2>6, <2>7
<1>11. CASE Rollback(s) \/ CommitTransition(s)
  BY <1>4, <1>11 DEF Rollback, CommitTransition
<1> QED
  BY <1>4, <1>6, <1>7, <1>8, <1>9, <1>10, <1>11 DEF Statement

(* A COMMIT replaces the rows its transaction deleted, and what the table   *)
(* holds is again what a rebuild would write.                               *)
LEMMA CommitRefreshes ==
  ASSUME Inv, Inv', RefreshInv, ProjectionIsRebuildable, NEW s \in Sessions, CommitPosting(s) \/ CommitRebuild(s)
  PROVE  /\ ProjectionIsRebuildable'
         /\ Refreshing(s)' /\ \A k \in Keys : rows'[s][k] = NoRow
         /\ \A k \in Keys : Recompute(entry, k) # NoRow => Recompute(entry', k) # NoRow
         /\ \A t \in Sessions \ {s}, k \in Keys : rows[t][k] # NoRow => Recompute(entry', k) = Recompute(entry, k)
<1> USE DEF Inv, TypeInv, TypeOK
<1>1. /\ pc[s] = "ready" /\ ReplaceRows(s) /\ entry' = View(s)
      /\ IsJournalOp(s) \/ (req[s].op = "rebuild" /\ ~IsJournalOp(s) /\ View(s) = entry)
  BY DEF CommitPosting, CommitRebuild, View, IsJournalOp, JournalOps
<1>2. Writing(s) /\ Refreshing(s) /\ pc[s] \in Holding
  BY <1>1 DEF Writing, Holding, RefreshInv, IsJournalOp, JournalOps
<1>3. ASSUME NEW k \in Keys
      PROVE  /\ ~Posts(s, k) => Recompute(entry', k) = Recompute(entry, k)
             /\ Recompute(entry, k) # NoRow => Recompute(entry', k) # NoRow
  <2>1. CASE IsJournalOp(s)
    BY <1>1, <1>2, <2>1, PostingMoves
  <2>2. CASE ~IsJournalOp(s)
    BY <1>1, <2>2
  <2> QED
    BY <2>1, <2>2
<1>4. ProjectionIsRebuildable'
  <2> SUFFICES ASSUME NEW k \in Keys PROVE balance'[k] = Recompute(entry', k)
    BY DEF ProjectionIsRebuildable
  <2>1. balance'[k] = IF rows[s][k] # NoRow THEN rows[s][k] ELSE IF k \in cleared[s] THEN NoRow ELSE balance[k]
    BY <1>1 DEF ReplaceRows
  <2>2. CASE rows[s][k] # NoRow
    BY <1>1, <1>2, <2>1, <2>2 DEF Refreshing
  <2>3. CASE rows[s][k] = NoRow
    <3>1. k \notin cleared[s] /\ ~Posts(s, k)
      BY <1>2, <2>3 DEF Refreshing
    <3>2. balance[k] = Recompute(entry, k)
      BY DEF ProjectionIsRebuildable
    <3> QED
      BY <1>3, <2>1, <2>3, <3>1, <3>2
  <2> QED
    BY <2>2, <2>3
<1>5. cleared'[s] = {} /\ (\A k \in Keys : rows'[s][k] = NoRow) /\ pc'[s] = "idle"
  BY <1>1 DEF ReplaceRows
<1>6. Refreshing(s)'
  BY <1>5, NothingRefreshed DEF Writing
<1>7. ASSUME NEW t \in Sessions \ {s}, NEW k \in Keys, rows[t][k] # NoRow
      PROVE  Recompute(entry', k) = Recompute(entry, k)
  <2>1. rows[s][k] = NoRow
    BY <1>7 DEF RefreshInv, RowsExclusive
  <2>2. ~Posts(s, k)
    BY <1>2, <2>1 DEF Refreshing
  <2> QED
    BY <1>3, <2>2
<1> QED
  BY <1>3, <1>4, <1>5, <1>6, <1>7

LEMMA RefreshInit == Init => RefreshInv /\ ProjectionIsRebuildable
<1> SUFFICES ASSUME Init PROVE RefreshInv /\ ProjectionIsRebuildable
  OBVIOUS
<1>1. \A s \in Sessions : Refreshing(s)
  BY DEF Init, Refreshing, Writing
<1>2. RowsExclusive
  BY DEF Init, RowsExclusive
<1>3. Counted(entry) = {}
  BY DEF Init, Counted, Absent
<1>4. ProjectionIsRebuildable
  BY <1>3 DEF Init, ProjectionIsRebuildable, Recompute, NoRow
<1> QED
  BY <1>1, <1>2, <1>4 DEF RefreshInv

LEMMA RefreshStep ==
  Inv /\ Inv' /\ RefreshInv /\ ProjectionIsRebuildable /\ [Next]_vars => RefreshInv' /\ ProjectionIsRebuildable'
<1> SUFFICES ASSUME Inv, Inv', RefreshInv, ProjectionIsRebuildable, [Next]_vars
             PROVE  RefreshInv' /\ ProjectionIsRebuildable'
  OBVIOUS
<1>1. CASE UNCHANGED <<balance, pc, req, took, cleared, rows>> /\ ~\E s \in Sessions : CommitPosting(s)
  <2>1. \A k \in Keys : Recompute(entry', k) = Recompute(entry, k)
    BY <1>1, SameEntries
  <2>2. ASSUME NEW t \in Sessions PROVE Refreshing(t)'
    BY <1>1, <2>1, RefreshingKept DEF RefreshInv
  <2> QED
    BY <1>1, <2>1, <2>2 DEF RefreshInv, RowsExclusive, ProjectionIsRebuildable
<1>2. ASSUME NEW s \in Sessions, Arrival(s) \/ Statement(s) \/ Rollback(s), ~CommitPosting(s), ~CommitRebuild(s),
             ~\E t \in Sessions : CommitPosting(t)
      PROVE  RefreshInv' /\ ProjectionIsRebuildable'
  <2>1. \A k \in Keys : Recompute(entry', k) = Recompute(entry, k)
    BY <1>2, SameEntries
  <2>2. /\ Refreshing(s)' /\ UNCHANGED balance
        /\ \A t \in Sessions \ {s}, k \in Keys : rows'[s][k] # NoRow => rows[t][k] = NoRow
    BY <1>2, StatementRefreshes
  <2>3. ASSUME NEW t \in Sessions \ {s} PROVE Refreshing(t)' /\ rows'[t] = rows[t]
    <3>1. /\ pc'[t] = pc[t] /\ req'[t] = req[t] /\ took'[t] = took[t] /\ rows'[t] = rows[t]
          /\ cleared'[t] \subseteq cleared[t]
      BY <1>2, Alone DEF Inv
    <3> QED
      BY <1>2, <2>1, <3>1, RefreshingKept DEF RefreshInv
  <2>4. RowsExclusive'
    BY <2>2, <2>3 DEF RefreshInv, RowsExclusive
  <2>5. ProjectionIsRebuildable'
    BY <2>1, <2>2 DEF ProjectionIsRebuildable
  <2> QED
    BY <2>2, <2>3, <2>4, <2>5 DEF RefreshInv
<1>3. ASSUME NEW s \in Sessions, CommitPosting(s) \/ CommitRebuild(s), \A t \in Sessions \ {s} : ~CommitPosting(t)
      PROVE  RefreshInv' /\ ProjectionIsRebuildable'
  <2>1. /\ ProjectionIsRebuildable'
        /\ Refreshing(s)' /\ \A k \in Keys : rows'[s][k] = NoRow
        /\ \A k \in Keys : Recompute(entry, k) # NoRow => Recompute(entry', k) # NoRow
        /\ \A t \in Sessions \ {s}, k \in Keys : rows[t][k] # NoRow => Recompute(entry', k) = Recompute(entry, k)
    BY <1>3, CommitRefreshes
  <2>2. ASSUME NEW t \in Sessions \ {s} PROVE Refreshing(t)' /\ rows'[t] = rows[t]
    <3>1. /\ pc'[t] = pc[t] /\ req'[t] = req[t] /\ took'[t] = took[t] /\ rows'[t] = rows[t]
          /\ cleared'[t] \subseteq cleared[t]
      BY <1>3, Alone DEF Inv, Statement
    <3> QED
      BY <1>3, <2>1, <3>1, RefreshingKept DEF RefreshInv
  <2>3. RowsExclusive'
    BY <2>1, <2>2 DEF RefreshInv, RowsExclusive
  <2> QED
    BY <2>1, <2>2, <2>3 DEF RefreshInv
<1>4. Drafting \/ UNCHANGED vars =>
        UNCHANGED <<balance, pc, req, took, cleared, rows>> /\ ~\E s \in Sessions : CommitPosting(s)
  <2>1. Drafting \/ UNCHANGED vars => UNCHANGED <<balance, pc, req, took, cleared, rows>>
    BY DEF Drafting, CreateDraft, UpdateDraft, DiscardDraft, vars
  <2>2. ASSUME NEW s \in Sessions, CommitPosting(s) PROVE pc' # pc
    BY <2>2 DEF CommitPosting, ReplaceRows, Inv, TypeInv, TypeOK
  <2> QED
    BY <2>1, <2>2
<1>5. ASSUME NEW s \in Sessions, NEW t \in Sessions \ {s}, CommitPosting(t)
      PROVE  ~(Arrival(s) \/ Statement(s) \/ Rollback(s))
  <2>1. pc[t] = "ready" /\ pc'[t] = "idle"
    BY <1>5 DEF CommitPosting, ReplaceRows, Inv, TypeInv, TypeOK
  <2> QED
    BY <2>1, Alone DEF Inv
<1> QED
  BY <1>1, <1>2, <1>3, <1>4, <1>5 DEF Next

(* Whatever postings and rebuilds overlap, on one sequence or on several,   *)
(* every commit leaves the stored balances equal to a full rebuild from the *)
(* posted lines.                                                            *)
THEOREM NoDrift == Spec => []ProjectionIsRebuildable
  BY RefreshInit, RefreshStep, Invariance, PTL DEF Spec
-----------------------------------------------------------------------------
(* A transition holds its period alone, and what it was checked against is  *)
(* still the status when it commits.                                        *)
TransitionInv ==
  /\ \A s, t \in Sessions, p \in Periods : OwnsPeriod(s, p) /\ OwnsPeriod(t, p) => s = t
  /\ \A s \in Sessions : OwnsPeriod(s, req[s].period) => period[req[s].period] \in TransitionFrom[req[s].to]

LEMMA TransitionStep == Inv /\ TransitionInv /\ [Next]_vars => TransitionInv'
<1> SUFFICES ASSUME Inv, TransitionInv, [Next]_vars PROVE TransitionInv'
  OBVIOUS
<1> USE DEF Inv, TypeInv, TypeOK
<1>1. ASSUME \A s \in Sessions : OwnsPeriod(s, req[s].period)' =>
               OwnsPeriod(s, req[s].period) /\ req'[s] = req[s] /\ period'[req[s].period] = period[req[s].period]
      PROVE  TransitionInv'
  BY <1>1 DEF TransitionInv, OwnsPeriod
<1>2. CASE UNCHANGED <<period, pc, req>>
  BY <1>1, <1>2 DEF OwnsPeriod
<1>3. ASSUME NEW s \in Sessions, Arrival(s) \/ Statement(s) \/ Rollback(s), UNCHANGED period,
             ~OwnsPeriod(s, req[s].period)' \/ (OwnsPeriod(s, req[s].period) /\ req'[s] = req[s])
      PROVE  TransitionInv'
  <2>1. \A t \in Sessions \ {s} : pc'[t] = pc[t] /\ req'[t] = req[t]
    BY <1>3, Alone
  <2> QED
    BY <1>1, <1>3, <2>1 DEF OwnsPeriod
<1>4. ASSUME NEW s \in Sessions, EndWithNothing(s), UNCHANGED period, Arrival(s) \/ Statement(s) \/ Rollback(s)
      PROVE  TransitionInv'
  <2>1. ~OwnsPeriod(s, req[s].period)'
    BY <1>4 DEF EndWithNothing, OwnsPeriod
  <2> QED
    BY <1>3, <1>4, <2>1
<1>5. ASSUME NEW s \in Sessions, LockPeriodForClose(s), ~EndWithNothing(s) PROVE TransitionInv'
  <2>1. /\ At(s, "begin") /\ pc[s] = "begin" /\ req[s].op = "transition"
        /\ period[req[s].period] \in TransitionFrom[req[s].to] /\ pc' = [pc EXCEPT ![s] = "closing"]
        /\ UNCHANGED <<period, req>>
    BY <1>5 DEF LockPeriodForClose, At, Step, committed
  <2>2. \A t \in Sessions \ {s} : ~OwnsPeriod(t, req[s].period)
    BY <2>1 DEF At, WaitsFor
  <2>3. /\ \A t \in Sessions \ {s} : \A p \in Periods : OwnsPeriod(t, p)' <=> OwnsPeriod(t, p)
        /\ \A p \in Periods : OwnsPeriod(s, p)' <=> p = req[s].period
    BY <2>1 DEF OwnsPeriod, RequestOK
  <2>4. \A t, u \in Sessions, p \in Periods : OwnsPeriod(t, p)' /\ OwnsPeriod(u, p)' => t = u
    BY <2>2, <2>3 DEF TransitionInv
  <2>5. ASSUME NEW t \in Sessions, OwnsPeriod(t, req[t].period)'
        PROVE  period'[req'[t].period] \in TransitionFrom[req'[t].to]
    BY <2>1, <2>5 DEF TransitionInv, OwnsPeriod
  <2> QED
    BY <2>4, <2>5 DEF TransitionInv
<1>6. ASSUME NEW s \in Sessions, CommitTransition(s) PROVE TransitionInv'
  <2>1. /\ pc[s] = "ready" /\ req[s].op = "transition" /\ req[s].period \in Periods
        /\ period' = [period EXCEPT ![req[s].period] = req[s].to]
        /\ pc'[s] = "idle"
        /\ \A t \in Sessions \ {s} : pc'[t] = pc[t] /\ req'[t] = req[t]
    BY <1>6 DEF CommitTransition, EndWithNothing, RequestOK
  <2>2. OwnsPeriod(s, req[s].period)
    BY <2>1 DEF OwnsPeriod
  <2>3. ASSUME NEW t \in Sessions \ {s}, OwnsPeriod(t, req[t].period)
        PROVE  period'[req[t].period] = period[req[t].period]
    <3>1. req[t].period \in Periods
      BY <2>3 DEF OwnsPeriod, RequestOK
    <3>2. req[t].period # req[s].period
      BY <2>1, <2>2, <2>3 DEF TransitionInv
    <3> QED
      BY <2>1, <3>1, <3>2
  <2> QED
    BY <1>1, <2>1, <2>3 DEF OwnsPeriod
<1>7. ASSUME NEW s \in Sessions, Arrival(s) PROVE TransitionInv'
  <2>1. pc'[s] = "begin" /\ UNCHANGED period
    BY <1>7 DEF Arrival, BeginPost, BeginReverse, BeginTransition, BeginRebuild, Step, committed
  <2> QED
    BY <1>3, <1>7, <2>1 DEF OwnsPeriod
<1>8. ASSUME NEW s \in Sessions, Rollback(s) PROVE TransitionInv'
  BY <1>4, <1>8 DEF Rollback, committed
<1>9. ASSUME NEW s \in Sessions, Statement(s), ~LockPeriodForClose(s), ~CommitTransition(s), ~EndWithNothing(s)
      PROVE  TransitionInv'
  <2>1. UNCHANGED period
    BY <1>9 DEF Statement, LockEntry, LockPeriod, Prepare, AllocateNumber, StartClear, FinishClear, InsertRows,
                Audit, CommitPosting, CommitRebuild, CheckEarlier, committed
  <2>2. \/ req'[s] = req[s] /\ pc[s] # "idle" /\ (pc[s] = "begin" => req[s].op # "transition")
        \/ req'[s].op = "none"
    <3>1. CASE CommitPosting(s) \/ CommitRebuild(s)
      BY <3>1 DEF CommitPosting, CommitRebuild, ReplaceRows, NoRequest
    <3>2. CASE LockEntry(s) \/ LockPeriod(s) \/ Prepare(s) \/ AllocateNumber(s)
      BY <1>9, <3>2 DEF LockEntry, LockPeriod, Prepare, AllocateNumber, At, IsJournalOp, JournalOps
    <3>3. CASE StartClear(s) \/ FinishClear(s) \/ InsertRows(s) \/ Audit(s) \/ CheckEarlier(s)
      BY <1>9, <3>3 DEF StartClear, FinishClear, InsertRows, Audit, CheckEarlier, At
    <3> QED
      BY <1>9, <3>1, <3>2, <3>3 DEF Statement
  <2>3. OwnsPeriod(s, req[s].period)' => OwnsPeriod(s, req[s].period) /\ req'[s] = req[s]
    BY <2>2 DEF OwnsPeriod
  <2> QED
    BY <1>3, <1>9, <2>1, <2>3
<1>10. CASE Drafting \/ UNCHANGED vars
  BY <1>2, <1>10 DEF Drafting, CreateDraft, UpdateDraft, DiscardDraft, vars
<1>11. ASSUME NEW s \in Sessions, Statement(s), ~LockPeriodForClose(s), ~CommitTransition(s), EndWithNothing(s)
       PROVE  TransitionInv'
  <2>1. UNCHANGED period
    BY <1>11 DEF Statement, LockEntry, LockPeriod, Prepare, AllocateNumber, StartClear, FinishClear, InsertRows,
                 Audit, CommitPosting, CommitRebuild, CheckEarlier, committed
  <2> QED
    BY <1>4, <1>11, <2>1
<1>12. ASSUME NEW s \in Sessions, LockPeriodForClose(s), EndWithNothing(s) PROVE TransitionInv'
  BY <1>4, <1>12 DEF LockPeriodForClose, Statement, committed
<1> QED
  BY <1>5, <1>6, <1>7, <1>8, <1>9, <1>10, <1>11, <1>12 DEF Next

LEMMA TransitionInvariance == Spec => []TransitionInv
<1>1. Init => TransitionInv
  BY DEF Init, TransitionInv, OwnsPeriod, NoRequest
<1> QED
  BY <1>1, TransitionStep, Invariance, PTL DEF Spec
-----------------------------------------------------------------------------
(* Ledger speaks of the same tables.                                        *)
LEMMA SameData ==
  /\ \A b : Abstract!SequenceFor(b) = SequenceFor(b)
  /\ \A n : Abstract!NumberFrom(n) = NumberFrom(n)
  /\ \A es, e, q, n : Abstract!AfterPost(es, e, q, n) = AfterPost(es, e, q, n)
  /\ \A es, e, r, p, q, n : Abstract!AfterReverse(es, e, r, p, q, n) = AfterReverse(es, e, r, p, q, n)
  /\ \A es, k : Abstract!Recompute(es, k) = Recompute(es, k)
  /\ \A c : Abstract!DraftOf(c) = DraftOf(c)
  /\ Abstract!Keys = Keys /\ Abstract!Absent = Absent /\ Abstract!TransitionFrom = TransitionFrom
  /\ Abstract!Branch = Branch /\ Abstract!NoRow = NoRow /\ Abstract!PeriodStatus = PeriodStatus
BY DEF Abstract!SequenceFor, SequenceFor, Abstract!NumberFrom, NumberFrom, Abstract!AfterPost, AfterPost,
       Abstract!AfterReverse, AfterReverse, Abstract!Recompute, Recompute, Abstract!DraftOf, DraftOf,
       Abstract!Keys, Keys, Abstract!Absent, Absent, Abstract!TransitionFrom, TransitionFrom,
       Abstract!Branch, Branch, Abstract!NoRow, NoRow, Abstract!PeriodStatus, PeriodStatus,
       Abstract!PostedAs, PostedAs, Abstract!ReversalOf, ReversalOf, Abstract!Counted, Counted

(* The COMMIT of a posting is the atomic posting of Ledger.                 *)
LEMMA PostingRefines ==
  ASSUME Inv, ProjectionIsRebuildable', NEW s \in Sessions, CommitPosting(s)
  PROVE  Abstract!Next
<1> DEFINE e == req[s].entry
           r == req[s].reversal
           p == req[s].period
           q == SequenceFor(entry[e].branch)
           n == NumberFrom(next[q])
<1>1. /\ e \in Entries /\ p \in Periods /\ entry[e].balanced
      /\ took[s].sequence = q /\ took[s].number = n
      /\ Accepts(s, period[p])
      /\ UNCHANGED period /\ next' = [next EXCEPT ![q] = n + 1]
      /\ entry' = View(s)
  <2>1. /\ e \in Entries /\ p \in Periods /\ entry[e].balanced /\ Accepts(s, period[p])
        /\ took[s].number = NumberFrom(next[took[s].sequence])
    BY CommitEffect
  <2>2. took[s].sequence = q
    BY DEF Inv, CheckedInv, Validated, CommitPosting, Holding
  <2> QED
    BY <2>1, <2>2 DEF CommitPosting
<1>2. Abstract!AcceptsPosting(p)
  BY <1>1 DEF Accepts, Abstract!AcceptsPosting
<1>3. Abstract!Numbered(q)
  BY <1>1, SameData DEF Abstract!Numbered
<1>4. Abstract!Projected
  <2>1. balance' \in [Keys -> Row] /\ \A k \in Keys : balance'[k] = Recompute(entry', k)
    <3>1. balance' = [k \in Keys |-> balance'[k]]
      BY DEF CommitPosting, ReplaceRows
    <3>2. \A k \in Keys : balance'[k] = Recompute(entry', k)
      BY DEF ProjectionIsRebuildable
    <3> QED
      BY <3>1, <3>2, RecomputeType
  <2> QED
    BY <2>1, SameData DEF Abstract!Projected
<1>5. CASE req[s].op = "post"
  <2>1. entry[e].status = "DRAFT" /\ entry[e].period = p /\ entry' = AfterPost(entry, e, q, n)
    <3>1. entry[e].status = "DRAFT" /\ entry[e].period = p
      BY <1>5, CommitEffect
    <3> QED
      BY <1>1, <1>5, <3>1 DEF View
  <2>2. Abstract!Post(e)
    BY <1>1, <1>2, <1>3, <1>4, <2>1, SameData DEF Abstract!Post
  <2> QED
    BY <1>1, <2>2 DEF Abstract!Next
<1>6. CASE req[s].op = "reverse"
  <2>1. /\ entry[e].status = "POSTED" /\ r \in Entries /\ entry[r].status = "ABSENT"
        /\ \A f \in Entries : entry[f].reverses # e
        /\ entry' = AfterReverse(entry, e, r, p, q, n)
    <3>1. /\ entry[e].status = "POSTED" /\ r \in Entries /\ entry[r].status = "ABSENT"
          /\ \A f \in Entries : entry[f].reverses # e
      BY <1>6, CommitEffect
    <3> QED
      BY <1>1, <1>6, <3>1 DEF View
  <2>2. Abstract!Reverse(e, r, p)
    BY <1>1, <1>2, <1>3, <1>4, <2>1, SameData DEF Abstract!Reverse
  <2> QED
    BY <1>1, <2>1, <2>2 DEF Abstract!Next
<1> QED
  BY <1>5, <1>6, CommitEffect

(* The transactions together are the atomic ledger: every commit is one     *)
(* operation of Ledger on the committed tables, and no other statement      *)
(* changes them.                                                            *)
THEOREM RefinesLedger == Spec => ImplementsLedger
<1>1. Init => Abstract!Init
  <2> SUFFICES ASSUME Init PROVE Abstract!Init
    OBVIOUS
  <2>1. next \in [Branch -> {0, 1}]
    BY DEF Init
  <2> QED
    BY <2>1, SameData DEF Init, Abstract!Init
<1>2. Inv /\ TransitionInv /\ ProjectionIsRebuildable /\ ProjectionIsRebuildable' /\ [Next]_vars
        => [Abstract!Next]_(Abstract!vars)
  <2> SUFFICES ASSUME Inv, TransitionInv, ProjectionIsRebuildable, ProjectionIsRebuildable', [Next]_vars
               PROVE  Abstract!Next \/ UNCHANGED committed
    BY DEF Abstract!vars, committed
  <2>1. ASSUME NEW e \in Entries, NEW c \in Contents, CreateDraft(e, c) \/ UpdateDraft(e, c) PROVE Abstract!Next
    <3>1. Abstract!CreateDraft(e, c) \/ Abstract!UpdateDraft(e, c)
      BY <2>1, SameData DEF CreateDraft, UpdateDraft, Abstract!CreateDraft, Abstract!UpdateDraft
    <3> QED
      BY <3>1 DEF Abstract!Next
  <2>2. ASSUME NEW e \in Entries, DiscardDraft(e) PROVE Abstract!Next
    <3>1. Abstract!DiscardDraft(e)
      BY <2>2, SameData DEF DiscardDraft, Abstract!DiscardDraft
    <3> QED
      BY <3>1 DEF Abstract!Next
  <2>3. ASSUME NEW s \in Sessions, CommitPosting(s) PROVE Abstract!Next
    BY <2>3, PostingRefines
  <2>4. ASSUME NEW s \in Sessions, CommitRebuild(s) PROVE UNCHANGED committed
    <3>1. balance = [k \in Keys |-> balance[k]] /\ balance' = [k \in Keys |-> balance'[k]]
      BY <2>4 DEF CommitRebuild, ReplaceRows, Inv, TypeInv, TypeOK
    <3>2. \A k \in Keys : balance'[k] = balance[k]
      BY <2>4 DEF CommitRebuild, ProjectionIsRebuildable
    <3>3. balance' = balance
      BY <3>1, <3>2
    <3> QED
      BY <2>4, <3>3 DEF CommitRebuild, committed
  <2>5. ASSUME NEW s \in Sessions, CommitTransition(s) PROVE Abstract!Next
    <3>1. req[s].period \in Periods /\ req[s].to \in PeriodStatus
          /\ OwnsPeriod(s, req[s].period) /\ UNCHANGED <<entry, next, balance>>
      BY <2>5 DEF Inv, TypeInv, TypeOK, RequestOK, Request, CommitTransition, OwnsPeriod
    <3>2. Abstract!Transition(req[s].period, req[s].to)
      BY <2>5, <3>1, SameData DEF Abstract!Transition, CommitTransition, TransitionInv
    <3> QED
      BY <3>1, <3>2, SameData DEF Abstract!Next
  <2>6. ASSUME NEW s \in Sessions, Arrival(s) \/ Rollback(s) PROVE UNCHANGED committed
    BY <2>6 DEF Arrival, BeginPost, BeginReverse, BeginTransition, BeginRebuild, Rollback
  <2>7. ASSUME NEW s \in Sessions, Statement(s), ~CommitPosting(s), ~CommitRebuild(s), ~CommitTransition(s)
        PROVE  UNCHANGED committed
    BY <2>7 DEF Statement, LockEntry, LockPeriod, Prepare, AllocateNumber, StartClear, FinishClear, InsertRows,
                Audit, LockPeriodForClose, CheckEarlier
  <2>8. CASE UNCHANGED vars
    BY <2>8 DEF vars, committed
  <2> QED
    BY <2>1, <2>2, <2>3, <2>4, <2>5, <2>6, <2>7, <2>8 DEF Next, Drafting
<1> QED
  BY <1>1, <1>2, Invariance, TransitionInvariance, NoDrift, PTL DEF Spec, ImplementsLedger, Abstract!Spec
-----------------------------------------------------------------------------
(* Once the entity-wide sequence is set up, no posting creates a sequence,  *)
(* so none takes the audit lock before the balances.                        *)
SequencesExist == (\A q \in Branch : next[q] > 0) /\ \A s \in Sessions : ~took[s].created

LEMMA SequenceStep == Inv /\ SequencesExist /\ [Next]_vars => SequencesExist'
<1> SUFFICES ASSUME Inv, SequencesExist, [Next]_vars PROVE SequencesExist'
  OBVIOUS
<1> USE DEF Inv, TypeInv, TypeOK
<1>1. ASSUME UNCHANGED <<next, took>> PROVE SequencesExist'
  BY <1>1 DEF SequencesExist
<1>2. ASSUME NEW s \in Sessions, EndWithNothing(s), UNCHANGED next PROVE SequencesExist'
  BY <1>2 DEF SequencesExist, EndWithNothing, NothingTaken
<1>3. ASSUME NEW s \in Sessions, Prepare(s), ~EndWithNothing(s) PROVE SequencesExist'
  <2> DEFINE q == SequenceFor(entry[req[s].entry].branch)
             new == [sequence |-> q, created |-> next[q] = 0, number |-> 0]
  <2>1. took' = [took EXCEPT ![s] = new] /\ UNCHANGED next
    BY <1>3 DEF Prepare, committed
  <2>2. IsJournalOp(s)
    BY <1>3 DEF Prepare, At, RequestOK, Request, IsJournalOp, JournalOps
  <2>3. q \in Branch
    BY <2>2, SequenceType DEF RequestOK, Entry
  <2>4. next[q] # 0
    BY <2>3 DEF SequencesExist
  <2>5. ~new.created
    BY <2>4
  <2> HIDE DEF new
  <2>6. \A t \in Sessions : took'[t] = IF t = s THEN new ELSE took[t]
    BY <2>1
  <2> QED
    BY <2>1, <2>5, <2>6 DEF SequencesExist
<1>4. ASSUME NEW s \in Sessions, AllocateNumber(s), ~EndWithNothing(s) PROVE SequencesExist'
  <2> DEFINE n == NumberFrom(next[took[s].sequence])
             new == [took[s] EXCEPT !.number = n]
  <2>1. took' = [took EXCEPT ![s] = new] /\ UNCHANGED next
    BY <1>4 DEF AllocateNumber, committed
  <2>2. new.created = took[s].created
    BY DEF Taken
  <2> HIDE DEF new
  <2>3. \A t \in Sessions : took'[t] = IF t = s THEN new ELSE took[t]
    BY <2>1
  <2> QED
    BY <2>1, <2>2, <2>3 DEF SequencesExist
<1>5. ASSUME NEW s \in Sessions, CommitPosting(s) PROVE SequencesExist'
  <2>1. took' = [took EXCEPT ![s] = NothingTaken] /\ next' = [next EXCEPT ![took[s].sequence] = took[s].number + 1]
    BY <1>5 DEF CommitPosting, ReplaceRows
  <2>2. took[s].number \in Nat
    BY DEF Taken
  <2>3. \A q \in Branch : next'[q] > 0
    BY <2>1, <2>2 DEF SequencesExist
  <2> QED
    BY <2>1, <2>3 DEF SequencesExist, NothingTaken
<1>6. ASSUME NEW s \in Sessions, CommitRebuild(s) PROVE SequencesExist'
  BY <1>6 DEF CommitRebuild, ReplaceRows, SequencesExist, NothingTaken
<1>7. ASSUME NEW s \in Sessions, CommitTransition(s) PROVE SequencesExist'
  BY <1>2, <1>7 DEF CommitTransition
<1>8. ASSUME NEW s \in Sessions, Statement(s) \/ Rollback(s), EndWithNothing(s), ~CommitPosting(s)
      PROVE  SequencesExist'
  <2>1. UNCHANGED next
    BY <1>8 DEF Statement, Rollback, LockEntry, LockPeriod, Prepare, AllocateNumber, StartClear, FinishClear,
                InsertRows, Audit, CommitRebuild, LockPeriodForClose, CheckEarlier, CommitTransition, committed
  <2> QED
    BY <1>2, <1>8, <2>1
<1>9. ASSUME NEW s \in Sessions, ~EndWithNothing(s),
             LockEntry(s) \/ LockPeriod(s) \/ StartClear(s) \/ FinishClear(s) \/ InsertRows(s) \/ Audit(s)
               \/ LockPeriodForClose(s) \/ CheckEarlier(s)
      PROVE  SequencesExist'
  <2>1. UNCHANGED <<next, took>>
    BY <1>9 DEF LockEntry, LockPeriod, StartClear, FinishClear, InsertRows, Audit, LockPeriodForClose, CheckEarlier,
                committed
  <2> QED
    BY <1>1, <2>1
<1>10. ASSUME NEW s \in Sessions, Arrival(s) PROVE SequencesExist'
  BY <1>1, <1>10 DEF Arrival, BeginPost, BeginReverse, BeginTransition, BeginRebuild, committed
<1>11. CASE Drafting \/ UNCHANGED vars
  BY <1>1, <1>11 DEF Drafting, CreateDraft, UpdateDraft, DiscardDraft, vars
<1> QED
  BY <1>3, <1>4, <1>5, <1>6, <1>7, <1>8, <1>9, <1>10, <1>11 DEF Next, Statement, Rollback

(* A transaction waits only for one that has come further.                  *)
LEMMA WaitsForLater ==
  ASSUME TypeInv, SequencesExist, NEW s \in Sessions, NEW t \in Sessions, WaitsFor(s, t)
  PROVE  \/ pc[s] = "begin" /\ pc[t] \notin {"idle", "begin"}
         \/ pc[s] = "entry" /\ pc[t] \notin {"idle", "begin", "entry"}
         \/ pc[s] = "sequence" /\ pc[t] \in {"numbered", "clearing", "cleared", "written", "ready"}
         \/ pc[s] = "clearing" /\ pc[t] \in {"cleared", "written", "ready"}
         \/ pc[s] = "cleared" /\ pc[t] \in {"written", "ready"}
         \/ pc[s] = "written" /\ pc[t] = "ready"
<1>1. RequestOK(t) /\ ~took[s].created /\ ~took[t].created
  BY DEF TypeInv, SequencesExist
<1> QED
  BY <1>1 DEF WaitsFor, HoldsEntry, SharesPeriod, OwnsPeriod, HoldsSequence, HoldsAudit, RequestOK, IsJournalOp,
              JournalOps

(* Sessions of any number never wait on each other in a circle, as long as  *)
(* the entity-wide sequence was set up before the first posting.            *)
THEOREM DeadlockFree == Configured => (Spec => []NoDeadlock)
<1> SUFFICES ASSUME Configured PROVE Spec => []NoDeadlock
  OBVIOUS
<1>1. Init => SequencesExist
  BY DEF Init, SequencesExist, NothingTaken
<1>2. TypeInv /\ SequencesExist => NoDeadlock
  <2> SUFFICES ASSUME TypeInv, SequencesExist, NEW S \in SUBSET Sessions, S # {},
                      \A s \in S : \E t \in S : WaitsFor(s, t)
               PROVE  FALSE
    BY DEF NoDeadlock
  <2>1. \A s \in S : pc[s] \in {"begin", "entry", "sequence", "clearing", "cleared", "written"}
    BY WaitsForLater
  <2>2. \A s \in S : pc[s] # "written"
    BY <2>1, WaitsForLater
  <2>3. \A s \in S : pc[s] # "cleared"
    BY <2>1, <2>2, WaitsForLater
  <2>4. \A s \in S : pc[s] # "clearing"
    BY <2>1, <2>2, <2>3, WaitsForLater
  <2>5. \A s \in S : pc[s] # "sequence"
    BY <2>1, <2>2, <2>3, <2>4, WaitsForLater
  <2>6. \A s \in S : pc[s] # "entry"
    BY <2>1, <2>2, <2>3, <2>4, <2>5, WaitsForLater
  <2>7. \A s \in S : pc[s] # "begin"
    BY <2>1, <2>2, <2>3, <2>4, <2>5, <2>6, WaitsForLater
  <2> QED
    BY <2>1, <2>2, <2>3, <2>4, <2>5, <2>6, <2>7
<1>3. Inv => TypeInv
  BY DEF Inv
<1> QED
  BY <1>1, <1>2, <1>3, SequenceStep, Invariance, PTL DEF Spec
=============================================================================

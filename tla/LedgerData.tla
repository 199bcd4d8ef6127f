----------------------------- MODULE LedgerData ----------------------------
(***************************************************************************)
(* The tables of the general ledger that Ledger (what it promises) and     *)
(* Posting (how the code keeps the promise) both speak about.              *)
(*                                                                         *)
(* Amounts are abstracted: a journal line is identified with the entry it  *)
(* belongs to, so a balance is the SET of entries it sums (equal sets give *)
(* equal sums, and a sum of debits or credits, which are never negative,   *)
(* is zero only for the empty set), and an entry knows the accounts its    *)
(* non-zero lines touch and whether its lines balance.  DRAFT stands for   *)
(* the three editable statuses DRAFT, SUBMITTED and APPROVED; ABSENT and   *)
(* DISCARDED mean "no row".                                                *)
(***************************************************************************)
EXTENDS Integers, FiniteSets

CONSTANTS
  Entries,        \* identifiers of journal_entries rows
  NoEntry,        \* "no row"
  Periods,        \* accounting_periods of one entity, ordered as numbers
  Accounts,       \* accounts of the entity
  Branches,       \* branches with a JOURNAL sequence of their own
  EntityWide,     \* branch_id NULL, and the sequence of the whole entity
  Contents,       \* what a draft may contain
  AllowPrivileged \* closed_period_behaviour = ALLOW_PRIVILEGED

Branch == Branches \cup {EntityWide}

Content == [period : Periods, accounts : SUBSET Accounts, branch : Branch, balanced : BOOLEAN]

ASSUME DataAssumption ==
  /\ NoEntry \notin Entries
  /\ Periods \subseteq Nat \ {0}
  /\ EntityWide \notin Branches
  /\ Contents \subseteq Content
  /\ AllowPrivileged \in BOOLEAN

PeriodStatus == {"OPEN", "SOFT_CLOSED", "HARD_CLOSED"}

Entry == [status : {"ABSENT", "DRAFT", "POSTED", "REVERSED", "DISCARDED"},
          period : Periods \cup {0}, accounts : SUBSET Accounts, branch : Branch,
          balanced : BOOLEAN, sequence : Branch, number : Nat,
          reverses : Entries \cup {NoEntry}]

Absent == [status |-> "ABSENT", period |-> 0, accounts |-> {}, branch |-> EntityWide,
           balanced |-> FALSE, sequence |-> EntityWide, number |-> 0, reverses |-> NoEntry]

DraftOf(c) == [Absent EXCEPT !.status = "DRAFT", !.period = c.period, !.accounts = c.accounts,
                             !.branch = c.branch, !.balanced = c.balanced]

(* The row `from' as a posting with sequence q and number n leaves it.      *)
PostedAs(from, q, n) == [from EXCEPT !.status = "POSTED", !.sequence = q, !.number = n]

(* A reversal of e: the original's lines, inverted, in period p.            *)
ReversalOf(e, from, p) == [from EXCEPT !.period = p, !.reverses = e]

(* The journal_entries table after e is posted, or reversed by r.           *)
AfterPost(es, e, q, n) == [es EXCEPT ![e] = PostedAs(@, q, n)]

AfterReverse(es, e, r, p, q, n) ==
  [es EXCEPT ![e].status = "REVERSED", ![r] = PostedAs(ReversalOf(e, es[e], p), q, n)]

Keys == Periods \X Accounts
Row == [opening : SUBSET Entries, moved : SUBSET Entries]
NoRow == [opening |-> {}, moved |-> {}]

(* A line counts in a balance when its entry is POSTED or REVERSED.         *)
Counted(es) == {e \in Entries : es[e].status \in {"POSTED", "REVERSED"}}

(* The RECOMPUTE query over the entries es, for the period k[1] and the     *)
(* account k[2].                                                            *)
Recompute(es, k) ==
  [opening |-> {e \in Counted(es) : k[2] \in es[e].accounts /\ es[e].period < k[1]},
   moved   |-> {e \in Counted(es) : k[2] \in es[e].accounts /\ es[e].period = k[1]}]

(* number_sequences: the branch's own sequence, else the entity's; 0 in     *)
(* `next' is a sequence that does not exist yet, and starts at 1.           *)
SequenceFor(b) == IF b \in Branches THEN b ELSE EntityWide
NumberFrom_Previous(nextNumber) == nextNumber - 1   \* mutant: the number before the next
NumberFrom(nextNumber) == IF nextNumber = 0 THEN 1 ELSE nextNumber

(* PERIOD TRANSITIONS: the statuses each target may be reached from.        *)
TransitionFrom == [OPEN |-> {"SOFT_CLOSED", "HARD_CLOSED"},
                   SOFT_CLOSED |-> {"OPEN"},
                   HARD_CLOSED |-> {"OPEN", "SOFT_CLOSED"}]
=============================================================================

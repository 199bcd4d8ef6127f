------------------------------- MODULE Ledger -------------------------------
(***************************************************************************)
(* What the general ledger promises: every operation is atomic, a posting  *)
(* is balanced, takes the next number of its sequence, goes into a period  *)
(* that accepts it and leaves the projection equal to a rebuild, and       *)
(* posted history only ever gains the mark REVERSED.  Posting is shown to  *)
(* implement this specification.                                           *)
(***************************************************************************)
EXTENDS LedgerData

VARIABLES
  entry,    \* journal_entries with their lines
  period,   \* accounting_periods.status
  next,     \* number_sequences.next_number
  balance   \* ledger_account_balances

vars == <<entry, period, next, balance>>

Init ==
  /\ entry = [e \in Entries |-> Absent]
  /\ period = [p \in Periods |-> "OPEN"]
  /\ next \in [Branch -> {0, 1}]
  /\ balance = [k \in Keys |-> NoRow]

CreateDraft(e, c) ==
  /\ entry[e].status = "ABSENT"
  /\ entry' = [entry EXCEPT ![e] = DraftOf(c)]
  /\ UNCHANGED <<period, next, balance>>

UpdateDraft(e, c) ==
  /\ entry[e].status = "DRAFT" /\ c.period = entry[e].period
  /\ entry' = [entry EXCEPT ![e].accounts = c.accounts, ![e].balanced = c.balanced]
  /\ UNCHANGED <<period, next, balance>>

DiscardDraft(e) ==
  /\ entry[e].status = "DRAFT"
  /\ entry' = [entry EXCEPT ![e] = [Absent EXCEPT !.status = "DISCARDED"]]
  /\ UNCHANGED <<period, next, balance>>

AcceptsPosting(p) == \/ period[p] = "OPEN"
                     \/ period[p] = "SOFT_CLOSED" /\ AllowPrivileged

(* The number is the next one, and the projection follows the entries.      *)
Numbered(q) == next' = [next EXCEPT ![q] = NumberFrom(next[q]) + 1]
Projected == balance' = [k \in Keys |-> Recompute(entry', k)]

Post(e) ==
  LET q == SequenceFor(entry[e].branch) IN
  /\ entry[e].status = "DRAFT" /\ entry[e].balanced
  /\ AcceptsPosting(entry[e].period)
  /\ entry' = AfterPost(entry, e, q, NumberFrom(next[q]))
  /\ Numbered(q) /\ Projected
  /\ UNCHANGED period

Reverse(e, r, p) ==
  LET q == SequenceFor(entry[e].branch) IN
  /\ entry[e].status = "POSTED" /\ entry[r].status = "ABSENT"
  /\ \A f \in Entries : entry[f].reverses # e
  /\ AcceptsPosting(p)
  /\ entry' = AfterReverse(entry, e, r, p, q, NumberFrom(next[q]))
  /\ Numbered(q) /\ Projected
  /\ UNCHANGED period

Transition(p, to) ==
  /\ period[p] \in TransitionFrom[to]
  /\ period' = [period EXCEPT ![p] = to]
  /\ UNCHANGED <<entry, next, balance>>

Next ==
  \/ \E e \in Entries :
       \/ \E c \in Contents : CreateDraft(e, c) \/ UpdateDraft(e, c)
       \/ DiscardDraft(e)
       \/ Post(e)
       \/ \E r \in Entries, p \in Periods : Reverse(e, r, p)
  \/ \E p \in Periods, to \in PeriodStatus : Transition(p, to)

Spec == Init /\ [][Next]_vars
=============================================================================

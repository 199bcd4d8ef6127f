---------------------------- MODULE OpeningBalances ----------------------------
(***************************************************************************)
(* Drafts between their author and the ledger (journal.service), and the   *)
(* opening balance sets that are made of them (rules.service).             *)
(*                                                                         *)
(* A command on an entry is one transaction under the entry's row lock.    *)
(* Those on a set take several: the checks, the draft and the set; the set *)
(* read, its draft posted, the set marked.  The process may stop between   *)
(* any two.                                                                *)
(***************************************************************************)
EXTENDS Integers, FiniteSets

CONSTANTS
  Users, Entries, Sets,
  Totals           \* what lines add up to; Unbalanced is one that do not

None == "none"
Unbalanced == 0
Editable == {"DRAFT", "SUBMITTED", "APPROVED"}

VARIABLES
  entry,       \* journal_entries: status, lines, created_by, what was approved
  set,         \* opening_balance_sets: status, total, journal_entry_id
  creating,    \* of a user: createOpeningBalanceSet, how far it is
  postingSet   \* of a user: the set being posted, how far it is

vars == <<entry, set, creating, postingSet>>

NoEntry == [status |-> None, lines |-> Unbalanced, author |-> None, approver |-> None, approved |-> Unbalanced]
NoSet == [status |-> None, total |-> Unbalanced, entry |-> None]
NotCreating == [step |-> None, set |-> None, total |-> Unbalanced, entry |-> None]
NotPosting == [step |-> None, set |-> None]

Init ==
  /\ entry = [e \in Entries |-> NoEntry]
  /\ set = [s \in Sets |-> NoSet]
  /\ creating = [u \in Users |-> NotCreating]
  /\ postingSet = [u \in Users |-> NotPosting]

Free(e) == entry[e] = NoEntry
Draft(u, lines) == [NoEntry EXCEPT !.status = "DRAFT", !.lines = lines, !.author = u]
-----------------------------------------------------------------------------
CreateDraft(u, e, lines) ==
  /\ Free(e)
  /\ entry' = [entry EXCEPT ![e] = Draft(u, lines)]
  /\ UNCHANGED <<set, creating, postingSet>>

(* What was submitted or approved keeps its status with the new lines.      *)
UpdateDraft(e, lines) ==
  /\ entry[e].status \in Editable
  /\ entry' = [entry EXCEPT ![e].lines = lines]
  /\ UNCHANGED <<set, creating, postingSet>>

(* Not where a set refers to it.                                            *)
DiscardDraft(e) ==
  /\ entry[e].status \in Editable
  /\ \A s \in Sets : set[s].entry # e
  /\ entry' = [entry EXCEPT ![e] = NoEntry]
  /\ UNCHANGED <<set, creating, postingSet>>

Balanced(e) == entry[e].lines # Unbalanced

Submit(e) ==
  /\ entry[e].status = "DRAFT" /\ Balanced(e)
  /\ entry' = [entry EXCEPT ![e].status = "SUBMITTED"]
  /\ UNCHANGED <<set, creating, postingSet>>

Approve(u, e) ==
  /\ entry[e].status = "SUBMITTED" /\ u # entry[e].author /\ Balanced(e)
  /\ entry' = [entry EXCEPT ![e].status = "APPROVED", ![e].approver = u, ![e].approved = entry[e].lines]
  /\ UNCHANGED <<set, creating, postingSet>>

Posted(e) == entry[e].status \in Editable /\ Balanced(e)

Post(e) ==
  /\ Posted(e)
  /\ entry' = [entry EXCEPT ![e].status = "POSTED"]
  /\ UNCHANGED <<set, creating, postingSet>>
-----------------------------------------------------------------------------
Existing == {s \in Sets : set[s].status # None}

(* createOpeningBalanceSet looks for another without a lock, prepares the   *)
(* lines, has the draft made in a transaction of its own, and inserts the   *)
(* set.                                                                     *)
BeginOpening(u, s, total) ==
  /\ creating[u] = NotCreating /\ set[s] = NoSet
  /\ \A v \in Users : creating[v].set # s
  /\ Existing = {} /\ total # Unbalanced
  /\ creating' = [creating EXCEPT ![u] = [step |-> "checked", set |-> s, total |-> total, entry |-> None]]
  /\ UNCHANGED <<entry, set, postingSet>>

DraftOpening(u, e) ==
  /\ creating[u].step = "checked" /\ Free(e)
  /\ entry' = [entry EXCEPT ![e] = Draft(u, creating[u].total)]
  /\ creating' = [creating EXCEPT ![u].step = "drafted", ![u].entry = e]
  /\ UNCHANGED <<set, postingSet>>

InsertOpening(u) ==
  LET c == creating[u] IN
  /\ c.step = "drafted"
  /\ set' = IF Free(c.entry) THEN set    \* discarded: the foreign key refuses
            ELSE [set EXCEPT ![c.set] = [status |-> "VALIDATED", total |-> c.total, entry |-> c.entry]]
  /\ creating' = [creating EXCEPT ![u] = NotCreating]
  /\ UNCHANGED <<entry, postingSet>>

(* postOpeningBalanceSet.  A posted draft counts as posted by this call.    *)
ReadSet(u, s) ==
  /\ postingSet[u] = NotPosting /\ set[s].status = "VALIDATED"
  /\ postingSet' = [postingSet EXCEPT ![u] = [step |-> "read", set |-> s]]
  /\ UNCHANGED <<entry, set, creating>>

PostItsEntry(u) ==
  LET e == set[postingSet[u].set].entry IN
  /\ postingSet[u].step = "read"
  /\ IF entry[e].status = "POSTED" \/ Posted(e)
     THEN /\ entry' = [entry EXCEPT ![e].status = "POSTED"]
          /\ postingSet' = [postingSet EXCEPT ![u].step = "posted"]
     ELSE /\ entry' = entry
          /\ postingSet' = [postingSet EXCEPT ![u] = NotPosting]
  /\ UNCHANGED <<set, creating>>

MarkSet(u) ==
  /\ postingSet[u].step = "posted"
  /\ set' = [set EXCEPT ![postingSet[u].set].status = "POSTED"]
  /\ postingSet' = [postingSet EXCEPT ![u] = NotPosting]
  /\ UNCHANGED <<entry, creating>>

Crash(u) ==
  /\ creating' = [creating EXCEPT ![u] = NotCreating]
  /\ postingSet' = [postingSet EXCEPT ![u] = NotPosting]
  /\ UNCHANGED <<entry, set>>

Next ==
  \/ \E e \in Entries :
       \/ \E u \in Users, lines \in Totals : CreateDraft(u, e, lines)
       \/ \E lines \in Totals : UpdateDraft(e, lines)
       \/ DiscardDraft(e) \/ Submit(e) \/ Post(e)
       \/ \E u \in Users : Approve(u, e)
  \/ \E u \in Users :
       \/ \E s \in Sets : ReadSet(u, s) \/ \E total \in Totals : BeginOpening(u, s, total)
       \/ \E e \in Entries : DraftOpening(u, e)
       \/ InsertOpening(u) \/ PostItsEntry(u) \/ MarkSet(u) \/ Crash(u)

Spec == Init /\ [][Next]_vars
-----------------------------------------------------------------------------
(* A set says POSTED only of an entry that is, however its draft was        *)
(* edited, posted or discarded between the call's transactions.             *)
PostedSetsArePosted ==
  \A s \in Sets : set[s].status = "POSTED" => entry[set[s].entry].status = "POSTED"

(* "A second one would restate the starting position of a ledger that       *)
(* already has one" (refuted: two calls that check before either inserts).  *)
OneOpeningBalance == Cardinality(Existing) <= 1

(* A set's totals are its journal's (refuted: its draft may be edited).     *)
TotalsAreTheJournals ==
  \A s \in Sets : set[s].status = "POSTED" => set[s].total = entry[set[s].entry].lines

(* Editing is for "DRAFT and REJECTED only": what is posted as approved is  *)
(* what was approved (refuted: an approved entry is edited and posted).     *)
ApprovedIsWhatIsPosted ==
  \A e \in Entries :
    entry[e].status = "POSTED" /\ entry[e].approver # None => entry[e].lines = entry[e].approved
=============================================================================

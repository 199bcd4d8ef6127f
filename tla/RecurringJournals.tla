------------------------- MODULE RecurringJournals --------------------------
(***************************************************************************)
(* One recurring template and the worker replicas that generate its        *)
(* occurrences (runDueRecurringJournals): reserve the occurrence, create   *)
(* the draft, link it, post it if the template says so, advance            *)
(* next_run_date - each a transaction of its own.  Dates are counted in    *)
(* occurrences.                                                            *)
(***************************************************************************)
EXTENDS Naturals

CONSTANTS
  Today,       \* the occurrences 1..Today are due
  Replicas,
  Posts,       \* auto_post and not requires_approval
  MaxRestarts, MaxClosings   \* bounds: workers that die, periods closed or reopened

ASSUME RecurringAssumption ==
  /\ Today \in Nat \ {0}
  /\ Posts \in BOOLEAN
  /\ MaxRestarts \in Nat /\ MaxClosings \in Nat

Dates == 1..Today

VARIABLES
  next,        \* recurring_journal_templates.next_run_date
  occurrence,  \* recurring_journal_occurrences: "none", "reserved", "linked"
  entry,       \* the journal entry with the occurrence's source event
  made,        \* how many entries were inserted for an occurrence
  accepting,   \* does the period of a date accept postings
  job,         \* per worker: [step, date]
  restarts, closings

recurring == <<next, occurrence, entry, made, accepting, job, restarts, closings>>

NoJob == [step |-> "idle", date |-> 0]
Go(w, step) == job' = [job EXCEPT ![w] = [step |-> step, date |-> @.date]]
GiveUp(w) == job' = [job EXCEPT ![w] = NoJob]   \* logged, next_run_date left in place

RecurringInit ==
  /\ next = 1
  /\ occurrence = [d \in Dates |-> "none"]
  /\ entry = [d \in Dates |-> "none"]
  /\ made = [d \in Dates |-> 0]
  /\ accepting = [d \in Dates |-> TRUE]
  /\ job = [w \in Replicas |-> NoJob]
  /\ restarts = 0 /\ closings = 0
-----------------------------------------------------------------------------
ClaimTemplate(w) ==
  /\ job[w] = NoJob
  /\ next \in Dates
  /\ job' = [job EXCEPT ![w] = [step |-> "reserve", date |-> next]]
  /\ UNCHANGED <<next, occurrence, entry, made, accepting, restarts, closings>>

Reserve_Stops(w) ==   \* mutant: the loser of the insert leaves the template alone
  LET d == job[w].date IN
    /\ job[w].step = "reserve"
    /\ IF occurrence[d] = "none"
       THEN occurrence' = [occurrence EXCEPT ![d] = "reserved"] /\ Go(w, "draft")
       ELSE occurrence' = occurrence /\ GiveUp(w)
    /\ UNCHANGED <<next, entry, made, accepting, restarts, closings>>

Reserve_Ignored(w) ==   \* mutant: a lost insert is not noticed
  LET d == job[w].date IN
    /\ job[w].step = "reserve"
    /\ occurrence' = [occurrence EXCEPT ![d] = IF @ = "none" THEN "reserved" ELSE @]
    /\ Go(w, "draft")
    /\ UNCHANGED <<next, entry, made, accepting, restarts, closings>>

Reserve(w) ==   \* ON CONFLICT DO NOTHING
  LET d == job[w].date IN
    /\ job[w].step = "reserve"
    /\ IF occurrence[d] = "none"
       THEN occurrence' = [occurrence EXCEPT ![d] = "reserved"] /\ Go(w, "draft")
       ELSE occurrence' = occurrence /\ Go(w, "advance")
    /\ UNCHANGED <<next, entry, made, accepting, restarts, closings>>

CreateDraft(w) ==   \* an existing entry of the source event is returned
  LET d == job[w].date IN
    /\ job[w].step = "draft"
    /\ IF entry[d] = "none"
       THEN /\ entry' = [entry EXCEPT ![d] = "DRAFT"]
            /\ made' = [made EXCEPT ![d] = @ + 1]
       ELSE UNCHANGED <<entry, made>>
    /\ Go(w, "link")
    /\ UNCHANGED <<next, occurrence, accepting, restarts, closings>>

Refused(w) ==   \* no period, no lines, an account that was archived
  /\ job[w].step = "draft"
  /\ GiveUp(w)
  /\ UNCHANGED <<next, occurrence, entry, made, accepting, restarts, closings>>

Link(w) ==
  LET d == job[w].date IN
    /\ job[w].step = "link"
    /\ occurrence' = [occurrence EXCEPT ![d] = "linked"]
    /\ Go(w, IF Posts THEN "post" ELSE "advance")
    /\ UNCHANGED <<next, entry, made, accepting, restarts, closings>>

Post(w) ==
  LET d == job[w].date IN
    /\ job[w].step = "post"
    /\ IF accepting[d] \/ entry[d] = "POSTED"
       THEN entry' = [entry EXCEPT ![d] = "POSTED"] /\ Go(w, "advance")
       ELSE entry' = entry /\ GiveUp(w)
    /\ UNCHANGED <<next, occurrence, made, accepting, restarts, closings>>

After_Template(d) == next + 1   \* mutant: counted from the template's date, not from the occurrence's

After(d) == d + 1   \* nextRunDate

Advance(w) ==
  /\ job[w].step = "advance"
  /\ next' = After(job[w].date)
  /\ GiveUp(w)
  /\ UNCHANGED <<occurrence, entry, made, accepting, restarts, closings>>

Restart(w) ==
  /\ restarts < MaxRestarts /\ job[w] # NoJob
  /\ restarts' = restarts + 1
  /\ GiveUp(w)
  /\ UNCHANGED <<next, occurrence, entry, made, accepting, closings>>

ChangePeriodOf(d) ==
  /\ closings < MaxClosings
  /\ closings' = closings + 1
  /\ accepting' = [accepting EXCEPT ![d] = ~@]
  /\ UNCHANGED <<next, occurrence, entry, made, job, restarts>>

Generate(w) ==
  \/ ClaimTemplate(w) \/ Reserve(w) \/ CreateDraft(w) \/ Refused(w) \/ Link(w) \/ Post(w) \/ Advance(w)

PostByHand(d) ==   \* a person posts a generated draft
  /\ entry[d] = "DRAFT" /\ accepting[d]
  /\ entry' = [entry EXCEPT ![d] = "POSTED"]
  /\ UNCHANGED <<next, occurrence, made, accepting, job, restarts, closings>>

RecurringNext ==
  \/ \E w \in Replicas : Generate(w) \/ Restart(w)
  \/ \E d \in Dates : ChangePeriodOf(d) \/ PostByHand(d)

RecurringSpec == RecurringInit /\ [][RecurringNext]_recurring /\ \A w \in Replicas : WF_recurring(Generate(w))
-----------------------------------------------------------------------------
RecurringTypeOK ==
  /\ next \in 1..Today + 1
  /\ occurrence \in [Dates -> {"none", "reserved", "linked"}]
  /\ entry \in [Dates -> {"none", "DRAFT", "POSTED"}]
  /\ made \in [Dates -> Nat]
  /\ accepting \in [Dates -> BOOLEAN]
  /\ \A w \in Replicas : \/ job[w] = NoJob
                        \/ job[w] \in [step : {"reserve", "draft", "link", "post", "advance"}, date : Dates]
  /\ restarts \in 0..MaxRestarts /\ closings \in 0..MaxClosings

(* An occurrence has at most one entry, none before it is reserved, and one *)
(* replica at most works on it, even when several hold a claim on the       *)
(* template.                                                                *)
Generating(w) == job[w].step \in {"draft", "link", "post"}
OneEntryPerOccurrence ==
  /\ \A d \in Dates : made[d] <= 1 /\ (occurrence[d] = "none" => entry[d] = "none")
  /\ \A v, w \in Replicas :
       Generating(v) /\ Generating(w) /\ job[v].date = job[w].date => v = w

(* The schedule never jumps over an occurrence that nobody has reserved,    *)
(* although replicas with an old claim write next_run_date.                 *)
NoDateIsSkipped == \A d \in Dates : d < next => occurrence[d] # "none"

(* The template gets past every due date, whatever fails on the way.        *)
ScheduleCatchesUp == <>(next = Today + 1)

(* A generation that failed is made up for before the schedule moves on.    *)
NoOccurrenceIsLost == \A d \in Dates : d < next => entry[d] # "none"
=============================================================================

------------------------- MODULE ScheduledReversals -------------------------
(***************************************************************************)
(* The scheduled reversals of the ledger and the worker replicas that run  *)
(* them (runDueReversals).  A claim reads the due rows FOR UPDATE SKIP     *)
(* LOCKED and commits at once; the reversal, and the update that records   *)
(* how it went, are transactions of their own; a worker may die between    *)
(* any two of them.                                                        *)
(***************************************************************************)
EXTENDS Naturals, Sequences, FiniteSets

CONSTANTS
  Entries,       \* posted journal entries
  Schedules,     \* rows of scheduled_reversals, all of them due
  EntryOf,       \* scheduled_reversals.journal_entry_id
  Workers,
  AttemptLimit,  \* five in the code
  MaxCrashes, MaxPeriodChanges   \* bounds

ASSUME ReversalAssumption ==
  /\ EntryOf \in [Schedules -> Entries]
  /\ AttemptLimit \in Nat \ {0}
  /\ MaxCrashes \in Nat /\ MaxPeriodChanges \in Nat

VARIABLES
  reversals,  \* per entry: the reversals posted, each named by who asked for it
  sched,      \* status and attempts
  open,       \* does the period of the scheduled dates accept postings
  claimed,    \* per worker: the rest of its claim
  at,         \* per worker: [step, row]
  crashes, changes

vars == <<reversals, sched, open, claimed, at, crashes, changes>>

(* The instance that is checked: two schedules of one entry, one of another.*)
TwoOfOne == [s \in Schedules |-> IF s = "s3" THEN "e2" ELSE "e1"]

Nobody == "none"
ByHand == "by hand"
Idle == [step |-> "idle", row |-> Nobody]
Reversed(e) == reversals[e] # <<>>
Pending(s) == sched[s].status = "PENDING"

Init ==
  /\ reversals = [e \in Entries |-> <<>>]
  /\ sched = [s \in Schedules |-> [status |-> "none", attempts |-> 0]]
  /\ open = TRUE
  /\ claimed = [w \in Workers |-> {}]
  /\ at = [w \in Workers |-> Idle]
  /\ crashes = 0 /\ changes = 0
-----------------------------------------------------------------------------
OnePending(s) == \E o \in Schedules \ {s} : EntryOf[o] = EntryOf[s] /\ Pending(o)

ScheduleReversal(s) ==
  /\ sched[s].status = "none"
  /\ ~Reversed(EntryOf[s]) /\ ~OnePending(s)
  /\ sched' = [sched EXCEPT ![s].status = "PENDING"]
  /\ UNCHANGED <<reversals, open, claimed, at, crashes, changes>>

CancelScheduledReversal(s) ==
  /\ Pending(s)
  /\ sched' = [sched EXCEPT ![s].status = "CANCELLED"]
  /\ UNCHANGED <<reversals, open, claimed, at, crashes, changes>>

(* JournalService.reverse: refused for an entry that has been reversed, and *)
(* in a period that does not accept postings.                               *)
Reversible_StatusOfPeriod(e) == open   \* mutant: an earlier reversal is not looked for

Reversible(e) == ~Reversed(e) /\ open

ReverseByHand(e) ==
  /\ Reversible(e)
  /\ reversals' = [reversals EXCEPT ![e] = Append(@, ByHand)]
  /\ UNCHANGED <<sched, open, claimed, at, crashes, changes>>

ChangePeriod ==   \* closed, reopened
  /\ changes < MaxPeriodChanges
  /\ open' = ~open
  /\ changes' = changes + 1
  /\ UNCHANGED <<reversals, sched, claimed, at, crashes>>
-----------------------------------------------------------------------------
Claim(w) ==
  /\ at[w] = Idle /\ claimed[w] = {}
  /\ \E s \in Schedules : Pending(s)
  /\ claimed' = [claimed EXCEPT ![w] = {s \in Schedules : Pending(s)}]
  /\ UNCHANGED <<reversals, sched, open, at, crashes, changes>>

Reverse_TakenAsDone(w) ==   \* mutant: an entry reversed by somebody counts as reversed by the schedule
  /\ at[w] = Idle
  /\ \E s \in claimed[w] :
       /\ claimed' = [claimed EXCEPT ![w] = @ \ {s}]
       /\ IF Reversible(EntryOf[s])
          THEN /\ reversals' = [reversals EXCEPT ![EntryOf[s]] = Append(@, s)]
               /\ at' = [at EXCEPT ![w] = [step |-> "reversed", row |-> s]]
          ELSE /\ reversals' = reversals
               /\ at' = [at EXCEPT ![w] =
                           [step |-> IF Reversed(EntryOf[s]) THEN "reversed" ELSE "refused", row |-> s]]
  /\ UNCHANGED <<sched, open, crashes, changes>>

Reverse(w) ==   \* the next row, whatever has become of it since it was claimed
  /\ at[w] = Idle
  /\ \E s \in claimed[w] :
       /\ claimed' = [claimed EXCEPT ![w] = @ \ {s}]
       /\ IF Reversible(EntryOf[s])
          THEN /\ reversals' = [reversals EXCEPT ![EntryOf[s]] = Append(@, s)]
               /\ at' = [at EXCEPT ![w] = [step |-> "reversed", row |-> s]]
          ELSE /\ reversals' = reversals
               /\ at' = [at EXCEPT ![w] = [step |-> "refused", row |-> s]]
  /\ UNCHANGED <<sched, open, crashes, changes>>

RecordExecuted(w) ==
  LET s == at[w].row IN
    /\ at[w].step = "reversed"
    /\ sched' = [sched EXCEPT ![s] = [status |-> "EXECUTED", attempts |-> @.attempts + 1]]
    /\ at' = [at EXCEPT ![w] = Idle]
    /\ UNCHANGED <<reversals, open, claimed, crashes, changes>>

Retried_Uncounted(row) ==   \* mutant: a failed attempt is not counted
  [status |-> IF row.attempts + 1 >= AttemptLimit THEN "FAILED" ELSE "PENDING",
   attempts |-> row.attempts]

Retried(row) ==
  [status |-> IF row.attempts + 1 >= AttemptLimit THEN "FAILED" ELSE "PENDING",
   attempts |-> row.attempts + 1]

(* The row is updated whatever its status has become.  Making it pending    *)
(* next to another pending row of the entry breaks the unique index: the    *)
(* error escapes runDueReversals and the rest of the claim is dropped.      *)
RecordFailed(w) ==
  LET s == at[w].row IN
    /\ at[w].step = "refused"
    /\ IF Retried(sched[s]).status = "PENDING" /\ OnePending(s)
       THEN /\ sched' = sched
            /\ claimed' = [claimed EXCEPT ![w] = {}]
       ELSE /\ sched' = [sched EXCEPT ![s] = Retried(@)]
            /\ claimed' = claimed
    /\ at' = [at EXCEPT ![w] = Idle]
    /\ UNCHANGED <<reversals, open, crashes, changes>>

Crash(w) ==   \* and restart
  /\ crashes < MaxCrashes
  /\ at[w] # Idle \/ claimed[w] # {}
  /\ crashes' = crashes + 1
  /\ at' = [at EXCEPT ![w] = Idle]
  /\ claimed' = [claimed EXCEPT ![w] = {}]
  /\ UNCHANGED <<reversals, sched, open, changes>>

Work(w) == Claim(w) \/ Reverse(w) \/ RecordExecuted(w) \/ RecordFailed(w)

Next ==
  \/ \E s \in Schedules : ScheduleReversal(s) \/ CancelScheduledReversal(s)
  \/ \E e \in Entries : ReverseByHand(e)
  \/ ChangePeriod
  \/ \E w \in Workers : Work(w) \/ Crash(w)

(* Every replica ticks on a timer for as long as it lives.                  *)
Spec == Init /\ [][Next]_vars /\ \A w \in Workers : WF_vars(Work(w))
-----------------------------------------------------------------------------
TypeOK ==   \* attempts pass the limit only by the replicas that already hold the row
  /\ reversals \in [Entries -> Seq(Schedules \cup {ByHand})]
  /\ sched \in [Schedules -> [status : {"none", "PENDING", "EXECUTED", "CANCELLED", "FAILED"},
                              attempts : 0..AttemptLimit + Cardinality(Workers) - 1]]
  /\ open \in BOOLEAN
  /\ claimed \in [Workers -> SUBSET Schedules]
  /\ \A w \in Workers : \/ at[w] = Idle
                        \/ at[w] \in [step : {"reversed", "refused"}, row : Schedules]
  /\ crashes \in 0..MaxCrashes /\ changes \in 0..MaxPeriodChanges

(* No entry is reversed twice, however many replicas hold a claim on its    *)
(* schedule, whoever reverses it by hand, wherever a worker dies.           *)
ReversedAtMostOnce == \A e \in Entries : Len(reversals[e]) <= 1

(* A schedule marked EXECUTED is the one its entry was reversed by.         *)
ExecutedIsTrue ==
  \A s \in Schedules : sched[s].status = "EXECUTED" => reversals[EntryOf[s]] = <<s>>

(* A claimed schedule is never left with its attempts running on for ever:  *)
(* a pending one is executed, cancelled or given up.                        *)
EveryScheduleSettles == \A s \in Schedules : Pending(s) ~> ~Pending(s)

(* Two replicas never hold the same row (refuted: the claim's row locks end *)
(* with the claim's transaction).                                           *)
Held(w) == claimed[w] \cup (IF at[w] = Idle THEN {} ELSE {at[w].row})
NoRowTakenTwice == \A v, w \in Workers : v # w => Held(v) \cap Held(w) = {}

(* A schedule whose cancellation was accepted does not reverse its entry    *)
(* (refuted: a claimed row is reversed whatever has become of it).          *)
CancelledIsNotExecuted ==
  \A s \in Schedules : sched[s].status = "CANCELLED" => reversals[EntryOf[s]] # <<s>>
=============================================================================

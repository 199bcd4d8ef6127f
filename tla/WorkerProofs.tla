---------------------------- MODULE WorkerProofs ----------------------------
(***************************************************************************)
(* The jobs of the worker, for any number of replicas, rows, crashes and   *)
(* failures: scheduled reversals, recurring journals, and the outbox it    *)
(* drains and consumes.                                                    *)
(***************************************************************************)
EXTENDS ScheduledReversals, RecurringJournals, Outbox, TLAPS

(***************************************************************************)
(* For any number of entries, schedules, worker replicas and attempts: an  *)
(* entry is reversed at most once, and an executed schedule is the one     *)
(* that reversed it.                                                       *)
(*                                                                         *)
(* ExecutedIsTrue is not inductive: a worker between its two transactions  *)
(* holds, in at[w], a promise that the row it is about to mark EXECUTED    *)
(* did reverse the entry.  Inv adds that promise; it is kept by the other  *)
(* workers because a reversed entry is never reversed again.               *)
(***************************************************************************)
Shape ==
  /\ reversals \in [Entries -> Seq(Schedules \cup {ByHand})]
  /\ sched \in [Schedules -> [status : {"none", "PENDING", "EXECUTED", "CANCELLED", "FAILED"},
                              attempts : Nat]]
  /\ claimed \in [Workers -> SUBSET Schedules]
  /\ at \in [Workers -> {Idle} \cup [step : {"reversed", "refused"}, row : Schedules]]

Promised ==
  \A w \in Workers : at[w].step = "reversed" => reversals[EntryOf[at[w].row]] = <<at[w].row>>

Inv == Shape /\ ReversedAtMostOnce /\ ExecutedIsTrue /\ Promised

-----------------------------------------------------------------------------
(* A reversal that is posted keeps Inv: its entry had none, so no schedule  *)
(* was executed for it and no worker holds a promise about it.              *)
LEMMA ReversalKeepsPromises ==
  ASSUME Inv, NEW e \in Entries, NEW by \in Schedules \cup {ByHand}, Reversible(e),
         reversals' = [reversals EXCEPT ![e] = Append(@, by)]
  PROVE  /\ reversals' \in [Entries -> Seq(Schedules \cup {ByHand})]
         /\ reversals'[e] = <<by>>
         /\ \A f \in Entries \ {e} : reversals'[f] = reversals[f]
         /\ \A f \in Entries : Len(reversals'[f]) <= 1
         /\ \A s \in Schedules : reversals[EntryOf[s]] # <<>> => EntryOf[s] # e
  <1>1. reversals[e] = <<>>
    BY DEF Reversible, Reversed
  <1>2. reversals'[e] = <<by>>
    BY <1>1 DEF Inv, Shape
  <1>3. <<by>> \in Seq(Schedules \cup {ByHand}) /\ Len(<<by>>) = 1
    OBVIOUS
  <1>4. \A f \in Entries \ {e} : reversals'[f] = reversals[f]
    BY DEF Inv, Shape
  <1> QED
    BY <1>1, <1>2, <1>3, <1>4, ReversalAssumption
    DEF Inv, Shape, ReversedAtMostOnce, ReversalAssumption

(* A failed attempt leaves a row of scheduled_reversals, never an executed   *)
(* one.                                                                     *)
LEMMA RetriedRow ==
  ASSUME NEW row \in [status : {"none", "PENDING", "EXECUTED", "CANCELLED", "FAILED"}, attempts : Nat]
  PROVE  /\ Retried(row) \in [status : {"none", "PENDING", "EXECUTED", "CANCELLED", "FAILED"},
                              attempts : Nat]
         /\ Retried(row).status # "EXECUTED"
  BY DEF Retried

LEMMA InitInv == Init => Inv
  <1> SUFFICES ASSUME Init PROVE Inv
    OBVIOUS
  <1>1. Shape
    BY DEF Init, Shape, Idle
  <1>2. ReversedAtMostOnce
    BY DEF Init, ReversedAtMostOnce
  <1>3. ExecutedIsTrue
    BY DEF Init, ExecutedIsTrue
  <1>4. Promised
    BY DEF Init, Promised, Idle
  <1> QED
    BY <1>1, <1>2, <1>3, <1>4 DEF Inv

LEMMA NextInv == Inv /\ [Next]_vars => Inv'
  <1> SUFFICES ASSUME Inv, [Next]_vars PROVE Inv'
    OBVIOUS
  <1> USE ReversalAssumption DEF ReversalAssumption
  <1>1. ASSUME NEW s \in Schedules, ScheduleReversal(s) PROVE Inv'
    BY <1>1 DEF Inv, Shape, ReversedAtMostOnce, ExecutedIsTrue, Promised, ScheduleReversal
  <1>2. ASSUME NEW s \in Schedules, CancelScheduledReversal(s) PROVE Inv'
    BY <1>2 DEF Inv, Shape, ReversedAtMostOnce, ExecutedIsTrue, Promised, CancelScheduledReversal
  <1>3. ASSUME NEW e \in Entries, ReverseByHand(e) PROVE Inv'
    <2>1. /\ reversals' \in [Entries -> Seq(Schedules \cup {ByHand})]
          /\ \A f \in Entries \ {e} : reversals'[f] = reversals[f]
          /\ \A f \in Entries : Len(reversals'[f]) <= 1
          /\ \A s \in Schedules : reversals[EntryOf[s]] # <<>> => EntryOf[s] # e
      BY <1>3, ReversalKeepsPromises DEF ReverseByHand
    <2>2. Shape' /\ ReversedAtMostOnce'
      BY <1>3, <2>1 DEF Inv, Shape, ReversedAtMostOnce, ReverseByHand
    <2>3. ExecutedIsTrue'
      BY <1>3, <2>1 DEF Inv, Shape, ExecutedIsTrue, ReverseByHand
    <2>4. Promised'
      BY <1>3, <2>1 DEF Inv, Shape, Promised, ReverseByHand, Idle
    <2> QED
      BY <2>2, <2>3, <2>4 DEF Inv
  <1>4. ASSUME ChangePeriod PROVE Inv'
    BY <1>4 DEF Inv, Shape, ReversedAtMostOnce, ExecutedIsTrue, Promised, ChangePeriod
  <1>5. ASSUME NEW w \in Workers, Claim(w) PROVE Inv'
    BY <1>5 DEF Inv, Shape, ReversedAtMostOnce, ExecutedIsTrue, Promised, Claim
  <1>6. ASSUME NEW w \in Workers, Reverse(w) PROVE Inv'
    <2>1. PICK s \in claimed[w] :
            /\ claimed' = [claimed EXCEPT ![w] = @ \ {s}]
            /\ IF Reversible(EntryOf[s])
               THEN /\ reversals' = [reversals EXCEPT ![EntryOf[s]] = Append(@, s)]
                    /\ at' = [at EXCEPT ![w] = [step |-> "reversed", row |-> s]]
               ELSE /\ reversals' = reversals
                    /\ at' = [at EXCEPT ![w] = [step |-> "refused", row |-> s]]
      BY <1>6 DEF Reverse
    <2>2. s \in Schedules /\ EntryOf[s] \in Entries
      BY DEF Inv, Shape
    <2>3. sched' = sched
      BY <1>6 DEF Reverse
    <2>4. CASE Reversible(EntryOf[s])
      <3>1. /\ reversals' \in [Entries -> Seq(Schedules \cup {ByHand})]
            /\ reversals'[EntryOf[s]] = <<s>>
            /\ \A f \in Entries \ {EntryOf[s]} : reversals'[f] = reversals[f]
            /\ \A f \in Entries : Len(reversals'[f]) <= 1
            /\ \A r \in Schedules : reversals[EntryOf[r]] # <<>> => EntryOf[r] # EntryOf[s]
        BY <2>1, <2>2, <2>4, ReversalKeepsPromises
      <3>2. ReversedAtMostOnce'
        BY <3>1 DEF ReversedAtMostOnce
      <3>3. Shape'
        <4>1. [step |-> "reversed", row |-> s] \in [step : {"reversed", "refused"}, row : Schedules]
          BY <2>2
        <4>2. at' \in [Workers -> {Idle} \cup [step : {"reversed", "refused"}, row : Schedules]]
          BY <2>1, <2>4, <4>1 DEF Inv, Shape
        <4>3. claimed' \in [Workers -> SUBSET Schedules]
          BY <2>1 DEF Inv, Shape
        <4> QED
          BY <2>3, <3>1, <4>2, <4>3 DEF Inv, Shape
      <3>4. ExecutedIsTrue'
        <4> SUFFICES ASSUME NEW r \in Schedules, sched[r].status = "EXECUTED"
                     PROVE  reversals'[EntryOf[r]] = <<r>>
          BY <2>3 DEF ExecutedIsTrue
        <4>1. reversals[EntryOf[r]] = <<r>> /\ <<r>> # <<>>
          BY DEF Inv, ExecutedIsTrue
        <4>2. EntryOf[r] \in Entries \ {EntryOf[s]}
          BY <3>1, <4>1
        <4> QED
          BY <3>1, <4>1, <4>2
      <3>5. Promised'
        BY <2>1, <2>2, <2>4, <3>1 DEF Inv, Shape, Promised, Idle
      <3> QED
        BY <3>2, <3>3, <3>4, <3>5 DEF Inv
    <2>5. CASE ~Reversible(EntryOf[s])
      <3>1. reversals' = reversals /\ at' = [at EXCEPT ![w] = [step |-> "refused", row |-> s]]
        BY <2>1, <2>5
      <3>2. [step |-> "refused", row |-> s] \in [step : {"reversed", "refused"}, row : Schedules]
        BY <2>2
      <3>3. at' \in [Workers -> {Idle} \cup [step : {"reversed", "refused"}, row : Schedules]]
        BY <3>1, <3>2 DEF Inv, Shape
      <3>4. claimed' \in [Workers -> SUBSET Schedules]
        BY <2>1 DEF Inv, Shape
      <3>5. Shape' /\ ReversedAtMostOnce' /\ ExecutedIsTrue'
        BY <2>3, <3>1, <3>3, <3>4 DEF Inv, Shape, ReversedAtMostOnce, ExecutedIsTrue
      <3>6. Promised'
        BY <3>1 DEF Inv, Shape, Promised
      <3> QED
        BY <3>5, <3>6 DEF Inv
    <2> QED
      BY <2>4, <2>5
  <1>7. ASSUME NEW w \in Workers, RecordExecuted(w) PROVE Inv'
    <2>1. at[w].row \in Schedules
      BY <1>7 DEF Inv, Shape, RecordExecuted, Idle
    <2>2. ExecutedIsTrue'
      BY <1>7, <2>1 DEF Inv, Shape, ExecutedIsTrue, Promised, RecordExecuted
    <2>3. Shape' /\ ReversedAtMostOnce' /\ Promised'
      BY <1>7, <2>1 DEF Inv, Shape, ReversedAtMostOnce, Promised, RecordExecuted, Idle
    <2> QED
      BY <2>2, <2>3 DEF Inv
  <1>8. ASSUME NEW w \in Workers, RecordFailed(w) PROVE Inv'
    <2>1. at[w].row \in Schedules
      BY <1>8 DEF Inv, Shape, RecordFailed, Idle
    <2>2. \/ sched' = sched
          \/ sched' = [sched EXCEPT ![at[w].row] = Retried(sched[at[w].row])]
      BY <1>8 DEF RecordFailed
    <2>3. /\ Retried(sched[at[w].row]) \in [status : {"none", "PENDING", "EXECUTED", "CANCELLED", "FAILED"},
                                            attempts : Nat]
          /\ Retried(sched[at[w].row]).status # "EXECUTED"
      BY <2>1, RetriedRow DEF Inv, Shape
    <2>4. sched' \in [Schedules -> [status : {"none", "PENDING", "EXECUTED", "CANCELLED", "FAILED"},
                                    attempts : Nat]]
      BY <2>1, <2>2, <2>3 DEF Inv, Shape
    <2>5. \A s \in Schedules : sched'[s].status = "EXECUTED" => sched[s].status = "EXECUTED"
      BY <2>1, <2>2, <2>3 DEF Inv, Shape
    <2>6. Shape' /\ ReversedAtMostOnce' /\ Promised'
      BY <1>8, <2>4 DEF Inv, Shape, ReversedAtMostOnce, Promised, RecordFailed, Idle
    <2>7. ExecutedIsTrue'
      BY <1>8, <2>5 DEF Inv, ExecutedIsTrue, RecordFailed
    <2> QED
      BY <2>6, <2>7 DEF Inv
  <1>9. ASSUME NEW w \in Workers, Crash(w) PROVE Inv'
    BY <1>9 DEF Inv, Shape, ReversedAtMostOnce, ExecutedIsTrue, Promised, Crash, Idle
  <1>10. CASE UNCHANGED vars
    BY <1>10 DEF Inv, Shape, ReversedAtMostOnce, ExecutedIsTrue, Promised, vars
  <1> QED
    BY <1>1, <1>2, <1>3, <1>4, <1>5, <1>6, <1>7, <1>8, <1>9, <1>10 DEF Next, Work

LEMMA Invariance == Spec => []Inv
  <1> QED
    BY InitInv, NextInv, PTL DEF Spec

(* No entry is reversed twice, for any number of replicas holding claims on *)
(* its schedules, people reversing it by hand, and crashes.                 *)
THEOREM NeverTwice == Spec => []ReversedAtMostOnce
  <1>1. Inv => ReversedAtMostOnce
    BY DEF Inv
  <1> QED
    BY <1>1, Invariance, PTL

(* A schedule is EXECUTED only if its own reversal is the entry's only one. *)
THEOREM ExecutedMeansReversed == Spec => []ExecutedIsTrue
  <1>1. Inv => ExecutedIsTrue
    BY DEF Inv
  <1> QED
    BY <1>1, Invariance, PTL
-----------------------------------------------------------------------------
(***************************************************************************)
(* For any number of worker replicas, due dates and crashes: the           *)
(* recurrence gives one entry per occurrence and jumps over no date.       *)
(*                                                                         *)
(* A replica writes next_run_date from the claim it took, perhaps long     *)
(* ago; Behind says that every date before the claimed one is reserved,    *)
(* and the claimed one too once the insert has been answered, so writing   *)
(* an old date back re-opens nothing and writing a new one skips nothing.  *)
(***************************************************************************)
Stations ==
  {NoJob} \cup [step : {"reserve", "draft", "link", "post", "advance"}, date : Dates]

RecurringShape ==
  /\ next \in 1..Today + 1
  /\ occurrence \in [Dates -> {"none", "reserved", "linked"}]
  /\ entry \in [Dates -> {"none", "DRAFT", "POSTED"}]
  /\ made \in [Dates -> Nat]
  /\ job \in [Replicas -> Stations]

Answered(station) == station.step \in {"draft", "link", "post", "advance"}

Behind ==
  \A w \in Replicas :
    /\ job[w] # NoJob => \A d \in Dates : d < job[w].date => occurrence[d] # "none"
    /\ Answered(job[w]) => occurrence[job[w].date] # "none"

Counted == \A d \in Dates : entry[d] = "none" => made[d] = 0

(* The two halves of OneEntryPerOccurrence.                                 *)
Once == \A d \in Dates : made[d] <= 1 /\ (occurrence[d] = "none" => entry[d] = "none")
Alone ==
  \A v, w \in Replicas :
    Generating(v) /\ Generating(w) /\ job[v].date = job[w].date => v = w

RecurringInv == RecurringShape /\ NoDateIsSkipped /\ Behind /\ Counted /\ Once /\ Alone

Reservations ==   \* a step that takes no reservation back
  /\ occurrence' \in [Dates -> {"none", "reserved", "linked"}]
  /\ \A d \in Dates : occurrence[d] # "none" => occurrence'[d] # "none"
-----------------------------------------------------------------------------
LEMMA RecurringInitInv == RecurringInit => RecurringInv
  <1> SUFFICES ASSUME RecurringInit PROVE RecurringInv
    OBVIOUS
  <1> USE RecurringAssumption DEF RecurringAssumption, RecurringInit, Dates
  <1>1. RecurringShape
    BY DEF RecurringShape, Stations, NoJob
  <1>2. NoDateIsSkipped /\ Behind /\ Counted
    BY DEF NoDateIsSkipped, Behind, Counted, Answered, NoJob
  <1>3. Once /\ Alone
    BY DEF Once, Alone, Generating, NoJob
  <1> QED
    BY <1>1, <1>2, <1>3 DEF RecurringInv

(* A worker that is not idle holds one of the dates.                        *)
LEMMA HeldDate ==
  ASSUME RecurringShape, NEW w \in Replicas, job[w].step # "idle"
  PROVE  job[w].date \in Dates /\ job[w] # NoJob
  BY DEF RecurringShape, Stations, NoJob

(* A worker that moves on with its date, or gives up, leaves the workers    *)
(* typed and behind the reservations.                                       *)
LEMMA MovesOn ==
  ASSUME RecurringShape, Behind, Reservations, NEW w \in Replicas, job[w].step # "idle",
         NEW r \in Stations, job' = [job EXCEPT ![w] = r],
         r = NoJob \/ (r.date = job[w].date /\ (Answered(r) => occurrence'[r.date] # "none"))
  PROVE  job' \in [Replicas -> Stations] /\ Behind'
  <1>1. job' \in [Replicas -> Stations]
    BY DEF RecurringShape
  <1>2. job[w].date \in Dates /\ job[w] # NoJob
    BY HeldDate
  <1>3. ~Answered(NoJob)
    BY DEF Answered, NoJob
  <1>4. ASSUME NEW v \in Replicas
        PROVE  /\ job'[v] # NoJob => \A d \in Dates : d < job'[v].date => occurrence'[d] # "none"
               /\ Answered(job'[v]) => occurrence'[job'[v].date] # "none"
    <2>1. CASE v = w
      <3>1. job'[v] = r
        BY <2>1 DEF RecurringShape
      <3> QED
        BY <1>2, <1>3, <3>1 DEF Behind, Reservations
    <2>2. CASE v # w
      <3>1. job'[v] = job[v]
        BY <2>2 DEF RecurringShape
      <3>2. Answered(job[v]) => job[v].date \in Dates
        BY HeldDate DEF Answered
      <3> QED
        BY <3>1, <3>2 DEF Behind, Reservations
    <2> QED
      BY <2>1, <2>2
  <1> QED
    BY <1>1, <1>4 DEF Behind, Answered

(* A step that makes no worker a generator of a date leaves every generator *)
(* alone on its date.                                                       *)
LEMMA StaysAlone ==
  ASSUME RecurringShape, Alone, NEW w \in Replicas, NEW r, job' = [job EXCEPT ![w] = r],
         r.step \in {"draft", "link", "post"} => Generating(w) /\ r.date = job[w].date
  PROVE  Alone'
  <1>1. \A v \in Replicas : job'[v] = IF v = w THEN r ELSE job[v]
    BY DEF RecurringShape
  <1>2. \A v \in Replicas : Generating(v)' => Generating(v) /\ job'[v].date = job[v].date
    BY <1>1 DEF Generating
  <1> QED
    BY <1>2 DEF Alone
-----------------------------------------------------------------------------
LEMMA ReserveInv == ASSUME RecurringInv, NEW w \in Replicas, Reserve(w) PROVE RecurringInv'
  <1> DEFINE d == job[w].date
  <1>1. d \in Dates /\ job[w] # NoJob /\ job[w].step = "reserve"
    BY HeldDate DEF RecurringInv, Reserve
  <1>2. UNCHANGED <<next, entry, made>>
    BY DEF Reserve
  <1>3. PICK step \in {"draft", "advance"} :
          /\ job' = [job EXCEPT ![w] = [step |-> step, date |-> d]]
          /\ step = "draft" => occurrence[d] = "none"
          /\ occurrence' = IF step = "draft" THEN [occurrence EXCEPT ![d] = "reserved"]
                           ELSE occurrence
          /\ occurrence'[d] # "none"
    BY <1>1 DEF Reserve, Go, RecurringInv, RecurringShape
  <1>4. Reservations
    BY <1>1, <1>3 DEF RecurringInv, RecurringShape, Reservations
  <1>5. [step |-> step, date |-> d] \in Stations
    BY <1>1 DEF Stations
  <1>6. job' \in [Replicas -> Stations] /\ Behind'
    BY <1>1, <1>3, <1>4, <1>5, MovesOn DEF RecurringInv
  <1>7. RecurringShape' /\ NoDateIsSkipped' /\ Counted' /\ Once'
    BY <1>2, <1>4, <1>6 DEF RecurringInv, RecurringShape, NoDateIsSkipped, Counted, Once, Reservations
  <1>8. CASE step = "advance"
    <2>1. Alone'
      BY <1>3, <1>8, StaysAlone DEF RecurringInv
    <2> QED
      BY <1>6, <1>7, <2>1 DEF RecurringInv
  <1>9. CASE step = "draft"   \* nobody generates a date that was not reserved
    <2>1. \A v \in Replicas : Generating(v) => job[v].date # d
      BY <1>3, <1>9 DEF RecurringInv, Behind, Generating, Answered
    <2>2. \A v \in Replicas : job'[v] = IF v = w THEN [step |-> step, date |-> d] ELSE job[v]
      BY <1>3 DEF RecurringInv, RecurringShape
    <2>3. Alone'
      BY <2>1, <2>2 DEF RecurringInv, Alone, Generating
    <2> QED
      BY <1>6, <1>7, <2>3 DEF RecurringInv
  <1> QED
    BY <1>3, <1>8, <1>9

LEMMA CreateDraftInv == ASSUME RecurringInv, NEW w \in Replicas, CreateDraft(w) PROVE RecurringInv'
  <1> DEFINE d == job[w].date
  <1>1. d \in Dates /\ job[w].step = "draft"
    BY HeldDate DEF RecurringInv, CreateDraft
  <1>2. /\ job' = [job EXCEPT ![w] = [step |-> "link", date |-> d]]
        /\ UNCHANGED <<next, occurrence>>
    BY DEF CreateDraft, Go
  <1>3. occurrence[d] # "none"
    BY <1>1 DEF RecurringInv, Behind, Answered
  <1>4. Reservations
    BY <1>2 DEF RecurringInv, RecurringShape, Reservations
  <1>5. job' \in [Replicas -> Stations] /\ Behind'
    <2>1. [step |-> "link", date |-> d] \in Stations
      BY <1>1 DEF Stations
    <2> QED
      BY <1>1, <1>2, <1>3, <1>4, <2>1, MovesOn DEF RecurringInv
  <1>6. \/ UNCHANGED <<entry, made>>
        \/ /\ entry[d] = "none"
           /\ entry' = [entry EXCEPT ![d] = "DRAFT"]
           /\ made' = [made EXCEPT ![d] = made[d] + 1]
    BY DEF CreateDraft
  <1>7. RecurringShape' /\ NoDateIsSkipped'
    BY <1>1, <1>2, <1>5, <1>6 DEF RecurringInv, RecurringShape, NoDateIsSkipped
  <1>8. Counted' /\ Once'
    BY <1>1, <1>2, <1>3, <1>6 DEF RecurringInv, RecurringShape, Counted, Once
  <1>9. Alone'
    BY <1>1, <1>2, StaysAlone DEF RecurringInv, Generating
  <1> QED
    BY <1>5, <1>7, <1>8, <1>9 DEF RecurringInv

LEMMA LinkInv == ASSUME RecurringInv, NEW w \in Replicas, Link(w) PROVE RecurringInv'
  <1> DEFINE d == job[w].date
  <1>1. d \in Dates /\ job[w].step = "link"
    BY HeldDate DEF RecurringInv, Link
  <1>2. PICK step \in {"post", "advance"} : job' = [job EXCEPT ![w] = [step |-> step, date |-> d]]
    BY DEF Link, Go
  <1>3. /\ occurrence' = [occurrence EXCEPT ![d] = "linked"]
        /\ UNCHANGED <<next, entry, made>>
    BY DEF Link
  <1>4. Reservations /\ occurrence'[d] # "none"
    BY <1>1, <1>3 DEF RecurringInv, RecurringShape, Reservations
  <1>5. job' \in [Replicas -> Stations] /\ Behind'
    <2>1. [step |-> step, date |-> d] \in Stations
      BY <1>1 DEF Stations
    <2> QED
      BY <1>1, <1>2, <1>4, <2>1, MovesOn DEF RecurringInv
  <1>6. RecurringShape' /\ NoDateIsSkipped' /\ Counted' /\ Once'
    BY <1>3, <1>4, <1>5 DEF RecurringInv, RecurringShape, NoDateIsSkipped, Counted, Once, Reservations
  <1>7. Alone'
    BY <1>1, <1>2, StaysAlone DEF RecurringInv, Generating
  <1> QED
    BY <1>5, <1>6, <1>7 DEF RecurringInv

LEMMA PostInv == ASSUME RecurringInv, NEW w \in Replicas, Post(w) PROVE RecurringInv'
  <1> DEFINE d == job[w].date
  <1>1. d \in Dates /\ job[w].step = "post"
    BY HeldDate DEF RecurringInv, Post
  <1>2. PICK r \in {[step |-> "advance", date |-> d], NoJob} : job' = [job EXCEPT ![w] = r]
    BY DEF Post, Go, GiveUp
  <1>3. UNCHANGED <<next, occurrence, made>>
    BY DEF Post
  <1>4. occurrence[d] # "none"
    BY <1>1 DEF RecurringInv, Behind, Answered
  <1>5. Reservations
    BY <1>3 DEF RecurringInv, RecurringShape, Reservations
  <1>6. job' \in [Replicas -> Stations] /\ Behind'
    <2>1. r \in Stations
      BY <1>1 DEF Stations
    <2> QED
      BY <1>1, <1>2, <1>3, <1>4, <1>5, <2>1, MovesOn DEF RecurringInv
  <1>7. entry' = entry \/ entry' = [entry EXCEPT ![d] = "POSTED"]
    BY DEF Post
  <1>8. RecurringShape' /\ NoDateIsSkipped'
    BY <1>1, <1>3, <1>6, <1>7 DEF RecurringInv, RecurringShape, NoDateIsSkipped
  <1>9. Counted' /\ Once'
    BY <1>1, <1>3, <1>4, <1>7 DEF RecurringInv, RecurringShape, Counted, Once
  <1>10. Alone'
    BY <1>1, <1>2, StaysAlone DEF RecurringInv, Generating, NoJob
  <1> QED
    BY <1>6, <1>8, <1>9, <1>10 DEF RecurringInv

LEMMA RecurringNextInv == RecurringInv /\ [RecurringNext]_recurring => RecurringInv'
  <1> SUFFICES ASSUME RecurringInv, [RecurringNext]_recurring PROVE RecurringInv'
    OBVIOUS
  <1> USE RecurringAssumption DEF RecurringAssumption, Dates
  <1>1. ASSUME NEW w \in Replicas, ClaimTemplate(w) PROVE RecurringInv'
    <2>1. [step |-> "reserve", date |-> next] \in Stations
      BY <1>1 DEF ClaimTemplate, Stations
    <2>2. job' \in [Replicas -> Stations]
      BY <1>1, <2>1 DEF RecurringInv, RecurringShape, ClaimTemplate
    <2>3. RecurringShape' /\ NoDateIsSkipped' /\ Counted' /\ Once'
      BY <1>1, <2>2 DEF RecurringInv, RecurringShape, NoDateIsSkipped, Counted, Once, ClaimTemplate
    <2>4. Behind'
      BY <1>1 DEF RecurringInv, RecurringShape, NoDateIsSkipped, Behind, Answered, ClaimTemplate
    <2>5. Alone'
      BY <1>1, StaysAlone DEF RecurringInv, ClaimTemplate
    <2> QED
      BY <2>3, <2>4, <2>5 DEF RecurringInv
  <1>2. ASSUME NEW w \in Replicas, Advance(w) PROVE RecurringInv'
    <2>1. job[w].date \in Dates /\ job[w].step = "advance"
      BY <1>2, HeldDate DEF RecurringInv, Advance
    <2>2. Reservations /\ NoJob \in Stations
      BY <1>2 DEF RecurringInv, RecurringShape, Advance, Reservations, Stations
    <2>3. job' \in [Replicas -> Stations] /\ Behind'
      BY <1>2, <2>1, <2>2, MovesOn DEF RecurringInv, Advance, GiveUp
    <2>4. next' = job[w].date + 1
      BY <1>2 DEF Advance, After
    <2>5. RecurringShape' /\ Counted' /\ Once'
      BY <1>2, <2>1, <2>3, <2>4 DEF RecurringInv, RecurringShape, Counted, Once, Advance
    <2>6. \A d \in Dates : d <= job[w].date => occurrence[d] # "none"
      BY <2>1, HeldDate DEF RecurringInv, Behind, Answered
    <2>7. NoDateIsSkipped'
      BY <1>2, <2>1, <2>4, <2>6 DEF NoDateIsSkipped, Advance
    <2>8. Alone'
      BY <1>2, StaysAlone DEF RecurringInv, Advance, GiveUp, NoJob
    <2> QED
      BY <2>3, <2>5, <2>7, <2>8 DEF RecurringInv
  <1>3. ASSUME NEW w \in Replicas, Refused(w) \/ Restart(w) PROVE RecurringInv'
    <2>1. /\ job' = [job EXCEPT ![w] = NoJob]
          /\ UNCHANGED <<next, occurrence, entry, made>>
      BY <1>3 DEF Refused, Restart, GiveUp
    <2>2. job[w].step # "idle"
      BY <1>3 DEF RecurringInv, RecurringShape, Stations, Refused, Restart, NoJob
    <2>3. Reservations /\ NoJob \in Stations
      BY <2>1 DEF RecurringInv, RecurringShape, Reservations, Stations
    <2>4. job' \in [Replicas -> Stations] /\ Behind'
      BY <2>1, <2>2, <2>3, MovesOn DEF RecurringInv
    <2>5. RecurringShape' /\ NoDateIsSkipped' /\ Counted' /\ Once'
      BY <2>1, <2>4 DEF RecurringInv, RecurringShape, NoDateIsSkipped, Counted, Once
    <2>6. Alone'
      BY <2>1, StaysAlone DEF RecurringInv, NoJob
    <2> QED
      BY <2>4, <2>5, <2>6 DEF RecurringInv
  <1>4. ASSUME NEW d \in Dates, ChangePeriodOf(d) PROVE RecurringInv'
    BY <1>4 DEF RecurringInv, RecurringShape, NoDateIsSkipped, Behind, Counted, Once, Alone, Generating, Answered,
                ChangePeriodOf
  <1>5. ASSUME NEW d \in Dates, PostByHand(d) PROVE RecurringInv'
    BY <1>5 DEF RecurringInv, RecurringShape, NoDateIsSkipped, Behind, Counted, Once, Alone, Generating, Answered,
                PostByHand
  <1>6. CASE UNCHANGED recurring
    BY <1>6 DEF RecurringInv, RecurringShape, NoDateIsSkipped, Behind, Counted, Once, Alone, Generating, Answered,
                recurring
  <1> QED
    BY <1>1, <1>2, <1>3, <1>4, <1>5, <1>6, ReserveInv, CreateDraftInv, LinkInv, PostInv
    DEF RecurringNext, Generate, Dates

LEMMA RecurringInvariance == RecurringSpec => []RecurringInv
  <1> QED
    BY RecurringInitInv, RecurringNextInv, PTL DEF RecurringSpec

(* Generating the same occurrence from any number of stale claims gives one *)
(* entry.                                                                   *)
THEOREM OneEntry == RecurringSpec => []OneEntryPerOccurrence
  <1>1. RecurringInv => OneEntryPerOccurrence
    BY DEF RecurringInv, Once, Alone, OneEntryPerOccurrence
  <1> QED
    BY <1>1, RecurringInvariance, PTL

(* next_run_date never passes a date nobody has reserved.                   *)
THEOREM NoGap == RecurringSpec => []NoDateIsSkipped
  <1>1. RecurringInv => NoDateIsSkipped
    BY DEF RecurringInv
  <1> QED
    BY <1>1, RecurringInvariance, PTL

(***************************************************************************)
(* For any number of events, drainers, batches, deliveries and failures:   *)
(* an event takes effect at most once and only if its transaction          *)
(* committed, and one marked published is not lost on the way.             *)
(*                                                                         *)
(* Known is what the queue and the consumer know of an event; it never     *)
(* becomes false again, so a drainer may rely on it from the moment it     *)
(* sends the event until its own transaction commits.                      *)
(***************************************************************************)
Committed(e) == outbox[e] \in {"pending", "published"}
Known(e) == e \in processed \/ delivery[e] = "waiting" \/ (delivery[e] = "failed" /\ Exhausted(tries[e]))

OutboxShape ==
  /\ outbox \in [Events -> {"open", "rolled back", "pending", "published"}]
  /\ held \in [Drainers -> SUBSET Events]
  /\ todo \in [Drainers -> SUBSET Events]
  /\ sent \in [Drainers -> SUBSET Events]
  /\ delivery \in [Events -> {"none", "waiting", "completed", "failed"}]
  /\ tries \in [Events -> Nat]
  /\ processed \subseteq Events
  /\ handled \in [Events -> Nat]

Passes ==
  \A d \in Drainers :
    /\ todo[d] \subseteq held[d] /\ sent[d] \subseteq held[d]
    /\ \A e \in held[d] : Committed(e)
    /\ \A e \in sent[d] : Known(e)

Queued ==
  \A e \in Events :
    /\ delivery[e] # "none" => Committed(e)
    /\ delivery[e] = "completed" => e \in processed
    /\ delivery[e] = "failed" => Exhausted(tries[e])
    /\ e \in processed => Committed(e)
    /\ handled[e] = IF e \in processed THEN 1 ELSE 0
    /\ outbox[e] = "published" => Known(e)

OutboxInv == OutboxShape /\ Passes /\ Queued
-----------------------------------------------------------------------------
LEMMA OutboxInitInv == OutboxInit => OutboxInv
  BY DEF OutboxInit, OutboxInv, OutboxShape, Passes, Queued, Known, Committed

(* A step that leaves the outbox rows committed and forgets nothing about   *)
(* an event leaves the passes as they are.                                  *)
LEMMA PassesKept ==
  ASSUME Passes, OutboxShape, UNCHANGED pass,
         \A e \in Events : Committed(e) => Committed(e)',
         \A e \in Events : Known(e) => Known(e)'
  PROVE  Passes'
  BY DEF Passes, OutboxShape, pass

LEMMA AddedInv ==
  ASSUME OutboxInv, NEW e \in Events, Committed(e), Added(e), UNCHANGED <<outbox, consumer>>
  PROVE  /\ delivery' \in [Events -> {"none", "waiting", "completed", "failed"}]
         /\ tries' \in [Events -> Nat]
         /\ \A f \in Events : Known(f) => Known(f)'
         /\ Known(e)'
         /\ Queued'
  <1>1. CASE delivery[e] = "none"
    <2>1. delivery' = [delivery EXCEPT ![e] = "waiting"] /\ tries' = [tries EXCEPT ![e] = 0]
      BY <1>1 DEF Added
    <2>2. /\ delivery' \in [Events -> {"none", "waiting", "completed", "failed"}]
          /\ tries' \in [Events -> Nat]
          /\ delivery'[e] = "waiting"
          /\ \A f \in Events \ {e} : delivery'[f] = delivery[f] /\ tries'[f] = tries[f]
      BY <2>1 DEF OutboxInv, OutboxShape
    <2>3. Known(e)' /\ \A f \in Events : Known(f) => Known(f)'
      BY <2>2 DEF Known, Exhausted, consumer
    <2>4. Queued'
      BY <2>2, <2>3 DEF OutboxInv, Queued, Committed, Exhausted, consumer
    <2> QED
      BY <2>2, <2>3, <2>4
  <1>2. CASE delivery[e] # "none"
    <2>1. delivery' = delivery /\ tries' = tries
      BY <1>2 DEF OutboxInv, OutboxShape, Added
    <2>2. Known(e)
      BY <1>2 DEF OutboxInv, OutboxShape, Queued, Known
    <2> QED
      BY <2>1, <2>2 DEF OutboxInv, OutboxShape, Queued, Known, Committed, consumer
  <1> QED
    BY <1>1, <1>2

(* The consumer's transaction, first delivery or not.                       *)
LEMMA ProcessedInv ==
  ASSUME OutboxInv, NEW e \in Events, Committed(e), Processed(e)
  PROVE  /\ processed' \subseteq Events /\ handled' \in [Events -> Nat]
         /\ e \in processed' /\ processed \subseteq processed'
         /\ processed' \subseteq processed \cup {e}
         /\ \A f \in Events : handled'[f] = IF f \in processed' THEN 1 ELSE 0
  <1>1. CASE e \in processed
    BY <1>1 DEF OutboxInv, OutboxShape, Queued, Processed, consumer
  <1>2. CASE e \notin processed
    <2>1. processed' = processed \cup {e} /\ handled' = [handled EXCEPT ![e] = handled[e] + 1]
      BY <1>2 DEF Processed
    <2>2. handled[e] = 0
      BY <1>2 DEF OutboxInv, Queued
    <2>3. handled' \in [Events -> Nat] /\ handled'[e] = 1
      <3>1. handled' = [handled EXCEPT ![e] = 1]
        BY <2>1, <2>2
      <3> QED
        BY <3>1 DEF OutboxInv, OutboxShape
    <2>4. \A f \in Events \ {e} : handled'[f] = handled[f]
      BY <2>1 DEF OutboxInv, OutboxShape
    <2>5. processed' \subseteq Events
      BY <2>1 DEF OutboxInv, OutboxShape
    <2>6. \A f \in Events : handled'[f] = IF f \in processed' THEN 1 ELSE 0
      BY <2>1, <2>3, <2>4 DEF OutboxInv, Queued
    <2> QED
      BY <2>1, <2>3, <2>5, <2>6
  <1> QED
    BY <1>1, <1>2

LEMMA PublishInv ==
  ASSUME OutboxInv, NEW e \in Events, Publish(e, "pending") \/ Publish(e, "rolled back") PROVE OutboxInv'
  <1>1. /\ outbox[e] = "open" /\ UNCHANGED <<pass, queue, consumer>>
        /\ \/ outbox' = [outbox EXCEPT ![e] = "pending"]
           \/ outbox' = [outbox EXCEPT ![e] = "rolled back"]
    BY DEF Publish
  <1>2. \A f \in Events : /\ Committed(f) => Committed(f)'
                          /\ outbox'[f] = "published" => outbox[f] = "published"
                          /\ Known(f)' <=> Known(f)
    BY <1>1 DEF OutboxInv, OutboxShape, Committed, Known, queue, consumer
  <1>3. OutboxShape' /\ Queued'
    BY <1>1, <1>2 DEF OutboxInv, OutboxShape, Queued, pass, queue, consumer
  <1> QED
    BY <1>1, <1>2, <1>3, PassesKept DEF OutboxInv

LEMMA ClaimInv == ASSUME OutboxInv, NEW d \in Drainers, ClaimBatch(d) PROVE OutboxInv'
  <1>1. PICK batch \in SUBSET Unpublished :
          /\ held' = [held EXCEPT ![d] = batch]
          /\ todo' = [todo EXCEPT ![d] = batch]
          /\ sent' = [sent EXCEPT ![d] = {}]
    BY DEF ClaimBatch
  <1>2. UNCHANGED <<outbox, queue, consumer>>
    BY DEF ClaimBatch
  <1>3. batch \subseteq Events /\ \A e \in batch : Committed(e)
    BY DEF Unpublished, Committed
  <1>4. OutboxShape'
    BY <1>1, <1>2, <1>3 DEF OutboxInv, OutboxShape, queue, consumer
  <1>5. Passes'
    BY <1>1, <1>2, <1>3 DEF OutboxInv, OutboxShape, Passes, Committed, Known, queue, consumer
  <1>6. Queued'
    BY <1>2 DEF OutboxInv, Queued, Committed, Known, queue, consumer
  <1> QED
    BY <1>4, <1>5, <1>6 DEF OutboxInv

LEMMA SendInv == ASSUME OutboxInv, NEW d \in Drainers, Send(d) \/ SendFails(d) PROVE OutboxInv'
  <1>1. PICK e \in todo[d] :
          /\ todo' = [todo EXCEPT ![d] = @ \ {e}]
          /\ \/ Added(e) /\ sent' = [sent EXCEPT ![d] = @ \cup {e}]
             \/ Added(e) /\ sent' = sent
             \/ UNCHANGED queue /\ sent' = sent
    BY DEF Send, SendFails
  <1>2. UNCHANGED <<outbox, held, consumer>>
    BY DEF Send, SendFails
  <1>3. e \in Events /\ Committed(e) /\ e \in held[d]
    BY DEF OutboxInv, OutboxShape, Passes
  <1>4. CASE Added(e)
    <2>1. /\ delivery' \in [Events -> {"none", "waiting", "completed", "failed"}]
          /\ tries' \in [Events -> Nat]
          /\ \A f \in Events : Known(f) => Known(f)'
          /\ Known(e)'
          /\ Queued'
      BY <1>2, <1>3, <1>4, AddedInv
    <2>2. sent' = sent \/ sent' = [sent EXCEPT ![d] = @ \cup {e}]
      BY <1>1
    <2>3. OutboxShape'
      <3>1. todo' \in [Drainers -> SUBSET Events]
        BY <1>1, <1>3 DEF OutboxInv, OutboxShape
      <3>2. sent' \in [Drainers -> SUBSET Events]
        <4>1. sent[d] \cup {e} \in SUBSET Events
          BY <1>3 DEF OutboxInv, OutboxShape
        <4> QED
          BY <2>2, <4>1 DEF OutboxInv, OutboxShape
      <3> QED
        BY <1>2, <2>1, <3>1, <3>2 DEF OutboxInv, OutboxShape, consumer
    <2>4. \A f \in Events : Committed(f) => Committed(f)'
      BY <1>2 DEF Committed
    <2>5. \A c \in Drainers : /\ todo'[c] \subseteq todo[c]
                              /\ sent'[c] \subseteq sent[c] \cup (IF c = d THEN {e} ELSE {})
                              /\ held'[c] = held[c]
      BY <1>1, <1>2, <2>2 DEF OutboxInv, OutboxShape
    <2>6. e \in held'[d] /\ todo'[d] \subseteq todo[d]
      BY <1>3, <2>5
    <2>7. \A c \in Drainers : /\ todo'[c] \subseteq held'[c] /\ sent'[c] \subseteq held'[c]
                              /\ \A f \in held'[c] : f \in Events /\ Committed(f)'
      BY <2>4, <2>5, <2>6 DEF OutboxInv, OutboxShape, Passes
    <2>8. \A c \in Drainers : \A f \in sent'[c] : Known(f)'
      <3> SUFFICES ASSUME NEW c \in Drainers, NEW f \in sent'[c] PROVE Known(f)'
        OBVIOUS
      <3>1. f = e \/ f \in sent[c]
        BY <2>5
      <3>2. f \in sent[c] => f \in Events /\ Known(f)
        BY DEF OutboxInv, OutboxShape, Passes
      <3> QED
        BY <2>1, <3>1, <3>2
    <2>9. Passes'
      BY <2>7, <2>8 DEF Passes
    <2> QED
      BY <2>1, <2>3, <2>9 DEF OutboxInv
  <1>5. CASE UNCHANGED queue /\ sent' = sent
    <2>1. OutboxShape'
      BY <1>1, <1>2, <1>5 DEF OutboxInv, OutboxShape, queue, consumer
    <2>2. Passes'
      BY <1>1, <1>2, <1>5 DEF OutboxInv, OutboxShape, Passes, Committed, Known, queue, consumer
    <2>3. Queued'
      BY <1>2, <1>5 DEF OutboxInv, Queued, Committed, Known, queue, consumer
    <2> QED
      BY <2>1, <2>2, <2>3 DEF OutboxInv
  <1> QED
    BY <1>1, <1>4, <1>5

LEMMA EndPassInv ==
  ASSUME OutboxInv, NEW d \in Drainers, EndPass(d), UNCHANGED <<queue, consumer>>,
         outbox' = outbox \/ outbox' = [e \in Events |-> IF e \in sent[d] THEN "published" ELSE outbox[e]]
  PROVE  OutboxInv'
  <1>1. \A e \in Events : /\ Known(e)' <=> Known(e)
                          /\ Committed(e) => Committed(e)'
                          /\ outbox'[e] = "published" => outbox[e] = "published" \/ e \in sent[d]
    BY DEF OutboxInv, OutboxShape, Known, Committed, queue, consumer
  <1>2. OutboxShape'
    BY DEF OutboxInv, OutboxShape, EndPass, queue, consumer
  <1>3. Passes'
    BY <1>1 DEF OutboxInv, OutboxShape, Passes, EndPass
  <1>4. Queued'
    BY <1>1 DEF OutboxInv, Passes, Queued, queue, consumer
  <1> QED
    BY <1>2, <1>3, <1>4 DEF OutboxInv

LEMMA ConsumeInv ==
  ASSUME OutboxInv, NEW e \in Events, Consume(e) \/ ConsumeUnacknowledged(e) PROVE OutboxInv'
  <1>1. /\ delivery[e] = "waiting" /\ Processed(e) /\ UNCHANGED <<outbox, pass, tries>>
        /\ delivery' = [delivery EXCEPT ![e] = "completed"] \/ delivery' = delivery
    BY DEF Consume, ConsumeUnacknowledged, queue
  <1>2. Committed(e)
    BY <1>1 DEF OutboxInv, Queued
  <1>3. /\ processed' \subseteq Events /\ handled' \in [Events -> Nat]
        /\ e \in processed' /\ processed \subseteq processed'
        /\ processed' \subseteq processed \cup {e}
        /\ \A f \in Events : handled'[f] = IF f \in processed' THEN 1 ELSE 0
    BY <1>1, <1>2, ProcessedInv
  <1>4. \A f \in Events \ {e} : delivery'[f] = delivery[f]
    BY <1>1 DEF OutboxInv, OutboxShape
  <1>5. \A f \in Events : Known(f) => Known(f)'
    BY <1>1, <1>3, <1>4 DEF Known, Exhausted
  <1>6. \A f \in Events : Committed(f)' <=> Committed(f)
    BY <1>1 DEF Committed
  <1>7. OutboxShape'
    BY <1>1, <1>3 DEF OutboxInv, OutboxShape, pass
  <1>8. Queued'
    BY <1>1, <1>2, <1>3, <1>4, <1>5, <1>6 DEF OutboxInv, OutboxShape, Queued, Exhausted
  <1> QED
    BY <1>1, <1>5, <1>6, <1>7, <1>8, PassesKept DEF OutboxInv

LEMMA ConsumeFailsInv == ASSUME OutboxInv, NEW e \in Events, ConsumeFails(e) PROVE OutboxInv'
  <1>1. /\ delivery[e] = "waiting" /\ UNCHANGED <<outbox, pass, consumer>>
        /\ tries' = [tries EXCEPT ![e] = tries[e] + 1]
        /\ delivery' = [delivery EXCEPT ![e] = IF Exhausted(tries[e] + 1) THEN "failed" ELSE "waiting"]
    BY DEF ConsumeFails
  <1>2. tries[e] + 1 \in Nat
    <2>1. tries[e] \in Nat
      BY DEF OutboxInv, OutboxShape
    <2> QED
      BY <2>1
  <1>3. /\ OutboxShape'
        /\ tries'[e] = tries[e] + 1
        /\ delivery'[e] = IF Exhausted(tries[e] + 1) THEN "failed" ELSE "waiting"
        /\ \A f \in Events \ {e} : delivery'[f] = delivery[f] /\ tries'[f] = tries[f]
    <2>1. tries' \in [Events -> Nat] /\ tries'[e] = tries[e] + 1
      BY <1>1, <1>2 DEF OutboxInv, OutboxShape
    <2>2. /\ delivery' \in [Events -> {"none", "waiting", "completed", "failed"}]
          /\ delivery'[e] = IF Exhausted(tries[e] + 1) THEN "failed" ELSE "waiting"
      BY <1>1 DEF OutboxInv, OutboxShape
    <2>3. \A f \in Events \ {e} : delivery'[f] = delivery[f] /\ tries'[f] = tries[f]
      BY <1>1 DEF OutboxInv, OutboxShape
    <2> QED
      BY <1>1, <2>1, <2>2, <2>3 DEF OutboxInv, OutboxShape, pass, consumer
  <1>4. \A f \in Events : Known(f) => Known(f)'
    BY <1>1, <1>3 DEF Known, Exhausted, consumer
  <1>5. \A f \in Events : Committed(f)' <=> Committed(f)
    BY <1>1 DEF Committed
  <1>6. Queued'
    BY <1>1, <1>3, <1>4, <1>5 DEF OutboxInv, Queued, Exhausted, consumer
  <1> QED
    BY <1>1, <1>3, <1>4, <1>5, <1>6, PassesKept DEF OutboxInv

LEMMA ForgetInv == ASSUME OutboxInv, NEW e \in Events, Forget(e) PROVE OutboxInv'
  <1>1. /\ delivery[e] = "completed" /\ delivery' = [delivery EXCEPT ![e] = "none"]
        /\ UNCHANGED <<outbox, pass, tries, consumer>>
    BY DEF Forget
  <1>2. OutboxShape' /\ \A f \in Events \ {e} : delivery'[f] = delivery[f]
    BY <1>1 DEF OutboxInv, OutboxShape, pass, consumer
  <1>3. e \in processed
    BY <1>1 DEF OutboxInv, Queued
  <1>4. \A f \in Events : Known(f) => Known(f)'
    BY <1>1, <1>2, <1>3 DEF Known, Exhausted, consumer
  <1>5. \A f \in Events : Committed(f)' <=> Committed(f)
    BY <1>1 DEF Committed
  <1>6. Queued'
    BY <1>1, <1>2, <1>3, <1>4, <1>5 DEF OutboxInv, OutboxShape, Queued, Exhausted, consumer
  <1> QED
    BY <1>1, <1>2, <1>4, <1>5, <1>6, PassesKept DEF OutboxInv

LEMMA OutboxNextInv == OutboxInv /\ [OutboxNext]_outboxVars => OutboxInv'
  <1> SUFFICES ASSUME OutboxInv, [OutboxNext]_outboxVars PROVE OutboxInv'
    OBVIOUS
  <1>1. ASSUME NEW d \in Drainers, Commit(d) \/ DrainerDies(d) PROVE OutboxInv'
    BY <1>1, EndPassInv DEF Commit, DrainerDies, Published
  <1>2. CASE UNCHANGED outboxVars
    BY <1>2 DEF outboxVars, OutboxInv, OutboxShape, Passes, Queued, Known, Committed, pass, queue, consumer
  <1> QED
    BY <1>1, <1>2, PublishInv, ClaimInv, SendInv, ConsumeInv, ConsumeFailsInv, ForgetInv
    DEF OutboxNext, Drain

LEMMA OutboxInvariance == OutboxSpec => []OutboxInv
  <1> QED
    BY OutboxInitInv, OutboxNextInv, PTL DEF OutboxSpec

(* No delivery, however often repeated, takes effect twice, and none is of  *)
(* a transaction that rolled back.                                          *)
THEOREM EffectOnce == OutboxSpec => []HandledOnce
  <1>1. OutboxInv => HandledOnce
    BY DEF OutboxInv, Queued, HandledOnce, Committed
  <1> QED
    BY <1>1, OutboxInvariance, PTL

(* Marking an event published never loses it.                               *)
THEOREM PublishedIsSafe == OutboxSpec => []NothingLost
  <1>1. OutboxInv => NothingLost
    BY DEF OutboxInv, Queued, NothingLost, Known
  <1> QED
    BY <1>1, OutboxInvariance, PTL
=============================================================================

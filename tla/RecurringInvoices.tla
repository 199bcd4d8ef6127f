--------------------------- MODULE RecurringInvoices ---------------------------
(***************************************************************************)
(* Invoices generated from recurring templates (sales.service): a worker   *)
(* scans for templates that are due and takes them one by one, each in a   *)
(* transaction of its own under the template's row lock.  Another worker   *)
(* may have taken one in between.                                          *)
(***************************************************************************)
EXTENDS Integers, Sequences, FiniteSetsExt

CONSTANTS
  Workers, Templates,
  Frequency,       \* of a template, in months
  Start, End,      \* of a template, days
  MonthLength,     \* the calendar: months 1.. by their length
  AsOf             \* the days a run may be asked to generate up to

(* A day is its month and its place in it, as one number in their order.    *)
Day(m, d) == 100 * m + d
Month(day) == day \div 100
DayOfMonth(day) == day % 100
Parked == 0        \* next_run_date IS NULL

(* A template starts and ends on days of the calendar, and the calendar     *)
(* reaches as far as the occurrence after its end.                          *)
CalendarAssumption ==
  /\ MonthLength \in Seq(1..99)
  /\ Start \in [Templates -> Nat]
  /\ \A t \in Templates :
       /\ Frequency[t] \in Nat \ {0} /\ End[t] \in Nat /\ Start[t] <= End[t]
       /\ Month(Start[t]) \in DOMAIN MonthLength
       /\ DayOfMonth(Start[t]) \in 1..MonthLength[Month(Start[t])]
       /\ Month(End[t]) + Frequency[t] <= Len(MonthLength)
  /\ AsOf \subseteq Nat

VARIABLES
  cursor,      \* next_run_date
  issued,      \* recurring_invoice_occurrences, each with its invoice
  run          \* of a worker: as_of, and the templates its scan found

vars == <<cursor, issued, run>>
Idle == [asOf |-> 0, todo |-> {}]

CreateRecurringInvoice == cursor = Start   \* every template starts active, due at its start

Init ==
  /\ CreateRecurringInvoice
  /\ issued = [t \in Templates |-> {}]
  /\ run = [w \in Workers |-> Idle]

(* The day held to the end of the month it falls into.                      *)
NextOccurrence(day, months) ==
  LET m == Month(day) + months IN Day(m, Min({DayOfMonth(day), MonthLength[m]}))

(* What the cursor names up to a day, and the first it names after that.    *)
Occurrences(t) ==
  LET after(day) == IF Month(day) + Frequency[t] > Len(MonthLength) THEN day
                    ELSE NextOccurrence(day, Frequency[t])
      from[n \in 0..Len(MonthLength)] == IF n = 0 THEN cursor[t] ELSE after(from[n - 1])
  IN {from[n] : n \in 0..Len(MonthLength)}
DueOccurrences(t, asOf) == {day \in Occurrences(t) : day <= asOf /\ day <= End[t]}

Scan(w, asOf) ==
  /\ run[w] = Idle
  /\ run' = [run EXCEPT ![w] = [asOf |-> asOf, todo |-> {t \in Templates : cursor[t] \in 1..asOf}]]
  /\ UNCHANGED <<cursor, issued>>

(* Checked again under the lock.  An occurrence that exists is passed over, *)
(* and the cursor moves past everything that was due; past the template's   *)
(* end it is parked.                                                        *)
GenerateForTemplate(w, t) ==
  LET asOf == run[w].asOf
      due == DueOccurrences(t, asOf)
      next == NextOccurrence(Max(due), Frequency[t])
  IN /\ t \in run[w].todo
     /\ run' = [run EXCEPT ![w].todo = @ \ {t}]
     /\ IF cursor[t] \in 1..asOf /\ due # {}
        THEN /\ issued' = [issued EXCEPT ![t] = @ \cup due]
             /\ cursor' = [cursor EXCEPT ![t] = IF next > End[t] THEN Parked ELSE next]
        ELSE UNCHANGED <<cursor, issued>>

(* A template whose transaction fails is reported and left as it was.       *)
Failed(w, t) ==
  /\ t \in run[w].todo
  /\ run' = [run EXCEPT ![w].todo = @ \ {t}]
  /\ UNCHANGED <<cursor, issued>>

Finish(w) ==
  /\ run[w] # Idle /\ run[w].todo = {}
  /\ run' = [run EXCEPT ![w] = Idle]
  /\ UNCHANGED <<cursor, issued>>

Next ==
  \E w \in Workers : \/ \E asOf \in AsOf : Scan(w, asOf)
                     \/ \E t \in Templates : GenerateForTemplate(w, t) \/ Failed(w, t)
                     \/ Finish(w)

Spec == Init /\ [][Next]_vars
-----------------------------------------------------------------------------
(* The months of a template's rhythm; the day the occurrences keep, which   *)
(* is the first one's held to the shortest month they have come through.    *)
Rhythm(t) == {Month(Start[t]) + n * Frequency[t] : n \in 0..Len(MonthLength)} \cap DOMAIN MonthLength
KeptDay(t, m) ==
  Min({DayOfMonth(Start[t])} \cup {MonthLength[k] : k \in {k \in Rhythm(t) : k <= m}})

(* A customer is invoiced once in every month of the template's rhythm that *)
(* the cursor has passed, on the day that is kept, and in no other: no      *)
(* month twice, as where a day the month lacks spilled into the next, and   *)
(* none left out.                                                           *)
OncePerMonth ==
  \A t \in Templates :
    LET occurrence(m) == Day(m, KeptDay(t, m))
        passed == {m \in Rhythm(t) : IF cursor[t] = Parked THEN occurrence(m) <= End[t]
                                     ELSE m < Month(cursor[t])}
    IN /\ \A m \in passed : {day \in issued[t] : Month(day) = m} = {occurrence(m)}
       /\ \A day \in issued[t] : Month(day) \in passed
=============================================================================

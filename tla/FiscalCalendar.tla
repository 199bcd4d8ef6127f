---------------------------- MODULE FiscalCalendar ----------------------------
(***************************************************************************)
(* The fiscal years of a legal entity and the accounting periods made from *)
(* them (finance-setup.service), and the period a posting date falls into  *)
(* (posting.service).                                                      *)
(***************************************************************************)
EXTENDS Integers, Sequences, FiniteSetsExt

CONSTANTS
  MonthLength,     \* the calendar: days of its months, in order
  Lengths,         \* months of a period: 1 (MONTHLY), 3 (QUARTERLY)
  Adjustments,     \* adjustment periods asked for
  MaxRegular,      \* the periods generatePeriods makes at most: 24
  MaxYears         \* bound on the years created

(* Every month has a day, every period a month.                             *)
CalendarAssumption ==
  /\ MonthLength \in Seq(Nat \ {0}) /\ Lengths \subseteq Nat \ {0}
  /\ Adjustments \subseteq Nat /\ MaxRegular \in Nat \ {0}

VARIABLE years     \* fiscal_years: start, end, periods
vars == <<years>>

Months == DOMAIN MonthLength
FirstDay[m \in 1..Len(MonthLength) + 1] == IF m = 1 THEN 1 ELSE FirstDay[m - 1] + MonthLength[m - 1]
LastDay == FirstDay[Len(MonthLength) + 1] - 1
Days == 1..LastDay
MonthOf(day) == Max({m \in Months : FirstDay[m] <= day})

(* Date.UTC(year, month + step, day): a day its month lacks runs into the   *)
(* next.                                                                    *)
NextStart(day, step) ==
  IF day > LastDay \/ MonthOf(day) + step > Len(MonthLength) THEN LastDay + 1
  ELSE FirstDay[MonthOf(day) + step] + day - FirstDay[MonthOf(day)]

Period(no, start, end, adjustment) == [no |-> no, start |-> start, end |-> end, adjustment |-> adjustment]

(* Each period ends the day before the next starts, the last with its year; *)
(* adjustment periods are the year's last day again.                        *)
GeneratePeriods_MonthEnd(start, end, step, adjustments) ==   \* mutant: a period ends with its month
  LET from[n \in 1..MaxRegular] == IF n = 1 THEN start ELSE NextStart(from[n - 1], step)
      regular == {n \in 1..MaxRegular : from[n] <= end}
      monthEnd(n) == IF MonthOf(from[n]) + step > Len(MonthLength) THEN LastDay
                     ELSE FirstDay[MonthOf(from[n]) + step] - 1
      last == Min({monthEnd(Max(regular)), end})
  IN {Period(n, from[n], Min({monthEnd(n), end}), FALSE) : n \in regular}
     \cup {Period(Max(regular) + i, last, last, TRUE) : i \in 1..adjustments}

GeneratePeriods(start, end, step, adjustments) ==
  LET from[n \in 1..MaxRegular] == IF n = 1 THEN start ELSE NextStart(from[n - 1], step)
      regular == {n \in 1..MaxRegular : from[n] <= end}
      lastDay(n) == Min({NextStart(from[n], step) - 1, end})
      last == lastDay(Max(regular))
  IN {Period(n, from[n], lastDay(n), FALSE) : n \in regular}
     \cup {Period(Max(regular) + i, last, last, TRUE) : i \in 1..adjustments}
-----------------------------------------------------------------------------
Init == years = {}

Overlapping(start, end) == {y \in years : y.start <= end /\ start <= y.end}

(* fiscal_years_no_overlap decides between two that are created at once.    *)
CreateFiscalYear(start, end, step, adjustments) ==
  /\ Cardinality(years) < MaxYears
  /\ end > start /\ Overlapping(start, end) = {}
  /\ years' = years \cup {[start |-> start, end |-> end, step |-> step,
                           periods |-> GeneratePeriods(start, end, step, adjustments)]}

Next ==
  \E start, end \in Days, step \in Lengths, adjustments \in Adjustments :
    CreateFiscalYear(start, end, step, adjustments)

Spec == Init /\ [][Next]_vars
-----------------------------------------------------------------------------
(* The periods a posting date resolves to: the regular one that contains    *)
(* it, unless an adjustment period is named.                                *)
ResolvePeriod(date) ==
  {p \in UNION {y.periods : y \in years} : ~p.adjustment /\ p.start <= date /\ date <= p.end}

Complete(y) == Cardinality({p \in y.periods : ~p.adjustment}) < MaxRegular

(* Every day of a fiscal year resolves to one period, whatever day the year *)
(* starts on and however long its months are, and the days around it to     *)
(* none of its own: "a period boundary that is one day out silently         *)
(* reassigns every transaction on it".  A year that needs more periods than *)
(* are made is left out: its tail has none.                                 *)
EveryDayHasOnePeriod ==
  /\ \A day \in Days : Cardinality(ResolvePeriod(day)) <= 1
  /\ \A y \in years : \A day \in y.start..y.end :
       Complete(y) => ResolvePeriod(day) \cap y.periods # {}
  /\ \A y \in years : \A p \in y.periods : y.start <= p.start /\ p.start <= p.end /\ p.end <= y.end
=============================================================================

---------------------------- MODULE LedgerReports ----------------------------
(***************************************************************************)
(* reports.service: the trial balance, which can be read from the stored   *)
(* balances or from the journal lines, the activity of an account and the  *)
(* general ledger, over a calendar to which fiscal years are added.        *)
(*                                                                         *)
(* A year is the periods it brings, in the order of their numbers, with    *)
(* the days they span; an adjustment period has the last day of the year.  *)
(* Amounts are signed, debits positive.                                    *)
(***************************************************************************)
EXTENDS Integers, Sequences, FiniteSets, FiniteSetsExt, Functions

CONSTANTS
  Accounts, Amounts,
  TypeOf,       \* of each account
  Years,        \* by year, its periods: start, end
  MaxEntries

Before(p, q) == p[1] < q[1] \/ (p[1] = q[1] /\ p[2] < q[2])
Span(p) == Years[p[1]][p[2]]

(* A later period neither starts nor ends before an earlier one.            *)
YearsAssumption ==
  LET all == UNION {{y} \X DOMAIN Years[y] : y \in DOMAIN Years} IN
  /\ IsFiniteSet(Accounts) /\ Amounts \subseteq Int
  /\ TypeOf \in [Accounts -> {"ASSET", "LIABILITY", "EQUITY", "REVENUE", "EXPENSE"}]
  /\ DOMAIN Years \subseteq Nat
  /\ \A y \in DOMAIN Years : Years[y] \in Seq([start : Nat \ {0}, end : Nat])
  /\ \A p \in all : Span(p).start <= Span(p).end
  /\ \A p, q \in all : Before(p, q) => Span(p).start <= Span(q).start /\ Span(p).end <= Span(q).end

VARIABLES
  years,        \* fiscal_years that exist
  lines,        \* journal_lines of posted and reversed entries, as they were inserted
  balance       \* ledger_account_balances: opening, movement, closing, where there is a row

vars == <<years, lines, balance>>

Init == years = {} /\ lines = <<>> /\ balance = <<>>

(* The order of periods is that of the years and of their numbers.          *)
Periods == UNION {{y} \X DOMAIN Years[y] : y \in years}
UpTo(p) == {q \in Periods : q = p \/ Before(q, p)}

Total(f) == FoldFunction(LAMBDA x, y : x + y, 0, f)
Movement(on, a, ps) ==
  Total([i \in {i \in DOMAIN on : on[i].account = a /\ on[i].period \in ps} |-> on[i].amount])

(* RECOMPUTE: a row for every period there is, of each account that moved.  *)
Touched(on) == {on[i].account : i \in DOMAIN on}
Moved(on, a, p) == \E i \in DOMAIN on : on[i].account = a /\ on[i].period \in UpTo(p)
Recompute(on, accounts) ==
  [k \in {k \in accounts \X Periods : Moved(on, k[1], k[2])} |->
     LET upTo == Movement(on, k[1], UpTo(k[2]))
         during == Movement(on, k[1], {k[2]})
     IN [opening |-> upTo - during, movement |-> during, closing |-> upTo]]

CreateFiscalYear(y) ==
  /\ y \notin years
  /\ years' = years \cup {y}
  /\ UNCHANGED <<lines, balance>>

(* An entry of two lines; the balances of the accounts it names are made    *)
(* anew.                                                                    *)
Refreshed(on, accounts) ==
  LET new == Recompute(on, accounts)
      kept == {k \in DOMAIN balance : k[1] \notin accounts}
  IN [k \in kept \cup DOMAIN new |-> IF k \in kept THEN balance[k] ELSE new[k]]
Post(a, b, p, day, amount) ==
  LET entry == <<[account |-> a, period |-> p, day |-> day, amount |-> amount],
                 [account |-> b, period |-> p, day |-> day, amount |-> -amount]>>
  IN /\ p \in Periods /\ day \in Span(p).start..Span(p).end /\ a # b
     /\ Len(lines) < 2 * MaxEntries
     /\ lines' = lines \o entry
     /\ balance' = Refreshed(lines \o entry, {a, b})
     /\ UNCHANGED years

RebuildProjections ==
  /\ balance' = Recompute(lines, Touched(lines))
  /\ UNCHANGED <<years, lines>>
-----------------------------------------------------------------------------
(* periodWindow: the periods that meet the dates; by their place in order,  *)
(* from the first of them on as many as there are.                          *)
Window(from, to) == {p \in Periods : Span(p).end >= from /\ Span(p).start <= to}
First(ps) == CHOOSE p \in ps : \A q \in ps : p = q \/ Before(p, q)
Last(ps) == CHOOSE p \in ps : \A q \in ps : p = q \/ Before(q, p)
Ordinal(p) == Cardinality(UpTo(p))

Stored(a, p) ==
  IF <<a, p>> \in DOMAIN balance THEN balance[<<a, p>>] ELSE [opening |-> 0, movement |-> 0, closing |-> 0]
TrialBalanceFromProjection(w) ==
  [a \in Accounts |-> [opening |-> Stored(a, First(w)).opening,
                       movement |-> Total([p \in w |-> Stored(a, p).movement]),
                       closing |-> Stored(a, Last(w)).closing]]

TrialBalanceFromLines_ByDate(w) ==   \* mutant: periods are told apart by their dates
  LET f == Span(First(w)).start
      l == Span(Last(w)).end
      among(Test(_)) == {p \in Periods : Test(Span(p))}
  IN [a \in Accounts |-> [opening |-> Movement(lines, a, among(LAMBDA s : s.start < f)),
                          movement |-> Movement(lines, a, among(LAMBDA s : s.start >= f /\ s.end <= l)),
                          closing |-> Movement(lines, a, among(LAMBDA s : s.end <= l))]]
TrialBalanceFromLines(w) ==
  LET first == Ordinal(First(w))
      last == first + Cardinality(w) - 1
      among(Test(_)) == {p \in Periods : Test(Ordinal(p))}
  IN [a \in Accounts |-> [opening |-> Movement(lines, a, among(LAMBDA o : o < first)),
                          movement |-> Movement(lines, a, among(LAMBDA o : o >= first /\ o <= last)),
                          closing |-> Movement(lines, a, among(LAMBDA o : o <= last))]]

(* accountingEquation: assets less liabilities, equity and the earnings of  *)
(* the year, each in its natural direction.                                 *)
AccountingEquation(t) ==
  LET natural(type) == IF type \in {"ASSET", "EXPENSE"} THEN 1 ELSE -1
      sum(type) == Total([a \in {a \in Accounts : TypeOf[a] = type} |-> natural(type) * t[a].closing])
  IN sum("ASSET") - (sum("LIABILITY") + sum("EQUITY") + (sum("REVENUE") - sum("EXPENSE")))

(* accountActivity: the stored rows of an account, whole periods in dates.  *)
AccountActivity(a, from, to) ==
  {p \in Periods : <<a, p>> \in DOMAIN balance /\ Span(p).start >= from /\ Span(p).end <= to}

(* generalLedger: the lines of an account in the dates, with a running      *)
(* balance over the order they are listed in.                               *)
Listed(a, from, to) ==
  {i \in DOMAIN lines : lines[i].account = a /\ lines[i].day >= from /\ lines[i].day <= to}
RunningBalance(i, from, to) ==
  LET listed == {j \in Listed(lines[i].account, from, to) :
                   lines[j].day < lines[i].day \/ (lines[j].day = lines[i].day /\ j <= i)}
  IN Total([j \in listed |-> lines[j].amount])

Next ==
  \/ \E y \in DOMAIN Years : CreateFiscalYear(y)
  \/ \E a, b \in Accounts, p \in Periods, amount \in Amounts :
       \E day \in Span(p).start..Span(p).end : Post(a, b, p, day, amount)
  \/ RebuildProjections

Spec == Init /\ [][Next]_vars
-----------------------------------------------------------------------------
(* Every trial balance, over whatever dates, balances at its opening and at *)
(* its closing and explains the one by the other, adjustment periods        *)
(* included; the general ledger's last running balance is the account's     *)
(* closing; and balances that were stored, or rebuilt, since the calendar   *)
(* last changed give the same figures.  Assets are what the other types     *)
(* come to, also in the middle of a year, and a row of an account's         *)
(* activity opens where the row before it closed.                           *)
Days == UNION {Span(p).start..Span(p).end : p \in Periods}
Windows == {Window(from, to) : from, to \in Days} \ {{}}
Final(a) == CHOOSE i \in Listed(a, 1, Max(Days)) : \A j \in Listed(a, 1, Max(Days)) :
              lines[j].day < lines[i].day \/ (lines[j].day = lines[i].day /\ j <= i)
ReportsAddUp ==
  /\ \A w \in Windows : LET t == TrialBalanceFromLines(w) IN
       /\ Total([a \in Accounts |-> t[a].opening]) = 0
       /\ Total([a \in Accounts |-> t[a].closing]) = 0
       /\ \A a \in Accounts : t[a].opening + t[a].movement = t[a].closing
       /\ AccountingEquation(t) = 0
       /\ balance = Recompute(lines, Touched(lines)) => t = TrialBalanceFromProjection(w)
  /\ \A a \in Touched(lines) :
       /\ RunningBalance(Final(a), 1, Max(Days)) = TrialBalanceFromLines(Periods)[a].closing
       /\ LET rows == AccountActivity(a, 1, Max(Days)) IN
            \A p, q \in rows : Before(p, q) /\ (\A r \in rows : ~Before(p, r) \/ ~Before(r, q))
              => balance[<<a, q>>].opening = balance[<<a, p>>].closing

(* "The same figures, derived from journal_lines with no projection         *)
(* involved", whenever they are asked for (refuted: a fiscal year that is   *)
(* added has no stored balances, not even openings, until an account is     *)
(* posted to again).                                                        *)
SourcesAgree ==
  \A w \in Windows : TrialBalanceFromLines(w) = TrialBalanceFromProjection(w)
=============================================================================

----------------------------- MODULE Calculation -----------------------------
(***************************************************************************)
(* The arithmetic of a document and of the journal posted from it:         *)
(* domain/documents, domain/rounding and domain/posting, with the lines    *)
(* document-posting builds in between.  An amount is a number of minor     *)
(* units, a quantity times a price one of tenths of them, a rate one of    *)
(* hundredths; scale 8 and what the code drops below it are left out.      *)
(***************************************************************************)
EXTENDS Integers, Sequences, FiniteSets, Functions

CONSTANTS
  Prices,      \* stated line amounts, in tenths of a minor unit
  Discounts,   \* of a line, in tenths, or of a document, in minor units
  Codes,       \* tax codes: inclusive, components (none when there is nothing to tax)
  Rates,       \* exchange rates in hundredths; Base for the book's own currency
  Modes,       \* rounding modes
  Tolerances,  \* configured rounding tolerance of the book
  MaxLines

None == "none"
Base == 0

(* A rate may be negative; what can be recovered of a tax is a part of it.  *)
CodesAssumption ==
  /\ Prices \subseteq Int /\ Discounts \subseteq Int /\ Rates \subseteq Nat /\ MaxLines \in Nat
  /\ \A code \in Codes :
       /\ code.inclusive \in BOOLEAN /\ code.components \in Seq(Range(code.components))
       /\ \A c \in Range(code.components) :
            c.rate \in Int /\ c.compound \in BOOLEAN /\ c.recoverable \in 0..100

VARIABLES
  stated,      \* the lines as the client sent them
  document,    \* CalculatedDocument
  journal      \* the entry it posts, in base currency; how it was posted

vars == <<stated, document, journal>>

Abs(n) == IF n < 0 THEN -n ELSE n
Total(f) == FoldFunction(LAMBDA a, b : a + b, 0, f)

(* roundedDiv: every rounding decision of the platform.                     *)
RoundedDiv(n, d, mode) ==
  LET q == Abs(n) \div Abs(d)
      r == Abs(n) % Abs(d)
      negative == (n < 0) # (d < 0)
      up == \/ mode = "UP"
            \/ mode = "CEILING" /\ ~negative
            \/ mode = "FLOOR" /\ negative
            \/ mode = "HALF_UP" /\ 2 * r >= Abs(d)
            \/ mode = "HALF_DOWN" /\ 2 * r > Abs(d)
            \/ mode = "HALF_EVEN" /\ (2 * r > Abs(d) \/ (2 * r = Abs(d) /\ q % 2 = 1))
      size == IF r # 0 /\ up THEN q + 1 ELSE q
  IN IF negative THEN -size ELSE size
-----------------------------------------------------------------------------
(* componentTaxes: a compound component is charged on the base and the tax  *)
(* of those before it.                                                      *)
ComponentTaxes(base, cs, mode) ==
  LET upTo[i \in 0..Len(cs)] ==
        IF i = 0 THEN <<>>
        ELSE LET before == upTo[i - 1]
                 taxable == IF cs[i].compound THEN base + Total(before) ELSE base
             IN Append(before, RoundedDiv(taxable * cs[i].rate, 100, mode))
  IN upTo[Len(cs)]

(* effectiveRate, in so many parts of one: a hundredth of a part finer with *)
(* each component.                                                          *)
EffectiveRate(cs) ==
  LET upTo[i \in 0..Len(cs)] ==
        IF i = 0 THEN [rate |-> 0, one |-> 1]
        ELSE LET before == upTo[i - 1]
                 taxable == before.one + IF cs[i].compound THEN before.rate ELSE 0
             IN [rate |-> 100 * before.rate + cs[i].rate * taxable, one |-> 100 * before.one]
  IN upTo[Len(cs)]

DeriveInclusive(gross, cs, mode) ==
  LET effective == EffectiveRate(cs)
      net == RoundedDiv(gross * effective.one, effective.one + effective.rate, mode)
  IN [net |-> net, tax |-> gross - net]

(* Rounded down, then a unit more for the largest fractions, the earlier of *)
(* two equal ones first.                                                    *)
Exact(total, weights, i) == IF Total(weights) < 0 THEN -(total * weights[i]) ELSE total * weights[i]
AllocateProportionally(total, weights) ==
  LET sum == Abs(Total(weights))
      floor == [i \in DOMAIN weights |-> Exact(total, weights, i) \div sum]
      part == [i \in DOMAIN weights |-> Exact(total, weights, i) % sum]
      ahead(i) == {j \in DOMAIN weights : part[j] > part[i] \/ (part[j] = part[i] /\ j < i)}
  IN [i \in DOMAIN weights |-> floor[i] + IF Cardinality(ahead(i)) < total - Total(floor) THEN 1 ELSE 0]

CalculatedLine(net, taxes, cs, mode) ==
  [net |-> net, taxes |-> taxes, tax |-> Total(taxes), gross |-> net + Total(taxes),
   recoverable |-> [i \in DOMAIN taxes |-> RoundedDiv(taxes[i] * cs[i].recoverable, 100, mode)]]

(* Where every component would round to nothing the shares of an inclusive  *)
(* price are zero, whatever tax was derived from it.                        *)
Shares(tax, nominal) ==
  IF \A i \in DOMAIN nominal : nominal[i] = 0 THEN nominal ELSE AllocateProportionally(tax, nominal)

InclusiveLine(derived, cs, mode) ==
  CalculatedLine(derived.net, Shares(derived.tax, ComponentTaxes(derived.net, cs, mode)), cs, mode)
ExclusiveLine(net, cs, mode) == CalculatedLine(net, ComponentTaxes(net, cs, mode), cs, mode)

AfterDiscount(line, mode) == RoundedDiv(line.amount, 10, mode) - RoundedDiv(line.discount, 10, mode)
Includes(line) == line.code.inclusive /\ line.code.components # <<>>
Derived(line, mode) == DeriveInclusive(AfterDiscount(line, mode), line.code.components, mode)

CalculateLine(line, mode) ==
  LET cs == line.code.components
  IN IF Includes(line) THEN InclusiveLine(Derived(line, mode), cs, mode)
     ELSE ExclusiveLine(AfterDiscount(line, mode), cs, mode)

(* Where a price includes its tax there is something to divide it by, and   *)
(* components that do not cancel out share what was derived.                *)
Divisible(cs) == EffectiveRate(cs).one + EffectiveRate(cs).rate # 0
Shareable(nominal) == Total(nominal) = 0 => \A i \in DOMAIN nominal : nominal[i] = 0
Calculable(line, mode) ==
  /\ line.discount >= 0 /\ line.discount <= Abs(line.amount)
  /\ Includes(line) =>
       /\ Divisible(line.code.components)
       /\ Shareable(ComponentTaxes(Derived(line, mode).net, line.code.components, mode))

(* aggregateComponents: per component, over the rounded amounts of the lines. *)
Components(lines) == UNION {{c.id : c \in Range(lines[i].code.components)} : i \in DOMAIN lines}
Aggregated(lines, amounts, id) ==
  LET of(i) == {j \in DOMAIN lines[i].code.components : lines[i].code.components[j].id = id}
  IN Total([i \in DOMAIN lines |-> Total([j \in of(i) |-> amounts[i][j]])])

Gross(calculated) == Total([i \in DOMAIN calculated |-> calculated[i].gross])
Calculated(lines, calculated, discount) ==
  [lines |-> calculated, discount |-> discount, total |-> Gross(calculated) - discount,
   subtotal |-> Total([i \in DOMAIN lines |-> calculated[i].net]),
   tax |-> [id \in Components(lines) |->
              Aggregated(lines, [i \in DOMAIN lines |-> calculated[i].taxes], id)],
   recoverable |-> [id \in Components(lines) |->
                      Aggregated(lines, [i \in DOMAIN lines |-> calculated[i].recoverable], id)]]

CalculateDocument(lines, discount, mode) ==
  LET calculated == [i \in DOMAIN lines |-> CalculateLine(lines[i], mode)] IN
  /\ stated = <<>> /\ \A i \in DOMAIN lines : Calculable(lines[i], mode)
  /\ discount = 0 \/ discount <= Gross(calculated)
  /\ stated' = lines /\ document' = Calculated(lines, calculated, discount)
  /\ UNCHANGED journal
-----------------------------------------------------------------------------
Keys(amounts) == {<<"total", 0>>} \cup ({"line"} \X DOMAIN document.lines)
                   \cup ({"tax"} \X {id \in DOMAIN amounts : amounts[id] # 0})

(* Dr receivable the total, Cr revenue each net, Cr each component's tax.   *)
SalesInvoiceLines ==
  [k \in Keys(document.tax) |->
     CASE k[1] = "total" -> [side |-> "debit", amount |-> document.total]
       [] k[1] = "line" -> [side |-> "credit", amount |-> document.lines[k[2]].net]
       [] k[1] = "tax" -> [side |-> "credit", amount |-> document.tax[k[2]]]]

(* Dr each destination its net and what tax cannot be recovered, Dr each    *)
(* component what can be, Cr payable the total.                             *)
VendorBillLines ==
  [k \in Keys(document.recoverable) |->
     CASE k[1] = "total" -> [side |-> "credit", amount |-> document.total]
       [] k[1] = "line" -> LET l == document.lines[k[2]]
                           IN [side |-> "debit", amount |-> l.net + l.tax - Total(l.recoverable)]
       [] k[1] = "tax" -> [side |-> "debit", amount |-> document.recoverable[k[2]]]]

(* prepareLines: no amount is negative; each is converted and rounded once. *)
ConvertToBase(amount, rate, mode) ==
  IF rate = Base THEN amount ELSE RoundedDiv(amount * rate, 100, mode)
PrepareLines(lines, rate, mode) ==
  [k \in DOMAIN lines |-> [lines[k] EXCEPT !.amount = ConvertToBase(@, rate, mode)]]

Side(lines, side) ==
  Total([k \in {x \in DOMAIN lines : lines[x].side = side} |-> lines[k].amount])

(* balance, roundingLine: what conversion may have cost is put on a line of *)
(* its own, on the side that lacks it.                                      *)
WithRoundingLine(lines, delta) ==
  IF delta = 0 THEN lines
  ELSE [k \in DOMAIN lines \cup {<<"rounding", 0>>} |->
          IF k \in DOMAIN lines THEN lines[k]
          ELSE [side |-> IF delta < 0 THEN "debit" ELSE "credit", amount |-> Abs(delta)]]

Delta(lines) == Side(lines, "debit") - Side(lines, "credit")
Empty(lines) == Side(lines, "debit") = 0 /\ Side(lines, "credit") = 0
(* The tolerance is a minor unit for each line converted, or what the       *)
(* policy allows if that is more.                                           *)
Unbalanced(lines, converted, tolerance, account) ==
  \/ Empty(lines)
  \/ Abs(Delta(lines)) > converted /\ Abs(Delta(lines)) > tolerance
  \/ Delta(lines) # 0 /\ ~account

PreparePosting(lines, rate, mode, tolerance, account) ==
  LET prepared == PrepareLines(lines, rate, mode)
      converted == IF rate = Base THEN 0 ELSE Cardinality(DOMAIN lines)
      refused == \/ \E k \in DOMAIN lines : lines[k].amount < 0
                 \/ Unbalanced(prepared, converted, tolerance, account)
  IN /\ stated # <<>> /\ journal.status = None
     /\ journal' = [rate |-> rate, account |-> account,
                    status |-> IF refused THEN "refused" ELSE "posted",
                    lines |-> IF refused THEN <<>> ELSE WithRoundingLine(prepared, Delta(prepared))]
     /\ UNCHANGED <<stated, document>>

Init ==
  /\ stated = <<>>
  /\ document = [lines |-> <<>>, discount |-> 0, total |-> 0, subtotal |-> 0,
                 tax |-> <<>>, recoverable |-> <<>>]
  /\ journal = [rate |-> Base, account |-> FALSE, status |-> None, lines |-> <<>>]

StatedLine == [amount : Prices, discount : Discounts, code : Codes]
Next == \E mode \in Modes :
  \/ \E n \in 1..MaxLines, d \in Discounts : \E lines \in [1..n -> StatedLine] :
       CalculateDocument(lines, d, mode)
  \/ /\ stated # <<>>
     /\ \E lines \in {SalesInvoiceLines, VendorBillLines}, rate \in Rates, t \in Tolerances,
           account \in BOOLEAN : PreparePosting(lines, rate, mode, t, account)

Spec == Init /\ [][Next]_vars
-----------------------------------------------------------------------------
Roundings(line) == {AfterDiscount(line, mode) : mode \in Modes}

(* Every sum on a document is the sum of the parts it shows, by line and by *)
(* component, an inclusive price is net and tax, and no more of a tax is    *)
(* recovered than was charged.                                              *)
DocumentAddsUp ==
  /\ document.total = document.subtotal + Total(document.tax) - document.discount
  /\ \A i \in DOMAIN stated : LET l == document.lines[i] IN
       /\ \A j \in DOMAIN l.taxes : Abs(l.recoverable[j]) <= Abs(l.taxes[j])
       /\ stated[i].code.inclusive /\ l.tax # 0 => l.gross \in Roundings(stated[i])

(* A calculated document can be posted in any currency: no rounding the     *)
(* conversion may cause is taken for an imbalance, and the entry balances.  *)
(* Only a negative line or tax rate, a discount of the whole or a document  *)
(* that is worth less than a unit in the book is refused.                   *)
Postable ==
  /\ document.discount = 0
  /\ document.total * (IF journal.rate = Base THEN 100 ELSE journal.rate) >= 100
  /\ \A i \in DOMAIN stated :
       /\ document.lines[i].net >= 0
       /\ \A c \in Range(stated[i].code.components) : c.rate >= 0
PostsWhatItCalculates ==
  /\ journal.status = "posted" => Delta(journal.lines) = 0
  /\ journal.status = "refused" /\ Postable => journal.rate # Base /\ ~journal.account

(* "Deriving tax as gross - net ... guarantees the components re-sum to the *)
(* stated gross" (refuted: components too small to round to a unit).        *)
InclusivePriceHolds ==
  \A i \in DOMAIN stated :
    stated[i].code.inclusive => document.lines[i].gross \in Roundings(stated[i])
=============================================================================

--------------------------- MODULE ForeignCurrency ---------------------------
(***************************************************************************)
(* An invoice in a foreign currency and the receipts that settle it, at    *)
(* the rates documents resolve: finance-setup's exchange rates, resolveRate*)
(* of ar.service, realizedFx of domain/documents and settlementPostingLines*)
(* of allocation.  What a line is worth in the book is rounded line by     *)
(* line, by domain/posting; see Calculation.  The payables mirror it.      *)
(***************************************************************************)
EXTENDS Integers, Sequences, FiniteSets

CONSTANTS
  Total,       \* of the invoice, in minor units of its currency
  Dates,
  Types,       \* rate types, with their sources
  Rates,       \* in hundredths
  MaxRates,    \* bound on the rates recorded
  AmountOf,    \* of each receipt
  Splits,      \* the allocations of one request, amounts in order
  Modes        \* rounding modes a book may be set to

None == "none"

AmountsAssumption ==
  /\ Total \in Nat /\ Rates \subseteq Nat \ {0}
  /\ \A r \in DOMAIN AmountOf : AmountOf[r] \in Nat
  /\ Splits \subseteq Seq(Nat)

VARIABLES
  rates,       \* exchange_rates of the currency pair
  mode,        \* rounding mode of the book
  invoice,     \* status, rate, amount_due
  receipt,     \* status, rate, unapplied_amount
  control,     \* base balance of the receivable account
  rows,        \* receipt_allocations
  entry        \* the last settlement posted, or refused for not balancing

vars == <<rates, mode, invoice, receipt, control, rows, entry>>

(* The arithmetic and the posting rules are those of any document.          *)
Kernel == INSTANCE Calculation WITH
  Prices <- {}, Discounts <- {}, Codes <- {}, Tolerances <- {0}, MaxLines <- 0,
  stated <- <<>>, document <- <<>>, journal <- <<>>

NoEntry == [late |-> FALSE, refused |-> FALSE, empty |-> FALSE, account |-> TRUE, delta |-> 0]

Init ==
  /\ rates = {} /\ mode \in Modes
  /\ invoice = [status |-> "DRAFT", rate |-> 0, due |-> Total]
  /\ receipt = [r \in DOMAIN AmountOf |-> [status |-> None, rate |-> 0, unapplied |-> 0]]
  /\ control = 0 /\ rows = 0 /\ entry = NoEntry
-----------------------------------------------------------------------------
(* Never updated; one of a type for a date.                                 *)
CreateExchangeRate(date, type, rate) ==
  /\ Cardinality(rates) < MaxRates
  /\ \A x \in rates : x.date # date \/ x.type # type
  /\ rates' = rates \cup {[date |-> date, type |-> type, rate |-> rate]}
  /\ UNCHANGED <<mode, invoice, receipt, control, rows, entry>>

(* Any of the latest, whatever its type.                                    *)
ResolveRate(on) ==
  LET known == {x \in rates : x.date <= on}
  IN {x.rate : x \in {x \in known : \A y \in known : y.date <= x.date}}

Convert(amount, rate) == Kernel!ConvertToBase(amount, rate, mode)

PostInvoice(on) ==   \* drafted, with the rate it will keep, and posted
  /\ invoice.status = "DRAFT"
  /\ \E rate \in ResolveRate(on) :
       /\ invoice' = [invoice EXCEPT !.status = "POSTED", !.rate = rate]
       /\ control' = Convert(Total, rate)
  /\ UNCHANGED <<rates, mode, receipt, rows, entry>>
-----------------------------------------------------------------------------
(* Rounded half up, whatever the book does.                                 *)
ToBase(amount, rate) == Kernel!RoundedDiv(amount * rate, 100, "HALF_UP")
RealizedFx(amount, booked, settled) == ToBase(amount, settled) - ToBase(amount, booked)

Line(account, side, amount) == [account |-> account, side |-> side, amount |-> amount]

(* Of an allocation that is made later, Cr control at the rate of the       *)
(* invoice, Dr advance at that of the receipt; of one the receipt itself    *)
(* has posted, what the control account still lacks.                        *)
SettlementPostingLines(split, settled, late) ==
  LET booked == invoice.rate
      fx == [i \in DOMAIN split |-> RealizedFx(split[i], booked, settled)]
      realized == {i \in DOMAIN split : fx[i] # 0}
      keys == (IF late THEN {"control", "advance"} \X (DOMAIN split) ELSE {"correction"} \X realized)
                \cup ({"realized"} \X realized)
      gain(k) == fx[k[2]] > 0
  IN [k \in keys |->
        CASE k[1] = "control" -> Line("control", "credit", Convert(split[k[2]], booked))
          [] k[1] = "advance" -> Line("advance", "debit", Convert(split[k[2]], settled))
          [] k[1] = "correction" ->
               Line("control", IF gain(k) THEN "debit" ELSE "credit", Kernel!Abs(fx[k[2]]))
          [] k[1] = "realized" ->
               Line("fx", IF gain(k) THEN "credit" ELSE "debit", Kernel!Abs(fx[k[2]]))]

(* Dr deposit, Cr control with what is allocated, Cr advance with the rest, *)
(* at the receipt's rate.                                                   *)
ReceiptLines(r, allocated, rate) ==
  LET amount == [deposit |-> AmountOf[r], relief |-> allocated, rest |-> AmountOf[r] - allocated]
      account == [deposit |-> "bank", relief |-> "control", rest |-> "advance"]
  IN [k \in {k \in (DOMAIN amount) \X {0} : amount[k[1]] # 0} |->
        Line(account[k[1]], IF k[1] = "deposit" THEN "debit" ELSE "credit",
             Convert(amount[k[1]], rate))]

On(lines, account) == [k \in {k \in DOMAIN lines : lines[k].account = account} |-> lines[k]]

(* An entry that does not balance undoes the whole request.                 *)
Refused(lines, converted, account) == Kernel!Unbalanced(lines, converted, 0, account)
Settle(r, split, lines, converted, late, account, rate, unapplied) ==
  LET refused == Refused(lines, converted, account) IN
  /\ entry' = [late |-> late, refused |-> refused, empty |-> Kernel!Empty(lines), account |-> account,
               delta |-> Kernel!Delta(lines)]
  /\ IF refused THEN UNCHANGED <<invoice, receipt, control, rows>>
     ELSE /\ invoice' = [invoice EXCEPT !.due = @ - Kernel!Total(split)]
          /\ receipt' = [receipt EXCEPT ![r] = [status |-> "POSTED", rate |-> rate, unapplied |-> unapplied]]
          /\ control' = control + Kernel!Delta(On(lines, "control"))
          /\ rows' = rows + Len(split)
  /\ UNCHANGED <<rates, mode>>

Fits(split) == invoice.status = "POSTED" /\ Kernel!Total(split) <= invoice.due

CreateReceipt(r, on, split, account) ==
  LET n == Kernel!Total(split) IN
  /\ receipt[r].status = None
  /\ split # <<>> => Fits(split) /\ n <= AmountOf[r]
  /\ \E rate \in ResolveRate(on) :
       LET own == ReceiptLines(r, n, rate)
           fx == SettlementPostingLines(split, rate, FALSE)
       IN Settle(r, split, [k \in DOMAIN own \cup DOMAIN fx |-> IF k \in DOMAIN own THEN own[k] ELSE fx[k]],
                 Cardinality(DOMAIN own), FALSE, account, rate, AmountOf[r] - n)

AllocateReceipt(r, split, account) ==
  LET rate == receipt[r].rate IN
  /\ receipt[r].status = "POSTED" /\ split # <<>>
  /\ Fits(split) /\ Kernel!Total(split) <= receipt[r].unapplied
  /\ Settle(r, split, SettlementPostingLines(split, rate, TRUE), 2 * Len(split), TRUE, account, rate,
            receipt[r].unapplied - Kernel!Total(split))

Next ==
  \/ \E date \in Dates, type \in Types, rate \in Rates : CreateExchangeRate(date, type, rate)
  \/ \E on \in Dates : PostInvoice(on)
  \/ \E r \in DOMAIN AmountOf, account \in BOOLEAN :
       \/ \E on \in Dates, split \in Splits \cup {<<>>} : CreateReceipt(r, on, split, account)
       \/ \E split \in Splits : AllocateReceipt(r, split, account)

Spec == Init /\ [][Next]_vars
-----------------------------------------------------------------------------
(* Settling posts whatever the rates are: where a book has an account for   *)
(* what rounding leaves, only an entry worth nothing in the book is         *)
(* refused; and where it rounds as the realized amounts are rounded, a      *)
(* later allocation leaves nothing.                                         *)
SettlementPosts ==
  /\ entry.account /\ entry.refused => entry.empty
  /\ entry.late /\ mode = "HALF_UP" => (entry.refused => entry.empty) /\ entry.delta = 0

(* An invoice that is settled leaves in the control account at most a unit  *)
(* and a half for each of its allocations, however many receipts, rates and *)
(* parts settled it: a receipt is rounded as the book does and what is      *)
(* realized with it half up, twice.                                         *)
ResidueIsRounding == invoice.due = 0 => 2 * Kernel!Abs(control) <= 3 * rows

(* "The control account must give back exactly the base amount the document *)
(* put in, or a residue accrues that no open item explains" (refuted: it is *)
(* given back in parts, each rounded).                                      *)
NoResidue == invoice.due = 0 => control = 0

(* Recording a rate once a date, pair, type and source makes "rate          *)
(* resolution" deterministic (refuted: a lookup names neither of the last). *)
OneRateResolves == \A on \in Dates : Cardinality(ResolveRate(on)) <= 1
=============================================================================

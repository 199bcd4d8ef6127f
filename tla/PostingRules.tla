----------------------------- MODULE PostingRules -----------------------------
(***************************************************************************)
(* Posting rules: their versions (rules.service), of which a posting date  *)
(* selects one, and what the selected one makes of an event                *)
(* (posting-rules.ts).                                                     *)
(***************************************************************************)
EXTENDS Integers, Sequences, FiniteSets, Functions

CONSTANTS
  Rules,         \* definitions parsePostingRule is given: sequences of lines
  Events,        \* payloads: the event itself, and the items lines repeat over
  Mapped,        \* the accounts a line's source resolves to
  Dates,
  MaxVersions    \* bound

Missing == -1000    \* a field the payload does not carry
NoItems == <<>>     \* nor an array of them

(* Dates are days; a version without a last day has 0 for it.               *)
DatesAssumption == Dates \subseteq Nat \ {0}

(* What a payload carries for a line, and what a line may say.              *)
Scope == [amount : Int, currency : STRING]
RuleLines ==
  [account : STRING, side : {"DEBIT", "CREDIT"}, amount : {"event", "const", "balancing"},
   const : Int, halves : Int, forEach : BOOLEAN, omitIfZero : BOOLEAN]
RulesAssumption == Rules \subseteq Seq(RuleLines) /\ Events \subseteq [self : Scope, items : Seq(Scope)]

VARIABLES
  version,       \* posting_rule_versions of one book and event type
  simulation     \* the last one: its date, its version, balancing lines drafted, its lines

vars == <<version, simulation>>

Init == version = <<>> /\ simulation = [date |-> 0, version |-> 0, slots |-> 0, lines |-> <<>>]
-----------------------------------------------------------------------------
(* isBalancing: of a rule's lines, and of the drafts made of them.          *)
Slots(lines) == {i \in DOMAIN lines : lines[i].amount = "balancing"}
Parses(rule) == rule # <<>> /\ Cardinality(Slots(rule)) <= 1

(* A line is drafted once, or once for each of the event's items.           *)
Scopes(line, event) == IF line.forEach THEN event.items ELSE <<event.self>>

(* The value, times the line's factor in halves, cut off towards zero.      *)
Towards0(n, d) == IF n >= 0 THEN n \div d ELSE -((-n) \div d)
Amount(line, scope) ==
  LET value == CASE line.amount = "event" -> scope.amount
                 [] line.amount = "const" -> line.const
                 [] OTHER -> 0
  IN Towards0(value * line.halves, 2)

Resolves(rule, event) ==
  \A i \in DOMAIN rule :
    /\ rule[i].forEach => event.items # NoItems
    /\ \A k \in DOMAIN Scopes(rule[i], event) :
         /\ rule[i].account \in Mapped
         /\ rule[i].amount = "event" => Scopes(rule[i], event)[k].amount # Missing

(* A negative amount is one on the other side; nothing is left out but a    *)
(* zero that the line says to omit.                                         *)
Flip(side) == IF side = "DEBIT" THEN "CREDIT" ELSE "DEBIT"
DraftLine(line, scope) ==
  LET amount == Amount(line, scope)
      side == IF amount < 0 THEN Flip(line.side) ELSE line.side
      magnitude == IF amount < 0 THEN -amount ELSE amount
  IN [account |-> line.account, currency |-> scope.currency, amount |-> line.amount,
      debit |-> IF side = "DEBIT" THEN magnitude ELSE 0,
      credit |-> IF side = "CREDIT" THEN magnitude ELSE 0]
Omitted(line, scope) == line.amount # "balancing" /\ Amount(line, scope) = 0 /\ line.omitIfZero

(* A draft is known by its line and its item.                               *)
Drafts(rule, event) ==
  LET repeated == UNION {{i} \X DOMAIN Scopes(rule[i], event) : i \in DOMAIN rule}
      scope(k) == Scopes(rule[k[1]], event)[k[2]]
  IN [k \in {k \in repeated : ~Omitted(rule[k[1]], scope(k))} |-> DraftLine(rule[k[1]], scope(k))]

Sum(lines, column, on) == SumFunction([k \in on |-> lines[k][column]])

(* What one balancing line absorbs; several, one per item, stay at zero.    *)
Others(drafts) == DOMAIN drafts \ Slots(drafts)
Residual(drafts) == Sum(drafts, "debit", Others(drafts)) - Sum(drafts, "credit", Others(drafts))
Absorbing(draft, residual) ==
  IF residual > 0 THEN [draft EXCEPT !.credit = residual] ELSE [draft EXCEPT !.debit = -residual]
WithResidual(drafts) ==
  LET residual == Residual(drafts) IN
  IF Cardinality(Slots(drafts)) # 1 THEN drafts
  ELSE [k \in IF residual = 0 THEN Others(drafts) ELSE DOMAIN drafts |->
          IF k \in Slots(drafts) THEN Absorbing(drafts[k], residual) ELSE drafts[k]]

(* A balancing line needs one currency to balance the others in.            *)
Evaluable(rule, event) ==
  /\ Resolves(rule, event)
  /\ LET drafts == Drafts(rule, event) IN
       /\ Cardinality(Slots(drafts)) = 1 =>
            Cardinality({drafts[k].currency : k \in Others(drafts)}) <= 1
       /\ DOMAIN WithResidual(drafts) # {}
-----------------------------------------------------------------------------
InForce(date) ==
  {i \in DOMAIN version : version[i].from <= date /\ (version[i].to = 0 \/ date < version[i].to)}
StillEffective(from) == {i \in DOMAIN version : version[i].to = 0 \/ version[i].to > from}

(* The current versions end where the new one starts; one that would end    *)
(* before it began, or overlap another, is refused by the table.            *)
CreatePostingRuleVersion(from, rule, supersede) ==
  /\ Len(version) < MaxVersions /\ Parses(rule)
  /\ StillEffective(from) # {} => supersede
  /\ \A i \in StillEffective(from) : version[i].from < from
  /\ version' = Append([i \in DOMAIN version |->
                          IF i \in StillEffective(from) THEN [version[i] EXCEPT !.to = from]
                          ELSE version[i]],
                       [from |-> from, to |-> 0, rule |-> rule])
  /\ UNCHANGED simulation

Simulate(date, event) ==
  \E i \in InForce(date) : LET drafts == Drafts(version[i].rule, event) IN
    /\ Evaluable(version[i].rule, event)
    /\ simulation' = [date |-> date, version |-> i, slots |-> Cardinality(Slots(drafts)),
                      lines |-> WithResidual(drafts)]
    /\ UNCHANGED version

Next ==
  \/ \E from \in Dates, rule \in Rules, supersede \in BOOLEAN :
       CreatePostingRuleVersion(from, rule, supersede)
  \/ \E date \in Dates, event \in Events : Simulate(date, event)

Spec == Init /\ [][Next]_vars
-----------------------------------------------------------------------------
(* From the first version on, every date has one: "resolution is            *)
(* deterministic", with back-dated and superseded versions too.             *)
OneRulePerDay ==
  \A date \in Dates :
    version # <<>> /\ version[1].from <= date => Cardinality(InForce(date)) = 1

(* A rule with one balancing line drafts lines that balance and are of one  *)
(* side each, however many of its lines turned negative or were dropped.    *)
BalancingLineBalances ==
  LET lines == simulation.lines IN
  /\ \A k \in DOMAIN lines : lines[k].debit >= 0 /\ lines[k].credit >= 0
                             /\ (lines[k].debit = 0 \/ lines[k].credit = 0)
  /\ simulation.slots = 1 => Sum(lines, "debit", DOMAIN lines) = Sum(lines, "credit", DOMAIN lines)
=============================================================================

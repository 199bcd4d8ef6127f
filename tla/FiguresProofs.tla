---------------------------- MODULE FiguresProofs ----------------------------
(***************************************************************************)
(* FiguresAddUp of Platform, for every value of its constants: the drafts  *)
(* of a posting rule, the figures of a document, the settlement of an      *)
(* invoice in a foreign currency, and the ledger's reports.                *)
(***************************************************************************)
EXTENDS Platform, Sums, FiniteSetTheorems, TLAPS

LEMMA OnlyRules ==
  /\ PlatformInit => Rules!Init
  /\ [PlatformNext]_platform => [Rules!Next]_(Rules!vars)
  BY DEF PlatformInit, PlatformNext, platform, vRules, Rules!vars

LEMMA OnlyCalculation ==
  /\ PlatformInit => Calculation!Init
  /\ [PlatformNext]_platform => [Calculation!Next]_(Calculation!vars)
  BY DEF PlatformInit, PlatformNext, platform, vCalculation, Calculation!vars

LEMMA OnlyForeign ==
  /\ PlatformInit => Foreign!Init
  /\ [PlatformNext]_platform => [Foreign!Next]_(Foreign!vars)
  BY DEF PlatformInit, PlatformNext, platform, vForeign, Foreign!vars

LEMMA OnlyReports ==
  /\ PlatformInit => Reports!Init
  /\ [PlatformNext]_platform => [Reports!Next]_(Reports!vars)
  BY DEF PlatformInit, PlatformNext, platform, vReports, Reports!vars

LEMMA RowIsFinite ==
  ASSUME NEW n \in Nat PROVE IsFiniteSet(1..n) /\ Cardinality(1..n) = n
<1>1. 1 \in Int /\ n \in Int
  OBVIOUS
<1>2. IsFiniteSet(1..n) /\ Cardinality(1..n) = IF 1 > n THEN 0 ELSE n - 1 + 1
  BY ONLY <1>1, FS_Interval
<1> QED
  BY <1>2

(***************************************************************************)
(* Posting rules (PostingRules): the lines of a rule.                      *)
(*                                                                         *)
(* What a simulation drafts is on one side, or nothing when other slots    *)
(* are to decide; the one slot that is to balance gets what they leave.    *)
(***************************************************************************)
LEMMA RulesTotal == ASSUME NEW f PROVE Rules!SumFunction(f) = Sum(f, DOMAIN f)
  BY Zenon DEF Rules!SumFunction, Rules!SumFunctionOnSet, Rules!FoldFunctionOnSet, Rules!MapThenFoldSet,
     Sum, MapThenSumSet, MapThenFoldSet

(* What a line drafts is on one side, or nothing when others are to decide. *)
OneSided(draft) ==
  /\ draft.debit \in Nat /\ draft.credit \in Nat /\ (draft.debit = 0 \/ draft.credit = 0)
  /\ draft.amount = "balancing" => draft.debit = 0 /\ draft.credit = 0
DraftFields == {"account", "currency", "amount", "debit", "credit"}

LEMMA LineIsOneSided ==
  ASSUME NEW each \in Rules!RuleLines, NEW scope \in Rules!Scope
  PROVE  OneSided(Rules!DraftLine(each, scope)) /\ DOMAIN Rules!DraftLine(each, scope) = DraftFields
<1>1. PICK value \in Int : /\ Rules!Amount(each, scope) = Rules!Towards0(value * each.halves, 2)
                           /\ each.amount = "balancing" => value = 0
  BY DEF Rules!Amount, Rules!RuleLines, Rules!Scope
<1>2. PICK product \in Int : product = value * each.halves /\ (value = 0 => product = 0)
  BY DEF Rules!RuleLines
<1>3. PICK amount \in Int : amount = Rules!Amount(each, scope) /\ (each.amount = "balancing" => amount = 0)
  BY <1>1, <1>2 DEF Rules!Towards0
<1> QED
  BY <1>3 DEF Rules!DraftLine, OneSided, DraftFields

LEMMA DraftsAreOneSided ==
  ASSUME NEW rule \in Seq(Rules!RuleLines), NEW event \in [self : Rules!Scope, items : Seq(Rules!Scope)]
  PROVE  LET drafts == Rules!Drafts(rule, event)
         IN IsFiniteSet(DOMAIN drafts)
            /\ \A k \in DOMAIN drafts : OneSided(drafts[k]) /\ DOMAIN drafts[k] = DraftFields
<1> DEFINE scopes(i) == Rules!Scopes(rule[i], event)
           repeated == UNION {{i} \X DOMAIN scopes(i) : i \in DOMAIN rule}
           drafted == {k \in repeated : ~Rules!Omitted(rule[k[1]], scopes(k[1])[k[2]])}
<1>1. DOMAIN rule = 1..Len(rule) /\ Len(rule) \in Nat
  OBVIOUS
<1>2. ASSUME NEW i \in DOMAIN rule PROVE /\ rule[i] \in Rules!RuleLines /\ scopes(i) \in Seq(Rules!Scope)
  <2>1. rule[i] \in Rules!RuleLines /\ event.items \in Seq(Rules!Scope) /\ <<event.self>> \in Seq(Rules!Scope)
    BY <1>1
  <2> QED
    BY <2>1 DEF Rules!Scopes
<1>3. ASSUME NEW i \in DOMAIN rule PROVE IsFiniteSet({i} \X DOMAIN scopes(i))
  <2>1. PICK items \in Seq(Rules!Scope) : items = scopes(i)
    BY <1>2
  <2>2. PICK n \in Nat : DOMAIN items = 1..n
    OBVIOUS
  <2>3. IsFiniteSet({i}) /\ IsFiniteSet(DOMAIN items)
    <3>1. IsFiniteSet(1..n)
      BY ONLY n \in Nat, RowIsFinite
    <3>2. IsFiniteSet({i})
      BY ONLY FS_Singleton
    <3> QED
      BY ONLY <2>2, <3>1, <3>2
  <2>4. IsFiniteSet({i} \X DOMAIN items)
    BY ONLY <2>3, FS_Product
  <2> QED
    BY <2>1, <2>4
<1>4. IsFiniteSet(repeated)
  <2>1. PICK f : f = [i \in DOMAIN rule |-> {i} \X DOMAIN scopes(i)]
    OBVIOUS
  <2>2. DOMAIN f = DOMAIN rule /\ repeated = UNION {f[i] : i \in DOMAIN f}
    BY <2>1
  <2> HIDE DEF scopes, repeated
  <2>3. IsFiniteSet(DOMAIN f)
    BY <1>1, <2>2, FS_Interval
  <2>4. \A T \in {f[i] : i \in DOMAIN f} : IsFiniteSet(T)
    BY <1>3, <2>1
  <2>5. IsFiniteSet({f[i] : i \in DOMAIN f})
    BY <2>3, ImageFinite
  <2> QED
    BY <2>2, <2>4, <2>5, FS_UNION
<1>5. ASSUME NEW k \in repeated PROVE rule[k[1]] \in Rules!RuleLines /\ scopes(k[1])[k[2]] \in Rules!Scope
  <2>1. PICK i \in DOMAIN rule : k \in {i} \X DOMAIN scopes(i)
    OBVIOUS
  <2>2. k[1] = i /\ k[2] \in DOMAIN scopes(i)
    BY <2>1
  <2> QED
    BY <1>2, <2>2
<1>6. Rules!Drafts(rule, event) = [k \in drafted |-> Rules!DraftLine(rule[k[1]], scopes(k[1])[k[2]])]
  BY DEF Rules!Drafts
<1>7. IsFiniteSet(drafted)
  BY <1>4, FS_Subset
<1> HIDE DEF repeated, scopes
<1> QED
  BY <1>5, <1>6, <1>7, LineIsOneSided

LEMMA ColumnSum ==
  ASSUME NEW parts, NEW column, NEW S
  PROVE  Rules!Sum(parts, column, S) = Sum([k \in S |-> parts[k][column]], S)
  BY RulesTotal DEF Rules!Sum

(* One balancing line takes what the others lack, or is left out.           *)
Drafted(drafts) ==
  /\ IsFiniteSet(DOMAIN drafts) /\ drafts = [k \in DOMAIN drafts |-> drafts[k]]
  /\ \A k \in DOMAIN drafts : OneSided(drafts[k]) /\ DOMAIN drafts[k] = DraftFields

Even(parts) == Rules!Sum(parts, "debit", DOMAIN parts) = Rules!Sum(parts, "credit", DOMAIN parts)
EachOneSided(parts) ==
  \A k \in DOMAIN parts : /\ parts[k].debit >= 0 /\ parts[k].credit >= 0
                          /\ parts[k].debit = 0 \/ parts[k].credit = 0

LEMMA ResidualBalances ==
  ASSUME NEW drafts, Drafted(drafts)
  PROVE  /\ EachOneSided(Rules!WithResidual(drafts))
         /\ Rules!Cardinality(Rules!Slots(drafts)) = 1 => Even(Rules!WithResidual(drafts))
<1>1. CASE Rules!Cardinality(Rules!Slots(drafts)) # 1
  BY <1>1 DEF Rules!WithResidual, EachOneSided, Drafted, OneSided
<1>2. CASE Rules!Cardinality(Rules!Slots(drafts)) = 1
  <2> DEFINE slots == Rules!Slots(drafts)
             others == Rules!Others(drafts)
             parts == Rules!WithResidual(drafts)
  <2>1. Cardinality(slots) = 1
    BY <1>2, Zenon DEF Rules!Cardinality, Cardinality, Rules!IsFiniteSet, IsFiniteSet
  <2>2. slots \subseteq DOMAIN drafts /\ others = DOMAIN drafts \ slots
    BY DEF Rules!Slots, Rules!Others
  <2>3. IsFiniteSet(slots) /\ IsFiniteSet(others) /\ IsFiniteSet(DOMAIN drafts)
    BY <2>2, FS_Subset DEF Drafted
  <2>4. PICK s : slots = {s}
    BY <2>1, <2>3, FS_Singleton
  <2>5. PICK D, C : D = [k \in others |-> drafts[k].debit] /\ C = [k \in others |-> drafts[k].credit]
    OBVIOUS
  <2>6. PICK d \in Nat, c \in Nat : d = Sum(D, others) /\ c = Sum(C, others)
    <3>1. \A k \in others : D[k] \in Nat /\ C[k] \in Nat
      BY <2>2, <2>5 DEF Drafted, OneSided
    <3>2. Sum(D, others) \in Nat
      BY <2>3, <3>1, SumNat
    <3>3. Sum(C, others) \in Nat
      BY <2>3, <3>1, SumNat
    <3> QED
      BY <3>2, <3>3
  <2>7. Rules!Residual(drafts) = d - c
    BY <2>5, <2>6, ColumnSum DEF Rules!Residual
  <2>8. /\ parts = [k \in IF d - c = 0 THEN others ELSE DOMAIN drafts |->
                     IF k \in slots THEN Rules!Absorbing(drafts[k], d - c) ELSE drafts[k]]
    BY <1>2, <2>7 DEF Rules!WithResidual
  <2>9. PICK F, G : /\ F = [k \in DOMAIN parts |-> parts[k].debit]
                    /\ G = [k \in DOMAIN parts |-> parts[k].credit]
    OBVIOUS
  <2>10. Rules!Sum(parts, "debit", DOMAIN parts) = Sum(F, DOMAIN parts)
    BY <2>9, ColumnSum
  <2>11. Rules!Sum(parts, "credit", DOMAIN parts) = Sum(G, DOMAIN parts)
    BY <2>9, ColumnSum
  <2> HIDE DEF slots, others, parts
  <2>12. CASE d - c = 0
    <3>1. DOMAIN parts = others /\ \A k \in others : parts[k] = drafts[k]
      BY <2>2, <2>8, <2>12
    <3>2. \A k \in others : F[k] = D[k] /\ G[k] = C[k]
      BY <2>5, <2>9, <3>1
    <3>3. Sum(F, others) = d
      BY <2>3, <2>6, <3>2, SumAgrees
    <3>4. Sum(G, others) = c
      BY <2>3, <2>6, <3>2, SumAgrees
    <3>5. EachOneSided(parts)
      BY <2>2, <3>1 DEF EachOneSided, Drafted, OneSided
    <3> QED
      BY <2>10, <2>11, <2>12, <3>1, <3>3, <3>4, <3>5 DEF Even, parts
  <2>13. CASE d - c # 0
    <3>1. /\ DOMAIN parts = DOMAIN drafts /\ parts[s] = Rules!Absorbing(drafts[s], d - c)
          /\ \A k \in others : parts[k] = drafts[k]
      BY <2>2, <2>4, <2>8, <2>13
    <3>2. drafts[s].debit = 0 /\ drafts[s].credit = 0 /\ DOMAIN drafts[s] = DraftFields
      BY <2>2, <2>4 DEF Drafted, OneSided, Rules!Slots, slots
    <3>3. /\ parts[s].debit = IF d - c > 0 THEN 0 ELSE c - d
          /\ parts[s].credit = IF d - c > 0 THEN d - c ELSE 0
      <4>1. CASE d - c > 0
        BY <3>1, <3>2, <4>1 DEF Rules!Absorbing, DraftFields
      <4>2. CASE ~(d - c > 0)
        <5>1. parts[s] = [drafts[s] EXCEPT !.debit = -(d - c)]
          BY <3>1, <4>2 DEF Rules!Absorbing
        <5>2. parts[s].debit = -(d - c) /\ parts[s].credit = 0
          BY <3>2, <5>1 DEF DraftFields
        <5> QED
          BY <4>2, <5>2
      <4> QED
        BY <4>1, <4>2
    <3>4. /\ F[s] = parts[s].debit /\ G[s] = parts[s].credit
          /\ \A k \in others : F[k] = D[k] /\ G[k] = C[k]
      BY <2>2, <2>4, <2>5, <2>9, <3>1
    <3>5. \A k \in DOMAIN parts : F[k] \in Int /\ G[k] \in Int
      <4>1. F[s] \in Int /\ G[s] \in Int
        BY <3>3, <3>4
      <4>2. \A k \in others : F[k] \in Int /\ G[k] \in Int
        BY <2>2, <2>5, <3>4 DEF Drafted, OneSided
      <4>3. \A k \in DOMAIN parts : k = s \/ k \in others
        BY <2>2, <2>4, <3>1
      <4> QED
        BY <4>1, <4>2, <4>3
    <3>6. s \in DOMAIN parts /\ DOMAIN parts \ {s} = others /\ IsFiniteSet(DOMAIN parts)
      BY <2>2, <2>3, <2>4, <3>1
    <3>7. Sum(F, DOMAIN parts) = F[s] + Sum(F, others)
      BY <3>5, <3>6, SumRemove
    <3>8. Sum(G, DOMAIN parts) = G[s] + Sum(G, others)
      BY <3>5, <3>6, SumRemove
    <3>9. Sum(F, others) = d
      BY <2>3, <2>6, <3>4, SumAgrees
    <3>10. Sum(G, others) = c
      BY <2>3, <2>6, <3>4, SumAgrees
    <3>11. EachOneSided(parts)
      <4>1. ASSUME NEW k \in DOMAIN parts
            PROVE  /\ parts[k].debit >= 0 /\ parts[k].credit >= 0
                   /\ parts[k].debit = 0 \/ parts[k].credit = 0
        <5>1. CASE k = s
          BY <3>3, <5>1
        <5>2. CASE k # s
          BY <2>2, <2>4, <3>1, <5>2 DEF Drafted, OneSided
        <5> QED
          BY <5>1, <5>2
      <4> QED
        BY <4>1 DEF EachOneSided
    <3>12. Sum(F, DOMAIN parts) = Sum(G, DOMAIN parts)
      BY <3>3, <3>4, <3>7, <3>8, <3>9, <3>10
    <3> QED
      BY <2>10, <2>11, <3>11, <3>12 DEF Even, parts
  <2> QED
    BY <2>12, <2>13
<1> QED
  BY <1>1, <1>2

(* Superseding a version changes its dates, not its lines.                  *)
RuleVersion == [from : RuleDates, to : RuleDates \cup {0}, rule : RuleSets]
RulesInv == version \in Seq(RuleVersion) /\ Rules!BalancingLineBalances

LEMMA RulesInit == Rules!Init => RulesInv
  BY DEF Rules!Init, RulesInv, Rules!BalancingLineBalances

LEMMA VersionsKept ==
  ASSUME version \in Seq(RuleVersion), NEW from \in RuleDates, NEW rule \in RuleSets, NEW supersede \in BOOLEAN,
         Rules!CreatePostingRuleVersion(from, rule, supersede)
  PROVE  version' \in Seq(RuleVersion)
<1> DEFINE was == [i \in DOMAIN version |->
                     IF i \in Rules!StillEffective(from) THEN [version[i] EXCEPT !.to = from] ELSE version[i]]
           added == [from |-> from, to |-> 0, rule |-> rule]
<1>1. DOMAIN version = 1..Len(version) /\ Len(version) \in Nat /\ \A i \in DOMAIN version : version[i] \in RuleVersion
  OBVIOUS
<1>2. \A i \in DOMAIN version : was[i] \in RuleVersion
  BY <1>1 DEF RuleVersion
<1>3. was \in Seq(RuleVersion)
  BY <1>1, <1>2
<1>4. added \in RuleVersion
  BY DEF RuleVersion
<1>5. version' = Append(was, added)
  BY DEF Rules!CreatePostingRuleVersion
<1> HIDE DEF was, added
<1> QED
  BY <1>3, <1>4, <1>5

LEMMA RulesStep == RulesInv /\ [Rules!Next]_(Rules!vars) => RulesInv'
<1> SUFFICES ASSUME RulesInv, [Rules!Next]_(Rules!vars) PROVE RulesInv'
  OBVIOUS
<1>1. CASE UNCHANGED simulation
  <2>1. Rules!BalancingLineBalances'
    BY <1>1 DEF RulesInv, Rules!BalancingLineBalances, Rules!Sum
  <2>2. version' \in Seq(RuleVersion)
    <3>1. CASE UNCHANGED version
      BY <3>1 DEF RulesInv
    <3>2. ASSUME NEW from \in RuleDates, NEW rule \in RuleSets, NEW supersede \in BOOLEAN,
                 Rules!CreatePostingRuleVersion(from, rule, supersede)
          PROVE  version' \in Seq(RuleVersion)
      BY <3>2, VersionsKept DEF RulesInv
    <3> QED
      BY <3>1, <3>2 DEF Rules!Next, Rules!vars, Rules!Simulate
  <2> QED
    BY <2>1, <2>2 DEF RulesInv
<1>2. ASSUME NEW date \in RuleDates, NEW event \in RuleEvents, Rules!Simulate(date, event)
      PROVE  RulesInv'
  <2>0. UNCHANGED version
    BY <1>2 DEF Rules!Simulate
  <2>1. PICK i \in DOMAIN version :
          simulation' = [date |-> date, version |-> i,
                         slots |-> Rules!Cardinality(Rules!Slots(Rules!Drafts(version[i].rule, event))),
                         lines |-> Rules!WithResidual(Rules!Drafts(version[i].rule, event))]
    BY <1>2 DEF Rules!Simulate, Rules!InForce
  <2>2. PICK drafts : drafts = Rules!Drafts(version[i].rule, event)
    OBVIOUS
  <2>3. version[i].rule \in Seq(Rules!RuleLines) /\ event \in [self : Rules!Scope, items : Seq(Rules!Scope)]
    <3>1. version[i] \in RuleVersion
      BY DEF RulesInv
    <3> QED
      BY <3>1, FiguresAssumption DEF RuleVersion, Rules!RulesAssumption
  <2>4. Drafted(drafts)
    <3>1. drafts = [k \in DOMAIN drafts |-> drafts[k]]
      BY <2>2 DEF Rules!Drafts
    <3> QED
      BY <2>2, <2>3, <3>1, DraftsAreOneSided DEF Drafted
  <2>5. simulation'.lines = Rules!WithResidual(drafts) /\ simulation'.slots = Rules!Cardinality(Rules!Slots(drafts))
    BY <2>1, <2>2
  <2>6. EachOneSided(simulation'.lines) /\ (simulation'.slots = 1 => Even(simulation'.lines))
    BY <2>4, <2>5, ResidualBalances
  <2> QED
    BY <2>0, <2>6 DEF RulesInv, Rules!BalancingLineBalances, EachOneSided, Even
<1> QED
  BY <1>1, <1>2 DEF Rules!Next, Rules!vars, Rules!CreatePostingRuleVersion

(***************************************************************************)
(* Rounding, and lines that are debits or credits.                         *)
(***************************************************************************)
(* Rounding.                                                                *)
Up == {"UP", "CEILING"}
Halves == {"HALF_UP", "HALF_DOWN", "HALF_EVEN"}

(* What is left over is less than the divisor, and rounding adds it or      *)
(* takes it away.                                                           *)
LEMMA Division ==
  ASSUME NEW n \in Nat, NEW d \in Nat \ {0}
  PROVE  /\ n \div d \in Nat /\ n % d \in Nat /\ n % d < d
         /\ n = (n \div d) * d + (n % d)
  OBVIOUS

LEMMA AbsType == ASSUME NEW n \in Int
  PROVE  /\ Calculation!Abs(n) \in Nat /\ (n >= 0 => Calculation!Abs(n) = n) /\ (n <= 0 => Calculation!Abs(n) = -n)
  BY DEF Calculation!Abs

Raised(negative, d, m, q, r) ==
  \/ m = "UP"
  \/ m = "CEILING" /\ ~negative
  \/ m = "FLOOR" /\ negative
  \/ m = "HALF_UP" /\ 2 * r >= d
  \/ m = "HALF_DOWN" /\ 2 * r > d
  \/ m = "HALF_EVEN" /\ (2 * r > d \/ (2 * r = d /\ q % 2 = 1))
SizeOf(negative, d, m, q, r) == IF r # 0 /\ Raised(negative, d, m, q, r) THEN q + 1 ELSE q

(* The quotient, what is left over, and what becomes of them.               *)
RoundsTo(n, d, m, q, r, size) ==
  /\ q \in Nat /\ r \in Nat /\ size \in Nat
  /\ r < d /\ Calculation!Abs(n) = q * d + r
  /\ size = q \/ (size = q + 1 /\ r # 0)
  /\ Calculation!RoundedDiv(n, d, m) = IF n < 0 THEN -size ELSE size
  /\ n >= 0 => /\ m \in Up /\ r # 0 => size = q + 1
               /\ m = "HALF_UP" => (size = q <=> 2 * r < d)
               /\ m \in Halves => (2 * r < d => size = q) /\ (2 * r > d => size = q + 1)
               /\ m \notin Up \cup Halves => size = q

LEMMA RoundedSize ==
  ASSUME NEW n \in Int, NEW d \in Nat \ {0}, NEW m
  PROVE  \E q, r, size : RoundsTo(n, d, m, q, r, size)
<1>1. PICK a \in Nat : a = Calculation!Abs(n)
  BY AbsType
<1>2. PICK q \in Nat, r \in Nat : q = a \div d /\ r = a % d /\ r < d /\ a = q * d + r
  BY Division
<1>3. Calculation!RoundedDiv(n, d, m) =
        LET b == Calculation!Abs(n)
            e == Calculation!Abs(d)
            negative == (n < 0) # (d < 0)
        IN IF negative THEN -SizeOf(negative, e, m, b \div e, b % e)
           ELSE SizeOf(negative, e, m, b \div e, b % e)
  BY Zenon DEF Calculation!RoundedDiv, SizeOf, Raised
<1>d. Calculation!Abs(d) = d /\ d >= 0
  BY AbsType
<1>n. PICK negative \in BOOLEAN : negative = ((n < 0) # (d < 0)) /\ (negative <=> n < 0)
  <2>1. ((n < 0) # (d < 0)) = (n < 0)
    BY <1>d
  <2> QED
    BY <2>1
<1>4. PICK size : size = SizeOf(negative, d, m, q, r)
  OBVIOUS
<1>5. Calculation!RoundedDiv(n, d, m) = IF n < 0 THEN -size ELSE size
  BY ONLY <1>1, <1>2, <1>3, <1>4, <1>d, <1>n, Zenon
<1>6. size \in Nat /\ (size = q \/ (size = q + 1 /\ r # 0))
  BY <1>4 DEF SizeOf
<1>7. ASSUME n >= 0
      PROVE  /\ m \in Up /\ r # 0 => size = q + 1
             /\ m = "HALF_UP" => (size = q <=> 2 * r < d)
             /\ m \in Halves => (2 * r < d => size = q) /\ (2 * r > d => size = q + 1)
             /\ m \notin Up \cup Halves => size = q
  <2>1. r # 0 => n > 0
    <3>1. r # 0 => a # 0
      <4>1. PICK p \in Nat : p = q * d
        OBVIOUS
      <4>2. a = p + r
        BY <1>2, <4>1
      <4> QED
        BY <4>2
    <3> QED
      BY <1>1, <1>7, <3>1, AbsType
  <2>2. CASE m \in Up
    <3>1. r # 0 => Raised(negative, d, m, q, r)
      BY <1>n, <2>1, <2>2 DEF Up, Raised
    <3>2. m \notin Halves
      BY <2>2 DEF Up, Halves
    <3> QED
      BY <1>4, <2>2, <3>1, <3>2 DEF SizeOf, Halves
  <2>3. CASE m = "HALF_UP"
    <3>1. Raised(negative, d, m, q, r) <=> 2 * r >= d
      BY <2>3 DEF Raised
    <3>2. m \in Halves /\ m \notin Up
      BY <2>3 DEF Up, Halves
    <3>3. size = IF r # 0 /\ 2 * r >= d THEN q + 1 ELSE q
      BY <1>4, <3>1 DEF SizeOf
    <3>4. size = q <=> 2 * r < d
      BY <3>3
    <3>5. 2 * r > d => size = q + 1
      BY <3>3
    <3> QED
      BY <2>3, <3>2, <3>4, <3>5
  <2>4. CASE m = "HALF_DOWN"
    <3>1. Raised(negative, d, m, q, r) <=> 2 * r > d
      BY <2>4 DEF Raised
    <3>2. m \in Halves /\ m \notin Up
      BY <2>4 DEF Up, Halves
    <3>3. size = IF r # 0 /\ 2 * r > d THEN q + 1 ELSE q
      BY <1>4, <3>1 DEF SizeOf
    <3>4. (2 * r < d => size = q) /\ (2 * r > d => size = q + 1)
      BY <3>3
    <3> QED
      BY <2>4, <3>2, <3>4
  <2>5. CASE m = "HALF_EVEN"
    <3>1. (2 * r > d => Raised(negative, d, m, q, r)) /\ (2 * r < d => ~Raised(negative, d, m, q, r))
      BY <2>5 DEF Raised
    <3>2. m \in Halves /\ m \notin Up
      BY <2>5 DEF Up, Halves
    <3>3. (2 * r < d => size = q) /\ (2 * r > d => size = q + 1)
      BY <1>4, <3>1 DEF SizeOf
    <3> QED
      BY <2>5, <3>2, <3>3
  <2>6. CASE m \notin Up \cup Halves
    <3>1. ~Raised(negative, d, m, q, r)
      BY <1>7, <1>n, <2>6 DEF Raised, Up, Halves
    <3>2. m # "HALF_UP" /\ m \notin Up /\ m \notin Halves
      BY <2>6 DEF Halves
    <3> QED
      BY <1>4, <3>1, <3>2 DEF SizeOf
  <2>7. m \in Up \/ m = "HALF_UP" \/ m = "HALF_DOWN" \/ m = "HALF_EVEN" \/ m \notin Up \cup Halves
    BY DEF Up, Halves
  <2> QED
    BY <2>2, <2>3, <2>4, <2>5, <2>6, <2>7
<1> QED
  BY <1>1, <1>2, <1>5, <1>6, <1>7 DEF RoundsTo

LEMMA ForeignTotal == ASSUME NEW f PROVE Foreign!Kernel!Total(f) = Sum(f, DOMAIN f)
  BY Zenon DEF Foreign!Kernel!Total, Foreign!Kernel!FoldFunction, Foreign!Kernel!FoldFunctionOnSet, Foreign!Kernel!MapThenFoldSet,
     Sum, MapThenSumSet, MapThenFoldSet
LEMMA ForeignRounding == ASSUME NEW n, NEW d, NEW m
  PROVE Foreign!Kernel!RoundedDiv(n, d, m) = Calculation!RoundedDiv(n, d, m)
  BY Zenon DEF Foreign!Kernel!RoundedDiv, Calculation!RoundedDiv, Foreign!Kernel!Abs, Calculation!Abs

(* What rounding an amount of hundredths adds to it.                        *)
Added(m, e) ==
  /\ e \in Int
  /\ m \in Up => 0 <= e /\ e <= 99
  /\ m \in Halves => -50 <= e /\ e <= 50
  /\ m = "HALF_UP" => -49 <= e
  /\ m \notin Up \cup Halves => -99 <= e /\ e <= 0

LEMMA RoundingAdds ==
  ASSUME NEW n \in Nat, NEW m
  PROVE  LET v == Foreign!Kernel!RoundedDiv(n, 100, m)
         IN v \in Nat /\ Added(m, 100 * v - n) /\ (n = 0 => v = 0)
<1>a. n \in Int /\ 100 \in Nat \ {0}
  OBVIOUS
<1>0. PICK q, r, size : RoundsTo(n, 100, m, q, r, size)
  BY <1>a, RoundedSize
<1>1. /\ q \in Nat /\ r \in Nat /\ size \in Nat /\ r < 100
      /\ size = q \/ (size = q + 1 /\ r # 0)
      /\ n = q * 100 + r /\ Foreign!Kernel!RoundedDiv(n, 100, m) = size
  BY <1>0, AbsType, ForeignRounding DEF RoundsTo
<1>2. /\ m \in Up /\ r # 0 => size = q + 1
      /\ m = "HALF_UP" => (size = q <=> 2 * r < 100)
      /\ m \in Halves => (2 * r < 100 => size = q) /\ (2 * r > 100 => size = q + 1)
      /\ m \notin Up \cup Halves => size = q
  BY <1>0 DEF RoundsTo
<1>3. n = 0 => size = 0
  BY <1>1
<1>4. PICK e : e = 100 * size - n /\ e \in Int
  <2>1. 100 * size - n \in Int
    BY <1>1
  <2> QED
    BY <2>1
<1>6. Added(m, e)
  <2>1. m \in Up => 0 <= e /\ e <= 99
    BY <1>1, <1>2, <1>4
  <2>2. m \in Halves => -50 <= e /\ e <= 50
    BY <1>1, <1>2, <1>4
  <2>3. m = "HALF_UP" => -49 <= e
    BY <1>1, <1>2, <1>4
  <2>4. m \notin Up \cup Halves => -99 <= e /\ e <= 0
    BY <1>1, <1>2, <1>4
  <2> QED
    BY <1>4, <2>1, <2>2, <2>3, <2>4 DEF Added
<1> QED
  BY <1>1, <1>3, <1>4, <1>6

(* Sides.                                                                   *)
OnDebit(item) == IF item.side = "debit" THEN item.amount ELSE -item.amount
SidedLine(item) == item.side \in {"debit", "credit"} /\ item.amount \in Nat
SignedLines(items) == [k \in DOMAIN items |-> OnDebit(items[k])]

LEMMA DeltaIsSigned ==
  ASSUME NEW items, IsFiniteSet(DOMAIN items), \A k \in DOMAIN items : SidedLine(items[k])
  PROVE  /\ Summable(SignedLines(items), DOMAIN items)
         /\ Foreign!Kernel!Delta(items) = Sum(SignedLines(items), DOMAIN items)
<1>1. PICK D, Z, S : /\ D = {k \in DOMAIN items : items[k].side = "debit"}
                     /\ Z = {k \in DOMAIN items : items[k].side = "credit"}
                     /\ S = SignedLines(items)
  OBVIOUS
<1>2. Z = DOMAIN items \ D /\ D \in SUBSET DOMAIN items /\ IsFiniteSet(D) /\ IsFiniteSet(Z)
  <2>1. Z = DOMAIN items \ D
    BY <1>1 DEF SidedLine
  <2> QED
    BY <1>1, <2>1, FS_Subset
<1>3. Summable(S, DOMAIN items)
  BY <1>1 DEF SignedLines, OnDebit, SidedLine, Summable
<1>4. PICK d, z : d = [k \in D |-> items[k].amount] /\ z = [k \in Z |-> items[k].amount]
  OBVIOUS
<1>5. Summable(d, D) /\ Summable(z, Z)
  BY <1>1, <1>2, <1>4 DEF SidedLine, Summable
<1>6. Foreign!Kernel!Delta(items) = Sum(d, D) - Sum(z, Z)
  <2>1. Foreign!Kernel!Side(items, "debit") = Sum(d, D)
    BY <1>1, <1>4, ForeignTotal DEF Foreign!Kernel!Side
  <2>2. Foreign!Kernel!Side(items, "credit") = Sum(z, Z)
    BY <1>1, <1>4, ForeignTotal DEF Foreign!Kernel!Side
  <2> QED
    BY <2>1, <2>2 DEF Foreign!Kernel!Delta
<1>7. \A k \in D : d[k] = S[k]
  BY <1>1, <1>4 DEF SignedLines, OnDebit
<1>8. \A k \in Z : S[k] = -z[k]
  BY <1>1, <1>4 DEF SignedLines, OnDebit
<1>9. Sum(d, D) = Sum(S, D)
  BY <1>2, <1>7, SumAgrees
<1>10. Sum(S, Z) = -Sum(z, Z)
  BY <1>5, <1>8, SumNegated
<1>11. Sum(S, DOMAIN items) = Sum(S, D) + Sum(S, Z)
  BY <1>2, <1>3, SumSplit
<1>12. Sum(d, D) \in Int
  BY <1>5, SumIsInt
<1>13. Sum(z, Z) \in Int
  BY <1>5, SumIsInt
<1> QED
  BY <1>1, <1>3, <1>6, <1>9, <1>10, <1>11, <1>12, <1>13

(***************************************************************************)
(* Invoices in a foreign currency (ForeignCurrency).                       *)
(***************************************************************************)
(* What is realized on each allocation, and the allocations it is on.       *)
Gain(split, settled) ==
  [i \in DOMAIN split |-> Foreign!RealizedFx(split[i], fxInvoice.rate, settled)]
Realized(split, settled) == {i \in DOMAIN split : Gain(split, settled)[i] # 0}

LEMMA SplitIsFinite ==
  ASSUME NEW split \in Seq(Nat)
  PROVE  /\ IsFiniteSet(DOMAIN split) /\ Cardinality(DOMAIN split) = Len(split) /\ Len(split) \in Nat
         /\ Summable(split, DOMAIN split) /\ \A i \in DOMAIN split : split[i] \in Nat
         /\ Foreign!Kernel!Total(split) = Sum(split, DOMAIN split) /\ Sum(split, DOMAIN split) \in Nat
<1>1. DOMAIN split = 1..Len(split) /\ Len(split) \in Nat /\ 1 \in Int /\ Len(split) \in Int
  OBVIOUS
<1>2. IsFiniteSet(DOMAIN split) /\ Cardinality(DOMAIN split) = Len(split)
  <2>1. PICK n \in Nat : n = Len(split) /\ DOMAIN split = 1..n
    BY <1>1
  <2>2. IsFiniteSet(1..n) /\ Cardinality(1..n) = n
    BY ONLY n \in Nat, RowIsFinite
  <2> QED
    BY ONLY <2>1, <2>2
<1>3. \A i \in DOMAIN split : split[i] \in Nat
  OBVIOUS
<1>4. Sum(split, DOMAIN split) \in Nat
  BY <1>2, <1>3, SumNat
<1>5. Summable(split, DOMAIN split)
  BY <1>2, <1>3 DEF Summable
<1> QED
  BY <1>1, <1>2, <1>3, <1>4, <1>5, ForeignTotal

LEMMA ToBaseAdds ==
  ASSUME NEW x \in Nat, NEW rate \in Nat
  PROVE  /\ Foreign!ToBase(x, rate) \in Nat /\ x * rate \in Nat
         /\ -49 <= 100 * Foreign!ToBase(x, rate) - x * rate
         /\ 100 * Foreign!ToBase(x, rate) - x * rate <= 50
<1>1. x * rate \in Nat
  OBVIOUS
<1>2. PICK n \in Nat : n = x * rate
  BY <1>1
<1>3. "HALF_UP" \in Halves
  BY DEF Halves
<1> QED
  BY <1>1, <1>2, <1>3, RoundingAdds DEF Added, Foreign!ToBase

LEMMA ConvertAdds ==
  ASSUME NEW x \in Nat, NEW rate \in Nat \ {0}
  PROVE  /\ Foreign!Convert(x, rate) \in Nat /\ x * rate \in Nat
         /\ Added(mode, 100 * Foreign!Convert(x, rate) - x * rate)
         /\ x = 0 => Foreign!Convert(x, rate) = 0
         /\ mode = "HALF_UP" => Foreign!Convert(x, rate) = Foreign!ToBase(x, rate)
<1>1. x * rate \in Nat /\ (x = 0 => x * rate = 0)
  OBVIOUS
<1>2. PICK n \in Nat : n = x * rate
  BY <1>1
<1>3. Foreign!Convert(x, rate) = Foreign!Kernel!RoundedDiv(x * rate, 100, mode)
  BY DEF Foreign!Convert, Foreign!Kernel!ConvertToBase, Foreign!Kernel!Base
<1> QED
  BY <1>1, <1>2, <1>3, RoundingAdds DEF Foreign!ToBase

LEMMA GainIsRounded ==
  ASSUME NEW split \in Seq(Nat), NEW settled \in Nat, fxInvoice.rate \in Nat, NEW i \in DOMAIN split
  PROVE  /\ Gain(split, settled)[i] \in Int
         /\ Gain(split, settled)[i]
              = Foreign!ToBase(split[i], settled) - Foreign!ToBase(split[i], fxInvoice.rate)
         /\ -99 <= 100 * Gain(split, settled)[i] - split[i] * (settled - fxInvoice.rate)
         /\ 100 * Gain(split, settled)[i] - split[i] * (settled - fxInvoice.rate) <= 99
<1>1. PICK x \in Nat, b \in Nat : x = split[i] /\ b = fxInvoice.rate
  OBVIOUS
<1>2. PICK p, h : /\ p = x * settled /\ h = Foreign!ToBase(x, settled) /\ p \in Nat /\ h \in Nat
                   /\ -49 <= 100 * h - p /\ 100 * h - p <= 50
  BY ToBaseAdds, ZenonT(60)
<1>3. PICK q, g : /\ q = x * b /\ g = Foreign!ToBase(x, b) /\ q \in Nat /\ g \in Nat
                   /\ -49 <= 100 * g - q /\ 100 * g - q <= 50
  BY ToBaseAdds, ZenonT(60)
<1>4. split[i] * (settled - fxInvoice.rate) = p - q
  <2>1. x * (settled - b) = x * settled - x * b
    OBVIOUS
  <2> QED
    BY <1>1, <1>2, <1>3, <2>1
<1>5. Gain(split, settled)[i] = h - g
  BY <1>1, <1>2, <1>3 DEF Gain, Foreign!RealizedFx
<1>6. -99 <= 100 * (h - g) - (p - q) /\ 100 * (h - g) - (p - q) <= 99 /\ h - g \in Int
  <2>1. /\ p \in Int /\ h \in Int /\ q \in Int /\ g \in Int
        /\ -49 <= 100 * h - p /\ 100 * h - p <= 50 /\ -49 <= 100 * g - q /\ 100 * g - q <= 50
    BY <1>2, <1>3
  <2> QED
    BY ONLY <2>1
<1> QED
  BY <1>1, <1>2, <1>3, <1>4, <1>5, <1>6

(* The lines a receipt posts for what it realizes, and those of a later     *)
(* allocation.                                                              *)
Posts(items, k, on, amount) ==
  /\ k \in DOMAIN items /\ SidedLine(items[k])
  /\ items[k].account = on /\ OnDebit(items[k]) = amount

LEMMA LinePosts ==
  ASSUME NEW items, NEW k \in DOMAIN items, NEW on, NEW side \in {"debit", "credit"}, NEW amount \in Nat,
         items[k] = Foreign!Line(on, side, amount)
  PROVE  Posts(items, k, on, IF side = "debit" THEN amount ELSE -amount)
<1>1. items[k].account = on /\ items[k].side = side /\ items[k].amount = amount
  BY DEF Foreign!Line
<1> QED
  BY <1>1 DEF Posts, SidedLine, OnDebit

LEMMA SizePosts ==
  ASSUME NEW items, NEW k \in DOMAIN items, NEW on, NEW g \in Int
  PROVE  /\ items[k] = Foreign!Line(on, IF g > 0 THEN "debit" ELSE "credit", Foreign!Kernel!Abs(g))
             => Posts(items, k, on, g)
         /\ items[k] = Foreign!Line(on, IF g > 0 THEN "credit" ELSE "debit", Foreign!Kernel!Abs(g))
             => Posts(items, k, on, -g)
<1>1. Foreign!Kernel!Abs(g) = IF g < 0 THEN -g ELSE g
  BY DEF Foreign!Kernel!Abs
<1>2. CASE g > 0
  <2>1. g \in Nat /\ Foreign!Kernel!Abs(g) = g
    BY <1>1, <1>2
  <2>2. "debit" \in {"debit", "credit"} /\ "credit" \in {"debit", "credit"} /\ "credit" # "debit"
    OBVIOUS
  <2> QED
    BY <1>2, <2>1, <2>2, LinePosts
<1>3. CASE ~(g > 0)
  <2>1. -g \in Nat /\ Foreign!Kernel!Abs(g) = -g /\ -(-g) = g
    BY <1>1, <1>3
  <2>2. "debit" \in {"debit", "credit"} /\ "credit" \in {"debit", "credit"} /\ "credit" # "debit"
    OBVIOUS
  <2> QED
    BY <1>3, <2>1, <2>2, LinePosts
<1> QED
  BY <1>2, <1>3

LEMMA EarlyLines ==
  ASSUME NEW split \in Seq(Nat), NEW settled \in Nat, fxInvoice.rate \in Nat
  PROVE  LET f == Foreign!SettlementPostingLines(split, settled, FALSE)
             W == Realized(split, settled)
         IN /\ DOMAIN f = ({"correction"} \X W) \cup ({"realized"} \X W)
            /\ \A i \in W : /\ Posts(f, <<"correction", i>>, "control", Gain(split, settled)[i])
                            /\ Posts(f, <<"realized", i>>, "fx", -Gain(split, settled)[i])
<1>1. PICK f, W, fx : /\ f = Foreign!SettlementPostingLines(split, settled, FALSE)
                      /\ W = Realized(split, settled) /\ fx = Gain(split, settled)
  OBVIOUS
<1>2. DOMAIN f = ({"correction"} \X W) \cup ({"realized"} \X W)
  BY <1>1 DEF Foreign!SettlementPostingLines, Realized, Gain
<1>3. ASSUME NEW i \in W
      PROVE  /\ f[<<"correction", i>>] = Foreign!Line("control", IF fx[i] > 0 THEN "debit" ELSE "credit",
                                                     Foreign!Kernel!Abs(fx[i]))
             /\ f[<<"realized", i>>] = Foreign!Line("fx", IF fx[i] > 0 THEN "credit" ELSE "debit",
                                                   Foreign!Kernel!Abs(fx[i]))
  <2>1. <<"correction", i>> \in DOMAIN f /\ <<"realized", i>> \in DOMAIN f
    BY <1>2, <1>3
  <2> QED
    BY <1>1, <2>1 DEF Foreign!SettlementPostingLines, Gain
<1>4. ASSUME NEW i \in W PROVE fx[i] \in Int
  BY <1>1, GainIsRounded DEF Realized
<1>5. ASSUME NEW i \in W
      PROVE  Posts(f, <<"correction", i>>, "control", fx[i]) /\ Posts(f, <<"realized", i>>, "fx", -fx[i])
  <2>1. <<"correction", i>> \in DOMAIN f /\ <<"realized", i>> \in DOMAIN f
    BY <1>2, <1>5
  <2> QED
    BY <1>3, <1>4, <2>1, SizePosts
<1> QED
  BY <1>1, <1>2, <1>5

LEMMA LateLines ==
  ASSUME NEW split \in Seq(Nat), NEW settled \in Nat \ {0}, fxInvoice.rate \in Nat \ {0}
  PROVE  LET f == Foreign!SettlementPostingLines(split, settled, TRUE)
             W == Realized(split, settled)
         IN /\ DOMAIN f = ({"control"} \X DOMAIN split) \cup ({"advance"} \X DOMAIN split) \cup ({"realized"} \X W)
            /\ \A i \in DOMAIN split :
                 /\ Posts(f, <<"control", i>>, "control", -Foreign!Convert(split[i], fxInvoice.rate))
                 /\ Posts(f, <<"advance", i>>, "advance", Foreign!Convert(split[i], settled))
            /\ \A i \in W : Posts(f, <<"realized", i>>, "fx", -Gain(split, settled)[i])
<1>1. PICK f, W, fx : /\ f = Foreign!SettlementPostingLines(split, settled, TRUE)
                      /\ W = Realized(split, settled) /\ fx = Gain(split, settled)
  OBVIOUS
<1>2. DOMAIN f = ({"control"} \X DOMAIN split) \cup ({"advance"} \X DOMAIN split) \cup ({"realized"} \X W)
  <2>1. DOMAIN f = ({"control", "advance"} \X DOMAIN split) \cup ({"realized"} \X W)
    BY <1>1 DEF Foreign!SettlementPostingLines, Realized, Gain
  <2> QED
    BY <2>1
<1>3. ASSUME NEW i \in W
      PROVE  f[<<"realized", i>>] = Foreign!Line("fx", IF fx[i] > 0 THEN "credit" ELSE "debit",
                                                 Foreign!Kernel!Abs(fx[i]))
  <2>1. <<"realized", i>> \in DOMAIN f
    BY <1>2, <1>3
  <2> QED
    BY <1>1, <2>1 DEF Foreign!SettlementPostingLines, Gain
<1>4. ASSUME NEW i \in DOMAIN split
      PROVE  /\ f[<<"control", i>>] = Foreign!Line("control", "credit", Foreign!Convert(split[i], fxInvoice.rate))
             /\ f[<<"advance", i>>] = Foreign!Line("advance", "debit", Foreign!Convert(split[i], settled))
             /\ <<"control", i>> \in DOMAIN f /\ <<"advance", i>> \in DOMAIN f
  <2>1. <<"control", i>> \in DOMAIN f /\ <<"advance", i>> \in DOMAIN f
    BY <1>2, <1>4
  <2> QED
    BY <1>1, <2>1 DEF Foreign!SettlementPostingLines, Gain
<1>5. ASSUME NEW i \in W PROVE Posts(f, <<"realized", i>>, "fx", -fx[i])
  <2>1. fx[i] \in Int
    BY <1>1, <1>5, GainIsRounded DEF Realized
  <2>2. <<"realized", i>> \in DOMAIN f
    BY <1>2, <1>5
  <2> QED
    BY <1>3, <2>1, <2>2, SizePosts
<1>6. ASSUME NEW i \in DOMAIN split
      PROVE  /\ Posts(f, <<"control", i>>, "control", -Foreign!Convert(split[i], fxInvoice.rate))
             /\ Posts(f, <<"advance", i>>, "advance", Foreign!Convert(split[i], settled))
  <2>1. split[i] \in Nat
    BY <1>6
  <2>2. Foreign!Convert(split[i], fxInvoice.rate) \in Nat /\ Foreign!Convert(split[i], settled) \in Nat
    BY <2>1, ConvertAdds
  <2>3. "debit" \in {"debit", "credit"} /\ "credit" \in {"debit", "credit"} /\ "credit" # "debit"
    OBVIOUS
  <2> QED
    BY <1>4, <2>2, <2>3, LinePosts
<1> QED
  BY <1>1, <1>2, <1>5, <1>6

Of(items, on) == {k \in DOMAIN items : items[k].account = on}
SidedLines(items) == IsFiniteSet(DOMAIN items) /\ \A k \in DOMAIN items : SidedLine(items[k])

LEMMA EarlyDeltas ==
  ASSUME NEW split \in Seq(Nat), NEW settled \in Nat, fxInvoice.rate \in Nat
  PROVE  LET f == Foreign!SettlementPostingLines(split, settled, FALSE)
         IN /\ SidedLines(f) /\ DOMAIN f \subseteq {"correction", "realized"} \X DOMAIN split
            /\ Sum(SignedLines(f), DOMAIN f) = 0
            /\ Sum(SignedLines(f), Of(f, "control")) = Sum(Gain(split, settled), DOMAIN split)
<1>1. PICK f, W, g, S, A, B : /\ f = Foreign!SettlementPostingLines(split, settled, FALSE)
                        /\ W = Realized(split, settled) /\ g = Gain(split, settled)
                        /\ S = SignedLines(f) /\ A = {"correction"} \X W /\ B = {"realized"} \X W
  OBVIOUS
<1>2. /\ DOMAIN f = A \cup B
      /\ \A i \in W : Posts(f, <<"correction", i>>, "control", g[i]) /\ Posts(f, <<"realized", i>>, "fx", -g[i])
  BY <1>1, EarlyLines
<1>3. PICK I : I = DOMAIN split /\ IsFiniteSet(I)
  BY SplitIsFinite
<1>4. W \subseteq I /\ IsFiniteSet(W) /\ (\A i \in I : g[i] \in Int) /\ \A i \in I \ W : g[i] = 0
  <2>1. W \subseteq I /\ \A i \in I \ W : g[i] = 0
    BY <1>1, <1>3 DEF Realized
  <2>2. \A i \in I : g[i] \in Int
    BY <1>1, <1>3, GainIsRounded
  <2> QED
    BY <1>3, <2>1, <2>2, FS_Subset
<1>5. Summable(g, W) /\ Summable(g, I)
  BY <1>3, <1>4 DEF Summable
<1>6. PICK h : h = [i \in W |-> -g[i]]
  OBVIOUS
<1>7. (\A i \in W : h[i] = -g[i]) /\ Summable(h, W)
  BY <1>5, <1>6 DEF Summable
<1>8. Sum(h, W) = -Sum(g, W)
  BY <1>5, <1>7, SumNegated
<1>9. \A i \in W : S[<<"correction", i>>] = g[i] /\ S[<<"realized", i>>] = h[i]
  <2>1. \A k \in DOMAIN f : S[k] = OnDebit(f[k])
    BY <1>1 DEF SignedLines
  <2> QED
    BY <1>2, <1>7, <2>1 DEF Posts
<1>10. Tagging(S, "correction", g, W) /\ Tagging(S, "realized", h, W)
  BY <1>5, <1>7, <1>9 DEF Tagging
<1>11. Summable(S, A) /\ Sum(S, A) = Sum(g, W)
  <2>1. Tagging(S, "correction", g, W)
    BY <1>10
  <2>2. Summable(S, {"correction"} \X W) /\ Sum(S, {"correction"} \X W) = Sum(g, W)
    BY ONLY <2>1, SumTagged
  <2> QED
    BY <1>1, <2>2
<1>12. Summable(S, B) /\ Sum(S, B) = Sum(h, W)
  <2>1. Tagging(S, "realized", h, W)
    BY <1>10
  <2>2. Summable(S, {"realized"} \X W) /\ Sum(S, {"realized"} \X W) = Sum(h, W)
    BY ONLY <2>1, SumTagged
  <2> QED
    BY <1>1, <2>2
<1>13. A \cap B = {}
  BY <1>1
<1>14. Summable(S, A \cup B) /\ Sum(S, A \cup B) = Sum(S, A) + Sum(S, B)
  BY <1>11, <1>12, <1>13, SumUnion, ZenonT(60)
<1>15. Sum(g, I) = Sum(g, W)
  BY <1>3, <1>4, SumSubset
<1>16. \A k \in DOMAIN f : SidedLine(f[k]) /\ (f[k].account = "control" <=> k \in A)
  <2>1. ASSUME NEW k \in A PROVE SidedLine(f[k]) /\ f[k].account = "control"
    <3>1. PICK i \in W : k = <<"correction", i>>
      BY <1>1
    <3> QED
      BY <1>2, <3>1 DEF Posts
  <2>2. ASSUME NEW k \in B PROVE SidedLine(f[k]) /\ f[k].account = "fx"
    <3>1. PICK i \in W : k = <<"realized", i>>
      BY <1>1
    <3> QED
      BY <1>2, <3>1 DEF Posts
  <2> QED
    BY <1>2, <1>13, <2>1, <2>2
<1>17. Of(f, "control") = A
  BY <1>2, <1>16 DEF Of
<1>18. SidedLines(f) /\ DOMAIN f \subseteq {"correction", "realized"} \X DOMAIN split
  BY <1>1, <1>2, <1>3, <1>4, <1>14, <1>16 DEF SidedLines, Summable
<1>19. Sum(g, W) \in Int
  BY <1>5, SumIsInt
<1>20. Sum(S, DOMAIN f) = 0
  BY <1>2, <1>8, <1>11, <1>12, <1>14, <1>19
<1>21. Sum(S, Of(f, "control")) = Sum(g, I)
  BY <1>11, <1>15, <1>17
<1> QED
  BY <1>1, <1>3, <1>18, <1>20, <1>21

LEMMA LateDeltas ==
  ASSUME NEW split \in Seq(Nat), NEW settled \in Nat \ {0}, fxInvoice.rate \in Nat \ {0}
  PROVE  LET f == Foreign!SettlementPostingLines(split, settled, TRUE)
             d == [i \in DOMAIN split |-> Foreign!Convert(split[i], settled)
                      - Foreign!Convert(split[i], fxInvoice.rate) - Gain(split, settled)[i]]
             c == [i \in DOMAIN split |-> Foreign!Convert(split[i], fxInvoice.rate)]
         IN /\ SidedLines(f)
            /\ Sum(SignedLines(f), DOMAIN f) = Sum(d, DOMAIN split)
            /\ Sum(SignedLines(f), Of(f, "control")) = -Sum(c, DOMAIN split)
<1>1. PICK f, W, g, S, A, B, C :
        /\ f = Foreign!SettlementPostingLines(split, settled, TRUE)
        /\ W = Realized(split, settled) /\ g = Gain(split, settled)
        /\ S = SignedLines(f)
        /\ A = {"control"} \X DOMAIN split /\ B = {"advance"} \X DOMAIN split /\ C = {"realized"} \X W
  OBVIOUS
<1>3. PICK I : I = DOMAIN split /\ IsFiniteSet(I)
  BY SplitIsFinite
<1>2. /\ DOMAIN f = A \cup B \cup C
      /\ \A i \in I : /\ Posts(f, <<"control", i>>, "control", -Foreign!Convert(split[i], fxInvoice.rate))
                      /\ Posts(f, <<"advance", i>>, "advance", Foreign!Convert(split[i], settled))
      /\ \A i \in W : Posts(f, <<"realized", i>>, "fx", -g[i])
  BY <1>1, <1>3, LateLines
<1>4. W \subseteq I /\ IsFiniteSet(W) /\ (\A i \in I : g[i] \in Int) /\ \A i \in I \ W : g[i] = 0
  <2>1. W \subseteq I /\ \A i \in I \ W : g[i] = 0
    BY <1>1, <1>3 DEF Realized
  <2>2. \A i \in I : g[i] \in Int
    BY <1>1, <1>3, GainIsRounded
  <2> QED
    BY <1>3, <2>1, <2>2, FS_Subset
<1>5. PICK c, a, h : /\ c = [i \in I |-> Foreign!Convert(split[i], fxInvoice.rate)]
                        /\ a = [i \in I |-> Foreign!Convert(split[i], settled)]
                        /\ h = [i \in I |-> -g[i]]
  OBVIOUS
<1>6. \A i \in I : a[i] \in Nat /\ c[i] \in Nat /\ h[i] \in Int /\ h[i] = -g[i]
  <2>1. ASSUME NEW i \in I PROVE a[i] \in Nat /\ c[i] \in Nat /\ h[i] \in Int /\ h[i] = -g[i]
    <3>1. split[i] \in Nat
      BY <1>3
    <3>2. Foreign!Convert(split[i], fxInvoice.rate) \in Nat /\ Foreign!Convert(split[i], settled) \in Nat
      BY <3>1, ConvertAdds
    <3> QED
      BY <1>4, <1>5, <3>2
  <2> QED
    BY <2>1
<1>7. PICK n, d : n = [i \in I |-> -c[i]] /\ d = [i \in I |-> a[i] - c[i] - g[i]]
  OBVIOUS
<1>8. (\A i \in I : n[i] = -c[i] /\ n[i] \in Int /\ d[i] = (n[i] + a[i]) + h[i])
  BY <1>4, <1>6, <1>7
<1>9. Summable(n, I) /\ Summable(a, I) /\ Summable(h, W) /\ Summable(h, I) /\ Summable(c, I)
  BY <1>3, <1>4, <1>6, <1>8 DEF Summable
<1>10. /\ \A i \in I : S[<<"control", i>>] = n[i] /\ S[<<"advance", i>>] = a[i]
       /\ \A i \in W : S[<<"realized", i>>] = h[i]
  <2>1. \A k \in DOMAIN f : S[k] = OnDebit(f[k])
    BY <1>1 DEF SignedLines
  <2>2. W \subseteq I
    BY <1>4
  <2> QED
    BY <1>2, <1>5, <1>7, <2>1, <2>2 DEF Posts
<1>11. Tagging(S, "control", n, I) /\ Tagging(S, "advance", a, I) /\ Tagging(S, "realized", h, W)
  BY <1>9, <1>10 DEF Tagging
<1>12. Summable(S, A) /\ Sum(S, A) = Sum(n, I)
  <2>1. Tagging(S, "control", n, I)
    BY <1>11
  <2>2. Summable(S, {"control"} \X I) /\ Sum(S, {"control"} \X I) = Sum(n, I)
    BY ONLY <2>1, SumTagged
  <2> QED
    BY <1>1, <1>3, <2>2
<1>13. Summable(S, B) /\ Sum(S, B) = Sum(a, I)
  <2>1. Tagging(S, "advance", a, I)
    BY <1>11
  <2>2. Summable(S, {"advance"} \X I) /\ Sum(S, {"advance"} \X I) = Sum(a, I)
    BY ONLY <2>1, SumTagged
  <2> QED
    BY <1>1, <1>3, <2>2
<1>14. Summable(S, C) /\ Sum(S, C) = Sum(h, W)
  <2>1. Tagging(S, "realized", h, W)
    BY <1>11
  <2>2. Summable(S, {"realized"} \X W) /\ Sum(S, {"realized"} \X W) = Sum(h, W)
    BY ONLY <2>1, SumTagged
  <2> QED
    BY <1>1, <2>2
<1>15. A \cap B = {} /\ (A \cup B) \cap C = {}
  BY <1>1
<1>16. Summable(S, A \cup B) /\ Sum(S, A \cup B) = Sum(S, A) + Sum(S, B)
  BY <1>12, <1>13, <1>15, SumUnion
<1>17. Summable(S, A \cup B \cup C) /\ Sum(S, A \cup B \cup C) = Sum(S, A \cup B) + Sum(S, C)
  <2>1. PICK T : T = A \cup B
    OBVIOUS
  <2>2. Summable(S, T \cup C) /\ Sum(S, T \cup C) = Sum(S, T) + Sum(S, C)
    BY <1>14, <1>15, <1>16, <2>1, SumUnion
  <2> QED
    BY <2>1, <2>2
<1>18. Sum(h, I) = Sum(h, W)
  <2>1. \A i \in I \ W : h[i] = 0
    BY <1>4, <1>6
  <2> QED
    BY <1>3, <1>4, <1>6, <2>1, SumSubset
<1>19. Sum(d, I) = (Sum(n, I) + Sum(a, I)) + Sum(h, I)
  <2>1. PICK t : t = [i \in I |-> n[i] + a[i]]
    OBVIOUS
  <2>2. \A i \in I : n[i] \in Int /\ a[i] \in Int /\ t[i] = n[i] + a[i]
    BY <1>6, <1>8, <2>1
  <2>3. Sum(t, I) = Sum(n, I) + Sum(a, I)
    BY <1>3, <2>2, SumPlus
  <2>4. \A i \in I : t[i] \in Int /\ h[i] \in Int /\ d[i] = t[i] + h[i]
    BY <1>6, <1>8, <2>2
  <2>5. Sum(d, I) = Sum(t, I) + Sum(h, I)
    BY <1>3, <2>4, SumPlus
  <2> QED
    BY <2>3, <2>5
<1>20. Sum(n, I) = -Sum(c, I)
  BY <1>8, <1>9, SumNegated
<1>21. \A k \in DOMAIN f : SidedLine(f[k]) /\ (f[k].account = "control" <=> k \in A)
  <2>1. ASSUME NEW k \in A PROVE SidedLine(f[k]) /\ f[k].account = "control"
    <3>1. PICK i \in I : k = <<"control", i>>
      BY <1>1, <1>3
    <3> QED
      BY <1>2, <3>1 DEF Posts
  <2>2. ASSUME NEW k \in B PROVE SidedLine(f[k]) /\ f[k].account = "advance"
    <3>1. PICK i \in I : k = <<"advance", i>>
      BY <1>1, <1>3
    <3> QED
      BY <1>2, <3>1 DEF Posts
  <2>3. ASSUME NEW k \in C PROVE SidedLine(f[k]) /\ f[k].account = "fx"
    <3>1. PICK i \in W : k = <<"realized", i>>
      BY <1>1
    <3> QED
      BY <1>2, <3>1 DEF Posts
  <2> QED
    BY <1>2, <1>15, <2>1, <2>2, <2>3
<1>22. Of(f, "control") = A
  BY <1>2, <1>21 DEF Of
<1>23. SidedLines(f)
  BY <1>2, <1>17, <1>21 DEF SidedLines, Summable
<1>24. /\ d = [i \in DOMAIN split |-> Foreign!Convert(split[i], settled)
                      - Foreign!Convert(split[i], fxInvoice.rate) - Gain(split, settled)[i]]
       /\ c = [i \in DOMAIN split |-> Foreign!Convert(split[i], fxInvoice.rate)]
  BY <1>1, <1>3, <1>5, <1>7
<1>25. Sum(S, DOMAIN f) = Sum(d, I) /\ Sum(S, Of(f, "control")) = -Sum(c, I)
  BY <1>2, <1>12, <1>13, <1>14, <1>16, <1>17, <1>18, <1>19, <1>20, <1>22
<1> QED
  BY <1>1, <1>3, <1>23, <1>24, <1>25

ReceiptKeys == {<<"deposit", 0>>, <<"relief", 0>>, <<"rest", 0>>}

LEMMA OwnLines ==
  ASSUME NEW r \in DOMAIN AmountOf, NEW n \in Nat, n <= AmountOf[r], NEW rate \in Nat \ {0}
  PROVE  LET own == Foreign!ReceiptLines(r, n, rate)
             deposit == Foreign!Convert(AmountOf[r], rate)
             relief == Foreign!Convert(n, rate)
             rest == Foreign!Convert(AmountOf[r] - n, rate)
             S == SignedLines(own)
         IN /\ SidedLines(own) /\ DOMAIN own \subseteq ReceiptKeys
            /\ deposit \in Nat /\ relief \in Nat /\ rest \in Nat
            /\ DOMAIN own = {} => deposit = 0 /\ relief = 0 /\ rest = 0
            /\ Sum(S, DOMAIN own) = deposit - relief - rest
            /\ Sum(S, Of(own, "control")) = -relief
<1>1. PICK own, deposit, relief, rest, S :
        /\ own = Foreign!ReceiptLines(r, n, rate) /\ deposit = Foreign!Convert(AmountOf[r], rate)
        /\ relief = Foreign!Convert(n, rate) /\ rest = Foreign!Convert(AmountOf[r] - n, rate)
        /\ S = SignedLines(own)
  OBVIOUS
<1>2. AmountOf[r] \in Nat /\ AmountOf[r] - n \in Nat
  <2>1. AmountOf[r] \in Nat
    BY FiguresAssumption DEF Foreign!AmountsAssumption
  <2> QED
    BY <2>1
<1>3. /\ deposit \in Nat /\ (AmountOf[r] = 0 => deposit = 0)
      /\ relief \in Nat /\ (n = 0 => relief = 0)
      /\ rest \in Nat /\ (AmountOf[r] - n = 0 => rest = 0)
  BY <1>1, <1>2, ConvertAdds
<1>4. PICK d, l, t : d = <<"deposit", 0>> /\ l = <<"relief", 0>> /\ t = <<"rest", 0>>
  OBVIOUS
<1>5. d # l /\ d # t /\ l # t /\ ReceiptKeys = {d, l, t}
  BY <1>4 DEF ReceiptKeys
<1>6. /\ DOMAIN own \subseteq ReceiptKeys
      /\ d \in DOMAIN own <=> AmountOf[r] # 0
      /\ l \in DOMAIN own <=> n # 0
      /\ t \in DOMAIN own <=> AmountOf[r] - n # 0
  BY <1>1, <1>4 DEF Foreign!ReceiptLines, ReceiptKeys
<1>7. /\ d \in DOMAIN own => own[d] = Foreign!Line("bank", "debit", deposit)
      /\ l \in DOMAIN own => own[l] = Foreign!Line("control", "credit", relief)
      /\ t \in DOMAIN own => own[t] = Foreign!Line("advance", "credit", rest)
  BY <1>1, <1>4 DEF Foreign!ReceiptLines
<1>8. /\ d \in DOMAIN own => Posts(own, d, "bank", deposit)
      /\ l \in DOMAIN own => Posts(own, l, "control", -relief)
      /\ t \in DOMAIN own => Posts(own, t, "advance", -rest)
  <2>1. "debit" \in {"debit", "credit"} /\ "credit" \in {"debit", "credit"} /\ "credit" # "debit"
    OBVIOUS
  <2> QED
    BY <1>3, <1>7, <2>1, LinePosts
<1>9. IsFiniteSet(ReceiptKeys) /\ IsFiniteSet(DOMAIN own)
  <2>1. IsFiniteSet({d, l, t})
    <3>1. IsFiniteSet({d}) /\ IsFiniteSet({l}) /\ IsFiniteSet({t}) /\ {d, l, t} = ({d} \cup {l}) \cup {t}
      BY FS_Singleton
    <3>2. PICK X : X = {d} \cup {l}
      OBVIOUS
    <3>3. IsFiniteSet(X)
      BY <3>1, <3>2, FS_Union
    <3>4. IsFiniteSet(X \cup {t})
      BY <3>1, <3>3, FS_Union
    <3>5. {d, l, t} = X \cup {t}
      BY <3>2
    <3> QED
      BY ONLY <3>4, <3>5
  <2> QED
    BY <1>5, <1>6, <2>1, FS_Subset
<1>10. \A k \in DOMAIN own : SidedLine(own[k]) /\ (own[k].account = "control" <=> k = l)
  <2>1. \A k \in DOMAIN own : k = d \/ k = l \/ k = t
    BY <1>5, <1>6
  <2> QED
    BY <1>5, <1>8, <2>1 DEF Posts
<1>11. PICK o : o = [k \in ReceiptKeys |-> IF k \in DOMAIN own THEN S[k] ELSE 0]
  OBVIOUS
<1>12. \A k \in DOMAIN own : S[k] = OnDebit(own[k]) /\ o[k] = S[k]
  BY <1>1, <1>6, <1>11 DEF SignedLines
<1>13. o[d] = deposit /\ o[l] = -relief /\ o[t] = -rest
  <2>1. o[d] = deposit
    BY <1>3, <1>5, <1>6, <1>8, <1>11, <1>12 DEF Posts
  <2>2. o[l] = -relief
    BY <1>3, <1>5, <1>6, <1>8, <1>11, <1>12 DEF Posts
  <2>3. o[t] = -rest
    BY <1>3, <1>5, <1>6, <1>8, <1>11, <1>12 DEF Posts
  <2> QED
    BY <2>1, <2>2, <2>3
<1>14. o[d] \in Int /\ o[l] \in Int /\ o[t] \in Int
  BY <1>3, <1>13
<1>15. Sum(o, {d, l, t}) = o[d] + o[l] + o[t]
  <2>1. ThreeTerms(o, d, l, t)
    BY <1>5, <1>14 DEF ThreeTerms
  <2> QED
    BY ONLY <2>1, SumOfThree
<1>16. Sum(o, ReceiptKeys) = Sum(o, DOMAIN own)
  <2>1. (\A k \in ReceiptKeys : o[k] \in Int) /\ \A k \in ReceiptKeys \ DOMAIN own : o[k] = 0
    BY <1>5, <1>11, <1>14
  <2> QED
    BY <1>6, <1>9, <2>1, SumSubset
<1>17. Sum(o, DOMAIN own) = Sum(S, DOMAIN own)
  BY <1>9, <1>12, SumAgrees
<1>18. Sum(S, DOMAIN own) = deposit - relief - rest
  BY <1>3, <1>5, <1>13, <1>15, <1>16, <1>17
<1>19. Sum(S, Of(own, "control")) = -relief
  <2>1. CASE l \in DOMAIN own
    <3>1. Of(own, "control") = {l}
      BY <1>10, <2>1 DEF Of
    <3>2. S[l] = -relief /\ S[l] \in Int
      BY <1>3, <1>8, <1>12, <2>1 DEF Posts
    <3> QED
      BY <3>1, <3>2, SumOfOne
  <2>2. CASE l \notin DOMAIN own
    <3>1. Of(own, "control") = {}
      BY <1>10, <2>2 DEF Of
    <3>2. relief = 0
      BY <1>3, <1>6, <2>2
    <3> QED
      BY <3>1, <3>2, SumOfNone
  <2> QED
    BY <2>1, <2>2
<1>20. DOMAIN own = {} => deposit = 0 /\ relief = 0 /\ rest = 0
  BY <1>3, <1>6
<1> QED
  BY <1>1, <1>3, <1>6, <1>9, <1>10, <1>18, <1>19, <1>20 DEF SidedLines

(* What the roundings of a receipt, of what it relieves and of the rest     *)
(* differ by.                                                               *)
LEMMA ReceiptRounding ==
  ASSUME NEW a \in Nat, NEW n \in Nat, n <= a, NEW rate \in Nat \ {0}
  PROVE  LET d == Foreign!Convert(a, rate) - Foreign!Convert(n, rate) - Foreign!Convert(a - n, rate)
         IN d \in Int /\ -1 <= d /\ d <= 1
<1>1. PICK x, p : x = Foreign!Convert(a, rate) /\ p = a * rate /\ x \in Nat /\ p \in Nat /\ Added(mode, 100 * x - p)
  BY ConvertAdds
<1>2. PICK y, q : y = Foreign!Convert(n, rate) /\ q = n * rate /\ y \in Nat /\ q \in Nat /\ Added(mode, 100 * y - q)
  BY ConvertAdds
<1>3. a - n \in Nat
  OBVIOUS
<1>4. PICK z, s : z = Foreign!Convert(a - n, rate) /\ s = (a - n) * rate /\ z \in Nat /\ s \in Nat /\ Added(mode, 100 * z - s)
  BY <1>3, ConvertAdds
<1>5. s = p - q
  <2>1. (a - n) * rate = a * rate - n * rate
    OBVIOUS
  <2> QED
    BY <1>1, <1>2, <1>4, <2>1
<1>6. x \in Int /\ y \in Int /\ z \in Int /\ p \in Int /\ q \in Int /\ s \in Int
  BY <1>1, <1>2, <1>4
<1>7. Added(mode, 100 * x - p) /\ Added(mode, 100 * y - q) /\ Added(mode, 100 * z - s)
  BY <1>1, <1>2, <1>4
<1>8. -1 <= x - y - z /\ x - y - z <= 1
  BY ONLY <1>5, <1>6, <1>7 DEF Added
<1> QED
  BY <1>1, <1>2, <1>4, <1>6, <1>8

LEMMA OnDelta ==
  ASSUME NEW items, SidedLines(items), NEW on
  PROVE  Foreign!Kernel!Delta(Foreign!On(items, on)) = Sum(SignedLines(items), Of(items, on))
<1>1. PICK f, D : f = Foreign!On(items, on) /\ D = Of(items, on)
  OBVIOUS
<1>2. DOMAIN f = D /\ (\A k \in D : f[k] = items[k]) /\ D \subseteq DOMAIN items
  BY <1>1 DEF Foreign!On, Of
<1>3. IsFiniteSet(D) /\ \A k \in D : SidedLine(f[k])
  BY <1>2, FS_Subset DEF SidedLines
<1>4. Foreign!Kernel!Delta(f) = Sum(SignedLines(f), D)
  BY <1>2, <1>3, DeltaIsSigned
<1>5. \A k \in D : SignedLines(f)[k] = SignedLines(items)[k]
  BY <1>2 DEF SignedLines
<1>6. Sum(SignedLines(f), D) = Sum(SignedLines(items), D)
  BY <1>3, <1>5, SumAgrees
<1> QED
  BY <1>1, <1>4, <1>6

(* The receipt's own lines and those for what it realizes, in one entry.    *)
Together(f, g) == [k \in DOMAIN f \cup DOMAIN g |-> IF k \in DOMAIN f THEN f[k] ELSE g[k]]

LEMMA JoinedDelta ==
  ASSUME NEW f, NEW g, SidedLines(f), SidedLines(g), DOMAIN f \cap DOMAIN g = {}, NEW on
  PROVE  LET items == Together(f, g)
         IN /\ SidedLines(items)
            /\ Sum(SignedLines(items), DOMAIN items) = Sum(SignedLines(f), DOMAIN f) + Sum(SignedLines(g), DOMAIN g)
            /\ Sum(SignedLines(items), Of(items, on)) = Sum(SignedLines(f), Of(f, on)) + Sum(SignedLines(g), Of(g, on))
<1>1. PICK items, S, A, B, a, b :
        /\ items = Together(f, g) /\ S = SignedLines(items) /\ A = DOMAIN f /\ B = DOMAIN g
        /\ a = Of(f, on) /\ b = Of(g, on)
  OBVIOUS
<1>2. /\ DOMAIN items = A \cup B /\ (\A k \in A : items[k] = f[k]) /\ (\A k \in B : items[k] = g[k])
      /\ A \cap B = {}
  BY <1>1 DEF Together
<1>3. IsFiniteSet(A) /\ IsFiniteSet(B) /\ IsFiniteSet(A \cup B)
  BY <1>1, FS_Union DEF SidedLines
<1>4. SidedLines(items)
  BY <1>1, <1>2, <1>3 DEF SidedLines
<1>5. (\A k \in A : S[k] = SignedLines(f)[k]) /\ \A k \in B : S[k] = SignedLines(g)[k]
  BY <1>1, <1>2 DEF SignedLines
<1>6. Of(items, on) = a \cup b /\ a \subseteq A /\ b \subseteq B
  BY <1>1, <1>2 DEF Of
<1>7. Summable(S, A \cup B)
  BY <1>1, <1>2, <1>3, <1>4, DeltaIsSigned DEF SidedLines
<1>8. ASSUME NEW X \in SUBSET A, NEW Y \in SUBSET B
      PROVE  Sum(S, X \cup Y) = Sum(SignedLines(f), X) + Sum(SignedLines(g), Y)
  <2>1. Summable(S, X) /\ Summable(S, Y) /\ X \cap Y = {}
    BY <1>2, <1>3, <1>7, FS_Subset DEF Summable
  <2>2. Sum(S, X \cup Y) = Sum(S, X) + Sum(S, Y)
    BY <2>1, SumUnion
  <2>3. IsFiniteSet(X) /\ \A k \in X : S[k] = SignedLines(f)[k]
    BY <1>5, <2>1 DEF Summable
  <2>4. IsFiniteSet(Y) /\ \A k \in Y : S[k] = SignedLines(g)[k]
    BY <1>5, <2>1 DEF Summable
  <2>5. Sum(S, X) = Sum(SignedLines(f), X)
    BY <2>3, SumAgrees
  <2>6. Sum(S, Y) = Sum(SignedLines(g), Y)
    BY <2>4, SumAgrees
  <2> QED
    BY <2>2, <2>5, <2>6
<1>9. Sum(S, A \cup B) = Sum(SignedLines(f), A) + Sum(SignedLines(g), B)
  BY <1>8
<1>10. Sum(S, a \cup b) = Sum(SignedLines(f), a) + Sum(SignedLines(g), b)
  BY <1>6, <1>8
<1> QED
  BY <1>1, <1>2, <1>4, <1>6, <1>9, <1>10

LEMMA ForeignCardinality == ASSUME NEW S PROVE Foreign!Cardinality(S) = Cardinality(S)
  BY Zenon DEF Foreign!Cardinality, Cardinality, Foreign!IsFiniteSet, IsFiniteSet

LEMMA EarlySettles ==
  ASSUME NEW r \in DOMAIN AmountOf, NEW split \in Seq(Nat), NEW rate \in Nat \ {0}, fxInvoice.rate \in Nat,
         Foreign!Kernel!Total(split) <= AmountOf[r]
  PROVE  LET n == Foreign!Kernel!Total(split)
             own == Foreign!ReceiptLines(r, n, rate)
             items == Together(own, Foreign!SettlementPostingLines(split, rate, FALSE))
             d == Foreign!Kernel!Delta(items)
         IN /\ d \in Int /\ Foreign!Cardinality(DOMAIN own) \in Nat
            /\ d <= Foreign!Cardinality(DOMAIN own) /\ -d <= Foreign!Cardinality(DOMAIN own)
            /\ Foreign!Kernel!Delta(Foreign!On(items, "control"))
                 = Sum(Gain(split, rate), DOMAIN split) - Foreign!Convert(n, rate)
<1>1. PICK n, own, fx, items :
        /\ n = Foreign!Kernel!Total(split) /\ own = Foreign!ReceiptLines(r, n, rate)
        /\ fx = Foreign!SettlementPostingLines(split, rate, FALSE) /\ items = Together(own, fx)
  OBVIOUS
<1>2. n \in Nat /\ n <= AmountOf[r] /\ AmountOf[r] \in Nat
  BY <1>1, SplitIsFinite, FiguresAssumption DEF Foreign!AmountsAssumption
<1>3. PICK deposit, relief, rest :
        deposit = Foreign!Convert(AmountOf[r], rate) /\ relief = Foreign!Convert(n, rate)
        /\ rest = Foreign!Convert(AmountOf[r] - n, rate)
  OBVIOUS
<1>4. /\ SidedLines(own) /\ DOMAIN own \subseteq ReceiptKeys
      /\ deposit \in Nat /\ relief \in Nat /\ rest \in Nat
      /\ DOMAIN own = {} => deposit = 0 /\ relief = 0 /\ rest = 0
      /\ Sum(SignedLines(own), DOMAIN own) = deposit - relief - rest
      /\ Sum(SignedLines(own), Of(own, "control")) = -relief
  <2>1. LET ours == Foreign!ReceiptLines(r, n, rate)
            in == Foreign!Convert(AmountOf[r], rate)
            off == Foreign!Convert(n, rate)
            left == Foreign!Convert(AmountOf[r] - n, rate)
            S == SignedLines(ours)
        IN /\ SidedLines(ours) /\ DOMAIN ours \subseteq ReceiptKeys
           /\ in \in Nat /\ off \in Nat /\ left \in Nat
           /\ DOMAIN ours = {} => in = 0 /\ off = 0 /\ left = 0
           /\ Sum(S, DOMAIN ours) = in - off - left
           /\ Sum(S, Of(ours, "control")) = -off
    BY <1>2, OwnLines, Zenon
  <2> QED
    BY ONLY <1>1, <1>3, <2>1
<1>5. /\ SidedLines(fx) /\ DOMAIN fx \subseteq {"correction", "realized"} \X DOMAIN split
      /\ Sum(SignedLines(fx), DOMAIN fx) = 0
      /\ Sum(SignedLines(fx), Of(fx, "control")) = Sum(Gain(split, rate), DOMAIN split)
  BY <1>1, EarlyDeltas
<1>6. DOMAIN own \cap DOMAIN fx = {}
  BY <1>4, <1>5 DEF ReceiptKeys
<1>7. /\ SidedLines(items)
      /\ Sum(SignedLines(items), DOMAIN items)
           = Sum(SignedLines(own), DOMAIN own) + Sum(SignedLines(fx), DOMAIN fx)
      /\ Sum(SignedLines(items), Of(items, "control"))
           = Sum(SignedLines(own), Of(own, "control")) + Sum(SignedLines(fx), Of(fx, "control"))
  <2>1. SidedLines(own) /\ SidedLines(fx)
    BY <1>4, <1>5
  <2>2. items = Together(own, fx)
    BY <1>1
  <2> QED
    BY ONLY <2>1, <2>2, <1>6, JoinedDelta
<1>8. Foreign!Kernel!Delta(items) = deposit - relief - rest
  <2>1. Foreign!Kernel!Delta(items) = Sum(SignedLines(items), DOMAIN items)
    BY <1>7, DeltaIsSigned DEF SidedLines
  <2> QED
    BY <1>4, <1>5, <1>7, <2>1
<1>9. PICK d : d = deposit - relief - rest /\ d \in Int /\ -1 <= d /\ d <= 1
  BY <1>2, <1>3, ReceiptRounding
<1>10. Cardinality(DOMAIN own) \in Nat /\ (d # 0 => Cardinality(DOMAIN own) # 0)
  <2>1. IsFiniteSet(DOMAIN own)
    BY <1>4 DEF SidedLines
  <2>2. Cardinality(DOMAIN own) = 0 <=> DOMAIN own = {}
    BY <2>1, FS_EmptySet
  <2>3. Cardinality(DOMAIN own) \in Nat
    BY <2>1, FS_CardinalityType
  <2> QED
    BY <1>4, <1>9, <2>2, <2>3
<1>11. d <= Cardinality(DOMAIN own) /\ -d <= Cardinality(DOMAIN own)
  BY <1>9, <1>10
<1>12. Summable(Gain(split, rate), DOMAIN split)
  <2>1. \A i \in DOMAIN split : Gain(split, rate)[i] \in Int
    BY GainIsRounded
  <2> QED
    BY <2>1, SplitIsFinite DEF Summable
<1>13. Sum(Gain(split, rate), DOMAIN split) \in Int
  BY <1>12, SumIsInt
<1>14. Foreign!Kernel!Delta(Foreign!On(items, "control")) = Sum(Gain(split, rate), DOMAIN split) - relief
  <2>1. Foreign!Kernel!Delta(Foreign!On(items, "control")) = Sum(SignedLines(items), Of(items, "control"))
    BY <1>7, OnDelta
  <2> QED
    BY <1>4, <1>5, <1>7, <1>13, <2>1
<1> QED
  BY <1>1, <1>3, <1>8, <1>9, <1>10, <1>11, <1>14, ForeignCardinality

LEMMA ConvertNear ==
  ASSUME NEW x \in Nat, NEW rate \in Nat \ {0}
  PROVE  LET v == Foreign!Convert(x, rate)
             h == Foreign!ToBase(x, rate)
         IN /\ v \in Nat /\ h \in Nat /\ v - h <= 1 /\ h - v <= 1
            /\ mode = "HALF_UP" => v = h
            /\ mode \in Up => v >= h
            /\ mode \notin Up => v <= h
<1>1. PICK v, p : v = Foreign!Convert(x, rate) /\ p = x * rate /\ v \in Int /\ p \in Int /\ Added(mode, 100 * v - p)
  BY ConvertAdds
<1>2. PICK h : h = Foreign!ToBase(x, rate) /\ h \in Int /\ -49 <= 100 * h - p /\ 100 * h - p <= 50
  BY <1>1, ToBaseAdds
<1>3. /\ v \in Int /\ p \in Int /\ h \in Int /\ Added(mode, 100 * v - p)
      /\ -49 <= 100 * h - p /\ 100 * h - p <= 50
  BY <1>1, <1>2
<1>4. Up \cap Halves = {}
  BY DEF Up, Halves
<1>5. /\ v - h <= 1 /\ h - v <= 1
      /\ mode \in Up => v >= h
      /\ mode \notin Up => v <= h
  BY ONLY <1>3, <1>4 DEF Added
<1> QED
  BY <1>1, <1>2, <1>5, ConvertAdds, ToBaseAdds

LEMMA LateSettles ==
  ASSUME NEW split \in Seq(Nat), NEW rate \in Nat \ {0}, fxInvoice.rate \in Nat \ {0}
  PROVE  LET items == Foreign!SettlementPostingLines(split, rate, TRUE)
             d == Foreign!Kernel!Delta(items)
             c == [i \in DOMAIN split |-> Foreign!Convert(split[i], fxInvoice.rate)]
         IN /\ d \in Int /\ d <= 2 * Len(split) /\ -d <= 2 * Len(split)
            /\ mode = "HALF_UP" => d = 0
            /\ Foreign!Kernel!Delta(Foreign!On(items, "control")) = -Sum(c, DOMAIN split)
<1>1. PICK items, I, d, c :
        /\ items = Foreign!SettlementPostingLines(split, rate, TRUE) /\ I = DOMAIN split
        /\ d = [i \in DOMAIN split |-> Foreign!Convert(split[i], rate)
                   - Foreign!Convert(split[i], fxInvoice.rate) - Gain(split, rate)[i]]
        /\ c = [i \in DOMAIN split |-> Foreign!Convert(split[i], fxInvoice.rate)]
  OBVIOUS
<1>2. /\ SidedLines(items) /\ Sum(SignedLines(items), DOMAIN items) = Sum(d, I)
      /\ Sum(SignedLines(items), Of(items, "control")) = -Sum(c, I)
  BY <1>1, LateDeltas
<1>3. Foreign!Kernel!Delta(items) = Sum(d, I)
  BY <1>2, DeltaIsSigned DEF SidedLines
<1>4. Foreign!Kernel!Delta(Foreign!On(items, "control")) = -Sum(c, I)
  BY <1>2, OnDelta
<1>5. ASSUME NEW i \in I PROVE d[i] \in Int /\ -2 <= d[i] /\ d[i] <= 2 /\ (mode = "HALF_UP" => d[i] = 0)
  <2>1. split[i] \in Nat /\ fxInvoice.rate \in Nat /\ i \in DOMAIN split
    BY <1>1, <1>5
  <2>2. PICK x, h : /\ x = Foreign!Convert(split[i], rate) /\ h = Foreign!ToBase(split[i], rate)
                    /\ x \in Nat /\ h \in Nat /\ x - h <= 1 /\ h - x <= 1 /\ (mode = "HALF_UP" => x = h)
    BY <2>1, ConvertNear
  <2>3. PICK y, g : /\ y = Foreign!Convert(split[i], fxInvoice.rate)
                    /\ g = Foreign!ToBase(split[i], fxInvoice.rate)
                    /\ y \in Nat /\ g \in Nat /\ y - g <= 1 /\ g - y <= 1 /\ (mode = "HALF_UP" => y = g)
    BY <2>1, ConvertNear
  <2>4. Gain(split, rate)[i] = h - g
    BY <2>1, <2>2, <2>3, GainIsRounded, SMTT(60)
  <2>5. d[i] = (x - y) - (h - g)
    BY <1>1, <2>2, <2>3, <2>4
  <2>6. /\ x \in Int /\ h \in Int /\ y \in Int /\ g \in Int
        /\ x - h <= 1 /\ h - x <= 1 /\ y - g <= 1 /\ g - y <= 1
    BY <2>2, <2>3
  <2>7. PICK e : e = (x - y) - (h - g)
    OBVIOUS
  <2>8. e \in Int /\ -2 <= e /\ e <= 2
    BY ONLY <2>6, <2>7
  <2>9. mode = "HALF_UP" => e = 0
    BY <2>2, <2>3, <2>6, <2>7
  <2> QED
    BY <2>5, <2>7, <2>8, <2>9
<1>6. IsFiniteSet(I) /\ Cardinality(I) = Len(split) /\ Len(split) \in Nat
  BY <1>1, SplitIsFinite
<1>7. Summable(d, I)
  BY <1>5, <1>6 DEF Summable
<1>8. \A i \in I : -2 <= d[i] /\ d[i] <= 2
  BY <1>5
<1>9. -2 \in Int /\ 2 \in Int
  OBVIOUS
<1>10. Sum(d, I) \in Int /\ Cardinality(I) * (-2) <= Sum(d, I) /\ Sum(d, I) <= Cardinality(I) * 2
  BY <1>7, <1>8, <1>9, SumBetween
<1>11. mode = "HALF_UP" => Sum(d, I) = 0
  <2>1. SUFFICES ASSUME mode = "HALF_UP" PROVE Sum(d, I) = 0
    OBVIOUS
  <2>2. \A i \in I : d[i] = 0
    BY <1>5, <2>1
  <2>3. Sum(d, I) = Cardinality(I) * 0
    BY <1>6, <2>2, SumConstant
  <2> QED
    BY <1>6, <2>3
<1>12. Sum(d, I) <= 2 * Len(split) /\ -Sum(d, I) <= 2 * Len(split)
  BY <1>6, <1>10
<1> QED
  BY <1>1, <1>3, <1>4, <1>10, <1>11, <1>12

(* What rounding so many amounts, each times the rate, adds to them all.    *)
Rounds(v, split, rate, lo, hi) ==
  \A i \in DOMAIN split : /\ v[i] \in Int
                          /\ lo <= 100 * v[i] - split[i] * rate /\ 100 * v[i] - split[i] * rate <= hi

LEMMA SumRounds ==
  ASSUME NEW split \in Seq(Nat), NEW rate \in Int, NEW lo \in Int, NEW hi \in Int, NEW v,
         Rounds(v, split, rate, lo, hi)
  PROVE  LET V == Sum(v, DOMAIN split)
             N == Sum(split, DOMAIN split)
         IN /\ V \in Int /\ N * rate \in Int
            /\ Len(split) * lo <= 100 * V - N * rate /\ 100 * V - N * rate <= Len(split) * hi
<1>1. PICK I, p, h, e : /\ I = DOMAIN split /\ p = [i \in I |-> split[i] * rate]
                        /\ h = [i \in I |-> v[i] * 100] /\ e = [i \in I |-> 100 * v[i] - split[i] * rate]
  OBVIOUS
<1>2. /\ IsFiniteSet(I) /\ Cardinality(I) = Len(split) /\ Len(split) \in Nat
      /\ Summable(split, I) /\ Sum(split, I) \in Nat /\ \A i \in I : split[i] \in Nat
  BY <1>1, SplitIsFinite
<1>3. ASSUME NEW i \in I
      PROVE  /\ v[i] \in Int /\ p[i] = split[i] * rate /\ h[i] = v[i] * 100
             /\ p[i] \in Int /\ e[i] \in Int /\ h[i] = e[i] + p[i]
             /\ lo <= e[i] /\ e[i] <= hi
  <2>1. split[i] \in Nat /\ v[i] \in Int
    BY <1>1, <1>2 DEF Rounds
  <2>2. PICK y, q : y = v[i] /\ q = split[i] * rate /\ y \in Int /\ q \in Int
    BY <2>1
  <2>3. p[i] = q /\ e[i] = 100 * y - q /\ h[i] = y * 100
    BY <1>1, <2>2
  <2>4. lo <= 100 * y - q /\ 100 * y - q <= hi
    BY <1>1, <2>2 DEF Rounds
  <2>5. 100 * y - q \in Int /\ y * 100 = (100 * y - q) + q
    BY <2>2, SMTT(60)
  <2> QED
    BY <2>2, <2>3, <2>4, <2>5
<1>4. Summable(v, I) /\ Summable(e, I)
  BY <1>2, <1>3 DEF Summable
<1>5. Sum(p, I) = Sum(split, I) * rate
  BY <1>2, <1>3, SumScaled
<1>6. Sum(h, I) = Sum(v, I) * 100
  <2>1. (\A i \in I : h[i] = v[i] * 100) /\ 100 \in Int
    BY <1>3
  <2> QED
    BY <1>4, <2>1, SumScaled
<1>7. Sum(h, I) = Sum(e, I) + Sum(p, I)
  <2>1. \A i \in I : e[i] \in Int /\ p[i] \in Int /\ h[i] = e[i] + p[i]
    BY <1>3
  <2> QED
    BY <1>2, <2>1, SumPlus
<1>8. Sum(e, I) \in Int /\ Cardinality(I) * lo <= Sum(e, I) /\ Sum(e, I) <= Cardinality(I) * hi
  BY <1>3, <1>4, SumBetween
<1>9. PICK V, P, E : /\ V = Sum(v, I) /\ P = Sum(split, I) * rate /\ E = Sum(e, I)
                     /\ V \in Int /\ P \in Int /\ E \in Int
  <2>1. Sum(v, I) \in Int
    BY <1>4, SumIsInt
  <2>2. Sum(split, I) * rate \in Int
    BY <1>2
  <2> QED
    BY <1>8, <2>1, <2>2
<1>10. E = 100 * V - P
  BY <1>5, <1>6, <1>7, <1>9
<1> QED
  BY <1>1, <1>2, <1>8, <1>9, <1>10

(* How far the control account, in hundredths, is from what is due at the   *)
(* rate of the invoice: once it is posted, and for every allocation.        *)
Within(m, error, n) ==
  /\ error \in Int
  /\ m \in Up => -150 * n <= error /\ error <= 99 + 99 * n
  /\ m \in Halves => -50 - 149 * n <= error /\ error <= 50 + 149 * n
  /\ m \notin Up \cup Halves => -99 - 99 * n <= error /\ error <= 150 * n
Drift(m, w, k) ==
  /\ w \in Int
  /\ m \in Up => -150 * k <= w /\ w <= 99 * k
  /\ m \in Halves => -149 * k <= w /\ w <= 149 * k
  /\ m \notin Up \cup Halves => -99 * k <= w /\ w <= 150 * k

LEMMA WithinAdds ==
  ASSUME NEW m, NEW error, NEW n \in Nat, Within(m, error, n), NEW w, NEW k \in Nat, Drift(m, w, k)
  PROVE  Within(m, error + w, n + k)
  BY DEF Within, Drift

LEMMA WithinHolds ==
  ASSUME NEW m, NEW c \in Int, NEW n \in Nat, Within(m, 100 * c, n)
  PROVE  2 * Foreign!Kernel!Abs(c) <= 3 * n
<1>1. m \in Up => 2 * c <= 3 * n /\ -2 * c <= 3 * n
  BY DEF Within
<1>2. m \in Halves => 2 * c <= 3 * n /\ -2 * c <= 3 * n
  BY DEF Within
<1>3. m \notin Up \cup Halves => 2 * c <= 3 * n /\ -2 * c <= 3 * n
  BY DEF Within
<1>4. 2 * c <= 3 * n /\ -2 * c <= 3 * n
  BY <1>1, <1>2, <1>3
<1> QED
  BY <1>4 DEF Foreign!Kernel!Abs

(* A later allocation.                                                      *)
LEMMA LateDrift ==
  ASSUME NEW split \in Seq(Nat), NEW rate \in Nat \ {0}
  PROVE  LET c == [i \in DOMAIN split |-> Foreign!Convert(split[i], rate)]
             V == Sum(c, DOMAIN split)
             N == Sum(split, DOMAIN split)
         IN V \in Int /\ N * rate \in Int /\ Drift(mode, N * rate - 100 * V, Len(split))
<1>1. PICK I, c : I = DOMAIN split /\ c = [i \in DOMAIN split |-> Foreign!Convert(split[i], rate)]
  OBVIOUS
<1>2. ASSUME NEW i \in I
      PROVE  c[i] \in Int /\ Added(mode, 100 * c[i] - split[i] * rate)
  <2>1. split[i] \in Nat
    BY <1>1
  <2>2. c[i] = Foreign!Convert(split[i], rate)
    BY <1>1
  <2>3. /\ Foreign!Convert(split[i], rate) \in Nat
        /\ Added(mode, 100 * Foreign!Convert(split[i], rate) - split[i] * rate)
    BY <2>1, ConvertAdds
  <2> QED
    BY <2>2, <2>3
<1>3. Len(split) \in Nat /\ rate \in Int /\ 0 \in Int /\ 99 \in Int /\ -99 \in Int /\ 50 \in Int /\ -50 \in Int
  OBVIOUS
<1>4. CASE mode \in Up
  <2>1. Rounds(c, split, rate, 0, 99)
    BY <1>1, <1>2, <1>4 DEF Rounds, Added
  <2>2. PICK V, P : V = Sum(c, I) /\ P = Sum(split, I) * rate
    OBVIOUS
  <2>3. V \in Int /\ P \in Int /\ Len(split) * 0 <= 100 * V - P /\ 100 * V - P <= Len(split) * 99
    BY <1>1, <1>3, <2>1, <2>2, SumRounds, ZenonT(60)
  <2>4. mode \notin Halves
    BY <1>4 DEF Up, Halves
  <2> QED
    BY <1>1, <1>3, <1>4, <2>2, <2>3, <2>4 DEF Drift
<1>5. CASE mode \in Halves
  <2>1. Rounds(c, split, rate, -50, 50)
    BY <1>1, <1>2, <1>5 DEF Rounds, Added
  <2>2. PICK V, P : V = Sum(c, I) /\ P = Sum(split, I) * rate
    OBVIOUS
  <2>3. V \in Int /\ P \in Int /\ Len(split) * (-50) <= 100 * V - P /\ 100 * V - P <= Len(split) * 50
    BY <1>1, <1>3, <2>1, <2>2, SumRounds, ZenonT(60)
  <2>4. mode \notin Up
    BY <1>5 DEF Up, Halves
  <2> QED
    BY <1>1, <1>3, <1>5, <2>2, <2>3, <2>4, SMTT(60) DEF Drift
<1>6. CASE mode \notin Up \cup Halves
  <2>1. Rounds(c, split, rate, -99, 0)
    BY <1>1, <1>2, <1>6 DEF Rounds, Added
  <2>2. PICK V, P : V = Sum(c, I) /\ P = Sum(split, I) * rate
    OBVIOUS
  <2>3. V \in Int /\ P \in Int /\ Len(split) * (-99) <= 100 * V - P /\ 100 * V - P <= Len(split) * 0
    BY <1>1, <1>3, <2>1, <2>2, SumRounds, ZenonT(60)
  <2> QED
    BY <1>1, <1>3, <1>6, <2>2, <2>3 DEF Drift
<1> QED
  BY <1>4, <1>5, <1>6

(* A receipt and what it realizes; of one allocation, the receipt's own     *)
(* rounding and that of what is realized are of the same amount.            *)
LEMMA EarlyDrift ==
  ASSUME NEW split \in Seq(Nat), NEW rate \in Nat \ {0}, fxInvoice.rate \in Nat
  PROVE  LET V == Sum(Gain(split, rate), DOMAIN split)
             N == Sum(split, DOMAIN split)
             c == Foreign!Convert(N, rate)
         IN /\ V \in Int /\ c \in Nat /\ N * fxInvoice.rate \in Int
            /\ Drift(mode, 100 * (V - c) + N * fxInvoice.rate, Len(split))
<1>1. PICK I, g, b, N, V, c : /\ I = DOMAIN split /\ g = Gain(split, rate) /\ b = fxInvoice.rate
                              /\ N = Sum(split, I) /\ V = Sum(g, I) /\ c = Foreign!Convert(N, rate)
  OBVIOUS
<1>2. /\ IsFiniteSet(I) /\ Cardinality(I) = Len(split) /\ Len(split) \in Nat
      /\ Summable(split, I) /\ N \in Nat /\ b \in Nat /\ \A i \in I : split[i] \in Nat
  BY <1>1, SplitIsFinite
<1>3. Rounds(g, split, rate - b, -99, 99)
  <2>1. ASSUME NEW i \in I
        PROVE  /\ g[i] \in Int /\ -99 <= 100 * g[i] - split[i] * (rate - b)
               /\ 100 * g[i] - split[i] * (rate - b) <= 99
    BY <1>1, GainIsRounded, ZenonT(60)
  <2> QED
    BY <1>1, <2>1 DEF Rounds
<1>4. rate - b \in Int /\ -99 \in Int /\ 99 \in Int
  BY <1>2
<1>5. /\ V \in Int /\ N * (rate - b) \in Int
      /\ Len(split) * (-99) <= 100 * V - N * (rate - b) /\ 100 * V - N * (rate - b) <= Len(split) * 99
  BY <1>1, <1>3, <1>4, SumRounds
<1>6. PICK p, q : p = N * rate /\ q = N * b /\ p \in Nat /\ q \in Nat
  BY <1>2
<1>7. N * (rate - b) = p - q
  <2>1. N * (rate - b) = N * rate - N * b
    BY <1>2
  <2> QED
    BY <1>6, <2>1
<1>8. c \in Nat /\ Added(mode, 100 * c - p) /\ (N = 0 => c = 0 /\ q = 0)
  <2>1. N * rate = p /\ N \in Nat /\ c = Foreign!Convert(N, rate)
    BY <1>1, <1>2, <1>6
  <2>2. /\ Foreign!Convert(N, rate) \in Nat /\ Added(mode, 100 * Foreign!Convert(N, rate) - N * rate)
        /\ N = 0 => Foreign!Convert(N, rate) = 0
    BY <2>1, ConvertAdds
  <2>3. N = 0 => q = 0
    BY <1>2, <1>6
  <2> QED
    BY <2>1, <2>2, <2>3
<1>9. PICK k, w : k = Len(split) /\ w = 100 * (V - c) + q
  OBVIOUS
<1>10. /\ k \in Nat /\ V \in Int /\ c \in Int /\ p \in Int /\ q \in Int /\ w \in Int
       /\ -99 * k <= 100 * V - (p - q) /\ 100 * V - (p - q) <= 99 * k
  BY <1>2, <1>5, <1>6, <1>7, <1>8, <1>9
<1>11. ASSUME k = 0 PROVE Drift(mode, w, k)
  <2>1. I = {}
    BY <1>2, <1>9, <1>11, FS_EmptySet
  <2>2. N = 0 /\ V = 0
    BY <1>1, <2>1, SumOfNone
  <2>3. w = 0
    BY <1>8, <1>9, <2>2
  <2> QED
    BY <1>10, <1>11, <2>3 DEF Drift
<1>12. ASSUME k = 1 PROVE Drift(mode, w, k)
  <2>1. I = {1}
    <3>1. DOMAIN split = 1..Len(split)
      OBVIOUS
    <3>2. Len(split) = 1
      BY <1>9, <1>12
    <3> QED
      BY <1>1, <3>1, <3>2
  <2>2. split[1] \in Nat /\ g[1] \in Int /\ split[1] \in Int
    BY <1>2, <2>1, <1>3, <1>1 DEF Rounds
  <2>3. N = split[1] /\ V = g[1]
    BY <1>1, <2>1, <2>2, SumOfOne
  <2>4. PICK h, f : h = Foreign!ToBase(N, rate) /\ f = Foreign!ToBase(N, b)
    OBVIOUS
  <2>5. V = h - f
    <3>1. 1 \in DOMAIN split /\ rate \in Nat
      BY <1>1, <2>1
    <3>2. Gain(split, rate)[1] = Foreign!ToBase(split[1], rate) - Foreign!ToBase(split[1], fxInvoice.rate)
      BY <3>1, GainIsRounded
    <3> QED
      BY <1>1, <2>3, <2>4, <3>2
  <2>6. h \in Int /\ c - h <= 1 /\ h - c <= 1 /\ (mode \in Up => c >= h) /\ (mode \notin Up => c <= h)
    <3>1. N \in Nat /\ c = Foreign!Convert(N, rate)
      BY <1>1, <1>2
    <3>2. /\ Foreign!Convert(N, rate) \in Nat /\ Foreign!ToBase(N, rate) \in Nat
          /\ Foreign!Convert(N, rate) - Foreign!ToBase(N, rate) <= 1
          /\ Foreign!ToBase(N, rate) - Foreign!Convert(N, rate) <= 1
          /\ mode \in Up => Foreign!Convert(N, rate) >= Foreign!ToBase(N, rate)
          /\ mode \notin Up => Foreign!Convert(N, rate) <= Foreign!ToBase(N, rate)
      BY <3>1, ConvertNear
    <3> QED
      BY <2>4, <3>1, <3>2
  <2>7. f \in Int /\ -49 <= 100 * f - q /\ 100 * f - q <= 50
    BY <1>2, <1>6, <2>4, ToBaseAdds
  <2>8. w = 100 * (h - f - c) + q
    BY <1>9, <2>5
  <2>9. c \in Int /\ q \in Int /\ w \in Int
    BY <1>10
  <2>10. Up \cap Halves = {}
    BY DEF Up, Halves
  <2>11. (mode \in Up => -150 <= w /\ w <= 49) /\ (mode \notin Up => -50 <= w /\ w <= 149)
    BY ONLY <2>6, <2>7, <2>8, <2>9
  <2> QED
    BY <1>12, <2>9, <2>10, <2>11 DEF Drift
<1>13. ASSUME k > 1 PROVE Drift(mode, w, k)
  BY ONLY <1>8, <1>9, <1>10, <1>13 DEF Drift, Added
<1>14. Drift(mode, w, k)
  <2>1. k = 0 \/ k = 1 \/ k > 1
    BY <1>10
  <2> QED
    BY <2>1, <1>11, <1>12, <1>13
<1>15. w = 100 * (V - c) + N * b /\ q = N * b
  BY <1>6, <1>9
<1> QED
  BY <1>1, <1>6, <1>8, <1>9, <1>10, <1>14, <1>15

ForeignInv ==
  /\ \A x \in fxRates : x.rate \in Nat \ {0}
  /\ fxInvoice \in [status : {"DRAFT", "POSTED"}, rate : Nat, due : Int]
  /\ fxInvoice.status = "POSTED" => fxInvoice.rate # 0
  /\ DOMAIN fxReceipt = DOMAIN AmountOf
  /\ \A r \in DOMAIN AmountOf : fxReceipt[r].status = "POSTED" => fxReceipt[r].rate \in Nat \ {0}
  /\ control \in Int /\ rows \in Nat
  /\ fxInvoice.status = "DRAFT" => control = 0 /\ rows = 0 /\ fxInvoice.due = InvoiceTotal
  /\ fxInvoice.status = "POSTED" => Within(mode, 100 * control - fxInvoice.due * fxInvoice.rate, rows)

LEMMA ForeignFigures == ForeignInv => Foreign!ResidueIsRounding
<1> SUFFICES ASSUME ForeignInv, fxInvoice.due = 0 PROVE 2 * Foreign!Kernel!Abs(control) <= 3 * rows
  BY DEF Foreign!ResidueIsRounding
<1>1. control \in Int /\ rows \in Nat
  BY DEF ForeignInv
<1>2. Within(mode, 100 * control, rows)
  <2>1. CASE fxInvoice.status = "DRAFT"
    BY <2>1 DEF ForeignInv, Within
  <2>2. CASE fxInvoice.status = "POSTED"
    <3>1. fxInvoice.due * fxInvoice.rate = 0 /\ 100 * control - 0 = 100 * control
      BY <1>1 DEF ForeignInv
    <3> QED
      BY <2>2, <3>1 DEF ForeignInv
  <2> QED
    BY <2>1, <2>2 DEF ForeignInv
<1> QED
  BY <1>1, <1>2, WithinHolds

LEMMA RateResolves ==
  ASSUME ForeignInv, NEW on, NEW rate \in Foreign!ResolveRate(on) PROVE rate \in Nat \ {0}
  BY DEF ForeignInv, Foreign!ResolveRate

LEMMA ForeignInit == Foreign!Init => ForeignInv /\ Foreign!SettlementPosts
<1> SUFFICES ASSUME Foreign!Init PROVE ForeignInv /\ Foreign!SettlementPosts
  OBVIOUS
<1>1. InvoiceTotal \in Nat
  BY FiguresAssumption DEF Foreign!AmountsAssumption
<1>2. fxRates = {} /\ fxInvoice = [status |-> "DRAFT", rate |-> 0, due |-> InvoiceTotal] /\ control = 0 /\ rows = 0
  BY DEF Foreign!Init
<1>3. fxReceipt = [r \in DOMAIN AmountOf |-> [status |-> Foreign!None, rate |-> 0, unapplied |-> 0]]
  BY DEF Foreign!Init
<1>4. \A r \in DOMAIN AmountOf : fxReceipt[r].status # "POSTED"
  BY <1>3 DEF Foreign!None
<1>5. fxEntry.refused = FALSE /\ fxEntry.delta = 0
  BY DEF Foreign!Init, Foreign!NoEntry
<1> QED
  BY <1>1, <1>2, <1>3, <1>4, <1>5 DEF ForeignInv, Foreign!SettlementPosts

(* One settlement: what it adds to the control account, and what it may not *)
(* be refused for.                                                          *)
Sound(items, converted, late) ==
  LET d == Foreign!Kernel!Delta(items)
  IN /\ d \in Int /\ converted \in Nat /\ d <= converted /\ -d <= converted
     /\ late /\ mode = "HALF_UP" => d = 0

LEMMA SoundPosts ==
  ASSUME NEW items, NEW converted, NEW late \in BOOLEAN, Sound(items, converted, late), NEW allowed \in BOOLEAN
  PROVE  LET refused == Foreign!Refused(items, converted, allowed)
         IN /\ allowed /\ refused => Foreign!Kernel!Empty(items)
            /\ late /\ mode = "HALF_UP" => (refused => Foreign!Kernel!Empty(items)) /\ Foreign!Kernel!Delta(items) = 0
<1>1. PICK d : d = Foreign!Kernel!Delta(items)
  OBVIOUS
<1>2. /\ d \in Int /\ converted \in Nat /\ d <= converted /\ -d <= converted
      /\ late /\ mode = "HALF_UP" => d = 0
  BY <1>1 DEF Sound
<1>3. ~(Foreign!Kernel!Abs(d) > converted)
  BY <1>2 DEF Foreign!Kernel!Abs
<1>4. Foreign!Refused(items, converted, allowed) => Foreign!Kernel!Empty(items) \/ (d # 0 /\ ~allowed)
  BY <1>1, <1>3 DEF Foreign!Refused, Foreign!Kernel!Unbalanced
<1> QED
  BY <1>1, <1>2, <1>4

LEMMA SettleKeeps ==
  ASSUME ForeignInv, NEW r \in DOMAIN AmountOf, NEW split \in Seq(Nat), NEW items, NEW converted,
         NEW late \in BOOLEAN, NEW allowed \in BOOLEAN, NEW rate \in Nat \ {0}, NEW unapplied,
         Foreign!Settle(r, split, items, converted, late, allowed, rate, unapplied),
         Sound(items, converted, late),
         Foreign!Kernel!Delta(Foreign!On(items, "control")) \in Int,
         fxInvoice.status = "DRAFT" => split = <<>> /\ Foreign!Kernel!Delta(Foreign!On(items, "control")) = 0,
         fxInvoice.status = "POSTED" =>
           Drift(mode, 100 * Foreign!Kernel!Delta(Foreign!On(items, "control"))
                         + Foreign!Kernel!Total(split) * fxInvoice.rate, Len(split))
  PROVE  ForeignInv' /\ Foreign!SettlementPosts'
<1>1. PICK refused : refused = Foreign!Refused(items, converted, allowed)
  OBVIOUS
<1>2. /\ fxEntry' = [late |-> late, refused |-> refused, empty |-> Foreign!Kernel!Empty(items), account |-> allowed,
                     delta |-> Foreign!Kernel!Delta(items)]
      /\ UNCHANGED <<fxRates, mode>>
  BY <1>1 DEF Foreign!Settle
<1>3. Foreign!SettlementPosts'
  <2>1. /\ allowed /\ refused => Foreign!Kernel!Empty(items)
        /\ late /\ mode = "HALF_UP" => (refused => Foreign!Kernel!Empty(items)) /\ Foreign!Kernel!Delta(items) = 0
    BY <1>1, SoundPosts
  <2> QED
    BY <1>2, <2>1 DEF Foreign!SettlementPosts
<1>4. CASE refused
  <2>1. UNCHANGED <<fxInvoice, fxReceipt, control, rows>>
    BY <1>1, <1>4 DEF Foreign!Settle
  <2> QED
    BY <1>2, <1>3, <2>1 DEF ForeignInv
<1>5. CASE ~refused
  <2>1. PICK n, delta : /\ n = Foreign!Kernel!Total(split) /\ delta = Foreign!Kernel!Delta(Foreign!On(items, "control"))
                        /\ n \in Nat /\ delta \in Int
    BY SplitIsFinite
  <2>2. /\ fxInvoice' = [fxInvoice EXCEPT !.due = @ - n] /\ control' = control + delta
        /\ rows' = rows + Len(split)
        /\ fxReceipt' = [fxReceipt EXCEPT ![r] = [status |-> "POSTED", rate |-> rate, unapplied |-> unapplied]]
    BY <1>1, <1>5, <2>1 DEF Foreign!Settle
  <2>3. PICK due, b : due = fxInvoice.due /\ b = fxInvoice.rate /\ due \in Int /\ b \in Nat
    BY DEF ForeignInv
  <2>4. /\ fxInvoice'.status = fxInvoice.status /\ fxInvoice'.rate = b /\ fxInvoice'.due = due - n
        /\ fxInvoice' \in [status : {"DRAFT", "POSTED"}, rate : Nat, due : Int]
    <3>1. fxInvoice \in [status : {"DRAFT", "POSTED"}, rate : Nat, due : Int] /\ due - n \in Int
      BY <2>1, <2>3 DEF ForeignInv
    <3> QED
      BY <2>2, <2>3, <3>1
  <2>5. control' \in Int /\ rows' \in Nat /\ Len(split) \in Nat
    <3>1. control \in Int /\ rows \in Nat /\ Len(split) \in Nat
      BY DEF ForeignInv
    <3> QED
      BY <2>1, <2>2, <3>1
  <2>6. /\ DOMAIN fxReceipt' = DOMAIN AmountOf
        /\ \A q \in DOMAIN AmountOf : fxReceipt'[q].status = "POSTED" => fxReceipt'[q].rate \in Nat \ {0}
    BY <2>2 DEF ForeignInv
  <2>7. fxInvoice.status = "DRAFT" => control' = 0 /\ rows' = 0 /\ fxInvoice'.due = InvoiceTotal
    <3>1. SUFFICES ASSUME fxInvoice.status = "DRAFT"
                   PROVE  control' = 0 /\ rows' = 0 /\ fxInvoice'.due = InvoiceTotal
      OBVIOUS
    <3>2. split = <<>> /\ delta = 0 /\ control = 0 /\ rows = 0 /\ due = InvoiceTotal
      BY <2>1, <2>3, <3>1 DEF ForeignInv
    <3>3. Len(split) = 0 /\ DOMAIN split = {}
      BY <3>2
    <3>4. n = 0
      BY <2>1, <3>3, SumOfNone, ForeignTotal
    <3> QED
      BY <2>2, <2>3, <2>4, <3>2, <3>3, <3>4
  <2>8. ASSUME fxInvoice.status = "POSTED"
        PROVE  Within(mode', 100 * control' - fxInvoice'.due * fxInvoice'.rate, rows')
    <3>1. PICK error, w, p, q : /\ p = due * b /\ q = n * b /\ error = 100 * control - p /\ w = 100 * delta + q
                                /\ p \in Int /\ q \in Int
      BY <2>1, <2>3
    <3>2. Within(mode, error, rows) /\ Drift(mode, w, Len(split)) /\ rows \in Nat /\ control \in Int
      BY <2>1, <2>3, <2>8, <3>1 DEF ForeignInv
    <3>3. Within(mode, error + w, rows + Len(split))
      BY <2>5, <3>2, WithinAdds
    <3>4. (due - n) * b = p - q
      <4>1. (due - n) * b = due * b - n * b
        BY <2>1, <2>3
      <4> QED
        BY <3>1, <4>1
    <3>5. 100 * (control + delta) - (p - q) = error + w
      <4>1. control \in Int /\ delta \in Int /\ p \in Int /\ q \in Int /\ error = 100 * control - p /\ w = 100 * delta + q
        BY <2>1, <3>1, <3>2
      <4> QED
        BY ONLY <4>1
    <3> QED
      BY <1>2, <2>2, <2>4, <3>3, <3>4, <3>5
  <2>9. (\A x \in fxRates' : x.rate \in Nat \ {0}) /\ (fxInvoice'.status = "POSTED" => fxInvoice'.rate # 0)
    BY <1>2, <2>3, <2>4 DEF ForeignInv
  <2>10. ForeignInv'
    BY <2>4, <2>5, <2>6, <2>7, <2>8, <2>9 DEF ForeignInv
  <2> QED
    BY <1>3, <2>10
<1> QED
  BY <1>4, <1>5

LEMMA ForeignStep ==
  ForeignInv /\ Foreign!SettlementPosts /\ [Foreign!Next]_(Foreign!vars) => ForeignInv' /\ Foreign!SettlementPosts'
<1> SUFFICES ASSUME ForeignInv, Foreign!SettlementPosts, [Foreign!Next]_(Foreign!vars)
             PROVE  ForeignInv' /\ Foreign!SettlementPosts'
  OBVIOUS
<1>1. CASE UNCHANGED Foreign!vars
  BY <1>1 DEF Foreign!vars, ForeignInv, Foreign!SettlementPosts
<1>2. ASSUME NEW date \in RateDates, NEW type \in RateTypes, NEW rate \in QuotedRates,
             Foreign!CreateExchangeRate(date, type, rate)
      PROVE  ForeignInv' /\ Foreign!SettlementPosts'
  <2>1. rate \in Nat \ {0}
    BY FiguresAssumption DEF Foreign!AmountsAssumption
  <2>2. /\ fxRates' = fxRates \cup {[date |-> date, type |-> type, rate |-> rate]}
        /\ UNCHANGED <<mode, fxInvoice, fxReceipt, control, rows, fxEntry>>
    BY <1>2 DEF Foreign!CreateExchangeRate
  <2>3. \A x \in fxRates' : x.rate \in Nat \ {0}
    BY <2>1, <2>2 DEF ForeignInv
  <2> QED
    BY <2>2, <2>3 DEF ForeignInv, Foreign!SettlementPosts
<1>3. ASSUME NEW on \in RateDates, Foreign!PostInvoice(on)
      PROVE  ForeignInv' /\ Foreign!SettlementPosts'
  <2>1. PICK rate \in Foreign!ResolveRate(on) :
          /\ fxInvoice' = [fxInvoice EXCEPT !.status = "POSTED", !.rate = rate]
          /\ control' = Foreign!Convert(InvoiceTotal, rate)
    BY <1>3 DEF Foreign!PostInvoice
  <2>2. UNCHANGED <<fxRates, mode, fxReceipt, rows, fxEntry>> /\ fxInvoice.status = "DRAFT"
    BY <1>3 DEF Foreign!PostInvoice
  <2>3. rate \in Nat \ {0} /\ InvoiceTotal \in Nat
    BY RateResolves, FiguresAssumption DEF Foreign!AmountsAssumption
  <2>4. PICK c, p : /\ c = Foreign!Convert(InvoiceTotal, rate) /\ p = InvoiceTotal * rate
                    /\ c \in Nat /\ p \in Nat /\ Added(mode, 100 * c - p)
    BY <2>3, ConvertAdds, ZenonT(60)
  <2>5. /\ fxInvoice'.status = "POSTED" /\ fxInvoice'.rate = rate /\ fxInvoice'.due = InvoiceTotal
        /\ fxInvoice' \in [status : {"DRAFT", "POSTED"}, rate : Nat, due : Int]
    <3>1. /\ fxInvoice \in [status : {"DRAFT", "POSTED"}, rate : Nat, due : Int]
          /\ fxInvoice.due = InvoiceTotal
      BY <2>2 DEF ForeignInv
    <3> QED
      BY <2>1, <2>3, <3>1
  <2>6. rows = 0 /\ rows' = 0 /\ control' = c
    BY <2>1, <2>2, <2>4 DEF ForeignInv
  <2>7. Within(mode, 100 * c - p, 0)
    BY <2>4 DEF Within, Added
  <2>8. Within(mode', 100 * control' - fxInvoice'.due * fxInvoice'.rate, rows')
    BY <2>2, <2>4, <2>5, <2>6, <2>7
  <2>9. /\ fxInvoice'.status # "DRAFT" /\ fxInvoice'.rate # 0 /\ control' \in Int /\ rows' \in Nat
    BY <2>3, <2>4, <2>5, <2>6
  <2>10. Foreign!SettlementPosts'
    BY <2>2 DEF Foreign!SettlementPosts
  <2>11. (\A x \in fxRates' : x.rate \in Nat \ {0})
         /\ DOMAIN fxReceipt' = DOMAIN AmountOf
         /\ \A r \in DOMAIN AmountOf : fxReceipt'[r].status = "POSTED" => fxReceipt'[r].rate \in Nat \ {0}
    BY <2>2 DEF ForeignInv
  <2> QED
    BY <2>5, <2>8, <2>9, <2>10, <2>11 DEF ForeignInv
<1>4. ASSUME NEW r \in DOMAIN AmountOf, NEW allowed \in BOOLEAN, NEW on \in RateDates,
             NEW split \in Splits \cup {<<>>}, Foreign!CreateReceipt(r, on, split, allowed)
      PROVE  ForeignInv' /\ Foreign!SettlementPosts'
  <2>1. split \in Seq(Nat)
    <3>1. Splits \subseteq Seq(Nat) /\ <<>> \in Seq(Nat)
      BY FiguresAssumption DEF Foreign!AmountsAssumption
    <3> QED
      BY <3>1
  <2>2. PICK n : n = Foreign!Kernel!Total(split) /\ n \in Nat /\ n = Sum(split, DOMAIN split)
    BY <2>1, SplitIsFinite
  <2>3. /\ fxReceipt[r].status = Foreign!None
        /\ split # <<>> => fxInvoice.status = "POSTED" /\ n <= AmountOf[r]
    BY <1>4, <2>2 DEF Foreign!CreateReceipt, Foreign!Fits
  <2>4. split = <<>> => n = 0
    <3>1. split = <<>> => DOMAIN split = {}
      OBVIOUS
    <3> QED
      BY <2>2, <3>1, SumOfNone
  <2>5. n <= AmountOf[r]
    BY <2>3, <2>4, FiguresAssumption DEF Foreign!AmountsAssumption
  <2>6. PICK rate \in Foreign!ResolveRate(on) :
          LET own == Foreign!ReceiptLines(r, n, rate)
              fx == Foreign!SettlementPostingLines(split, rate, FALSE)
          IN Foreign!Settle(r, split, [k \in DOMAIN own \cup DOMAIN fx |-> IF k \in DOMAIN own THEN own[k] ELSE fx[k]],
                            Foreign!Cardinality(DOMAIN own), FALSE, allowed, rate, AmountOf[r] - n)
    BY <1>4, <2>2, Zenon DEF Foreign!CreateReceipt
  <2>7. PICK own, items, converted :
          /\ own = Foreign!ReceiptLines(r, n, rate)
          /\ items = Together(own, Foreign!SettlementPostingLines(split, rate, FALSE))
          /\ converted = Foreign!Cardinality(DOMAIN own)
    OBVIOUS
  <2>8. Foreign!Settle(r, split, items, converted, FALSE, allowed, rate, AmountOf[r] - n)
    BY <2>6, <2>7, Zenon DEF Together
  <2>9. rate \in Nat \ {0} /\ fxInvoice.rate \in Nat
    BY RateResolves DEF ForeignInv
  <2>10. PICK d, delta : d = Foreign!Kernel!Delta(items) /\ delta = Foreign!Kernel!Delta(Foreign!On(items, "control"))
    OBVIOUS
  <2>11. /\ d \in Int /\ converted \in Nat /\ d <= converted /\ -d <= converted
         /\ delta = Sum(Gain(split, rate), DOMAIN split) - Foreign!Convert(n, rate)
    <3>1. Foreign!Kernel!Total(split) <= AmountOf[r]
      BY <2>2, <2>5
    <3> QED
      BY <2>1, <2>2, <2>7, <2>9, <2>10, <3>1, EarlySettles
  <2>12. PICK V, c : /\ V = Sum(Gain(split, rate), DOMAIN split) /\ c = Foreign!Convert(n, rate)
                     /\ V \in Int /\ c \in Nat
                     /\ Drift(mode, 100 * (V - c) + n * fxInvoice.rate, Len(split))
    BY <2>1, <2>2, <2>9, EarlyDrift
  <2>13. delta \in Int /\ Drift(mode, 100 * delta + n * fxInvoice.rate, Len(split))
    BY <2>11, <2>12
  <2>14. Sound(items, converted, FALSE)
    BY <2>10, <2>11 DEF Sound
  <2>15. fxInvoice.status = "DRAFT" => split = <<>> /\ delta = 0
    <3>1. SUFFICES ASSUME fxInvoice.status = "DRAFT" PROVE split = <<>> /\ delta = 0
      OBVIOUS
    <3>2. split = <<>> /\ n = 0
      BY <2>3, <2>4, <3>1
    <3>3. DOMAIN split = {}
      BY <3>2
    <3>4. V = 0
      BY <2>12, <3>3, SumOfNone
    <3>5. c = 0
      BY <2>9, <2>12, <3>2, ConvertAdds
    <3> QED
      BY <2>11, <2>12, <3>2, <3>4, <3>5
  <2> QED
    BY <2>1, <2>2, <2>8, <2>9, <2>10, <2>13, <2>14, <2>15, SettleKeeps
<1>5. ASSUME NEW r \in DOMAIN AmountOf, NEW allowed \in BOOLEAN, NEW split \in Splits,
             Foreign!AllocateReceipt(r, split, allowed)
      PROVE  ForeignInv' /\ Foreign!SettlementPosts'
  <2>1. split \in Seq(Nat)
    BY FiguresAssumption DEF Foreign!AmountsAssumption
  <2>2. PICK n : n = Foreign!Kernel!Total(split) /\ n \in Nat /\ n = Sum(split, DOMAIN split)
    BY <2>1, SplitIsFinite
  <2>3. PICK rate, items, unapplied :
          /\ rate = fxReceipt[r].rate /\ items = Foreign!SettlementPostingLines(split, rate, TRUE)
          /\ unapplied = fxReceipt[r].unapplied - n
    OBVIOUS
  <2>4. /\ fxReceipt[r].status = "POSTED" /\ fxInvoice.status = "POSTED"
        /\ Foreign!Settle(r, split, items, 2 * Len(split), TRUE, allowed, rate, unapplied)
    BY <1>5, <2>2, <2>3 DEF Foreign!AllocateReceipt, Foreign!Fits
  <2>5. rate \in Nat \ {0} /\ fxInvoice.rate \in Nat \ {0}
    BY <2>3, <2>4 DEF ForeignInv
  <2>6. PICK d, delta : d = Foreign!Kernel!Delta(items) /\ delta = Foreign!Kernel!Delta(Foreign!On(items, "control"))
    OBVIOUS
  <2>7. PICK V : V = Sum([i \in DOMAIN split |-> Foreign!Convert(split[i], fxInvoice.rate)], DOMAIN split)
    OBVIOUS
  <2>8. /\ d \in Int /\ d <= 2 * Len(split) /\ -d <= 2 * Len(split) /\ (mode = "HALF_UP" => d = 0)
        /\ delta = -V
    BY <2>1, <2>3, <2>5, <2>6, <2>7, LateSettles
  <2>9. V \in Int /\ n * fxInvoice.rate \in Int /\ Drift(mode, n * fxInvoice.rate - 100 * V, Len(split))
    BY <2>1, <2>2, <2>5, <2>7, LateDrift
  <2>10. PICK q : q = n * fxInvoice.rate /\ q \in Int
    BY <2>9
  <2>11. 100 * delta + q = q - 100 * V /\ delta \in Int
    BY <2>8, <2>9, <2>10
  <2>12. Drift(mode, 100 * delta + n * fxInvoice.rate, Len(split))
    BY <2>9, <2>10, <2>11
  <2>13. Sound(items, 2 * Len(split), TRUE)
    BY <2>1, <2>6, <2>8 DEF Sound
  <2>14. fxInvoice.status # "DRAFT"
    BY <2>4
  <2> QED
    BY <2>1, <2>2, <2>4, <2>5, <2>6, <2>11, <2>12, <2>13, <2>14, SettleKeeps
<1> QED
  BY <1>1, <1>2, <1>3, <1>4, <1>5 DEF Foreign!Next

(***************************************************************************)
(* The figures of a document (Calculation).                                *)
(***************************************************************************)
LEMMA CalculationTotal == ASSUME NEW f PROVE Calculation!Total(f) = Sum(f, DOMAIN f)
  BY Zenon DEF Calculation!Total, Calculation!FoldFunction, Calculation!FoldFunctionOnSet, Calculation!MapThenFoldSet,
     Sum, MapThenSumSet, MapThenFoldSet
LEMMA CalculationCardinality == ASSUME NEW S PROVE Calculation!Cardinality(S) = Cardinality(S)
  BY Zenon DEF Calculation!Cardinality, Cardinality, Calculation!IsFiniteSet, IsFiniteSet

LEMMA SequenceTotal ==
  ASSUME NEW s \in Seq(Int)
  PROVE  Summable(s, DOMAIN s) /\ DOMAIN s = 1..Len(s) /\ Len(s) \in Nat /\ Calculation!Total(s) \in Int
<1>1. Len(s) \in Nat /\ DOMAIN s = 1..Len(s) /\ \A i \in DOMAIN s : s[i] \in Int
  BY SMTT(60)
<1>2. PICK n \in Nat : n = Len(s)
  BY <1>1
<1>3. IsFiniteSet(1..n)
  <2>1. 1 \in Int /\ n \in Int
    OBVIOUS
  <2> QED
    BY ONLY <2>1, FS_Interval
<1>4. Summable(s, DOMAIN s)
  BY <1>1, <1>2, <1>3 DEF Summable
<1> QED
  BY <1>1, <1>4, CalculationTotal, SumIsInt

(* What is rounded is whole, whatever the signs.                            *)
LEMMA RoundedIsInt ==
  ASSUME NEW n \in Int, NEW d \in Int \ {0}, NEW m
  PROVE  Calculation!RoundedDiv(n, d, m) \in Int
<1>1. PICK a \in Nat, b \in Nat \ {0} : a = Calculation!Abs(n) /\ b = Calculation!Abs(d)
  BY AbsType
<1>2. a \div b \in Nat /\ a % b \in Nat
  BY Division
<1>3. Calculation!RoundedDiv(n, d, m) =
        LET c == Calculation!Abs(n)
            e == Calculation!Abs(d)
            negative == (n < 0) # (d < 0)
        IN IF negative THEN -SizeOf(negative, e, m, c \div e, c % e)
           ELSE SizeOf(negative, e, m, c \div e, c % e)
  BY Zenon DEF Calculation!RoundedDiv, SizeOf, Raised
<1>4. PICK negative, size : negative = ((n < 0) # (d < 0)) /\ size = SizeOf(negative, b, m, a \div b, a % b)
  OBVIOUS
<1>5. Calculation!RoundedDiv(n, d, m) = IF negative THEN -size ELSE size
  BY ONLY <1>1, <1>3, <1>4, Zenon
<1>6. size \in Int
  BY <1>2, <1>4 DEF SizeOf
<1> QED
  BY <1>5, <1>6
(* The tax of one component, after those before it.                         *)
Charge(base, cs, rule, i, before) ==
  Calculation!RoundedDiv((IF cs[i].compound THEN base + Calculation!Total(before) ELSE base) * cs[i].rate, 100, rule)
Charges(base, cs, rule, W) ==
  /\ W \subseteq Int /\ Len(cs) \in Nat
  /\ \A i \in 1..Len(cs), before \in Seq(W) : Charge(base, cs, rule, i, before) \in W
Chain(h, base, cs, rule) ==
  h = [i \in 0..Len(cs) |->
         IF i = 0 THEN <<>>
         ELSE LET before == h[i - 1]
                  taxable == IF cs[i].compound THEN base + Calculation!Total(before) ELSE base
              IN Append(before, Calculation!RoundedDiv(taxable * cs[i].rate, 100, rule))]

LEMMA ChainStep ==
  ASSUME NEW h, NEW base, NEW cs, NEW rule, Chain(h, base, cs, rule), NEW i \in 0..Len(cs)
  PROVE  h[i] = IF i = 0 THEN <<>> ELSE Append(h[i - 1], Charge(base, cs, rule, i, h[i - 1]))
  BY DEF Chain, Charge

LEMMA ChainExists ==
  ASSUME NEW base, NEW cs, NEW rule, NEW W, Charges(base, cs, rule, W)
  PROVE  \E h : Chain(h, base, cs, rule)
<1>1. PICK n \in Nat : n = Len(cs)
  BY DEF Charges
<1>2. PICK f : f = [p \in (1..n) \X Seq(W) |-> Append(p[2], Charge(base, cs, rule, p[1], p[2]))]
  OBVIOUS
<1>3. \A m \in 1..n, x \in Seq(W) : f[<<m, x>>] = Append(x, Charge(base, cs, rule, m, x))
  BY <1>2
<1>4. \A m \in 1..n, x \in Seq(W) : Append(x, Charge(base, cs, rule, m, x)) \in Seq(W)
  BY <1>1 DEF Charges
<1>5. Follows(f, n, Seq(W))
  BY <1>3, <1>4 DEF Follows
<1>6. <<>> \in Seq(W)
  OBVIOUS
<1>7. PICK g \in [0..n -> Seq(W)] : RunFromZero(g, f, n, <<>>)
  BY ONLY n \in Nat, <1>5, <1>6, StepFromZero
<1>8. ASSUME NEW i \in 0..n PROVE g[i] = IF i = 0 THEN <<>> ELSE Append(g[i - 1], Charge(base, cs, rule, i, g[i - 1]))
  <2>1. g[i] = IF i = 0 THEN <<>> ELSE f[<<i, g[i - 1]>>]
    BY <1>7 DEF RunFromZero
  <2>2. i # 0 => i \in 1..n /\ i - 1 \in 0..n
    OBVIOUS
  <2>3. i # 0 => g[i - 1] \in Seq(W)
    BY <2>2
  <2> QED
    BY <1>3, <2>1, <2>2, <2>3
<1>9. g = [i \in 0..n |-> IF i = 0 THEN <<>> ELSE Append(g[i - 1], Charge(base, cs, rule, i, g[i - 1]))]
  BY <1>8
<1>10. Chain(g, base, cs, rule)
  BY <1>1, <1>9 DEF Chain, Charge
<1> QED
  BY <1>10

LEMMA ChainIn ==
  ASSUME NEW base, NEW cs, NEW rule, NEW W, Charges(base, cs, rule, W),
         NEW h, Chain(h, base, cs, rule)
  PROVE  h[Len(cs)] \in Seq(W) /\ Len(h[Len(cs)]) = Len(cs)
<1>1. PICK n \in Nat : n = Len(cs)
  BY DEF Charges
<1> DEFINE G == {i \in 0..n : h[i] \in Seq(W) /\ Len(h[i]) = i}
<1>2. 0 \in G
  <2>1. 0 \in 0..n
    OBVIOUS
  <2>2. h[0] = <<>>
    BY <1>1, <2>1, ChainStep
  <2>3. <<>> \in Seq(W) /\ Len(<<>>) = 0
    OBVIOUS
  <2> QED
    BY <2>1, <2>2, <2>3
<1>3. ASSUME NEW i \in 0..n, i < n, i \in G PROVE i + 1 \in G
  <2>1. i + 1 \in 1..n /\ i + 1 \in 0..n /\ (i + 1) - 1 = i /\ i + 1 # 0
    BY <1>3
  <2>2. PICK c : c = Charge(base, cs, rule, i + 1, h[i])
    OBVIOUS
  <2>3. h[i + 1] = Append(h[i], c)
    BY <1>1, <2>1, <2>2, ChainStep, ZenonT(60)
  <2>4. c \in W
    BY <1>1, <1>3, <2>1, <2>2 DEF Charges
  <2> QED
    BY <1>3, <2>1, <2>3, <2>4, SMTT(60)
<1> HIDE DEF G
<1>4. \A i \in 0..n : i < n /\ i \in G => i + 1 \in G
  BY <1>3
<1>5. \A i \in 0..n : i \in G
  BY ONLY n \in Nat, <1>2, <1>4, OneByOneFromZero
<1>6. n \in G
  BY <1>5
<1> QED
  BY <1>1, <1>6 DEF G

LEMMA ComponentTaxesIn ==
  ASSUME NEW base, NEW cs, NEW rule, NEW W, Charges(base, cs, rule, W)
  PROVE  /\ Calculation!ComponentTaxes(base, cs, rule) \in Seq(W)
         /\ Len(Calculation!ComponentTaxes(base, cs, rule)) = Len(cs)
<1>1. PICK h : h = CHOOSE x : Chain(x, base, cs, rule)
  OBVIOUS
<1>2. Chain(h, base, cs, rule)
  BY <1>1, ChainExists
<1>3. Calculation!ComponentTaxes(base, cs, rule) = h[Len(cs)]
  BY <1>1, Zenon DEF Calculation!ComponentTaxes, Chain
<1> QED
  BY <1>2, <1>3, ChainIn

(* The effective rate, one component at a time.                             *)
Compounds(before, c) ==
  LET taxable == before.one + IF c.compound THEN before.rate ELSE 0
  IN [rate |-> 100 * before.rate + c.rate * taxable, one |-> 100 * before.one]
Compounding(cs, V) ==
  /\ Len(cs) \in Nat /\ [rate |-> 0, one |-> 1] \in V
  /\ \A i \in 1..Len(cs), before \in V : Compounds(before, cs[i]) \in V
RateChain(h, cs) ==
  h = [i \in 0..Len(cs) |->
         IF i = 0 THEN [rate |-> 0, one |-> 1]
         ELSE LET before == h[i - 1]
                  taxable == before.one + IF cs[i].compound THEN before.rate ELSE 0
              IN [rate |-> 100 * before.rate + cs[i].rate * taxable, one |-> 100 * before.one]]

LEMMA RateChainExists ==
  ASSUME NEW cs, NEW V, Compounding(cs, V)
  PROVE  \E h : RateChain(h, cs)
<1>1. PICK n \in Nat, a \in V : n = Len(cs) /\ a = [rate |-> 0, one |-> 1]
  BY DEF Compounding
<1>2. PICK f : f = [p \in (1..n) \X V |-> Compounds(p[2], cs[p[1]])]
  OBVIOUS
<1>3. \A m \in 1..n, x \in V : f[<<m, x>>] = Compounds(x, cs[m])
  BY <1>2
<1>4. \A m \in 1..n, x \in V : Compounds(x, cs[m]) \in V
  BY <1>1 DEF Compounding
<1>5. Follows(f, n, V)
  BY <1>3, <1>4 DEF Follows
<1>7. PICK g \in [0..n -> V] : RunFromZero(g, f, n, a)
  BY ONLY n \in Nat, a \in V, <1>5, StepFromZero
<1>8. ASSUME NEW i \in 0..n PROVE g[i] = IF i = 0 THEN a ELSE Compounds(g[i - 1], cs[i])
  <2>1. g[i] = IF i = 0 THEN a ELSE f[<<i, g[i - 1]>>]
    BY <1>7 DEF RunFromZero
  <2>2. i # 0 => i \in 1..n /\ i - 1 \in 0..n
    OBVIOUS
  <2>3. i # 0 => g[i - 1] \in V
    BY <2>2
  <2> QED
    BY <1>3, <2>1, <2>2, <2>3
<1>9. g = [i \in 0..n |-> IF i = 0 THEN a ELSE Compounds(g[i - 1], cs[i])]
  BY <1>8
<1>10. RateChain(g, cs)
  BY <1>1, <1>9, Zenon DEF RateChain, Compounds
<1> QED
  BY <1>10

LEMMA EffectiveRateIn ==
  ASSUME NEW cs, NEW V, Compounding(cs, V)
  PROVE  Calculation!EffectiveRate(cs) \in V
<1>1. PICK h : h = CHOOSE x : RateChain(x, cs)
  OBVIOUS
<1>2. RateChain(h, cs)
  BY <1>1, RateChainExists
<1>3. Calculation!EffectiveRate(cs) = h[Len(cs)]
  BY <1>1, Zenon DEF Calculation!EffectiveRate, RateChain
<1>4. PICK n \in Nat : n = Len(cs)
  BY DEF Compounding
<1>5. ASSUME NEW i \in 0..n PROVE h[i] = IF i = 0 THEN [rate |-> 0, one |-> 1] ELSE Compounds(h[i - 1], cs[i])
  BY <1>2, <1>4 DEF RateChain, Compounds
<1> DEFINE G == {i \in 0..n : h[i] \in V}
<1>6. 0 \in G
  <2>1. 0 \in 0..n
    OBVIOUS
  <2>2. h[0] = [rate |-> 0, one |-> 1]
    BY <1>5, <2>1
  <2> QED
    BY <2>1, <2>2 DEF Compounding
<1>7. ASSUME NEW i \in 0..n, i < n, i \in G PROVE i + 1 \in G
  <2>1. i + 1 \in 1..n /\ i + 1 \in 0..n /\ (i + 1) - 1 = i /\ i + 1 # 0
    BY <1>7
  <2>2. h[i + 1] = Compounds(h[i], cs[i + 1])
    BY <1>5, <2>1
  <2>3. Compounds(h[i], cs[i + 1]) \in V
    BY <1>4, <1>7, <2>1 DEF Compounding
  <2> QED
    BY <2>1, <2>2, <2>3
<1> HIDE DEF G
<1>8. \A i \in 0..n : i < n /\ i \in G => i + 1 \in G
  BY <1>7
<1>9. \A i \in 0..n : i \in G
  BY ONLY n \in Nat, <1>6, <1>8, OneByOneFromZero
<1>10. n \in G
  BY <1>9
<1> QED
  BY <1>3, <1>4, <1>10 DEF G
(* What is allocated comes to what there was to allocate.                   *)
Weights(w) == w \in Seq(Int) /\ Calculation!Total(w) # 0

(* The share of each rounded down, and what was lost.                       *)
Floored(w, total, sum, floor, rest) ==
  /\ sum \in Nat \ {0} /\ sum = Calculation!Abs(Calculation!Total(w))
  /\ floor = [i \in DOMAIN w |-> Calculation!Exact(total, w, i) \div sum]
  /\ rest = [i \in DOMAIN w |-> Calculation!Exact(total, w, i) % sum]

LEMMA FlooredParts ==
  ASSUME NEW w, Weights(w), NEW total \in Int, NEW sum, NEW floor, NEW rest,
         Floored(w, total, sum, floor, rest)
  PROVE  \A i \in DOMAIN w : /\ floor[i] \in Int /\ rest[i] \in Nat /\ rest[i] < sum
                             /\ Calculation!Exact(total, w, i) = floor[i] * sum + rest[i]
<1> SUFFICES ASSUME NEW i \in DOMAIN w
             PROVE  /\ floor[i] \in Int /\ rest[i] \in Nat /\ rest[i] < sum
                    /\ Calculation!Exact(total, w, i) = floor[i] * sum + rest[i]
  OBVIOUS
<1>1. PICK x \in Int : x = w[i]
  BY DEF Weights
<1>2. PICK y \in Int : y = total * x
  OBVIOUS
<1>3. PICK e \in Int : e = Calculation!Exact(total, w, i)
  BY <1>1, <1>2 DEF Calculation!Exact
<1>4. PICK s \in Nat \ {0} : s = sum
  BY DEF Floored
<1>5. e \div s \in Int /\ e % s \in Nat /\ e % s < s /\ e = (e \div s) * s + (e % s)
  OBVIOUS
<1> QED
  BY <1>3, <1>4, <1>5 DEF Floored

LEMMA LeftOver ==
  ASSUME NEW w, Weights(w), NEW total \in Int, NEW sum, NEW floor, NEW rest,
         Floored(w, total, sum, floor, rest)
  PROVE  /\ Summable(floor, DOMAIN w)
         /\ total - Sum(floor, DOMAIN w) \in Nat /\ total - Sum(floor, DOMAIN w) <= Len(w)
<1>1. /\ Summable(w, DOMAIN w) /\ DOMAIN w = 1..Len(w) /\ Len(w) \in Nat
      /\ Calculation!Total(w) = Sum(w, DOMAIN w) /\ Calculation!Total(w) \in Int
  BY SequenceTotal, CalculationTotal DEF Weights
<1>2. PICK S : S = DOMAIN w /\ IsFiniteSet(S)
  BY <1>1 DEF Summable
<1>3. \A i \in S : /\ floor[i] \in Int /\ rest[i] \in Nat /\ rest[i] < sum
                   /\ Calculation!Exact(total, w, i) = floor[i] * sum + rest[i]
  BY <1>2, FlooredParts
<1>4. PICK s \in Nat \ {0} : s = sum /\ s = Calculation!Abs(Sum(w, S))
  BY <1>1, <1>2 DEF Floored
<1>5. PICK c \in Int : c = IF Sum(w, S) < 0 THEN -total ELSE total
  OBVIOUS
<1>6. PICK exact : exact = [i \in S |-> Calculation!Exact(total, w, i)]
  OBVIOUS
<1>7. ASSUME NEW i \in S PROVE exact[i] = w[i] * c
  <2>1. PICK x \in Int, y \in Int : x = w[i] /\ y = total * x
    BY <1>1, <1>2 DEF Summable
  <2>2. x * c = IF Sum(w, S) < 0 THEN -y ELSE y
    BY <1>5, <2>1
  <2> QED
    BY <1>1, <1>2, <1>6, <2>1, <2>2 DEF Calculation!Exact
<1>8. Sum(exact, S) = Sum(w, S) * c
  <2>1. Summable(w, S) /\ \A i \in S : exact[i] = w[i] * c
    BY <1>1, <1>2, <1>7
  <2> QED
    BY ONLY <2>1, c \in Int, SumScaled
<1>9. Sum(w, S) * c = total * s
  <2>1. PICK v \in Int : v = Sum(w, S) /\ s = Calculation!Abs(v)
    BY <1>1, <1>2, <1>4
  <2>2. CASE v < 0
    <3>1. s = -v /\ c = -total
      BY <1>5, <2>1, <2>2, AbsType
    <3>2. v * (-total) = total * (-v)
      OBVIOUS
    <3> QED
      BY <2>1, <3>1, <3>2
  <2>3. CASE ~(v < 0)
    <3>1. s = v /\ c = total
      BY <1>5, <2>1, <2>3, AbsType
    <3>2. v * total = total * v
      OBVIOUS
    <3> QED
      BY <2>1, <3>1, <3>2
  <2> QED
    BY <2>2, <2>3
<1>10. PICK scaled : scaled = [i \in S |-> floor[i] * s]
  OBVIOUS
<1>11. \A i \in S : scaled[i] = floor[i] * s
  BY <1>10
<1>12. Summable(floor, S)
  BY <1>2, <1>3 DEF Summable
<1>13. Sum(scaled, S) = Sum(floor, S) * s
  BY <1>11, <1>12, SumScaled
<1>14. \A i \in S : scaled[i] \in Int /\ rest[i] \in Int /\ exact[i] = scaled[i] + rest[i]
  BY <1>3, <1>4, <1>6, <1>11
<1>15. Sum(exact, S) = Sum(scaled, S) + Sum(rest, S)
  BY <1>2, <1>14, SumPlus
<1>16. Summable(rest, S) /\ \A i \in S : 0 <= rest[i] /\ rest[i] <= s
  BY <1>2, <1>3, <1>4 DEF Summable
<1>17. /\ Sum(rest, S) \in Int /\ Cardinality(S) * 0 <= Sum(rest, S) /\ Sum(rest, S) <= Cardinality(S) * s
       /\ Cardinality(S) \in Nat
  <2>1. 0 \in Int /\ s \in Int
    OBVIOUS
  <2> QED
    BY <1>16, <2>1, SumBetween
<1>18. PICK n \in Nat : n = Len(w) /\ n = Cardinality(S)
  <2>1. PICK n \in Nat : n = Len(w) /\ S = 1..n
    BY <1>1, <1>2, ZenonT(60)
  <2>2. 1 \in Int /\ n \in Int
    OBVIOUS
  <2>3. Cardinality(1..n) = IF 1 > n THEN 0 ELSE n - 1 + 1
    BY ONLY <2>2, FS_Interval
  <2> QED
    BY <2>1, <2>3, SMTT(60)
<1>19. PICK r \in Int, p \in Int, q \in Int : r = total - q /\ q = Sum(floor, S) /\ p = Sum(rest, S)
  <2>1. Sum(floor, S) \in Int
    BY <1>12, SumIsInt
  <2> QED
    BY <1>17, <2>1
<1>20. r * s = p
  <2>1. total * s = q * s + p
    BY <1>8, <1>9, <1>13, <1>15, <1>19
  <2>2. (total - q) * s = total * s - q * s
    OBVIOUS
  <2> QED
    BY <1>19, <2>1, <2>2
<1>21. 0 <= p /\ p <= n * s
  BY <1>17, <1>18, <1>19
<1>22. 0 <= r
  <2>1. r < 0 => r * s < 0
    OBVIOUS
  <2> QED
    BY <1>20, <1>21, <2>1
<1>23. r <= n
  <2>1. r > n => r * s > n * s
    OBVIOUS
  <2>2. r * s \in Int /\ n * s \in Int
    OBVIOUS
  <2> QED
    BY <1>20, <1>21, <2>1, <2>2
<1> QED
  BY <1>2, <1>12, <1>18, <1>19, <1>22, <1>23

Before(rest, S) == [i \in S |-> {j \in S : rest[j] > rest[i] \/ (rest[j] = rest[i] /\ j < i)}]

LEMMA BeforeRanks ==
  ASSUME NEW n \in Nat, NEW rest, \A i \in 1..n : rest[i] \in Nat
  PROVE  Ranks(Before(rest, 1..n), 1..n)
<1>1. IsFiniteSet(1..n)
  <2>1. 1 \in Int /\ n \in Int
    OBVIOUS
  <2> QED
    BY ONLY <2>1, FS_Interval
<1>2. PICK B : B = Before(rest, 1..n)
  OBVIOUS
<1>3. \A x, y \in 1..n : x \in B[y] <=> rest[x] > rest[y] \/ (rest[x] = rest[y] /\ x < y)
  BY <1>2 DEF Before
<1>4. \A x \in 1..n : B[x] \in SUBSET (1..n)
  BY <1>2 DEF Before
<1>5. \A x \in 1..n : x \notin B[x]
  BY <1>3
<1>6. \A x, y \in 1..n : x # y => x \in B[y] \/ y \in B[x]
  BY <1>3
<1>7. ASSUME NEW x \in 1..n, NEW y \in 1..n, x \in B[y], NEW z \in B[x] PROVE z \in B[y]
  <2>1. z \in 1..n
    BY <1>4, <1>7
  <2> QED
    BY <1>3, <1>7, <2>1
<1> QED
  BY <1>1, <1>2, <1>4, <1>5, <1>6, <1>7 DEF Ranks

(* Where a unit more is for the first r, r units are given.                 *)
LEMMA UnitsGiven ==
  ASSUME NEW n \in Nat, NEW rest, \A i \in 1..n : rest[i] \in Nat, NEW r \in Nat, r <= n
  PROVE  LET bonus == [i \in 1..n |-> IF Cardinality(Before(rest, 1..n)[i]) < r THEN 1 ELSE 0]
         IN Summable(bonus, 1..n) /\ Sum(bonus, 1..n) = r
<1>1. PICK S, B : S = 1..n /\ B = Before(rest, S)
  OBVIOUS
<1>2. Ranks(B, S)
  BY <1>1, BeforeRanks
<1>3. IsFiniteSet(S) /\ Cardinality(S) = n
  <2>1. 1 \in Int /\ n \in Int
    OBVIOUS
  <2>2. IsFiniteSet(1..n) /\ Cardinality(1..n) = IF 1 > n THEN 0 ELSE n - 1 + 1
    BY ONLY <2>1, FS_Interval
  <2> QED
    BY <1>1, <2>2
<1>4. PICK low : low = {x \in S : Cardinality(B[x]) < r}
  OBVIOUS
<1>5. Cardinality(low) = r
  BY <1>2, <1>3, <1>4, Ranking
<1>6. PICK bonus : bonus = [i \in S |-> IF Cardinality(B[i]) < r THEN 1 ELSE 0]
  OBVIOUS
<1>7. \A i \in S : bonus[i] \in Int
  BY <1>6
<1>8. low \in SUBSET S /\ (\A i \in S \ low : bonus[i] = 0) /\ (\A i \in low : bonus[i] = 1)
  BY <1>4, <1>6
<1>9. IsFiniteSet(low)
  BY <1>3, <1>8, FS_Subset
<1>10. Sum(bonus, S) = Sum(bonus, low)
  BY <1>3, <1>7, <1>8, SumSubset
<1>11. Sum(bonus, low) = Cardinality(low) * 1
  <2>1. 1 \in Int
    OBVIOUS
  <2> QED
    BY <1>8, <1>9, <2>1, SumConstant
<1>12. Summable(bonus, S) /\ Sum(bonus, S) = r
  BY <1>3, <1>5, <1>7, <1>10, <1>11 DEF Summable
<1> QED
  BY <1>1, <1>6, <1>12

LEMMA Allocated ==
  ASSUME NEW w, Weights(w), NEW total \in Int
  PROVE  LET a == Calculation!AllocateProportionally(total, w)
         IN /\ a \in [1..Len(w) -> Int] /\ Calculation!Total(a) = total
            /\ total >= 0 /\ (\A i \in 1..Len(w) : w[i] >= 0) => \A i \in 1..Len(w) : a[i] >= 0
<1>1. /\ Summable(w, DOMAIN w) /\ DOMAIN w = 1..Len(w) /\ Len(w) \in Nat
      /\ Calculation!Total(w) = Sum(w, DOMAIN w) /\ Calculation!Total(w) \in Int
  BY SequenceTotal, CalculationTotal, SMTT(60) DEF Weights
<1>2. PICK n \in Nat : n = Len(w) /\ DOMAIN w = 1..n
  BY <1>1, ZenonT(60)
<1>3. PICK sum \in Nat \ {0} : sum = Calculation!Abs(Calculation!Total(w))
  BY <1>1, AbsType DEF Weights
<1>4. PICK floor, rest, a :
        /\ floor = [i \in DOMAIN w |-> Calculation!Exact(total, w, i) \div sum]
        /\ rest = [i \in DOMAIN w |-> Calculation!Exact(total, w, i) % sum]
        /\ a = Calculation!AllocateProportionally(total, w)
  OBVIOUS
<1>5. Floored(w, total, sum, floor, rest)
  BY <1>3, <1>4 DEF Floored
<1>6. \A i \in 1..n : /\ floor[i] \in Int /\ rest[i] \in Nat /\ rest[i] < sum
                      /\ Calculation!Exact(total, w, i) = floor[i] * sum + rest[i]
  BY <1>2, <1>5, FlooredParts
<1>7. PICK r \in Nat : r = total - Sum(floor, 1..n) /\ r <= n /\ Summable(floor, 1..n)
  BY <1>2, <1>5, LeftOver
<1>8. a = LET s == Calculation!Abs(Calculation!Total(w))
              f == [i \in DOMAIN w |-> Calculation!Exact(total, w, i) \div s]
              p == [i \in DOMAIN w |-> Calculation!Exact(total, w, i) % s]
          IN [i \in DOMAIN w |->
                f[i] + IF Calculation!Cardinality({j \in DOMAIN w : p[j] > p[i] \/ (p[j] = p[i] /\ j < i)})
                            < total - Calculation!Total(f) THEN 1 ELSE 0]
  BY <1>4, Zenon DEF Calculation!AllocateProportionally
<1>9. a = [i \in DOMAIN w |->
             floor[i] + IF Calculation!Cardinality({j \in DOMAIN w : rest[j] > rest[i] \/ (rest[j] = rest[i] /\ j < i)})
                             < total - Calculation!Total(floor) THEN 1 ELSE 0]
  BY ONLY <1>3, <1>4, <1>8, Zenon
<1>10. total - Calculation!Total(floor) = r
  BY <1>2, <1>4, <1>7, CalculationTotal
<1>11. PICK bonus : bonus = [i \in 1..n |-> IF Cardinality(Before(rest, 1..n)[i]) < r THEN 1 ELSE 0]
  OBVIOUS
<1>12. Summable(bonus, 1..n) /\ Sum(bonus, 1..n) = r
  <2>1. \A i \in 1..n : rest[i] \in Nat
    BY <1>6
  <2>2. r <= n
    BY <1>7
  <2>3. LET units == [i \in 1..n |-> IF Cardinality(Before(rest, 1..n)[i]) < r THEN 1 ELSE 0]
        IN Summable(units, 1..n) /\ Sum(units, 1..n) = r
    BY ONLY n \in Nat, r \in Nat, <2>1, <2>2, UnitsGiven
  <2> QED
    BY ONLY <1>11, <2>3
<1>13. \A i \in 1..n : bonus[i] \in {0, 1}
  BY <1>11
<1>14. ASSUME NEW i \in 1..n PROVE a[i] = floor[i] + bonus[i]
  <2>1. Before(rest, 1..n)[i] = {j \in 1..n : rest[j] > rest[i] \/ (rest[j] = rest[i] /\ j < i)}
    BY DEF Before
  <2>2. a[i] = floor[i] + IF Calculation!Cardinality({j \in 1..n : rest[j] > rest[i] \/ (rest[j] = rest[i] /\ j < i)})
                             < r THEN 1 ELSE 0
    BY <1>2, <1>9, <1>10
  <2>3. bonus[i] = IF Cardinality({j \in 1..n : rest[j] > rest[i] \/ (rest[j] = rest[i] /\ j < i)}) < r THEN 1 ELSE 0
    BY <1>11, <2>1
  <2> QED
    BY ONLY <2>2, <2>3, CalculationCardinality
<1>15. DOMAIN a = 1..n /\ \A i \in 1..n : a[i] \in Int
  BY <1>2, <1>6, <1>9, <1>13, <1>14
<1>16. a \in [1..n -> Int]
  BY <1>2, <1>9, <1>15
<1>17. Sum(a, 1..n) = Sum(floor, 1..n) + Sum(bonus, 1..n)
  <2>1. IsFiniteSet(1..n) /\ \A i \in 1..n : floor[i] \in Int /\ bonus[i] \in Int /\ a[i] = floor[i] + bonus[i]
    BY <1>7, <1>12, <1>14 DEF Summable
  <2> QED
    BY <2>1, SumPlus
<1>18. Calculation!Total(a) = total
  <2>1. Calculation!Total(a) = Sum(a, 1..n)
    BY <1>15, CalculationTotal
  <2>2. Sum(floor, 1..n) \in Int
    BY <1>7, SumIsInt
  <2> QED
    BY <1>7, <1>12, <1>17, <2>1, <2>2
<1>19. ASSUME total >= 0, \A i \in 1..n : w[i] >= 0, NEW i \in 1..n
       PROVE  a[i] >= 0
  <2>1. \A j \in DOMAIN w : w[j] \in Nat
    BY <1>1, <1>2, <1>19 DEF Summable
  <2>2. Sum(w, DOMAIN w) \in Nat
    BY <1>1, <2>1, SumNat DEF Summable
  <2>3. PICK x \in Nat, y \in Nat : x = w[i] /\ y = total * x
    <3>1. PICK x \in Nat : x = w[i]
      BY <1>2, <2>1
    <3>2. total * x \in Nat
      BY <1>19
    <3> QED
      BY <3>1, <3>2
  <2>4. Calculation!Exact(total, w, i) = y
    BY <1>1, <2>2, <2>3 DEF Calculation!Exact
  <2>5. PICK f \in Int, p \in Nat : f = floor[i] /\ p = rest[i] /\ p < sum /\ y = f * sum + p
    BY <1>6, <2>4
  <2>6. f >= 0
    <3>1. f < 0 => f * sum <= -sum
      <4>1. f < 0 => f + 1 <= 0
        OBVIOUS
      <4>2. f + 1 <= 0 => (f + 1) * sum <= 0
        OBVIOUS
      <4>3. (f + 1) * sum = f * sum + sum
        OBVIOUS
      <4>4. PICK m \in Int : m = f * sum
        OBVIOUS
      <4> QED
        BY <4>1, <4>2, <4>3, <4>4
    <3>2. PICK m \in Int : m = f * sum
      OBVIOUS
    <3>3. m + p >= 0
      BY <2>5, <3>2
    <3> QED
      BY <2>5, <3>1, <3>2, <3>3
  <2> QED
    BY <1>13, <1>14, <2>5, <2>6
<1> QED
  BY <1>2, <1>4, <1>16, <1>18, <1>19

(* Rates and what can be recovered are numbers.                             *)
TaxesOf(cs) ==
  /\ Len(cs) \in Nat /\ DOMAIN cs = 1..Len(cs)
  /\ \A i \in 1..Len(cs) : cs[i].rate \in Int /\ cs[i].recoverable \in 0..100
(* None of them is negative.                                                *)
Charged(cs) == \A i \in 1..Len(cs) : cs[i].rate \in Nat

LEMMA CodeTaxes ==
  ASSUME NEW code \in ChargedCodes
  PROVE  code.inclusive \in BOOLEAN /\ TaxesOf(code.components)
<1>1. PICK cs : cs = code.components
  OBVIOUS
<1>2. /\ code.inclusive \in BOOLEAN /\ cs \in Seq(Calculation!Range(cs))
      /\ \A c \in Calculation!Range(cs) : c.rate \in Int /\ c.recoverable \in 0..100
  BY <1>1, FiguresAssumption DEF Calculation!CodesAssumption
<1>3. Len(cs) \in Nat /\ DOMAIN cs = 1..Len(cs) /\ \A i \in 1..Len(cs) : cs[i] \in Calculation!Range(cs)
  BY <1>2
<1> QED
  BY <1>1, <1>2, <1>3 DEF TaxesOf

LEMMA RoundedIsNat ==
  ASSUME NEW n \in Nat, NEW d \in Nat \ {0}, NEW m
  PROVE  Calculation!RoundedDiv(n, d, m) \in Nat /\ (n = 0 => Calculation!RoundedDiv(n, d, m) = 0)
<1>1. PICK q, r, size : RoundsTo(n, d, m, q, r, size)
  BY RoundedSize
<1>2. /\ q \in Nat /\ r \in Nat /\ size \in Nat /\ n = q * d + r
      /\ size = q \/ (size = q + 1 /\ r # 0)
      /\ Calculation!RoundedDiv(n, d, m) = size
  BY <1>1, AbsType DEF RoundsTo
<1>3. n = 0 => size = 0
  <2>1. PICK p \in Nat : p = q * d /\ (q # 0 => p # 0)
    <3>1. PICK k \in Nat : k = q
      BY <1>2
    <3>2. k * d \in Nat /\ (k # 0 => k * d # 0)
      OBVIOUS
    <3> QED
      BY <3>1, <3>2
  <2> QED
    BY <1>2, <2>1
<1> QED
  BY <1>2, <1>3

LEMMA SequenceOfNat ==
  ASSUME NEW s \in Seq(Nat)
  PROVE  Calculation!Total(s) \in Nat
<1>1. s \in Seq(Int)
  OBVIOUS
<1>2. Summable(s, DOMAIN s) /\ \A i \in DOMAIN s : s[i] \in Nat
  BY <1>1, SequenceTotal
<1> QED
  BY <1>2, SumNat, CalculationTotal DEF Summable

LEMMA SequenceOfZeros ==
  ASSUME NEW s \in Seq({0})
  PROVE  Calculation!Total(s) = 0
<1>1. s \in Seq(Int) /\ s \in Seq(Nat)
  OBVIOUS
<1>2. Summable(s, DOMAIN s) /\ \A i \in DOMAIN s : s[i] \in Nat /\ s[i] = 0
  BY <1>1, SequenceTotal
<1> QED
  BY <1>2, SumNat, CalculationTotal DEF Summable

LEMMA NominalTaxes ==
  ASSUME NEW base \in Int, NEW cs, TaxesOf(cs), NEW m
  PROVE  LET t == Calculation!ComponentTaxes(base, cs, m)
         IN /\ t \in Seq(Int) /\ Len(t) = Len(cs)
            /\ base \in Nat /\ Charged(cs) => t \in Seq(Nat)
            /\ base = 0 => t \in Seq({0})
<1>0. 100 \in Nat \ {0} /\ 100 \in Int \ {0}
  OBVIOUS
<1>1. PICK t : t = Calculation!ComponentTaxes(base, cs, m)
  OBVIOUS
<1>2. Charges(base, cs, m, Int)
  <2>1. ASSUME NEW i \in 1..Len(cs), NEW before \in Seq(Int) PROVE Charge(base, cs, m, i, before) \in Int
    <3>1. PICK x \in Int : x = IF cs[i].compound THEN base + Calculation!Total(before) ELSE base
      BY SequenceTotal
    <3>2. PICK y \in Int : y = x * cs[i].rate
      BY DEF TaxesOf
    <3>3. Charge(base, cs, m, i, before) = Calculation!RoundedDiv(y, 100, m)
      BY <3>1, <3>2 DEF Charge
    <3> QED
      BY <1>0, <3>3, RoundedIsInt
  <2> QED
    BY <2>1 DEF Charges, TaxesOf
<1>3. t \in Seq(Int) /\ Len(t) = Len(cs)
  BY <1>1, <1>2, ComponentTaxesIn
<1>4. ASSUME base \in Nat, Charged(cs) PROVE t \in Seq(Nat)
  <2>1. ASSUME NEW i \in 1..Len(cs), NEW before \in Seq(Nat) PROVE Charge(base, cs, m, i, before) \in Nat
    <3>1. PICK x \in Nat : x = IF cs[i].compound THEN base + Calculation!Total(before) ELSE base
      BY <1>4, SequenceOfNat
    <3>2. PICK y \in Nat : y = x * cs[i].rate
      <4>1. PICK c \in Nat : c = cs[i].rate
        BY <1>4 DEF Charged
      <4>2. x * c \in Nat
        OBVIOUS
      <4> QED
        BY <4>1, <4>2
    <3>3. Charge(base, cs, m, i, before) = Calculation!RoundedDiv(y, 100, m)
      BY <3>1, <3>2 DEF Charge
    <3> QED
      BY <1>0, <3>3, RoundedIsNat
  <2>2. Charges(base, cs, m, Nat)
    BY <2>1 DEF Charges, TaxesOf
  <2> QED
    BY <1>1, <2>2, ComponentTaxesIn
<1>5. ASSUME base = 0 PROVE t \in Seq({0})
  <2>1. ASSUME NEW i \in 1..Len(cs), NEW before \in Seq({0}) PROVE Charge(base, cs, m, i, before) \in {0}
    <3>1. 0 = IF cs[i].compound THEN base + Calculation!Total(before) ELSE base
      BY <1>5, SequenceOfZeros
    <3>2. 0 = 0 * cs[i].rate
      BY DEF TaxesOf
    <3>3. Charge(base, cs, m, i, before) = Calculation!RoundedDiv(0, 100, m)
      BY <3>1, <3>2 DEF Charge
    <3>4. 0 \in Nat
      OBVIOUS
    <3> QED
      BY <1>0, <3>3, <3>4, RoundedIsNat
  <2>2. Charges(base, cs, m, {0})
    BY <2>1 DEF Charges, TaxesOf
  <2> QED
    BY <1>1, <2>2, ComponentTaxesIn
<1> QED
  BY <1>1, <1>3, <1>4, <1>5

LEMMA EffectiveRates ==
  ASSUME NEW cs, TaxesOf(cs)
  PROVE  LET e == Calculation!EffectiveRate(cs)
         IN /\ e.rate \in Int /\ e.one \in Nat \ {0}
            /\ Charged(cs) => e.rate \in Nat
<1>1. PICK e : e = Calculation!EffectiveRate(cs)
  OBVIOUS
<1>2. e \in [rate : Int, one : Nat \ {0}]
  <2>1. ASSUME NEW i \in 1..Len(cs), NEW before \in [rate : Int, one : Nat \ {0}]
        PROVE  Compounds(before, cs[i]) \in [rate : Int, one : Nat \ {0}]
    <3>1. PICK rate \in Int, one \in Nat \ {0}, y \in Int : rate = before.rate /\ one = before.one /\ y = cs[i].rate
      BY DEF TaxesOf
    <3>2. PICK x \in Int : x = one + IF cs[i].compound THEN rate ELSE 0
      <4>1. one + (IF cs[i].compound THEN rate ELSE 0) \in Int
        OBVIOUS
      <4> QED
        BY <4>1
    <3>3. PICK z \in Int : z = y * x
      <4>1. y * x \in Int
        OBVIOUS
      <4> QED
        BY <4>1
    <3>4. Compounds(before, cs[i]) = [rate |-> 100 * rate + z, one |-> 100 * one]
      BY <3>1, <3>2, <3>3, Zenon DEF Compounds
    <3>5. 100 * rate + z \in Int /\ 100 * one \in Nat \ {0}
      OBVIOUS
    <3> QED
      BY <3>4, <3>5
  <2>2. Compounding(cs, [rate : Int, one : Nat \ {0}])
    BY <2>1 DEF Compounding, TaxesOf
  <2> QED
    BY <1>1, <2>2, EffectiveRateIn
<1>3. ASSUME Charged(cs) PROVE e \in [rate : Nat, one : Nat \ {0}]
  <2>1. ASSUME NEW i \in 1..Len(cs), NEW before \in [rate : Nat, one : Nat \ {0}]
        PROVE  Compounds(before, cs[i]) \in [rate : Nat, one : Nat \ {0}]
    <3>1. PICK rate \in Nat, one \in Nat \ {0}, y \in Nat : rate = before.rate /\ one = before.one /\ y = cs[i].rate
      BY <1>3 DEF Charged
    <3>2. PICK x \in Nat : x = one + IF cs[i].compound THEN rate ELSE 0
      <4>1. one + (IF cs[i].compound THEN rate ELSE 0) \in Nat
        OBVIOUS
      <4> QED
        BY <4>1
    <3>3. PICK z \in Nat : z = y * x
      <4>1. y * x \in Nat
        OBVIOUS
      <4> QED
        BY <4>1
    <3>4. Compounds(before, cs[i]) = [rate |-> 100 * rate + z, one |-> 100 * one]
      BY <3>1, <3>2, <3>3, Zenon DEF Compounds
    <3>5. 100 * rate + z \in Nat /\ 100 * one \in Nat \ {0}
      OBVIOUS
    <3> QED
      BY <3>4, <3>5
  <2>2. Compounding(cs, [rate : Nat, one : Nat \ {0}])
    BY <2>1 DEF Compounding, TaxesOf
  <2> QED
    BY <1>1, <2>2, EffectiveRateIn
<1> QED
  BY <1>1, <1>2, <1>3

(* A line of a net and a tax for each component: an inclusive price is what *)
(* they come to, and no tax is negative that is charged on nothing negative.*)
LineOf(item, m, l, net, taxes) ==
  LET cs == item.code.components IN
  /\ net \in Int /\ taxes \in [1..Len(cs) -> Int] /\ TaxesOf(cs)
  /\ l = Calculation!CalculatedLine(net, taxes, cs, m)
  /\ Calculation!Includes(item) /\ Calculation!Total(taxes) # 0 =>
       net + Calculation!Total(taxes) = Calculation!AfterDiscount(item, m)
  /\ net >= 0 /\ Charged(cs) => \A i \in 1..Len(cs) : taxes[i] >= 0
IsLine(item, m, l) == \E net, taxes : LineOf(item, m, l, net, taxes)

LEMMA StatedType ==
  ASSUME NEW item \in Calculation!StatedLine
  PROVE  item.code \in ChargedCodes /\ item.code.inclusive \in BOOLEAN /\ TaxesOf(item.code.components)
         /\ \A m : Calculation!AfterDiscount(item, m) \in Int
<1>1. item.code \in ChargedCodes /\ item.amount \in Int /\ item.discount \in Int
  BY FiguresAssumption DEF Calculation!CodesAssumption, Calculation!StatedLine
<1>2. ASSUME NEW m PROVE Calculation!AfterDiscount(item, m) \in Int
  <2>1. 10 \in Int \ {0}
    OBVIOUS
  <2>2. Calculation!RoundedDiv(item.amount, 10, m) \in Int /\ Calculation!RoundedDiv(item.discount, 10, m) \in Int
    BY <1>1, <2>1, RoundedIsInt
  <2> QED
    BY <2>2 DEF Calculation!AfterDiscount
<1> QED
  BY <1>1, <1>2, CodeTaxes

LEMMA ExclusiveIsLine ==
  ASSUME NEW item \in Calculation!StatedLine, NEW m, ~Calculation!Includes(item)
  PROVE  IsLine(item, m, Calculation!CalculateLine(item, m))
<1>0. PICK net \in Int : net = Calculation!AfterDiscount(item, m)
  BY StatedType
<1>1. PICK cs : cs = item.code.components /\ TaxesOf(cs) /\ net = Calculation!AfterDiscount(item, m)
  BY <1>0, StatedType
<1>2. PICK t : t = Calculation!ComponentTaxes(net, cs, m) /\ t \in Seq(Int) /\ Len(t) = Len(cs)
               /\ (net \in Nat /\ Charged(cs) => t \in Seq(Nat))
  BY <1>1, NominalTaxes
<1>3. PICK n \in Nat : n = Len(cs)
  BY <1>1 DEF TaxesOf
<1>4. t \in [1..n -> Int] /\ (net >= 0 /\ Charged(cs) => \A i \in 1..n : t[i] >= 0)
  <2>1. t \in [1..n -> Int]
    BY <1>2, <1>3
  <2>2. ASSUME net >= 0, Charged(cs), NEW i \in 1..n PROVE t[i] >= 0
    <3>1. t \in Seq(Nat) /\ i \in 1..Len(t)
      BY <1>2, <1>3, <2>2
    <3> QED
      BY <3>1
  <2> QED
    BY <2>1, <2>2
<1>5. Calculation!CalculateLine(item, m) = Calculation!CalculatedLine(net, t, cs, m)
  BY <1>1, <1>2 DEF Calculation!CalculateLine, Calculation!ExclusiveLine
<1>6. LineOf(item, m, Calculation!CalculateLine(item, m), net, t)
  BY <1>1, <1>3, <1>4, <1>5 DEF LineOf
<1> QED
  BY <1>6 DEF IsLine

(* The net of a price that includes its taxes is no more than the price.    *)
LEMMA NetIsLess ==
  ASSUME NEW gross \in Int, NEW one \in Nat \ {0}, NEW rate \in Nat, NEW m,
         Calculation!RoundedDiv(gross * one, one + rate, m) > 0
  PROVE  Calculation!RoundedDiv(gross * one, one + rate, m) <= gross
<1>1. PICK n \in Int, d \in Nat \ {0} : n = gross * one /\ d = one + rate
  <2>1. gross * one \in Int /\ one + rate \in Nat \ {0}
    OBVIOUS
  <2> QED
    BY <2>1
<1>2. PICK q, r, size : RoundsTo(n, d, m, q, r, size)
  BY RoundedSize
<1>3. PICK Q \in Nat, W \in Nat, s \in Nat : Q = q /\ W = r /\ s = size /\ (s = Q \/ (s = Q + 1 /\ W # 0))
  BY <1>2 DEF RoundsTo
<1>4. n >= 0 /\ Calculation!RoundedDiv(n, d, m) = s /\ n = Q * d + W
  <2>1. Calculation!RoundedDiv(n, d, m) = IF n < 0 THEN -s ELSE s
    BY <1>2, <1>3 DEF RoundsTo
  <2>2. n >= 0
    BY <1>1, <2>1
  <2>3. Calculation!Abs(n) = Q * d + W
    BY <1>2, <1>3 DEF RoundsTo
  <2> QED
    BY <2>1, <2>2, <2>3, AbsType
<1>5. Q * d = Q * one + Q * rate /\ Q * rate \in Nat /\ Q * one \in Nat
  BY <1>1
<1>6. gross * one >= Q * one /\ (W # 0 => gross * one > Q * one)
  <2>1. PICK a \in Nat, b \in Nat : a = Q * rate /\ b = Q * one
    BY <1>5
  <2>2. n = b + a + W
    BY <1>4, <1>5, <2>1
  <2>3. n >= b /\ (W # 0 => n > b)
    BY <2>2
  <2> QED
    BY <1>1, <2>1, <2>3
<1>7. gross < Q => gross * one < Q * one
  <2>1. PICK lack \in Int : lack = Q - gross
    OBVIOUS
  <2>2. lack >= 1 => lack * one >= 1
    OBVIOUS
  <2>3. lack * one = Q * one - gross * one
    BY <2>1
  <2>4. PICK x \in Int, y \in Int, z \in Int : x = gross * one /\ y = Q * one /\ z = lack * one
    OBVIOUS
  <2> QED
    BY ONLY lack \in Int, gross \in Int, Q \in Nat, <2>1, <2>2, <2>3, <2>4
<1>8. gross <= Q => gross * one <= Q * one
  OBVIOUS
<1>9. PICK x \in Int, y \in Int : x = gross * one /\ y = Q * one
  OBVIOUS
<1>10. gross >= Q /\ (W # 0 => gross > Q)
  BY <1>6, <1>7, <1>8, <1>9
<1> QED
  BY <1>1, <1>3, <1>4, <1>10

LEMMA InclusiveIsLine ==
  ASSUME NEW item \in Calculation!StatedLine, NEW m, Calculation!Includes(item), Calculation!Calculable(item, m)
  PROVE  IsLine(item, m, Calculation!CalculateLine(item, m))
<1>0. PICK gross \in Int : gross = Calculation!AfterDiscount(item, m)
  BY StatedType
<1>1. PICK cs : cs = item.code.components /\ TaxesOf(cs) /\ gross = Calculation!AfterDiscount(item, m)
  BY <1>0, StatedType
<1>2. PICK one \in Nat \ {0}, rate \in Int :
        /\ one = Calculation!EffectiveRate(cs).one /\ rate = Calculation!EffectiveRate(cs).rate
        /\ Charged(cs) => rate \in Nat
  BY <1>1, EffectiveRates
<1>3. one + rate # 0
  BY <1>1, <1>2 DEF Calculation!Calculable, Calculation!Divisible
<1>4. PICK net \in Int : net = Calculation!RoundedDiv(gross * one, one + rate, m)
  <2>1. gross * one \in Int /\ one + rate \in Int \ {0}
    BY <1>3
  <2> QED
    BY <2>1, RoundedIsInt
<1>5. PICK tax \in Int : tax = gross - net
  OBVIOUS
<1>6. Calculation!Derived(item, m) = [net |-> net, tax |-> tax]
  BY <1>1, <1>2, <1>4, <1>5 DEF Calculation!Derived, Calculation!DeriveInclusive
<1>7. PICK t : t = Calculation!ComponentTaxes(net, cs, m) /\ t \in Seq(Int) /\ Len(t) = Len(cs)
               /\ (net \in Nat /\ Charged(cs) => t \in Seq(Nat)) /\ (net = 0 => t \in Seq({0}))
  BY <1>1, NominalTaxes
<1>8. PICK n \in Nat : n = Len(cs) /\ DOMAIN t = 1..n /\ t \in [1..n -> Int]
  <2>1. PICK n \in Nat : n = Len(cs)
    BY <1>1 DEF TaxesOf
  <2>2. DOMAIN t = 1..n /\ t \in [1..n -> Int]
    BY <1>7, <2>1
  <2> QED
    BY <2>1, <2>2
<1>9. PICK shares : shares = Calculation!Shares(tax, t)
  OBVIOUS
<1>10. Calculation!CalculateLine(item, m) = Calculation!CalculatedLine(net, shares, cs, m)
  BY <1>1, <1>6, <1>7, <1>9 DEF Calculation!CalculateLine, Calculation!InclusiveLine
<1>11. CASE \A i \in 1..n : t[i] = 0
  <2>1. shares = t
    BY <1>8, <1>9, <1>11 DEF Calculation!Shares
  <2>2. Calculation!Total(t) = 0
    <3>1. t \in Seq({0})
      BY <1>7, <1>8, <1>11
    <3> QED
      BY <3>1, SequenceOfZeros
  <2>3. LineOf(item, m, Calculation!CalculateLine(item, m), net, shares)
    BY <1>1, <1>8, <1>10, <1>11, <2>1, <2>2 DEF LineOf
  <2> QED
    BY <2>3 DEF IsLine
<1>12. CASE ~\A i \in 1..n : t[i] = 0
  <2>1. shares = Calculation!AllocateProportionally(tax, t)
    BY <1>8, <1>9, <1>12 DEF Calculation!Shares
  <2>2. Calculation!Total(t) # 0
    BY <1>1, <1>6, <1>7, <1>8, <1>12 DEF Calculation!Calculable, Calculation!Shareable
  <2>3. Weights(t)
    BY <1>7, <2>2 DEF Weights
  <2>4. LET a == Calculation!AllocateProportionally(tax, t)
        IN /\ a \in [1..Len(t) -> Int] /\ Calculation!Total(a) = tax
           /\ tax >= 0 /\ (\A i \in 1..Len(t) : t[i] >= 0) => \A i \in 1..Len(t) : a[i] >= 0
    BY <2>3, Allocated
  <2>5. /\ shares \in [1..n -> Int] /\ Calculation!Total(shares) = tax
        /\ tax >= 0 /\ (\A i \in 1..n : t[i] >= 0) => \A i \in 1..n : shares[i] >= 0
    BY <1>7, <1>8, <2>1, <2>4
  <2>6. ASSUME net >= 0, Charged(cs) PROVE \A i \in 1..n : shares[i] >= 0
    <3>1. net # 0
      <4>1. t \in Seq({0}) => \A i \in 1..n : t[i] = 0
        BY <1>8
      <4> QED
        BY <1>7, <1>12, <4>1
    <3>2. rate \in Nat /\ net > 0
      BY <1>2, <2>6, <3>1
    <3>3. net <= gross
      BY <1>4, <3>2, NetIsLess
    <3>4. \A i \in 1..n : t[i] >= 0
      <4>1. t \in Seq(Nat)
        BY <1>7, <2>6
      <4> QED
        BY <1>8, <4>1
    <3> QED
      BY <1>5, <2>5, <3>3, <3>4
  <2>7. net + Calculation!Total(shares) = gross
    BY <1>5, <2>5
  <2>8. LineOf(item, m, Calculation!CalculateLine(item, m), net, shares)
    BY <1>1, <1>8, <1>10, <2>5, <2>6, <2>7 DEF LineOf
  <2> QED
    BY <2>8 DEF IsLine
<1> QED
  BY <1>11, <1>12

(* What can be recovered of a tax is a part of it.                          *)
LEMMA RecoverablePart ==
  ASSUME NEW t \in Int, NEW p \in 0..100, NEW m
  PROVE  LET v == Calculation!RoundedDiv(t * p, 100, m)
         IN /\ v \in Int /\ Calculation!Abs(v) <= Calculation!Abs(t)
            /\ t >= 0 => v \in 0..t
<1>1. PICK x \in Int : x = t * p /\ (t >= 0 => x >= 0) /\ (t < 0 => x <= 0)
                       /\ (t >= 0 => x <= 100 * t) /\ (t < 0 => -x <= 100 * (-t))
  <2>1. t >= 0 => t * p >= 0
    OBVIOUS
  <2>2. t < 0 => t * p <= 0
    OBVIOUS
  <2>3. t >= 0 => t * p <= 100 * t
    OBVIOUS
  <2>4. t < 0 => -(t * p) <= 100 * (-t)
    OBVIOUS
  <2>5. t * p \in Int
    OBVIOUS
  <2> QED
    BY <2>1, <2>2, <2>3, <2>4, <2>5
<1>2. 100 \in Nat \ {0}
  OBVIOUS
<1>3. PICK q, r, size : RoundsTo(x, 100, m, q, r, size)
  BY <1>2, RoundedSize
<1>4. PICK v : v = Calculation!RoundedDiv(x, 100, m)
  OBVIOUS
<1>5. /\ q \in Nat /\ r \in Nat /\ size \in Nat /\ r < 100 /\ Calculation!Abs(x) = q * 100 + r
      /\ size = q \/ (size = q + 1 /\ r # 0)
      /\ v = IF x < 0 THEN -size ELSE size
  BY <1>3, <1>4 DEF RoundsTo
<1>6. size <= Calculation!Abs(t)
  <2>1. Calculation!Abs(x) <= 100 * Calculation!Abs(t) /\ Calculation!Abs(t) \in Nat
    BY <1>1, AbsType
  <2> QED
    BY <1>5, <2>1
<1>7. v \in Int /\ Calculation!Abs(v) = size
  BY <1>5, AbsType
<1>8. t >= 0 => v \in 0..t
  BY <1>1, <1>5, <1>6, AbsType
<1> QED
  BY <1>1, <1>4, <1>6, <1>7, <1>8

(* An amount for each component of each line, added up by component and by  *)
(* line: the terms are the same.                                            *)
Terms(items, n) == Pairs(1..n, [i \in 1..n |-> 1..Len(items[i].code.components)])
Owned(items, n, id) ==
  [i \in 1..n |-> {j \in 1..Len(items[i].code.components) : items[i].code.components[j].id = id}]
Amounted(items, n, amounts) ==
  /\ DOMAIN items = 1..n
  /\ \A i \in 1..n : /\ TaxesOf(items[i].code.components)
                     /\ amounts[i] \in [1..Len(items[i].code.components) -> Int]
NoneNegative(items, n, amounts) ==
  \A i \in 1..n : \A j \in 1..Len(items[i].code.components) : amounts[i][j] >= 0
ByLine(n, amounts) == [i \in 1..n |-> Calculation!Total(amounts[i])]
ByComponent(items, amounts) ==
  [id \in Calculation!Components(items) |-> Calculation!Aggregated(items, amounts, id)]

LEMMA ByLineAdds ==
  ASSUME NEW n \in Nat, NEW items, NEW amounts, Amounted(items, n, amounts), NEW f,
         f = [p \in Terms(items, n) |-> amounts[p[1]][p[2]]]
  PROVE  /\ Summable(f, Terms(items, n)) /\ Summable(ByLine(n, amounts), 1..n)
         /\ Sum(ByLine(n, amounts), 1..n) = Sum(f, Terms(items, n))
<1>1. PICK I, J, g : I = 1..n /\ J = [i \in I |-> 1..Len(items[i].code.components)] /\ g = ByLine(n, amounts)
  OBVIOUS
<1>2. ASSUME NEW i \in I PROVE IsRow(f, g[i], i, J[i])
  <2>1. PICK m, due : /\ m \in Nat /\ m = Len(items[i].code.components) /\ due = amounts[i]
                      /\ due \in [1..m -> Int] /\ J[i] = 1..m
    BY <1>1 DEF Amounted, TaxesOf
  <2>2. IsFiniteSet(1..m)
    <3>1. m \in Nat
      BY <2>1
    <3> QED
      BY ONLY <3>1, RowIsFinite
  <2>3. Summable(due, J[i]) /\ DOMAIN due = J[i]
    BY <2>1, <2>2 DEF Summable
  <2>4. \A j \in J[i] : f[<<i, j>>] = due[j]
    <3>1. ASSUME NEW j \in J[i] PROVE <<i, j>> \in Terms(items, n)
      BY <1>1 DEF Terms, Pairs
    <3> QED
      BY <2>1, <3>1
  <2>5. g[i] = Sum(due, J[i])
    BY <1>1, <2>1, <2>3, CalculationTotal DEF ByLine
  <2> QED
    BY <2>3, <2>4, <2>5 DEF IsRow
<1>3. IsFiniteSet(I)
  BY <1>1, RowIsFinite
<1>4. Nesting(f, g, I, J)
  BY <1>2, <1>3 DEF Nesting
<1>5. Summable(f, Pairs(I, J)) /\ Summable(g, I) /\ Sum(g, I) = Sum(f, Pairs(I, J))
  BY <1>4, SumNested
<1> QED
  BY <1>1, <1>5 DEF Terms

LEMMA ComponentAdds ==
  ASSUME NEW n \in Nat, NEW items, NEW amounts, Amounted(items, n, amounts), NEW f,
         f = [p \in Terms(items, n) |-> amounts[p[1]][p[2]]], NEW id
  PROVE  Calculation!Aggregated(items, amounts, id) =
           Sum(f, {p \in Terms(items, n) : items[p[1]].code.components[p[2]].id = id})
<1>1. PICK I, J, K : /\ I = 1..n /\ J = [i \in I |-> 1..Len(items[i].code.components)]
                     /\ K = Owned(items, n, id)
  OBVIOUS
<1>2. PICK g : g = [i \in I |-> Calculation!Total([j \in K[i] |-> amounts[i][j]])]
  OBVIOUS
<1>3. ASSUME NEW i \in I PROVE IsRow(f, g[i], i, K[i])
  <2>1. PICK m \in Nat : m = Len(items[i].code.components) /\ amounts[i] \in [1..m -> Int] /\ J[i] = 1..m
    BY <1>1 DEF Amounted, TaxesOf
  <2>2. PICK due : due = [j \in K[i] |-> amounts[i][j]]
    OBVIOUS
  <2>3. IsFiniteSet(1..m)
    <3>1. m \in Nat
      BY <2>1
    <3> QED
      BY ONLY <3>1, RowIsFinite
  <2>4. K[i] \in SUBSET (1..m)
    BY <1>1, <2>1 DEF Owned
  <2>5. IsFiniteSet(K[i])
    BY <2>3, <2>4, FS_Subset
  <2>6. Summable(due, K[i]) /\ DOMAIN due = K[i]
    BY <2>1, <2>2, <2>4, <2>5 DEF Summable
  <2>7. \A j \in K[i] : f[<<i, j>>] = due[j]
    <3>1. ASSUME NEW j \in K[i] PROVE <<i, j>> \in Terms(items, n)
      BY <1>1, <2>1, <2>4 DEF Terms, Pairs
    <3> QED
      BY <2>2, <3>1
  <2>8. g[i] = Sum(due, K[i])
    BY <1>2, <2>2, <2>6, CalculationTotal
  <2> QED
    BY <2>6, <2>7, <2>8 DEF IsRow
<1>4. IsFiniteSet(I)
  BY <1>1, RowIsFinite
<1>5. Nesting(f, g, I, K)
  BY <1>3, <1>4 DEF Nesting
<1>6. Sum(g, I) = Sum(f, Pairs(I, K))
  BY <1>5, SumNested
<1>7. Pairs(I, K) = {p \in Terms(items, n) : items[p[1]].code.components[p[2]].id = id}
  BY <1>1 DEF Pairs, Terms, Owned
<1>8. Calculation!Aggregated(items, amounts, id) = Sum(g, I)
  <2>1. \A i \in I : DOMAIN items[i].code.components = 1..Len(items[i].code.components)
    BY <1>1 DEF Amounted, TaxesOf
  <2>2. \A i \in I : K[i] = {j \in DOMAIN items[i].code.components : items[i].code.components[j].id = id}
    BY <1>1, <2>1 DEF Owned
  <2>3. Calculation!Aggregated(items, amounts, id) =
          Calculation!Total([i \in DOMAIN items |->
            Calculation!Total([j \in {j \in DOMAIN items[i].code.components : items[i].code.components[j].id = id} |->
                                 amounts[i][j]])])
    BY Zenon DEF Calculation!Aggregated
  <2>4. DOMAIN items = I
    BY <1>1 DEF Amounted
  <2>5. g = [i \in DOMAIN items |->
            Calculation!Total([j \in {j \in DOMAIN items[i].code.components : items[i].code.components[j].id = id} |->
                                 amounts[i][j]])]
    BY <1>2, <2>2, <2>4
  <2>6. DOMAIN g = I
    BY <1>2
  <2> QED
    BY <2>3, <2>5, <2>6, CalculationTotal
<1> QED
  BY <1>6, <1>7, <1>8, ZenonT(60)

LEMMA ByComponentAdds ==
  ASSUME NEW n \in Nat, NEW items, NEW amounts, Amounted(items, n, amounts)
  PROVE  /\ Summable(ByComponent(items, amounts), Calculation!Components(items))
         /\ Summable(ByLine(n, amounts), 1..n)
         /\ Sum(ByComponent(items, amounts), Calculation!Components(items)) = Sum(ByLine(n, amounts), 1..n)
         /\ NoneNegative(items, n, amounts) =>
              \A id \in Calculation!Components(items) : ByComponent(items, amounts)[id] >= 0
<1>1. PICK P, f, K, g : /\ P = Terms(items, n) /\ f = [p \in P |-> amounts[p[1]][p[2]]]
                        /\ K = Calculation!Components(items) /\ g = ByComponent(items, amounts)
  OBVIOUS
<1>2. /\ Summable(f, P) /\ Summable(ByLine(n, amounts), 1..n)
      /\ Sum(ByLine(n, amounts), 1..n) = Sum(f, P)
  BY <1>1, ByLineAdds
<1>3. PICK key : key = [p \in P |-> items[p[1]].code.components[p[2]].id]
  OBVIOUS
<1>4. \A id \in K : g[id] = Sum(f, {p \in P : key[p] = id})
  <2>1. ASSUME NEW id \in K PROVE g[id] = Sum(f, {p \in P : key[p] = id})
    <3>1. g[id] = Calculation!Aggregated(items, amounts, id)
      BY <1>1 DEF ByComponent
    <3>2. Calculation!Aggregated(items, amounts, id) = Sum(f, {p \in P : items[p[1]].code.components[p[2]].id = id})
      BY <1>1, ComponentAdds
    <3>3. {p \in P : items[p[1]].code.components[p[2]].id = id} = {p \in P : key[p] = id}
      BY <1>3
    <3> QED
      BY <3>1, <3>2, <3>3, ZenonT(60)
  <2> QED
    BY <2>1
<1>5. K = {key[p] : p \in P}
  <2>1. \A p \in P : /\ p[1] \in 1..n /\ p[2] \in 1..Len(items[p[1]].code.components)
    BY <1>1 DEF Terms, Pairs
  <2>2. \A i \in 1..n : DOMAIN items[i].code.components = 1..Len(items[i].code.components)
    BY DEF Amounted, TaxesOf
  <2>3. DOMAIN items = 1..n
    BY DEF Amounted
  <2>4. ASSUME NEW id \in K PROVE \E p \in P : key[p] = id
    <3>1. PICK i \in 1..n : \E c \in Calculation!Range(items[i].code.components) : id = c.id
      BY <1>1, <2>3, <2>4 DEF Calculation!Components
    <3>2. PICK j \in 1..Len(items[i].code.components) : id = items[i].code.components[j].id
      BY <2>2, <3>1 DEF Calculation!Range
    <3>3. <<i, j>> \in P
      BY <1>1 DEF Terms, Pairs
    <3> QED
      BY <1>3, <3>1, <3>2, <3>3
  <2>5. ASSUME NEW p \in P PROVE key[p] \in K
    <3>1. PICK c : c = items[p[1]].code.components[p[2]]
      OBVIOUS
    <3>2. c \in Calculation!Range(items[p[1]].code.components)
      BY <2>1, <2>2, <3>1 DEF Calculation!Range
    <3> QED
      BY <1>1, <1>3, <2>1, <2>3, <3>1, <3>2 DEF Calculation!Components
  <2> QED
    BY <2>4, <2>5
<1>6. IsFiniteSet(K)
  <2>1. DOMAIN key = P /\ IsFiniteSet(DOMAIN key) /\ K = {key[p] : p \in DOMAIN key}
    BY <1>2, <1>3, <1>5 DEF Summable
  <2> QED
    BY <2>1, ImageFinite
<1>7. Grouped(g, K, key, f, P)
  <2>1. IsFiniteSet(P) /\ \A p \in P : f[p] \in Int
    BY <1>2 DEF Summable
  <2> QED
    BY <1>4, <1>5, <1>6, <2>1 DEF Grouped
<1>8. Sum(g, K) = Sum(f, P)
  BY <1>7, SumGrouped
<1>9. ASSUME NEW id \in K
      PROVE  /\ g[id] \in Int
             /\ NoneNegative(items, n, amounts) => g[id] >= 0
  <2>1. PICK Q : Q = {p \in P : key[p] = id}
    OBVIOUS
  <2>2. Q \in SUBSET P /\ IsFiniteSet(Q) /\ Summable(f, Q)
    <3>1. Q \in SUBSET P
      BY <2>1
    <3>2. IsFiniteSet(Q)
      BY <1>2, <3>1, FS_Subset DEF Summable
    <3> QED
      BY <1>2, <3>1, <3>2 DEF Summable
  <2>3. g[id] = Sum(f, Q) /\ Sum(f, Q) \in Int
    BY <1>4, <2>1, <2>2, SumIsInt
  <2>4. ASSUME NoneNegative(items, n, amounts)
        PROVE  g[id] >= 0
    <3>1. \A p \in P : p[1] \in 1..n /\ p[2] \in 1..Len(items[p[1]].code.components)
      BY <1>1 DEF Terms, Pairs
    <3>2. \A p \in Q : f[p] \in Nat
      <4>1. ASSUME NEW p \in Q PROVE f[p] \in Nat
        <5>1. p \in P /\ f[p] \in Int
          BY <2>2 DEF Summable
        <5>2. f[p] = amounts[p[1]][p[2]]
          BY <1>1, <5>1
        <5>3. amounts[p[1]][p[2]] >= 0
          BY <2>4, <3>1, <5>1 DEF NoneNegative
        <5> QED
          BY <5>1, <5>2, <5>3
      <4> QED
        BY <4>1
    <3>3. Sum(f, Q) \in Nat
      BY <2>2, <3>2, SumNat
    <3> QED
      BY <2>3, <3>3
  <2> QED
    BY <2>3, <2>4
<1>10. Summable(g, K)
  BY <1>6, <1>9 DEF Summable
<1> QED
  BY <1>1, <1>2, <1>8, <1>9, <1>10

(* A document as it was calculated from its n lines in mode m, discount d.  *)
DocumentIs(n, m, d) ==
  /\ n \in Nat /\ n # 0 /\ stated \in [1..n -> Calculation!StatedLine]
  /\ m \in RoundingModes /\ d \in Int
  /\ \A i \in 1..n : Calculation!Calculable(stated[i], m)
  /\ calculated = Calculation!Calculated(stated, [i \in 1..n |-> Calculation!CalculateLine(stated[i], m)], d)

Comps(i) == stated[i].code.components
LineFacts(n, m, i, l) ==
  /\ LineOf(stated[i], m, l, l.net, l.taxes) /\ TaxesOf(Comps(i))
  /\ l.net \in Int /\ l.tax = Calculation!Total(l.taxes) /\ l.gross = l.net + l.tax
  /\ l.tax \in Int /\ l.taxes \in [1..Len(Comps(i)) -> Int]
  /\ l.recoverable \in [1..Len(Comps(i)) -> Int]
  /\ \A j \in 1..Len(Comps(i)) :
       /\ Calculation!Abs(l.recoverable[j]) <= Calculation!Abs(l.taxes[j])
       /\ l.taxes[j] >= 0 => l.recoverable[j] \in 0..l.taxes[j]

LEMMA LineHas ==
  ASSUME NEW n, NEW m, NEW d, DocumentIs(n, m, d), NEW i \in 1..n
  PROVE  LineFacts(n, m, i, calculated.lines[i])
<1>1. PICK l, cs : l = calculated.lines[i] /\ cs = Comps(i)
  OBVIOUS
<1>2. l = Calculation!CalculateLine(stated[i], m)
  BY <1>1 DEF DocumentIs, Calculation!Calculated
<1>3. stated[i] \in Calculation!StatedLine /\ Calculation!Calculable(stated[i], m)
  BY DEF DocumentIs
<1>4. PICK net, taxes : LineOf(stated[i], m, l, net, taxes)
  BY <1>2, <1>3, ExclusiveIsLine, InclusiveIsLine DEF IsLine
<1>5. /\ net \in Int /\ taxes \in [1..Len(cs) -> Int] /\ TaxesOf(cs)
      /\ l = Calculation!CalculatedLine(net, taxes, cs, m)
  BY <1>1, <1>4 DEF LineOf, Comps
<1>6. /\ l.net = net /\ l.taxes = taxes /\ l.tax = Calculation!Total(taxes)
      /\ l.gross = net + Calculation!Total(taxes)
      /\ l.recoverable = [j \in DOMAIN taxes |-> Calculation!RoundedDiv(taxes[j] * cs[j].recoverable, 100, m)]
  BY <1>5, SMTT(60) DEF Calculation!CalculatedLine
<1>7. PICK k \in Nat : k = Len(cs)
  BY <1>5 DEF TaxesOf
<1>8. ASSUME NEW j \in 1..k
      PROVE  /\ l.recoverable[j] \in Int
             /\ Calculation!Abs(l.recoverable[j]) <= Calculation!Abs(l.taxes[j])
             /\ l.taxes[j] >= 0 => l.recoverable[j] \in 0..l.taxes[j]
  <2>1. PICK t \in Int, p \in 0..100 : t = taxes[j] /\ p = cs[j].recoverable
    BY <1>5, <1>7 DEF TaxesOf
  <2>2. l.recoverable[j] = Calculation!RoundedDiv(t * p, 100, m)
    BY <1>5, <1>6, <1>7, <2>1
  <2>3. LET v == Calculation!RoundedDiv(t * p, 100, m)
        IN /\ v \in Int /\ Calculation!Abs(v) <= Calculation!Abs(t)
           /\ t >= 0 => v \in 0..t
    BY RecoverablePart
  <2>4. l.taxes[j] = t
    BY <1>6, <2>1
  <2> QED
    BY ONLY <2>2, <2>3, <2>4
<1>9. l.recoverable \in [1..k -> Int]
  BY <1>5, <1>6, <1>7, <1>8
<1>10. Calculation!Total(taxes) \in Int
  <2>1. taxes \in Seq(Int)
    BY <1>5, <1>7
  <2> QED
    BY <2>1, SequenceTotal
<1> QED
  BY <1>1, <1>4, <1>5, <1>6, <1>7, <1>8, <1>9, <1>10 DEF LineFacts

Nets(n) == [i \in 1..n |-> calculated.lines[i].net]
LineTaxes(n) == [i \in 1..n |-> calculated.lines[i].taxes]
Recoverables(n) == [i \in 1..n |-> calculated.lines[i].recoverable]
Ids == Calculation!Components(stated)

DocumentFacts(n, d) ==
  /\ n \in Nat /\ DOMAIN calculated.lines = 1..n /\ DOMAIN stated = 1..n /\ calculated.discount = d /\ d \in Int
  /\ Summable(Nets(n), 1..n) /\ calculated.subtotal = Sum(Nets(n), 1..n)
  /\ Summable(ByLine(n, LineTaxes(n)), 1..n)
  /\ calculated.total = Sum(Nets(n), 1..n) + Sum(ByLine(n, LineTaxes(n)), 1..n) - d
  /\ calculated.tax = ByComponent(stated, LineTaxes(n))
  /\ calculated.recoverable = ByComponent(stated, Recoverables(n))
  /\ Amounted(stated, n, LineTaxes(n)) /\ Amounted(stated, n, Recoverables(n))

LEMMA DocumentHas ==
  ASSUME NEW n, NEW m, NEW d, DocumentIs(n, m, d)
  PROVE  DocumentFacts(n, d)
<1>1. PICK items : items = [i \in 1..n |-> Calculation!CalculateLine(stated[i], m)]
  OBVIOUS
<1>2. n \in Nat /\ DOMAIN stated = 1..n /\ d \in Int /\ calculated = Calculation!Calculated(stated, items, d)
  BY <1>1 DEF DocumentIs
<1>3. /\ calculated.lines = items /\ calculated.discount = d /\ calculated.total = Calculation!Gross(items) - d
      /\ calculated.subtotal = Calculation!Total([i \in 1..n |-> items[i].net])
      /\ calculated.tax = [id \in Ids |-> Calculation!Aggregated(stated, [i \in 1..n |-> items[i].taxes], id)]
      /\ calculated.recoverable = [id \in Ids |-> Calculation!Aggregated(stated, [i \in 1..n |-> items[i].recoverable], id)]
  BY <1>2 DEF Calculation!Calculated, Ids
<1>4. IsFiniteSet(1..n)
  BY <1>2, RowIsFinite
<1>5. \A i \in 1..n : LineFacts(n, m, i, items[i])
  BY <1>3, LineHas
<1>6. /\ Nets(n) = [i \in 1..n |-> items[i].net] /\ LineTaxes(n) = [i \in 1..n |-> items[i].taxes]
      /\ Recoverables(n) = [i \in 1..n |-> items[i].recoverable]
  BY <1>3 DEF Nets, LineTaxes, Recoverables
<1>7. Summable(Nets(n), 1..n) /\ calculated.subtotal = Sum(Nets(n), 1..n)
  <2>1. \A i \in 1..n : Nets(n)[i] \in Int
    BY <1>5, <1>6 DEF LineFacts
  <2>2. DOMAIN Nets(n) = 1..n
    BY DEF Nets
  <2> QED
    BY <1>3, <1>4, <1>6, <2>1, <2>2, CalculationTotal DEF Summable
<1>8. PICK taxes : taxes = ByLine(n, LineTaxes(n))
  OBVIOUS
<1>9. \A i \in 1..n : taxes[i] = items[i].tax /\ taxes[i] \in Int
  BY <1>5, <1>6, <1>8 DEF LineFacts, ByLine
<1>10. Summable(taxes, 1..n)
  BY <1>4, <1>9 DEF Summable
<1>11. PICK gross : gross = [i \in DOMAIN items |-> items[i].gross]
  OBVIOUS
<1>12. Calculation!Gross(items) = Sum(gross, 1..n)
  BY <1>1, <1>11, CalculationTotal DEF Calculation!Gross
<1>13. \A i \in 1..n : Nets(n)[i] \in Int /\ taxes[i] \in Int /\ gross[i] = Nets(n)[i] + taxes[i]
  BY <1>1, <1>5, <1>6, <1>9, <1>11 DEF LineFacts
<1>14. Sum(gross, 1..n) = Sum(Nets(n), 1..n) + Sum(taxes, 1..n)
  BY <1>4, <1>13, SumPlus
<1>15. Amounted(stated, n, LineTaxes(n)) /\ Amounted(stated, n, Recoverables(n))
  BY <1>2, <1>5, <1>6 DEF Amounted, LineFacts, Comps
<1>16. /\ calculated.tax = ByComponent(stated, LineTaxes(n))
       /\ calculated.recoverable = ByComponent(stated, Recoverables(n))
  BY <1>3, <1>6 DEF ByComponent, Ids
<1>17. DOMAIN calculated.lines = 1..n
  BY <1>1, <1>3
<1>18. calculated.total = Sum(Nets(n), 1..n) + Sum(taxes, 1..n) - d
  <2>1. calculated.total = Calculation!Gross(items) - d
    BY <1>3
  <2>2. Calculation!Gross(items) = Sum(Nets(n), 1..n) + Sum(taxes, 1..n)
    BY <1>12, <1>14
  <2>3. PICK a \in Int, b \in Int : a = Sum(Nets(n), 1..n) /\ b = Sum(taxes, 1..n)
    BY <1>7, <1>10, SumIsInt
  <2>4. PICK g \in Int : g = Calculation!Gross(items) /\ g = a + b
    BY <2>2, <2>3
  <2> QED
    BY <1>2, <2>1, <2>3, <2>4
<1> QED
  BY <1>2, <1>3, <1>7, <1>8, <1>10, <1>15, <1>16, <1>17, <1>18, Zenon DEF DocumentFacts

LEMMA DocumentAdds ==
  ASSUME NEW n, NEW m, NEW d, DocumentIs(n, m, d)
  PROVE  Calculation!DocumentAddsUp
<1>0. DocumentFacts(n, d)
  BY DocumentHas
<1>1. /\ n \in Nat /\ DOMAIN stated = 1..n /\ calculated.discount = d /\ d \in Int
      /\ Summable(Nets(n), 1..n) /\ calculated.subtotal = Sum(Nets(n), 1..n)
      /\ Summable(ByLine(n, LineTaxes(n)), 1..n)
      /\ calculated.total = Sum(Nets(n), 1..n) + Sum(ByLine(n, LineTaxes(n)), 1..n) - d
      /\ calculated.tax = ByComponent(stated, LineTaxes(n))
      /\ Amounted(stated, n, LineTaxes(n))
  BY <1>0, Zenon DEF DocumentFacts
<1>2. Sum(ByComponent(stated, LineTaxes(n)), Ids) = Sum(ByLine(n, LineTaxes(n)), 1..n)
  BY <1>1, ByComponentAdds DEF Ids
<1>3. Calculation!Total(calculated.tax) = Sum(ByLine(n, LineTaxes(n)), 1..n)
  <2>1. DOMAIN calculated.tax = Ids
    BY <1>1 DEF ByComponent, Ids
  <2> QED
    BY <1>1, <1>2, <2>1, CalculationTotal
<1>4. calculated.total = calculated.subtotal + Calculation!Total(calculated.tax) - calculated.discount
  BY <1>1, <1>3
<1>5. ASSUME NEW i \in 1..n
      PROVE  LET l == calculated.lines[i] IN
               /\ \A j \in DOMAIN l.taxes : Calculation!Abs(l.recoverable[j]) <= Calculation!Abs(l.taxes[j])
               /\ stated[i].code.inclusive /\ l.tax # 0 => l.gross \in Calculation!Roundings(stated[i])
  <2>1. PICK l, cs : l = calculated.lines[i] /\ cs = Comps(i)
    OBVIOUS
  <2>2. LineFacts(n, m, i, l)
    BY <2>1, LineHas
  <2>3. \A j \in DOMAIN l.taxes : Calculation!Abs(l.recoverable[j]) <= Calculation!Abs(l.taxes[j])
    BY <2>2 DEF LineFacts
  <2>4. ASSUME stated[i].code.inclusive, l.tax # 0 PROVE l.gross \in Calculation!Roundings(stated[i])
    <3>1. Calculation!Total(l.taxes) # 0 /\ l.taxes \in [1..Len(cs) -> Int] /\ TaxesOf(cs)
      BY <2>1, <2>2, <2>4 DEF LineFacts
    <3>2. cs # <<>>
      <4>1. ASSUME cs = <<>> PROVE FALSE
        <5>1. Len(cs) = 0
          BY <4>1
        <5>2. l.taxes \in Seq({0})
          BY <3>1, <5>1
        <5> QED
          BY <3>1, <5>2, SequenceOfZeros
      <4> QED
        BY <4>1
    <3>3. Calculation!Includes(stated[i])
      BY <2>1, <2>4, <3>2 DEF Calculation!Includes, Comps
    <3>4. l.net + Calculation!Total(l.taxes) = Calculation!AfterDiscount(stated[i], m)
      BY <2>2, <3>1, <3>3, Zenon DEF LineFacts, LineOf
    <3>5. l.gross = Calculation!AfterDiscount(stated[i], m) /\ m \in RoundingModes
      BY <2>2, <3>4 DEF LineFacts, DocumentIs
    <3> QED
      BY <3>5 DEF Calculation!Roundings
  <2> QED
    BY <2>1, <2>3, <2>4
<1> QED
  BY <1>1, <1>4, <1>5, Zenon DEF Calculation!DocumentAddsUp

(* The lines of an entry: its total on one side, its items and its taxes on *)
(* the other.                                                               *)
LEMMA SameDelta == ASSUME NEW items PROVE Calculation!Delta(items) = Foreign!Kernel!Delta(items)
<1>1. Calculation!Side(items, "debit") = Foreign!Kernel!Side(items, "debit")
  BY CalculationTotal, ForeignTotal DEF Calculation!Side, Foreign!Kernel!Side
<1>2. Calculation!Side(items, "credit") = Foreign!Kernel!Side(items, "credit")
  BY CalculationTotal, ForeignTotal DEF Calculation!Side, Foreign!Kernel!Side
<1> QED
  BY <1>1, <1>2 DEF Calculation!Delta, Foreign!Kernel!Delta

EntryLine == [side : {"debit", "credit"}, amount : Nat]
Sided(items) == IsFiniteSet(DOMAIN items) /\ \A k \in DOMAIN items : items[k] \in EntryLine

LEMMA SignedDelta ==
  ASSUME NEW items, Sided(items)
  PROVE  /\ Summable(SignedLines(items), DOMAIN items)
         /\ Calculation!Delta(items) = Sum(SignedLines(items), DOMAIN items)
         /\ Calculation!Delta(items) \in Int
<1>0. IsFiniteSet(DOMAIN items) /\ \A k \in DOMAIN items : SidedLine(items[k])
  BY DEF Sided, SidedLine, EntryLine
<1>1. /\ Summable(SignedLines(items), DOMAIN items)
      /\ Foreign!Kernel!Delta(items) = Sum(SignedLines(items), DOMAIN items)
  BY <1>0, DeltaIsSigned
<1> QED
  BY <1>1, SameDelta, SumIsInt

(* Items and taxes that come to the total balance it.                       *)
EntryKeys(n, K) == ({<<"total", 0>>} \cup ({"line"} \X (1..n))) \cup ({"tax"} \X K)
Balanced(s, n, K, total, u, v) ==
  /\ total \in Int /\ Summable(u, 1..n) /\ Summable(v, K)
  /\ total + Sum(u, 1..n) + Sum(v, K) = 0
  /\ s[<<"total", 0>>] = total
  /\ \A i \in 1..n : s[<<"line", i>>] = u[i]
  /\ \A k \in K : s[<<"tax", k>>] = v[k]

LEMMA BalancedSum ==
  ASSUME NEW s, NEW n, NEW K, NEW total, NEW u, NEW v, Balanced(s, n, K, total, u, v)
  PROVE  Summable(s, EntryKeys(n, K)) /\ Sum(s, EntryKeys(n, K)) = 0
<1>1. PICK A, B, C : A = {<<"total", 0>>} /\ B = {"line"} \X (1..n) /\ C = {"tax"} \X K
  OBVIOUS
<1>2. Summable(s, A) /\ Sum(s, A) = total
  BY <1>1, SumOfOne DEF Balanced
<1>3. Summable(s, B) /\ Sum(s, B) = Sum(u, 1..n)
  <2>1. PICK I : I = 1..n
    OBVIOUS
  <2>2. Tagging(s, "line", u, I)
    BY <2>1 DEF Balanced, Tagging
  <2>3. Summable(s, {"line"} \X I) /\ Sum(s, {"line"} \X I) = Sum(u, I)
    BY ONLY <2>2, SumTagged
  <2> QED
    BY <1>1, <2>1, <2>3
<1>4. Summable(s, C) /\ Sum(s, C) = Sum(v, K)
  <2>1. Tagging(s, "tax", v, K)
    BY DEF Balanced, Tagging
  <2> QED
    BY <1>1, <2>1, SumTagged
<1>5. A \cap B = {} /\ (A \cup B) \cap C = {}
  BY <1>1
<1>6. Summable(s, A \cup B) /\ Sum(s, A \cup B) = Sum(s, A) + Sum(s, B)
  BY <1>2, <1>3, <1>5, SumUnion, ZenonT(60)
<1>7. PICK D : D = A \cup B
  OBVIOUS
<1>8. Summable(s, D \cup C) /\ Sum(s, D \cup C) = Sum(s, D) + Sum(s, C)
  BY <1>4, <1>5, <1>6, <1>7, SumUnion
<1>9. EntryKeys(n, K) = D \cup C
  BY <1>1, <1>7 DEF EntryKeys
<1>10. Sum(s, EntryKeys(n, K)) = total + Sum(u, 1..n) + Sum(v, K)
  BY <1>2, <1>3, <1>4, <1>6, <1>7, <1>8, <1>9
<1> QED
  BY <1>8, <1>9, <1>10 DEF Balanced

(* The parts that are not zero come to the whole.                           *)
LEMMA NonzeroSum ==
  ASSUME NEW f, NEW S, Summable(f, S), NEW T, T = {x \in S : f[x] # 0}
  PROVE  Summable(f, T) /\ Sum(f, T) = Sum(f, S)
<1>1. T \in SUBSET S /\ \A x \in S \ T : f[x] = 0
  OBVIOUS
<1>2. IsFiniteSet(T)
  BY <1>1, FS_Subset DEF Summable
<1> QED
  BY <1>1, <1>2, SumSubset DEF Summable
(* Each line is converted: together they are out by less than a unit each.  *)
Rated(rate) == IF rate = Calculation!Base THEN 100 ELSE rate

LEMMA ConvertedLine ==
  ASSUME NEW x \in Nat, NEW rate \in Nat, NEW m
  PROVE  LET v == Calculation!ConvertToBase(x, rate, m)
         IN /\ v \in Nat /\ (rate = Calculation!Base => v = x)
            /\ -99 <= 100 * v - x * Rated(rate) /\ 100 * v - x * Rated(rate) <= 99
            /\ x * Rated(rate) \in Nat
<1>1. CASE rate = Calculation!Base
  BY <1>1 DEF Calculation!ConvertToBase, Rated
<1>2. CASE rate # Calculation!Base
  <2>1. PICK y \in Nat : y = x * rate
    <3>1. x * rate \in Nat
      OBVIOUS
    <3> QED
      BY <3>1
  <2>2. 100 \in Nat \ {0}
    OBVIOUS
  <2>3. PICK q, r, size : RoundsTo(y, 100, m, q, r, size)
    BY <2>2, RoundedSize
  <2>4. PICK v : v = Calculation!RoundedDiv(y, 100, m)
    OBVIOUS
  <2>5. /\ q \in Nat /\ r \in Nat /\ size \in Nat /\ r < 100 /\ y = q * 100 + r
        /\ size = q \/ (size = q + 1 /\ r # 0)
        /\ v = size
    BY <2>3, <2>4, AbsType DEF RoundsTo
  <2>6. v \in Nat /\ -99 <= 100 * v - y /\ 100 * v - y <= 99
    BY <2>5
  <2> QED
    BY <1>2, <2>1, <2>4, <2>6 DEF Calculation!ConvertToBase, Rated
<1> QED
  BY <1>1, <1>2

LEMMA ConvertedLines ==
  ASSUME NEW items, Sided(items), NEW rate \in Nat, NEW m
  PROVE  LET p == Calculation!PrepareLines(items, rate, m)
         IN /\ Sided(p) /\ DOMAIN p = DOMAIN items
            /\ \A k \in DOMAIN items : /\ p[k].side = items[k].side
                                       /\ p[k].amount = Calculation!ConvertToBase(items[k].amount, rate, m)
<1>1. PICK p : p = Calculation!PrepareLines(items, rate, m)
  OBVIOUS
<1>2. DOMAIN p = DOMAIN items /\ IsFiniteSet(DOMAIN p)
  BY <1>1 DEF Calculation!PrepareLines, Sided
<1>3. ASSUME NEW k \in DOMAIN items
      PROVE  /\ p[k].side = items[k].side /\ p[k].amount = Calculation!ConvertToBase(items[k].amount, rate, m)
             /\ p[k] \in EntryLine
  <2>1. PICK x \in Nat : x = items[k].amount /\ items[k] \in EntryLine
    BY DEF Sided, EntryLine
  <2>2. p[k] = [items[k] EXCEPT !.amount = Calculation!ConvertToBase(@, rate, m)]
    BY <1>1 DEF Calculation!PrepareLines
  <2>3. Calculation!ConvertToBase(x, rate, m) \in Nat
    BY ConvertedLine
  <2>4. p[k] = [items[k] EXCEPT !.amount = Calculation!ConvertToBase(x, rate, m)]
    BY <2>1, <2>2
  <2> QED
    BY <2>1, <2>3, <2>4 DEF EntryLine
<1> QED
  BY <1>1, <1>2, <1>3 DEF Sided

LEMMA ConversionDelta ==
  ASSUME NEW items, Sided(items), Calculation!Delta(items) = 0, NEW rate \in Nat, NEW m
  PROVE  LET p == Calculation!PrepareLines(items, rate, m)
         IN /\ Calculation!Abs(Calculation!Delta(p)) <= Calculation!Cardinality(DOMAIN items)
            /\ rate = Calculation!Base => Calculation!Delta(p) = 0
<1>1. PICK p, K, s, z : /\ p = Calculation!PrepareLines(items, rate, m) /\ K = DOMAIN items
                        /\ s = SignedLines(items) /\ z = SignedLines(p)
  OBVIOUS
<1>2. /\ Sided(p) /\ DOMAIN p = K
      /\ \A k \in K : /\ p[k].side = items[k].side
                      /\ p[k].amount = Calculation!ConvertToBase(items[k].amount, rate, m)
  <2>1. LET q == Calculation!PrepareLines(items, rate, m)
        IN /\ Sided(q) /\ DOMAIN q = DOMAIN items
           /\ \A k \in DOMAIN items : /\ q[k].side = items[k].side
                                      /\ q[k].amount = Calculation!ConvertToBase(items[k].amount, rate, m)
    BY ConvertedLines
  <2> QED
    BY ONLY <1>1, <2>1
<1>3. Summable(s, K) /\ Sum(s, K) = 0
  BY <1>1, SignedDelta
<1>4. Summable(z, K) /\ Calculation!Delta(p) = Sum(z, K) /\ Calculation!Delta(p) \in Int
  BY <1>1, <1>2, SignedDelta
<1>5. PICK W \in Nat : W = Rated(rate)
  BY DEF Rated
<1>6. PICK hundred, scaled, e : /\ hundred = [k \in K |-> z[k] * 100] /\ scaled = [k \in K |-> s[k] * W]
                                /\ e = [k \in K |-> z[k] * 100 - s[k] * W]
  OBVIOUS
<1>7. ASSUME NEW k \in K
      PROVE  /\ scaled[k] \in Int /\ e[k] \in Int /\ hundred[k] = scaled[k] + e[k]
             /\ -99 <= e[k] /\ e[k] <= 99
             /\ rate = Calculation!Base => z[k] = s[k]
  <2>1. PICK x \in Nat : x = items[k].amount /\ items[k].side \in {"debit", "credit"}
    BY <1>1 DEF Sided, EntryLine
  <2>2. PICK v \in Nat, y \in Nat :
          /\ v = Calculation!ConvertToBase(x, rate, m) /\ y = x * W
          /\ -99 <= 100 * v - y /\ 100 * v - y <= 99
          /\ rate = Calculation!Base => v = x
    BY <1>5, ConvertedLine
  <2>3. p[k].amount = v /\ p[k].side = items[k].side
    BY <1>2, <2>1, <2>2
  <2>4. CASE items[k].side = "debit"
    <3>1. s[k] = x /\ z[k] = v
      BY <1>1, <1>2, <2>1, <2>3, <2>4 DEF SignedLines, OnDebit
    <3> QED
      BY <1>6, <2>2, <3>1
  <2>5. CASE items[k].side = "credit"
    <3>1. s[k] = -x /\ z[k] = -v
      BY <1>1, <1>2, <2>1, <2>3, <2>5 DEF SignedLines, OnDebit
    <3>2. (-x) * W = -y
      BY <2>2
    <3>3. hundred[k] = z[k] * 100 /\ scaled[k] = s[k] * W /\ e[k] = z[k] * 100 - s[k] * W
      BY <1>6
    <3>4. hundred[k] = -(100 * v) /\ scaled[k] = -y /\ e[k] = y - 100 * v
      BY ONLY <3>1, <3>2, <3>3, v \in Nat, y \in Nat
    <3>5. -99 <= y - 100 * v /\ y - 100 * v <= 99
      <4>1. -99 <= 100 * v - y /\ 100 * v - y <= 99
        BY <2>2
      <4> QED
        BY ONLY <4>1, v \in Nat, y \in Nat
    <3>6. rate = Calculation!Base => z[k] = s[k]
      BY <2>2, <3>1, Zenon
    <3>7. scaled[k] \in Int /\ e[k] \in Int /\ hundred[k] = scaled[k] + e[k]
      BY ONLY <3>4, v \in Nat, y \in Nat
    <3> QED
      BY ONLY <3>4, <3>5, <3>6, <3>7
  <2> QED
    BY <2>1, <2>4, <2>5
<1>8. Sum(hundred, K) = Sum(z, K) * 100
  <2>1. 100 \in Int /\ \A k \in K : hundred[k] = z[k] * 100
    BY <1>6
  <2> QED
    BY <1>4, <2>1, SumScaled
<1>9. Sum(scaled, K) = 0
  <2>1. W \in Int /\ \A k \in K : scaled[k] = s[k] * W
    BY <1>6
  <2>2. Sum(scaled, K) = Sum(s, K) * W
    BY <1>3, <2>1, SumScaled
  <2> QED
    BY <1>3, <2>2
<1>10. IsFiniteSet(K)
  BY <1>3 DEF Summable
<1>11. Sum(hundred, K) = Sum(scaled, K) + Sum(e, K)
  BY <1>7, <1>10, SumPlus
<1>12. Summable(e, K) /\ \A k \in K : -99 <= e[k] /\ e[k] <= 99
  BY <1>7, <1>10 DEF Summable
<1>13. /\ Sum(e, K) \in Int /\ Cardinality(K) \in Nat
       /\ Cardinality(K) * (-99) <= Sum(e, K) /\ Sum(e, K) <= Cardinality(K) * 99
  <2>1. -99 \in Int /\ 99 \in Int
    OBVIOUS
  <2> QED
    BY <1>12, <2>1, SumBetween
<1>14. PICK n \in Nat, t \in Int, a \in Int : n = Cardinality(K) /\ t = Sum(z, K) /\ a = Sum(e, K)
  BY <1>4, <1>13
<1>15. t * 100 = a /\ n * (-99) <= a /\ a <= n * 99
  BY <1>8, <1>9, <1>11, <1>13, <1>14
<1>16. -n <= t /\ t <= n
  BY <1>15
<1>17. Calculation!Abs(t) <= n
  BY <1>16, AbsType
<1>18. rate = Calculation!Base => Sum(z, K) = 0
  <2>1. ASSUME rate = Calculation!Base PROVE Sum(z, K) = Sum(s, K)
    <3>1. \A k \in K : z[k] = s[k]
      BY <1>7, <2>1
    <3> QED
      BY <1>10, <3>1, SumAgrees
  <2> QED
    BY <1>3, <2>1
<1> QED
  BY <1>1, <1>4, <1>14, <1>17, <1>18, CalculationCardinality
(* An entry: its total on one side, items and taxes on the other.           *)
EntryIs(items, n, K, side, total, u, v) ==
  LET other == IF side = "debit" THEN "credit" ELSE "debit" IN
  /\ side \in {"debit", "credit"} /\ total \in Int /\ Summable(u, 1..n) /\ Summable(v, K)
  /\ DOMAIN items = EntryKeys(n, K)
  /\ items[<<"total", 0>>] = [side |-> side, amount |-> total]
  /\ \A i \in 1..n : items[<<"line", i>>] = [side |-> other, amount |-> u[i]]
  /\ \A k \in K : items[<<"tax", k>>] = [side |-> other, amount |-> v[k]]

LEMMA EntryIsSided ==
  ASSUME NEW items, NEW n, NEW K, NEW side, NEW total, NEW u, NEW v,
         EntryIs(items, n, K, side, total, u, v), \A k \in DOMAIN items : items[k].amount >= 0
  PROVE  Sided(items) /\ total >= 0
<1>1. PICK other : other = IF side = "debit" THEN "credit" ELSE "debit"
  OBVIOUS
<1>2. /\ side \in {"debit", "credit"} /\ other \in {"debit", "credit"} /\ total \in Int
      /\ Summable(u, 1..n) /\ Summable(v, K) /\ DOMAIN items = EntryKeys(n, K)
      /\ items[<<"total", 0>>] = [side |-> side, amount |-> total]
      /\ \A i \in 1..n : items[<<"line", i>>] = [side |-> other, amount |-> u[i]]
      /\ \A k \in K : items[<<"tax", k>>] = [side |-> other, amount |-> v[k]]
  BY <1>1 DEF EntryIs
<1>3. /\ <<"total", 0>> \in DOMAIN items
      /\ \A i \in 1..n : <<"line", i>> \in DOMAIN items
      /\ \A k \in K : <<"tax", k>> \in DOMAIN items
  BY <1>2 DEF EntryKeys
<1>4. total >= 0 /\ items[<<"total", 0>>] \in EntryLine
  BY <1>2, <1>3 DEF EntryLine
<1>5. \A i \in 1..n : items[<<"line", i>>] \in EntryLine
  <2>1. ASSUME NEW i \in 1..n PROVE items[<<"line", i>>] \in EntryLine
    <3>1. u[i] \in Int /\ items[<<"line", i>>] = [side |-> other, amount |-> u[i]]
      BY <1>2 DEF Summable
    <3>2. items[<<"line", i>>].amount >= 0
      BY <1>3
    <3> QED
      BY <1>2, <3>1, <3>2 DEF EntryLine
  <2> QED
    BY <2>1
<1>6. \A k \in K : items[<<"tax", k>>] \in EntryLine
  <2>1. ASSUME NEW k \in K PROVE items[<<"tax", k>>] \in EntryLine
    <3>1. v[k] \in Int /\ items[<<"tax", k>>] = [side |-> other, amount |-> v[k]]
      BY <1>2 DEF Summable
    <3>2. items[<<"tax", k>>].amount >= 0
      BY <1>3
    <3> QED
      BY <1>2, <3>1, <3>2 DEF EntryLine
  <2> QED
    BY <2>1
<1>7. \A k \in DOMAIN items : items[k] \in EntryLine
  <2>1. \A k \in EntryKeys(n, K) : \/ k = <<"total", 0>>
                                   \/ \E i \in 1..n : k = <<"line", i>>
                                   \/ \E i \in K : k = <<"tax", i>>
    BY DEF EntryKeys
  <2> QED
    BY <1>2, <1>4, <1>5, <1>6, <2>1
<1>8. IsFiniteSet(DOMAIN items)
  <2>1. PICK a : a = [k \in DOMAIN items |-> 0]
    OBVIOUS
  <2>2. PICK zero1, zero2 : zero1 = [i \in 1..n |-> 0] /\ zero2 = [k \in K |-> 0]
    OBVIOUS
  <2>3. Balanced(a, n, K, 0, zero1, zero2)
    <3>1. Summable(zero1, 1..n) /\ Summable(zero2, K)
      BY <1>2, <2>2 DEF Summable
    <3>2. Sum(zero1, 1..n) = 0
      <4>1. \A i \in 1..n : zero1[i] \in Nat /\ zero1[i] = 0
        BY <2>2
      <4> QED
        BY <3>1, <4>1, SumNat DEF Summable
    <3>3. Sum(zero2, K) = 0
      <4>1. \A i \in K : zero2[i] \in Nat /\ zero2[i] = 0
        BY <2>2
      <4> QED
        BY <3>1, <4>1, SumNat DEF Summable
    <3> QED
      BY <1>3, <2>1, <2>2, <3>1, <3>2, <3>3 DEF Balanced
  <2>4. Summable(a, EntryKeys(n, K))
    BY <2>3, BalancedSum
  <2> QED
    BY <1>2, <2>4 DEF Summable
<1> QED
  BY <1>4, <1>7, <1>8 DEF Sided

LEMMA SignedRecord ==
  /\ \A x \in Int : OnDebit([side |-> "debit", amount |-> x]) = x
  /\ \A x \in Int : OnDebit([side |-> "credit", amount |-> x]) = -x
BY DEF OnDebit

LEMMA EntryBalances ==
  ASSUME NEW items, NEW n, NEW K, NEW side, NEW total, NEW u, NEW v,
         EntryIs(items, n, K, side, total, u, v), Sided(items), total = Sum(u, 1..n) + Sum(v, K)
  PROVE  Calculation!Delta(items) = 0
<1>1. PICK other, s : other = (IF side = "debit" THEN "credit" ELSE "debit") /\ s = SignedLines(items)
  OBVIOUS
<1>2. /\ side \in {"debit", "credit"} /\ total \in Int
      /\ Summable(u, 1..n) /\ Summable(v, K) /\ DOMAIN items = EntryKeys(n, K)
      /\ items[<<"total", 0>>] = [side |-> side, amount |-> total]
      /\ \A i \in 1..n : items[<<"line", i>>] = [side |-> other, amount |-> u[i]]
      /\ \A k \in K : items[<<"tax", k>>] = [side |-> other, amount |-> v[k]]
  BY <1>1 DEF EntryIs
<1>3. /\ <<"total", 0>> \in DOMAIN items
      /\ \A i \in 1..n : <<"line", i>> \in DOMAIN items
      /\ \A k \in K : <<"tax", k>> \in DOMAIN items
  BY <1>2 DEF EntryKeys
<1>4. PICK a \in Int : a = Sum(u, 1..n)
  BY <1>2, SumIsInt
<1>40. PICK b \in Int : b = Sum(v, K)
  BY <1>2, SumIsInt
<1>41. total = a + b
  BY <1>4, <1>40
<1>5. \A k \in DOMAIN items : s[k] = OnDebit(items[k])
  BY <1>1 DEF SignedLines
<1>50. s[<<"total", 0>>] = OnDebit([side |-> side, amount |-> total])
  BY <1>2, <1>3, <1>5
<1>51. ASSUME NEW i \in 1..n
       PROVE  u[i] \in Int /\ s[<<"line", i>>] = OnDebit([side |-> other, amount |-> u[i]])
  <2>1. u[i] \in Int
    BY <1>2 DEF Summable
  <2>2. s[<<"line", i>>] = OnDebit(items[<<"line", i>>])
    BY <1>3, <1>5
  <2> QED
    BY <1>2, <2>1, <2>2
<1>52. ASSUME NEW k \in K
       PROVE  v[k] \in Int /\ s[<<"tax", k>>] = OnDebit([side |-> other, amount |-> v[k]])
  <2>1. v[k] \in Int
    BY <1>2 DEF Summable
  <2>2. s[<<"tax", k>>] = OnDebit(items[<<"tax", k>>])
    BY <1>3, <1>5
  <2> QED
    BY <1>2, <2>1, <2>2
<1>6. CASE side = "credit"
  <2>0. other = "debit"
    BY <1>1, <1>6
  <2>1. PICK t \in Int : t = -total /\ s[<<"total", 0>>] = t
    <3>1. s[<<"total", 0>>] = -total /\ -total \in Int
      BY <1>2, <1>50, <1>6, SignedRecord
    <3> QED
      BY <3>1
  <2>2. \A i \in 1..n : s[<<"line", i>>] = u[i]
    BY <1>51, <2>0, SignedRecord
  <2>3. \A k \in K : s[<<"tax", k>>] = v[k]
    BY <1>52, <2>0, SignedRecord
  <2>4. t + Sum(u, 1..n) + Sum(v, K) = 0
    BY ONLY <1>2, <1>4, <1>40, <1>41, <2>1
  <2>5. Balanced(s, n, K, t, u, v)
    BY ONLY <1>2, <2>1, <2>2, <2>3, <2>4 DEF Balanced
  <2>6. Sum(s, EntryKeys(n, K)) = 0
    BY <2>5, BalancedSum
  <2> QED
    BY <1>1, <1>2, <2>6, SignedDelta
<1>7. CASE side = "debit"
  <2>0. other = "credit"
    BY <1>1, <1>7
  <2>1. s[<<"total", 0>>] = total
    BY <1>2, <1>50, <1>7, SignedRecord
  <2>2. PICK x, y : x = [i \in 1..n |-> -u[i]] /\ y = [k \in K |-> -v[k]]
    OBVIOUS
  <2>3. \A i \in 1..n : s[<<"line", i>>] = x[i]
    BY <1>51, <2>0, <2>2, SignedRecord
  <2>4. \A k \in K : s[<<"tax", k>>] = y[k]
    BY <1>52, <2>0, <2>2, SignedRecord
  <2>5. Summable(x, 1..n) /\ Summable(y, K)
    BY <1>2, <2>2 DEF Summable
  <2>6. Sum(x, 1..n) = -a
    <3>1. \A i \in 1..n : x[i] = -u[i]
      BY <2>2
    <3> QED
      BY <1>2, <1>4, <3>1, SumNegated
  <2>7. Sum(y, K) = -b
    <3>1. \A k \in K : y[k] = -v[k]
      BY <2>2
    <3> QED
      BY <1>2, <1>40, <3>1, SumNegated
  <2>8. total + Sum(x, 1..n) + Sum(y, K) = 0
    BY ONLY <1>2, <1>4, <1>40, <1>41, <2>6, <2>7
  <2>9. Balanced(s, n, K, total, x, y)
    BY ONLY <1>2, <2>1, <2>3, <2>4, <2>5, <2>8 DEF Balanced
  <2>10. Sum(s, EntryKeys(n, K)) = 0
    BY <2>9, BalancedSum
  <2> QED
    BY <1>1, <1>2, <2>10, SignedDelta
<1> QED
  BY <1>2, <1>6, <1>7

(* The entries of a document, and when none of their amounts is negative.   *)
TaxKeys(amounts) == {id \in DOMAIN amounts : amounts[id] # 0}
Destinations(n) ==
  [i \in 1..n |-> calculated.lines[i].net + calculated.lines[i].tax
                    - Calculation!Total(calculated.lines[i].recoverable)]

LEMMA InvoiceIs ==
  ASSUME NEW n, NEW m, NEW d, DocumentIs(n, m, d)
  PROVE  /\ EntryIs(Calculation!SalesInvoiceLines, n, TaxKeys(calculated.tax), "debit", calculated.total,
                    Nets(n), calculated.tax)
         /\ d = 0 => calculated.total = Sum(Nets(n), 1..n) + Sum(calculated.tax, TaxKeys(calculated.tax))
<1>1. PICK items, K, t : /\ items = Calculation!SalesInvoiceLines /\ K = TaxKeys(calculated.tax)
                         /\ t = calculated.tax
  OBVIOUS
<1>2. DocumentFacts(n, d)
  BY DocumentHas
<1>3. /\ n \in Nat /\ DOMAIN calculated.lines = 1..n /\ Summable(Nets(n), 1..n) /\ d \in Int
      /\ calculated.total = Sum(Nets(n), 1..n) + Sum(ByLine(n, LineTaxes(n)), 1..n) - d
      /\ t = ByComponent(stated, LineTaxes(n)) /\ Amounted(stated, n, LineTaxes(n))
  BY <1>1, <1>2, Zenon DEF DocumentFacts
<1>4. /\ Summable(t, Ids) /\ DOMAIN t = Ids /\ Summable(ByLine(n, LineTaxes(n)), 1..n)
      /\ Sum(t, Ids) = Sum(ByLine(n, LineTaxes(n)), 1..n)
  BY <1>3, ByComponentAdds DEF Ids, ByComponent
<1>5. Summable(t, K) /\ Sum(t, K) = Sum(t, Ids)
  BY <1>1, <1>4, NonzeroSum DEF TaxKeys
<1>6. DOMAIN items = EntryKeys(n, K) /\ DOMAIN items = Calculation!Keys(t)
  BY <1>1, <1>3, <1>4 DEF Calculation!SalesInvoiceLines, Calculation!Keys, EntryKeys, TaxKeys
<1>7. \A k \in EntryKeys(n, K) :
        items[k] = CASE k[1] = "total" -> [side |-> "debit", amount |-> calculated.total]
                     [] k[1] = "line" -> [side |-> "credit", amount |-> calculated.lines[k[2]].net]
                     [] k[1] = "tax" -> [side |-> "credit", amount |-> t[k[2]]]
  BY <1>1, <1>6 DEF Calculation!SalesInvoiceLines
<1>8. /\ <<"total", 0>> \in EntryKeys(n, K)
      /\ \A i \in 1..n : <<"line", i>> \in EntryKeys(n, K)
      /\ \A k \in K : <<"tax", k>> \in EntryKeys(n, K)
  BY DEF EntryKeys
<1>9. items[<<"total", 0>>] = [side |-> "debit", amount |-> calculated.total]
  BY <1>7, <1>8
<1>10. ASSUME NEW i \in 1..n PROVE items[<<"line", i>>] = [side |-> "credit", amount |-> Nets(n)[i]]
  BY <1>7, <1>8 DEF Nets
<1>11. ASSUME NEW k \in K PROVE items[<<"tax", k>>] = [side |-> "credit", amount |-> t[k]]
  BY <1>7, <1>8
<1>12. PICK a \in Int : a = Sum(Nets(n), 1..n)
  BY <1>3, SumIsInt
<1>13. PICK b \in Int : b = Sum(t, K)
  BY <1>5, SumIsInt
<1>14. calculated.total = a + b - d
  BY <1>3, <1>4, <1>5, <1>12, <1>13
<1>15. EntryIs(items, n, K, "debit", calculated.total, Nets(n), t)
  BY <1>3, <1>5, <1>6, <1>9, <1>10, <1>11, <1>14 DEF EntryIs
<1>16. d = 0 => calculated.total = a + b
  BY <1>3, <1>14
<1> QED
  BY <1>1, <1>12, <1>13, <1>15, <1>16

LEMMA BillIs ==
  ASSUME NEW n, NEW m, NEW d, DocumentIs(n, m, d)
  PROVE  /\ EntryIs(Calculation!VendorBillLines, n, TaxKeys(calculated.recoverable), "credit", calculated.total,
                    Destinations(n), calculated.recoverable)
         /\ d = 0 => calculated.total =
              Sum(Destinations(n), 1..n) + Sum(calculated.recoverable, TaxKeys(calculated.recoverable))
<1>1. PICK items, K, t : /\ items = Calculation!VendorBillLines /\ K = TaxKeys(calculated.recoverable)
                         /\ t = calculated.recoverable
  OBVIOUS
<1>2. DocumentFacts(n, d)
  BY DocumentHas
<1>3. /\ n \in Nat /\ DOMAIN calculated.lines = 1..n /\ Summable(Nets(n), 1..n) /\ d \in Int
      /\ Summable(ByLine(n, LineTaxes(n)), 1..n)
      /\ calculated.total = Sum(Nets(n), 1..n) + Sum(ByLine(n, LineTaxes(n)), 1..n) - d
      /\ t = ByComponent(stated, Recoverables(n)) /\ Amounted(stated, n, Recoverables(n))
  BY <1>1, <1>2, Zenon DEF DocumentFacts
<1>4. /\ Summable(t, Ids) /\ DOMAIN t = Ids /\ Summable(ByLine(n, Recoverables(n)), 1..n)
      /\ Sum(t, Ids) = Sum(ByLine(n, Recoverables(n)), 1..n)
  BY <1>3, ByComponentAdds DEF Ids, ByComponent
<1>5. Summable(t, K) /\ Sum(t, K) = Sum(t, Ids)
  BY <1>1, <1>4, NonzeroSum DEF TaxKeys
<1>6. DOMAIN items = EntryKeys(n, K) /\ DOMAIN items = Calculation!Keys(t)
  BY <1>1, <1>3, <1>4 DEF Calculation!VendorBillLines, Calculation!Keys, EntryKeys, TaxKeys
<1>7. \A k \in EntryKeys(n, K) :
        items[k] = CASE k[1] = "total" -> [side |-> "credit", amount |-> calculated.total]
                     [] k[1] = "line" ->
                          [side |-> "debit",
                           amount |-> calculated.lines[k[2]].net + calculated.lines[k[2]].tax
                                        - Calculation!Total(calculated.lines[k[2]].recoverable)]
                     [] k[1] = "tax" -> [side |-> "debit", amount |-> t[k[2]]]
  BY <1>1, <1>6 DEF Calculation!VendorBillLines
<1>8. /\ <<"total", 0>> \in EntryKeys(n, K)
      /\ \A i \in 1..n : <<"line", i>> \in EntryKeys(n, K)
      /\ \A k \in K : <<"tax", k>> \in EntryKeys(n, K)
  BY DEF EntryKeys
<1>9. items[<<"total", 0>>] = [side |-> "credit", amount |-> calculated.total]
  BY <1>7, <1>8
<1>10. ASSUME NEW i \in 1..n PROVE items[<<"line", i>>] = [side |-> "debit", amount |-> Destinations(n)[i]]
  BY <1>7, <1>8 DEF Destinations
<1>11. ASSUME NEW k \in K PROVE items[<<"tax", k>>] = [side |-> "debit", amount |-> t[k]]
  BY <1>7, <1>8
<1>12. PICK f, g, h, u : /\ f = Nets(n) /\ g = ByLine(n, LineTaxes(n)) /\ h = ByLine(n, Recoverables(n))
                         /\ u = Destinations(n)
  OBVIOUS
<1>13. ASSUME NEW i \in 1..n
       PROVE  f[i] \in Int /\ g[i] \in Int /\ h[i] \in Int /\ u[i] \in Int /\ f[i] + g[i] = u[i] + h[i]
  <2>1. LineFacts(n, m, i, calculated.lines[i])
    BY LineHas
  <2>2. PICK x \in Int : x = f[i] /\ x = calculated.lines[i].net
    BY <1>12, <2>1 DEF LineFacts, Nets
  <2>3. PICK y \in Int : y = g[i] /\ y = calculated.lines[i].tax
    BY <1>12, <2>1 DEF LineFacts, ByLine, LineTaxes
  <2>4. PICK z \in Int : z = h[i]
    BY <1>4, <1>12 DEF Summable
  <2>5. z = Calculation!Total(calculated.lines[i].recoverable)
    BY <1>12, <2>4 DEF ByLine, Recoverables
  <2>6. u[i] = x + y - z
    BY <1>12, <2>2, <2>3, <2>5 DEF Destinations
  <2> QED
    BY <2>2, <2>3, <2>4, <2>6
<1>14. Summable(u, 1..n) /\ Summable(f, 1..n) /\ Summable(g, 1..n) /\ Summable(h, 1..n) /\ IsFiniteSet(1..n)
  BY <1>13, <1>3, <1>4, <1>12 DEF Summable
<1>15. Sum(f, 1..n) + Sum(g, 1..n) = Sum(u, 1..n) + Sum(h, 1..n)
  <2>1. PICK w : w = [i \in 1..n |-> f[i] + g[i]]
    OBVIOUS
  <2>2. \A i \in 1..n : f[i] \in Int /\ g[i] \in Int /\ w[i] = f[i] + g[i]
    BY <1>13, <2>1
  <2>3. \A i \in 1..n : u[i] \in Int /\ h[i] \in Int /\ w[i] = u[i] + h[i]
    BY <1>13, <2>1
  <2>4. Sum(w, 1..n) = Sum(f, 1..n) + Sum(g, 1..n)
    BY <1>14, <2>2, SumPlus
  <2>5. Sum(w, 1..n) = Sum(u, 1..n) + Sum(h, 1..n)
    BY <1>14, <2>3, SumPlus
  <2> QED
    BY <2>4, <2>5
<1>16. PICK a \in Int : a = Sum(u, 1..n)
  BY <1>14, SumIsInt
<1>17. PICK b \in Int : b = Sum(t, K)
  BY <1>5, SumIsInt
<1>18. Sum(f, 1..n) + Sum(g, 1..n) = a + b
  BY <1>4, <1>5, <1>12, <1>15, <1>16, <1>17
<1>19. calculated.total = a + b - d
  <2>1. PICK p \in Int : p = Sum(f, 1..n)
    BY <1>14, SumIsInt
  <2>2. PICK q \in Int : q = Sum(g, 1..n)
    BY <1>14, SumIsInt
  <2>3. calculated.total = p + q - d /\ p + q = a + b
    BY <1>3, <1>12, <1>18, <2>1, <2>2
  <2> QED
    BY <1>3, <2>3
<1>20. EntryIs(items, n, K, "credit", calculated.total, u, t)
  BY <1>3, <1>5, <1>6, <1>9, <1>10, <1>11, <1>12, <1>14, <1>19 DEF EntryIs
<1>21. d = 0 => calculated.total = a + b
  BY <1>3, <1>19
<1> QED
  BY <1>1, <1>12, <1>16, <1>17, <1>20, <1>21

(* A document that charges nothing negative.                                *)
Fair(n) ==
  \A i \in 1..n : /\ calculated.lines[i].net >= 0
                  /\ \A c \in Calculation!Range(stated[i].code.components) : c.rate >= 0

LEMMA FairTaxes ==
  ASSUME NEW n, NEW m, NEW d, DocumentIs(n, m, d), Fair(n)
  PROVE  NoneNegative(stated, n, LineTaxes(n)) /\ NoneNegative(stated, n, Recoverables(n))
<1>1. ASSUME NEW i \in 1..n, NEW j \in 1..Len(Comps(i))
      PROVE  LineTaxes(n)[i][j] >= 0 /\ Recoverables(n)[i][j] >= 0
  <2>1. PICK l, cs : l = calculated.lines[i] /\ cs = Comps(i)
    OBVIOUS
  <2>2. LineFacts(n, m, i, l)
    BY <2>1, LineHas
  <2>3. LineOf(stated[i], m, l, l.net, l.taxes) /\ TaxesOf(cs) /\ l.net >= 0
    BY <2>1, <2>2 DEF LineFacts, Fair
  <2>4. Charged(cs)
    <3>1. ASSUME NEW k \in 1..Len(cs) PROVE cs[k].rate \in Nat
      <4>1. cs[k].rate \in Int /\ DOMAIN cs = 1..Len(cs)
        BY <2>3 DEF TaxesOf
      <4>2. cs[k] \in Calculation!Range(cs)
        BY <4>1 DEF Calculation!Range
      <4>3. cs[k].rate >= 0
        BY <2>1, <4>2 DEF Fair, Comps
      <4> QED
        BY <4>1, <4>3
    <3> QED
      BY <3>1 DEF Charged
  <2>5. l.taxes[j] >= 0
    BY <2>1, <2>3, <2>4 DEF LineOf, Comps
  <2>6. l.recoverable[j] >= 0
    BY <2>1, <2>2, <2>5 DEF LineFacts
  <2> QED
    BY <2>1, <2>5, <2>6 DEF LineTaxes, Recoverables
<1> QED
  BY <1>1 DEF NoneNegative, Comps

LEMMA FairEntries ==
  ASSUME NEW n, NEW m, NEW d, DocumentIs(n, m, d), Fair(n), d = 0
  PROVE  /\ \A k \in DOMAIN Calculation!SalesInvoiceLines : Calculation!SalesInvoiceLines[k].amount >= 0
         /\ \A k \in DOMAIN Calculation!VendorBillLines : Calculation!VendorBillLines[k].amount >= 0
<1>1. NoneNegative(stated, n, LineTaxes(n)) /\ NoneNegative(stated, n, Recoverables(n))
  BY FairTaxes
<1>2. /\ n \in Nat /\ calculated.tax = ByComponent(stated, LineTaxes(n))
      /\ calculated.recoverable = ByComponent(stated, Recoverables(n))
      /\ Summable(Nets(n), 1..n)
      /\ Amounted(stated, n, LineTaxes(n)) /\ Amounted(stated, n, Recoverables(n))
  BY DocumentHas, Zenon DEF DocumentFacts
<1>3. PICK K, L : K = TaxKeys(calculated.tax) /\ L = TaxKeys(calculated.recoverable)
  OBVIOUS
<1>4. (\A k \in K : calculated.tax[k] >= 0) /\ (\A k \in L : calculated.recoverable[k] >= 0)
  <2>1. \A id \in Ids : calculated.tax[id] >= 0
    BY <1>1, <1>2, ByComponentAdds DEF Ids
  <2>2. \A id \in Ids : calculated.recoverable[id] >= 0
    BY <1>1, <1>2, ByComponentAdds DEF Ids
  <2>3. K \subseteq Ids /\ L \subseteq Ids
    BY <1>2, <1>3 DEF TaxKeys, ByComponent, Ids
  <2> QED
    BY <2>1, <2>2, <2>3
<1>5. ASSUME NEW i \in 1..n PROVE Nets(n)[i] >= 0 /\ Destinations(n)[i] >= 0
  <2>1. PICK l : l = calculated.lines[i]
    OBVIOUS
  <2>2. LineFacts(n, m, i, l) /\ l.net >= 0
    BY <2>1, LineHas DEF Fair
  <2>3. PICK x \in Int, k \in Nat : x = l.net /\ k = Len(Comps(i))
    BY <2>2 DEF LineFacts, TaxesOf
  <2>4. PICK f, g : f = l.taxes /\ g = l.recoverable
    OBVIOUS
  <2>5. f \in [1..k -> Int] /\ g \in [1..k -> Int] /\ l.tax = Calculation!Total(f)
    BY <2>2, <2>3, <2>4 DEF LineFacts
  <2>6. ASSUME NEW j \in 1..k PROVE g[j] <= f[j]
    <3>1. f[j] >= 0
      BY <1>1, <2>1, <2>3, <2>4, <2>6 DEF NoneNegative, LineTaxes, Comps
    <3>2. g[j] \in 0..f[j] /\ f[j] \in Int
      BY <2>2, <2>3, <2>4, <2>5, <2>6, <3>1 DEF LineFacts
    <3> QED
      BY <3>2
  <2>7. PICK I : I = 1..k /\ IsFiniteSet(I)
    BY RowIsFinite
  <2>8. Summable(f, I) /\ Summable(g, I) /\ DOMAIN f = I /\ DOMAIN g = I
    BY <2>5, <2>7 DEF Summable
  <2>9. Sum(g, I) <= Sum(f, I)
    BY <2>6, <2>7, <2>8, SumAtMost
  <2>10. PICK y \in Int : y = l.tax /\ y = Sum(f, I)
    BY <2>5, <2>8, CalculationTotal, SumIsInt
  <2>11. PICK z \in Int : z = Calculation!Total(g) /\ z = Sum(g, I)
    BY <2>8, CalculationTotal, SumIsInt
  <2>12. Nets(n)[i] = x /\ Destinations(n)[i] = x + y - z
    BY <2>1, <2>3, <2>4, <2>10, <2>11 DEF Nets, Destinations
  <2> QED
    BY <2>2, <2>3, <2>9, <2>10, <2>11, <2>12, SMTT(60)
<1>6. calculated.total >= 0
  <2>1. /\ EntryIs(Calculation!SalesInvoiceLines, n, K, "debit", calculated.total, Nets(n), calculated.tax)
        /\ calculated.total = Sum(Nets(n), 1..n) + Sum(calculated.tax, K)
    BY <1>3, InvoiceIs
  <2>2. Summable(Nets(n), 1..n) /\ Summable(calculated.tax, K)
    BY <2>1 DEF EntryIs
  <2>3. Sum(Nets(n), 1..n) \in Nat
    <3>1. IsFiniteSet(1..n) /\ \A i \in 1..n : Nets(n)[i] \in Nat
      BY <1>5, <2>2 DEF Summable
    <3> QED
      BY <3>1, SumNat
  <2>4. Sum(calculated.tax, K) \in Nat
    <3>1. IsFiniteSet(K) /\ \A k \in K : calculated.tax[k] \in Nat
      BY <1>4, <2>2 DEF Summable
    <3> QED
      BY <3>1, SumNat
  <2> QED
    BY <2>1, <2>3, <2>4
<1>7. ASSUME NEW items, NEW T, NEW side, NEW u, NEW v,
             EntryIs(items, n, T, side, calculated.total, u, v),
             \A i \in 1..n : u[i] >= 0, \A k \in T : v[k] >= 0
      PROVE  \A k \in DOMAIN items : items[k].amount >= 0
  <2>1. PICK other : other = IF side = "debit" THEN "credit" ELSE "debit"
    OBVIOUS
  <2>2. /\ DOMAIN items = EntryKeys(n, T)
        /\ items[<<"total", 0>>] = [side |-> side, amount |-> calculated.total]
        /\ \A i \in 1..n : items[<<"line", i>>] = [side |-> other, amount |-> u[i]]
        /\ \A k \in T : items[<<"tax", k>>] = [side |-> other, amount |-> v[k]]
    BY <1>7, <2>1 DEF EntryIs
  <2>3. \A k \in EntryKeys(n, T) : \/ k = <<"total", 0>>
                                   \/ \E i \in 1..n : k = <<"line", i>>
                                   \/ \E i \in T : k = <<"tax", i>>
    BY DEF EntryKeys
  <2>4. items[<<"total", 0>>].amount >= 0
    BY <1>6, <2>2
  <2>5. ASSUME NEW i \in 1..n PROVE items[<<"line", i>>].amount >= 0
    <3>1. items[<<"line", i>>] = [side |-> other, amount |-> u[i]]
      BY <2>2
    <3>2. u[i] >= 0
      BY <1>7
    <3> QED
      BY <3>1, <3>2
  <2>6. ASSUME NEW k \in T PROVE items[<<"tax", k>>].amount >= 0
    <3>1. items[<<"tax", k>>] = [side |-> other, amount |-> v[k]]
      BY <2>2
    <3>2. v[k] >= 0
      BY <1>7
    <3> QED
      BY <3>1, <3>2
  <2> QED
    BY <2>2, <2>3, <2>4, <2>5, <2>6
<1>8. EntryIs(Calculation!SalesInvoiceLines, n, K, "debit", calculated.total, Nets(n), calculated.tax)
  BY <1>3, InvoiceIs
<1>9. EntryIs(Calculation!VendorBillLines, n, L, "credit", calculated.total, Destinations(n), calculated.recoverable)
  BY <1>3, BillIs
<1>10. \A k \in DOMAIN Calculation!SalesInvoiceLines : Calculation!SalesInvoiceLines[k].amount >= 0
  BY <1>4, <1>5, <1>7, <1>8
<1>11. \A k \in DOMAIN Calculation!VendorBillLines : Calculation!VendorBillLines[k].amount >= 0
  BY <1>4, <1>5, <1>7, <1>9
<1> QED
  BY <1>10, <1>11

(* What conversion cost is put on a line of its own.                        *)
LEMMA RoundingLineBalances ==
  ASSUME NEW p, Sided(p), <<"rounding", 0>> \notin DOMAIN p, NEW delta \in Int, delta = Calculation!Delta(p)
  PROVE  Calculation!Delta(Calculation!WithRoundingLine(p, delta)) = 0
<1>1. CASE delta = 0
  BY <1>1 DEF Calculation!WithRoundingLine
<1>2. CASE delta # 0
  <2>1. PICK D, key, q : D = DOMAIN p /\ key = <<"rounding", 0>> /\ q = Calculation!WithRoundingLine(p, delta)
    OBVIOUS
  <2>2. /\ DOMAIN q = D \cup {key} /\ key \notin D
        /\ \A k \in D : q[k] = p[k]
        /\ q[key] = [side |-> IF delta < 0 THEN "debit" ELSE "credit", amount |-> Calculation!Abs(delta)]
    BY <1>2, <2>1 DEF Calculation!WithRoundingLine
  <2>3. Calculation!Abs(delta) \in Nat
    BY AbsType
  <2>4. q[key] \in EntryLine
    BY <2>2, <2>3 DEF EntryLine
  <2>5. \A k \in D : q[k] \in EntryLine
    BY <2>1, <2>2 DEF Sided
  <2>6. IsFiniteSet(D \cup {key})
    BY <2>1, FS_Union, FS_Singleton DEF Sided
  <2>7. Sided(q)
    BY <2>2, <2>4, <2>5, <2>6 DEF Sided
  <2>8. PICK s, z : s = SignedLines(p) /\ z = SignedLines(q)
    OBVIOUS
  <2>9. Summable(s, D) /\ Sum(s, D) = delta
    BY <2>1, <2>8, SignedDelta
  <2>10. Summable(z, D \cup {key}) /\ Calculation!Delta(q) = Sum(z, D \cup {key})
    BY <2>2, <2>7, <2>8, SignedDelta
  <2>11. \A k \in D : z[k] = s[k]
    BY <2>1, <2>2, <2>8 DEF SignedLines
  <2>12. Sum(z, D) = Sum(s, D) /\ Summable(z, D)
    BY <2>9, <2>11, SumAgrees DEF Summable
  <2>13. z[key] = -delta
    BY <2>2, <2>8, AbsType DEF SignedLines, OnDebit, Calculation!Abs
  <2>14. Summable(z, {key}) /\ Sum(z, {key}) = -delta
    BY <2>13, SumOfOne
  <2>15. Sum(z, D \cup {key}) = Sum(z, D) + Sum(z, {key})
    <3>1. D \cap {key} = {}
      BY <2>2
    <3> QED
      BY <2>12, <2>14, <3>1, SumUnion
  <2> QED
    BY <2>1, <2>9, <2>10, <2>12, <2>14, <2>15
<1> QED
  BY <1>1, <1>2

(* An entry of an amount that is worth a unit is not empty.                 *)
LEMMA NotEmpty ==
  ASSUME NEW p, Sided(p), NEW key \in DOMAIN p, p[key].amount >= 1
  PROVE  ~Calculation!Empty(p)
<1>1. PICK side \in {"debit", "credit"} : side = p[key].side
  BY DEF Sided, EntryLine
<1>2. PICK S, f : /\ S = {x \in DOMAIN p : p[x].side = side} /\ f = [k \in S |-> p[k].amount]
  OBVIOUS
<1>3. IsFiniteSet(S) /\ \A k \in S : f[k] \in Nat
  <2>1. S \in SUBSET DOMAIN p /\ IsFiniteSet(DOMAIN p)
    BY <1>2 DEF Sided
  <2>2. IsFiniteSet(S)
    BY <2>1, FS_Subset
  <2> QED
    BY <1>2, <2>1, <2>2 DEF Sided, EntryLine
<1>4. key \in S /\ f[key] >= 1
  BY <1>1, <1>2
<1>5. Sum(f, S) \in Nat
  BY <1>3, SumNat
<1>6. Sum(f, S) # 0
  BY <1>3, <1>4, SumNat
<1>7. Calculation!Side(p, side) = Sum(f, S)
  BY <1>2, CalculationTotal DEF Calculation!Side
<1> QED
  BY <1>1, <1>6, <1>7 DEF Calculation!Empty
(* An entry of the document, whichever it is: its keys, and what makes it   *)
(* balance and postable.                                                    *)
EntryOf(items, n, d) ==
  \E K, side, u, v :
    /\ EntryIs(items, n, K, side, calculated.total, u, v)
    /\ d = 0 => calculated.total = Sum(u, 1..n) + Sum(v, K)

LEMMA Entries ==
  ASSUME NEW n, NEW m, NEW d, DocumentIs(n, m, d),
         NEW items \in {Calculation!SalesInvoiceLines, Calculation!VendorBillLines}
  PROVE  EntryOf(items, n, d) /\ (d = 0 /\ Fair(n) => \A k \in DOMAIN items : items[k].amount >= 0)
<1>1. EntryOf(Calculation!SalesInvoiceLines, n, d)
  BY InvoiceIs DEF EntryOf
<1>2. EntryOf(Calculation!VendorBillLines, n, d)
  BY BillIs DEF EntryOf
<1> QED
  BY <1>1, <1>2, FairEntries

LEMMA EntryAmounts ==
  ASSUME NEW items, NEW n, NEW K, NEW side, NEW total, NEW u, NEW v,
         EntryIs(items, n, K, side, total, u, v)
  PROVE  \A k \in DOMAIN items : items[k].amount \in Int
<1>1. PICK other : other = IF side = "debit" THEN "credit" ELSE "debit"
  OBVIOUS
<1>2. /\ total \in Int /\ Summable(u, 1..n) /\ Summable(v, K) /\ DOMAIN items = EntryKeys(n, K)
      /\ items[<<"total", 0>>] = [side |-> side, amount |-> total]
      /\ \A i \in 1..n : items[<<"line", i>>] = [side |-> other, amount |-> u[i]]
      /\ \A k \in K : items[<<"tax", k>>] = [side |-> other, amount |-> v[k]]
  BY <1>1 DEF EntryIs
<1>3. ASSUME NEW i \in 1..n PROVE items[<<"line", i>>].amount \in Int
  <2>1. items[<<"line", i>>] = [side |-> other, amount |-> u[i]] /\ u[i] \in Int
    BY <1>2 DEF Summable
  <2> QED
    BY <2>1
<1>4. ASSUME NEW k \in K PROVE items[<<"tax", k>>].amount \in Int
  <2>1. items[<<"tax", k>>] = [side |-> other, amount |-> v[k]] /\ v[k] \in Int
    BY <1>2 DEF Summable
  <2> QED
    BY <2>1
<1>5. \A k \in EntryKeys(n, K) : \/ k = <<"total", 0>>
                                 \/ \E i \in 1..n : k = <<"line", i>>
                                 \/ \E i \in K : k = <<"tax", i>>
  BY DEF EntryKeys
<1> QED
  BY <1>2, <1>3, <1>4, <1>5

(* The worth of the document in the book is at least a unit.                *)
Worth(rate) == calculated.total * Rated(rate) >= 100

LEMMA EntryPosts ==
  ASSUME NEW items, NEW n, NEW d, EntryOf(items, n, d), NEW rate \in Nat, NEW m,
         \A k \in DOMAIN items : items[k].amount >= 0
  PROVE  LET p == Calculation!PrepareLines(items, rate, m)
         IN /\ Calculation!Delta(p) \in Int
            /\ Calculation!Delta(Calculation!WithRoundingLine(p, Calculation!Delta(p))) = 0
            /\ d = 0 /\ Worth(rate) => ~Calculation!Empty(p)
            /\ d = 0 => Calculation!Abs(Calculation!Delta(p)) <= Calculation!Cardinality(DOMAIN items)
            /\ d = 0 /\ rate = Calculation!Base => Calculation!Delta(p) = 0
<1>1. PICK K, side, u, v : /\ EntryIs(items, n, K, side, calculated.total, u, v)
                           /\ d = 0 => calculated.total = Sum(u, 1..n) + Sum(v, K)
  BY DEF EntryOf
<1>2. PICK total \in Int : total = calculated.total
  BY <1>1 DEF EntryIs
<1>3. Sided(items) /\ total >= 0
  BY <1>1, <1>2, EntryIsSided
<1>4. DOMAIN items = EntryKeys(n, K) /\ items[<<"total", 0>>] = [side |-> side, amount |-> total]
  BY <1>1, <1>2 DEF EntryIs
<1>5. PICK p, key : p = Calculation!PrepareLines(items, rate, m) /\ key = <<"total", 0>>
  OBVIOUS
<1>6. /\ Sided(p) /\ DOMAIN p = DOMAIN items
      /\ \A k \in DOMAIN items : p[k].amount = Calculation!ConvertToBase(items[k].amount, rate, m)
  <2>1. LET q == Calculation!PrepareLines(items, rate, m)
        IN /\ Sided(q) /\ DOMAIN q = DOMAIN items
           /\ \A k \in DOMAIN items : /\ q[k].side = items[k].side
                                      /\ q[k].amount = Calculation!ConvertToBase(items[k].amount, rate, m)
    BY <1>3, ConvertedLines
  <2> QED
    BY ONLY <1>5, <2>1
<1>7. PICK delta \in Int : delta = Calculation!Delta(p)
  BY <1>6, SignedDelta
<1>8. <<"rounding", 0>> \notin DOMAIN p
  BY <1>4, <1>6 DEF EntryKeys
<1>9. Calculation!Delta(Calculation!WithRoundingLine(p, delta)) = 0
  BY <1>6, <1>7, <1>8, RoundingLineBalances
<1>10. ASSUME d = 0, Worth(rate) PROVE ~Calculation!Empty(p)
  <2>1. total \in Nat
    BY <1>3
  <2>2. PICK w \in Nat, y \in Nat :
          /\ w = Calculation!ConvertToBase(total, rate, m) /\ y = total * Rated(rate)
          /\ -99 <= 100 * w - y
    BY <2>1, ConvertedLine
  <2>3. y >= 100
    BY <1>2, <1>10, <2>2 DEF Worth
  <2>4. w >= 1
    BY <2>2, <2>3
  <2>5. key \in DOMAIN p /\ p[key].amount = w
    BY <1>4, <1>5, <1>6, <2>2 DEF EntryKeys
  <2> QED
    BY <1>6, <2>4, <2>5, NotEmpty
<1>11. ASSUME d = 0
       PROVE  /\ Calculation!Abs(delta) <= Calculation!Cardinality(DOMAIN items)
              /\ rate = Calculation!Base => delta = 0
  <2>1. calculated.total = Sum(u, 1..n) + Sum(v, K)
    BY <1>1, <1>11
  <2>2. Calculation!Delta(items) = 0
    BY <1>1, <1>3, <2>1, EntryBalances
  <2>3. LET q == Calculation!PrepareLines(items, rate, m)
        IN /\ Calculation!Abs(Calculation!Delta(q)) <= Calculation!Cardinality(DOMAIN items)
           /\ rate = Calculation!Base => Calculation!Delta(q) = 0
    BY <1>3, <2>2, ConversionDelta
  <2> QED
    BY ONLY <1>5, <1>7, <2>3
<1> QED
  BY ONLY <1>5, <1>7, <1>9, <1>10, <1>11
(* Nothing was calculated yet, or what was calculated stays.                *)
CalculationInv ==
  \/ /\ stated = <<>> /\ journal.status = Calculation!None
     /\ calculated = [lines |-> <<>>, discount |-> 0, total |-> 0, subtotal |-> 0,
                      tax |-> <<>>, recoverable |-> <<>>]
  \/ \E n, m, d : DocumentIs(n, m, d)

LEMMA CalculationInit == Calculation!Init => CalculationInv /\ Calculation!PostsWhatItCalculates
  BY DEF Calculation!Init, CalculationInv, Calculation!PostsWhatItCalculates, Calculation!None

LEMMA CalculationImplies == CalculationInv => Calculation!DocumentAddsUp
<1>1. ASSUME stated = <<>>,
             calculated = [lines |-> <<>>, discount |-> 0, total |-> 0, subtotal |-> 0,
                           tax |-> <<>>, recoverable |-> <<>>]
      PROVE  Calculation!DocumentAddsUp
  <2>1. Calculation!Total(calculated.tax) = 0
    <3>1. DOMAIN calculated.tax = {}
      BY <1>1
    <3> QED
      BY <3>1, CalculationTotal, SumOfNone
  <2>2. calculated.total = calculated.subtotal + Calculation!Total(calculated.tax) - calculated.discount
    BY <1>1, <2>1
  <2>3. DOMAIN stated = {}
    BY <1>1
  <2> QED
    BY <2>2, <2>3 DEF Calculation!DocumentAddsUp
<1> QED
  BY <1>1, DocumentAdds DEF CalculationInv

LEMMA CalculationStep ==
  CalculationInv /\ Calculation!PostsWhatItCalculates /\ [Calculation!Next]_(Calculation!vars)
    => CalculationInv' /\ Calculation!PostsWhatItCalculates'
<1> SUFFICES ASSUME CalculationInv, Calculation!PostsWhatItCalculates, [Calculation!Next]_(Calculation!vars)
             PROVE  CalculationInv' /\ Calculation!PostsWhatItCalculates'
  OBVIOUS
<1>1. CASE UNCHANGED Calculation!vars
  BY <1>1 DEF Calculation!vars, CalculationInv, DocumentIs, Calculation!PostsWhatItCalculates, Calculation!Postable
<1>2. ASSUME NEW m \in RoundingModes, NEW n \in 1..MaxLines, NEW d \in Discounts,
             NEW rows2 \in [1..n -> Calculation!StatedLine], Calculation!CalculateDocument(rows2, d, m)
      PROVE  CalculationInv' /\ Calculation!PostsWhatItCalculates'
  <2>1. n \in Nat /\ n # 0 /\ d \in Int
    BY FiguresAssumption DEF Calculation!CodesAssumption
  <2>2. /\ stated' = rows2 /\ UNCHANGED journal
        /\ \A i \in DOMAIN rows2 : Calculation!Calculable(rows2[i], m)
        /\ calculated' = Calculation!Calculated(rows2, [i \in DOMAIN rows2 |-> Calculation!CalculateLine(rows2[i], m)], d)
        /\ stated = <<>>
    BY <1>2 DEF Calculation!CalculateDocument
  <2>3. DOMAIN rows2 = 1..n
    OBVIOUS
  <2>4. DocumentIs(n, m, d)'
    BY <2>1, <2>2, <2>3 DEF DocumentIs
  <2>5. journal.status = Calculation!None
    <3>1. ASSUME NEW k, NEW a, NEW b, DocumentIs(k, a, b) PROVE FALSE
      <4>1. k \in Nat /\ k # 0 /\ DOMAIN stated = 1..k
        BY <3>1 DEF DocumentIs
      <4>2. 1 \in DOMAIN stated
        BY <4>1
      <4> QED
        BY <2>2, <4>2
    <3> QED
      BY <3>1 DEF CalculationInv
  <2>6. Calculation!PostsWhatItCalculates'
    BY <2>2, <2>5 DEF Calculation!PostsWhatItCalculates, Calculation!None
  <2> QED
    BY <2>4, <2>6 DEF CalculationInv
<1>3. ASSUME NEW m \in RoundingModes, stated # <<>>,
             NEW entry2 \in {Calculation!SalesInvoiceLines, Calculation!VendorBillLines},
             NEW rate \in SaleRates, NEW t \in Tolerances, NEW known \in BOOLEAN,
             Calculation!PreparePosting(entry2, rate, m, t, known)
      PROVE  CalculationInv' /\ Calculation!PostsWhatItCalculates'
  <2>1. rate \in Nat
    BY FiguresAssumption DEF Calculation!CodesAssumption
  <2>2. PICK n, mm, d : DocumentIs(n, mm, d)
    BY <1>3 DEF CalculationInv
  <2>3. UNCHANGED <<stated, calculated>>
    BY <1>3 DEF Calculation!PreparePosting
  <2>4. CalculationInv'
    BY <2>2, <2>3 DEF CalculationInv, DocumentIs
  <2>5. PICK p, converted : /\ p = Calculation!PrepareLines(entry2, rate, m)
                            /\ converted = IF rate = Calculation!Base THEN 0 ELSE Calculation!Cardinality(DOMAIN entry2)
    OBVIOUS
  <2>6. PICK refused \in BOOLEAN :
          refused = (\/ \E k \in DOMAIN entry2 : entry2[k].amount < 0
                     \/ Calculation!Unbalanced(p, converted, t, known))
    OBVIOUS
  <2>7. journal' = [rate |-> rate, account |-> known,
                    status |-> IF refused THEN "refused" ELSE "posted",
                    lines |-> IF refused THEN <<>> ELSE Calculation!WithRoundingLine(p, Calculation!Delta(p))]
    <3>1. LET q == Calculation!PrepareLines(entry2, rate, m)
              c == IF rate = Calculation!Base THEN 0 ELSE Calculation!Cardinality(DOMAIN entry2)
              no == \/ \E k \in DOMAIN entry2 : entry2[k].amount < 0
                    \/ Calculation!Unbalanced(q, c, t, known)
          IN journal' = [rate |-> rate, account |-> known,
                         status |-> IF no THEN "refused" ELSE "posted",
                         lines |-> IF no THEN <<>> ELSE Calculation!WithRoundingLine(q, Calculation!Delta(q))]
      BY <1>3, Zenon DEF Calculation!PreparePosting
    <3> QED
      BY ONLY <2>5, <2>6, <3>1
  <2>8. EntryOf(entry2, n, d) /\ (d = 0 /\ Fair(n) => \A k \in DOMAIN entry2 : entry2[k].amount >= 0)
    BY <2>2, Entries
  <2>9. \A k \in DOMAIN entry2 : entry2[k].amount \in Int
    <3>1. PICK K, side, u, v : EntryIs(entry2, n, K, side, calculated.total, u, v)
      BY <2>8 DEF EntryOf
    <3> QED
      BY <3>1, EntryAmounts
  <2>10. CASE ~refused
    <3>1. \A k \in DOMAIN entry2 : entry2[k].amount >= 0
      BY <2>6, <2>9, <2>10
    <3>2. LET q == Calculation!PrepareLines(entry2, rate, m)
          IN Calculation!Delta(Calculation!WithRoundingLine(q, Calculation!Delta(q))) = 0
      BY <2>1, <2>8, <3>1, EntryPosts
    <3>3. Calculation!Delta(Calculation!WithRoundingLine(p, Calculation!Delta(p))) = 0
      BY ONLY <2>5, <3>2
    <3>4. journal'.status = "posted" /\ journal'.lines = Calculation!WithRoundingLine(p, Calculation!Delta(p))
      BY <2>7, <2>10
    <3>5. Calculation!PostsWhatItCalculates'
      BY <3>3, <3>4 DEF Calculation!PostsWhatItCalculates
    <3> QED
      BY <2>4, <3>5
  <2>11. CASE refused
    <3>1. journal'.status = "refused" /\ journal'.rate = rate /\ journal'.account = known
      BY <2>7, <2>11
    <3>2. ASSUME Calculation!Postable' PROVE rate # Calculation!Base /\ ~known
      <4>1. /\ calculated.discount = 0 /\ Worth(rate)
            /\ \A i \in DOMAIN stated : /\ calculated.lines[i].net >= 0
                                        /\ \A c \in Calculation!Range(stated[i].code.components) : c.rate >= 0
        BY <2>3, <3>1, <3>2 DEF Calculation!Postable, Worth, Rated
      <4>2. d = 0 /\ Fair(n)
        <5>1. DocumentFacts(n, d)
          BY <2>2, DocumentHas
        <5>2. calculated.discount = d /\ DOMAIN stated = 1..n
          BY <5>1 DEF DocumentFacts
        <5> QED
          BY <4>1, <5>2 DEF Fair
      <4>3. \A k \in DOMAIN entry2 : entry2[k].amount >= 0
        BY <2>8, <4>2
      <4>4. LET q == Calculation!PrepareLines(entry2, rate, m)
            IN /\ Calculation!Delta(q) \in Int
               /\ ~Calculation!Empty(q)
               /\ Calculation!Abs(Calculation!Delta(q)) <= Calculation!Cardinality(DOMAIN entry2)
               /\ rate = Calculation!Base => Calculation!Delta(q) = 0
        BY <2>1, <2>8, <4>1, <4>2, <4>3, EntryPosts
      <4>5. PICK delta \in Int, c \in Nat : delta = Calculation!Delta(p) /\ c = Calculation!Abs(delta)
        <5>1. Calculation!Delta(p) \in Int
          BY ONLY <2>5, <4>4
        <5> QED
          BY <5>1, AbsType
      <4>6. /\ ~Calculation!Empty(p) /\ (rate # Calculation!Base => ~(c > converted))
            /\ rate = Calculation!Base => delta = 0
        <5>1. ~Calculation!Empty(p) /\ c <= Calculation!Cardinality(DOMAIN entry2)
              /\ (rate = Calculation!Base => delta = 0)
          BY ONLY <2>5, <4>4, <4>5
        <5>2. rate # Calculation!Base => Calculation!Cardinality(DOMAIN entry2) = converted
          BY <2>5
        <5>3. rate # Calculation!Base => converted \in Nat
          <6>1. IsFiniteSet(DOMAIN entry2)
            <7>1. PICK K, side, u, v : EntryIs(entry2, n, K, side, calculated.total, u, v)
              BY <2>8 DEF EntryOf
            <7> QED
              BY <4>3, <7>1, EntryIsSided DEF Sided
          <6> QED
            BY <5>2, <6>1, FS_CardinalityType, CalculationCardinality
        <5> QED
          BY <5>1, <5>2, <5>3
      <4>7. Calculation!Unbalanced(p, converted, t, known)
        <5>1. ~\E k \in DOMAIN entry2 : entry2[k].amount < 0
          BY <2>9, <4>3
        <5> QED
          BY <2>6, <2>11, <5>1
      <4>8. rate # Calculation!Base
        <5>1. ASSUME rate = Calculation!Base PROVE FALSE
          <6>1. delta = 0 /\ converted = 0 /\ c = 0
            BY <2>5, <4>5, <4>6, <5>1 DEF Calculation!Abs
          <6> QED
            BY <4>5, <4>6, <4>7, <6>1 DEF Calculation!Unbalanced
        <5> QED
          BY <5>1
      <4>9. ~known
        BY <4>5, <4>6, <4>7, <4>8 DEF Calculation!Unbalanced
      <4> QED
        BY <4>8, <4>9
    <3>3. Calculation!PostsWhatItCalculates'
      BY <3>1, <3>2 DEF Calculation!PostsWhatItCalculates
    <3> QED
      BY <2>4, <3>3
  <2> QED
    BY <2>10, <2>11
<1> QED
  BY <1>1, <1>2, <1>3 DEF Calculation!Next

(***************************************************************************)
(* Reports (LedgerReports).                                                *)
(***************************************************************************)
(***************************************************************************)
(* Reports.                                                                *)
(***************************************************************************)
LEMMA ReportsTotal == ASSUME NEW f PROVE Reports!Total(f) = Sum(f, DOMAIN f)
  BY Zenon DEF Reports!Total, Reports!FoldFunction, Reports!FoldFunctionOnSet, Reports!MapThenFoldSet,
     Sum, MapThenSumSet, MapThenFoldSet
LEMMA ReportsCardinality == ASSUME NEW S PROVE Reports!Cardinality(S) = Cardinality(S)
  BY Zenon DEF Reports!Cardinality, Cardinality, Reports!IsFiniteSet, IsFiniteSet

(* The order of the periods there are.                                      *)
YearsExist == IsFiniteSet(reportYears) /\ reportYears \subseteq DOMAIN FiscalYears

LEMMA PeriodType ==
  ASSUME YearsExist
  PROVE  /\ IsFiniteSet(Reports!Periods)
         /\ \A p \in Reports!Periods :
              /\ p[1] \in Nat /\ p[2] \in Nat /\ p = <<p[1], p[2]>>
              /\ Reports!Span(p).start \in Nat \ {0} /\ Reports!Span(p).end \in Nat
              /\ Reports!Span(p).start <= Reports!Span(p).end
         /\ \A p, q \in Reports!Periods : Reports!Before(p, q) =>
              Reports!Span(p).start <= Reports!Span(q).start /\ Reports!Span(p).end <= Reports!Span(q).end
<1>1. PICK all : all = UNION {{y} \X DOMAIN FiscalYears[y] : y \in DOMAIN FiscalYears}
  OBVIOUS
<1>2. /\ DOMAIN FiscalYears \subseteq Nat
      /\ \A y \in DOMAIN FiscalYears : FiscalYears[y] \in Seq([start : Nat \ {0}, end : Nat])
      /\ \A p \in all : Reports!Span(p).start <= Reports!Span(p).end
      /\ \A p, q \in all : Reports!Before(p, q) =>
           Reports!Span(p).start <= Reports!Span(q).start /\ Reports!Span(p).end <= Reports!Span(q).end
  BY <1>1, FiguresAssumption, Zenon DEF Reports!YearsAssumption
<1>3. ASSUME NEW y \in DOMAIN FiscalYears
      PROVE  /\ y \in Nat /\ Len(FiscalYears[y]) \in Nat /\ DOMAIN FiscalYears[y] = 1..Len(FiscalYears[y])
             /\ \A i \in DOMAIN FiscalYears[y] : FiscalYears[y][i] \in [start : Nat \ {0}, end : Nat]
  <2>1. PICK W : W = [start : Nat \ {0}, end : Nat]
    OBVIOUS
  <2>2. PICK s : s = FiscalYears[y]
    OBVIOUS
  <2>3. s \in Seq(W) /\ y \in Nat
    BY <1>2, <2>1, <2>2
  <2>4. Len(s) \in Nat /\ DOMAIN s = 1..Len(s) /\ \A i \in DOMAIN s : s[i] \in W
    BY ONLY <2>3
  <2> QED
    BY <2>1, <2>2, <2>3, <2>4
<1>4. ASSUME NEW p \in Reports!Periods
      PROVE  /\ p[1] \in reportYears /\ p[2] \in DOMAIN FiscalYears[p[1]] /\ p = <<p[1], p[2]>>
  <2>1. PICK y \in reportYears : p \in {y} \X DOMAIN FiscalYears[y]
    BY DEF Reports!Periods
  <2> QED
    BY <2>1
<1>5. ASSUME NEW p \in Reports!Periods
      PROVE  /\ p[1] \in Nat /\ p[2] \in Nat /\ p = <<p[1], p[2]>> /\ p \in all
             /\ Reports!Span(p).start \in Nat \ {0} /\ Reports!Span(p).end \in Nat
  <2>1. /\ p[1] \in reportYears /\ p[2] \in DOMAIN FiscalYears[p[1]] /\ p = <<p[1], p[2]>>
        /\ p[1] \in DOMAIN FiscalYears
    BY <1>4 DEF YearsExist
  <2>2. p[1] \in Nat /\ p[2] \in Nat /\ FiscalYears[p[1]][p[2]] \in [start : Nat \ {0}, end : Nat]
    BY <1>3, <2>1
  <2>3. p \in all
    BY <1>1, <2>1
  <2> QED
    BY <2>1, <2>2, <2>3 DEF Reports!Span
<1>6. IsFiniteSet(Reports!Periods)
  <2>1. PICK f : f = [y \in reportYears |-> {y} \X DOMAIN FiscalYears[y]]
    OBVIOUS
  <2>2. IsFiniteSet({f[y] : y \in reportYears})
    BY <2>1, ImageFinite, ZenonT(60) DEF YearsExist
  <2>3. ASSUME NEW y \in reportYears PROVE IsFiniteSet(f[y])
    <3>1. PICK n \in Nat : DOMAIN FiscalYears[y] = 1..n
      BY <1>3 DEF YearsExist
    <3>2. IsFiniteSet(1..n)
      <4>1. 1 \in Int /\ n \in Int
        OBVIOUS
      <4> QED
        BY ONLY <4>1, FS_Interval
    <3>3. IsFiniteSet({y} \X (1..n))
      BY <3>2, FS_Singleton, FS_Product
    <3> QED
      BY <2>1, <3>1, <3>3
  <2>4. IsFiniteSet(UNION {f[y] : y \in reportYears})
    BY <2>2, <2>3, FS_UNION
  <2>5. Reports!Periods = UNION {f[y] : y \in reportYears}
    BY <2>1 DEF Reports!Periods
  <2> QED
    BY <2>4, <2>5
<1>7. /\ \A p \in Reports!Periods : Reports!Span(p).start <= Reports!Span(p).end
      /\ \A p, q \in Reports!Periods : Reports!Before(p, q) =>
           Reports!Span(p).start <= Reports!Span(q).start /\ Reports!Span(p).end <= Reports!Span(q).end
  BY <1>2, <1>5
<1> QED
  BY <1>5, <1>6, <1>7

LEMMA PeriodOrder ==
  ASSUME YearsExist
  PROVE  /\ \A p, q \in Reports!Periods : p = q \/ Reports!Before(p, q) \/ Reports!Before(q, p)
         /\ \A p, q \in Reports!Periods : Reports!Before(p, q) => ~Reports!Before(q, p) /\ p # q
         /\ \A p, q, r \in Reports!Periods : Reports!Before(p, q) /\ Reports!Before(q, r) => Reports!Before(p, r)
<1>1. \A p \in Reports!Periods : p[1] \in Nat /\ p[2] \in Nat /\ p = <<p[1], p[2]>>
  BY PeriodType
<1>2. \A p, q \in Reports!Periods : p = q \/ Reports!Before(p, q) \/ Reports!Before(q, p)
  BY <1>1 DEF Reports!Before
<1>3. \A p, q \in Reports!Periods : Reports!Before(p, q) => ~Reports!Before(q, p) /\ p # q
  BY <1>1 DEF Reports!Before
<1>4. \A p, q, r \in Reports!Periods : Reports!Before(p, q) /\ Reports!Before(q, r) => Reports!Before(p, r)
  BY <1>1 DEF Reports!Before
<1> QED
  BY <1>2, <1>3, <1>4

LEMMA UpToType ==
  ASSUME YearsExist, NEW p \in Reports!Periods
  PROVE  /\ Reports!UpTo(p) \in SUBSET Reports!Periods /\ IsFiniteSet(Reports!UpTo(p))
         /\ Reports!Ordinal(p) = Cardinality(Reports!UpTo(p)) /\ Reports!Ordinal(p) \in Nat \ {0}
         /\ Reports!Ordinal(p) <= Cardinality(Reports!Periods)
<1>1. Reports!UpTo(p) \in SUBSET Reports!Periods /\ p \in Reports!UpTo(p)
  BY DEF Reports!UpTo
<1>2. IsFiniteSet(Reports!UpTo(p)) /\ Cardinality(Reports!UpTo(p)) <= Cardinality(Reports!Periods)
  BY <1>1, PeriodType, FS_Subset
<1>3. Cardinality(Reports!UpTo(p)) \in Nat /\ Cardinality(Reports!UpTo(p)) # 0
  BY <1>1, <1>2, FS_CardinalityType, FS_EmptySet
<1> QED
  BY <1>1, <1>2, <1>3, ReportsCardinality DEF Reports!Ordinal

(* Ordinals are in the order of the periods.                                *)
LEMMA OrdinalOrder ==
  ASSUME YearsExist
  PROVE  \A p, q \in Reports!Periods :
           /\ Reports!Ordinal(p) \in Nat
           /\ Reports!Before(p, q) <=> Reports!Ordinal(p) < Reports!Ordinal(q)
<1>1. ASSUME NEW p \in Reports!Periods, NEW q \in Reports!Periods, Reports!Before(p, q)
      PROVE  Reports!Ordinal(p) < Reports!Ordinal(q)
  <2>1. Reports!UpTo(p) \in SUBSET Reports!UpTo(q)
    BY <1>1, PeriodOrder DEF Reports!UpTo
  <2>2. q \in Reports!UpTo(q) /\ q \notin Reports!UpTo(p)
    BY <1>1, PeriodOrder DEF Reports!UpTo
  <2>3. /\ Cardinality(Reports!UpTo(p)) <= Cardinality(Reports!UpTo(q))
        /\ Cardinality(Reports!UpTo(p)) # Cardinality(Reports!UpTo(q))
    BY <2>1, <2>2, UpToType, FS_Subset
  <2>4. PICK a \in Nat, b \in Nat : a = Reports!Ordinal(p) /\ b = Reports!Ordinal(q)
    BY UpToType
  <2> QED
    BY <2>3, <2>4, UpToType
<1>2. \A p \in Reports!Periods : Reports!Ordinal(p) \in Nat
  BY UpToType
<1> QED
  BY <1>1, <1>2, PeriodOrder

LEMMA FirstIs ==
  ASSUME YearsExist, NEW w \in SUBSET Reports!Periods, w # {}
  PROVE  Reports!First(w) \in w /\ \A q \in w : Reports!First(w) = q \/ Reports!Before(Reports!First(w), q)
<1>1. PICK S : S = {Reports!Ordinal(p) : p \in w}
  OBVIOUS
<1>2. S \in SUBSET Nat /\ S # {}
  BY <1>1, OrdinalOrder
<1>3. PICK x \in S : \A y \in S : x <= y
  BY <1>2, LeastExists
<1>4. PICK p \in w : x = Reports!Ordinal(p)
  BY <1>1, <1>3
<1>5. ASSUME NEW q \in w PROVE p = q \/ Reports!Before(p, q)
  <2>1. Reports!Ordinal(p) <= Reports!Ordinal(q) /\ Reports!Ordinal(p) \in Nat /\ Reports!Ordinal(q) \in Nat
    BY <1>1, <1>3, <1>4, OrdinalOrder
  <2>2. ~Reports!Before(q, p)
    BY <2>1, OrdinalOrder
  <2> QED
    BY <2>2, PeriodOrder
<1>6. \E f \in w : \A q \in w : f = q \/ Reports!Before(f, q)
  BY <1>5
<1> QED
  BY <1>6 DEF Reports!First

LEMMA LastIs ==
  ASSUME YearsExist, NEW w \in SUBSET Reports!Periods, w # {}
  PROVE  Reports!Last(w) \in w /\ \A q \in w : Reports!Last(w) = q \/ Reports!Before(q, Reports!Last(w))
<1>1. PICK f : f = [p \in w |-> Reports!Ordinal(p)]
  OBVIOUS
<1>2. IsFiniteSet(w) /\ \A p \in w : f[p] \in Nat
  BY <1>1, OrdinalOrder, PeriodType, FS_Subset
<1>3. PICK p \in w : \A q \in w : f[q] <= f[p]
  BY <1>2, GreatestBy
<1>5. ASSUME NEW q \in w PROVE p = q \/ Reports!Before(q, p)
  <2>1. Reports!Ordinal(q) <= Reports!Ordinal(p) /\ Reports!Ordinal(p) \in Nat /\ Reports!Ordinal(q) \in Nat
    BY <1>1, <1>3, OrdinalOrder
  <2>2. ~Reports!Before(p, q)
    BY <2>1, OrdinalOrder
  <2> QED
    BY <2>2, PeriodOrder
<1>6. \E l \in w : \A q \in w : l = q \/ Reports!Before(q, l)
  BY <1>5
<1> QED
  BY <1>6 DEF Reports!Last

(* A window has every period between its first and its last: its ordinals   *)
(* are as many as it has periods.                                           *)
LEMMA WindowOrdinals ==
  ASSUME YearsExist, NEW from \in Nat, NEW to \in Nat, NEW w, w = Reports!Window(from, to), w # {},
         NEW F, F = Reports!First(w), NEW L, L = Reports!Last(w),
         NEW first, first = Reports!Ordinal(F), NEW last, last = first + Cardinality(w) - 1
  PROVE  /\ F \in Reports!Periods /\ L \in Reports!Periods
         /\ {p \in Reports!Periods : Reports!Ordinal(p) < first} = {p \in Reports!Periods : Reports!Before(p, F)}
         /\ {p \in Reports!Periods : Reports!Ordinal(p) >= first /\ Reports!Ordinal(p) <= last} = w
         /\ {p \in Reports!Periods : Reports!Ordinal(p) <= last} = Reports!UpTo(L)
<1>1. w \in SUBSET Reports!Periods
  BY DEF Reports!Window
<1>2. /\ F \in w /\ \A q \in w : F = q \/ Reports!Before(F, q)
      /\ L \in w /\ \A q \in w : L = q \/ Reports!Before(q, L)
  BY <1>1, FirstIs, LastIs
<1>3. ASSUME NEW r \in Reports!Periods, F = r \/ Reports!Before(F, r), L = r \/ Reports!Before(r, L)
      PROVE  r \in w
  <2>1. PICK s \in Nat, e \in Nat : s = Reports!Span(r).start /\ e = Reports!Span(r).end
    BY PeriodType
  <2>2. PICK sF \in Nat, eF \in Nat : sF = Reports!Span(F).start /\ eF = Reports!Span(F).end
    BY <1>1, <1>2, PeriodType
  <2>3. PICK sL \in Nat, eL \in Nat : sL = Reports!Span(L).start /\ eL = Reports!Span(L).end
    BY <1>1, <1>2, PeriodType
  <2>4. eF >= from /\ sL <= to
    BY <1>2, <2>2, <2>3 DEF Reports!Window
  <2>5. eF <= e
    BY <1>1, <1>2, <1>3, <2>1, <2>2, PeriodType
  <2>6. s <= sL
    BY <1>1, <1>2, <1>3, <2>1, <2>3, PeriodType
  <2>7. e >= from /\ s <= to
    BY <2>4, <2>5, <2>6
  <2> QED
    BY <2>1, <2>7 DEF Reports!Window
<1>4. PICK A : A = {p \in Reports!Periods : Reports!Before(p, F)}
  OBVIOUS
<1>5. /\ Reports!UpTo(F) = A \cup {F} /\ F \notin A
      /\ Reports!UpTo(L) = A \cup w /\ A \cap w = {}
  <2>1. Reports!UpTo(F) = A \cup {F} /\ F \notin A
    BY <1>1, <1>2, <1>4, PeriodOrder DEF Reports!UpTo
  <2>2. A \cap w = {}
    BY <1>1, <1>2, <1>4, PeriodOrder
  <2>3. ASSUME NEW p \in Reports!UpTo(L) PROVE p \in A \cup w
    BY <1>1, <1>2, <1>3, <1>4, <2>3, PeriodOrder DEF Reports!UpTo
  <2>4. ASSUME NEW p \in A \cup w PROVE p \in Reports!UpTo(L)
    <3>1. CASE p \in w
      BY <1>1, <1>2, <3>1 DEF Reports!UpTo
    <3>2. CASE p \in A
      BY <1>1, <1>2, <1>4, <3>2, PeriodOrder DEF Reports!UpTo
    <3> QED
      BY <2>4, <3>1, <3>2
  <2> QED
    BY <2>1, <2>2, <2>3, <2>4
<1>6. IsFiniteSet(A) /\ IsFiniteSet(w) /\ Cardinality(A) \in Nat /\ Cardinality(w) \in Nat
  <2>1. A \in SUBSET Reports!Periods
    BY <1>4
  <2>2. IsFiniteSet(A) /\ IsFiniteSet(w)
    BY <1>1, <2>1, PeriodType, FS_Subset
  <2> QED
    BY <2>2, FS_CardinalityType
<1>7. Reports!Ordinal(F) = Cardinality(A) + 1
  <2>1. Cardinality(A \cup {F}) = Cardinality(A) + 1
    BY <1>5, <1>6, FS_AddElement
  <2> QED
    BY <1>1, <1>2, <1>5, <2>1, UpToType
<1>8. Reports!Ordinal(L) = Cardinality(A) + Cardinality(w)
  <2>1. Cardinality(A \cup w) = Cardinality(A) + Cardinality(w) - Cardinality({})
    BY <1>5, <1>6, FS_Union
  <2>2. Cardinality({}) = 0
    BY FS_EmptySet
  <2>3. PICK a \in Nat : a = Cardinality(A)
    BY <1>6
  <2>4. PICK b \in Nat : b = Cardinality(w)
    BY <1>6
  <2>5. Cardinality(A \cup w) = a + b
    BY <2>1, <2>2, <2>3, <2>4
  <2>6. Reports!Ordinal(L) = Cardinality(A \cup w)
    BY <1>1, <1>2, <1>5, UpToType
  <2> QED
    BY <2>3, <2>4, <2>5, <2>6
<1>9. last = Reports!Ordinal(L)
  BY <1>6, <1>7, <1>8
<1>10. F \in Reports!Periods /\ L \in Reports!Periods
  BY <1>1, <1>2
<1>11. {p \in Reports!Periods : Reports!Ordinal(p) < first} = A
  BY <1>4, <1>10, OrdinalOrder
<1>12. {p \in Reports!Periods : Reports!Ordinal(p) <= last} = Reports!UpTo(L)
  <2>1. ASSUME NEW p \in Reports!Periods PROVE Reports!Ordinal(p) <= last <=> p \in Reports!UpTo(L)
    <3>1. Reports!Ordinal(p) <= last <=> ~Reports!Before(L, p)
      BY <1>9, <1>10, OrdinalOrder
    <3> QED
      BY <1>10, <3>1, PeriodOrder DEF Reports!UpTo
  <2>2. Reports!UpTo(L) \subseteq Reports!Periods
    BY DEF Reports!UpTo
  <2> QED
    BY <2>1, <2>2
<1>13. {p \in Reports!Periods : Reports!Ordinal(p) >= first /\ Reports!Ordinal(p) <= last} = w
  <2>1. \A p \in Reports!Periods : Reports!Ordinal(p) \in Nat /\ first \in Nat
    BY <1>10, OrdinalOrder
  <2>2. \A p \in Reports!Periods : Reports!Ordinal(p) >= first <=> p \notin A
    BY <1>11, <2>1
  <2>3. \A p \in Reports!Periods : Reports!Ordinal(p) <= last <=> p \in A \cup w
    BY <1>5, <1>12
  <2> QED
    BY <1>1, <1>5, <2>2, <2>3
<1> QED
  BY <1>4, <1>10, <1>11, <1>12, <1>13

(* Lines of periods there are, and what moved on an account.                *)
AmountsOf(on) == [i \in DOMAIN on |-> on[i].amount]
LinesOf(on, a, ps) == {i \in DOMAIN on : on[i].account = a /\ on[i].period \in ps}
InPeriods(on, ps) == {i \in DOMAIN on : on[i].period \in ps}
ReportLine(l) ==
  /\ l.account \in ReportAccounts /\ l.period \in Reports!Periods /\ l.amount \in Int /\ l.day \in Nat
  /\ Reports!Span(l.period).start <= l.day /\ l.day <= Reports!Span(l.period).end
ReportLines(on) == IsFiniteSet(DOMAIN on) /\ \A i \in DOMAIN on : ReportLine(on[i])
EntriesBalance(on) == \A ps : Sum(AmountsOf(on), InPeriods(on, ps)) = 0

LEMMA Moves ==
  ASSUME NEW on, ReportLines(on), NEW a, NEW ps
  PROVE  /\ Summable(AmountsOf(on), LinesOf(on, a, ps))
         /\ Reports!Movement(on, a, ps) = Sum(AmountsOf(on), LinesOf(on, a, ps))
         /\ Reports!Movement(on, a, ps) \in Int
         /\ LinesOf(on, a, ps) = {} => Reports!Movement(on, a, ps) = 0
<1>1. PICK S, f, g : S = LinesOf(on, a, ps) /\ f = AmountsOf(on) /\ g = [i \in S |-> on[i].amount]
  OBVIOUS
<1>2. S \in SUBSET DOMAIN on /\ IsFiniteSet(S)
  <2>1. S \in SUBSET DOMAIN on
    BY <1>1 DEF LinesOf
  <2> QED
    BY <2>1, FS_Subset DEF ReportLines
<1>3. Summable(f, S) /\ \A i \in S : g[i] = f[i]
  BY <1>1, <1>2 DEF Summable, AmountsOf, ReportLines, ReportLine
<1>4. Sum(g, S) = Sum(f, S)
  BY <1>2, <1>3, SumAgrees
<1>5. Reports!Movement(on, a, ps) = Sum(g, S)
  BY <1>1, ReportsTotal DEF Reports!Movement, LinesOf
<1>6. S = {} => Sum(f, S) = 0
  BY SumOfNone
<1> QED
  BY <1>1, <1>3, <1>4, <1>5, <1>6, SumIsInt

LEMMA MovesUnion ==
  ASSUME NEW on, ReportLines(on), NEW a, NEW ps, NEW qs, ps \cap qs = {}
  PROVE  Reports!Movement(on, a, ps \cup qs) = Reports!Movement(on, a, ps) + Reports!Movement(on, a, qs)
<1>1. PICK f, S, T : f = AmountsOf(on) /\ S = LinesOf(on, a, ps) /\ T = LinesOf(on, a, qs)
  OBVIOUS
<1>2. Summable(f, S) /\ Summable(f, T) /\ S \cap T = {}
  <2>1. S \cap T = {}
    BY <1>1 DEF LinesOf
  <2> QED
    BY <1>1, <2>1, Moves
<1>3. Sum(f, S \cup T) = Sum(f, S) + Sum(f, T)
  BY <1>2, SumUnion
<1>4. LinesOf(on, a, ps \cup qs) = S \cup T
  BY <1>1 DEF LinesOf
<1> QED
  BY <1>1, <1>3, <1>4, Moves

(* What moved on all accounts comes to nothing.                             *)
LEMMA AccountsBalance ==
  ASSUME NEW on, ReportLines(on), EntriesBalance(on), NEW ps,
         NEW f, f = [a \in ReportAccounts |-> Reports!Movement(on, a, ps)]
  PROVE  Summable(f, ReportAccounts) /\ Sum(f, ReportAccounts) = 0
<1>1. IsFiniteSet(ReportAccounts)
  BY FiguresAssumption, Zenon DEF Reports!YearsAssumption, Reports!IsFiniteSet, IsFiniteSet
<1>2. PICK S, amount, key : /\ S = InPeriods(on, ps) /\ amount = AmountsOf(on)
                            /\ key = [i \in DOMAIN on |-> on[i].account]
  OBVIOUS
<1>3. IsFiniteSet(S) /\ S \in SUBSET DOMAIN on
  <2>1. S \in SUBSET DOMAIN on
    BY <1>2 DEF InPeriods
  <2> QED
    BY <2>1, FS_Subset DEF ReportLines
<1>4. \A i \in S : key[i] \in ReportAccounts /\ amount[i] \in Int
  BY <1>2, <1>3 DEF ReportLines, ReportLine, AmountsOf
<1>5. ASSUME NEW a \in ReportAccounts PROVE f[a] = Sum(amount, {i \in S : key[i] = a})
  <2>1. {i \in S : key[i] = a} = LinesOf(on, a, ps)
    BY <1>2, <1>3 DEF LinesOf, InPeriods
  <2> QED
    BY <1>2, <2>1, Moves
<1>6. Grouped(f, ReportAccounts, key, amount, S)
  BY <1>1, <1>3, <1>4, <1>5 DEF Grouped
<1>7. Sum(f, ReportAccounts) = Sum(amount, S)
  BY <1>6, SumGrouped
<1> QED
  BY <1>1, <1>2, <1>7, Moves DEF Summable, EntriesBalance

(* The types: each in its natural direction, they come to the assets.       *)
OfType(type) == {a \in ReportAccounts : TypeOf[a] = type}
NaturalSum(t, type) ==
  Reports!Total([a \in OfType(type) |->
                   (IF type \in {"ASSET", "EXPENSE"} THEN 1 ELSE -1) * t[a].closing])

LEMMA NaturalSums ==
  ASSUME NEW t, NEW c, c = [a \in ReportAccounts |-> t[a].closing], Summable(c, ReportAccounts), NEW type
  PROVE  /\ Summable(c, OfType(type))
         /\ NaturalSum(t, type) = IF type \in {"ASSET", "EXPENSE"} THEN Sum(c, OfType(type)) ELSE -Sum(c, OfType(type))
<1>0. PICK sign \in Int : sign = IF type \in {"ASSET", "EXPENSE"} THEN 1 ELSE -1
  OBVIOUS
<1>1. PICK S, g : S = OfType(type) /\ g = [a \in S |-> sign * t[a].closing]
  OBVIOUS
<1>2. Summable(c, S)
  <2>1. S \in SUBSET ReportAccounts
    BY <1>1 DEF OfType
  <2> QED
    BY <2>1, FS_Subset DEF Summable
<1>3. \A a \in S : g[a] = c[a] * sign
  BY <1>1, <1>2 DEF Summable, OfType
<1>4. Sum(g, S) = Sum(c, S) * sign
  BY <1>2, <1>3, SumScaled
<1>5. NaturalSum(t, type) = Sum(g, S)
  BY <1>0, <1>1, ReportsTotal DEF NaturalSum
<1>6. PICK s \in Int : s = Sum(c, S)
  BY <1>2, SumIsInt
<1> QED
  BY <1>0, <1>1, <1>2, <1>4, <1>5, <1>6

LEMMA EquationHolds ==
  ASSUME NEW t, NEW c, c = [a \in ReportAccounts |-> t[a].closing], Summable(c, ReportAccounts),
         Sum(c, ReportAccounts) = 0
  PROVE  Reports!AccountingEquation(t) = 0
<1>1. Reports!AccountingEquation(t) =
        NaturalSum(t, "ASSET") - (NaturalSum(t, "LIABILITY") + NaturalSum(t, "EQUITY")
                                    + (NaturalSum(t, "REVENUE") - NaturalSum(t, "EXPENSE")))
  BY Zenon DEF Reports!AccountingEquation, NaturalSum, OfType
<1>2. PICK A, L, E, W, X : /\ A = OfType("ASSET") /\ L = OfType("LIABILITY") /\ E = OfType("EQUITY")
                           /\ W = OfType("REVENUE") /\ X = OfType("EXPENSE")
  OBVIOUS
<1>3. /\ Summable(c, A) /\ Summable(c, L) /\ Summable(c, E) /\ Summable(c, W) /\ Summable(c, X)
      /\ NaturalSum(t, "ASSET") = Sum(c, A) /\ NaturalSum(t, "LIABILITY") = -Sum(c, L)
      /\ NaturalSum(t, "EQUITY") = -Sum(c, E) /\ NaturalSum(t, "REVENUE") = -Sum(c, W)
      /\ NaturalSum(t, "EXPENSE") = Sum(c, X)
  BY <1>2, NaturalSums
<1>4. ReportAccounts = (((A \cup L) \cup E) \cup W) \cup X
  <2>1. \A a \in ReportAccounts : TypeOf[a] \in {"ASSET", "LIABILITY", "EQUITY", "REVENUE", "EXPENSE"}
    BY FiguresAssumption, Zenon DEF Reports!YearsAssumption
  <2> QED
    BY <1>2, <2>1 DEF OfType
<1>5. /\ A \cap L = {} /\ (A \cup L) \cap E = {} /\ ((A \cup L) \cup E) \cap W = {}
      /\ (((A \cup L) \cup E) \cup W) \cap X = {}
  BY <1>2 DEF OfType
<1>6. Summable(c, A \cup L) /\ Sum(c, A \cup L) = Sum(c, A) + Sum(c, L)
  <2>1. Summable(c, A) /\ Summable(c, L) /\ A \cap L = {}
    BY <1>3, <1>5
  <2> QED
    BY ONLY <2>1, SumUnion
<1>7. PICK B : B = A \cup L
  OBVIOUS
<1>8. Summable(c, B \cup E) /\ Sum(c, B \cup E) = Sum(c, B) + Sum(c, E)
  BY <1>3, <1>5, <1>6, <1>7, SumUnion
<1>9. PICK C : C = B \cup E
  OBVIOUS
<1>10. Summable(c, C \cup W) /\ Sum(c, C \cup W) = Sum(c, C) + Sum(c, W)
  BY <1>3, <1>5, <1>7, <1>8, <1>9, SumUnion
<1>11. PICK D : D = C \cup W
  OBVIOUS
<1>12. Sum(c, D \cup X) = Sum(c, D) + Sum(c, X)
  BY <1>3, <1>5, <1>7, <1>9, <1>10, <1>11, SumUnion
<1>13. ReportAccounts = D \cup X
  BY <1>4, <1>7, <1>9, <1>11
<1>14. PICK a \in Int, l \in Int, e \in Int, r \in Int, x \in Int :
         a = Sum(c, A) /\ l = Sum(c, L) /\ e = Sum(c, E) /\ r = Sum(c, W) /\ x = Sum(c, X)
  BY <1>3, SumIsInt
<1>15. a + l + e + r + x = 0
  BY <1>6, <1>7, <1>8, <1>9, <1>10, <1>11, <1>12, <1>13, <1>14
<1>16. Reports!AccountingEquation(t) = a - (-l + -e + (-r - x))
  BY <1>1, <1>3, <1>14
<1> QED
  BY <1>14, <1>15, <1>16
(* A trial balance of periods of a window.                                  *)
Openers(w) == {p \in Reports!Periods : Reports!Ordinal(p) < Reports!Ordinal(Reports!First(w))}
Lasting(w) == Reports!Ordinal(Reports!First(w)) + Cardinality(w) - 1
Movers(w) == {p \in Reports!Periods : /\ Reports!Ordinal(p) >= Reports!Ordinal(Reports!First(w))
                                      /\ Reports!Ordinal(p) <= Lasting(w)}
Closers(w) == {p \in Reports!Periods : Reports!Ordinal(p) <= Lasting(w)}

LEMMA TrialBalance ==
  ASSUME NEW w
  PROVE  Reports!TrialBalanceFromLines(w) =
           [a \in ReportAccounts |-> [opening |-> Reports!Movement(lines, a, Openers(w)),
                                      movement |-> Reports!Movement(lines, a, Movers(w)),
                                      closing |-> Reports!Movement(lines, a, Closers(w))]]
<1>1. Reports!Ordinal(Reports!First(w)) + Reports!Cardinality(w) - 1 = Lasting(w)
  BY ReportsCardinality DEF Lasting
<1> QED
  BY <1>1, Zenon DEF Reports!TrialBalanceFromLines, Openers, Movers, Closers

(* A row that is stored anew is what the lines say.                         *)
PeriodsBefore(p) == {q \in Reports!Periods : Reports!Before(q, p)}

LEMMA UpToParts ==
  ASSUME YearsExist, NEW p \in Reports!Periods
  PROVE  Reports!UpTo(p) = PeriodsBefore(p) \cup {p} /\ PeriodsBefore(p) \cap {p} = {}
  BY PeriodOrder DEF Reports!UpTo, PeriodsBefore

LEMMA RecomputedRow ==
  ASSUME YearsExist, NEW on, ReportLines(on), NEW accounts,
         NEW new, new = Reports!Recompute(on, accounts), NEW a, NEW p, <<a, p>> \in DOMAIN new
  PROVE  /\ a \in accounts /\ p \in Reports!Periods /\ Reports!Moved(on, a, p)
         /\ new[<<a, p>>].opening = Reports!Movement(on, a, PeriodsBefore(p))
         /\ new[<<a, p>>].movement = Reports!Movement(on, a, {p})
         /\ new[<<a, p>>].closing = Reports!Movement(on, a, Reports!UpTo(p))
<1>1. /\ a \in accounts /\ p \in Reports!Periods /\ Reports!Moved(on, a, p)
  BY DEF Reports!Recompute
<1>2. PICK k : k = <<a, p>> /\ k[1] = a /\ k[2] = p /\ k \in DOMAIN new
  OBVIOUS
<1>3. new[k] = [opening |-> Reports!Movement(on, a, Reports!UpTo(p)) - Reports!Movement(on, a, {p}),
                movement |-> Reports!Movement(on, a, {p}),
                closing |-> Reports!Movement(on, a, Reports!UpTo(p))]
  BY <1>2 DEF Reports!Recompute
<1>4. /\ Reports!Movement(on, a, Reports!UpTo(p)) =
           Reports!Movement(on, a, PeriodsBefore(p)) + Reports!Movement(on, a, {p})
      /\ Reports!Movement(on, a, PeriodsBefore(p)) \in Int /\ Reports!Movement(on, a, {p}) \in Int
  BY <1>1, UpToParts, MovesUnion, Moves
<1> QED
  BY <1>1, <1>2, <1>3, <1>4

LEMMA RecomputedDomain ==
  ASSUME NEW on, NEW accounts, NEW a \in accounts, NEW p \in Reports!Periods, Reports!Moved(on, a, p)
  PROVE  <<a, p>> \in DOMAIN Reports!Recompute(on, accounts)
<1>1. PICK k : k = <<a, p>>
  OBVIOUS
<1>2. k[1] = a /\ k[2] = p /\ k \in accounts \X Reports!Periods
  BY <1>1
<1>3. k \in DOMAIN Reports!Recompute(on, accounts)
  BY <1>2 DEF Reports!Recompute
<1> QED
  BY <1>1, <1>3

(* Nothing moved where there is no row.                                     *)
LEMMA StoredRow ==
  ASSUME YearsExist, ReportLines(lines), balance = Reports!Recompute(lines, Reports!Touched(lines)),
         NEW a, NEW p \in Reports!Periods
  PROVE  /\ Reports!Stored(a, p).opening = Reports!Movement(lines, a, PeriodsBefore(p))
         /\ Reports!Stored(a, p).movement = Reports!Movement(lines, a, {p})
         /\ Reports!Stored(a, p).closing = Reports!Movement(lines, a, Reports!UpTo(p))
<1>1. CASE <<a, p>> \in DOMAIN balance
  BY <1>1, RecomputedRow DEF Reports!Stored
<1>2. CASE <<a, p>> \notin DOMAIN balance
  <2>1. ASSUME NEW i \in DOMAIN lines, lines[i].account = a, lines[i].period \in Reports!UpTo(p)
        PROVE  FALSE
    <3>1. a \in Reports!Touched(lines) /\ Reports!Moved(lines, a, p)
      BY <2>1 DEF Reports!Touched, Reports!Moved
    <3> QED
      BY <1>2, <3>1, RecomputedDomain
  <2>2. LinesOf(lines, a, Reports!UpTo(p)) = {}
    BY <2>1 DEF LinesOf
  <2>3. LinesOf(lines, a, PeriodsBefore(p)) = {} /\ LinesOf(lines, a, {p}) = {}
    BY <2>2, UpToParts DEF LinesOf
  <2>4. /\ Reports!Movement(lines, a, PeriodsBefore(p)) = 0 /\ Reports!Movement(lines, a, {p}) = 0
        /\ Reports!Movement(lines, a, Reports!UpTo(p)) = 0
    BY <2>2, <2>3, Moves
  <2> QED
    BY <1>2, <2>4 DEF Reports!Stored
<1> QED
  BY <1>1, <1>2

(* Period by period or at once.                                             *)
LEMMA MovesByPeriod ==
  ASSUME NEW on, ReportLines(on), NEW a, NEW w, IsFiniteSet(w),
         NEW f, \A p \in w : f[p] = Reports!Movement(on, a, {p})
  PROVE  Sum(f, w) = Reports!Movement(on, a, w)
<1>1. PICK S, amount, key : /\ S = LinesOf(on, a, w) /\ amount = AmountsOf(on)
                            /\ key = [i \in DOMAIN on |-> on[i].period]
  OBVIOUS
<1>2. /\ Summable(amount, S) /\ Reports!Movement(on, a, w) = Sum(amount, S)
  BY <1>1, Moves
<1>3. S \subseteq DOMAIN on /\ \A i \in S : key[i] \in w
  BY <1>1 DEF LinesOf
<1>4. ASSUME NEW p \in w PROVE f[p] = Sum(amount, {i \in S : key[i] = p})
  <2>1. {i \in S : key[i] = p} = LinesOf(on, a, {p})
    BY <1>1, <1>3 DEF LinesOf
  <2>2. Reports!Movement(on, a, {p}) = Sum(amount, LinesOf(on, a, {p}))
    BY <1>1, Moves
  <2> QED
    BY <2>1, <2>2
<1>5. Grouped(f, w, key, amount, S)
  BY <1>2, <1>3, <1>4 DEF Grouped, Summable
<1> QED
  BY <1>2, <1>5, SumGrouped
(* A trial balance over any window.                                         *)
WindowAdds(w) ==
  LET t == Reports!TrialBalanceFromLines(w) IN
  /\ Reports!Total([a \in ReportAccounts |-> t[a].opening]) = 0
  /\ Reports!Total([a \in ReportAccounts |-> t[a].closing]) = 0
  /\ \A a \in ReportAccounts : t[a].opening + t[a].movement = t[a].closing
  /\ Reports!AccountingEquation(t) = 0
  /\ balance = Reports!Recompute(lines, Reports!Touched(lines)) => t = Reports!TrialBalanceFromProjection(w)

LEMMA TrialBalanceAdds ==
  ASSUME YearsExist, ReportLines(lines), EntriesBalance(lines), NEW from \in Nat, NEW to \in Nat,
         NEW w, w = Reports!Window(from, to), w # {}
  PROVE  WindowAdds(w)
<1>1. PICK t : t = Reports!TrialBalanceFromLines(w)
  OBVIOUS
<1>2. t = [a \in ReportAccounts |-> [opening |-> Reports!Movement(lines, a, Openers(w)),
                                     movement |-> Reports!Movement(lines, a, Movers(w)),
                                     closing |-> Reports!Movement(lines, a, Closers(w))]]
  BY <1>1, TrialBalance
<1>3. PICK F, L, A, B : /\ F = Reports!First(w) /\ L = Reports!Last(w)
                        /\ A = PeriodsBefore(F) /\ B = Reports!UpTo(L)
  OBVIOUS
<1>4. F \in Reports!Periods /\ L \in Reports!Periods /\ Openers(w) = A /\ Movers(w) = w /\ Closers(w) = B
  <2>1. PICK first, last : first = Reports!Ordinal(F) /\ last = first + Cardinality(w) - 1
    OBVIOUS
  <2>2. /\ F \in Reports!Periods /\ L \in Reports!Periods
        /\ {p \in Reports!Periods : Reports!Ordinal(p) < first} = {p \in Reports!Periods : Reports!Before(p, F)}
        /\ {p \in Reports!Periods : Reports!Ordinal(p) >= first /\ Reports!Ordinal(p) <= last} = w
        /\ {p \in Reports!Periods : Reports!Ordinal(p) <= last} = Reports!UpTo(L)
    BY <1>3, <2>1, WindowOrdinals
  <2> QED
    BY <1>3, <2>1, <2>2 DEF Openers, Movers, Closers, Lasting, PeriodsBefore
<1>5. B = A \cup w /\ A \cap w = {}
  <2>1. w \in SUBSET Reports!Periods
    BY DEF Reports!Window
  <2>2. /\ F \in w /\ \A q \in w : F = q \/ Reports!Before(F, q)
        /\ L \in w /\ \A q \in w : L = q \/ Reports!Before(q, L)
    BY <1>3, <2>1, FirstIs, LastIs
  <2>3. A \cap w = {}
    BY <1>3, <2>1, <2>2, PeriodOrder DEF PeriodsBefore
  <2>4. \A p \in Reports!Periods : p \in Movers(w) <=> p \in Closers(w) /\ p \notin Openers(w)
    <3>1. Reports!Ordinal(F) \in Nat /\ F = Reports!First(w)
      BY <1>3, <1>4, OrdinalOrder
    <3>2. \A p \in Reports!Periods : Reports!Ordinal(p) \in Nat
      BY OrdinalOrder
    <3> QED
      BY <3>1, <3>2 DEF Openers, Movers, Closers
  <2>5. A \subseteq Reports!Periods /\ B \subseteq Reports!Periods
    BY <1>3 DEF PeriodsBefore, Reports!UpTo
  <2>6. A \subseteq B
    BY <1>3, <1>4, <2>1, <2>2, PeriodOrder DEF PeriodsBefore, Reports!UpTo
  <2> QED
    BY <1>4, <2>1, <2>3, <2>4, <2>5, <2>6
<1>6. ASSUME NEW a \in ReportAccounts
      PROVE  /\ t[a].opening = Reports!Movement(lines, a, A)
             /\ t[a].movement = Reports!Movement(lines, a, w)
             /\ t[a].closing = Reports!Movement(lines, a, B)
  BY <1>2, <1>4
<1>7. PICK o, c : o = [a \in ReportAccounts |-> t[a].opening] /\ c = [a \in ReportAccounts |-> t[a].closing]
  OBVIOUS
<1>8. Sum(o, ReportAccounts) = 0
  <2>1. o = [a \in ReportAccounts |-> Reports!Movement(lines, a, A)]
    BY <1>6, <1>7
  <2> QED
    BY <2>1, AccountsBalance
<1>9. Summable(c, ReportAccounts) /\ Sum(c, ReportAccounts) = 0
  <2>1. c = [a \in ReportAccounts |-> Reports!Movement(lines, a, B)]
    BY <1>6, <1>7
  <2> QED
    BY <2>1, AccountsBalance
<1>10. Reports!Total(o) = 0 /\ Reports!Total(c) = 0
  BY <1>7, <1>8, <1>9, ReportsTotal
<1>11. Reports!AccountingEquation(t) = 0
  BY <1>7, <1>9, EquationHolds
<1>12. \A a \in ReportAccounts : t[a].opening + t[a].movement = t[a].closing
  BY <1>5, <1>6, MovesUnion
<1>13. ASSUME balance = Reports!Recompute(lines, Reports!Touched(lines))
       PROVE  t = Reports!TrialBalanceFromProjection(w)
  <2>1. ASSUME NEW a \in ReportAccounts
        PROVE  /\ Reports!Stored(a, F).opening = t[a].opening
               /\ Reports!Total([p \in w |-> Reports!Stored(a, p).movement]) = t[a].movement
               /\ Reports!Stored(a, L).closing = t[a].closing
    <3>1. Reports!Stored(a, F).opening = t[a].opening /\ Reports!Stored(a, L).closing = t[a].closing
      <4>1. Reports!Stored(a, F).opening = Reports!Movement(lines, a, PeriodsBefore(F))
        BY <1>4, <1>13, StoredRow
      <4>2. Reports!Stored(a, L).closing = Reports!Movement(lines, a, Reports!UpTo(L))
        BY <1>4, <1>13, StoredRow
      <4> QED
        BY <1>3, <1>6, <4>1, <4>2
    <3>2. PICK f : f = [p \in w |-> Reports!Stored(a, p).movement]
      OBVIOUS
    <3>3. w \in SUBSET Reports!Periods /\ IsFiniteSet(w)
      <4>1. w \in SUBSET Reports!Periods
        BY DEF Reports!Window
      <4> QED
        BY <4>1, PeriodType, FS_Subset
    <3>4. \A p \in w : f[p] = Reports!Movement(lines, a, {p})
      BY <1>13, <3>2, <3>3, StoredRow
    <3>5. Sum(f, w) = Reports!Movement(lines, a, w)
      BY <3>3, <3>4, MovesByPeriod, ZenonT(60)
    <3>6. Reports!Total(f) = Sum(f, w)
      BY <3>2, ReportsTotal
    <3> QED
      BY <1>6, <3>1, <3>2, <3>5, <3>6
  <2>2. \A a \in ReportAccounts : t[a] = [opening |-> t[a].opening, movement |-> t[a].movement, closing |-> t[a].closing]
    BY <1>2
  <2>3. t = [a \in ReportAccounts |-> [opening |-> t[a].opening, movement |-> t[a].movement, closing |-> t[a].closing]]
    BY <1>2, <2>2
  <2> QED
    BY <1>3, <2>1, <2>3 DEF Reports!TrialBalanceFromProjection
<1> QED
  BY <1>1, <1>7, <1>10, <1>11, <1>12, <1>13 DEF WindowAdds

(* Stored rows say what the lines of their account say, whatever years were *)
(* added since, and every line is in one.                                   *)
StoredRows(stored, on) ==
  /\ \A k \in DOMAIN stored :
       /\ k = <<k[1], k[2]>> /\ k[2] \in Reports!Periods
       /\ stored[k].opening = Reports!Movement(on, k[1], PeriodsBefore(k[2]))
       /\ stored[k].closing = Reports!Movement(on, k[1], Reports!UpTo(k[2]))
  /\ \A i \in DOMAIN on : <<on[i].account, on[i].period>> \in DOMAIN stored
ReportsInv ==
  /\ YearsExist /\ Len(lines) \in Nat /\ DOMAIN lines = 1..Len(lines)
  /\ lines = [i \in 1..Len(lines) |-> lines[i]]
  /\ ReportLines(lines) /\ EntriesBalance(lines) /\ StoredRows(balance, lines)

LEMMA LatestDay ==
  ASSUME YearsExist, NEW p0 \in Reports!Periods
  PROVE  /\ Reports!Max(Reports!Days) \in Nat
         /\ \A p \in Reports!Periods : Reports!Span(p).end <= Reports!Max(Reports!Days)
<1>1. PICK f, D : f = [p \in Reports!Periods |-> Reports!Span(p).start..Reports!Span(p).end] /\ D = Reports!Days
  OBVIOUS
<1>2. D = UNION {f[p] : p \in Reports!Periods}
  BY <1>1 DEF Reports!Days
<1>3. \A p \in Reports!Periods : Reports!Span(p).start \in Nat /\ Reports!Span(p).end \in Nat
                                 /\ Reports!Span(p).start <= Reports!Span(p).end
  BY PeriodType
<1>4. ASSUME NEW p \in Reports!Periods PROVE IsFiniteSet(f[p])
  <2>1. PICK s \in Int, e \in Int : s = Reports!Span(p).start /\ e = Reports!Span(p).end
    BY <1>3
  <2>2. IsFiniteSet(s..e)
    BY ONLY s \in Int, e \in Int, FS_Interval
  <2> QED
    BY <1>1, <2>1, <2>2
<1>5. IsFiniteSet({f[p] : p \in Reports!Periods})
  BY <1>1, PeriodType, ImageFinite
<1>6. IsFiniteSet(D)
  BY <1>2, <1>4, <1>5, FS_UNION
<1>7. D \in SUBSET Nat
  BY <1>1, <1>2, <1>3
<1>8. \A p \in Reports!Periods : Reports!Span(p).end \in D
  BY <1>1, <1>2, <1>3
<1>9. PICK x \in D : \A y \in D : y <= x
  BY <1>6, <1>7, <1>8, GreatestExists
<1>10. \E m \in D : \A y \in D : m >= y
  BY <1>7, <1>9
<1>11. Reports!Max(D) \in D /\ \A y \in D : Reports!Max(D) >= y
  BY <1>10, Zenon DEF Reports!Max
<1> QED
  BY <1>1, <1>3, <1>7, <1>8, <1>11

(* The last line of an account, and the balance that runs up to it.         *)
LEMMA LastLine ==
  ASSUME NEW S, IsFiniteSet(S), S # {}, S \subseteq Nat, NEW day, \A i \in S : day[i] \in Nat
  PROVE  \E i \in S : \A j \in S : day[j] < day[i] \/ (day[j] = day[i] /\ j <= i)
<1>1. PICK x \in S : \A y \in S : day[y] <= day[x]
  BY GreatestBy
<1>2. PICK T : T = {i \in S : day[i] = day[x]}
  OBVIOUS
<1>3. T \in SUBSET Nat /\ T \in SUBSET S /\ T # {}
  BY <1>1, <1>2
<1>4. IsFiniteSet(T)
  BY <1>3, FS_Subset
<1>5. PICK i \in T : \A j \in T : j <= i
  BY <1>3, <1>4, GreatestExists
<1>6. ASSUME NEW j \in S PROVE day[j] < day[i] \/ (day[j] = day[i] /\ j <= i)
  BY <1>1, <1>2, <1>5
<1> QED
  BY <1>2, <1>5, <1>6

LEMMA RunningBalanceCloses ==
  ASSUME ReportsInv, NEW a \in Reports!Touched(lines)
  PROVE  Reports!RunningBalance(Reports!Final(a), 1, Reports!Max(Reports!Days)) =
           Reports!TrialBalanceFromLines(Reports!Periods)[a].closing
<1>1. YearsExist /\ ReportLines(lines) /\ Len(lines) \in Nat /\ DOMAIN lines = 1..Len(lines)
  BY DEF ReportsInv
<1>2. PICK i0 \in DOMAIN lines : lines[i0].account = a
  BY DEF Reports!Touched
<1>3. a \in ReportAccounts /\ lines[i0].period \in Reports!Periods
  BY <1>1, <1>2 DEF ReportLines, ReportLine
<1>4. PICK m, S : m = Reports!Max(Reports!Days) /\ S = {i \in DOMAIN lines : lines[i].account = a}
  OBVIOUS
<1>5. m \in Nat /\ \A p \in Reports!Periods : Reports!Span(p).end <= m
  BY <1>1, <1>3, <1>4, LatestDay
<1>6. ASSUME NEW i \in DOMAIN lines PROVE lines[i].day \in Nat /\ lines[i].day >= 1 /\ lines[i].day <= m
  <2>1. ReportLine(lines[i])
    BY <1>1 DEF ReportLines
  <2>2. PICK d \in Nat, p \in Reports!Periods : d = lines[i].day /\ p = lines[i].period
    BY <2>1 DEF ReportLine
  <2>3. PICK s \in Nat \ {0}, e \in Nat : s = Reports!Span(p).start /\ e = Reports!Span(p).end /\ e <= m
    BY <1>1, <1>5, PeriodType
  <2>4. s <= d /\ d <= e
    BY <2>1, <2>2, <2>3 DEF ReportLine
  <2> QED
    BY <1>5, <2>2, <2>3, <2>4
<1>7. Reports!Listed(a, 1, m) = S
  BY <1>4, <1>6 DEF Reports!Listed
<1>8. IsFiniteSet(S) /\ S # {} /\ S \subseteq Nat /\ S \in SUBSET DOMAIN lines
  <2>1. S \in SUBSET DOMAIN lines /\ S # {}
    BY <1>2, <1>4
  <2> QED
    BY <1>1, <2>1, FS_Subset DEF ReportLines
<1>9. PICK day : day = [i \in DOMAIN lines |-> lines[i].day]
  OBVIOUS
<1>10. \E i \in S : \A j \in S : day[j] < day[i] \/ (day[j] = day[i] /\ j <= i)
  <2>1. \A i \in S : day[i] \in Nat
    BY <1>6, <1>8, <1>9
  <2> QED
    BY <1>8, <2>1, LastLine
<1>11. \E i \in S : \A j \in S : lines[j].day < lines[i].day \/ (lines[j].day = lines[i].day /\ j <= i)
  BY <1>8, <1>9, <1>10
<1>12. PICK f : f = Reports!Final(a)
  OBVIOUS
<1>13. f \in S /\ \A j \in S : lines[j].day < lines[f].day \/ (lines[j].day = lines[f].day /\ j <= f)
  <2>1. f = CHOOSE i \in S : \A j \in S : lines[j].day < lines[i].day \/ (lines[j].day = lines[i].day /\ j <= i)
    BY <1>4, <1>7, <1>12 DEF Reports!Final
  <2> QED
    BY <1>11, <2>1
<1>14. PICK g : g = [j \in S |-> lines[j].amount]
  OBVIOUS
<1>15. Reports!RunningBalance(f, 1, m) = Reports!Total(g)
  <2>1. lines[f].account = a
    BY <1>4, <1>13
  <2>2. {j \in Reports!Listed(lines[f].account, 1, m) :
           lines[j].day < lines[f].day \/ (lines[j].day = lines[f].day /\ j <= f)} = S
    BY <1>7, <1>13, <2>1
  <2> QED
    BY <1>14, <2>2 DEF Reports!RunningBalance
<1>16. Closers(Reports!Periods) = Reports!Periods
  <2>1. PICK P, F : P = Reports!Periods /\ F = Reports!First(P)
    OBVIOUS
  <2>2. F \in P
    BY <1>1, <1>3, <2>1, FirstIs
  <2>3. PICK o \in Nat \ {0} : o = Reports!Ordinal(F)
    BY <1>1, <2>1, <2>2, UpToType
  <2>4. PICK n \in Nat : n = Cardinality(P)
    BY <1>1, <2>1, PeriodType, FS_CardinalityType
  <2>5. Lasting(P) = o + n - 1
    BY <2>1, <2>3, <2>4 DEF Lasting
  <2>6. ASSUME NEW p \in P PROVE Reports!Ordinal(p) <= Lasting(P)
    <3>1. PICK r \in Nat : r = Reports!Ordinal(p) /\ r <= n
      BY <1>1, <2>1, <2>4, UpToType
    <3> QED
      BY <2>3, <2>4, <2>5, <3>1
  <2> QED
    BY <2>1, <2>6 DEF Closers
<1>17. Reports!TrialBalanceFromLines(Reports!Periods)[a].closing = Reports!Movement(lines, a, Reports!Periods)
  BY <1>3, <1>16, TrialBalance
<1>18. LinesOf(lines, a, Reports!Periods) = S
  BY <1>1, <1>4 DEF LinesOf, ReportLines, ReportLine
<1>19. Reports!Movement(lines, a, Reports!Periods) = Sum(g, S)
  <2>1. Reports!Movement(lines, a, Reports!Periods) = Sum(AmountsOf(lines), S)
    BY <1>1, <1>18, Moves
  <2>2. \A j \in S : AmountsOf(lines)[j] = g[j]
    BY <1>8, <1>14 DEF AmountsOf
  <2>3. Sum(AmountsOf(lines), S) = Sum(g, S)
    BY <1>8, <2>2, SumAgrees
  <2> QED
    BY <2>1, <2>3
<1> QED
  BY <1>4, <1>12, <1>14, <1>15, <1>17, <1>19, ReportsTotal

(* No line of the account lies between two rows that follow each other.     *)
LEMMA RowsFollow ==
  ASSUME ReportsInv, NEW a \in Reports!Touched(lines),
         NEW rows2, rows2 = Reports!AccountActivity(a, 1, Reports!Max(Reports!Days)),
         NEW p \in rows2, NEW q \in rows2, Reports!Before(p, q),
         \A r \in rows2 : ~Reports!Before(p, r) \/ ~Reports!Before(r, q)
  PROVE  balance[<<a, q>>].opening = balance[<<a, p>>].closing
<1>1. YearsExist /\ ReportLines(lines) /\ StoredRows(balance, lines)
  BY DEF ReportsInv
<1>2. p \in Reports!Periods /\ q \in Reports!Periods /\ <<a, p>> \in DOMAIN balance /\ <<a, q>> \in DOMAIN balance
  BY DEF Reports!AccountActivity
<1>3. \A r \in Reports!Periods : <<a, r>> \in DOMAIN balance => r \in rows2
  <2>1. \A r \in Reports!Periods : Reports!Span(r).start >= 1 /\ Reports!Span(r).end <= Reports!Max(Reports!Days)
    BY <1>1, <1>2, PeriodType, LatestDay
  <2> QED
    BY <2>1 DEF Reports!AccountActivity
<1>4. /\ balance[<<a, q>>].opening = Reports!Movement(lines, a, PeriodsBefore(q))
      /\ balance[<<a, p>>].closing = Reports!Movement(lines, a, Reports!UpTo(p))
  BY <1>1, <1>2 DEF StoredRows
<1>5. ASSUME NEW i \in DOMAIN lines, lines[i].account = a, Reports!Before(lines[i].period, q)
      PROVE  lines[i].period \in Reports!UpTo(p)
  <2>1. PICK r \in Reports!Periods : r = lines[i].period
    BY <1>1 DEF ReportLines, ReportLine
  <2>2. r \in rows2
    BY <1>1, <1>3, <1>5, <2>1 DEF StoredRows
  <2>3. ~Reports!Before(p, r)
    BY <1>5, <2>1, <2>2
  <2> QED
    BY <1>1, <1>2, <2>1, <2>3, PeriodOrder DEF Reports!UpTo
<1>6. Reports!UpTo(p) \subseteq PeriodsBefore(q)
  BY <1>1, <1>2, PeriodOrder DEF Reports!UpTo, PeriodsBefore
<1>7. LinesOf(lines, a, PeriodsBefore(q)) = LinesOf(lines, a, Reports!UpTo(p))
  BY <1>5, <1>6 DEF LinesOf, PeriodsBefore
<1> QED
  BY <1>1, <1>4, <1>7, Moves

LEMMA ReportsImply == ReportsInv => Reports!ReportsAddUp
<1> SUFFICES ASSUME ReportsInv PROVE Reports!ReportsAddUp
  OBVIOUS
<1>1. YearsExist /\ ReportLines(lines) /\ EntriesBalance(lines)
  BY DEF ReportsInv
<1>2. \A w \in Reports!Windows : WindowAdds(w)
  <2>1. ASSUME NEW w \in Reports!Windows PROVE WindowAdds(w)
    <3>1. PICK from \in Reports!Days, to \in Reports!Days : w = Reports!Window(from, to)
      BY DEF Reports!Windows
    <3>2. Reports!Days \subseteq Nat
      <4>1. \A p \in Reports!Periods : Reports!Span(p).start \in Nat /\ Reports!Span(p).end \in Nat
        BY <1>1, PeriodType
      <4> QED
        BY <4>1 DEF Reports!Days
    <3>3. from \in Nat /\ to \in Nat /\ w # {}
      BY <3>2 DEF Reports!Windows
    <3> QED
      BY <1>1, <3>1, <3>3, TrialBalanceAdds
  <2> QED
    BY <2>1
<1>3. ASSUME NEW a \in Reports!Touched(lines)
      PROVE  LET rows2 == Reports!AccountActivity(a, 1, Reports!Max(Reports!Days)) IN
               \A p, q \in rows2 : Reports!Before(p, q) /\ (\A r \in rows2 : ~Reports!Before(p, r) \/ ~Reports!Before(r, q))
                 => balance[<<a, q>>].opening = balance[<<a, p>>].closing
  <2>1. PICK rows2 : rows2 = Reports!AccountActivity(a, 1, Reports!Max(Reports!Days))
    OBVIOUS
  <2>2. ASSUME NEW p \in rows2, NEW q \in rows2, Reports!Before(p, q),
               \A r \in rows2 : ~Reports!Before(p, r) \/ ~Reports!Before(r, q)
        PROVE  balance[<<a, q>>].opening = balance[<<a, p>>].closing
    BY <2>1, <2>2, RowsFollow
  <2> QED
    BY ONLY <2>1, <2>2
<1>4. \A a \in Reports!Touched(lines) :
        Reports!RunningBalance(Reports!Final(a), 1, Reports!Max(Reports!Days)) =
          Reports!TrialBalanceFromLines(Reports!Periods)[a].closing
  BY RunningBalanceCloses
<1> QED
  BY <1>2, <1>3, <1>4, Zenon DEF Reports!ReportsAddUp, WindowAdds

LEMMA ReportsInit == Reports!Init => ReportsInv
<1> SUFFICES ASSUME Reports!Init PROVE ReportsInv
  OBVIOUS
<1>1. reportYears = {} /\ lines = <<>> /\ balance = <<>>
  BY DEF Reports!Init
<1>2. YearsExist
  BY <1>1, FS_EmptySet DEF YearsExist
<1>3. Len(lines) = 0 /\ DOMAIN lines = {} /\ 1..0 = {} /\ DOMAIN balance = {}
  BY <1>1
<1>4. Len(lines) \in Nat /\ DOMAIN lines = 1..Len(lines) /\ lines = [i \in 1..Len(lines) |-> lines[i]]
  BY <1>1, <1>3
<1>5. ReportLines(lines)
  BY <1>3, FS_EmptySet DEF ReportLines
<1>6. EntriesBalance(lines)
  <2>1. \A ps : InPeriods(lines, ps) = {}
    BY <1>3 DEF InPeriods
  <2> QED
    BY <2>1, SumOfNone DEF EntriesBalance
<1>7. StoredRows(balance, lines)
  BY <1>3 DEF StoredRows
<1> QED
  BY <1>2, <1>4, <1>5, <1>6, <1>7 DEF ReportsInv

(* A step that keeps the years leaves the invariant what it is of the lines *)
(* and the rows it writes.                                                  *)
LEMMA SameYears ==
  ASSUME YearsExist, reportYears' = reportYears, NEW on, NEW stored, lines' = on, balance' = stored,
         ReportLines(on), EntriesBalance(on), StoredRows(stored, on),
         Len(on) \in Nat, DOMAIN on = 1..Len(on), on = [i \in 1..Len(on) |-> on[i]]
  PROVE  ReportsInv'
<1>1. PICK P : P = Reports!Periods /\ P = Reports!Periods'
  BY DEF Reports!Periods
<1>2. YearsExist'
  BY DEF YearsExist
<1>3. ReportLines(lines)'
  BY <1>1 DEF ReportLines, ReportLine, Reports!Span
<1>4. EntriesBalance(lines)'
  BY ZenonT(60) DEF EntriesBalance, InPeriods, AmountsOf
<1>5. StoredRows(balance, lines)'
  BY <1>1 DEF StoredRows, PeriodsBefore, Reports!UpTo
<1>6. (Len(lines) \in Nat /\ DOMAIN lines = 1..Len(lines) /\ lines = [i \in 1..Len(lines) |-> lines[i]])'
  OBVIOUS
<1> QED
  BY <1>2, <1>3, <1>4, <1>5, <1>6, Zenon DEF ReportsInv

(* A year that is added changes nothing of the lines before it.             *)
LEMMA YearAdds ==
  ASSUME ReportsInv, NEW y \in DOMAIN FiscalYears, Reports!CreateFiscalYear(y)
  PROVE  ReportsInv'
<1>1. /\ reportYears' = reportYears \cup {y} /\ lines' = lines /\ balance' = balance
      /\ YearsExist /\ ReportLines(lines) /\ EntriesBalance(lines) /\ StoredRows(balance, lines)
  BY DEF Reports!CreateFiscalYear, ReportsInv
<1>2. YearsExist'
  <2>1. IsFiniteSet(reportYears \cup {y})
    BY <1>1, FS_AddElement DEF YearsExist
  <2> QED
    BY <1>1, <2>1 DEF YearsExist
<1>3. PICK P, Q : P = Reports!Periods /\ Q = Reports!Periods'
  OBVIOUS
<1>4. P \subseteq Q
  BY <1>1, <1>3 DEF Reports!Periods
<1>5. ReportLines(lines)'
  BY <1>1, <1>3, <1>4 DEF ReportLines, ReportLine, Reports!Span
<1>6. EntriesBalance(lines)'
  BY <1>1 DEF EntriesBalance, InPeriods, AmountsOf
<1>7. StoredRows(balance, lines)'
  <2>1. ASSUME NEW k \in DOMAIN balance
        PROVE  /\ k = <<k[1], k[2]>> /\ k[2] \in Q
               /\ balance[k].opening = Reports!Movement(lines, k[1], {q \in Q : Reports!Before(q, k[2])})
               /\ balance[k].closing = Reports!Movement(lines, k[1], {q \in Q : q = k[2] \/ Reports!Before(q, k[2])})
    <3>1. PICK a, p : a = k[1] /\ p = k[2]
      OBVIOUS
    <3>2. /\ k = <<k[1], k[2]>> /\ p \in P
          /\ balance[k].opening = Reports!Movement(lines, a, PeriodsBefore(p))
          /\ balance[k].closing = Reports!Movement(lines, a, Reports!UpTo(p))
      BY <1>1, <1>3, <3>1 DEF StoredRows
    <3>3. \A i \in DOMAIN lines : lines[i].period \in P
      BY <1>1, <1>3 DEF ReportLines, ReportLine
    <3>4. PICK B, C : B = {q \in Q : Reports!Before(q, p)} /\ C = {q \in Q : q = p \/ Reports!Before(q, p)}
      OBVIOUS
    <3>5. LinesOf(lines, a, B) = LinesOf(lines, a, PeriodsBefore(p))
      BY <1>3, <1>4, <3>3, <3>4 DEF LinesOf, PeriodsBefore
    <3>6. LinesOf(lines, a, C) = LinesOf(lines, a, Reports!UpTo(p))
      BY <1>3, <1>4, <3>3, <3>4 DEF LinesOf, Reports!UpTo
    <3>7. /\ Reports!Movement(lines, a, B) = Reports!Movement(lines, a, PeriodsBefore(p))
          /\ Reports!Movement(lines, a, C) = Reports!Movement(lines, a, Reports!UpTo(p))
      BY <1>1, <3>5, <3>6, Moves
    <3> QED
      BY <1>4, <3>1, <3>2, <3>4, <3>7
  <2>2. \A i \in DOMAIN lines : <<lines[i].account, lines[i].period>> \in DOMAIN balance
    BY <1>1 DEF StoredRows
  <2> QED
    BY <1>1, <1>3, <2>1, <2>2 DEF StoredRows, PeriodsBefore, Reports!UpTo
<1>8. (Len(lines) \in Nat /\ DOMAIN lines = 1..Len(lines) /\ lines = [i \in 1..Len(lines) |-> lines[i]])'
  BY <1>1 DEF ReportsInv
<1> QED
  BY <1>2, <1>5, <1>6, <1>7, <1>8 DEF ReportsInv

LEMMA RecomputedKey ==
  ASSUME YearsExist, NEW on, ReportLines(on), NEW accounts,
         NEW new, new = Reports!Recompute(on, accounts), NEW k \in DOMAIN new
  PROVE  /\ k = <<k[1], k[2]>> /\ k[2] \in Reports!Periods
         /\ new[k].opening = Reports!Movement(on, k[1], PeriodsBefore(k[2]))
         /\ new[k].closing = Reports!Movement(on, k[1], Reports!UpTo(k[2]))
<1>1. k \in accounts \X Reports!Periods
  BY DEF Reports!Recompute
<1>2. PICK a, p : k = <<a, p>> /\ a = k[1] /\ p = k[2] /\ p \in Reports!Periods
  BY <1>1
<1>3. new[k] = [opening |-> Reports!Movement(on, a, Reports!UpTo(p)) - Reports!Movement(on, a, {p}),
                movement |-> Reports!Movement(on, a, {p}),
                closing |-> Reports!Movement(on, a, Reports!UpTo(p))]
  BY <1>2 DEF Reports!Recompute
<1>4. /\ Reports!Movement(on, a, Reports!UpTo(p)) =
           Reports!Movement(on, a, PeriodsBefore(p)) + Reports!Movement(on, a, {p})
      /\ Reports!Movement(on, a, PeriodsBefore(p)) \in Int /\ Reports!Movement(on, a, {p}) \in Int
  BY <1>2, UpToParts, MovesUnion, Moves
<1>5. /\ new[k].opening = Reports!Movement(on, a, PeriodsBefore(p))
      /\ new[k].closing = Reports!Movement(on, a, Reports!UpTo(p))
  BY <1>3, <1>4
<1> QED
  BY ONLY <1>2, <1>5

LEMMA Concatenated ==
  ASSUME NEW W, NEW s \in Seq(W), NEW t \in Seq(W)
  PROVE  /\ s \o t \in Seq(W) /\ Len(s \o t) = Len(s) + Len(t)
         /\ s \o t = [i \in 1..Len(s \o t) |-> (s \o t)[i]]
         /\ \A i \in 1..(Len(s) + Len(t)) : (s \o t)[i] = IF i <= Len(s) THEN s[i] ELSE t[i - Len(s)]
<1>1. s \o t \in Seq(W)
  OBVIOUS
<1>2. Len(s \o t) = Len(s) + Len(t)
  OBVIOUS
<1>3. s \o t = [i \in 1..Len(s \o t) |-> (s \o t)[i]]
  <2>1. ASSUME NEW u \in Seq(W) PROVE u = [i \in 1..Len(u) |-> u[i]]
    OBVIOUS
  <2> QED
    BY ONLY <1>1, <2>1
<1>4. \A i \in 1..(Len(s) + Len(t)) : (s \o t)[i] = IF i <= Len(s) THEN s[i] ELSE t[i - Len(s)]
  OBVIOUS
<1> QED
  BY <1>1, <1>2, <1>3, <1>4

LEMMA PairAppended ==
  ASSUME NEW n \in Nat, NEW W, NEW s \in Seq(W), Len(s) = n, NEW t \in Seq(W), Len(t) = 2
  PROVE  /\ Len(s \o t) = n + 2 /\ s \o t = [i \in 1..(n + 2) |-> (s \o t)[i]]
         /\ \A i \in 1..n : (s \o t)[i] = s[i]
         /\ (s \o t)[n + 1] = t[1] /\ (s \o t)[n + 2] = t[2]
<1>1. PICK c, k, l : c = s \o t /\ k = Len(s) /\ l = Len(t)
  OBVIOUS
<1>2. /\ Len(c) = k + l /\ c = [i \in 1..Len(c) |-> c[i]]
      /\ \A i \in 1..(k + l) : c[i] = IF i <= k THEN s[i] ELSE t[i - k]
  BY ONLY <1>1, s \in Seq(W), t \in Seq(W), Concatenated
<1>3. k = n /\ l = 2
  BY ONLY <1>1, Len(s) = n, Len(t) = 2
<1>4. /\ Len(c) = n + 2 /\ c = [i \in 1..(n + 2) |-> c[i]]
      /\ \A i \in 1..(n + 2) : c[i] = IF i <= n THEN s[i] ELSE t[i - n]
  BY ONLY <1>2, <1>3
<1>5. \A i \in 1..n : c[i] = s[i]
  BY ONLY <1>4, n \in Nat
<1>6. n + 1 \in 1..(n + 2) /\ n + 2 \in 1..(n + 2) /\ (n + 1) - n = 1 /\ (n + 2) - n = 2
      /\ ~(n + 1 <= n) /\ ~(n + 2 <= n)
  BY ONLY n \in Nat
<1>7. c[n + 1] = t[1] /\ c[n + 2] = t[2]
  BY ONLY <1>4, <1>6
<1> QED
  BY ONLY <1>1, <1>4, <1>5, <1>7

(* Balances that are rebuilt.                                               *)
LEMMA RebuildKeeps ==
  ASSUME ReportsInv, Reports!RebuildProjections
  PROVE  ReportsInv'
<1>1. /\ balance' = Reports!Recompute(lines, Reports!Touched(lines)) /\ lines' = lines /\ reportYears' = reportYears
      /\ YearsExist /\ ReportLines(lines) /\ EntriesBalance(lines)
  BY DEF Reports!RebuildProjections, ReportsInv
<1>2. PICK new : new = Reports!Recompute(lines, Reports!Touched(lines))
  OBVIOUS
<1>3. StoredRows(new, lines)
  <2>1. ASSUME NEW k \in DOMAIN new
        PROVE  /\ k = <<k[1], k[2]>> /\ k[2] \in Reports!Periods
               /\ new[k].opening = Reports!Movement(lines, k[1], PeriodsBefore(k[2]))
               /\ new[k].closing = Reports!Movement(lines, k[1], Reports!UpTo(k[2]))
    BY <1>1, <1>2, RecomputedKey
  <2>2. ASSUME NEW i \in DOMAIN lines PROVE <<lines[i].account, lines[i].period>> \in DOMAIN new
    <3>1. PICK a, p : a = lines[i].account /\ p = lines[i].period
      OBVIOUS
    <3>2. p \in Reports!Periods
      BY <1>1, <3>1 DEF ReportLines, ReportLine
    <3>3. a \in Reports!Touched(lines) /\ Reports!Moved(lines, a, p)
      BY <3>1, <3>2 DEF Reports!Touched, Reports!Moved, Reports!UpTo
    <3> QED
      BY <1>2, <3>1, <3>2, <3>3, RecomputedDomain
  <2> QED
    BY <2>1, <2>2 DEF StoredRows
<1>4. balance' = new
  BY <1>1, <1>2
<1>5. Len(lines) \in Nat /\ DOMAIN lines = 1..Len(lines) /\ lines = [i \in 1..Len(lines) |-> lines[i]]
  BY DEF ReportsInv
<1> QED
  BY <1>1, <1>3, <1>4, <1>5, SameYears
(* An entry of two lines that come to nothing.                              *)
Appended(on, n, e1, e2) ==
  /\ n \in Nat /\ DOMAIN lines = 1..n /\ DOMAIN on = 1..(n + 2)
  /\ \A i \in 1..n : on[i] = lines[i]
  /\ on[n + 1] = e1 /\ on[n + 2] = e2
  /\ ReportLine(e1) /\ ReportLine(e2) /\ e1.period = e2.period /\ e2.amount = -e1.amount

LEMMA AppendedLines ==
  ASSUME ReportLines(lines), EntriesBalance(lines), NEW on, NEW n, NEW e1, NEW e2, Appended(on, n, e1, e2)
  PROVE  ReportLines(on) /\ EntriesBalance(on)
<1>1. n \in Nat /\ n + 1 \in 1..(n + 2) /\ n + 2 \in 1..(n + 2)
      /\ \A i \in 1..(n + 2) : i \in 1..n \/ i = n + 1 \/ i = n + 2
  BY DEF Appended
<1>2. ReportLines(on)
  <2>1. IsFiniteSet(1..(n + 2))
    <3>1. 1 \in Int /\ n + 2 \in Int
      BY <1>1
    <3> QED
      BY ONLY <3>1, FS_Interval
  <2>2. \A i \in 1..n : ReportLine(on[i])
    BY DEF Appended, ReportLines
  <2> QED
    BY <1>1, <2>1, <2>2 DEF Appended, ReportLines
<1>3. ASSUME NEW ps PROVE Sum(AmountsOf(on), InPeriods(on, ps)) = 0
  <2>1. PICK S, f, g : S = InPeriods(lines, ps) /\ f = AmountsOf(lines) /\ g = AmountsOf(on)
    OBVIOUS
  <2>2. S \in SUBSET (1..n) /\ IsFiniteSet(S) /\ Sum(f, S) = 0
    <3>1. S \in SUBSET DOMAIN lines
      BY <2>1 DEF InPeriods
    <3>2. IsFiniteSet(S)
      BY <3>1, FS_Subset DEF ReportLines
    <3> QED
      BY <2>1, <3>1, <3>2 DEF Appended, EntriesBalance
  <2>3. \A i \in S : g[i] = f[i] /\ g[i] \in Int
    <3>1. ASSUME NEW i \in S PROVE g[i] = f[i] /\ g[i] \in Int
      <4>1. i \in 1..n /\ i \in 1..(n + 2)
        BY <1>1, <2>2
      <4>2. g[i] = on[i].amount /\ f[i] = lines[i].amount /\ on[i] = lines[i]
        BY <2>1, <4>1 DEF Appended, AmountsOf
      <4>3. ReportLine(on[i])
        BY <1>2, <4>1 DEF ReportLines, Appended
      <4> QED
        BY <4>2, <4>3 DEF ReportLine
    <3> QED
      BY <3>1
  <2>4. Summable(g, S) /\ Sum(g, S) = 0
    BY <2>2, <2>3, SumAgrees DEF Summable
  <2>5. CASE e1.period \notin ps
    <3>1. InPeriods(on, ps) = S
      BY <1>1, <2>1, <2>5 DEF Appended, InPeriods
    <3> QED
      BY <2>1, <2>4, <3>1
  <2>6. CASE e1.period \in ps
    <3>1. InPeriods(on, ps) = (S \cup {n + 1}) \cup {n + 2}
      BY <1>1, <2>1, <2>6 DEF Appended, InPeriods
    <3>2. PICK x \in Int : g[n + 1] = x /\ g[n + 2] = -x
      <4>1. g[n + 1] = e1.amount /\ g[n + 2] = e2.amount
        BY <1>1, <2>1 DEF Appended, AmountsOf
      <4>2. e1.amount \in Int /\ e2.amount = -e1.amount
        BY DEF Appended, ReportLine
      <4> QED
        BY <4>1, <4>2
    <3>3. Summable(g, {n + 1}) /\ Sum(g, {n + 1}) = x
      BY <3>2, SumOfOne
    <3>4. Summable(g, {n + 2}) /\ Sum(g, {n + 2}) = -x
      BY <3>2, SumOfOne
    <3>5. S \cap {n + 1} = {} /\ (S \cup {n + 1}) \cap {n + 2} = {}
      BY <1>1, <2>2
    <3>6. PICK T : T = S \cup {n + 1}
      OBVIOUS
    <3>7. Summable(g, T) /\ Sum(g, T) = Sum(g, S) + Sum(g, {n + 1})
      BY <2>4, <3>3, <3>5, <3>6, SumUnion
    <3>8. Sum(g, T \cup {n + 2}) = Sum(g, T) + Sum(g, {n + 2})
      BY <3>4, <3>5, <3>6, <3>7, SumUnion
    <3>9. Sum(g, T \cup {n + 2}) = 0
      BY <2>4, <3>2, <3>3, <3>4, <3>7, <3>8
    <3> QED
      BY <2>1, <3>1, <3>6, <3>9
  <2> QED
    BY <2>5, <2>6
<1> QED
  BY <1>2, <1>3 DEF EntriesBalance

(* The lines of an account that an entry does not name stay as they were.   *)
LEMMA OtherMoves ==
  ASSUME ReportLines(lines), NEW on, NEW n, NEW e1, NEW e2, Appended(on, n, e1, e2), ReportLines(on),
         NEW a, a # e1.account, a # e2.account, NEW ps
  PROVE  Reports!Movement(on, a, ps) = Reports!Movement(lines, a, ps)
<1>1. PICK S : S = LinesOf(lines, a, ps)
  OBVIOUS
<1>2. n \in Nat /\ \A i \in 1..(n + 2) : i \in 1..n \/ i = n + 1 \/ i = n + 2
  BY DEF Appended
<1>3. LinesOf(on, a, ps) = S
  BY <1>1, <1>2 DEF Appended, LinesOf
<1>4. S \subseteq 1..n /\ IsFiniteSet(S)
  <2>1. S \subseteq DOMAIN lines /\ DOMAIN lines = 1..n
    BY <1>1 DEF LinesOf, Appended
  <2>2. Summable(AmountsOf(lines), S)
    BY <1>1, Moves
  <2> QED
    BY <2>1, <2>2 DEF Summable
<1>5. \A i \in S : AmountsOf(on)[i] = AmountsOf(lines)[i]
  <2>1. ASSUME NEW i \in S PROVE i \in DOMAIN on /\ i \in DOMAIN lines /\ on[i] = lines[i]
    <3>1. i \in 1..n
      BY <1>4
    <3> QED
      BY <1>2, <3>1 DEF Appended
  <2> QED
    BY <2>1 DEF AmountsOf
<1>6. Sum(AmountsOf(on), S) = Sum(AmountsOf(lines), S)
  BY <1>4, <1>5, SumAgrees
<1> QED
  BY <1>1, <1>3, <1>6, Moves

LEMMA RefreshedRows ==
  ASSUME YearsExist, ReportLines(lines), StoredRows(balance, lines), NEW on, NEW n, NEW e1, NEW e2,
         Appended(on, n, e1, e2), ReportLines(on),
         NEW stored, stored = Reports!Refreshed(on, {e1.account, e2.account})
  PROVE  StoredRows(stored, on)
<1>1. PICK named, new, kept : /\ named = {e1.account, e2.account} /\ new = Reports!Recompute(on, named)
                              /\ kept = {k \in DOMAIN balance : k[1] \notin named}
  OBVIOUS
<1>2. stored = [k \in kept \cup DOMAIN new |-> IF k \in kept THEN balance[k] ELSE new[k]]
  BY <1>1 DEF Reports!Refreshed
<1>3. n \in Nat /\ \A i \in 1..(n + 2) : i \in 1..n \/ i = n + 1 \/ i = n + 2
  BY DEF Appended
<1>4. ASSUME NEW k \in DOMAIN stored
      PROVE  /\ k = <<k[1], k[2]>> /\ k[2] \in Reports!Periods
             /\ stored[k].opening = Reports!Movement(on, k[1], PeriodsBefore(k[2]))
             /\ stored[k].closing = Reports!Movement(on, k[1], Reports!UpTo(k[2]))
  <2>1. CASE k \in kept
    <3>1. stored[k] = balance[k] /\ k \in DOMAIN balance /\ k[1] # e1.account /\ k[1] # e2.account
      BY <1>1, <1>2, <2>1
    <3>2. /\ k = <<k[1], k[2]>> /\ k[2] \in Reports!Periods
          /\ balance[k].opening = Reports!Movement(lines, k[1], PeriodsBefore(k[2]))
          /\ balance[k].closing = Reports!Movement(lines, k[1], Reports!UpTo(k[2]))
      BY <3>1 DEF StoredRows
    <3>3. /\ Reports!Movement(on, k[1], PeriodsBefore(k[2])) = Reports!Movement(lines, k[1], PeriodsBefore(k[2]))
          /\ Reports!Movement(on, k[1], Reports!UpTo(k[2])) = Reports!Movement(lines, k[1], Reports!UpTo(k[2]))
      BY <3>1, OtherMoves
    <3> QED
      BY <3>1, <3>2, <3>3
  <2>2. CASE k \notin kept
    <3>1. k \in DOMAIN new /\ stored[k] = new[k]
      BY <1>2, <2>2
    <3>2. /\ k = <<k[1], k[2]>> /\ k[2] \in Reports!Periods
          /\ new[k].opening = Reports!Movement(on, k[1], PeriodsBefore(k[2]))
          /\ new[k].closing = Reports!Movement(on, k[1], Reports!UpTo(k[2]))
      BY <1>1, <3>1, RecomputedKey
    <3> QED
      BY <3>1, <3>2
  <2> QED
    BY <2>1, <2>2
<1>5. ASSUME NEW i \in DOMAIN on PROVE <<on[i].account, on[i].period>> \in DOMAIN stored
  <2>1. PICK a, p : a = on[i].account /\ p = on[i].period
    OBVIOUS
  <2>2. p \in Reports!Periods
    BY <2>1 DEF ReportLines, ReportLine
  <2>3. CASE a \in named
    <3>1. Reports!Moved(on, a, p)
      BY <2>1, <2>2 DEF Reports!Moved, Reports!UpTo
    <3>2. <<a, p>> \in DOMAIN new
      BY <1>1, <2>2, <2>3, <3>1, RecomputedDomain
    <3> QED
      BY <1>2, <2>1, <3>2
  <2>4. CASE a \notin named
    <3>1. i \in 1..n /\ i \in DOMAIN lines /\ on[i] = lines[i]
      BY <1>1, <1>3, <2>1, <2>4 DEF Appended
    <3>2. <<a, p>> \in DOMAIN balance
      BY <2>1, <3>1 DEF StoredRows
    <3>3. PICK k : k = <<a, p>>
      OBVIOUS
    <3>4. k[1] = a
      BY <3>3
    <3>5. k \in kept
      BY <1>1, <2>4, <3>2, <3>3, <3>4
    <3> QED
      BY <1>2, <2>1, <3>3, <3>5
  <2> QED
    BY <2>3, <2>4
<1> QED
  BY <1>4, <1>5 DEF StoredRows

LEMMA PostKeeps ==
  ASSUME ReportsInv, NEW a \in ReportAccounts, NEW b \in ReportAccounts, NEW p \in Reports!Periods,
         NEW amount \in Amounts, NEW day \in Reports!Span(p).start..Reports!Span(p).end,
         Reports!Post(a, b, p, day, amount)
  PROVE  ReportsInv'
<1>1. PICK e1, e2 : /\ e1 = [account |-> a, period |-> p, day |-> day, amount |-> amount]
                    /\ e2 = [account |-> b, period |-> p, day |-> day, amount |-> -amount]
  OBVIOUS
<1>2. PICK on : on = lines \o <<e1, e2>>
  OBVIOUS
<1>3. lines' = on /\ balance' = Reports!Refreshed(on, {a, b}) /\ reportYears' = reportYears
  BY <1>1, <1>2 DEF Reports!Post
<1>4. PICK n \in Nat : n = Len(lines) /\ DOMAIN lines = 1..n
  BY DEF ReportsInv
<1>5. /\ YearsExist /\ ReportLines(lines) /\ EntriesBalance(lines) /\ StoredRows(balance, lines)
      /\ lines = [i \in 1..n |-> lines[i]]
  BY <1>4 DEF ReportsInv
<1>6. ReportLine(e1) /\ ReportLine(e2) /\ e1.account = a /\ e2.account = b /\ e1.period = e2.period
      /\ e2.amount = -e1.amount
  <2>1. amount \in Int
    BY FiguresAssumption, Zenon DEF Reports!YearsAssumption
  <2>2. PICK s \in Nat, e \in Nat : s = Reports!Span(p).start /\ e = Reports!Span(p).end
    BY <1>5, PeriodType
  <2>3. day \in Nat /\ s <= day /\ day <= e
    BY <2>2
  <2> QED
    BY <1>1, <2>1, <2>2, <2>3 DEF ReportLine
<1>7. PICK W : W = {lines[i] : i \in 1..n} \cup {e1, e2}
  OBVIOUS
<1>8. lines \in Seq(W) /\ <<e1, e2>> \in Seq(W)
  <2>1. lines \in [1..n -> W]
    BY <1>5, <1>7
  <2>2. lines \in Seq(W)
    BY <2>1
  <2> QED
    BY <1>7, <2>2
<1>9. /\ Len(on) = n + 2 /\ DOMAIN on = 1..(n + 2) /\ on = [i \in 1..(n + 2) |-> on[i]]
      /\ \A i \in 1..n : on[i] = lines[i]
      /\ on[n + 1] = e1 /\ on[n + 2] = e2
  <2>1. PICK pair : pair = <<e1, e2>>
    OBVIOUS
  <2>2. pair \in Seq(W) /\ Len(pair) = 2 /\ pair[1] = e1 /\ pair[2] = e2
    BY <1>8, <2>1
  <2>3. PICK s : s = lines /\ s \in Seq(W) /\ Len(s) = n
    BY <1>4, <1>8
  <2>4. on = s \o pair
    BY <1>2, <2>1, <2>3
  <2>5. /\ Len(s \o pair) = n + 2 /\ s \o pair = [i \in 1..(n + 2) |-> (s \o pair)[i]]
        /\ \A i \in 1..n : (s \o pair)[i] = s[i]
        /\ (s \o pair)[n + 1] = pair[1] /\ (s \o pair)[n + 2] = pair[2]
    BY <1>4, <2>2, <2>3, PairAppended
  <2> QED
    BY <1>2, <2>1, <2>2, <2>3, <2>4, <2>5
<1>10. Appended(on, n, e1, e2)
  BY <1>4, <1>6, <1>9 DEF Appended
<1>11. ReportLines(on) /\ EntriesBalance(on)
  BY <1>5, <1>10, AppendedLines
<1>12. PICK stored : stored = Reports!Refreshed(on, {a, b})
  OBVIOUS
<1>13. StoredRows(stored, on)
  BY <1>5, <1>6, <1>10, <1>11, <1>12, RefreshedRows
<1>14. Len(on) \in Nat /\ DOMAIN on = 1..Len(on) /\ on = [i \in 1..Len(on) |-> on[i]]
  BY <1>4, <1>9
<1> QED
  BY <1>3, <1>5, <1>11, <1>12, <1>13, <1>14, SameYears

LEMMA ReportsStep == ReportsInv /\ [Reports!Next]_(Reports!vars) => ReportsInv'
<1> SUFFICES ASSUME ReportsInv, [Reports!Next]_(Reports!vars) PROVE ReportsInv'
  OBVIOUS
<1>1. CASE UNCHANGED Reports!vars
  BY <1>1, SameYears DEF Reports!vars, ReportsInv
<1> QED
  BY <1>1, YearAdds, PostKeeps, RebuildKeeps DEF Reports!Next

(* Figures that were rounded add up: a document's lines and its totals, the  *)
(* entry it posts, the lines a rule drafts, what settles an invoice at other *)
(* rates, and the columns of every report, over any dates.                   *)
THEOREM FiguresHold == PlatformSpec => []FiguresAddUp
<1> DEFINE CalculationHolds == CalculationInv /\ Calculation!PostsWhatItCalculates
           ForeignHolds == ForeignInv /\ Foreign!SettlementPosts
<1>1. PlatformInit => CalculationHolds /\ ForeignHolds /\ RulesInv /\ ReportsInv
  BY CalculationInit, OnlyCalculation, ForeignInit, OnlyForeign, RulesInit, OnlyRules, ReportsInit,
     OnlyReports
<1>2. [PlatformNext]_platform /\ CalculationHolds => CalculationHolds'
  BY CalculationStep, OnlyCalculation
<1>3. [PlatformNext]_platform /\ ForeignHolds => ForeignHolds'
  BY ForeignStep, OnlyForeign
<1>4. [PlatformNext]_platform /\ RulesInv => RulesInv'
  BY RulesStep, OnlyRules
<1>5. [PlatformNext]_platform /\ ReportsInv => ReportsInv'
  BY ReportsStep, OnlyReports
<1>6. CalculationHolds /\ ForeignHolds /\ RulesInv /\ ReportsInv => FiguresAddUp
  BY CalculationImplies, ForeignFigures, ReportsImply DEF RulesInv, FiguresAddUp
<1> QED
  BY <1>1, <1>2, <1>3, <1>4, <1>5, <1>6, PTL DEF PlatformSpec
=============================================================================

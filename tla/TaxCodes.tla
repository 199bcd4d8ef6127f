------------------------------ MODULE TaxCodes ------------------------------
(***************************************************************************)
(* What a line is taxed at: tax.service's codes, components and            *)
(* effective-dated rates, the rules that pick a code for a line that names *)
(* none, and localization.service's choice of a statutory regime.          *)
(*                                                                         *)
(* Dates are numbers and a rate is in force from its first date up to the  *)
(* one it ends before.  Rules have no operation: they are given.  Nothing  *)
(* closes a rate that has no end.                                          *)
(***************************************************************************)
EXTENDS Integers, FiniteSets

CONSTANTS
  Codes, Components, Dates, Percents,
  OwnedBy,      \* code of a component
  Rules,        \* priority, from, to, when: what each fact must be, code (None: result later)
  Facts,        \* what may be known of a line, by fact
  Packages,     \* versions of packages that can be installed
  Sessions,
  MaxTaxed

None == "none"
Never == 1000

(* Dates are days; there are so many rules, of some priority, for codes of  *)
(* the tenant.                                                              *)
RulesAssumption ==
  /\ Dates \subseteq Int
  /\ IsFiniteSet(Rules)
  /\ \A r \in Rules : r.priority \in Nat /\ r.code \in Codes \cup {None}

VARIABLES
  treatment,    \* tax_codes
  rates,        \* tax_rates of a component
  taxed,        \* calculated lines: their snapshot
  installed,    \* localization_installations of the entity
  installing    \* per session, what it asked for once it has read that none is installed

vars == <<treatment, rates, taxed, installed, installing>>

ComponentsOf(k) == {c \in Components : OwnedBy[c] = k}

Init ==
  /\ treatment = [k \in Codes |-> None]
  /\ rates = [c \in Components |-> {}]
  /\ taxed = {} /\ installed = {}
  /\ installing = [s \in Sessions |-> None]

(* A code comes with all its components or stays without.                   *)
CreateTaxCode(k, t) ==
  /\ treatment[k] = None
  /\ treatment' = [treatment EXCEPT ![k] = t]
  /\ UNCHANGED <<rates, taxed, installed, installing>>

(* tax_rates_no_overlap and tax_rates_dates.                                *)
CreateTaxRate(c, from, to, percent) ==
  /\ treatment[OwnedBy[c]] # None /\ from < to
  /\ \A r \in rates[c] : r.to <= from \/ to <= r.from
  /\ rates' = [rates EXCEPT ![c] = @ \cup {[from |-> from, to |-> to, percent |-> percent]}]
  /\ UNCHANGED <<treatment, taxed, installed, installing>>

(* The latest of the rates in force on the date.                            *)
InForce(c, on) == {r \in rates[c] : r.from <= on /\ on < r.to}
RateOn(c, on) ==
  (CHOOSE r \in InForce(c, on) : \A q \in InForce(c, on) : q.from <= r.from).percent

(* resolveCodes refuses a component without a rate and a STANDARD code      *)
(* without components.                                                      *)
Resolvable(k, on) ==
  /\ treatment[k] # None
  /\ \A c \in ComponentsOf(k) : InForce(c, on) # {}
  /\ treatment[k] = "STANDARD" => ComponentsOf(k) # {}
ResolveCode(k, on) ==
  IF k = None THEN {} ELSE {[component |-> c, percent |-> RateOn(c, on)] : c \in ComponentsOf(k)}

(* determine: of the rules in force that have a code and whose every        *)
(* condition holds, the one of highest priority; none, and the line is      *)
(* not taxed.  A condition on a fact lists the values it may have.          *)
Matching(facts, on) ==
  {r \in Rules : /\ r.code # None /\ r.from <= on /\ on < r.to
                 /\ \A f \in DOMAIN r.when : f \in DOMAIN facts /\ facts[f] \in r.when[f]}
Determine(facts, on) ==
  IF Matching(facts, on) = {} THEN None
  ELSE (CHOOSE r \in Matching(facts, on) :
          \A q \in Matching(facts, on) : q.priority <= r.priority).code

Calculate(stated, facts, on) ==
  LET k == IF stated # None THEN stated ELSE Determine(facts, on)
  IN /\ Cardinality(taxed) < MaxTaxed
     /\ k # None => Resolvable(k, on)
     /\ taxed' = taxed \cup {[code |-> k, on |-> on, rates |-> ResolveCode(k, on)]}
     /\ UNCHANGED <<treatment, rates, installed, installing>>
-----------------------------------------------------------------------------
(* decideInstallation: into nothing, or again what is there.  The row that  *)
(* is locked exists only once something is installed.                       *)
DecideInstallation(s, p) ==
  /\ installing[s] = None /\ installed = {}
  /\ installing' = [installing EXCEPT ![s] = p]
  /\ UNCHANGED <<treatment, rates, taxed, installed>>

InstallLocalization(s) ==   \* the same version twice breaks the unique constraint
  /\ installing[s] # None
  /\ installed' = installed \cup {installing[s]}
  /\ installing' = [installing EXCEPT ![s] = None]
  /\ UNCHANGED <<treatment, rates, taxed>>

Next ==
  \/ \E k \in Codes, t \in {"STANDARD", "ZERO_RATED"} : CreateTaxCode(k, t)
  \/ \E c \in Components, from \in Dates, to \in Dates \cup {Never}, p \in Percents :
       CreateTaxRate(c, from, to, p)
  \/ \E k \in Codes \cup {None}, facts \in Facts, on \in Dates : Calculate(k, facts, on)
  \/ \E s \in Sessions : InstallLocalization(s) \/ \E p \in Packages : DecideInstallation(s, p)

Spec == Init /\ [][Next]_vars
-----------------------------------------------------------------------------
(* A posted line keeps its snapshot, and recalculating it on its date gives *)
(* the same rates whatever was configured since: no date ever gets a second *)
(* rate for a component, and none it was refused for is made up.            *)
SnapshotsReproduce ==
  \A x \in taxed : x.code # None =>
    /\ x.rates = ResolveCode(x.code, x.on)
    /\ treatment[x.code] = "STANDARD" => x.rates # {}

(* "Lock the current installation row so two concurrent installs            *)
(* serialise": one regime at a time (refuted: two first installs have no    *)
(* row to lock).                                                            *)
OneRegime == Cardinality(installed) <= 1
=============================================================================

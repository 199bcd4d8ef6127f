----------------------------- MODULE EntitySetup -----------------------------
(***************************************************************************)
(* One legal entity from its creation to the entries posted in it:         *)
(* organization.service, configuration.service, and what posting reads of  *)
(* them (posting.service loadBookContext, the subledger's policyAccount).  *)
(*                                                                         *)
(* An update locks the entity's row; posting does not.                     *)
(***************************************************************************)
EXTENDS Integers, Sequences, FiniteSets

CONSTANTS
  Currencies,
  Dates,
  Methods,         \* retained-earnings methods
  ShippedMethod,   \* the column's default
  Accounts,        \* control accounts a policy may name
  Sessions,        \* requests to post
  MaxVersions,     \* bound on the versions of one policy, and on the entity's
  MaxEntries       \* bound on the entries posted

None == "none"
(* A policy is the entity's default or its primary book's own.              *)
Scopes == {"entity", "book"}

(* Dates are days; a version without a last day has 0 for it.               *)
DatesAssumption == Dates \subseteq Nat \ {0}

VARIABLES
  entity,      \* legal_entities: functional_currency, posting_enabled, version
  book,        \* the primary book's base_currency
  setup,       \* what exists of "fiscal_calendar", "number_sequences", "branch"
  policy,      \* accounting_policies of a scope, in version order
  closed,      \* a period is HARD_CLOSED
  posting,     \* of a session: what it has read
  entries      \* posted

vars == <<entity, book, setup, policy, closed, posting, entries>>

Idle == [date |-> 0, currency |-> None, scope |-> None, version |-> 0]

Init ==
  /\ entity = [currency |-> None, enabled |-> FALSE, version |-> 0]
  /\ book = None /\ setup = {} /\ closed = FALSE
  /\ policy = [s \in Scopes |-> <<>>]
  /\ posting = [s \in Sessions |-> Idle]
  /\ entries = {}

Created == entity.currency # None
-----------------------------------------------------------------------------
(* The primary book comes with the entity and takes its currency.           *)
CreateLegalEntity(currency) ==
  /\ ~Created
  /\ entity' = [currency |-> currency, enabled |-> FALSE, version |-> 1]
  /\ book' = currency
  /\ UNCHANGED <<setup, policy, closed, posting, entries>>

(* Refused once an entry is posted; the book keeps its currency.            *)
UpdateLegalEntity(version, currency) ==
  /\ Created /\ version = entity.version /\ version <= MaxVersions
  /\ currency # entity.currency => entries = {}
  /\ entity' = [entity EXCEPT !.currency = currency, !.version = @ + 1]
  /\ UNCHANGED <<book, setup, policy, closed, posting, entries>>

Configure(what) ==   \* createFiscalYear, createNumberSequence, createBranch
  /\ Created /\ what \notin setup
  /\ setup' = setup \cup {what}
  /\ UNCHANGED <<entity, book, policy, closed, posting, entries>>

(* readiness: the primary book is there from the start.                     *)
Ready == {"fiscal_calendar", "number_sequences"} \subseteq setup /\ \E s \in Scopes : policy[s] # <<>>

ActivateLegalEntity ==
  /\ Created /\ Ready /\ ~entity.enabled
  /\ entity' = [entity EXCEPT !.enabled = TRUE, !.version = @ + 1]
  /\ UNCHANGED <<book, setup, policy, closed, posting, entries>>

Latest(s) == policy[s][Len(policy[s])]
Given(method) == IF method = None THEN ShippedMethod ELSE method

(* The version before ends where the new one begins.  A column that is not  *)
(* given takes the table's default, not the value it had.                   *)
CreatePolicyVersion(s, from, method, account) ==
  LET n == Len(policy[s]) IN
  /\ Created /\ n < MaxVersions
  /\ n > 0 => from > Latest(s).from
  /\ n > 0 /\ method # None /\ method # Latest(s).method => ~closed
  /\ policy' = [policy EXCEPT ![s] =
       Append([i \in 1..n |-> IF i = n THEN [@[i] EXCEPT !.to = from] ELSE @[i]],
              [from |-> from, to |-> 0, method |-> Given(method), account |-> account])]
  /\ UNCHANGED <<entity, book, setup, closed, posting, entries>>

TransitionPeriod ==   \* the one period hard-closed, or reopened
  /\ "fiscal_calendar" \in setup
  /\ closed' = ~closed
  /\ UNCHANGED <<entity, book, setup, policy, posting, entries>>
-----------------------------------------------------------------------------
InForce(s, date) ==
  {i \in DOMAIN policy[s] : policy[s][i].from <= date /\ (policy[s][i].to = 0 \/ date < policy[s][i].to)}

(* loadBookContext: the book's own policy before the entity's.              *)
PolicyOn(date) ==
  LET own == InForce("book", date)
      default == InForce("entity", date)
      newest(s) == [scope |-> s, version |-> CHOOSE i \in InForce(s, date) : \A j \in InForce(s, date) : j <= i]
  IN IF own # {} THEN newest("book")
     ELSE IF default # {} THEN newest("entity") ELSE [scope |-> None, version |-> 0]

(* policyAccount: the latest to begin, whichever its scope.                 *)
PolicyAccounts(date) ==
  LET begun == {b \in Scopes \X (1..MaxVersions) :
                  b[2] \in DOMAIN policy[b[1]] /\ policy[b[1]][b[2]].from <= date}
      From(b) == policy[b[1]][b[2]].from
  IN {policy[b[1]][b[2]].account : b \in {b \in begun : \A c \in begun : From(c) <= From(b)}}

BeginPost(p, date) ==
  /\ posting[p] = Idle /\ entity.enabled /\ Cardinality(entries) < MaxEntries
  /\ posting' = [posting EXCEPT ![p] = 
       [date |-> date, currency |-> book, scope |-> PolicyOn(date).scope, version |-> PolicyOn(date).version]]
  /\ UNCHANGED <<entity, book, setup, policy, closed, entries>>

CommitPost(p) ==
  /\ posting[p] # Idle
  /\ entries' = entries \cup {posting[p]}
  /\ posting' = [posting EXCEPT ![p] = Idle]
  /\ UNCHANGED <<entity, book, setup, policy, closed>>

Next ==
  \/ \E c \in Currencies : CreateLegalEntity(c) \/ UpdateLegalEntity(entity.version, c)
  \/ \E what \in {"fiscal_calendar", "number_sequences", "branch"} : Configure(what)
  \/ ActivateLegalEntity \/ TransitionPeriod
  \/ \E s \in Scopes, from \in Dates, m \in Methods \cup {None}, a \in Accounts :
       CreatePolicyVersion(s, from, m, a)
  \/ \E p \in Sessions : (\E date \in Dates : BeginPost(p, date)) \/ CommitPost(p)

Spec == Init /\ [][Next]_vars
-----------------------------------------------------------------------------
(* A scope's policies leave no day out and none twice, from the first on:   *)
(* the policy of a date is one, however often it has been superseded.       *)
OnePolicyPerDay ==
  \A s \in Scopes, date \in Dates :
    policy[s] # <<>> /\ policy[s][1].from <= date => Cardinality(InForce(s, date)) = 1

(* An entry is in its book's currency, "and changing it would silently      *)
(* reinterpret history" (refuted in its other half: an entity whose         *)
(* currency is changed before it posts leaves its book behind).             *)
PostedInFunctionalCurrency == \A e \in entries : e.currency = entity.currency

(* "The retained-earnings method cannot be changed once a period has been   *)
(* hard-closed" (refuted: a version that does not name the method).         *)
MethodIsFrozen ==
  [][closed => \A s \in Scopes : policy[s] # <<>> =>
       policy'[s][Len(policy'[s])].method = Latest(s).method]_vars

(* The account a document posts to is that of the policy its entry posts    *)
(* under (refuted where a book has a policy of its own: posting prefers it, *)
(* the subledger takes the latest to begin).                                *)
OnePolicyPerDocument ==
  \A date \in Dates : LET p == PolicyOn(date) IN
    p.scope # None => PolicyAccounts(date) = {policy[p.scope][p.version].account}

(* "A policy version cannot be back-dated over one that documents already   *)
(* used" (refuted: only the version's own first day is protected).          *)
EntriesKeepTheirPolicy ==
  \A e \in entries : e.scope # None => e.version \in InForce(e.scope, e.date)
=============================================================================

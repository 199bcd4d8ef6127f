--------------------------- MODULE ChartOfAccounts ---------------------------
(***************************************************************************)
(* The chart of one legal entity, changed while lines are written to it:   *)
(* chart.service, the account and dimension checks of posting.ts, and the  *)
(* two triggers that repeat them.                                          *)
(*                                                                         *)
(* Creating a child reads its parent without a lock; updating an account   *)
(* locks the row.  Writing a line reads the account, and inserting it      *)
(* holds its row against such a lock until the transaction commits.        *)
(***************************************************************************)
EXTENDS Naturals, FiniteSets

CONSTANTS
  Accounts, Types,
  Creators,      \* sessions that create an account
  Writers,       \* sessions that write a journal line
  Dimensions, Values

None == "none"
Root == "root"
Optional == [rule |-> "OPTIONAL", default |-> None]

VARIABLES
  account,       \* accounts: status, type, is_posting, parent
  system,        \* those a posting rule depends on
  rules,         \* account_dimension_rules, OPTIONAL where there is none
  creating,      \* the parent a creator has read, its child
  line           \* of a writer: account, its type then, dimensions, how far it is

vars == <<account, system, rules, creating, line>>

NoAccount == [status |-> None, type |-> None, posting |-> FALSE, parent |-> Root]
NoLine == [step |-> None, account |-> None, type |-> None, dimensions |-> <<>>]

Init ==
  /\ account = [a \in Accounts |-> NoAccount]
  /\ system \in SUBSET Accounts
  /\ rules = [a \in Accounts |-> [d \in Dimensions |-> Optional]]
  /\ creating = [s \in Creators |-> [parent |-> None, child |-> None]]
  /\ line = [w \in Writers |-> NoLine]

Exists(a) == account[a].status # None
Children(a) == {b \in Accounts : Exists(b) /\ account[b].parent = a}
Committed(a) == {w \in Writers : line[w].step = "committed" /\ line[w].account = a}
(* Row locks held: by a line being inserted, by a parent being demoted.     *)
Shared(a) == \E w \in Writers : line[w].step = "inserted" /\ line[w].account = a
Demoting(a) == \E s \in Creators : creating[s].parent = a /\ account[a].posting
-----------------------------------------------------------------------------
(* A parent that posts stops posting, with the child that makes it one.     *)
ReadParent(s, p, a) ==
  /\ creating[s].child = None /\ ~Exists(a)
  /\ p # Root => p # a /\ Exists(p) /\ ~Demoting(p)
  /\ creating' = [creating EXCEPT ![s] = [parent |-> p, child |-> a]]
  /\ UNCHANGED <<account, system, rules, line>>

CreateAccount(s, type, posting) ==
  LET p == creating[s].parent
      a == creating[s].child
  IN /\ a # None
     /\ account' =
          IF Exists(a) THEN account   \* its code is taken by now
          ELSE [b \in Accounts |->
                  IF b = a THEN [status |-> "ACTIVE", type |-> type, posting |-> posting, parent |-> p]
                  ELSE IF b = p THEN [account[b] EXCEPT !.posting = FALSE]
                  ELSE account[b]]
     /\ creating' = [creating EXCEPT ![s] = [parent |-> None, child |-> None]]
     /\ UNCHANGED <<system, rules, line>>

(* Lines are counted by the trigger, once the lock is held: it sees what    *)
(* the lock waited for.                                                     *)
UpdateAccount_Unlocked(a, type, posting, status) ==   \* mutant: no FOR UPDATE
  /\ Exists(a) /\ ~Demoting(a)
  /\ type # account[a].type => Committed(a) = {}
  /\ status = "ARCHIVED" => a \notin system
  /\ posting => Children(a) = {}
  /\ account' = [account EXCEPT ![a].type = type, ![a].posting = posting, ![a].status = status]
  /\ UNCHANGED <<system, rules, creating, line>>

UpdateAccount(a, type, posting, status) ==
  /\ Exists(a) /\ ~Shared(a) /\ ~Demoting(a)
  /\ type # account[a].type => Committed(a) = {}
  /\ status = "ARCHIVED" => a \notin system
  /\ posting => Children(a) = {}
  /\ account' = [account EXCEPT ![a].type = type, ![a].posting = posting, ![a].status = status]
  /\ UNCHANGED <<system, rules, creating, line>>

(* All are deleted, then those given inserted; calls for one account that   *)
(* overlap are not modelled.                                                *)
SetAccountDimensionRules(a, given) ==
  /\ Exists(a)
  /\ \A d \in Dimensions : given[d].rule = "DEFAULTED" <=> given[d].default # None
  /\ rules' = [rules EXCEPT ![a] = given]
  /\ UNCHANGED <<account, system, creating, line>>
-----------------------------------------------------------------------------
Postable(a) == account[a].posting /\ account[a].status = "ACTIVE"

Refused(rule, value) ==
  \/ rule.rule = "REQUIRED" /\ value = None
  \/ rule.rule = "PROHIBITED" /\ value # None
Resolved(rule, value) == IF rule.rule = "DEFAULTED" /\ value = None THEN rule.default ELSE value

(* prepareLines.                                                            *)
PrepareLine(w, a, supplied) ==
  /\ line[w].step = None /\ Postable(a)
  /\ \A d \in Dimensions : ~Refused(rules[a][d], supplied[d])
  /\ line' = [line EXCEPT ![w] =
       [step |-> "prepared", account |-> a, type |-> None,
        dimensions |-> [d \in Dimensions |-> Resolved(rules[a][d], supplied[d])]]]
  /\ UNCHANGED <<account, system, rules, creating>>

(* journal_lines_account_postable, then the foreign key's row lock.         *)
InsertLine(w) ==
  /\ line[w].step = "prepared" /\ Postable(line[w].account)
  /\ line' = [line EXCEPT ![w].step = "inserted", ![w].type = account[line[w].account].type]
  /\ UNCHANGED <<account, system, rules, creating>>

CommitLine(w) ==
  /\ line[w].step = "inserted"
  /\ line' = [line EXCEPT ![w].step = "committed"]
  /\ UNCHANGED <<account, system, rules, creating>>

Given == [Dimensions -> [rule : {"REQUIRED", "OPTIONAL", "PROHIBITED", "DEFAULTED"},
                         default : Values \cup {None}]]
Next ==
  \/ \E s \in Creators :
       \/ \E p \in Accounts \cup {Root}, a \in Accounts : ReadParent(s, p, a)
       \/ \E type \in Types, posting \in BOOLEAN : CreateAccount(s, type, posting)
  \/ \E a \in Accounts :
       \/ \E type \in Types, posting \in BOOLEAN, status \in {"ACTIVE", "ARCHIVED"} :
            UpdateAccount(a, type, posting, status)
       \/ \E given \in Given : SetAccountDimensionRules(a, given)
  \/ \E w \in Writers :
       \/ \E a \in Accounts, supplied \in [Dimensions -> Values \cup {None}] :
            PrepareLine(w, a, supplied)
       \/ InsertLine(w) \/ CommitLine(w)

Spec == Init /\ [][Next]_vars
-----------------------------------------------------------------------------
(* An account keeps the type under which its first line was written,        *)
(* however the change and the writing overlap.                              *)
TypeIsLocked ==
  \A w \in Writers : line[w].step \in {"inserted", "committed"} =>
    account[line[w].account].type = line[w].type

(* A parent stops posting "or the chart has balances at two levels of the   *)
(* same subtree and every roll-up double-counts" (refuted: an account that  *)
(* carries lines becomes a parent with them).                               *)
BalancesAtOneLevel == \A a \in Accounts : Committed(a) = {} \/ Children(a) = {}
=============================================================================
